------------------------------ MODULE WaitFor ------------------------------
(***************************************************************************)
(* Runner.WaitFor (harness/runner.go): poll fn until it returns nil or the *)
(* deadline has passed.  Time is a number of ticks since the call; fn      *)
(* looks at a condition of the outside world, which may come and go, at    *)
(* some moment while it runs.                                              *)
(***************************************************************************)
EXTENDS Integers

CONSTANTS
  MinDeadline, MinInterval,  \* one second and 200 ms
  MaxCall,  \* bound: how long one call of fn takes
  MaxLag    \* bound: how much longer than asked time.Sleep sleeps

ASSUME WaitAssumption ==
  /\ MinDeadline \in Nat \ {0} /\ MinInterval \in Nat \ {0}
  /\ MaxCall \in Nat /\ MaxLag \in Nat

VARIABLES
  w,       \* where WaitFor is, "off" when nobody waits
  now,     \* the clock
  end,     \* its local variable end
  nap,     \* its parameter interval
  lastErr, \* lastErr is not nil
  from,    \* when the call of fn, or the sleep, under way began
  saw,     \* what that call has found
  ready,   \* the condition
  since    \* when that last changed, or the wait began

condition == <<ready, since>>
waitVars  == <<w, now, end, nap, lastErr, from, saw, condition>>

AtLeast(n, min) == IF n < min THEN min ELSE n

(* Nobody waits: nothing is remembered of an earlier call. *)
Off ==
  /\ w' = "off" /\ now' = 0 /\ end' = 0 /\ nap' = 0
  /\ lastErr' = FALSE /\ from' = 0 /\ saw' = FALSE /\ since' = 0

(* A slip in WaitBegin: the deadline is taken as the caller gave it.       *)
DeadlineUnclamped(deadline, interval) ==
  /\ w = "off"
  /\ w' = "check"
  /\ end' = deadline /\ nap' = AtLeast(interval, MinInterval)
  /\ UNCHANGED <<now, lastErr, from, saw, condition>>

WaitBegin(deadline, interval) ==
  /\ w = "off"
  /\ w' = "check"
  /\ end' = AtLeast(deadline, MinDeadline) /\ nap' = AtLeast(interval, MinInterval)
  /\ UNCHANGED <<now, lastErr, from, saw, condition>>

(* A slip in Check: no call is begun that the sleep after it might let     *)
(* end too late.                                                           *)
CheckAhead ==
  /\ w = "check"
  /\ IF now + nap < end THEN w' = "call" /\ from' = now
                        ELSE w' = "timeout" /\ UNCHANGED from
  /\ UNCHANGED <<now, end, nap, lastErr, saw, condition>>

(* for time.Now().Before(end): the last sleep is followed by no call.      *)
Check ==
  /\ w = "check"
  /\ IF now < end THEN w' = "call" /\ from' = now
                  ELSE w' = "timeout" /\ UNCHANGED from
  /\ UNCHANGED <<now, end, nap, lastErr, saw, condition>>

Looks ==
  /\ w = "call"
  /\ w' = "looked" /\ saw' = ready
  /\ UNCHANGED <<now, end, nap, lastErr, from, condition>>

(* fn returns: nil ends the wait, however late. *)
Returns ==
  /\ w = "looked"
  /\ IF saw THEN w' = "nil" /\ UNCHANGED <<lastErr, from>>
            ELSE w' = "sleep" /\ lastErr' = TRUE /\ from' = now
  /\ UNCHANGED <<now, end, nap, saw, condition>>

Wakes ==
  /\ w = "sleep"
  /\ from + nap <= now
  /\ w' = "check"
  /\ UNCHANGED <<now, end, nap, lastErr, from, saw, condition>>

Tick ==
  /\ \/ w \in {"call", "looked"} /\ now < from + MaxCall
     \/ w = "sleep" /\ now < from + nap + MaxLag
  /\ now' = now + 1
  /\ UNCHANGED <<w, end, nap, lastErr, from, saw, condition>>

Flips ==
  /\ w \in {"call", "looked", "sleep"}
  /\ ready' = ~ready /\ since' = now
  /\ UNCHANGED <<w, now, end, nap, lastErr, from, saw>>

WaitStep == Check \/ Looks \/ Returns \/ Wakes \/ Tick

-----------------------------------------------------------------------------
WaitType ==
  /\ w \in {"off", "check", "call", "looked", "sleep", "nil", "timeout"}
  /\ now \in Nat /\ end \in Nat /\ nap \in Nat /\ from \in Nat /\ since \in Nat
  /\ lastErr \in BOOLEAN /\ saw \in BOOLEAN /\ ready \in BOOLEAN

(* Where the clock is, and since when the condition can hold unnoticed.    *)
WaitInv ==
  /\ since <= now
  /\ w = "off" => now = 0 /\ since = 0 /\ ~lastErr
  /\ w # "off" => 0 < end /\ MinInterval <= nap
  /\ w = "check" => now < end + MaxCall + nap + MaxLag
  /\ w = "check" /\ ready => now <= since + MaxCall + nap + MaxLag
  /\ w \in {"call", "looked"} => from < end /\ from <= now /\ now <= from + MaxCall
  /\ w = "looked" /\ ~saw /\ ready => from <= since
  /\ w = "sleep" => from < end + MaxCall /\ from <= now /\ now <= from + nap + MaxLag
  /\ w = "sleep" /\ ready => from <= since + MaxCall
  /\ w = "check" /\ ~lastErr => now = 0
  /\ w = "check" /\ lastErr => from + nap <= now
  /\ w \in {"sleep", "timeout"} => lastErr

(* A condition that has come to stay is found, unless it came within one   *)
(* call and one interval of the deadline: then the wait may fail although  *)
(* the condition holds when the deadline passes.                           *)
SteadyIsFound ==
  w = "timeout" /\ ready => end <= since + MaxCall + nap + MaxLag

(* WaitFor never gives up before its deadline, nor later than one call and *)
(* one interval after it; having given up it has an error of fn to show,   *)
(* whatever deadline the caller asked for.                                 *)
GivesUpInTime ==
  /\ w = "timeout" => end <= now /\ now < end + MaxCall + nap + MaxLag /\ lastErr
  /\ w = "nil" => now < end + MaxCall

(* "defensive against runaway-loop typos in callers" (runner.go): whatever *)
(* interval the caller asked for, a call of fn begins no sooner than the   *)
(* minimum interval after the one before it has returned.                  *)
PollsApart ==
  [][w' = "call" /\ w # "call" /\ lastErr => from + MinInterval <= now]_waitVars

(* How far the wait is from its end: the clock first, then where in the    *)
(* loop it is.  A sleep that is due counts for more than one that is not.  *)
Stage ==
  CASE w = "check" -> 3 [] w = "call" -> 2 [] w = "looked" -> 1
    [] w = "sleep" /\ from + nap <= now -> 4
    [] OTHER -> 0

WaitLeft == 5 * ((end + MaxCall + nap + MaxLag) - now) + Stage

(* The loop never turns without time passing, however short the interval   *)
(* that was asked for: each of its steps leaves less of the wait, and what *)
(* the condition does in between leaves no more.                           *)
WaitGoesDown ==
  [][w # "off" /\ w' # "off" =>
       \/ WaitLeft' < WaitLeft
       \/ UNCHANGED <<w, now, end, nap, lastErr, from, saw>>]_waitVars

=============================================================================
