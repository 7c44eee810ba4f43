------------------------ MODULE ControlToken_proofs -------------------------
(***************************************************************************)
(* Proofs about ControlToken: whatever homes daemons share and whatever    *)
(* callers add to their environments, a mutating request carries the token *)
(* of the daemon it goes to.                                               *)
(***************************************************************************)
EXTENDS ControlToken, TLAPS, WellFoundedInduction, SequenceTheorems

(* A nonempty set of positions of a sequence has a last one.               *)
LEMMA LastPosition ==
  ASSUME NEW n \in Nat, NEW S \in SUBSET (1..n), S # {}
  PROVE  \E i \in S : \A j \in S : j <= i
<1> DEFINE T == {n - i : i \in S}
<1>1. T \subseteq Nat /\ T # {}
  <2>1. \A x \in T : x \in Nat
    BY DEF T
  <2>2. PICK i \in S : TRUE
    OBVIOUS
  <2>3. n - i \in T
    BY <2>2 DEF T
  <2> QED
    BY <2>1, <2>3
<1>2. \E x \in T : \A y \in T : ~(<<y, x>> \in OpToRel(<, Nat))
  BY <1>1, NatLessThanWellFounded, WFMin, Zenon
<1>3. \E x \in T : \A y \in T : ~(y < x)
  BY <1>1, <1>2 DEF OpToRel
<1>4. PICK x \in T : \A y \in T : ~(y < x)
  BY <1>3
<1>5. PICK i \in S : x = n - i
  BY <1>4 DEF T
<1>6. ASSUME NEW j \in S PROVE j <= i
  <2>1. n - j \in T
    BY <1>6 DEF T
  <2>2. ~(n - j < n - i)
    BY <1>4, <1>5, <2>1
  <2>3. i \in 1..n /\ j \in 1..n
    OBVIOUS
  <2> HIDE DEF T
  <2> QED
    BY <2>2, <2>3, SMT
<1> QED
  BY <1>6

(* The elements of a sequence appended to one of two elements.             *)
LEMMA AfterTwo ==
  ASSUME NEW A, NEW s \in Seq(A), NEW t \in Seq(A), Len(s) = 2
  PROVE  /\ s \o t \in Seq(A) /\ Len(t) \in Nat /\ Len(s \o t) = 2 + Len(t)
         /\ (s \o t)[1] = s[1] /\ (s \o t)[2] = s[2]
         /\ \A i \in 3..Len(s \o t) : (s \o t)[i] = t[i - 2]
<1> DEFINE st2 == s \o t
<1>1. Len(t) \in Nat
  OBVIOUS
<1>2. /\ st2 \in Seq(A) /\ Len(st2) = Len(s) + Len(t)
      /\ \A i \in 1..Len(s) + Len(t) : st2[i] = IF i <= Len(s) THEN s[i] ELSE t[i - Len(s)]
  BY ConcatProperties, Zenon
<1> HIDE DEF st2
<1>3. st2[1] = s[1] /\ st2[2] = s[2] /\ \A i \in 3..Len(st2) : st2[i] = t[i - 2]
  BY <1>1, <1>2
<1> QED
  BY <1>1, <1>2, <1>3 DEF st2

(* Getenv finds the last assignment, the one after which there is none.    *)
LEMMA GetenvLast ==
  ASSUME NEW e \in Envs, NEW k, NEW i \in Assigned(e, k),
         \A j \in Assigned(e, k) : j <= i
  PROVE  Getenv(e, k) = e[i][2]
<1>1. i \in DOMAIN e /\ DOMAIN e \subseteq Nat
  BY DEF Assigned, Envs
<1>2. ASSUME NEW m \in Assigned(e, k), \A j \in Assigned(e, k) : j <= m PROVE m = i
  BY <1>1, <1>2 DEF Assigned
<1>3. (CHOOSE m \in Assigned(e, k) : \A j \in Assigned(e, k) : j <= m) = i
  BY <1>2
<1> QED
  BY <1>3 DEF Getenv

(* What a child finds under a key is what was assigned to it.              *)
LEMMA GetenvType ==
  ASSUME NEW e \in Envs
  PROVE  /\ Getenv(e, "FILE") \in Files \union {Relative, Unset}
         /\ Getenv(e, "STATE") \in Homes \union {Unset}
         /\ Getenv(e, "HOME") \in Homes \union {Unset}
<1>1. ASSUME NEW k
      PROVE  Getenv(e, k) = Unset \/ <<k, Getenv(e, k)>> \in Assignments
  <2>1. CASE Assigned(e, k) = {}
    BY <2>1 DEF Getenv
  <2>2. CASE Assigned(e, k) # {}
    <3>1. Len(e) \in Nat /\ Assigned(e, k) \in SUBSET (1..Len(e))
      BY DEF Envs, Assigned
    <3>2. PICK i \in Assigned(e, k) : \A j \in Assigned(e, k) : j <= i
      BY <2>2, <3>1, LastPosition
    <3>3. Getenv(e, k) = e[i][2]
      BY <3>2, GetenvLast
    <3>4. e[i] \in Assignments /\ e[i][1] = k
      BY <3>1, <3>2 DEF Envs, Assigned
    <3>5. e[i] = <<k, e[i][2]>>
      BY <3>4 DEF Assignments
    <3> QED
      BY <3>3, <3>4, <3>5
  <2> QED
    BY <2>1, <2>2
<1>2. /\ \A v : <<"FILE", v>> \in Assignments => v \in Files \union {Relative, Unset}
      /\ \A v : <<"STATE", v>> \in Assignments => v \in Homes \union {Unset}
      /\ \A v : <<"HOME", v>> \in Assignments => v \in Homes \union {Unset}
  BY DEF Assignments
<1> QED
  BY <1>1, <1>2

(* The harness resolves the file that the child resolves.                  *)
LEMMA SameFile ==
  ASSUME NEW e \in Envs
  PROVE  /\ ControlTokenFileFromEnv(e) = DonmaiFile(e)
         /\ DonmaiFile(e) \in Files \union {Unset}
<1>1. ControlTokenFileFromEnv(e) = DonmaiFile(e)
  BY DEF ControlTokenFileFromEnv, DonmaiFile, LastEnvValue, Getenv
<1>2. DonmaiFile(e) \in Files \union {Unset}
  BY GetenvType DEF DonmaiFile, Resolve, Files
<1> QED
  BY <1>1, <1>2

(* A program that is handed a token file, and whose environment does not   *)
(* assign the file again, uses that file, whatever its home.               *)
LEMMA HandedFile ==
  ASSUME NEW h \in Homes, NEW f \in Files, NEW extra \in Envs,
         Assigned(extra, "FILE") = {}
  PROVE  /\ HermeticRunEnv(h, f, extra) \in Envs
         /\ DonmaiFile(HermeticRunEnv(h, f, extra)) = f
<1> DEFINE hf == <<<<"HOME", h>>>> \o <<<<"FILE", f>>>>
           e == hf \o extra
<1>1. f # Unset
  BY NamesAssumption
<1>2. HermeticRunEnv(h, f, extra) = e /\ e \in Envs /\ hf \in Seq(Assignments)
  <2>1. <<"HOME", h>> \in Assignments /\ <<"FILE", f>> \in Assignments
    BY DEF Assignments
  <2>2. <<<<"HOME", h>>>> \in Seq(Assignments) /\ <<<<"FILE", f>>>> \in Seq(Assignments)
    BY <2>1
  <2>3. hf \in Seq(Assignments)
    BY <2>2
  <2>4. e \in Envs
    <3> HIDE DEF hf
    <3> QED BY <2>3 DEF Envs
  <2>5. HermeticRunEnv(h, f, extra) = e
    BY <1>1 DEF HermeticRunEnv
  <2> QED
    BY <2>3, <2>4, <2>5
<1>5. e[2] = <<"FILE", f>>
  <2>1. Len(hf) = 2 /\ hf[2] = <<"FILE", f>>
    OBVIOUS
  <2> QED
    BY <1>2, <2>1, AfterTwo DEF Envs
<1>3. Assigned(e, "FILE") = {2}
  <2>0. Len(hf) = 2 /\ hf[1][1] = "HOME" /\ hf[2] = <<"FILE", f>>
    OBVIOUS
  <2>1. /\ e[1][1] = "HOME" /\ e[2] = <<"FILE", f>>
        /\ Len(e) = 2 + Len(extra) /\ Len(extra) \in Nat
        /\ \A i \in 3..Len(e) : e[i] = extra[i - 2]
    BY <1>2, <2>0, AfterTwo DEF Envs
  <2>2. ASSUME NEW i \in 1..Len(e), i > 2 PROVE e[i][1] # "FILE"
    <3>1. i - 2 \in 1..Len(extra) /\ e[i] = extra[i - 2]
      BY <2>1, <2>2
    <3> QED
      BY <3>1 DEF Assigned, Envs
  <2>3. DOMAIN e = 1..Len(e)
    BY <1>2 DEF Envs
  <2>4. ASSUME NEW i PROVE i \in Assigned(e, "FILE") <=> i = 2
    <3> HIDE DEF e
    <3>1. "HOME" # "FILE" /\ 2 \in 1..Len(e) /\ \A j \in 1..Len(e) : j = 1 \/ j = 2 \/ j > 2
      BY <2>1
    <3> QED
      BY <2>1, <2>2, <2>3, <3>1 DEF Assigned
  <2> QED
    BY <2>4
<1>4. Getenv(e, "FILE") = f
  <2>1. 2 \in Assigned(e, "FILE") /\ \A j \in Assigned(e, "FILE") : j <= 2
    BY <1>3
  <2>2. Getenv(e, "FILE") = e[2][2]
    BY <1>2, <2>1, GetenvLast
  <2>3. e[2] = <<"FILE", f>>
    BY <1>2, <1>5
  <2> QED
    BY <2>2, <2>3
<1> QED
  BY <1>1, <1>2, <1>4 DEF DonmaiFile, Resolve

(* The environments a daemon is started with are environments.             *)
LEMMA GivenEnvs ==
  ASSUME NEW h \in Homes
  PROVE  HermeticEnv(h) \in Envs /\ \A extra \in Extras : LiveEnv(h, extra) \in Envs
<1>1. <<"HOME", h>> \in Assignments /\ <<"STATE", h>> \in Assignments
  BY DEF Assignments
<1>2. <<<<"HOME", h>>, <<"STATE", h>>>> \in Seq(Assignments) /\ HermeticEnv(h) \in Seq(Assignments)
  BY <1>1 DEF HermeticEnv
<1>3. ASSUME NEW extra \in Extras PROVE LiveEnv(h, extra) \in Seq(Assignments)
  <2>1. extra \in Seq(Assignments)
    BY EnvAssumption DEF Envs
  <2> QED
    BY <1>2, <2>1, ConcatProperties DEF LiveEnv
<1> QED
  BY <1>2, <1>3 DEF Envs

(* A start keeps the invariant: a file that holds a token is left alone,  *)
(* so whoever demands one still has it in the file.                        *)
LEMMA Starting ==
  ASSUME IInv, NEW d \in Daemons, NEW given, NEW e \in Envs, Start(d, given, e)
  PROVE  IInv'
<1> USE NamesAssumption
<1> DEFINE f == DonmaiFile(e)
<1>1. f \in Files \union {Unset} /\ Remembered(given, e) = f
  BY SameFile DEF Remembered
<1> HIDE DEF f
<1>2. /\ st[d] = "new" /\ st' = [st EXCEPT ![d] = "up"]
      /\ env' = [env EXCEPT ![d] = e] /\ live' = [live EXCEPT ![d] = f]
      /\ gated' = gated /\ req' = req
  BY <1>1 DEF Start, f
<1>3. \/ /\ gated[d] /\ f \in Files => file[f] \notin Tokens
         /\ token' = token /\ file' = file
      \/ /\ gated[d] /\ f \in Files /\ file[f] = NoToken
         /\ token' = [token EXCEPT ![d] = d] /\ file' = [file EXCEPT ![f] = d]
      \/ /\ gated[d] /\ f \in Files /\ file[f] \in Tokens
         /\ token' = [token EXCEPT ![d] = file[f]] /\ file' = file
  BY <1>1 DEF Start, f, LoadControlToken
<1>4. TypeOK'
  BY <1>1, <1>2, <1>3 DEF IInv, TypeOK, Tokens
<1>5. token[d] = NoToken
  BY <1>2 DEF IInv, FileInv
<1>6. ASSUME NEW c \in Daemons, c # d
      PROVE  st'[c] = st[c] /\ live'[c] = live[c] /\ env'[c] = env[c] /\ token'[c] = token[c]
  BY <1>2, <1>3, <1>6 DEF IInv, TypeOK
<1>7. st'[d] = "up" /\ live'[d] = f /\ env'[d] = e
  BY <1>2 DEF IInv, TypeOK
<1>8. ASSUME NEW g \in Files
      PROVE  \/ file'[g] = file[g]
             \/ g = f /\ file[g] = NoToken /\ file'[g] = d
  BY <1>3 DEF IInv, TypeOK
<1>9. ASSUME NEW c \in Daemons, st'[c] = "up", gated'[c]
      PROVE  /\ token'[c] # NoToken =>
                  live'[c] # Unset /\ file'[live'[c]] \in {token'[c], Unreadable}
             /\ token'[c] = NoToken /\ live'[c] # Unset => file'[live'[c]] # Operator
  <2>1. CASE c = d
    <3>1. CASE (gated[d] /\ f \in Files => file[f] \notin Tokens) /\ token' = token /\ file' = file
      BY <1>1, <1>2, <1>5, <1>7, <1>9, <2>1, <3>1 DEF Tokens
    <3>2. CASE /\ f \in Files /\ token' = [token EXCEPT ![d] = d]
               /\ file' = [file EXCEPT ![f] = d]
      <4>1. token'[d] = d /\ file'[f] = d /\ d # NoToken
        BY <3>2 DEF IInv, TypeOK, Tokens
      <4> QED
        BY <1>7, <2>1, <3>2, <4>1
    <3>3. CASE /\ f \in Files /\ file[f] \in Tokens
               /\ token' = [token EXCEPT ![d] = file[f]] /\ file' = file
      <4>1. token'[d] = file[f] /\ file[f] # NoToken
        BY <3>3 DEF IInv, TypeOK
      <4> QED
        BY <1>7, <2>1, <3>3, <4>1
    <3> QED
      BY <1>3, <3>1, <3>2, <3>3
  <2>2. CASE c # d
    <3>1. st[c] = "up" /\ gated[c] /\ live'[c] = live[c] /\ token'[c] = token[c]
      BY <1>2, <1>6, <1>9, <2>2
    <3>2. /\ token[c] # NoToken => live[c] # Unset /\ file[live[c]] \in {token[c], Unreadable}
          /\ token[c] = NoToken /\ live[c] # Unset => file[live[c]] # Operator
      BY <3>1 DEF IInv, FileInv
    <3>3. live[c] \in Files \union {Unset} /\ token[c] \in Tokens \union {NoToken}
      BY DEF IInv, TypeOK
    <3>4. NoToken # Unreadable /\ d # Operator
      BY DEF NoToken, Unreadable
    <3>5. live[c] # Unset => \/ file'[live[c]] = file[live[c]]
                             \/ file[live[c]] = NoToken /\ file'[live[c]] = d
      BY <1>8, <3>3
    <3> QED
      BY <3>1, <3>2, <3>4, <3>5
  <2> QED
    BY <2>1, <2>2
<1>10. \A c \in Daemons : /\ st'[c] = "new" => token'[c] = NoToken
                          /\ st'[c] = "up" => live'[c] = DonmaiFile(env'[c])
  <2>1. ASSUME NEW c \in Daemons
        PROVE  /\ st[c] = "new" => token[c] = NoToken
               /\ st[c] = "up" => live[c] = DonmaiFile(env[c])
    BY DEF IInv, FileInv
  <2> QED
    BY <1>6, <1>7, <2>1 DEF f
<1>11. ASSUME NEW g \in Files, file'[g] \in Daemons
       PROVE  st'[file'[g]] # "new" /\ live'[file'[g]] = g
  <2>1. CASE file'[g] = d /\ g = f
    BY <1>7, <2>1
  <2>2. CASE ~(file'[g] = d /\ g = f)
    <3>1. file'[g] = file[g]
      BY <1>8, <2>2
    <3>2. st[file[g]] # "new" /\ live[file[g]] = g
      BY <1>11, <3>1 DEF IInv, FileInv
    <3>3. file[g] # d
      BY <1>2, <3>2
    <3> QED
      BY <1>6, <1>11, <3>1, <3>2, <3>3
  <2> QED
    BY <2>1, <2>2
<1>12. FileInv'
  BY <1>9, <1>10, <1>11 DEF FileInv
<1>13. /\ req.to \in Daemons /\ req.status = "built" => req.to # d
       /\ OfHarness => req.to # d
       /\ req.auth \in Daemons => req.auth # d
  BY <1>2 DEF IInv, RequestInv, OfHarness, TypeOK
<1>14. OfHarness' = OfHarness
  BY <1>2 DEF OfHarness
<1>15. req.to \in Daemons
  BY DEF IInv, TypeOK
<1>16. RequestInv'
  <2>1. req.by # "nobody" => st'[req.to] # "new"
    BY <1>6, <1>7, <1>15 DEF IInv, RequestInv
  <2>2. req.auth \in Daemons => st'[req.auth] # "new"
    BY <1>6, <1>13 DEF IInv, RequestInv
  <2>3. req.status = "built" => st'[req.to] = "up"
    BY <1>6, <1>13, <1>15 DEF IInv, RequestInv
  <2>4. req.status = "built" /\ req.mutates /\ OfHarness /\ token'[req.to] # NoToken
          => req.auth = token'[req.to]
    BY <1>6, <1>13, <1>15 DEF IInv, RequestInv
  <2> QED
    BY <1>2, <1>14, <2>1, <2>2, <2>3, <2>4 DEF RequestInv
<1>17. MutationsAuthenticate'
  BY <1>2, <1>6, <1>13, <1>14, <1>15 DEF IInv, MutationsAuthenticate
<1>18. NoForeignToken'
  BY <1>2, <1>6, <1>13, <1>14, <1>15 DEF IInv, NoForeignToken
<1>19. GetIsBare'
  BY <1>2 DEF IInv, GetIsBare
<1> QED
  BY <1>4, <1>12, <1>16, <1>17, <1>18, <1>19 DEF IInv

(* A request that is built from a daemon's own file carries its token, if  *)
(* the daemon has one.                                                     *)
LEMMA Attaching ==
  ASSUME IInv, NEW by \in {"harness", "handed", "program"}, NEW d \in Daemons,
         NEW mutates \in BOOLEAN, NEW f \in Files \union {Unset},
         st[d] = "up", req.status # "built",
         by \in {"harness", "handed"} => f = live[d],
         Attach(by, d, mutates, f), UNCHANGED <<daemons, file>>
  PROVE  IInv'
<1> USE NamesAssumption DEF daemons
<1>1. /\ req'.by = by /\ req'.to = d /\ req'.mutates = mutates
      /\ \/ ~mutates /\ req'.auth = NoToken /\ req'.status = "built"
         \/ mutates /\ CannotRead(f) /\ req'.auth = NoToken /\ req'.status = "error"
         \/ mutates /\ ~CannotRead(f) /\ req'.auth = LoadControlToken(f) /\ req'.status = "built"
  BY DEF Attach, Request
<1>2. LoadControlToken(f) \in Tokens \union {NoToken} \/ CannotRead(f)
  BY DEF LoadControlToken, CannotRead, IInv, TypeOK
<1>3. /\ st' = st /\ gated' = gated /\ env' = env /\ token' = token /\ live' = live
      /\ file' = file
  OBVIOUS
<1>4. TypeOK'
  <2>1. req' \in [by : {"nobody", "harness", "handed", "program"}, to : Daemons,
                  mutates : BOOLEAN, auth : Tokens \union {NoToken},
                  status : {"built", "answered", "denied", "unavailable", "error"}]
    BY <1>2 DEF Attach, Request
  <2> QED
    BY <1>3, <2>1 DEF IInv, TypeOK
<1>5. FileInv'
  BY <1>3 DEF IInv, FileInv
<1>6. by \in {"harness", "handed"} /\ gated[d] /\ ~CannotRead(f) /\ token[d] # NoToken
        => LoadControlToken(f) = token[d]
  BY DEF IInv, FileInv, LoadControlToken, CannotRead
<1>7. ASSUME LoadControlToken(f) \in Daemons
      PROVE  st[LoadControlToken(f)] # "new" /\ live[LoadControlToken(f)] = f /\ f # Unset
  <2>1. f # Unset /\ LoadControlToken(f) = file[f]
    BY <1>7 DEF LoadControlToken, Tokens
  <2>2. f \in Files /\ file[f] \in Daemons
    BY <1>7, <2>1
  <2> QED
    BY <2>1, <2>2 DEF IInv, FileInv
<1>8. ASSUME by \in {"harness", "handed"}, gated[d], token[d] = NoToken,
             LoadControlToken(f) \in Tokens
      PROVE  LoadControlToken(f) \in Daemons /\ live[LoadControlToken(f)] = live[d]
  <2>1. f = live[d] /\ f # Unset /\ LoadControlToken(f) = file[f]
    BY <1>8 DEF LoadControlToken, Tokens
  <2>2. file[f] # Operator
    BY <1>8, <2>1 DEF IInv, FileInv
  <2> QED
    BY <1>7, <1>8, <2>1, <2>2 DEF Tokens
<1>9. RequestInv'
  <2>1. req'.auth \in Daemons => st[req'.auth] # "new"
    BY <1>1, <1>7 DEF Tokens
  <2>2. req'.status = "built" /\ mutates /\ by \in {"harness", "handed"} /\ gated[d]
        /\ token[d] # NoToken => req'.auth = token[d]
    BY <1>1, <1>6
  <2> QED
    BY <1>1, <1>3, <2>1, <2>2 DEF RequestInv, OfHarness
<1>10. MutationsAuthenticate'
  BY <1>1, <1>3 DEF MutationsAuthenticate
<1>11. NoForeignToken'
  <2>1. ASSUME by \in {"harness", "handed"}, gated[d], req'.auth # NoToken
        PROVE  \/ req'.auth = token[d]
               \/ token[d] = NoToken /\ req'.auth \in Daemons /\ live[req'.auth] = live[d]
    <3>1. req'.auth = LoadControlToken(f) /\ ~CannotRead(f)
      BY <1>1, <2>1
    <3> QED
      BY <1>2, <1>6, <1>8, <2>1, <3>1
  <2> QED
    BY <1>1, <1>3, <2>1 DEF NoForeignToken, OfHarness
<1>12. GetIsBare'
  BY <1>1 DEF GetIsBare
<1> QED
  BY <1>4, <1>5, <1>9, <1>10, <1>11, <1>12 DEF IInv

(* IInv is an inductive invariant of the daemons, files and requests, for  *)
(* any homes, and any additions to an environment.                         *)
THEOREM Invariance == Spec => []IInv
<1> USE NamesAssumption DEF daemons
<1>1. Init => IInv
  <2> SUFFICES ASSUME Init PROVE IInv
    OBVIOUS
  <2>1. NoReq.to \in Daemons
    BY DEF NoReq
  <2>2. <<>> \in Envs
    BY DEF Envs
  <2>3. TypeOK
    BY <2>1, <2>2 DEF Init, TypeOK, NoReq, Tokens, Files
  <2>4. \A f \in Files : file[f] \notin Daemons
    <3>1. Operator \notin Daemons /\ NoToken \notin Daemons
      BY DEF Tokens
    <3> QED
      BY <3>1 DEF Init
  <2>5. FileInv
    BY <2>4 DEF Init, FileInv
  <2>6. NoReq.auth = NoToken /\ NoToken \notin Daemons /\ NoReq.by = "nobody" /\ ~NoReq.mutates
        /\ NoReq.status = "answered"
    BY DEF NoReq, Tokens
  <2>7. RequestInv /\ MutationsAuthenticate /\ NoForeignToken /\ GetIsBare
    BY <2>6 DEF Init, RequestInv, MutationsAuthenticate, NoForeignToken, GetIsBare, OfHarness
  <2> QED
    BY <2>3, <2>5, <2>7 DEF IInv
<1>2. IInv /\ [Next]_vars => IInv'
  <2> SUFFICES ASSUME IInv, [Next]_vars PROVE IInv'
    OBVIOUS
  <2>1. ASSUME NEW d \in Daemons, SpawnDaemon(d) PROVE IInv'
    <3>1. CASE \E h \in Homes, extra \in Extras : Start(d, TRUE, LiveEnv(h, extra))
      <4>1. PICK h \in Homes, extra \in Extras : Start(d, TRUE, LiveEnv(h, extra))
        BY <3>1
      <4>2. LiveEnv(h, extra) \in Envs
        BY GivenEnvs
      <4> QED
        BY <4>1, <4>2, Starting
    <3>2. CASE \E h \in Homes : Start(d, FALSE, HermeticEnv(h))
      <4>1. PICK h \in Homes : Start(d, FALSE, HermeticEnv(h))
        BY <3>2
      <4>2. HermeticEnv(h) \in Envs
        BY GivenEnvs
      <4> QED
        BY <4>1, <4>2, Starting
    <3>3. CASE Start(d, FALSE, Ambient)
      BY <3>3, EnvAssumption, Starting
    <3> QED
      BY <2>1, <3>1, <3>2, <3>3 DEF SpawnDaemon
  <2>2. ASSUME NEW d \in Daemons, TestEnds(d) PROVE IInv'
    <3> DEFINE f == DonmaiFile(env[d])
    <3>1. /\ st' = [st EXCEPT ![d] = "gone"] /\ ~(req.status = "built" /\ req.to = d)
          /\ gated' = gated /\ env' = env /\ token' = token /\ live' = live /\ req' = req
          /\ \/ file' = file
             \/ /\ f # Unset /\ f # Operator /\ file' = [file EXCEPT ![f] = NoToken]
                /\ \A o \in Daemons \ {d} : st[o] = "up" => DonmaiFile(env[o]) # f
      BY <2>2 DEF TestEnds
    <3>2. TypeOK'
      BY <3>1 DEF IInv, TypeOK
    <3>3. ASSUME NEW c \in Daemons, st'[c] = "up", gated'[c]
          PROVE  /\ token'[c] # NoToken =>
                      live'[c] # Unset /\ file'[live'[c]] \in {token'[c], Unreadable}
                 /\ token'[c] = NoToken /\ live'[c] # Unset => file'[live'[c]] # Operator
      <4>1. c # d /\ st[c] = "up" /\ gated[c]
        BY <3>1, <3>3 DEF IInv, TypeOK
      <4>2. /\ live[c] = DonmaiFile(env[c])
            /\ token[c] # NoToken => live[c] # Unset /\ file[live[c]] \in {token[c], Unreadable}
            /\ token[c] = NoToken /\ live[c] # Unset => file[live[c]] # Operator
        BY <4>1 DEF IInv, FileInv
      <4>3. live[c] # Unset => file'[live[c]] = file[live[c]]
        <5>1. live[c] \in Files \union {Unset}
          BY DEF IInv, TypeOK
        <5> QED
          BY <3>1, <4>1, <4>2, <5>1 DEF IInv, TypeOK
      <4> QED
        BY <3>1, <4>2, <4>3
    <3>5. ASSUME NEW g \in Files, file'[g] \in Daemons
          PROVE  st'[file'[g]] # "new" /\ live'[file'[g]] = g
      <4>1. NoToken \notin Daemons
        BY DEF Tokens
      <4>2. file'[g] = file[g]
        BY <3>1, <3>5, <4>1 DEF IInv, TypeOK
      <4> QED
        BY <3>1, <3>5, <4>2 DEF IInv, FileInv, TypeOK
    <3>6. \A c \in Daemons : /\ st'[c] = "new" => token'[c] = NoToken
                             /\ st'[c] = "up" => live'[c] = DonmaiFile(env'[c])
      BY <3>1 DEF IInv, FileInv, TypeOK
    <3>7. FileInv'
      BY <3>3, <3>5, <3>6 DEF FileInv
    <3>4. RequestInv' /\ MutationsAuthenticate' /\ NoForeignToken' /\ GetIsBare'
      BY <3>1 DEF IInv, TypeOK, RequestInv, MutationsAuthenticate, NoForeignToken, GetIsBare,
                  OfHarness
    <3> QED
      BY <3>2, <3>4, <3>7 DEF IInv
  <2>3. ASSUME NEW f \in Files, Spoils(f) PROVE IInv'
    <3>1. /\ st' = st /\ gated' = gated /\ env' = env /\ token' = token /\ live' = live
          /\ req' = req /\ file' = [file EXCEPT ![f] = Unreadable]
      BY <2>3 DEF Spoils
    <3>2. TypeOK'
      BY <3>1 DEF IInv, TypeOK
    <3>3. FileInv'
      <4>1. Unreadable # Operator /\ Unreadable \notin Daemons
        BY DEF Tokens
      <4>2. ASSUME NEW g \in Files PROVE file'[g] = file[g] \/ file'[g] = Unreadable
        BY <3>1 DEF IInv, TypeOK
      <4>3. \A g \in Files : file'[g] \in Daemons => st'[file'[g]] # "new" /\ live'[file'[g]] = g
        BY <3>1, <4>1, <4>2 DEF IInv, FileInv
      <4>4. ASSUME NEW c \in Daemons, st'[c] = "up", gated'[c]
            PROVE  /\ token'[c] # NoToken =>
                        live'[c] # Unset /\ file'[live'[c]] \in {token'[c], Unreadable}
                   /\ token'[c] = NoToken /\ live'[c] # Unset => file'[live'[c]] # Operator
        <5>1. live[c] \in Files \union {Unset}
          BY DEF IInv, TypeOK
        <5>2. /\ token[c] # NoToken => live[c] # Unset /\ file[live[c]] \in {token[c], Unreadable}
              /\ token[c] = NoToken /\ live[c] # Unset => file[live[c]] # Operator
          BY <3>1, <4>4 DEF IInv, FileInv
        <5> QED
          BY <3>1, <4>1, <4>2, <5>1, <5>2
      <4> QED
        BY <3>1, <4>3, <4>4 DEF IInv, FileInv
    <3>4. RequestInv' /\ MutationsAuthenticate' /\ NoForeignToken' /\ GetIsBare'
      BY <3>1 DEF IInv, RequestInv, MutationsAuthenticate, NoForeignToken, GetIsBare,
                  OfHarness
    <3> QED
      BY <3>2, <3>3, <3>4 DEF IInv
  <2>4. ASSUME NEW d \in Daemons, NEW mutates \in BOOLEAN, NewRequest(d, mutates) PROVE IInv'
    <3>1. live[d] \in Files \union {Unset}
      BY DEF IInv, TypeOK
    <3> QED
      BY <2>4, <3>1, Attaching DEF NewRequest
  <2>5. ASSUME NEW d \in Daemons, NEW mutates \in BOOLEAN, NEW h \in Homes,
               NEW pass \in BOOLEAN, NEW extra \in Extras,
               RunHermetic(d, mutates, h, pass, extra)
        PROVE  IInv'
    <3> DEFINE f == IF pass THEN live[d] ELSE Unset
               e == HermeticRunEnv(h, f, extra)
               handed == f # Unset /\ Assigned(extra, "FILE") = {}
    <3>1. f \in Files \union {Unset} /\ (f # Unset => f = live[d])
      BY DEF IInv, TypeOK
    <3>2. extra \in Envs
      BY EnvAssumption
    <3>3. handed => DonmaiFile(e) = f
      BY <3>1, <3>2, HandedFile
    <3>4. e \in Envs
      <4>1. <<"HOME", h>> \in Assignments /\ (f # Unset => <<"FILE", f>> \in Assignments)
        BY <3>1 DEF Assignments
      <4>2. /\ <<<<"HOME", h>>>> \in Seq(Assignments)
            /\ (IF f = Unset THEN <<>> ELSE <<<<"FILE", f>>>>) \in Seq(Assignments)
        <5> HIDE DEF f
        <5> QED BY <4>1
      <4> HIDE DEF f
      <4> QED
        BY <3>2, <4>2, ConcatProperties DEF HermeticRunEnv, Envs
    <3>5. DonmaiFile(e) \in Files \union {Unset}
      BY <3>4, SameFile
    <3>6. /\ st[d] = "up" /\ req.status # "built" /\ UNCHANGED <<daemons, file>>
          /\ Attach(IF handed THEN "handed" ELSE "program", d, mutates, DonmaiFile(e))
      BY <2>5 DEF RunHermetic
    <3> HIDE DEF e
    <3>7. handed => DonmaiFile(e) = live[d]
      BY <3>1, <3>3
    <3> HIDE DEF handed
    <3>8. CASE handed
      BY <3>5, <3>6, <3>7, <3>8, Attaching
    <3>9. CASE ~handed
      BY <3>5, <3>6, <3>9, Attaching
    <3> QED
      BY <3>8, <3>9
  <2>6. ASSUME Send PROVE IInv'
    <3>1. /\ st' = st /\ gated' = gated /\ env' = env /\ token' = token /\ live' = live
          /\ file' = file /\ req.status = "built"
          /\ req' = [req EXCEPT !.status = req'.status]
          /\ \/ req'.status = "answered"
             \/ /\ gated[req.to] /\ req.mutates
                /\ \/ token[req.to] = NoToken /\ req'.status = "unavailable"
                   \/ /\ token[req.to] # NoToken /\ req.auth # token[req.to]
                      /\ req'.status = "denied"
      BY <2>6 DEF Send
    <3>2. TypeOK'
      BY <3>1 DEF IInv, TypeOK
    <3>3. FileInv'
      BY <3>1 DEF IInv, FileInv
    <3>4. RequestInv' /\ MutationsAuthenticate' /\ NoForeignToken' /\ GetIsBare'
      BY <3>1 DEF IInv, TypeOK, RequestInv, MutationsAuthenticate, NoForeignToken, GetIsBare,
                  OfHarness
    <3> QED
      BY <3>2, <3>3, <3>4 DEF IInv
  <2>7. ASSUME UNCHANGED vars PROVE IInv'
    BY <2>7 DEF vars, IInv, TypeOK, FileInv, RequestInv, MutationsAuthenticate,
                NoForeignToken, GetIsBare, OfHarness
  <2> QED
    BY <2>1, <2>2, <2>3, <2>4, <2>5, <2>6, <2>7 DEF Next
<1> QED
  BY <1>1, <1>2, PTL DEF Spec

(* No mutating request of the harness, nor of a program it handed the      *)
(* token file, is turned away for want of the right token; a daemon that   *)
(* refuses it has none itself.                                             *)
THEOREM TokenFits == Spec => []MutationsAuthenticate
<1> QED
  BY Invariance, PTL DEF IInv

(* No request of the harness carries the operator's token or that of a     *)
(* daemon with another file, but to a daemon that demands just this token. *)
THEOREM TokenIsTheDaemons == Spec => []NoForeignToken
<1> QED
  BY Invariance, PTL DEF IInv

(* No token file, readable or not, changes what a GET request is.          *)
THEOREM GetNeedsNoToken == Spec => []GetIsBare
<1> QED
  BY Invariance, PTL DEF IInv
=============================================================================
