---------------------------- MODULE ControlToken ----------------------------
(***************************************************************************)
(* The control token: which file SpawnDaemon takes a daemon to keep it in  *)
(* (ControlTokenFileFromEnv), and which token the requests of NewRequest   *)
(* and the programs of RunHermeticAgainstDaemon carry                      *)
(* (src/harness/control_token.go, spawn.go, run_against_daemon.go).        *)
(*                                                                         *)
(* An environment is a sequence of assignments, as exec.Cmd takes it, of   *)
(* the three keys that matter.  A state home or a home stands also for the *)
(* token file below it; a token is the name of the daemon that minted it.  *)
(* Homes are absolute.  The daemon and the command line tool are donmai's: *)
(* a daemon that has the gate mints a token into its file before it serves,*)
(* keeping one that is there (EnsureControlToken in                        *)
(* src/step43_zero_capacity_test.go), and demands it of all but GET.  One  *)
(* that could not mint a token, for want of a path or for any other reason,*)
(* serves too and refuses whatever is not GET (control_token.go).          *)
(***************************************************************************)
EXTENDS Integers, Sequences

CONSTANTS Daemons,
          Homes,      \* temporary directories and the operator's home
          Other,      \* a token file elsewhere, that an absolute override may name
          Relative,   \* an override that is no absolute path
          Operator,   \* the operator's home
          Extras,     \* what callers append to an environment: sequences of assignments
          Ambient     \* the environment of the test process

Files == Homes \union {Other}
Unset == "unset"
Assignments == ({"FILE"} \X (Files \union {Relative, Unset}))
               \union ({"STATE", "HOME"} \X (Homes \union {Unset}))
Envs == Seq(Assignments)
Tokens == Daemons \union {Operator}
NoToken == "no token"
Unreadable == "unreadable"

ASSUME NamesAssumption ==
  /\ Daemons # {}
  /\ Operator \in Homes /\ Operator \notin Daemons /\ Other \notin Homes
  /\ Relative \notin Files /\ Unset \notin Files \union {Relative}
  /\ {NoToken, Unreadable} \intersect Tokens = {}
ASSUME EnvAssumption == Extras \subseteq Envs /\ Ambient \in Envs

VARIABLES
  st,       \* Daemons -> "new" | "up" | "gone"
  gated,    \* Daemons -> whether its version has the gate
  env,      \* Daemons -> the environment it was started with
  token,    \* Daemons -> the token it demands, NoToken if it could not mint one
  live,     \* Daemons -> LiveDaemon.controlTokenFile
  file,     \* Files -> the token in it, NoToken if there is no file, or Unreadable
  req       \* the last request

daemons == <<st, gated, env, token, live>>
vars == <<st, gated, env, token, live, file, req>>

NoReq == [by |-> "nobody", to |-> CHOOSE d \in Daemons : TRUE, mutates |-> FALSE,
          auth |-> NoToken, status |-> "answered"]

Init ==
  /\ st = [d \in Daemons |-> "new"]
  /\ gated \in [Daemons -> BOOLEAN]
  /\ env = [d \in Daemons |-> <<>>]
  /\ token = [d \in Daemons |-> NoToken]
  /\ live = [d \in Daemons |-> Unset]
  /\ file \in {[f \in Files |-> IF f = Operator THEN t ELSE NoToken] : t \in {Operator, NoToken}}
  /\ req = NoReq

-----------------------------------------------------------------------------
(* Environments.                                                           *)
Assigned(e, k) == {i \in DOMAIN e : e[i][1] = k}

(* A slip in LastEnvValue: the first assignment is taken.                  *)
FirstEnvValue(e, k) ==
  IF Assigned(e, k) = {} THEN Unset
  ELSE e[CHOOSE i \in Assigned(e, k) : \A j \in Assigned(e, k) : i <= j][2]

LastEnvValue(e, k) ==
  IF Assigned(e, k) = {} THEN Unset
  ELSE e[CHOOSE i \in Assigned(e, k) : \A j \in Assigned(e, k) : j <= i][2]

(* What a child started with an environment finds in it: os/exec hands     *)
(* over the last of the assignments of a key.                              *)
Getenv(e, k) ==
  IF Assigned(e, k) = {} THEN Unset
  ELSE e[CHOOSE i \in Assigned(e, k) : \A j \in Assigned(e, k) : j <= i][2]

Resolve(override, state, home) ==
  IF override # Unset THEN IF override \in Files THEN override ELSE Unset
  ELSE IF state # Unset THEN state ELSE home

ControlTokenFileFromEnv(e) ==
  Resolve(LastEnvValue(e, "FILE"), LastEnvValue(e, "STATE"), LastEnvValue(e, "HOME"))

(* The file donmai itself uses.                                            *)
DonmaiFile(e) == Resolve(Getenv(e, "FILE"), Getenv(e, "STATE"), Getenv(e, "HOME"))

(* LoadControlToken, of a readable file: no file, no token.                *)
LoadControlToken(f) == IF f = Unset THEN NoToken ELSE file[f]
CannotRead(f) == f # Unset /\ file[f] = Unreadable

-----------------------------------------------------------------------------
(* The two ways callers give a daemon its environment: LiveDaemonWithConfig*)
(* assembles one, and SpawnDaemon does when none is given but a home is;   *)
(* with neither the child inherits the environment of the test process.    *)
LiveEnv(h, extra) == <<<<"HOME", h>>, <<"STATE", h>>>> \o extra
HermeticEnv(h) == <<<<"HOME", h>>>>

(* A slip in Remembered: without an environment given, the process's own   *)
(* is resolved and not the one SpawnDaemon has assembled.                  *)
RemembersAmbient(given, e) == ControlTokenFileFromEnv(IF given THEN e ELSE Ambient)

(* What is remembered of it: the file the child's own view resolves to.    *)
Remembered(given, e) == ControlTokenFileFromEnv(e)

(* The daemon starts and serves, and SpawnDaemon returns.  A gated daemon  *)
(* takes the token that is in its file or mints one into it.  It may fail  *)
(* to mint, and must if it has no path or cannot read its file.            *)
Start(d, given, e) ==
  LET f == DonmaiFile(e) IN
  /\ st[d] = "new"
  /\ st' = [st EXCEPT ![d] = "up"]
  /\ env' = [env EXCEPT ![d] = e]
  /\ live' = [live EXCEPT ![d] = Remembered(given, e)]
  /\ \/ /\ gated[d] => LoadControlToken(f) \notin Tokens
        /\ UNCHANGED <<token, file>>
     \/ /\ gated[d] /\ f \in Files /\ LoadControlToken(f) = NoToken
        /\ token' = [token EXCEPT ![d] = d]
        /\ file' = [file EXCEPT ![f] = d]
     \/ /\ gated[d] /\ LoadControlToken(f) \in Tokens
        /\ token' = [token EXCEPT ![d] = LoadControlToken(f)]
        /\ UNCHANGED file
  /\ UNCHANGED <<gated, req>>

SpawnDaemon(d) ==
  \/ \E h \in Homes, extra \in Extras : Start(d, TRUE, LiveEnv(h, extra))
  \/ \E h \in Homes : Start(d, FALSE, HermeticEnv(h))
  \/ Start(d, FALSE, Ambient)

(* The test ends, its requests answered: the daemon is stopped and the     *)
(* home it had is removed, unless another daemon that is up uses the file. *)
TestEnds(d) ==
  /\ st[d] = "up"
  /\ ~(req.status = "built" /\ req.to = d)
  /\ st' = [st EXCEPT ![d] = "gone"]
  /\ LET f == DonmaiFile(env[d]) IN
       file' = IF \/ f \in {Unset, Operator}
                  \/ \E o \in Daemons \ {d} : st[o] = "up" /\ DonmaiFile(env[o]) = f
               THEN file ELSE [file EXCEPT ![f] = NoToken]
  /\ UNCHANGED <<gated, env, token, live, req>>

(* A file becomes unreadable: its permissions change, or a directory takes *)
(* its place.                                                              *)
Spoils(f) ==
  /\ file[f] \in Tokens
  /\ file' = [file EXCEPT ![f] = Unreadable]
  /\ UNCHANGED <<daemons, req>>

-----------------------------------------------------------------------------
(* Requests.                                                               *)
Request(by, d, mutates, auth, status) ==
  req' = [by |-> by, to |-> d, mutates |-> mutates, auth |-> auth, status |-> status]

(* AttachControlToken: a mutating request carries what the file holds, and *)
(* is not built if the file cannot be read.                                *)
Attach(by, d, mutates, f) ==
  IF ~mutates THEN Request(by, d, mutates, NoToken, "built")
  ELSE IF CannotRead(f) THEN Request(by, d, mutates, NoToken, "error")
  ELSE Request(by, d, mutates, LoadControlToken(f), "built")

NewRequest(d, mutates) ==
  /\ st[d] = "up" /\ req.status # "built"
  /\ Attach("harness", d, mutates, live[d])
  /\ UNCHANGED <<daemons, file>>

(* A slip in HermeticRunEnv: the program is not handed the token file.     *)
WithoutFile(h, f, extra) == <<<<"HOME", h>>>> \o extra

(* The environment RunHermeticAgainstDaemon gives a program: a home of its *)
(* own, the daemon's token file if the caller passes one, then the         *)
(* caller's additions.                                                     *)
HermeticRunEnv(h, f, extra) ==
  <<<<"HOME", h>>>> \o (IF f = Unset THEN <<>> ELSE <<<<"FILE", f>>>>) \o extra

(* The program, which reads the token as the daemon does.  It was "handed" *)
(* the file if one was passed and no addition assigns the file anew.       *)
RunHermetic(d, mutates, h, pass, extra) ==
  LET f == IF pass THEN live[d] ELSE Unset
      e == HermeticRunEnv(h, f, extra)
      handed == f # Unset /\ Assigned(extra, "FILE") = {}
  IN /\ st[d] = "up" /\ req.status # "built"
     /\ Attach(IF handed THEN "handed" ELSE "program", d, mutates, DonmaiFile(e))
     /\ UNCHANGED <<daemons, file>>

(* The daemon's gate: 503 from a daemon without a token, 401 for want of   *)
(* the right one.                                                          *)
Send ==
  /\ req.status = "built"
  /\ req' = [req EXCEPT !.status =
               IF ~gated[req.to] \/ ~req.mutates THEN "answered"
               ELSE IF token[req.to] = NoToken THEN "unavailable"
               ELSE IF req.auth = token[req.to] THEN "answered" ELSE "denied"]
  /\ UNCHANGED <<daemons, file>>

Next ==
  \/ \E d \in Daemons : SpawnDaemon(d) \/ TestEnds(d)
  \/ \E f \in Files : Spoils(f)
  \/ \E d \in Daemons, mutates \in BOOLEAN : NewRequest(d, mutates)
  \/ \E d \in Daemons, mutates \in BOOLEAN, h \in Homes, pass \in BOOLEAN, extra \in Extras :
        RunHermetic(d, mutates, h, pass, extra)
  \/ Send

Spec == Init /\ [][Next]_vars

-----------------------------------------------------------------------------
(* The variables keep their types.                                         *)
TypeOK ==
  /\ st \in [Daemons -> {"new", "up", "gone"}]
  /\ gated \in [Daemons -> BOOLEAN]
  /\ env \in [Daemons -> Envs]
  /\ token \in [Daemons -> Tokens \union {NoToken}]
  /\ live \in [Daemons -> Files \union {Unset}]
  /\ file \in [Files -> Tokens \union {NoToken, Unreadable}]
  /\ req \in [by : {"nobody", "harness", "handed", "program"}, to : Daemons,
              mutates : BOOLEAN, auth : Tokens \union {NoToken},
              status : {"built", "answered", "denied", "unavailable", "error"}]

(* While a daemon is up, the harness remembers the file donmai resolved,   *)
(* and that file holds the token the daemon demands or cannot be read.  A  *)
(* daemon that could not mint found no token there; one that is in the file*)
(* of a daemon stems from a daemon that uses it.                           *)
FileInv ==
  /\ \A d \in Daemons : st[d] = "up" /\ gated[d] =>
       /\ token[d] # NoToken => live[d] # Unset /\ file[live[d]] \in {token[d], Unreadable}
       /\ token[d] = NoToken /\ live[d] # Unset => file[live[d]] # Operator
  /\ \A d \in Daemons : /\ st[d] = "new" => token[d] = NoToken
                        /\ st[d] = "up" => live[d] = DonmaiFile(env[d])
  /\ \A f \in Files : file[f] \in Daemons => st[file[f]] # "new" /\ live[file[f]] = f

(* The requests the harness answers for: its own, and those of a program   *)
(* it handed the file, to a daemon with the gate.                          *)
OfHarness == req.by \in {"harness", "handed"} /\ gated[req.to]

RequestInv ==
  /\ req.by # "nobody" => st[req.to] # "new"
  /\ req.auth \in Daemons => st[req.auth] # "new"
  /\ req.status = "built" => st[req.to] = "up"
  /\ req.status = "built" /\ req.mutates /\ OfHarness /\ token[req.to] # NoToken
       => req.auth = token[req.to]

(* A mutating request of the harness, or of a program it handed the token  *)
(* file, is never turned away for want of the right token: the harness     *)
(* sends the token of the daemon it asks or reports that it cannot read it *)
(* (NewRequest, RunHermeticAgainstDaemon).  Only a daemon that has no token*)
(* itself refuses the request, as it refuses all.                          *)
MutationsAuthenticate ==
  OfHarness => /\ req.status # "denied"
               /\ req.status = "unavailable" => token[req.to] = NoToken

(* No token of another daemon, or of the operator's, goes to a daemon that *)
(* has the gate (ControlTokenFileFromEnv, "rather than guessing").  A      *)
(* daemon that could not mint one may at most be sent that of a daemon     *)
(* which shares its file and could.                                        *)
NoForeignToken ==
  OfHarness /\ req.auth # NoToken =>
    \/ req.auth = token[req.to]
    \/ /\ token[req.to] = NoToken
       /\ req.auth \in Daemons /\ live[req.auth] = live[req.to]

(* GET carries no token, and no state of the token file gets in its way    *)
(* (AttachControlToken).                                                   *)
GetIsBare == ~req.mutates => req.auth = NoToken /\ req.status \in {"built", "answered"}

(* The inductive invariant.                                                *)
IInv == TypeOK /\ FileInv /\ RequestInv /\ MutationsAuthenticate /\ NoForeignToken /\ GetIsBare
=============================================================================
