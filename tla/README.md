# A verification project for donmai-smokes

donmai-smokes is a harness: Go smoke tests that build the `donmai` binary (whose
source is not in the repository), run its daemon in a throw-away home and drive
it over HTTP and the command line. This directory holds TLA+ models of the parts
of the harness whose correctness is hard to see from a test, the TLC runs that
check them on small instances, and proofs of the main results for every instance.

Paths below are relative to the repository root.

## 1. Inventory

| component | state | operations | hard behaviours | what makes it correct |
|---|---|---|---|---|
| live daemon lifecycle: `harness/spawn.go`, `healthz.go`, `live_daemon.go` | the child process, the pipe its output goes through, the `sync.Once` and the done channel of a `LiveDaemon`, the stack of cleanups | `LiveDaemonWithConfig`, `SpawnDaemon`, `WaitForDaemonHealthz`, `LiveDaemon.Stop`, the registered cleanups | a second `Stop` during the first one, the grace timer racing the exit, an error after `cmd.Start`, a worker holding the pipe, the port taken by another process | an error leaves no child; `Stop` returns to no caller before the child is reaped; the home is removed last |
| port picker: `harness/port.go` | none of its own: the kernel's ports | `PickFreePort`, `PickClosedPort` | the port is free only at the moment it was picked | a URL names the daemon it was made for |
| log tail: `harness/logtail.go` | a byte ring: `buf`, `pos`, `full`, under a mutex | `Write`, `String` | writes that end at, cross or overflow the end of the ring, before and after the slice has its full size | `String` is the last `cap` bytes written |
| liveness ledger and gates: `harness/liveness.go`, `live_gate.go`, `liveness_test.go` | the ledger: last outcome per test name | `RecordLive`, the `SkipIf*` and `Require*` gates, `DeclineLive`, `CheckLiveness`, `TestMain` | the order of gates within a smoke, outcomes that overwrite one another, skips that file nothing | a green run drove the code under test or says why it was not to |
| peer installers: `harness/pi_install.go`, `opencode_install.go` | none that outlives a call: the operator's override, PATH, a temporary npm prefix | override, what is on PATH and its version, `npm install`, the installed version | which end is a skip, which a failure, which goes on; versions compared as numbers; opencode takes what is newer, pi does not | a smoke that goes on has a CLI that fits |
| source resolution: `harness/sut.go` | none: environment and file system | override, then walk up at most four directories, ask what is there | a clone or a removal between two questions, the bounds of the walk, a stale override | the source that is built is the one that was asked for |
| control token: `harness/control_token.go` | token in the home or the environment | resolve, attach to a request | keys that repeat in an environment, homes that are shared, a file that becomes unreadable, a daemon that could not mint | a request carries the token of its own daemon or none |
| waiting and cleanup runners: `harness/runner.go`, `cleanup.go`, `run_against_daemon.go` | the clock of `WaitFor`, the list of hooks and of their errors, the child of `Run` | `WaitFor`, `Run`, `RunCleanups`, `StopAndUninstallDaemon`, `RunHermeticAgainstDaemon` | a slow call at the deadline, a condition that comes late, a command that hangs or whose descendant keeps its output, one hook failing, the step dying and being run again | the wait ends in time and finds what is steady; every hook runs and each leftover is reported |
| daemon detection: `harness/daemon_detect.go` | none: PATH, the operator's name for a legacy binary, one probe | `DaemonAvailable` | the probe failing or hanging | what is detected chooses the uninstall command |
| kit toolchain: `kit-toolchain-e2b/kit_toolchain_e2b.py` | a cloud sandbox with a time to live, the redactions of a run | detect, compose, stage, clean, provision, verify, kill | any command failing, `kill` failing, an interrupt, the sandbox expiring | exit 0 means the kit's toolchain built and tested the fixture and the sandbox is gone |
| guard B lint: `scripts/guard-b-lint.sh` and its self test (vendored from a sister repository, and part of this one's CI) | the lists of files and violations of a run | collect, load the allowlist, scan rule by rule, verdict | files edited between rules, two identifiers in a line, a failing git read as an empty list | OK means that each identifier is exempted by an entry of its own, but for those `grep -o` loses |
| hermetic runner: `scripts/run-hermetic-tests.sh`, and the nightly job of `.github/workflows/test.yml` | a log written by `tee` | run `go test`, read the log, count passes against a floor, ask after the canaries | exit status through a pipe, a log cut short, a skip that no ledger sees | green means that at least the floor passed, or that the canaries drove the code under test |
| skip discipline: `skip_discipline_test.go` | none | scan the suite's syntax for raw skips | what the scan does not see | a smoke skips only through the ledger |
| step, interactive, attach and released tests | fakes of the platform | drive the donmai binary | the protocols of the binary | concern a program whose source is not here |

**How they interact.** A step test calls the gates (which file outcomes in the
ledger and may end the test), builds the binary, calls `LiveDaemon`, which picks
a port, makes a home and spawns the child with a `LogTail` as its output, and
polls `/healthz`. The test drives the daemon and stops it, in its body or by the
cleanup. When all tests have ended `TestMain` asks `CheckLiveness` for the verdict,
and the jobs that ran `go test` read its exit status and its output. A step against
the daemon of the host itself detects how to reach it, waits for it with `WaitFor`
and tears down with `RunCleanups`.
Within a package the live steps run one at a time; packages run as parallel
processes that share the machine's ports.

## 2. Modules

| module | models | kind |
|---|---|---|
| `ManagedProcess` | what a caller of the harness may rely on about a child process | abstract specification |
| `DaemonLifecycle` | spawn, health wait, `Stop`, cleanups, child, workers, ports, kernel | detailed; implements `ManagedProcess` |
| `DaemonLifecycle_proofs` | its theorems | proofs |
| `TailBuffer` | a buffer that forgets all but its last `Cap` bytes | abstract specification |
| `LogTail` | the ring of `logtail.go` | detailed; implements `TailBuffer` |
| `LogTail_proofs` | its theorems | proofs |
| `LivenessGate` | gates, ledger and verdict of a run of live smokes | abstract as to the peers |
| `PeerInstall` | the gate "peer" in detail: the installers of pi and opencode | detailed; extends and implements `LivenessGate` |
| `SuiteGates` | the two jobs that read the log and the exit status of a run | extends `PeerInstall` |
| `LivenessGate_proofs` | theorems of the three | proofs |
| `KitToolchain` | the pipeline of `run_real` against a sandbox that fails and expires | detailed |
| `KitToolchain_proofs` | its theorems | proofs |
| `SourceLocate` | the search for the checkout under test and its build, while other processes clone and remove | detailed |
| `SourceLocate_proofs` | its theorems | proofs |
| `ControlToken` | token files, and the tokens that requests and programs carry | detailed |
| `ControlToken_proofs` | its theorems | proofs |
| `GuardBLint` | one run of the content linter against an editor, an index and an allowlist | detailed |
| `GuardBLint_proofs` | its theorems | proofs |
| `WaitFor` | `Runner.WaitFor` against a clock and a condition that comes and goes | detailed |
| `HostStep` | detection, wait and cleanup of a step on the host's daemon, with crashes | detailed; extends `WaitFor` |
| `HostStep_proofs` | theorems of the two | proofs |
| `MC*` | small values for the constants of the module of that name, where a cfg cannot write them | model checking |

### DaemonLifecycle

The state of a test is its program counter `pc` (a value per call of
`LiveDaemonWithConfig`, `SpawnDaemon` and the end of the test), the port it was
given, its stack of cleanups and what its health wait said. The state of the
child is one of the stages of a Unix process (`child`, up to zombie and reaped) with
the signals delivered to it (`sig`), and `worker` is true while a descendant of the
daemon keeps the output pipe open. `cmd.Wait` runs in a goroutine of `stopFn`:
`WaitReaps` collects the process and `WaitReturns` is the end of the pipe copy,
because `LogSink` is a Go writer and `WaitDelay` is not set. Each goroutine that
calls `Stop` goes through `sync.Once`: the first one runs `stopFn` (signal, wait
for `done` or the grace timer, kill, wait again), the others wait for it.
Processes outside the suite may bind and release any port at any time.

The abstract `ManagedProcess` knows three things of a test: whether it is
launching, holds a handle or was given an error, its process, and
which goroutines `Stop` has returned to. `StopReturns` requires the process to be
gone and so does `GiveError`. `Session` in `DaemonLifecycle` is the refinement mapping.

### LogTail

One action, `Write(p)`, with the four branches of the code: the fast path while
the ring has room, the growth of the slice, the write of `cap` bytes or more, and
the write that may wrap. `String` unrolls the ring. `ImplementsTail` maps the
ring to `TailBuffer` by `String`.

### LivenessGate

A smoke is a sequence of gates (`Gates[s]`). Each gate of the code is one action
that either goes on or files an outcome (`RecordLive`) and ends the test; the
raw `t.Skip` of `EnsurePiBinary` ends it and files nothing. `TestMain` computes
the exit status from the ledger with `CheckLiveness`. `GatesAssumption` says
which sequences of gates the suite's steps really have: a drive comes after the
gates that file its evidence. A crash (`Panics`) may end the run anywhere.

### PeerInstall

The gate "peer", one step in `LivenessGate`, is `EnsurePiBinary` or
`EnsureOpenCodeBinary` (`PeerOf`): `UseOverride` takes what the operator names,
`ProbePath` asks the CLI on PATH for its version, `NpmMissing` is the raw skip,
`NpmInstall` the installation with all its failures, `CheckInstalled` the question
whether npm has installed what was asked of it. `peer` is how far the helper is and
`handed` what it has given to the smoke. A version is the sequence of its dotted
components and `compareDottedVersions` is the code's comparison of them, with missing
components and those that are no numbers counting as 0; the property is stated without
it (`NoOlder`). How a version is cut out of what `--version` prints is left out.
`ImplementsGate` is `LivenessGate!Spec`: the variables of the gate keep their names and
the steps inside the helper stutter.

### SuiteGates

What is left of a run is its exit status and its log. `Tee` writes the whole log and
succeeds, or a part of it and does not. `RunHermeticTests` is the script, in the
order of its tests; `NightlyJob` the job, with its two guards on the canaries. The
tests that are no live smokes are a count (`plain`) and a bit. Both jobs select every
test; the script runs under `-short` and the job does not.

### WaitFor and HostStep

`WaitFor` has a clock of its own: `Tick` may pass while `fn` runs, for at most
`MaxCall`, and while the loop sleeps, for at most `MaxLag` more than asked. `fn` looks
at the condition at one moment (`Looks`) and returns at a later one (`Returns`), and
`Flips` may change the condition before, between and after. `Check` is the loop's own
test of the deadline. `since` is history: when the condition last changed.

`HostStep` extends it by the rest of the step. `Detect` and `ProbeReturns` are
`DaemonAvailable`; `Waits` takes the steps of `WaitFor`; `SkipNil`, `RunHook`,
`DaemonHook` and `RunCleanupsReturns` are `RunCleanups`; `StopReturns` and
`UninstallReturns` the two commands of `StopAndUninstallDaemon`, whose errors go
nowhere. A command is a child (`proc`) that exits, with its work done or not, or is
killed when its context expires, and perhaps a descendant that holds its output
(`held`): `Run` returns when both are over, because `WaitDelay` is not set. `Crash` may
happen anywhere, a command under way finishing or not; `Start` runs the step again for
its cleanup. A host is the CLI on PATH and what it advertises, a legacy binary, the
commands the caller gave, a dry run, and the arguments of its wait. The harness has no
step of this kind itself: `cleanup.go` and `daemon_detect.go` are written for callers
outside, and the order detect, wait, clean up is the one their comments describe.

### KitToolchain

One run of `run.sh` after the other. `pc` is where the script or the driver is,
and each call that can fail on its own is an action: making the environment, pip,
planning, creating the sandbox, every command in it, the kill, the verdict.
`StepRaises` is an exception out of any of them, `Interrupt` a Ctrl-C, `Dies` the
loss of the process; `CreateLost` is a sandbox whose creation is never acknowledged.
`mine`, `evidence`, `cleaned` are the locals of `run_real`; `alive` is what the
provider still bills. A toolchain is abstracted to where it comes from (`Origins`):
the image, a version manager, a stray compiler, the kit. A command may exit 0
without having done anything. The exit status of a run without an API key is 0 in
the code and "skip" here, to tell it from PASS. A driver that is started without
`run.sh` is left out.
`OneSandboxPerRun` counts what a run has created (`born`), acknowledged or not: the creation
is not tried again when its answer is lost.

### SourceLocate

A place is a path that may hold a checkout, and what it holds is the set of facts
the code asks of it: a directory, a `go.mod` with donmai's module path, a
`cmd/donmai`. One action per system call (`StatDir`, `ReadGoMod`, `StatEntry`, then
`BuildStat`, `GoBuild`, `RecordExercised`), because a clone (`CloneWrites`, which
only adds) or the removal of a work tree (`RemovalTakes`, which only takes) may
come in between. `Start` makes the first candidate absolute or fails: a name for which
`filepath.Abs` fails is rejected without being looked at (`"path"`), and a walk for which
`os.Getwd` fails ends the call with nothing to report (`nocwd`). A place is cloned into or removed, not both during one call: with
both, three true answers need not be of one moment, and the code does not claim so.
`steady` and `seen` are history: where a checkout was all along, and where it was at
some moment.

### ControlToken

An environment is a sequence of assignments, as `exec.Cmd` takes it, so that
repeated keys and their order matter. `Start` is `SpawnDaemon`: the child resolves
its file from what it sees, the harness from what it believes the child sees
(`Remembered`). `NewRequest` and `RunHermetic` build a request, reading the token
file at that moment; `Send` is the daemon's gate. Files may be shared by daemons, be
the operator's, become unreadable, or vanish with a home. The daemon's side is
donmai's and external: a daemon with the gate keeps a token that is there
(`EnsureControlToken`, as `step43_zero_capacity_test.go:76` uses it) or mints one before it
serves. It may fail to mint, and must without a path or with a file it cannot read: it then
serves all the same, answers GET and refuses every other request with 503
(`control_token.go:6`), which is `"unavailable"` against the `"denied"` of a 401. Two
daemons that start at one moment are taken to mint one after the other. A path that is
an absolute override is used as it is; homes are taken to be absolute. A program that
is not handed the file, or whose additions assign it anew, is promised nothing. The
daemon at the URL is taken to be the child: that is the subject of `UrlServedByChild`
and `daemon_port_theft` in `DaemonLifecycle`.

### GuardBLint

The arguments, `FILES`, `NONFILE_SRC` and `VIOLATIONS` of the script, the rule being
looked for and the files it has still to be looked for in: each file is read again
for every rule, and `Edit` may change it in between, at most once per run as the
script never goes back. A source has one line, since lines are judged one by one.
A line is there twice, each time as a sequence of identifiers and separators: its `text`, in
which `grep -n` looks for a match (a NUL byte is a separator there), and what the shell has
`read` of it, without the NUL bytes and with what was around them joined, so that an
identifier may be lost or made. The regular expressions are
constants: which rule forbids an identifier, and whether its pattern takes the
separators on either side. `Present` is what the rule matches in the text, `Matched` what
`grep -o` extracts of what was read, `Occurrences` the result, and `IsAllowed` the
allowlist's entry with its rule, location, identifier and line, as read. `Unrecognised` is
the report of the line itself, made only if no occurrence was extracted at all. Commit
messages and standard input hold no NUL byte when they get there (`Intact`).

## 3. Runs

| run | instance | shows |
|---|---|---|
| `daemon_safety` | 1 test, 3 goroutines in `Stop`, 2 ports, foreign processes | all safety properties, the refinement, that no part starts over, and that nobody waits for ever except on a held pipe |
| `daemon_port_theft` | 2 tests, 1 port | the health probe may be answered by another test's daemon (a finding) |
| `log_tail` | ring of 5, writes of 0 to 7 bytes, every cut of the output | `String` is the tail |
| `liveness_gate` | 3 smokes with the gates of steps 20, 18 and 34, 2 peers, 7 versions, 1 canary | what green and red mean, for a run and for the jobs that read it; that the installers implement the gate |
| `liveness_silent_run` | the same | a run whose smokes all skip raw reports ok (a finding) |
| `kit_toolchain` | 2 sandboxes, 2 installation commands, 1 post command, any number of runs | what PASS and each exit status mean; a run creates one sandbox at most; runs and sandboxes end |
| `kit_detection` | the same | the detection after staging looks at the wrong files (a finding) |
| `source_locate` | 3 directories, a walk of 2, a clone at the nearest place, removals at the next and the variable's | what is found, missed and reported |
| `control_token` | 2 daemons, a temporary and the operator's home, 4 kinds of additions, daemons with and without the gate and such as cannot mint | which token a request carries and what the daemon answers |
| `guard_b` | 2 files, 1 commit, standard input, 2 rules, 3 lines of text and 3 with NUL bytes, 2 allowlist entries | what OK and a report mean |
| `guard_b_adjacent` | the same, without NUL bytes | `grep -o` loses the second of two adjacent identifiers (a finding) |
| `host_step` | 4 hooks with a nil among them, 2 leftovers, every kind of host, 3 kinds of waits, 2 runs | what is left behind is reported or has its reason; the wait is bounded; the step ends |

**Why the bounds are enough.** Two callers are needed to see `sync.Once` at work
and the third shows that a waiter is not special. One port with two tests, or two
ports with a foreign process, gives every order of pick, theft and bind. A ring of 5
has writes that are smaller than, equal to, one more than and two more than the
ring, from every position. The three smokes have one of each kind: a smoke with a knob
whose evidence is filed by its build, one with the other peer, and one without knob or
peer that files its own evidence. The versions lie below, at and above each pin as
numbers, as strings and in length (`0.9.1` is above `0.80` as a string only, `1.10` above
`1.9` as numbers only), and one has a component that is no number. A floor of 1 over at
most one other test has counts below, at and above it, with and without the help of
the live smokes. Two sandboxes let a run find the
leftover of an earlier one, and two installation commands have one that fails after
another succeeded. Three directories with a walk of two end the walk both ways, at
its bound and at the root. Two daemons are enough for one to be sent the token of the
other, and a home shared by both, or with the operator, is one of two. The linter
treats rules, files and lines independently: two rules, one with a consuming pattern,
two files, and lines with two identifiers apart, adjacent and of different rules have
every pair; of the lines with NUL bytes one loses an identifier behind another, one has one made
of harmless words and one has two joined to a third. The waits of `host_step` ask for less than both minimums (3 ticks and 1), for
more than both, and for a short deadline with an interval as long as the whole wait; a
call, and the lateness of a sleep, may be nought or one tick. So the condition can
come before, in and after the last sleep. Hooks before and after the daemon's see an error pass through it;
two runs see a crash and what the second run makes of it. `guard_b` starts with an
index equal to the working tree: what happens when it is not is among the disagreements below.

Where a module has an inductive invariant the runs check it as a whole, and with it
the conjuncts that are theorems of their own (`RedactionScope`, `GetIsBare`, the type
invariants) or follow from one (`SetupCreatesNothing`).

A run that stops is one of a program that ends (`CHECK_DEADLOCK FALSE` in
`SourceLocate.cfg`, `ControlToken.cfg` and the configurations of `GuardBLint`).

**Fairness.** `DaemonLifecycle` assumes weak fairness of the steps of the harness
(the Go scheduler runs a runnable goroutine, timers fire), of the kernel
(a delivered SIGKILL ends the process, a dead process releases its ports and
becomes a zombie) and of nothing the daemon or a worker does: a daemon may ignore
SIGTERM, never answer and never exit. That is why `HangsOnlyOnHeldPipe` excuses
exactly the worker that keeps the pipe. `KitToolchain` assumes weak fairness of the
driver's next step, since every command is given a timeout, and of the end of a
sandbox's time, which the provider enforces; an interrupt or a kill is never
required. `HostStep` assumes weak fairness of `Step` alone: the process is scheduled, `fn`
and the hooks return, the timer of a context fires. A child may ignore everything but
the kill, a descendant need never let go of the output and nobody need start the step
again, which is why `EndsUnlessHeld` excuses an output that is held for ever. The other
modules need no fairness: their properties are of safety.

## 4. Findings

* Any 200 on the port ends the health wait, so two tests handed the same port may
  share a daemon (`harness/healthz.go:37`, `harness/port.go:12`, `harness/spawn.go:77`).
* A raw skip files nothing, so a run of only such smokes is green
  (`harness/pi_install.go:97`, `liveness_test.go:18`).
* After staging, the kit is detected in the file list of the local fixture, not in
  what was staged (`kit-toolchain-e2b/kit_toolchain_e2b.py:483`).
* Of two tracker identifiers with one character between them the linter sees only the
  first (`scripts/guard-b-lint.sh:380`), so an exemption of it covers the second.
  (`SecondIdentifierReported` fails on lines with NUL bytes too; the run has none, so that
  it shows this.)

The runs that end in a violation show these
(`daemon_port_theft`, `liveness_silent_run`, `kit_detection`, `guard_b_adjacent`).
More disagreements are in the models but have no run of their own:

* `Stop` does not return when the process is reaped but when the log pipe ends
  (`harness/spawn.go:235`; a comment in `step1_af_daemon_lifecycle_test.go:146` says
  otherwise). `HangsOnlyOnHeldPipe` holds because it excuses a held pipe.
* The same holds of `Run`: a descendant that keeps the output of a command keeps its
  caller, whatever the deadline (`harness/runner.go:37` says that `Timeout` caps one
  invocation, `harness/daemon_detect.go:33` that a wedged CLI makes the probe fail
  rather than block the whole run). `EndsUnlessHeld` excuses it.
* `DaemonAvailable` looks for the CLI on PATH and runs it, with `BinaryOverride` or
  `DryRun` set or not, while `harness/runner.go:41` calls the override the single seam.
* A failed uninstall is swallowed by `StopAndUninstallDaemon`, so `RunCleanups` returns
  nil with the daemon still there; `DaemonLeftHasReason` names what must have failed.
* The comment at `.github/workflows/test.yml:254` counts four independent skip paths;
  the raw skip of `EnsurePiBinary` is a fifth.
* After a failed pip, the next run takes the empty environment for a complete one
  (`kit-toolchain-e2b/run.sh:58`; `venv = "bare"` in `KitToolchain`). It can
  neither pass nor create anything, as the SDK is missing, but no later run repairs it.
* git failing to list files or commits is not noticed and the exit status is 0
  (`scripts/guard-b-lint.sh:171` and `352`; the range `"broken"` in `GuardBLint`).
  `OnlyGitLoses` says that nothing else is ever left out of what was asked.
* Of a line with NUL bytes the linter judges what bash has left of it
  (`scripts/guard-b-lint.sh:361`): an identifier may be lost, or two words reported as one.
  The comment at line 382 says of such a line "Report it rather than dropping it", which is
  so only if no occurrence is left at all; if an exempted one is, the line is passed over.
  `CleanMeansExempt` and `ViolationsAreReal` say what does hold.
* `--staged` takes names from the index and text from the working tree
  (`scripts/guard-b-lint.sh:409`; `index` and `work` in `GuardBLint`).

Two others concern wording only:
`SpawnDaemon`'s doc says its error includes the tail of the log, which its code
leaves to the caller; the comment at `setup_live_daemon_test.go:32` says a missing
source skips the test, which `RequireDonmaiBinary` fails.

## 5. Proofs

Everything in a `*_proofs` module is checked by TLAPS down to the last leaf.

* **DaemonLifecycle.** The invariants are not inductive: that `Stop` has returned
  says nothing about the child unless one knows where every goroutine is. `IInv`
  adds to `TypeOK` how the counter of a test agrees with its child, its
  `cmd.Wait`, its cleanups and its callers (`ControlInv`), whose socket the port of its
  URL may be (`AddressInv`), and where foreign processes may listen. From `Invariance`
  follow `SpawnErrorIsClean`, `StopIsComplete`, `HomeOutlivesWriters` and, action by
  action, `Implementation`. `OnlyATakerAnswers` says how far the finding on `/healthz`
  reaches: a URL that its own daemon does not answer is answered by the child of a test
  that was given the same port or by a process outside the suite, and by nobody else.
  `NothingGoesBack` proves `NothingStartsOver`: each part has a rank, which a step leaves
  or raises and none lowers, so that `HangsOnlyOnHeldPipe` is left with whether the part
  that is waited for moves at all. `WaitIsCalledOnce` is about `cmd.Wait` alone.
* **LogTail.** `RingShape` relates the three fields. `TailIsKept` follows by
  showing for each branch of `Write` that the unrolled ring after it is the tail of
  the unrolled ring before it followed by the bytes written. `TailOfEverything` joins
  that to what came before by `EndOfEnd` (the end of an end is the end of the whole): if
  `String` is the tail of all that was ever written, it is so after the next write.
* **LivenessGate, PeerInstall, SuiteGates.** `IInv` says what the ledger knows of a
  smoke from how it ended and from the gates behind it; `GreenRunIsEvidence` and
  `RedRunIsDeserved` evaluate the verdict under it. `PeersImplementTheGate` maps each
  step of the installers to a step of the gate or a stutter, and
  `SuiteImplementsTheGate` lifts it to the suite. `SuiteIInv` adds that whoever is past
  a peer gate has a peer that fits, which needs that `compareDottedVersions` is the
  order of numbers (`CompareIsNumeric`, for versions of any length), and what a log
  that `tee` has completed shows. From it follow `PeersAreFit`, `HermeticIsComplete`,
  `ShortIsHermetic` and `CanariesSang`. `EvidenceIsNotWithdrawn` is about the ledger's
  last-write-wins: the entry of a smoke that drove the code under test stands, and an
  earlier entry gives way only to the decline that ends the smoke. `OnlyRawSkipsAreSilent`
  is the exact reach of the finding on silent runs: a green run without opt-outs that
  drove nothing was skipped raw at the peer gate of every selected smoke, so what
  `liveness.go` promises holds wherever one selected smoke has no such gate.
  `NothingAfterTee` says that the two jobs judge one and the same run.
* **KitToolchain.** `IInv` ties the locals of `run_real` to its sandbox
  (`SandboxInv`), to what has been done inside by where the driver is
  (`ProgressInv`) and to the exit status (`CodeInv`). `PassIsProof`,
  `TeardownIsReported`, `SetupIsFree` and `NamesAreScrubbed` read off the meaning of a
  status. Any number of sandboxes, commands and runs. `OneSandboxCreated` bounds what the
  provider bills: one creation per run even when its answer is lost. `RunsOnlyGoDown` gives a natural number (`Left`) that every step of a run but an
  expiry lowers.
* **SourceLocate.** `LookInv` is the crux: of a place that is being cloned into the
  facts seen so far still hold, and of one being removed the last fact is there only
  if all were at the beginning of the questions. `SearchInv` counts the rejected
  levels. `FoundIsGenuine`, `WalkFinds` and `NameDecides` follow for any walk bound,
  any depth and any set of places touched meanwhile. `SearchOnlyGoesDown`: each system
  call leaves fewer to make, at most 3 `MaxWalk` + 4, whatever others do to the places.
* **ControlToken.** `FileInv` says that the file the harness remembers is the file
  donmai resolves, and that it holds the token the daemon demands or cannot be read, if
  the daemon has a token; one that could not mint may since share its file with one that
  could, but not with the operator. It is inductive because a file holding a token is never
  overwritten, and is removed only when no daemon that is up uses it. These, and that
  minting and its failure are one step, are assumptions about donmai. `TokenFits` says that
  no request of the harness meets a 401, and a 503 only from a daemon without a token;
  `TokenIsTheDaemons` that what is sent is the daemon's own token, or for one without a
  token that of a daemon with the same file. `SameFile` and `HandedFile` are the
  lemmas about environments: the last assignment wins on both sides, and a program
  that is handed the file uses it whatever its home.
* **GuardBLint.** `IInv` describes `VIOLATIONS` by the rules and files already
  scanned. `OKIsExempt` and `ReportsAreReal` evaluate the verdict under it, for any
  rules, lines and allowlist; `OKCoversWhatWasAsked` does so for the files and commits
  that were asked for, a failing git excepted. What `grep -o` extracts is settled by
  lemmas: a row of adjacent identifiers begins with one that is found (`RowBegins`), and
  one that is lost stands right behind one that is found, so of a row every second one is
  lost and no more (`LostBehindFound`). Hence `CleanMeansExempt` holds of all that was read: each
  identifier is exempt or stands right behind an exempt one, and the latter only under a
  rule whose pattern takes separators; and a line that `grep -n` found is passed over only
  if an exempt identifier is left of it (`SomeIsFound`). `ReportsAreReal` says of a report
  that its line holds an identifier of the rule, and that the one it names was read there,
  which is the same for a line without NUL bytes (`FoundAsItIs`). `SecondIsReportedIfApart` is the other side of the
  finding: what the script says of second identifiers holds of the remaining rules, and
  of lines whose identifiers are more than one separator apart, NUL bytes excepted.
* **HostStep, WaitFor.** `WaitInv` bounds the clock at each point of the loop, and says
  since when the condition can hold without having been seen and how long ago the last
  call returned; `SteadyIsFound` and `GivesUpInTime` are its last instants, for any
  deadline, interval and delays. `PollsAreApart` is the other bound, on how often `fn` is
  called, and `WaitsOnlyGoDown` says that no step of the loop leaves as much of the wait
  as there was. `PcInv` ties the command under way to the hook that issued it, `ModeInv`
  says that the mode is the host's unless the probe failed, `BehindInv` what the hooks
  that are behind have achieved. A crash resets the first and a second run the last; what
  survives is the unit and the leftovers, which no step restores: that is
  `TeardownOnlyTakesAway`, with a dry run's daemon untouched. `CleanupReports` and
  `DaemonIsUninstalled` follow for any hooks, hosts and number of runs. `RunsOnlyGoDown`
  gives the number that the steps of a run lower outside its wait.

The assumptions are the `ASSUME`s of the modules: constants that name different
things are different, bounds are positive, a clone and a removal are not under way at
one place (`ChangeAssumption`), and what `GatesAssumption` and `AllowAssumption` say
of the data. TLC evaluates them in every run.

Stated by theorems only, for every value of the constants, and in no run's list:
`UrlServedByTaker` and `WaitOnce` (`DaemonLifecycle`), `OnlyRawSkipsEscape` and
`EvidenceStands` (`LivenessGate`), `TheLogIsOver` (`SuiteGates`), `RunsGoDown`
(`KitToolchain`), `SearchGoesDown` (`SourceLocate`), `PollsApart` and `WaitGoesDown`
(`WaitFor`), `OnlyTearsDown` and `StepGoesDown` (`HostStep`).

Only model-checked: what holds under fairness (`HangsOnlyOnHeldPipe`,
`RunsAndSandboxesEnd`, `EndsUnlessHeld`), since TLAPS does not prove liveness or ENABLED
here. The safety half of each is proved: no part goes back (`NothingStartsOver`), and
every step of a run or a wait leaves less of it (`RunsGoDown`, `StepGoesDown`,
`WaitGoesDown`). What stays with TLC is that a step is always enabled where the property
says so, and the induction that ends a sequence of smaller and smaller numbers. For the
same reason `TailOfEverything` is stated as one step: that the tail is that of everything
ever written is an induction over the writes.

## 6. Not modelled, and the plan

Not modelled:

* the texts of reports and errors, environment variables and flags of the child, the
  output of the go build, what npm downloads and how a version is cut out of the
  output of `--version`;
* pure functions on strings that keep no state and decide nothing above them
  (`harness/help_parser.go`, `adaptation.go`, `fixture_repo.go`, the fields `BinaryOverride`
  and the global flags of `Runner`, which choose an argv);
* the syntax scan of `skip_discipline_test.go`, and the self test of the linter;
* the assertions of the step, released and interactive tests, which concern the
  donmai binary and its packages, whose source is not in the repository.

Each shape of a daemon is taken to be removed by its own uninstall command only, and a
command that fails to have done its work or not (`After` in `HostStep`): the commands
themselves are the caller's and donmai's.

The plan, what is done and what is left:

1. done: `ManagedProcess`, `DaemonLifecycle`; `TailBuffer`, `LogTail`; `LivenessGate`;
   `KitToolchain`; `GuardBLint`; `SourceLocate`, `ControlToken`
2. done: `WaitFor` and `HostStep`, cleanup, wait and detection of an installed daemon
3. done: `SuiteGates`, the floor on passing tests and the canaries
4. done: `PeerInstall`, the peer installers as a refinement of the gate
5. left: the retry loop of `PickClosedPort`; a composition of `LivenessGate` with
   `DaemonLifecycle` (evidence is filed for a smoke only when its daemon has run), and
   one of `ControlToken` with the port theft of `DaemonLifecycle`
6. dropped: the composition of several manifests. `compose` orders and merges any
   number of them, but the driver gives it exactly one
   (`kit-toolchain-e2b/kit_toolchain_e2b.py:282`), so an order that mattered could not
   show; what it makes of that one is the two constants of `KitToolchain`
