----------------------------- MODULE MCHostStep -----------------------------
(* Machines and callers for TLC.                                           *)
EXTENDS HostStep

CONSTANTS scratch, namespace

TwoLeftovers == {scratch, namespace}
FourHooks    == <<scratch, NilHook, Daemon, namespace>>

(* Every machine with every set of commands; and callers that wait, one    *)
(* below both minimums, one between and one above, on one machine.         *)
Machines == [cli : {"absent", "old", "serves"}, legacy : BOOLEAN,
             argvs : SUBSET {"stop", "uninstall", "legacy"}, dry : BOOLEAN, wait : {NoWait}]
Waiting  == [cli : {"serves"}, legacy : {FALSE}, argvs : {{"uninstall"}}, dry : {FALSE},
             wait : {<<0, 0>>, <<5, 2>>, <<2, 3>>}]
AllHosts == Machines \cup Waiting

=============================================================================
