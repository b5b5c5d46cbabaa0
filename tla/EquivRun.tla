-------------------------------- MODULE EquivRun ---------------------------------
(***************************************************************************)
(* One run of the cognify-retry proof, worker/graph_equiv_c4.mjs: store A  *)
(* gets an uninterrupted cognify, store B one that the proof-only worker   *)
(* (worker_proof.py) crashes between the write and the journal's commit,   *)
(* and a keyed reissue; then the graphs are dumped and compared            *)
(* (GraphComparison.tla).  Each client is one worker; only the journal     *)
(* record of key B-cog and the effects of cognify on store B are kept.     *)
(***************************************************************************)
EXTENDS Naturals, FiniteSets

VARIABLES
    step,       \* where the script is
    waiting,    \* it awaits the answer to the request of this step
    alive,      \* clients whose worker process runs
    doing,      \* <<operation, stage>> of each client's worker
    results,    \* what record() was called with: <<id, outcome>>
    reconciled, \* what the receipt of the reissue says
    crashed,    \* the crash of the armed worker was seen
    journal,    \* B-cog: "none", "begun", "completed"
    effects,    \* how often cognify took effect on store B
    hooked,     \* the injected fault fired
    same,       \* the graphs of A and B are equal
    exit        \* exit status

script == <<step, waiting, results, reconciled, crashed>>
runVars == <<script, alive, doing, journal, effects, hooked, same, exit>>
stores == <<journal, effects, hooked, same>>

Client == {"a", "b", "cc"}
OnB == {"b", "cc"}
Request == {"addA", "cognifyA", "addB", "armed", "reissue", "search"}
ClientOf(s) == CASE s \in {"addA", "cognifyA"} -> "a"
                 [] s = "armed" -> "cc"
                 [] OTHER -> "b"
Idle == <<"none", "none">>

RunInit ==
    /\ step = "addA" /\ waiting = FALSE
    /\ alive = {} /\ doing = [c \in Client |-> Idle]
    /\ results = {} /\ reconciled = "none" /\ crashed = FALSE
    /\ journal = "none" /\ effects = 0 /\ hooked = FALSE
    /\ same \in BOOLEAN
    /\ exit = "none"

Goes(to) == step' = to /\ waiting' = FALSE
Record(id, ok, otherwise) == results' = results \cup {<<id, IF ok THEN "PASS" ELSE otherwise>>}
Stop(c) == alive' = alive \ {c} /\ doing' = [doing EXCEPT ![c] = Idle]

-----------------------------------------------------------------------------
(* The workers. *)

At(c, op, stage) == c \in alive /\ doing[c] = <<op, stage>>
Stage(c, op, stage) == doing' = [doing EXCEPT ![c] = <<op, stage>>]

\* A cognify on store B: the record begins, the write takes effect.
Begins(c, op) ==
    /\ op \in {"armed", "reissue"} /\ At(c, op, "start") /\ journal # "completed"
    /\ journal' = "begun" /\ Stage(c, op, IF journal = "none" THEN "fresh" ELSE "reissued")
    /\ UNCHANGED <<script, alive, effects, hooked, same, exit>>
Writes(c, op) ==
    /\ \E s \in {"fresh", "reissued"} :
         At(c, op, s) /\ Stage(c, op, IF s = "fresh" THEN "freshDone" ELSE "reissueDone")
    /\ effects' = effects + 1
    /\ UNCHANGED <<script, alive, journal, hooked, same, exit>>

\* How the operation is answered once it is through.
Done(c, op) ==
    IF op \notin {"armed", "reissue"} THEN "ok"
    ELSE CASE At(c, op, "start") /\ journal = "completed" -> "replayed"
           [] At(c, op, "freshDone") -> "fresh"
           [] At(c, op, "reissueDone") -> "reissued"
           [] OTHER -> "unfinished"

-----------------------------------------------------------------------------
(* The script. *)

\* The client has, or spawns, its worker, and writes the request.
Send ==
    /\ step \in Request /\ ~waiting /\ waiting' = TRUE
    /\ alive' = alive \cup {ClientOf(step)}
    /\ doing' = [doing EXCEPT ![ClientOf(step)] = <<step, "start">>]
    /\ UNCHANGED <<step, results, reconciled, crashed, stores, exit>>

\* A failure outside the armed part ends run(): FATAL.
Fails ==
    Goes("closing") /\ Record("FATAL", FALSE, "ERROR") /\ UNCHANGED <<reconciled, crashed>>

\* What follows an answered request, by step; a client that is through with
\* its part is shut down.
Answered(how) ==
    /\ UNCHANGED crashed
    /\ reconciled' = IF step = "reissue" THEN how ELSE reconciled
    /\ IF step \in {"addA", "armed", "reissue"}
         THEN doing' = [doing EXCEPT ![ClientOf(step)] = Idle] /\ UNCHANGED alive
         ELSE Stop(ClientOf(step))
    /\ CASE step = "addA" -> Goes("cognifyA") /\ UNCHANGED results
         [] step = "cognifyA" -> Goes("addB") /\ Record("g1", TRUE, "")
         [] step = "addB" -> Goes("armed") /\ UNCHANGED results
         [] step = "armed" -> Goes("inspect") /\ Record("g2", FALSE, "FAIL-UNEXPECTED")
         [] step = "reissue" -> Goes("search") /\ UNCHANGED results
         [] step = "search" ->
              /\ Goes("dump")
              /\ \E found \in BOOLEAN : Record("g4", reconciled = "reissued" /\ found, "FAIL")

\* A commit, unless the fault fires at it, and the answer to whoever waits.
WorkerAnswers(c) ==
    LET op == doing[c][1]
        how == Done(c, op)
    IN  /\ c \in alive /\ doing[c] # Idle /\ how # "unfinished"
        /\ op = "armed" => how = "replayed"
        /\ journal' = IF how \in {"fresh", "reissued"} THEN "completed" ELSE journal
        /\ IF waiting /\ step = op THEN Answered(how)
             ELSE /\ doing' = [doing EXCEPT ![c] = Idle]
                  /\ UNCHANGED <<script, alive>>
        /\ UNCHANGED <<effects, hooked, same, exit>>

\* The request's client learns of a failure: the worker's exit with this
\* status, or another error.
Loses(c, exitedWith2) ==
    IF waiting /\ ClientOf(step) = c
    THEN IF step = "armed"
         THEN /\ Goes("inspect") /\ crashed' = exitedWith2 /\ UNCHANGED reconciled
              /\ Record("g2", exitedWith2, "ERROR")
         ELSE Fails
    ELSE UNCHANGED script

\* _crashing_commit: os._exit(2) in place of the commit.
FaultFires ==
    /\ \E s \in {"freshDone", "reissueDone"} : At("cc", "armed", s)
    /\ hooked' = TRUE /\ Stop("cc") /\ Loses("cc", TRUE)
    /\ UNCHANGED <<journal, effects, same, exit>>

WorkerDies(c) ==
    /\ c \in alive /\ Stop(c) /\ Loses(c, FALSE)
    /\ UNCHANGED <<stores, exit>>

\* An error response, or the deadline: the worker goes on in the second case.
RequestFails ==
    /\ waiting
    /\ \/ doing' = [doing EXCEPT ![ClientOf(step)] = Idle]
       \/ UNCHANGED doing
    /\ Loses(ClientOf(step), FALSE)
    /\ UNCHANGED <<alive, stores, exit>>

\* g3, from the journal file of store B.
Inspect ==
    /\ step = "inspect" /\ Goes("reissue")
    /\ Record("g3", crashed /\ journal = "begun", "FAIL")
    /\ UNCHANGED <<reconciled, crashed, alive, doing, stores, exit>>

\* Both dumps succeed, or run() returns.
DumpGraphs ==
    /\ step = "dump"
    /\ \E ok \in BOOLEAN : Record("g5", ok, "ERROR") /\ Goes(IF ok THEN "compare" ELSE "closing")
    /\ UNCHANGED <<reconciled, crashed, alive, doing, stores, exit>>

\* g6, g7 and the verdict; the controls of an equivalent pair are detected.
Compare ==
    /\ step = "compare" /\ Goes("closing")
    /\ \E detected \in (IF same THEN {TRUE} ELSE BOOLEAN) :
         results' = results \cup {<<"g6", IF same THEN "PASS" ELSE "FAIL">>,
                                  <<"g7", IF detected THEN "PASS" ELSE "FAIL">>,
                                  <<"verdict", IF same /\ detected THEN "PASS" ELSE "FAIL">>}
    /\ UNCHANGED <<reconciled, crashed, alive, doing, stores, exit>>

\* finally: every client is shut down.
Close(c) ==
    /\ step = "closing" /\ c \in alive /\ Stop(c)
    /\ UNCHANGED <<script, stores, exit>>

Outcomes == {r[2] : r \in results}
\* Variant: only failed assertions count.
OnlyFailuresCount == IF "FAIL" \in Outcomes THEN "red" ELSE "green"
ExitStatus == IF Outcomes \subseteq {"PASS"} THEN "green" ELSE "red"

Exit ==
    /\ step = "closing" /\ alive = {} /\ Goes("gone") /\ exit' = ExitStatus
    /\ UNCHANGED <<results, reconciled, crashed, alive, doing, stores>>

\* A worker in use died before its next request is written: the write fails
\* with EPIPE, and no handler is registered while the script runs.
Uncaught ==
    /\ step \in {"cognifyA", "search"} /\ ~waiting
    /\ Stop(ClientOf(step)) /\ Goes("gone") /\ exit' = "red"
    /\ UNCHANGED <<results, reconciled, crashed, stores>>

RunNext ==
    \/ Send \/ RequestFails \/ Inspect \/ DumpGraphs \/ Compare \/ Exit \/ Uncaught
    \/ FaultFires
    \/ \E c \in Client : \/ WorkerAnswers(c) \/ WorkerDies(c) \/ Close(c)
                         \/ \E op \in Request : Begins(c, op) \/ Writes(c, op)

RunSpec == RunInit /\ [][RunNext]_runVars

-----------------------------------------------------------------------------
\* A run that exits 0 has shown what it is for: the fault fired after the write
\* and before the commit, the reissue wrote a second time and completed the
\* record, and the graphs compared are equal - whatever timed out, crashed or
\* failed on the way ("a FAIL/observation can never exit 0", lines 49-51).
GreenMeansTested ==
    exit = "green" => hooked /\ effects = 2 /\ journal = "completed" /\ same
=============================================================================
