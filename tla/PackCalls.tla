------------------------------- MODULE PackCalls --------------------------------
(***************************************************************************)
(* Capability runs through the pack: the VICT engines, which are external, *)
(* call the bindings of pack/src/bindings.ts or their doubles; the real    *)
(* bindings refuse, or queue a request with the supervision; the worker    *)
(* executes it.  Supervision.tla and WorkerJournal.tla have the inside of  *)
(* the last two; here only what a run can tell of them: requests are       *)
(* served one at a time, a request can be given up while its worker goes   *)
(* on with it, and a worker given up on a mutation is killed before the    *)
(* next request is sent.  All runs address one dataset.                    *)
(***************************************************************************)
EXTENDS Contracts, FiniteSets

CONSTANTS
    Run,
    Plans,      \* what a run asks for: [cap, node, mode, allow]
    GrantSets,  \* the permission sets a runtime may have
    MaxAttempts \* maxAttempts of the graphs' retry policy

ASSUME AttemptsAssumption == MaxAttempts \in Nat \ {0}

VARIABLES
    plan,       \* of each run; node.retry, node.timeout and node.control
    grants,     \* authority of the runtime
    pc,         \* where each run is
    attempt,    \* number of the current attempt
    late,       \* the deadline of the current attempt has (all but) passed
    outcomes,   \* how the attempts of each run ended
    queue,      \* runs with a request in the supervision, in order
    worker,     \* operations that live workers are in: <<run, stage>>
    poisoned,
    journal,    \* the record of each run's key
    present,    \* the dataset is in the store
    ran,        \* how often each run's operation took effect
    purged      \* a forget took effect after this run's latest effect

engine == <<plan, grants, attempt, outcomes>>
store == <<journal, present, ran, purged>>
vars == <<plan, grants, pc, attempt, late, outcomes, queue, worker, poisoned,
          journal, present, ran, purged>>

\* How the handler of one attempt ends.
Outcome == {"ok", "refused", "unknown", "unavailable", "outputContract", "workerError"}
Over == {"completed", "doubled", "failed", "denied"}
Mutating(r) == plan[r].cap \notin Search \cup {"datasetsStatus"}

\* A graph is compiled for the durable engine if any node has a retry policy,
\* a timeout or control semantics.
Durable(r) == plan[r].node.retry \/ plan[r].node.timeout \/ plan[r].node.control

\* The durable engine derives a key for nodes with a retry policy only; the
\* sequential engine has none.
HasKey(r) == plan[r].node.retry

Init ==
    /\ plan \in [Run -> Plans] /\ grants \in GrantSets
    /\ pc = [r \in Run |-> "new"]
    /\ attempt = [r \in Run |-> 1]
    /\ late = [r \in Run |-> FALSE]
    /\ outcomes = [r \in Run |-> {}]
    /\ queue = <<>> /\ worker = {} /\ poisoned = FALSE
    /\ journal = [r \in Run |-> "none"]
    /\ present \in BOOLEAN
    /\ ran = [r \in Run |-> 0] /\ purged = [r \in Run |-> FALSE]

-----------------------------------------------------------------------------
(* The engines. *)

\* Permissions and, in normal mode, the irreversible policy are settled before
\* any handler; only the sequential engine turns to the doubles, and fails
\* closed where there is none.  The durable engine calls the real binding in
\* every mode.
StartRun(r) ==
    /\ pc[r] = "new"
    /\ LET c == plan[r].cap
           denied == \/ Permission(c) \notin grants
                     \/ /\ Effect(c) = "irreversible" /\ plan[r].mode = "normal"
                        /\ ~plan[r].allow
       IN  pc' = [pc EXCEPT ![r] =
                    IF denied THEN "denied"
                    ELSE IF Durable(r) \/ plan[r].mode = "normal" THEN "invoke"
                    ELSE IF HasDouble(c) THEN "doubled" ELSE "denied"]
    /\ UNCHANGED <<engine, late, queue, worker, poisoned, store>>

\* The handler of the current attempt throws, after which the run may wait for
\* another attempt, or returns.
Throws(r, outcome) ==
    /\ outcomes' = [outcomes EXCEPT ![r] = @ \cup {outcome}]
    /\ pc' = [pc EXCEPT ![r] =
                IF plan[r].node.retry /\ attempt[r] < MaxAttempts THEN "backoff" ELSE "failed"]
    /\ UNCHANGED <<plan, grants, attempt, late>>
Returns(r) ==
    /\ outcomes' = [outcomes EXCEPT ![r] = @ \cup {"ok"}]
    /\ pc' = [pc EXCEPT ![r] = "completed"]
    /\ UNCHANGED <<plan, grants, attempt, late>>

Retry(r) ==
    /\ pc[r] = "backoff"
    /\ pc' = [pc EXCEPT ![r] = "invoke"]
    /\ attempt' = [attempt EXCEPT ![r] = @ + 1]
    /\ late' = [late EXCEPT ![r] = FALSE]
    /\ UNCHANGED <<plan, grants, outcomes, queue, worker, poisoned, store>>

-----------------------------------------------------------------------------
(* The bindings and the supervision's queue. *)

\* deadlineFrom: the attempt's deadline, absolute, or a budget of its own from
\* the moment the binding is called.
DeadlinePasses(r) ==
    /\ ~late[r]
    /\ pc[r] = "queued" \/ (pc[r] = "invoke" /\ plan[r].node.timeout)
    /\ late' = [late EXCEPT ![r] = TRUE]
    /\ UNCHANGED <<plan, grants, pc, attempt, outcomes, queue, worker, poisoned, store>>

\* Variant: requireNormalMode is left out.
AdmitsAnyMode(r) ==
    /\ plan[r].cap \in Write => HasKey(r)
    /\ ~late[r]

\* requireNormalMode, requireKey and deadlineFrom.
Admits(r) ==
    /\ plan[r].mode = "normal"
    /\ plan[r].cap \in Write => HasKey(r)
    /\ ~late[r]

Refuse(r) ==
    /\ pc[r] = "invoke" /\ ~Admits(r)
    /\ Throws(r, "refused")
    /\ UNCHANGED <<queue, worker, poisoned, store>>

\* sup.request().
Enqueue(r) ==
    /\ pc[r] = "invoke" /\ Admits(r)
    /\ pc' = [pc EXCEPT ![r] = "queued"]
    /\ queue' = Append(queue, r)
    /\ UNCHANGED <<engine, late, worker, poisoned, store>>

AtHead(r) == queue # <<>> /\ Head(queue) = r

\* Variant: the refused request stays at the head of the queue.
RefuseInPlace(r) ==
    /\ pc[r] = "queued" /\ AtHead(r) /\ late[r]
    /\ Throws(r, "refused")
    /\ UNCHANGED <<queue, worker, poisoned, store>>

\* The deadline is checked again before the request is sent.
RefuseQueued(r) ==
    /\ pc[r] = "queued" /\ AtHead(r) /\ late[r]
    /\ Throws(r, "refused")
    /\ queue' = Tail(queue)
    /\ UNCHANGED <<worker, poisoned, store>>

\* Variant: a poisoned worker is left alive.
DispatchUnkilled(r) ==
    /\ pc[r] = "queued" /\ AtHead(r) /\ ~late[r]
    /\ worker' = worker \cup {<<r, "start">>}
    /\ poisoned' = FALSE
    /\ pc' = [pc EXCEPT ![r] = "sent"]
    /\ UNCHANGED <<engine, late, queue, store>>

\* A worker that was given up on a mutation dies first; one that still reads
\* for a request that was given up comes to this one afterwards.
Dispatch(r) ==
    /\ pc[r] = "queued" /\ AtHead(r) /\ ~late[r]
    /\ worker' = {w \in worker : ~poisoned /\ ~Mutating(w[1])} \cup {<<r, "start">>}
    /\ poisoned' = FALSE
    /\ pc' = [pc EXCEPT ![r] = "sent"]
    /\ UNCHANGED <<engine, late, queue, store>>

\* Variant: a mutation that timed out counts as one that was never sent.
ReportsRefusal(r) == "refused"
\* COGNEE_WRITE_UNKNOWN, or CLIENT_DEADLINE / COGNEE_WORKER_UNAVAILABLE.
UnansweredAs(r) == IF Mutating(r) THEN "unknown" ELSE "unavailable"

TimesOut(r) ==
    /\ pc[r] = "sent"
    /\ Throws(r, UnansweredAs(r))
    /\ queue' = Tail(queue)
    /\ poisoned' = (poisoned \/ Mutating(r))
    /\ UNCHANGED <<worker, store>>

\* The worker dies, with whatever it was in.
WorkerExits ==
    /\ worker # {}
    /\ worker' = {} /\ UNCHANGED store
    /\ \/ /\ \A r \in Run : pc[r] # "sent"
          /\ UNCHANGED <<engine, pc, late, queue, poisoned>>
       \/ \E r \in Run :
            /\ pc[r] = "sent"
            /\ Throws(r, UnansweredAs(r))
            /\ queue' = Tail(queue)
            /\ poisoned' = (poisoned \/ Mutating(r))

-----------------------------------------------------------------------------
(* The worker. *)

At(r, stage) == <<r, stage>> \in worker
Moves(r, from, to) == worker' = (worker \ {<<r, from>>}) \cup {<<r, to>>}

\* The operation ends: its caller, if there is one left, gets a response.
Answers(r, from, Settles) ==
    /\ At(r, from)
    /\ worker' = worker \ {<<r, from>>}
    /\ UNCHANGED poisoned
    /\ IF pc[r] = "sent" THEN Settles /\ queue' = Tail(queue)
                         ELSE UNCHANGED <<engine, pc, late, queue>>

\* A read answers, possibly with a receipt that fails its output contract.
AnswerRead(r) ==
    /\ ~Mutating(r)
    /\ Answers(r, "start", Returns(r) \/ Throws(r, "outputContract"))
    /\ UNCHANGED store

\* Variant: a record that was only begun is replayed as an outcome.
ReplayAny(r) ==
    /\ plan[r].cap \in Write /\ journal[r] # "none"
    /\ Answers(r, "start", Returns(r))
    /\ UNCHANGED store
Replay(r) ==
    /\ plan[r].cap \in Write /\ journal[r] = "completed"
    /\ Answers(r, "start", Returns(r))
    /\ UNCHANGED store

\* The key is begun, or found begun.
Begin(r) ==
    /\ plan[r].cap \in Write /\ journal[r] # "completed" /\ At(r, "start")
    /\ plan[r].cap = "cognify" => present
    /\ journal' = [journal EXCEPT ![r] = "begun"]
    /\ Moves(r, "start", "begun")
    /\ UNCHANGED <<engine, pc, late, queue, poisoned, present, ran, purged>>

\* Variant: a write that took effect once is not carried out again.
ExecuteOnce(r) ==
    /\ \/ plan[r].cap \in Write /\ At(r, "begun") /\ Moves(r, "begun", "executed")
       \/ /\ plan[r].cap = "forgetDataset" /\ present
          /\ At(r, "start") /\ Moves(r, "start", "executed")
    /\ present' = \/ plan[r].cap = "add" /\ ran[r] = 0
                  \/ present /\ plan[r].cap # "forgetDataset"
    /\ ran' = [ran EXCEPT ![r] = @ + 1]
    /\ purged' = [q \in Run |-> IF plan[r].cap = "forgetDataset"
                                 THEN ran[q] > 0 ELSE purged[q] /\ q # r]
    /\ UNCHANGED <<engine, pc, late, queue, poisoned, journal>>

\* cognee.add, cognee.cognify and cognee.forget take effect.
Execute(r) ==
    /\ \/ plan[r].cap \in Write /\ At(r, "begun") /\ Moves(r, "begun", "executed")
       \/ /\ plan[r].cap = "forgetDataset" /\ present
          /\ At(r, "start") /\ Moves(r, "start", "executed")
    /\ present' = (plan[r].cap = "add" \/ (present /\ plan[r].cap # "forgetDataset"))
    /\ ran' = [ran EXCEPT ![r] = @ + 1]
    /\ purged' = [q \in Run |-> IF plan[r].cap = "forgetDataset"
                                 THEN ran[q] > 0 ELSE purged[q] /\ q # r]
    /\ UNCHANGED <<engine, pc, late, queue, poisoned, journal>>

Commit(r) ==
    /\ Answers(r, "executed", Returns(r))
    /\ journal' = IF plan[r].cap \in Write THEN [journal EXCEPT ![r] = "completed"] ELSE journal
    /\ UNCHANGED <<present, ran, purged>>

\* A typed error: an unknown dataset, or Cognee failing before, in or after
\* the effect.
Fails(r) ==
    /\ Mutating(r)
    /\ \E stage \in {"start", "begun", "executed"} : Answers(r, stage, Throws(r, "workerError"))
    /\ UNCHANGED store

-----------------------------------------------------------------------------
Serve(r) == AnswerRead(r) \/ Replay(r) \/ Begin(r) \/ Execute(r) \/ Commit(r) \/ Fails(r)
Proceed(r) == StartRun(r) \/ Retry(r) \/ Refuse(r) \/ Enqueue(r) \/ RefuseQueued(r) \/ Dispatch(r)

Next == (\E r \in Run : Proceed(r) \/ DeadlinePasses(r) \/ TimesOut(r) \/ Serve(r)) \/ WorkerExits

Spec == Init /\ [][Next]_vars

\* Engines, bindings and queue go on by themselves, and timers fire; a worker
\* may hang for ever.
FairSpec == Spec /\ \A r \in Run : WF_vars(Proceed(r)) /\ WF_vars(TimesOut(r))

TypeOK ==
    /\ plan \in [Run -> Plans] /\ grants \in GrantSets
    /\ pc \in [Run -> {"new", "invoke", "queued", "sent", "backoff"} \cup Over]
    /\ attempt \in [Run -> 1..MaxAttempts]
    /\ late \in [Run -> BOOLEAN]
    /\ outcomes \in [Run -> SUBSET Outcome]
    /\ queue \in Seq(Run)
    /\ worker \subseteq Run \X {"start", "begun", "executed"}
    /\ poisoned \in BOOLEAN /\ present \in BOOLEAN
    /\ journal \in [Run -> {"none", "begun", "completed"}]
    /\ ran \in [Run -> Nat] /\ purged \in [Run -> BOOLEAN]

-----------------------------------------------------------------------------
\* Whatever engine runs it, nothing reaches the worker but normal-mode
\* operations with their permission, writes with a key, and deletions the run
\* policy allows ("restored at the pack boundary", bindings.ts 10-15).
OnlyAdmittedWork ==
    \A w \in worker :
      LET p == plan[w[1]]
      IN  /\ p.mode = "normal" /\ Permission(p.cap) \in grants
          /\ p.cap \in Write => HasKey(w[1])
          /\ Effect(p.cap) = "irreversible" => p.allow

\* A run every attempt of which was refused touches the store neither then nor
\* later ("clean failure, no effect", bindings.ts 20-21).
CleanRefusal ==
    \A r \in Run : outcomes[r] \subseteq {"refused"} /\ pc[r] \in Over
                     => ran[r] = 0 /\ journal[r] = "none"

\* A mutation reported as completed took effect, and the data is there unless a
\* forget came after its latest effect - replayed attempts, and those reissued
\* after a forget, included.
CompletedHasLanded ==
    \A r \in Run : pc[r] = "completed" /\ Mutating(r) =>
      /\ ran[r] > 0
      /\ plan[r].cap = "add" /\ ~purged[r] => present

\* Work given up by a run that is over lands, if at all, before anything else
\* is sent to a worker: what a later operation saw is not changed behind it.
NothingLandsBehind ==
    [][\A r \in Run : ran'[r] > ran[r] /\ pc[r] \in Over =>
         \A q \in Run : pc[q] # "sent"]_vars

\* Every run ends, though a worker may never answer.
EveryRunEnds == \A r \in Run : <>(pc[r] \in Over)
=============================================================================
