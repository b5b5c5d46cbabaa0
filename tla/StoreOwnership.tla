---------------------------- MODULE StoreOwnership ----------------------------
(***************************************************************************)
(* The store-owner lock of pack/src/supervision.ts: several supervision    *)
(* instances, each in an operating-system process of its own, are pointed  *)
(* at ONE Cognee store root and coordinate only through the lock file in   *)
(* that root.                                                              *)
(*                                                                         *)
(* A JavaScript turn is atomic inside its process but not between          *)
(* processes, so every file-system call that another process can interleave*)
(* with is a step of its own: existsSync / openSync('wx') / writeSync of   *)
(* the claim, readFileSync / renameSync of the heartbeat, readFileSync /   *)
(* write to the worker of the dispatch, readFileSync / unlinkSync of the   *)
(* release.  A process may crash between any two of them, and its worker   *)
(* outlives it until it meets the end of its standard input.               *)
(*                                                                         *)
(* A worker that was sent SIGKILL runs no further code and counts as gone. *)
(* Request queue, deadlines and poison are Supervision.tla's; here a       *)
(* request only appears through what it does to the lock and the store.    *)
(***************************************************************************)
CONSTANTS
    Instance,       \* supervision instances; an id is a randomUUID, used once
    Absent,         \* "no lock file"
    Foreign,        \* an owner record of nobody in Instance
    RogueOperator   \* may someone remove or replace a lock against section 8.1?

ASSUME InstanceAssumption == Absent \notin Instance /\ Foreign \notin Instance
                             /\ Absent # Foreign
ASSUME RogueAssumption == RogueOperator \in BOOLEAN

VARIABLES
    lock,       \* who created / last renamed the lock file, or Absent
    torn,       \* the lock file exists but holds no readable record
    pc,         \* the synchronous section each instance's process is in
    owns,       \* ownsStore
    req,        \* where the request at the head of the queue is awaiting
    worker,     \* the Python worker process of each instance
    lostMidOp   \* the in-flight request's heartbeat saw the lock gone

vars == <<lock, torn, pc, owns, req, worker, lostMidOp>>

PcState == {"start", "creating", "writing", "run", "refused", "beating",
            "lifecycle", "sending", "unlinking", "dead"}
ReqState == {"none", "respawning", "awaiting", "inflight"}
WorkerState == {"none", "idle", "busy"}

Init ==
    /\ lock = Absent
    /\ torn = FALSE
    /\ pc = [i \in Instance |-> "start"]
    /\ owns = [i \in Instance |-> FALSE]
    /\ req = [i \in Instance |-> "none"]
    /\ worker = [i \in Instance |-> "none"]
    /\ lostMidOp = [i \in Instance |-> FALSE]

-----------------------------------------------------------------------------
\* A readable record with this instance's id: what verifyOwnershipIntact and
\* releaseStoreOwnership look for.
Names(i) == lock = i /\ ~torn

Verified(i) == owns[i] /\ Names(i)

Goto(i, label) == pc' = [pc EXCEPT ![i] = label]

\* verifyOwnershipIntact when it throws with nothing in flight: the loss is
\* permanent, and the call that detects it kills the idle worker.  A call that
\* finds ownsStore already cleared throws at once and kills nothing.
FailClosed(i) ==
    /\ owns' = [owns EXCEPT ![i] = FALSE]
    /\ worker' = [worker EXCEPT ![i] = IF owns[i] THEN "none" ELSE @]

-----------------------------------------------------------------------------
\* acquireStoreOwnership: existsSync of the lock path.
AcquireCheck(i) ==
    /\ pc[i] = "start"
    /\ Goto(i, IF lock = Absent THEN "creating" ELSE "refused")
    /\ UNCHANGED <<lock, torn, owns, req, worker, lostMidOp>>

\* Variant: the lock is opened with 'w', which takes over an existing file.
OpenForWriting(i) ==
    /\ pc[i] = "creating"
    /\ lock' = i
    /\ torn' = TRUE
    /\ Goto(i, "writing")
    /\ UNCHANGED <<owns, req, worker, lostMidOp>>

\* Variant: ownsStore is set before the record is written.
OwnsTooEarly(i) ==
    /\ pc[i] = "creating" /\ lock = Absent
    /\ lock' = i /\ torn' = TRUE
    /\ owns' = [owns EXCEPT ![i] = TRUE]
    /\ Goto(i, "writing")
    /\ UNCHANGED <<req, worker, lostMidOp>>

\* createLockAtomically: openSync('wx') creates an EMPTY file or fails.
CreateWins(i) ==
    /\ pc[i] = "creating"
    /\ lock = Absent
    /\ lock' = i
    /\ torn' = TRUE
    /\ Goto(i, "writing")
    /\ UNCHANGED <<owns, req, worker, lostMidOp>>

CreateLoses(i) ==
    /\ pc[i] = "creating"
    /\ lock # Absent
    /\ Goto(i, "refused")
    /\ UNCHANGED <<lock, torn, owns, req, worker, lostMidOp>>

\* createLockAtomically: writeSync of the record through the descriptor (a
\* file someone replaced meanwhile keeps its content), then ownsStore = true.
WriteRecord(i) ==
    /\ pc[i] = "writing"
    /\ torn' = (torn /\ lock # i)
    /\ owns' = [owns EXCEPT ![i] = TRUE]
    /\ Goto(i, "run")
    /\ UNCHANGED <<lock, req, worker, lostMidOp>>

-----------------------------------------------------------------------------
\* Variant: the heartbeat renames without verifying.
BlindHeartbeat(i) ==
    /\ pc[i] = "run" /\ req[i] = "none"
    /\ Goto(i, "beating")
    /\ UNCHANGED <<lock, torn, owns, req, worker, lostMidOp>>

\* request, step (1): refreshOwnershipHeartbeat reads the lock ...
BeginRequest(i) ==
    /\ pc[i] = "run"
    /\ req[i] = "none"
    /\ \/ Verified(i) /\ Goto(i, "beating") /\ UNCHANGED <<owns, worker>>
       \/ ~Verified(i) /\ FailClosed(i) /\ UNCHANGED pc
    /\ UNCHANGED <<lock, torn, req, lostMidOp>>

\* ... and renames its temporary file over whatever is at the path by then.
RenameHeartbeat(i) ==
    /\ pc[i] = "beating"
    /\ lock' = i
    /\ torn' = FALSE
    /\ Goto(i, IF req[i] = "inflight" THEN "run" ELSE "lifecycle")
    /\ UNCHANGED <<owns, req, worker, lostMidOp>>

\* request, step (2), and _lifecycle up to its first await: an expired
\* deadline ends the request; a healthy worker is awaited; a missing one is
\* spawned; a poisoned one is killed and the request sleeps 300 ms.
Lifecycle(i) ==
    /\ pc[i] = "lifecycle"
    /\ Goto(i, "run")
    /\ \/ UNCHANGED <<req, worker>>
       \/ /\ worker[i] # "none"
          /\ req' = [req EXCEPT ![i] = "awaiting"]
          /\ UNCHANGED worker
       \/ /\ worker[i] = "none"
          /\ req' = [req EXCEPT ![i] = "awaiting"]
          /\ worker' = [worker EXCEPT ![i] = "idle"]
       \/ /\ worker[i] # "none"
          /\ req' = [req EXCEPT ![i] = "respawning"]
          /\ worker' = [worker EXCEPT ![i] = "none"]
    /\ UNCHANGED <<lock, torn, owns, lostMidOp>>

\* _lifecycle after delay(300): spawnChild, with no look at the lock.
Respawn(i) ==
    /\ pc[i] = "run"
    /\ req[i] = "respawning"
    /\ worker' = [worker EXCEPT ![i] = "idle"]
    /\ req' = [req EXCEPT ![i] = "awaiting"]
    /\ UNCHANGED <<lock, torn, pc, owns, lostMidOp>>

\* The ready promise rejects: the worker exited before it was ready, or the
\* ready budget expired and the timer killed it.
ReadyFails(i) ==
    /\ pc[i] = "run"
    /\ req[i] = "awaiting"
    /\ req' = [req EXCEPT ![i] = "none"]
    /\ worker' = [worker EXCEPT ![i] = "none"]
    /\ UNCHANGED <<lock, torn, pc, owns, lostMidOp>>

\* Variant: no verification between the worker's readiness and the dispatch.
SendUnverified(i) ==
    /\ pc[i] = "run" /\ req[i] = "awaiting" /\ worker[i] # "none"
    /\ Goto(i, "sending")
    /\ UNCHANGED <<lock, torn, owns, req, worker, lostMidOp>>

\* request, step (3): the worker is ready; verifyOwnershipIntact reads the
\* lock again, then the deadline is checked again.
ReadyVerify(i) ==
    /\ pc[i] = "run"
    /\ req[i] = "awaiting"
    /\ worker[i] # "none"
    /\ \/ Verified(i) /\ Goto(i, "sending") /\ UNCHANGED <<req, owns, worker>>
       \/ /\ Verified(i)
          /\ req' = [req EXCEPT ![i] = "none"]
          /\ UNCHANGED <<pc, owns, worker>>
       \/ /\ ~Verified(i)
          /\ req' = [req EXCEPT ![i] = "none"]
          /\ FailClosed(i)
          /\ UNCHANGED pc
    /\ UNCHANGED <<lock, torn, lostMidOp>>

\* request: the message goes to the worker's standard input.
SendOp(i) ==
    /\ pc[i] = "sending"
    /\ Goto(i, "run")
    /\ req' = [req EXCEPT ![i] = "inflight"]
    /\ worker' = [worker EXCEPT ![i] = IF @ = "none" THEN @ ELSE "busy"]
    /\ lostMidOp' = [lostMidOp EXCEPT ![i] = FALSE]
    /\ UNCHANGED <<lock, torn, owns>>

\* request: the interval in flight runs refreshOwnershipHeartbeat.
HeartbeatTick(i) ==
    /\ pc[i] = "run"
    /\ req[i] = "inflight"
    /\ \/ Verified(i) /\ Goto(i, "beating") /\ UNCHANGED <<owns, lostMidOp>>
       \/ /\ ~Verified(i)
          /\ owns' = [owns EXCEPT ![i] = FALSE]
          /\ lostMidOp' = [lostMidOp EXCEPT ![i] = TRUE]
          /\ UNCHANGED pc
    /\ UNCHANGED <<lock, torn, req, worker>>

\* Variant: a lock lost mid-operation is forgotten at settlement.
ForgetsLoss(i) ==
    /\ pc[i] = "run" /\ req[i] = "inflight"
    /\ req' = [req EXCEPT ![i] = "none"]
    /\ \E w \in {worker[i], "idle"} :
         worker' = [worker EXCEPT ![i] = IF @ = "none" THEN @ ELSE w]
    /\ UNCHANGED <<lock, torn, pc, owns, lostMidOp>>

\* request, finish(): answered (the worker is idle again) or timed out (the
\* worker may still be executing); a lock lost mid-operation kills the worker.
Settle(i) ==
    /\ pc[i] = "run"
    /\ req[i] = "inflight"
    /\ req' = [req EXCEPT ![i] = "none"]
    /\ \E w \in {worker[i], "idle"} :
         worker' = [worker EXCEPT ![i] =
                      IF lostMidOp[i] \/ @ = "none" THEN "none" ELSE w]
    /\ UNCHANGED <<lock, torn, pc, owns, lostMidOp>>

-----------------------------------------------------------------------------
\* Variants: shutdown forgets to kill the worker; the release deletes the lock
\* without looking whose it is.
ReleaseSparesWorker(i) ==
    /\ pc[i] = "run"
    /\ \/ Verified(i) /\ Goto(i, "unlinking") /\ UNCHANGED owns
       \/ ~Verified(i) /\ owns' = [owns EXCEPT ![i] = FALSE] /\ UNCHANGED pc
    /\ UNCHANGED <<lock, torn, req, worker, lostMidOp>>

ReleaseUnread(i) ==
    /\ pc[i] = "run"
    /\ worker' = [worker EXCEPT ![i] = "none"]
    /\ Goto(i, "unlinking")
    /\ UNCHANGED <<lock, torn, owns, req, lostMidOp>>

\* shutdown, last turn: the child is SIGKILLed and forgotten, then
\* releaseStoreOwnership reads the lock.  Requests queued behind the shutdown
\* request may be anywhere in their own life by then.
ReleaseRead(i) ==
    /\ pc[i] = "run"
    /\ worker' = [worker EXCEPT ![i] = "none"]
    /\ \/ Verified(i) /\ Goto(i, "unlinking") /\ UNCHANGED owns
       \/ ~Verified(i) /\ owns' = [owns EXCEPT ![i] = FALSE] /\ UNCHANGED pc
    /\ UNCHANGED <<lock, torn, req, lostMidOp>>

\* releaseStoreOwnership: unlinkSync of whatever is at the path by then.
ReleaseUnlink(i) ==
    /\ pc[i] = "unlinking"
    /\ lock' = Absent
    /\ torn' = FALSE
    /\ owns' = [owns EXCEPT ![i] = FALSE]
    /\ Goto(i, "run")
    /\ UNCHANGED <<req, worker, lostMidOp>>

-----------------------------------------------------------------------------
\* The owner's process dies at any point; its memory is gone, the lock file
\* and the worker are not.
Crash(i) ==
    /\ pc[i] # "dead"
    /\ Goto(i, "dead")
    /\ owns' = [owns EXCEPT ![i] = FALSE]
    /\ req' = [req EXCEPT ![i] = "none"]
    /\ lostMidOp' = [lostMidOp EXCEPT ![i] = FALSE]
    /\ UNCHANGED <<lock, torn, worker>>

\* Variant: a worker that goes on serving after the end of its input.
IgnoresEndOfInput(i) ==
    /\ worker[i] # "none" /\ pc[i] # "dead"
    /\ worker' = [worker EXCEPT ![i] = "none"]
    /\ UNCHANGED <<lock, torn, pc, owns, req, lostMidOp>>

\* A worker exits: by itself at any time, or an orphan at the end of its
\* standard input (which it only meets after the operation it is executing).
WorkerExit(i) ==
    /\ worker[i] # "none"
    /\ worker' = [worker EXCEPT ![i] = "none"]
    /\ UNCHANGED <<lock, torn, pc, owns, req, lostMidOp>>

\* A worker finishes an operation nobody waits for any more.
LateFinish(i) ==
    /\ worker[i] = "busy"
    /\ req[i] # "inflight"
    /\ worker' = [worker EXCEPT ![i] = "idle"]
    /\ UNCHANGED <<lock, torn, pc, owns, req, lostMidOp>>

\* Section 8.1: the operator deletes a lock after verifying that the recorded
\* owner's process is dead (for an unreadable lock: that no process claims or
\* owns the store) and that no worker serves the store.
OperatorRecovers ==
    /\ lock # Absent
    /\ \A i \in Instance : worker[i] = "none"
    /\ IF torn \/ lock = Foreign
         THEN \A i \in Instance : pc[i] # "writing" /\ ~owns[i]
         ELSE pc[lock] = "dead"
    /\ lock' = Absent
    /\ torn' = FALSE
    /\ UNCHANGED <<pc, owns, req, worker, lostMidOp>>

\* Somebody removes, replaces or corrupts the lock without that verification
\* (the ownership tests O2b, O6 and O11 do exactly this).
OperatorTampers ==
    /\ RogueOperator
    /\ lock # Absent
    /\ lock' \in {Absent, Foreign}
    /\ torn' \in {FALSE, lock' # Absent}
    /\ UNCHANGED <<pc, owns, req, worker, lostMidOp>>

-----------------------------------------------------------------------------
Acquiring(i) ==
    AcquireCheck(i) \/ CreateWins(i) \/ CreateLoses(i) \/ WriteRecord(i)

\* Steps the event loop of instance i takes by itself once they are enabled.
Progress(i) ==
    \/ RenameHeartbeat(i) \/ Lifecycle(i) \/ Respawn(i)
    \/ ReadyFails(i) \/ ReadyVerify(i) \/ SendOp(i) \/ Settle(i)
    \/ ReleaseUnlink(i)

Next ==
    \/ \E i \in Instance :
         \/ Acquiring(i) \/ BeginRequest(i) \/ Progress(i)
         \/ HeartbeatTick(i) \/ ReleaseRead(i)
         \/ Crash(i) \/ WorkerExit(i) \/ LateFinish(i)
    \/ OperatorRecovers
    \/ OperatorTampers

Spec == Init /\ [][Next]_vars

\* The lock of a process that died.
Stale == lock \in Instance /\ pc[lock] = "dead"

\* Section 8.1, step 1: with a stale lock at hand the operator stops every
\* other process that still has a worker on the store.
OperatorStops(i) == Stale /\ ~owns[i] /\ worker[i] # "none" /\ Crash(i)

\* The event loop runs, an orphaned worker meets the end of its input, and the
\* operator recovers what may be recovered.
Fairness ==
    /\ \A i \in Instance : WF_vars(Acquiring(i)) /\ WF_vars(Progress(i))
    /\ \A i \in Instance : WF_vars(pc[i] = "dead" /\ WorkerExit(i))
    /\ \A i \in Instance : WF_vars(OperatorStops(i))
    /\ WF_vars(OperatorRecovers)

FairSpec == Spec /\ Fairness

-----------------------------------------------------------------------------
\* Every variable stays in its domain, and ownsStore is only ever set in a
\* process that got through acquireStoreOwnership.
TypeOK ==
    /\ lock \in Instance \cup {Absent, Foreign}
    /\ torn \in BOOLEAN
    /\ pc \in [Instance -> PcState]
    /\ owns \in [Instance -> BOOLEAN]
    /\ req \in [Instance -> ReqState]
    /\ worker \in [Instance -> WorkerState]
    /\ lostMidOp \in [Instance -> BOOLEAN]
    /\ \A i \in Instance : owns[i] =>
         pc[i] \in {"run", "beating", "lifecycle", "sending", "unlinking"}

-----------------------------------------------------------------------------
(* What the lock promises when the operator keeps to section 8.1. *)

\* No two instances execute operations on the store at the same time, crashes,
\* orphaned workers and operator recovery included (contract section 8: "no
\* concurrent operations on one physical store, including during recovery").
OneOperating ==
    \A i, j \in Instance : worker[i] = "busy" /\ worker[j] = "busy" => i = j

\* A worker whose instance's name is not on the lock is one that _lifecycle
\* spawned after its 300 ms sleep while the lock was released under it: it
\* executes nothing, and its instance, if it still lives, no longer owns the
\* store.
StrayWorkerNeverServes ==
    \A i \in Instance :
      worker[i] # "none" /\ lock # i => worker[i] = "idle" /\ ~owns[i]

\* As long as its owner lives, a lock leaves the path only through the owner's
\* own release; no other instance's rename or unlink, and no operator, takes
\* it away ("a live owner's lock is never deleted").
LiveOwnersLockStays ==
    [][\A i \in Instance :
         owns[i] /\ lock = i /\ lock' # i => pc[i] = "unlinking" /\ ~owns'[i]]_vars

\* The lock of a crashed owner, even one that died between creating the file
\* and writing its record, is eventually free again: its orphaned worker meets
\* the end of its input and the operator deletes the lock.
StaleLockRecovered ==
    \A i \in Instance : (pc[i] = "dead" /\ lock = i) ~> (lock # i)

(* What an instance does even when its lock is taken away from it. *)

\* An instance whose lock was removed or replaced, and that is not inside one
\* of its read-then-act windows, never dispatches another operation and never
\* puts its name back on the lock.
Displaced(i) == ~Names(i) /\ pc[i] \in {"run", "lifecycle"}

DisplacedNeverDispatches ==
    [][\A i \in Instance :
         Displaced(i) =>
           /\ Displaced(i)' \/ pc'[i] = "dead"
           /\ req'[i] = "inflight" => req[i] = "inflight"]_vars

\* Once an instance knows it does not own the store and nothing is in flight,
\* its worker executes nothing, whichever verification point noticed the loss:
\* an operation that outlived its request's deadline included.
NonOwnerRunsNothing ==
    \A i \in Instance :
      pc[i] = "run" /\ req[i] # "inflight" /\ ~owns[i] => worker[i] # "busy"

-----------------------------------------------------------------------------
\* The abstract store: the holder is the instance whose readable record is on
\* the lock, and the operations running are those of the busy workers.
Exclusive == INSTANCE ExclusiveStore WITH
    holder <- IF torn THEN Absent ELSE lock,
    operating <- {i \in Instance : worker[i] = "busy"},
    Nobody <- Absent

\* Under a compliant operator the lock file protocol implements the exclusive
\* store: one holder at a time, operations by the holder only, and a change of
\* holder only while no operation runs.
ImplementsExclusiveStore == Exclusive!Spec
=============================================================================
