----------------------------- MODULE Supervision ------------------------------
(***************************************************************************)
(* One CogneeWorkerSupervision (pack/src/supervision.ts) and the Python    *)
(* worker processes it spawns.                                             *)
(*                                                                         *)
(* Each action on the Node side is one turn of the event loop: a call of   *)
(* request(), the start of a queued run(), a ready line, a response line,  *)
(* an exit event, a timer.  Turns are atomic; what happens between the     *)
(* turns of one request - other timers, exits, a shutdown, the loss of the *)
(* store-owner lock - is the point of the module.  The worker side is the  *)
(* process itself: it boots, executes what it reads from its standard      *)
(* input one operation at a time, and may die at any moment.               *)
(*                                                                         *)
(* Time is abstracted to the order of events: a deadline passes at some    *)
(* moment, a timer fires at some moment after it.  Requests are used once, *)
(* and a worker is named by the request whose turn spawned it (a turn      *)
(* spawns at most one).  A worker killed with a signal executes nothing    *)
(* more; its process disappears later and its exit event later still.      *)
(* When the Node process dies nobody is told anything more: the model ends.*)
(***************************************************************************)
EXTENDS Sequences, FiniteSets

CONSTANTS
    Mutation,       \* requests for add, cognify, forget_dataset
    Read,           \* requests for search_chunks, datasets_status
    Stop,           \* the 'shutdown' request that shutdown() queues
    None,           \* no request, no worker
    LockMayBeLost   \* may the lock file be removed or replaced externally?

Request == Mutation \cup Read \cup {Stop}
Worker == Request

ASSUME RequestAssumption ==
    /\ Mutation \cap Read = {}
    /\ Stop \notin Mutation \cup Read
    /\ None \notin Request
ASSUME LockAssumption == LockMayBeLost \in BOOLEAN

VARIABLES
    queue,      \* requests waiting for their turn (the queue.then chain)
    cur,        \* the request whose run() is between its awaits
    phase,      \* which await of run() it is at
    expired,    \* requests with at most 250 ms left before their deadlineAt
    out,        \* how each request's promise stands
    sentTo,     \* the worker each request was written to
    child,      \* this.child
    ready,      \* the ready promise and ready timer of each spawned worker
    poisoned,   \* this.poisoned
    owns,       \* ownsStore
    lockMine,   \* the lock file still carries this instance's id
    lostMidOp,  \* of the in-flight request
    closing,    \* how far shutdown() has got
    hostUp,     \* the Node process has not died of an unhandled 'error' event
    os,         \* what each worker process is doing
    inbox,      \* operations each worker has received and not answered
    executed    \* operations that took effect

nodeVars == <<queue, cur, phase, expired, out, sentTo, child, ready, poisoned,
              owns, lockMine, lostMidOp, closing, hostUp>>
osVars == <<os, inbox, executed>>
vars == <<nodeVars, osVars>>

\* How a request ends: a result, a typed error of the worker, an outcome that
\* is unknown, or a refusal that tells the caller nothing was written.
Refusal == {"deadline", "owned", "unavailable", "clientDeadline"}
Outcome == {"ok", "failed", "unknown"} \cup Refusal

Init ==
    /\ queue = <<>> /\ cur = None /\ phase = "idle"
    /\ expired = {}
    /\ out = [r \in Request |-> "uncalled"]
    /\ sentTo = [r \in Request |-> None]
    /\ child = None
    /\ ready = [w \in Worker |-> "unset"]
    /\ poisoned = FALSE
    /\ owns = TRUE /\ lockMine = TRUE /\ lostMidOp = FALSE
    /\ closing = "open"
    /\ hostUp = TRUE
    /\ os = [w \in Worker |-> "unspawned"]
    /\ inbox = [w \in Worker |-> <<>>]
    /\ executed = {}

-----------------------------------------------------------------------------
\* shutdown() continues in the very turn its request settles in, before the
\* next queued run() starts.
StopDue == closing = "open" /\ out[Stop] \notin {"uncalled", "pending"}

\* The Node process can take a turn of its event loop.
Running == hostUp /\ ~StopDue

Alive(w) == os[w] \in {"booting", "serving"}

\* kill(): a signal to a process that may be gone already.
AfterKill(w) ==
    IF w # None /\ Alive(w) THEN [os EXCEPT ![w] = "killed"] ELSE os

\* Variant: the promise settles while run() still awaits.
SettleEarly(r, result) ==
    /\ out' = [out EXCEPT ![r] = result]
    /\ cur' = None
    /\ UNCHANGED phase

\* run() ends: the promise settles and the queue may move on.
Settle(r, result) ==
    /\ out' = [out EXCEPT ![r] = result]
    /\ cur' = None
    /\ phase' = "idle"

\* Variant: a lock lost mid-operation is forgotten at settlement.
FinishForgetsLoss(result) ==
    Settle(cur, result) /\ UNCHANGED os

\* finish() settles the request in flight; if its heartbeat saw the lock gone,
\* the worker is poisoned and killed (the reference to it stays).
Finish(result) ==
    /\ Settle(cur, result)
    /\ os' = IF lostMidOp THEN AfterKill(child) ELSE os

\* spawnChild() in the turn of request r: a process, a reference to it, and a
\* fresh ready promise with its timer.
Spawn(r, osNow) ==
    /\ child' = r
    /\ os' = [osNow EXCEPT ![r] = "booting"]
    /\ ready' = [ready EXCEPT ![r] = "armed"]
    /\ cur' = r
    /\ phase' = "awaiting"

\* Dispatch: the message is written to the standard input of the child.  If
\* that process is already gone the stream emits 'error' (EPIPE), nobody
\* listens for it, and the Node process dies of it.
Send(r) ==
    /\ cur' = r
    /\ phase' = "inflight"
    /\ sentTo' = [sentTo EXCEPT ![r] = child]
    /\ inbox' = [inbox EXCEPT ![child] = Append(@, r)]
    /\ hostUp' = (os[child] # "exited")
    /\ lostMidOp' = FALSE

-----------------------------------------------------------------------------
(* The caller, the clock, and whoever else can touch the lock file. *)

\* request(): run is chained behind everything already queued.
Call(r) ==
    /\ Running
    /\ out[r] = "uncalled"
    /\ out' = [out EXCEPT ![r] = "pending"]
    /\ queue' = Append(queue, r)
    /\ UNCHANGED <<cur, phase, expired, sentTo, child, ready, poisoned, owns,
                   lockMine, lostMidOp, closing, hostUp, osVars>>

\* A deadline comes within 250 ms, while the request is still queued (nobody
\* looks before its turn comes) or later.  The shutdown request's deadline is
\* only set in its turn.
DeadlineNears(r) ==
    /\ Running
    /\ r = cur \/ (cur = None /\ queue # <<>> /\ r = Head(queue) /\ r # Stop)
    /\ r \notin expired
    /\ expired' = expired \cup {r}
    /\ UNCHANGED <<queue, cur, phase, out, sentTo, child, ready, poisoned, owns,
                   lockMine, lostMidOp, closing, hostUp, osVars>>

\* The lock file is removed or replaced behind the instance's back.
LoseLock ==
    /\ LockMayBeLost /\ lockMine /\ owns
    /\ lockMine' = FALSE
    /\ UNCHANGED <<queue, cur, phase, expired, out, sentTo, child, ready,
                   poisoned, owns, lostMidOp, closing, hostUp, osVars>>

-----------------------------------------------------------------------------
(* One serialized request: run() up to its first await. *)

TurnStarts(r) ==
    /\ Running
    /\ cur = None
    /\ queue # <<>> /\ r = Head(queue)
    /\ queue' = Tail(queue)

\* refreshOwnershipHeartbeat throws: ownership lost earlier (nothing is
\* touched), or found lost now (the idle worker is killed).
TurnRefusedOwnership(r) ==
    /\ TurnStarts(r)
    /\ ~(owns /\ lockMine)
    /\ Settle(r, "owned")
    /\ owns' = FALSE
    /\ child' = IF owns THEN None ELSE child
    /\ os' = IF owns THEN AfterKill(child) ELSE os
    /\ UNCHANGED <<expired, sentTo, ready, poisoned, lockMine, lostMidOp,
                   closing, hostUp, inbox, executed>>

\* The deadline was consumed by the wait in the queue.
TurnRefusedDeadline(r) ==
    /\ TurnStarts(r)
    /\ owns /\ lockMine
    /\ r \in expired
    /\ Settle(r, "deadline")
    /\ UNCHANGED <<expired, sentTo, child, ready, poisoned, owns, lockMine,
                   lostMidOp, closing, hostUp, osVars>>

TurnAdmitted(r) ==
    TurnStarts(r) /\ owns /\ lockMine /\ r \notin expired

\* _lifecycle: a healthy child is used in the same turn; its ready promise
\* has resolved long ago (ReadinessIsReal).
TurnReuses(r) ==
    /\ TurnAdmitted(r)
    /\ child # None /\ ~poisoned
    /\ Send(r)
    /\ UNCHANGED <<expired, out, child, ready, poisoned, owns, lockMine,
                   closing, os, executed>>

\* _lifecycle: a child that is poisoned is killed; run() sleeps 300 ms.
TurnKillsPoisoned(r) ==
    /\ TurnAdmitted(r)
    /\ child # None /\ poisoned
    /\ os' = AfterKill(child)
    /\ cur' = r /\ phase' = "respawning"
    /\ UNCHANGED <<expired, out, sentTo, child, ready, poisoned, owns, lockMine,
                   lostMidOp, closing, hostUp, inbox, executed>>

\* _lifecycle: no child, so one is spawned; poisoned is left as it is.
TurnSpawns(r) ==
    /\ TurnAdmitted(r)
    /\ child = None
    /\ Spawn(r, os)
    /\ UNCHANGED <<expired, out, sentTo, poisoned, owns, lockMine, lostMidOp,
                   closing, hostUp, inbox, executed>>

\* _lifecycle after delay(300): the child is replaced, without another look
\* at the store-owner lock.
DelayEnds ==
    /\ Running
    /\ phase = "respawning"
    /\ poisoned' = FALSE
    /\ Spawn(cur, os)
    /\ UNCHANGED <<queue, expired, out, sentTo, owns, lockMine, lostMidOp,
                   closing, hostUp, inbox, executed>>

-----------------------------------------------------------------------------
(* The ready line, the ready timer and the exit event of worker w. *)

\* Variant: the line handler is not scoped to its process; whichever worker
\* announces itself resolves the readiness that is awaited.
AnyReadyLineResumes(w) ==
    /\ Running
    /\ child # None /\ os[w] \in {"booting", "killed", "exited"}
    /\ phase = "awaiting"
    /\ ready' = [ready EXCEPT ![w] = "resolved"]

\* The ready line of w reaches the Node side and resumes run() after its
\* await.  It may have been waiting in the pipe when w was killed or died, but
\* a stale child's line is ignored.
ReadyResumes(w) ==
    /\ Running
    /\ child = w
    /\ os[w] \in {"booting", "killed", "exited"}
    /\ phase = "awaiting"
    /\ ready' = [ready EXCEPT ![w] = "resolved"]

Serving(w) ==
    IF os[w] = "booting" THEN [os EXCEPT ![w] = "serving"] ELSE os

\* verifyOwnershipIntact, immediately before dispatch: only the call that
\* detects the loss kills the worker.
ReadyRefusedOwnership(w) ==
    /\ ReadyResumes(w)
    /\ ~(owns /\ lockMine)
    /\ Settle(cur, "owned")
    /\ owns' = FALSE
    /\ child' = IF owns THEN None ELSE child
    /\ os' = IF owns THEN AfterKill(w) ELSE Serving(w)
    /\ UNCHANGED <<queue, expired, sentTo, poisoned, lockMine, lostMidOp,
                   closing, hostUp, inbox, executed>>

\* The deadline was consumed by the worker's startup.
ReadyRefusedDeadline(w) ==
    /\ ReadyResumes(w)
    /\ owns /\ lockMine
    /\ cur \in expired
    /\ Settle(cur, "deadline")
    /\ os' = Serving(w)
    /\ UNCHANGED <<queue, expired, sentTo, child, poisoned, owns, lockMine,
                   lostMidOp, closing, hostUp, inbox, executed>>

\* Variant: no second look at the lock before the dispatch.
SendsUnverified(w) ==
    /\ ReadyResumes(w)
    /\ cur \notin expired
    /\ Send(cur)
    /\ os' = Serving(w)
    /\ UNCHANGED <<queue, expired, out, child, poisoned, owns, lockMine,
                   closing, executed>>

ReadySends(w) ==
    /\ ReadyResumes(w)
    /\ owns /\ lockMine
    /\ cur \notin expired
    /\ Send(cur)
    /\ os' = Serving(w)
    /\ UNCHANGED <<queue, expired, out, child, poisoned, owns, lockMine,
                   closing, executed>>

\* Variants: an expired ready budget leaves the worker running; or it drops
\* the worker without rejecting the promise somebody awaits.
TimerStrandsWorker(w) ==
    /\ Running
    /\ ready[w] = "armed"
    /\ ready' = [ready EXCEPT ![w] = "rejected"]
    /\ child' = IF child = w THEN None ELSE child
    /\ IF phase = "awaiting"
         THEN Settle(cur, "unavailable")
         ELSE UNCHANGED <<out, cur, phase>>
    /\ UNCHANGED <<queue, expired, sentTo, poisoned, owns, lockMine, lostMidOp,
                   closing, hostUp, osVars>>

TimerSettlesNobody(w) ==
    /\ Running
    /\ ready[w] = "armed"
    /\ ready' = [ready EXCEPT ![w] = "rejected"]
    /\ os' = AfterKill(w)
    /\ child' = IF child = w THEN None ELSE child
    /\ UNCHANGED <<out, cur, phase, queue, expired, sentTo, poisoned, owns,
                   lockMine, lostMidOp, closing, hostUp, inbox, executed>>

\* The ready budget expires: the worker is killed and forgotten, and the
\* request that awaited it is told so.
ReadyTimerFires(w) ==
    /\ Running
    /\ ready[w] = "armed"
    /\ ready' = [ready EXCEPT ![w] = "rejected"]
    /\ os' = AfterKill(w)
    /\ child' = IF child = w THEN None ELSE child
    /\ IF phase = "awaiting"
         THEN Settle(cur, "unavailable")
         ELSE UNCHANGED <<out, cur, phase>>
    /\ UNCHANGED <<queue, expired, sentTo, poisoned, owns, lockMine, lostMidOp,
                   closing, hostUp, inbox, executed>>

\* The exit event of a stale child is ignored.
StaleExitEvent(w) ==
    /\ Running
    /\ child # w
    /\ os[w] \in {"killed", "exited"}
    /\ os' = [os EXCEPT ![w] = "reaped"]
    /\ UNCHANGED <<nodeVars, inbox, executed>>

\* Variants of the exit handler: a mutation in flight is reported as cleanly
\* failed; the ready timer goes on; the reference to the child stays.
ExitHidesMutation(w) ==
    /\ Running
    /\ os[w] = "exited" /\ child = w /\ phase = "inflight"
    /\ os' = [os EXCEPT ![w] = "reaped"]
    /\ child' = None
    /\ Settle(cur, "unavailable")
    /\ UNCHANGED <<ready, poisoned, queue, expired, sentTo, owns, lockMine,
                   lostMidOp, closing, hostUp, inbox, executed>>

ExitLeavesTimer(w) ==
    /\ Running
    /\ os[w] = "exited" /\ child = w /\ phase = "awaiting"
    /\ os' = [os EXCEPT ![w] = "reaped"]
    /\ child' = None
    /\ Settle(cur, "unavailable")
    /\ UNCHANGED <<ready, poisoned, queue, expired, sentTo, owns, lockMine,
                   lostMidOp, closing, hostUp, inbox, executed>>

ExitKeepsChild(w) ==
    /\ Running
    /\ os[w] = "exited" /\ child = w /\ ready[w] = "armed"
    /\ os' = [os EXCEPT ![w] = "reaped"]
    /\ ready' = [ready EXCEPT ![w] = "rejected"]
    /\ Settle(cur, "unavailable")
    /\ UNCHANGED <<child, poisoned, queue, expired, sentTo, owns, lockMine,
                   lostMidOp, closing, hostUp, inbox, executed>>

\* The current child's exit rejects its readiness and whatever is pending;
\* a pending mutation's outcome is unknown, and the instance is poisoned.
ExitEvent(w) ==
    /\ Running
    /\ os[w] = "exited" /\ child = w
    /\ os' = [os EXCEPT ![w] = "reaped"]
    /\ child' = None
    /\ ready' = [ready EXCEPT ![w] = IF @ = "armed" THEN "rejected" ELSE @]
    /\ \/ /\ phase = "inflight"
          /\ Settle(cur, IF cur \in Mutation THEN "unknown" ELSE "unavailable")
          /\ poisoned' = (poisoned \/ cur \in Mutation \/ lostMidOp)
       \/ /\ phase = "awaiting" /\ ready[w] = "armed"
          /\ Settle(cur, "unavailable")
          /\ UNCHANGED poisoned
       \/ /\ phase \in {"idle", "respawning"}
          /\ UNCHANGED <<out, cur, phase, poisoned>>
    /\ UNCHANGED <<queue, expired, sentTo, owns, lockMine, lostMidOp, closing,
                   hostUp, inbox, executed>>

-----------------------------------------------------------------------------
(* The operation in flight. *)

\* Variant: a mutation that times out does not poison its worker.
DeadlineSparesWorker ==
    /\ Running
    /\ phase = "inflight" /\ cur \in expired
    /\ Finish(IF cur \in Mutation THEN "unknown" ELSE "clientDeadline")
    /\ UNCHANGED <<poisoned, queue, expired, sentTo, child, ready, owns, lockMine,
                   lostMidOp, closing, hostUp, inbox, executed>>

\* The deadline timer: a mutation's outcome is unknown and the worker is
\* poisoned; a read fails cleanly and the worker stays in service.
DeadlineFires ==
    /\ Running
    /\ phase = "inflight" /\ cur \in expired
    /\ Finish(IF cur \in Mutation THEN "unknown" ELSE "clientDeadline")
    /\ poisoned' = (poisoned \/ cur \in Mutation \/ lostMidOp)
    /\ UNCHANGED <<queue, expired, sentTo, child, ready, owns, lockMine,
                   lostMidOp, closing, hostUp, inbox, executed>>

\* The in-flight interval finds the lock gone; handled at settlement.
HeartbeatSeesLoss ==
    /\ Running
    /\ phase = "inflight" /\ ~lostMidOp
    /\ ~(owns /\ lockMine)
    /\ owns' = FALSE
    /\ lostMidOp' = TRUE
    /\ UNCHANGED <<queue, cur, phase, expired, out, sentTo, child, ready,
                   poisoned, lockMine, closing, hostUp, osVars>>

\* Variant: an answer settles whatever is in flight, without matching ids.
AnswerUnmatched(w, result) ==
    /\ Running
    /\ os[w] = "serving"
    /\ inbox[w] # <<>>
    /\ result = "ok" => Head(inbox[w]) \in executed
    /\ inbox' = [inbox EXCEPT ![w] = Tail(@)]
    /\ IF child = w /\ phase = "inflight"
         THEN /\ Finish(result)
              /\ poisoned' = (poisoned \/ lostMidOp)
         ELSE UNCHANGED <<out, cur, phase, os, poisoned>>
    /\ UNCHANGED <<queue, expired, sentTo, child, ready, owns, lockMine,
                   lostMidOp, closing, hostUp, executed>>

\* Worker w answers the operation it is on, successfully only if it executed
\* it.  Only the current child's answer to the pending id settles a request.
Answer(w, result) ==
    /\ Running
    /\ os[w] = "serving"
    /\ inbox[w] # <<>>
    /\ result = "ok" => Head(inbox[w]) \in executed
    /\ inbox' = [inbox EXCEPT ![w] = Tail(@)]
    /\ IF child = w /\ phase = "inflight" /\ cur = Head(inbox[w])
         THEN /\ Finish(result)
              /\ poisoned' = (poisoned \/ lostMidOp)
         ELSE UNCHANGED <<out, cur, phase, os, poisoned>>
    /\ UNCHANGED <<queue, expired, sentTo, child, ready, owns, lockMine,
                   lostMidOp, closing, hostUp, executed>>

\* The operation takes effect on the store.
Execute(w) ==
    /\ hostUp
    /\ os[w] = "serving"
    /\ inbox[w] # <<>>
    /\ Head(inbox[w]) \notin executed
    /\ executed' = executed \cup {Head(inbox[w])}
    /\ UNCHANGED <<nodeVars, os, inbox>>

\* A line longer than 1 MiB is not executed; the error answer carries no id, so
\* on the Node side it settles nothing.
Discards(w) ==
    /\ hostUp
    /\ os[w] = "serving"
    /\ inbox[w] # <<>>
    /\ Head(inbox[w]) \notin executed
    /\ inbox' = [inbox EXCEPT ![w] = Tail(@)]
    /\ UNCHANGED <<nodeVars, os, executed>>

\* A worker process is gone: killed, crashed, refused by its store guard, cut
\* off for an oversized line or a foreign store root, or done with 'shutdown'.
Dies(w) ==
    /\ hostUp
    /\ Alive(w) \/ (os[w] = "killed" /\ child = w)
    /\ os' = [os EXCEPT ![w] = "exited"]
    /\ UNCHANGED <<nodeVars, inbox, executed>>

-----------------------------------------------------------------------------
(* shutdown(), after its own request has settled one way or another. *)

ReleaseOwnership ==
    /\ owns' = FALSE
    /\ lockMine' = FALSE
    /\ child' = None
    /\ closing' = "closed"

\* kill() the child and give it 500 ms; without a child, release at once.
StopKills ==
    /\ hostUp /\ StopDue
    /\ IF child = None
         THEN ReleaseOwnership /\ UNCHANGED os
         ELSE /\ os' = AfterKill(child)
              /\ closing' = "stopping"
              /\ UNCHANGED <<child, owns, lockMine>>
    /\ UNCHANGED <<queue, cur, phase, expired, out, sentTo, ready, poisoned,
                   lostMidOp, hostUp, inbox, executed>>

\* The child by then, whichever it is, gets SIGKILL and is forgotten; the
\* store-owner lock is released.
StopReleases ==
    /\ Running
    /\ closing = "stopping"
    /\ os' = AfterKill(child)
    /\ ReleaseOwnership
    /\ UNCHANGED <<queue, cur, phase, expired, out, sentTo, ready, poisoned,
                   lostMidOp, hostUp, inbox, executed>>

-----------------------------------------------------------------------------
Turn == \E r \in Request :
    \/ TurnRefusedOwnership(r) \/ TurnRefusedDeadline(r) \/ TurnReuses(r)
    \/ TurnKillsPoisoned(r) \/ TurnSpawns(r)

ReadyLine(w) ==
    \/ ReadyRefusedOwnership(w) \/ ReadyRefusedDeadline(w) \/ ReadySends(w)

Next ==
    \/ \E r \in Request : Call(r) \/ DeadlineNears(r)
    \/ LoseLock
    \/ Turn \/ DelayEnds
    \/ \E w \in Worker :
         \/ ReadyLine(w) \/ ReadyTimerFires(w)
         \/ StaleExitEvent(w) \/ ExitEvent(w)
         \/ Answer(w, "ok") \/ Answer(w, "failed")
         \/ Execute(w) \/ Discards(w) \/ Dies(w)
    \/ DeadlineFires \/ HeartbeatSeesLoss
    \/ StopKills \/ StopReleases

Spec == Init /\ [][Next]_vars

\* Timers fire and the event loop runs; nothing is assumed of the workers.
Fairness ==
    /\ WF_vars(Turn) /\ WF_vars(DelayEnds)
    /\ WF_vars(DeadlineFires)
    /\ WF_vars(StopKills) /\ WF_vars(StopReleases)
    /\ \A r \in Request : WF_vars(DeadlineNears(r))
    /\ \A w \in Worker : WF_vars(ReadyTimerFires(w))

FairSpec == Spec /\ Fairness

-----------------------------------------------------------------------------
TypeOK ==
    /\ queue \in Seq(Request)
    /\ cur \in Request \cup {None}
    /\ phase \in {"idle", "respawning", "awaiting", "inflight"}
    /\ (phase = "idle") <=> (cur = None)
    /\ expired \subseteq Request
    /\ out \in [Request -> {"uncalled", "pending"} \cup Outcome]
    /\ sentTo \in [Request -> Worker \cup {None}]
    /\ child \in Worker \cup {None}
    /\ ready \in [Worker -> {"unset", "armed", "resolved", "rejected"}]
    /\ poisoned \in BOOLEAN
    /\ owns \in BOOLEAN /\ lockMine \in BOOLEAN /\ lostMidOp \in BOOLEAN
    /\ closing \in {"open", "stopping", "closed"}
    /\ hostUp \in BOOLEAN
    /\ os \in [Worker -> {"unspawned", "booting", "serving", "killed",
                          "exited", "reaped"}]
    /\ inbox \in [Worker -> Seq(Request)]
    /\ executed \subseteq Request

-----------------------------------------------------------------------------
(* Safety. *)

\* A mutation that is refused - deadline, ownership, no worker - takes no
\* effect, not even later: every other way out says "unknown" (section 7.2,
\* "failing with NO effect"; "no window in which the client may assume the
\* mutation did not happen").
RefusalMeansNoEffect ==
    \A r \in Mutation : out[r] \in Refusal =>
      r \notin executed /\ \A w \in Worker : \A k \in DOMAIN inbox[w] : inbox[w][k] # r

\* A success is only ever reported for an operation that took effect, however
\* many workers were spawned, killed and replaced since the request was sent.
SuccessMeansEffect ==
    \A r \in Request : out[r] = "ok" => r \in executed

\* At most one worker process is running: a new one is only ever spawned after
\* the previous one died or was sent a signal (header of supervision.ts: "a
\* second live worker on the same store ... is made impossible here").
OneLiveWorker ==
    \A v, w \in Worker : Alive(v) /\ Alive(w) => v = w

\* The ready fields are shared by all spawns; at most one spawn uses them at a
\* time, so no ready timer ever settles another worker's readiness.
OneReadyTimer ==
    \A v, w \in Worker : ready[v] = "armed" /\ ready[w] = "armed" => v = w

\* When a turn starts with a child, that child's ready promise has resolved:
\* no request is dispatched to, or hangs on, a worker whose start failed.
ReusedChildIsReady ==
    cur = None /\ child # None /\ hostUp => ready[child] = "resolved"

\* The worker w carries a mutation whose outcome was reported unknown.
Tainted(w) ==
    \E r \in Mutation : sentTo[r] = w /\ out[r] = "unknown"

\* Nothing is sent to a worker that may still be executing a mutation reported
\* unknown (section 7.2: killed and respawned before the next request).
TaintedWorkerServesNothing ==
    [][\A r \in Request :
         sentTo[r] = None /\ sentTo'[r] # None => ~Tainted(sentTo'[r])]_vars

\* What admitted a request still holds when it is dispatched - the lock is held
\* and its absolute deadline is not too close - although it waited in the queue,
\* for a respawn and for a worker's startup meanwhile (section 7.2).
DispatchStillAdmitted ==
    [][\A r \in Request :
         sentTo[r] = None /\ sentTo'[r] # None =>
           owns /\ lockMine /\ r \notin expired]_vars

\* Once the instance knows that it lost the lock, or released it, no operation
\* takes effect any more except while one is in flight: not one that outlived
\* its own request either (section 8: it "performs NO further operation").
NoEffectAfterLoss ==
    [][executed' # executed => owns \/ phase = "inflight"]_vars

\* An operation is only sent to a worker that announced its own readiness.
OnlyReadyWorkersServe ==
    \A r \in Request : sentTo[r] # None => ready[sentTo[r]] = "resolved"

-----------------------------------------------------------------------------
\* What callers are told of their requests is true.
OutcomesAreTrue == RefusalMeansNoEffect /\ SuccessMeansEffect

\* The ready promise, its timer and its worker belong together, although the
\* fields that hold them are shared by all spawns.
ReadinessIsReal == OneReadyTimer /\ ReusedChildIsReady /\ OnlyReadyWorkersServe

-----------------------------------------------------------------------------
(* Liveness. *)

\* In the end every request that was made has settled, whatever the workers do,
\* and a shutdown has released the store, whatever was queued before or behind
\* it - as long as the host lives.
EverythingSettles ==
    <>[](hostUp => /\ \A r \in Request : out[r] # "pending"
                   /\ out[Stop] # "uncalled" => closing = "closed")

-----------------------------------------------------------------------------
(* Statements of the contract and the comments that the code does not keep. *)

\* After the store was released, and with no request left to settle, no worker
\* is running on it (comment of the loss of the lock, supervision.ts 364-366).
NoWorkerAfterRelease ==
    closing = "closed" /\ cur = None => \A w \in Worker : ~Alive(w)

\* The exit of a worker never takes the host process down.
HostSurvivesWorkerExit == hostUp
=============================================================================
