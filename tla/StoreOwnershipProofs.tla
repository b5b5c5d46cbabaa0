------------------------- MODULE StoreOwnershipProofs -------------------------
(***************************************************************************)
(* Machine-checked proofs about StoreOwnership, for any set of instances.  *)
(*                                                                         *)
(* Everything rests on one picture: while nobody tampers with the lock     *)
(* file, ownsStore in some process implies that the readable record on     *)
(* disk is that process's, so "verify, then act" is safe although the two  *)
(* are separate system calls.  IInv is that picture made inductive.        *)
(***************************************************************************)
EXTENDS StoreOwnership, TLAPS

\* Every variable stays in its domain, tampering operator included.
THEOREM TypeCorrect == Spec => []TypeOK
<1>1. Init => TypeOK
  BY DEF Init, TypeOK, PcState, ReqState, WorkerState
<1>2. TypeOK /\ [Next]_vars => TypeOK'
  <2> SUFFICES ASSUME TypeOK, [Next]_vars PROVE TypeOK'
    OBVIOUS
  <2> USE DEF TypeOK, PcState, ReqState, WorkerState, Goto
  <2>1. ASSUME NEW i \in Instance, Acquiring(i) PROVE TypeOK'
    BY <2>1 DEF Acquiring, AcquireCheck, CreateWins, CreateLoses, WriteRecord
  <2>2. ASSUME NEW i \in Instance, BeginRequest(i) PROVE TypeOK'
    BY <2>2 DEF BeginRequest, FailClosed
  <2>3. ASSUME NEW i \in Instance, Progress(i) PROVE TypeOK'
    <3>1. CASE RenameHeartbeat(i) BY <3>1 DEF RenameHeartbeat
    <3>2. CASE Lifecycle(i) BY <3>2 DEF Lifecycle
    <3>3. CASE Respawn(i) BY <3>3 DEF Respawn
    <3>4. CASE ReadyFails(i) BY <3>4 DEF ReadyFails
    <3>5. CASE ReadyVerify(i) BY <3>5 DEF ReadyVerify, FailClosed
    <3>6. CASE SendOp(i) BY <3>6 DEF SendOp
    <3>7. CASE Settle(i) BY <3>7 DEF Settle
    <3>8. CASE ReleaseUnlink(i) BY <3>8 DEF ReleaseUnlink
    <3> QED BY <2>3, <3>1, <3>2, <3>3, <3>4, <3>5, <3>6, <3>7, <3>8 DEF Progress
  <2>4. ASSUME NEW i \in Instance, HeartbeatTick(i) PROVE TypeOK'
    BY <2>4 DEF HeartbeatTick
  <2>5. ASSUME NEW i \in Instance, ReleaseRead(i) PROVE TypeOK'
    BY <2>5 DEF ReleaseRead
  <2>6. ASSUME NEW i \in Instance, Crash(i) \/ WorkerExit(i) \/ LateFinish(i)
        PROVE TypeOK'
    BY <2>6 DEF Crash, WorkerExit, LateFinish
  <2>7. CASE OperatorRecovers BY <2>7 DEF OperatorRecovers
  <2>8. CASE OperatorTampers BY <2>8 DEF OperatorTampers
  <2>9. CASE UNCHANGED vars BY <2>9 DEF vars
  <2> QED BY <2>1, <2>2, <2>3, <2>4, <2>5, <2>6, <2>7, <2>8, <2>9 DEF Next
<1> QED BY <1>1, <1>2, PTL DEF Spec

-----------------------------------------------------------------------------
(* The inductive invariant under a compliant operator. *)

\* Whoever believes to own the store is named by the readable lock.
OwnerIsNamed ==
    \A i \in Instance :
      owns[i] => lock = i /\ ~torn

\* The acting half of every read-then-act pair still owns the store.
ActorsOwn ==
    \A i \in Instance :
      pc[i] \in {"beating", "lifecycle", "sending", "unlinking"} => owns[i]

\* A claimed but unwritten lock is its claimant's.
ClaimIsMine ==
    \A i \in Instance : pc[i] = "writing" => lock = i /\ torn

\* Operations run only under the lock of the instance they run for.
BusyIsNamed ==
    \A i \in Instance : worker[i] = "busy" => lock = i /\ ~torn

\* The lock is unlinked only after the worker was killed.
ReleasedIsKilled ==
    \A i \in Instance : pc[i] = "unlinking" => worker[i] = "none"

IInv ==
    /\ TypeOK
    /\ OwnerIsNamed
    /\ ActorsOwn
    /\ ClaimIsMine
    /\ BusyIsNamed
    /\ ReleasedIsKilled
    /\ StrayWorkerNeverServes

LEMMA IInvInit == Init => IInv
  BY InstanceAssumption
     DEF Init, IInv, TypeOK, PcState, ReqState, WorkerState, OwnerIsNamed,
         ActorsOwn, ClaimIsMine, BusyIsNamed, ReleasedIsKilled,
         StrayWorkerNeverServes

\* Every step of the protocol preserves the invariant when nobody tampers.
LEMMA IInvStep == ~RogueOperator /\ IInv /\ TypeOK' /\ [Next]_vars => IInv'
<1> SUFFICES ASSUME ~RogueOperator, IInv, TypeOK', [Next]_vars
             PROVE  IInv'
  OBVIOUS
<1> USE InstanceAssumption DEF IInv, OwnerIsNamed, ActorsOwn, ClaimIsMine,
        BusyIsNamed, ReleasedIsKilled, StrayWorkerNeverServes, TypeOK,
        PcState, ReqState, WorkerState, Goto, Verified, Names
<1>1. ASSUME NEW i \in Instance, AcquireCheck(i) \/ CreateLoses(i) PROVE IInv'
  BY <1>1 DEF AcquireCheck, CreateLoses
<1>2. ASSUME NEW i \in Instance, CreateWins(i) PROVE IInv'
  BY <1>2 DEF CreateWins
<1>3. ASSUME NEW i \in Instance, WriteRecord(i) PROVE IInv'
  BY <1>3 DEF WriteRecord
<1>4. ASSUME NEW i \in Instance, BeginRequest(i) PROVE IInv'
  BY <1>4 DEF BeginRequest, FailClosed
<1>5. ASSUME NEW i \in Instance, RenameHeartbeat(i) PROVE IInv'
  BY <1>5 DEF RenameHeartbeat
<1>6. ASSUME NEW i \in Instance, Lifecycle(i) PROVE IInv'
  BY <1>6 DEF Lifecycle
<1>7. ASSUME NEW i \in Instance, Respawn(i) \/ ReadyFails(i) PROVE IInv'
  BY <1>7 DEF Respawn, ReadyFails
<1>8. ASSUME NEW i \in Instance, ReadyVerify(i) PROVE IInv'
  BY <1>8 DEF ReadyVerify, FailClosed
<1>9. ASSUME NEW i \in Instance, SendOp(i) PROVE IInv'
  BY <1>9 DEF SendOp
<1>10. ASSUME NEW i \in Instance, HeartbeatTick(i) PROVE IInv'
  BY <1>10 DEF HeartbeatTick
<1>11. ASSUME NEW i \in Instance, Settle(i) PROVE IInv'
  BY <1>11 DEF Settle
<1>12. ASSUME NEW i \in Instance, ReleaseRead(i) PROVE IInv'
  BY <1>12 DEF ReleaseRead
<1>13. ASSUME NEW i \in Instance, ReleaseUnlink(i) PROVE IInv'
  BY <1>13 DEF ReleaseUnlink
<1>14. ASSUME NEW i \in Instance, Crash(i) PROVE IInv'
  BY <1>14 DEF Crash
<1>15. ASSUME NEW i \in Instance, WorkerExit(i) \/ LateFinish(i) PROVE IInv'
  BY <1>15 DEF WorkerExit, LateFinish
<1>16. CASE OperatorRecovers
  BY <1>16 DEF OperatorRecovers
<1>17. CASE UNCHANGED vars
  BY <1>17 DEF vars
<1> QED
  BY <1>1, <1>2, <1>3, <1>4, <1>5, <1>6, <1>7, <1>8, <1>9, <1>10, <1>11, <1>12,
     <1>13, <1>14, <1>15, <1>16, <1>17
     DEF Next, Acquiring, Progress, OperatorTampers

THEOREM CompliantInvariant == ~RogueOperator /\ Spec => []IInv
<1>1. ASSUME ~RogueOperator PROVE Spec => []IInv
  <2>1. IInv /\ TypeOK' /\ [Next]_vars => IInv'
    BY <1>1, IInvStep
  <2> QED BY <2>1, IInvInit, TypeCorrect, PTL DEF Spec
<1> QED BY <1>1

\* No two processes ever operate on the store at once: busy workers are named
\* by the one lock file.
THEOREM NoConcurrentOperations == ~RogueOperator /\ Spec => []OneOperating
<1>1. IInv => OneOperating
  BY DEF IInv, BusyIsNamed, OneOperating
<1> QED BY <1>1, CompliantInvariant, PTL

\* A worker without its lock never executes anything.
THEOREM StrayWorkersIdle == ~RogueOperator /\ Spec => []StrayWorkerNeverServes
<1>1. IInv => StrayWorkerNeverServes
  BY DEF IInv
<1> QED BY <1>1, CompliantInvariant, PTL

\* A live owner's lock leaves the path only through its own release.
THEOREM LiveLockNeverDeleted == ~RogueOperator /\ Spec => LiveOwnersLockStays
<1> DEFINE Stays == \A i \in Instance :
       owns[i] /\ lock = i /\ lock' # i => pc[i] = "unlinking" /\ ~owns'[i]
<1>1. ASSUME ~RogueOperator, IInv, [Next]_vars PROVE [Stays]_vars
  <2> SUFFICES ASSUME NEW i \in Instance, owns[i], lock = i, lock' # i
               PROVE  pc[i] = "unlinking" /\ ~owns'[i]
    OBVIOUS
  <2> USE <1>1, InstanceAssumption DEF IInv, OwnerIsNamed, ActorsOwn, TypeOK
  <2>1. ASSUME NEW j \in Instance, CreateWins(j) PROVE FALSE
    BY <2>1 DEF CreateWins
  <2>2. ASSUME NEW j \in Instance, RenameHeartbeat(j) PROVE FALSE
    BY <2>2 DEF RenameHeartbeat
  <2>3. ASSUME NEW j \in Instance, ReleaseUnlink(j)
        PROVE  pc[i] = "unlinking" /\ ~owns'[i]
    BY <2>3 DEF ReleaseUnlink
  <2>4. CASE OperatorRecovers
    BY <2>4 DEF OperatorRecovers
  <2> QED
    BY <2>1, <2>2, <2>3, <2>4
       DEF Next, vars, Acquiring, AcquireCheck, CreateLoses, WriteRecord,
           BeginRequest, Progress, Lifecycle, Respawn, ReadyFails, ReadyVerify,
           SendOp, Settle, HeartbeatTick, ReleaseRead, Crash, WorkerExit,
           LateFinish, OperatorTampers
<1>2. ASSUME ~RogueOperator PROVE Spec => [][Stays]_vars
  <2>1. IInv /\ [Next]_vars => [Stays]_vars
    BY <1>1, <1>2
  <2>2. Spec => []IInv
    BY <1>2, CompliantInvariant
  <2> QED BY <2>1, <2>2, PTL DEF Spec
<1> QED BY <1>2 DEF LiveOwnersLockStays

-----------------------------------------------------------------------------
(* Refinement: the lock file protocol implements ExclusiveStore. *)

\* The abstract operations running, as ExclusiveStore sees them.
Operating == {i \in Instance : worker[i] = "busy"}

LEMMA ExclusiveInit == Init => Exclusive!Init
  BY DEF Init, Exclusive!Init

\* An operation can only run for the abstract holder.
LEMMA OnlyHolderOperates ==
  ASSUME IInv, NEW i \in Instance
  PROVE  worker[i] = "busy" =>
           Operating = {i} /\ (IF torn THEN Absent ELSE lock) = i
  BY DEF IInv, BusyIsNamed, Operating

\* Each step of the protocol is a step of the exclusive store or a stutter.
LEMMA ExclusiveStep ==
  ~RogueOperator /\ IInv /\ IInv' /\ [Next]_vars => [Exclusive!Next]_(Exclusive!vars)
<1> SUFFICES ASSUME ~RogueOperator, IInv, IInv', [Next]_vars
             PROVE  [Exclusive!Next]_(Exclusive!vars)
  OBVIOUS
<1> DEFINE holder == IF torn THEN Absent ELSE lock
<1> USE InstanceAssumption DEF IInv, TypeOK, Operating
<1>a. ASSUME UNCHANGED <<lock, torn, worker>> PROVE UNCHANGED Exclusive!vars
  BY <1>a DEF Exclusive!vars
<1>b. ASSUME UNCHANGED <<lock, torn>>, Operating' = {} PROVE Exclusive!Finish
  BY <1>b DEF Exclusive!Finish
<1>c. ASSUME UNCHANGED <<lock, torn>>, Operating' = Operating
      PROVE  UNCHANGED Exclusive!vars
  BY <1>c DEF Exclusive!vars
<1>d. ASSUME UNCHANGED <<lock, torn>>,
             \A j \in Instance : worker'[j] = "busy" => worker[j] = "busy"
      PROVE  [Exclusive!Next]_(Exclusive!vars)
  <2>1. Operating' \subseteq Operating
    BY <1>d
  <2>2. \A j \in Operating : Operating = {j}
    BY DEF BusyIsNamed
  <2>3. Operating' = {} \/ Operating' = Operating
    BY <2>1, <2>2
  <2> QED BY <2>3, <1>b, <1>c, <1>d DEF Exclusive!Next
<1>1. ASSUME NEW i \in Instance, AcquireCheck(i) \/ CreateLoses(i)
      PROVE  UNCHANGED Exclusive!vars
  BY <1>1, <1>a DEF AcquireCheck, CreateLoses
<1>2. ASSUME NEW i \in Instance, CreateWins(i) PROVE UNCHANGED Exclusive!vars
  BY <1>2 DEF CreateWins, Exclusive!vars
<1>3. ASSUME NEW i \in Instance, WriteRecord(i) PROVE Exclusive!Next
  <2>1. Operating = {} /\ Operating' = Operating
    BY <1>3 DEF WriteRecord, ClaimIsMine, BusyIsNamed
  <2>2. holder = Absent /\ holder' = i
    BY <1>3 DEF WriteRecord, ClaimIsMine
  <2> QED BY <2>1, <2>2 DEF Exclusive!Next, Exclusive!Acquire
<1>4. ASSUME NEW i \in Instance, RenameHeartbeat(i)
      PROVE  UNCHANGED Exclusive!vars
  BY <1>4 DEF RenameHeartbeat, ActorsOwn, OwnerIsNamed, Exclusive!vars
<1>5. ASSUME NEW i \in Instance, SendOp(i)
      PROVE  [Exclusive!Next]_(Exclusive!vars)
  <2>1. owns[i] /\ holder = i /\ UNCHANGED <<lock, torn>>
    BY <1>5 DEF SendOp, ActorsOwn, OwnerIsNamed
  <2>2. CASE worker[i] = "none"
    BY <2>2, <1>5, <1>a DEF SendOp
  <2>3. CASE worker[i] # "none"
    <3>1. Operating' = {i}
      BY <2>1, <2>3, <1>5 DEF SendOp, BusyIsNamed
    <3> QED BY <2>1, <3>1 DEF Exclusive!Next, Exclusive!Operate
  <2> QED BY <2>2, <2>3
<1>6. ASSUME NEW i \in Instance, ReleaseUnlink(i) PROVE Exclusive!Next
  <2>1. Operating = {} /\ Operating' = Operating
    BY <1>6 DEF ReleaseUnlink, ActorsOwn, OwnerIsNamed, BusyIsNamed, ReleasedIsKilled
  <2>2. holder' = Absent
    BY <1>6 DEF ReleaseUnlink
  <2> QED BY <2>1, <2>2 DEF Exclusive!Next, Exclusive!Free
<1>7. CASE OperatorRecovers
  <2>1. Operating = {} /\ Operating' = Operating /\ holder' = Absent
    BY <1>7 DEF OperatorRecovers
  <2> QED BY <2>1 DEF Exclusive!Next, Exclusive!Free
<1>8. ASSUME NEW i \in Instance,
             \/ BeginRequest(i) \/ Lifecycle(i) \/ Respawn(i) \/ ReadyFails(i)
             \/ ReadyVerify(i) \/ Settle(i) \/ HeartbeatTick(i) \/ ReleaseRead(i)
             \/ Crash(i) \/ WorkerExit(i) \/ LateFinish(i)
      PROVE  [Exclusive!Next]_(Exclusive!vars)
  BY <1>8, <1>d
     DEF BeginRequest, FailClosed, Lifecycle, Respawn, ReadyFails, ReadyVerify,
         Settle, HeartbeatTick, ReleaseRead, Crash, WorkerExit, LateFinish,
         WorkerState
<1>9. CASE UNCHANGED vars
  BY <1>9, <1>a DEF vars
<1> QED
  BY <1>1, <1>2, <1>3, <1>4, <1>5, <1>6, <1>7, <1>8, <1>9
     DEF Next, Acquiring, Progress, OperatorTampers

\* The lock file protocol implements the exclusive store for any number of
\* processes, crashing anywhere, under an operator who keeps to section 8.1.
THEOREM Refinement == ~RogueOperator /\ Spec => ImplementsExclusiveStore
<1>1. ASSUME ~RogueOperator PROVE Spec => Exclusive!Spec
  <2>1. IInv /\ IInv' /\ [Next]_vars => [Exclusive!Next]_(Exclusive!vars)
    BY <1>1, ExclusiveStep
  <2>2. Spec => []IInv
    BY <1>1, CompliantInvariant
  <2> QED BY <2>1, <2>2, ExclusiveInit, PTL DEF Spec, Exclusive!Spec
<1> QED BY <1>1 DEF ImplementsExclusiveStore

-----------------------------------------------------------------------------
(* What holds even when the lock is tampered with. *)

\* A displaced instance stays displaced and dispatches nothing more.
THEOREM DisplacedIsForever == Spec => DisplacedNeverDispatches
<1> DEFINE Sticks == \A i \in Instance :
       Displaced(i) => /\ Displaced(i)' \/ pc'[i] = "dead"
                       /\ req'[i] = "inflight" => req[i] = "inflight"
<1>1. TypeOK /\ [Next]_vars => [Sticks]_vars
  <2> SUFFICES ASSUME TypeOK, [Next]_vars, NEW i \in Instance, Displaced(i)
               PROVE  /\ Displaced(i)' \/ pc'[i] = "dead"
                      /\ req'[i] = "inflight" => req[i] = "inflight"
    OBVIOUS
  <2> USE InstanceAssumption DEF TypeOK, Displaced, Names, Verified, Goto, FailClosed
  <2>1. ASSUME NEW j \in Instance, Acquiring(j) PROVE Displaced(i)' /\ req' = req
    BY <2>1 DEF Acquiring, AcquireCheck, CreateWins, CreateLoses, WriteRecord
  <2>2. ASSUME NEW j \in Instance, BeginRequest(j) PROVE Displaced(i)' /\ req' = req
    BY <2>2 DEF BeginRequest
  <2>3. ASSUME NEW j \in Instance, Progress(j)
        PROVE  Displaced(i)' /\ (req'[i] = "inflight" => req[i] = "inflight")
    BY <2>3 DEF Progress, RenameHeartbeat, Lifecycle, Respawn, ReadyFails,
                ReadyVerify, SendOp, Settle, ReleaseUnlink
  <2>4. ASSUME NEW j \in Instance, HeartbeatTick(j) \/ ReleaseRead(j)
        PROVE  Displaced(i)' /\ req' = req
    BY <2>4 DEF HeartbeatTick, ReleaseRead
  <2>5. ASSUME NEW j \in Instance, Crash(j)
        PROVE  /\ Displaced(i)' \/ pc'[i] = "dead"
               /\ req'[i] = "inflight" => req[i] = "inflight"
    BY <2>5 DEF Crash
  <2>6. ASSUME NEW j \in Instance, WorkerExit(j) \/ LateFinish(j)
        PROVE  Displaced(i)' /\ req' = req
    BY <2>6 DEF WorkerExit, LateFinish
  <2>7. CASE OperatorRecovers \/ OperatorTampers
    BY <2>7 DEF OperatorRecovers, OperatorTampers
  <2>8. CASE UNCHANGED vars
    BY <2>8 DEF vars
  <2> QED BY <2>1, <2>2, <2>3, <2>4, <2>5, <2>6, <2>7, <2>8 DEF Next
<1> QED BY <1>1, TypeCorrect, PTL DEF Spec, DisplacedNeverDispatches

\* The inductive invariant behind NonOwnerRunsNothing: no worker before the
\* claim, none across a release, and a loss seen in flight is remembered by
\* lostMidOp until the operation settles.
KInv ==
    /\ TypeOK
    /\ ActorsOwn
    /\ ReleasedIsKilled
    /\ NonOwnerRunsNothing
    /\ \A i \in Instance :
         /\ pc[i] \in {"start", "creating", "writing"} =>
              worker[i] = "none" /\ req[i] = "none"
         /\ pc[i] = "run" /\ req[i] = "inflight" /\ ~owns[i] =>
              lostMidOp[i] \/ worker[i] = "none"

\* A live instance that lost the store has nothing running on it once no
\* request is in flight, whatever happens to the lock file.
THEOREM NonOwnersLetGo == Spec => []NonOwnerRunsNothing
<1>1. Init => KInv
  BY DEF Init, KInv, TypeOK, PcState, ReqState, WorkerState, ActorsOwn,
         ReleasedIsKilled, NonOwnerRunsNothing
<1>2. KInv /\ TypeOK' /\ [Next]_vars => KInv'
  <2> SUFFICES ASSUME KInv, TypeOK', [Next]_vars PROVE KInv'
    OBVIOUS
  <2> USE DEF KInv, TypeOK, PcState, ReqState, WorkerState, ActorsOwn,
              ReleasedIsKilled, NonOwnerRunsNothing, Goto, Verified, Names
  <2>1. ASSUME NEW i \in Instance, Acquiring(i) PROVE KInv'
    BY <2>1 DEF Acquiring, AcquireCheck, CreateWins, CreateLoses, WriteRecord
  <2>2. ASSUME NEW i \in Instance, BeginRequest(i) PROVE KInv'
    BY <2>2 DEF BeginRequest, FailClosed
  <2>3. ASSUME NEW i \in Instance, Progress(i) PROVE KInv'
    <3>1. CASE RenameHeartbeat(i) BY <3>1 DEF RenameHeartbeat
    <3>2. CASE Lifecycle(i) BY <3>2 DEF Lifecycle
    <3>3. CASE Respawn(i) \/ ReadyFails(i) BY <3>3 DEF Respawn, ReadyFails
    <3>4. CASE ReadyVerify(i) BY <3>4 DEF ReadyVerify, FailClosed
    <3>5. CASE SendOp(i) BY <3>5 DEF SendOp
    <3>6. CASE Settle(i) BY <3>6 DEF Settle
    <3>7. CASE ReleaseUnlink(i) BY <3>7 DEF ReleaseUnlink
    <3> QED BY <2>3, <3>1, <3>2, <3>3, <3>4, <3>5, <3>6, <3>7 DEF Progress
  <2>4. ASSUME NEW i \in Instance, HeartbeatTick(i) PROVE KInv'
    BY <2>4 DEF HeartbeatTick
  <2>5. ASSUME NEW i \in Instance, ReleaseRead(i) PROVE KInv'
    BY <2>5 DEF ReleaseRead
  <2>6. ASSUME NEW i \in Instance, Crash(i) \/ WorkerExit(i) \/ LateFinish(i)
        PROVE KInv'
    BY <2>6 DEF Crash, WorkerExit, LateFinish
  <2>7. ASSUME UNCHANGED <<pc, owns, req, worker, lostMidOp>> PROVE KInv'
    BY <2>7
  <2>8. CASE OperatorRecovers \/ OperatorTampers
    BY <2>7, <2>8 DEF OperatorRecovers, OperatorTampers
  <2>9. CASE UNCHANGED vars
    BY <2>7, <2>9 DEF vars
  <2> QED BY <2>1, <2>2, <2>3, <2>4, <2>5, <2>6, <2>8, <2>9 DEF Next
<1>3. KInv => NonOwnerRunsNothing
  BY DEF KInv
<1> QED BY <1>1, <1>2, <1>3, TypeCorrect, PTL DEF Spec
=============================================================================
