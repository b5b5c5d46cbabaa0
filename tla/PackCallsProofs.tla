---------------------------- MODULE PackCallsProofs -----------------------------
(***************************************************************************)
(* Machine-checked proofs about PackCalls, for any runs, plans, permission *)
(* sets and number of attempts.                                            *)
(***************************************************************************)
EXTENDS PackCalls, SequenceTheorems, TLAPS

-----------------------------------------------------------------------------
\* A run that waits has an attempt left.
AttemptsLeft == \A r \in Run : pc[r] = "backoff" => attempt[r] < MaxAttempts

\* Only the head of the queue is with a worker.
SentIsHead == \A r \in Run : pc[r] = "sent" => AtHead(r)

WellTyped == TypeOK /\ AttemptsLeft /\ SentIsHead

LEMMA AppendedHead ==
    ASSUME NEW S, NEW q \in Seq(S), NEW x \in S
    PROVE  /\ Append(q, x) \in Seq(S)
           /\ q # <<>> => Append(q, x) # <<>> /\ Head(Append(q, x)) = Head(q)
  BY AppendProperties

LEMMA TypedInit == Init => WellTyped
<1> SUFFICES ASSUME Init PROVE WellTyped
  OBVIOUS
<1>1. TypeOK
  <2>1. 1 \in 1..MaxAttempts
    BY AttemptsAssumption
  <2>2. queue \in Seq(Run) /\ worker = {}
    BY DEF Init
  <2>3. ran \in [Run -> Nat] /\ outcomes = [r \in Run |-> {}]
    BY DEF Init
  <2> QED BY <2>1, <2>2, <2>3 DEF Init, TypeOK
<1> QED BY <1>1 DEF Init, WellTyped, AttemptsLeft, SentIsHead

LEMMA Recorded ==
    ASSUME WellTyped, NEW r \in Run, NEW o \in Outcome
    PROVE  [outcomes EXCEPT ![r] = @ \cup {o}] \in [Run -> SUBSET Outcome]
<1>1. outcomes \in [Run -> SUBSET Outcome]
  BY DEF WellTyped, TypeOK
<1>2. outcomes[r] \cup {o} \in SUBSET Outcome
  BY <1>1
<1> QED BY <1>1, <1>2

\* The current attempt of a run that was at the head of the queue ends.
LEMMA HeadLeaves ==
    ASSUME WellTyped, NEW r \in Run, AtHead(r), queue' = Tail(queue),
           NEW o \in Outcome,
           Throws(r, o) \/ Returns(r)
    PROVE  /\ queue' \in Seq(Run) /\ SentIsHead' /\ AttemptsLeft'
           /\ pc' \in [Run -> {"new", "invoke", "queued", "sent", "backoff"} \cup Over]
           /\ outcomes' \in [Run -> SUBSET Outcome]
<1>1. queue \in Seq(Run) /\ queue # <<>> /\ Head(queue) = r
  BY DEF WellTyped, TypeOK, AtHead
<1>2. queue' \in Seq(Run)
  BY <1>1
<1>3. pc'[r] # "sent" /\ \A q \in Run \ {r} : pc'[q] = pc[q]
  BY DEF WellTyped, TypeOK, Throws, Returns
<1>4. SentIsHead'
  BY <1>1, <1>3 DEF WellTyped, SentIsHead, AtHead
<1>5. AttemptsLeft'
  BY DEF WellTyped, TypeOK, AttemptsLeft, Throws, Returns
<1>6. pc' \in [Run -> {"new", "invoke", "queued", "sent", "backoff"} \cup Over]
  BY DEF WellTyped, TypeOK, Throws, Returns, Over
<1>7. outcomes' \in [Run -> SUBSET Outcome]
  <2>0. "ok" \in Outcome
    BY DEF Outcome
  <2>1. \/ outcomes' = [outcomes EXCEPT ![r] = @ \cup {o}]
        \/ outcomes' = [outcomes EXCEPT ![r] = @ \cup {"ok"}]
    BY DEF Throws, Returns
  <2> QED BY <2>0, <2>1, Recorded
<1> QED BY <1>2, <1>4, <1>5, <1>6, <1>7

\* What every answer of the worker is to the engine and the queue.
Answered(r) ==
    /\ worker' \subseteq worker /\ UNCHANGED poisoned
    /\ IF pc[r] = "sent"
         THEN (\E o \in Outcome : Throws(r, o) \/ Returns(r)) /\ queue' = Tail(queue)
         ELSE UNCHANGED <<engine, pc, late, queue>>

LEMMA AnswersAreAnswered ==
    ASSUME NEW r \in Run, AnswerRead(r) \/ Replay(r) \/ Commit(r) \/ Fails(r)
    PROVE  Answered(r)
<1>1. {"ok", "outputContract", "workerError"} \subseteq Outcome
  BY DEF Outcome
<1>2. CASE AnswerRead(r)
  BY <1>1, <1>2 DEF Answered, Answers, AnswerRead
<1>3. CASE Replay(r)
  BY <1>1, <1>3 DEF Answered, Answers, Replay
<1>4. CASE Commit(r)
  BY <1>1, <1>4 DEF Answered, Answers, Commit
<1>5. CASE Fails(r)
  BY <1>1, <1>5 DEF Answered, Answers, Fails
<1> QED BY <1>2, <1>3, <1>4, <1>5

LEMMA TypedStep == WellTyped /\ [Next]_vars => WellTyped'
<1> SUFFICES ASSUME WellTyped, [Next]_vars PROVE WellTyped'
  OBVIOUS
<1> USE DEF WellTyped
<1>1. ASSUME NEW r \in Run, StartRun(r) PROVE WellTyped'
  BY <1>1 DEF StartRun, engine, store, TypeOK, AttemptsLeft, SentIsHead, AtHead, Over
<1>2. ASSUME NEW r \in Run, Retry(r) PROVE WellTyped'
  BY <1>2, AttemptsAssumption DEF Retry, store, TypeOK, AttemptsLeft, SentIsHead, AtHead, Over
<1>3. ASSUME NEW r \in Run, Refuse(r) PROVE WellTyped'
  <2>1. outcomes' \in [Run -> SUBSET Outcome]
    <3>1. "refused" \in Outcome /\ outcomes' = [outcomes EXCEPT ![r] = @ \cup {"refused"}]
      BY <1>3 DEF Refuse, Throws, Outcome
    <3> QED BY <3>1, Recorded
  <2>2. pc' \in [Run -> {"new", "invoke", "queued", "sent", "backoff"} \cup Over]
    BY <1>3 DEF Refuse, Throws, TypeOK, Over
  <2>3. AttemptsLeft' /\ SentIsHead'
    BY <1>3 DEF Refuse, Throws, TypeOK, AttemptsLeft, SentIsHead, AtHead
  <2> QED BY <1>3, <2>1, <2>2, <2>3 DEF Refuse, Throws, store, TypeOK
<1>4. ASSUME NEW r \in Run, Enqueue(r) PROVE WellTyped'
  <2>1. queue' \in Seq(Run) /\ (queue # <<>> => queue' # <<>> /\ Head(queue') = Head(queue))
    BY <1>4, AppendedHead DEF Enqueue, TypeOK
  <2> QED
    BY <1>4, <2>1 DEF Enqueue, engine, store, TypeOK, AttemptsLeft, SentIsHead, AtHead, Over
<1>5. ASSUME NEW r \in Run, RefuseQueued(r) PROVE WellTyped'
  <2>1. "refused" \in Outcome
    BY DEF Outcome
  <2>2. AtHead(r) /\ queue' = Tail(queue) /\ Throws(r, "refused")
    BY <1>5 DEF RefuseQueued
  <2>3. /\ queue' \in Seq(Run) /\ SentIsHead' /\ AttemptsLeft'
        /\ pc' \in [Run -> {"new", "invoke", "queued", "sent", "backoff"} \cup Over]
        /\ outcomes' \in [Run -> SUBSET Outcome]
    BY <2>1, <2>2, HeadLeaves
  <2> QED BY <1>5, <2>2, <2>3 DEF RefuseQueued, Throws, store, TypeOK
<1>6. ASSUME NEW r \in Run, Dispatch(r) PROVE WellTyped'
  <2>1. worker' \subseteq Run \X {"start", "begun", "executed"}
    BY <1>6 DEF Dispatch, TypeOK
  <2>2. AttemptsLeft' /\ SentIsHead'
    BY <1>6 DEF Dispatch, engine, TypeOK, AttemptsLeft, SentIsHead, AtHead
  <2> QED
    BY <1>6, <2>1, <2>2 DEF Dispatch, engine, store, TypeOK, Over
<1>7. ASSUME NEW r \in Run, DeadlinePasses(r) PROVE WellTyped'
  BY <1>7 DEF DeadlinePasses, store, TypeOK, AttemptsLeft, SentIsHead, AtHead
<1>8. ASSUME NEW r \in Run, TimesOut(r) PROVE WellTyped'
  <2>1. AtHead(r) /\ UnansweredAs(r) \in Outcome
    BY <1>8 DEF TimesOut, SentIsHead, UnansweredAs, Outcome
  <2>2. poisoned' \in BOOLEAN
    BY <1>8 DEF TimesOut, TypeOK, Mutating
  <2> QED
    BY <1>8, <2>1, <2>2, HeadLeaves DEF TimesOut, Throws, store, TypeOK
<1>9. ASSUME NEW r \in Run, Answered(r)
      PROVE  /\ AttemptsLeft' /\ SentIsHead' /\ queue' \in Seq(Run)
             /\ worker' \subseteq worker /\ UNCHANGED <<plan, grants, attempt, late, poisoned>>
             /\ pc' \in [Run -> {"new", "invoke", "queued", "sent", "backoff"} \cup Over]
             /\ outcomes' \in [Run -> SUBSET Outcome]
  <2>1. CASE pc[r] = "sent"
    <3>1. AtHead(r) /\ queue' = Tail(queue)
      BY <1>9, <2>1 DEF Answered, SentIsHead
    <3>2. PICK o \in Outcome : Throws(r, o) \/ Returns(r)
      BY <1>9, <2>1 DEF Answered
    <3>3. /\ queue' \in Seq(Run) /\ SentIsHead' /\ AttemptsLeft'
          /\ pc' \in [Run -> {"new", "invoke", "queued", "sent", "backoff"} \cup Over]
          /\ outcomes' \in [Run -> SUBSET Outcome]
      BY <3>1, <3>2, HeadLeaves
    <3> QED BY <1>9, <3>2, <3>3 DEF Answered, Throws, Returns
  <2>2. CASE pc[r] # "sent"
    <3>1. UNCHANGED <<engine, pc, late, queue>> /\ worker' \subseteq worker /\ poisoned' = poisoned
      BY <1>9, <2>2 DEF Answered
    <3>2. UNCHANGED <<plan, grants, attempt, outcomes, pc, late, queue, poisoned>>
      BY <3>1 DEF engine
    <3>3. AttemptsLeft' /\ SentIsHead'
      BY <3>1, <3>2 DEF AttemptsLeft, SentIsHead, AtHead
    <3>4. /\ queue' \in Seq(Run) /\ outcomes' \in [Run -> SUBSET Outcome]
          /\ pc' \in [Run -> {"new", "invoke", "queued", "sent", "backoff"} \cup Over]
      BY <3>2 DEF TypeOK
    <3> QED BY <1>9, <3>2, <3>3, <3>4 DEF Answered
  <2> QED BY <2>1, <2>2
<1>10. ASSUME NEW r \in Run, AnswerRead(r) \/ Replay(r) \/ Commit(r) \/ Fails(r) PROVE WellTyped'
  <2>1. /\ AttemptsLeft' /\ SentIsHead' /\ queue' \in Seq(Run)
        /\ worker' \subseteq worker /\ UNCHANGED <<plan, grants, attempt, late, poisoned>>
        /\ pc' \in [Run -> {"new", "invoke", "queued", "sent", "backoff"} \cup Over]
        /\ outcomes' \in [Run -> SUBSET Outcome]
    BY <1>9, <1>10, AnswersAreAnswered
  <2>2. journal' \in [Run -> {"none", "begun", "completed"}] /\ UNCHANGED <<present, ran, purged>>
    BY <1>10 DEF AnswerRead, Replay, Commit, Fails, store, TypeOK
  <2> QED BY <2>1, <2>2 DEF TypeOK
<1>11. ASSUME NEW r \in Run, Begin(r) PROVE WellTyped'
  BY <1>11 DEF Begin, At, Moves, engine, TypeOK, AttemptsLeft, SentIsHead, AtHead
<1>12. ASSUME NEW r \in Run, Execute(r) PROVE WellTyped'
  <2>1. worker' \subseteq Run \X {"start", "begun", "executed"}
    BY <1>12 DEF Execute, Moves, TypeOK
  <2>2. present' \in BOOLEAN /\ ran' \in [Run -> Nat] /\ purged' \in [Run -> BOOLEAN]
    <3>1. present' \in BOOLEAN /\ ran' \in [Run -> Nat]
      BY <1>12 DEF Execute, TypeOK
    <3>2. purged' = [q \in Run |-> IF plan[r].cap = "forgetDataset"
                                     THEN ran[q] > 0 ELSE purged[q] /\ q # r]
      BY <1>12 DEF Execute
    <3>3. \A q \in Run : (ran[q] > 0) \in BOOLEAN /\ (purged[q] /\ q # r) \in BOOLEAN
      OBVIOUS
    <3>4. purged' \in [Run -> BOOLEAN]
      BY <3>2, <3>3
    <3> QED BY <3>1, <3>4
  <2> QED
    BY <1>12, <2>1, <2>2 DEF Execute, engine, TypeOK, AttemptsLeft, SentIsHead, AtHead
<1>13. CASE WorkerExits
  <2>1. CASE /\ \A r \in Run : pc[r] # "sent"
             /\ UNCHANGED <<engine, pc, late, queue, poisoned>>
    BY <1>13, <2>1 DEF WorkerExits, engine, store, TypeOK, AttemptsLeft, SentIsHead
  <2>2. ASSUME NEW r \in Run, pc[r] = "sent", Throws(r, UnansweredAs(r)),
               queue' = Tail(queue), poisoned' = (poisoned \/ Mutating(r))
        PROVE  WellTyped'
    <3>1. AtHead(r) /\ UnansweredAs(r) \in Outcome
      BY <2>2 DEF SentIsHead, UnansweredAs, Outcome
    <3>2. poisoned' \in BOOLEAN
      BY <2>2 DEF TypeOK, Mutating
    <3> QED
      BY <1>13, <2>2, <3>1, <3>2, HeadLeaves DEF WorkerExits, Throws, store, TypeOK
  <2> QED BY <1>13, <2>1, <2>2 DEF WorkerExits
<1>14. CASE UNCHANGED vars
  BY <1>14 DEF vars, TypeOK, AttemptsLeft, SentIsHead, AtHead
<1> QED
  BY <1>1, <1>2, <1>3, <1>4, <1>5, <1>6, <1>7, <1>8, <1>10, <1>11, <1>12, <1>13, <1>14
     DEF Next, Proceed, Serve

-----------------------------------------------------------------------------
(* What reaches the worker. *)

\* Settled by the engine before the first attempt, by the binding before the
\* queue, and so for everything a worker was given.
Licensed(r) ==
    /\ Permission(plan[r].cap) \in grants
    /\ Effect(plan[r].cap) = "irreversible" /\ plan[r].mode = "normal" => plan[r].allow
Keyed(r) == plan[r].mode = "normal" /\ (plan[r].cap \in Write => HasKey(r))

StartedLicensed == \A r \in Run : pc[r] \in {"invoke", "queued", "sent", "backoff"} => Licensed(r)
QueuedKeyed == \A r \in Run : pc[r] \in {"queued", "sent"} => Keyed(r)
ServedAdmitted == \A w \in worker : Licensed(w[1]) /\ Keyed(w[1])

Admission == WellTyped /\ StartedLicensed /\ QueuedKeyed /\ ServedAdmitted

LEMMA AdmissionStep == Admission /\ [Next]_vars => Admission'
<1> SUFFICES ASSUME Admission, [Next]_vars PROVE Admission'
  OBVIOUS
<1>0. WellTyped /\ WellTyped' /\ pc \in [Run -> {"new", "invoke", "queued", "sent", "backoff"} \cup Over]
      /\ worker \subseteq Run \X {"start", "begun", "executed"}
  BY TypedStep DEF Admission, WellTyped, TypeOK
<1> USE DEF Admission
<1>a. UNCHANGED <<plan, grants>>
  BY DEF Next, Proceed, Serve, vars, engine, StartRun, Retry, Refuse, Enqueue, RefuseQueued,
     Dispatch, DeadlinePasses, TimesOut, AnswerRead, Replay, Begin, Execute, Commit, Fails,
     Answers, Throws, Returns, WorkerExits
<1>b. \A r : Licensed(r)' = Licensed(r) /\ Keyed(r)' = Keyed(r)
  BY <1>a DEF Licensed, Keyed, HasKey
<1>1. ASSUME worker' \subseteq worker,
             \A r \in Run : \/ pc'[r] = pc[r]
                            \/ pc'[r] \in Over
                            \/ pc'[r] = "backoff" /\ pc[r] \in {"invoke", "queued", "sent"}
                            \/ pc'[r] = "invoke" /\ (pc[r] = "backoff" \/ Licensed(r))
                            \/ pc'[r] = "queued" /\ pc[r] = "invoke" /\ Keyed(r)
      PROVE  Admission'
  <2>1. StartedLicensed'
    BY <1>1, <1>b DEF StartedLicensed, Over
  <2>2. QueuedKeyed'
    BY <1>1, <1>b DEF QueuedKeyed, Over
  <2>3. ServedAdmitted'
    BY <1>1, <1>b DEF ServedAdmitted
  <2> QED BY <1>0, <2>1, <2>2, <2>3
<1>2. ASSUME NEW r \in Run, StartRun(r) PROVE Admission'
  <2>1. pc' = [pc EXCEPT ![r] = pc'[r]] /\ worker' = worker
    BY <1>0, <1>2 DEF StartRun
  <2>2. pc'[r] \in Over \/ (pc'[r] = "invoke" /\ Licensed(r))
    BY <1>0, <1>2 DEF StartRun, Licensed, Over
  <2> QED BY <1>0, <1>1, <2>1, <2>2
<1>3. ASSUME NEW r \in Run, Retry(r) PROVE Admission'
  BY <1>0, <1>1, <1>3 DEF Retry
<1>4. ASSUME NEW r \in Run, NEW o, Throws(r, o) \/ Returns(r),
             pc[r] \in {"invoke", "queued", "sent"}, worker' \subseteq worker
      PROVE  Admission'
  BY <1>0, <1>1, <1>4 DEF Throws, Returns, Over
<1>5. ASSUME NEW r \in Run, Refuse(r) \/ RefuseQueued(r) \/ TimesOut(r) PROVE Admission'
  BY <1>4, <1>5 DEF Refuse, RefuseQueued, TimesOut
<1>6. ASSUME NEW r \in Run, Enqueue(r) PROVE Admission'
  BY <1>0, <1>1, <1>6 DEF Enqueue, Admits, Keyed
<1>7. ASSUME NEW r \in Run, Dispatch(r) PROVE Admission'
  <2>1. Licensed(r) /\ Keyed(r) /\ pc' = [pc EXCEPT ![r] = "sent"]
    BY <1>7 DEF Dispatch, StartedLicensed, QueuedKeyed
  <2>2. \A w \in worker' : w \in worker \/ w = <<r, "start">>
    BY <1>7 DEF Dispatch
  <2>3. StartedLicensed' /\ QueuedKeyed'
    BY <1>0, <1>b, <2>1 DEF StartedLicensed, QueuedKeyed
  <2>4. ServedAdmitted'
    BY <1>b, <2>1, <2>2 DEF ServedAdmitted
  <2> QED BY <1>0, <2>3, <2>4
<1>8. ASSUME NEW r \in Run, DeadlinePasses(r) PROVE Admission'
  BY <1>1, <1>8 DEF DeadlinePasses
<1>9. ASSUME NEW r \in Run, AnswerRead(r) \/ Replay(r) \/ Commit(r) \/ Fails(r) PROVE Admission'
  <2>1. Answered(r)
    BY <1>9, AnswersAreAnswered
  <2> QED BY <1>1, <1>4, <2>1 DEF Answered
<1>10. ASSUME NEW r \in Run, Begin(r) \/ Execute(r) PROVE Admission'
  <2>1. UNCHANGED pc /\ \A w \in worker' : w \in worker \/ (w[1] = r /\ \E v \in worker : v[1] = r)
    BY <1>10 DEF Begin, Execute, At, Moves
  <2>2. ServedAdmitted'
    BY <1>b, <2>1 DEF ServedAdmitted
  <2> QED BY <1>0, <1>b, <2>1, <2>2 DEF StartedLicensed, QueuedKeyed
<1>11. CASE WorkerExits
  <2>1. CASE UNCHANGED pc
    BY <1>1, <1>11, <2>1 DEF WorkerExits
  <2>2. CASE ~UNCHANGED pc
    <3>1. PICK r \in Run : pc[r] = "sent" /\ Throws(r, UnansweredAs(r))
      BY <1>11, <2>2 DEF WorkerExits
    <3> QED BY <1>4, <1>11, <3>1 DEF WorkerExits
  <2> QED BY <2>1, <2>2
<1>12. CASE UNCHANGED vars
  BY <1>1, <1>12 DEF vars
<1> QED
  BY <1>2, <1>3, <1>5, <1>6, <1>7, <1>8, <1>9, <1>10, <1>11, <1>12 DEF Next, Proceed, Serve

\* Whatever engine runs it, nothing reaches the worker but normal-mode
\* operations with their permission, writes with a key, and deletions the run
\* policy allows.
THEOREM NothingUnadmittedServed == Spec => []OnlyAdmittedWork
<1>1. Init => Admission
  BY TypedInit DEF Init, Admission, StartedLicensed, QueuedKeyed, ServedAdmitted
<1>2. Admission => OnlyAdmittedWork
  BY DEF Admission, WellTyped, TypeOK, ServedAdmitted, Licensed, Keyed, OnlyAdmittedWork
<1> QED BY <1>1, <1>2, AdmissionStep, PTL DEF Spec

-----------------------------------------------------------------------------
(* What a caller learns. *)

\* A run that never had more than refusals, and is not with a worker now, was
\* never with one.
RefusedUntouched ==
    \A r \in Run : outcomes[r] \subseteq {"refused"} /\ pc[r] # "sent" =>
      /\ ran[r] = 0 /\ journal[r] = "none"
      /\ \A w \in worker : w[1] # r
Refusals == WellTyped /\ RefusedUntouched

LEMMA RefusalsStep == Refusals /\ [Next]_vars => Refusals'
<1> SUFFICES ASSUME Refusals, [Next]_vars PROVE Refusals'
  OBVIOUS
<1>0. WellTyped /\ WellTyped'
  BY TypedStep DEF Refusals
<1>a. /\ pc \in [Run -> {"new", "invoke", "queued", "sent", "backoff"} \cup Over]
      /\ outcomes \in [Run -> SUBSET Outcome] /\ ran \in [Run -> Nat]
      /\ journal \in [Run -> {"none", "begun", "completed"}]
      /\ worker \subseteq Run \X {"start", "begun", "executed"}
  BY <1>0 DEF WellTyped, TypeOK
<1> USE DEF Refusals
<1>1. ASSUME worker' \subseteq worker, UNCHANGED <<ran, journal>>,
             \A r \in Run : \/ pc[r] # "sent" /\ outcomes[r] \subseteq outcomes'[r]
                            \/ ~(outcomes'[r] \subseteq {"refused"})
      PROVE  Refusals'
  BY <1>0, <1>1 DEF RefusedUntouched
<1>2. ASSUME NEW r \in Run, StartRun(r) \/ Retry(r) \/ Enqueue(r) \/ DeadlinePasses(r)
      PROVE  Refusals'
  BY <1>0, <1>a, <1>2 DEF StartRun, Retry, Enqueue, DeadlinePasses, engine, store,
     RefusedUntouched, Over
<1>3. ASSUME NEW r \in Run, NEW o \in {"ok", "unknown", "unavailable", "outputContract",
                                       "workerError"},
             Throws(r, o) \/ Returns(r)
      PROVE  /\ ~(outcomes'[r] \subseteq {"refused"})
             /\ \A q \in Run \ {r} : outcomes'[q] = outcomes[q] /\ pc'[q] = pc[q]
  <2>1. outcomes' = [outcomes EXCEPT ![r] = @ \cup {o}]
        \/ outcomes' = [outcomes EXCEPT ![r] = @ \cup {"ok"}]
    BY <1>3 DEF Throws, Returns
  <2>2. o \in outcomes'[r] \/ "ok" \in outcomes'[r]
    BY <1>a, <2>1
  <2>3. ~(outcomes'[r] \subseteq {"refused"})
    BY <2>2
  <2> QED BY <1>3, <1>a, <2>3 DEF Throws, Returns
<1>4. ASSUME NEW r \in Run, Refuse(r) \/ RefuseQueued(r) PROVE Refusals'
  <2>1. /\ pc[r] # "sent" /\ worker' = worker /\ UNCHANGED <<ran, journal>>
        /\ outcomes' = [outcomes EXCEPT ![r] = @ \cup {"refused"}]
        /\ \A q \in Run \ {r} : pc'[q] = pc[q]
    BY <1>a, <1>4 DEF Refuse, RefuseQueued, Throws, store
  <2>2. \A q \in Run : outcomes[q] \subseteq outcomes'[q]
    BY <1>a, <2>1
  <2> QED BY <1>0, <2>1, <2>2 DEF RefusedUntouched
<1>5. ASSUME NEW r \in Run, Dispatch(r) PROVE Refusals'
  <2>1. /\ UNCHANGED <<outcomes, ran, journal>> /\ pc' = [pc EXCEPT ![r] = "sent"]
        /\ \A w \in worker' : w \in worker \/ w[1] = r
    BY <1>5 DEF Dispatch, engine, store
  <2> QED BY <1>0, <1>a, <2>1 DEF RefusedUntouched
<1>6. ASSUME NEW r \in Run, NEW o \in {"ok", "unknown", "unavailable", "outputContract",
                                       "workerError"},
             Throws(r, o) \/ Returns(r), worker' \subseteq worker, UNCHANGED <<ran, journal>>
      PROVE  Refusals'
  BY <1>0, <1>3, <1>6 DEF RefusedUntouched
<1>7. ASSUME NEW r \in Run, TimesOut(r) PROVE Refusals'
  <2>1. UnansweredAs(r) \in {"unknown", "unavailable"}
    BY DEF UnansweredAs
  <2> QED BY <1>6, <1>7, <2>1 DEF TimesOut, store
<1>8. CASE WorkerExits
  <2>1. CASE /\ \A r \in Run : pc[r] # "sent"
             /\ UNCHANGED <<engine, pc, late, queue, poisoned>>
    BY <1>0, <1>8, <2>1 DEF WorkerExits, engine, store, RefusedUntouched
  <2>2. ASSUME NEW r \in Run, Throws(r, UnansweredAs(r)) PROVE Refusals'
    <3>1. UnansweredAs(r) \in {"unknown", "unavailable"}
      BY DEF UnansweredAs
    <3> QED BY <1>6, <1>8, <2>2, <3>1 DEF WorkerExits, store
  <2> QED BY <1>8, <2>1, <2>2 DEF WorkerExits
\* Whoever is with a worker had more than refusals, or will have.
<1>9. ASSUME NEW r \in Run, NEW w \in worker, w[1] = r, pc[r] # "sent"
      PROVE  ~(outcomes[r] \subseteq {"refused"})
  BY <1>9 DEF RefusedUntouched
<1>10. ASSUME NEW r \in Run, AnswerRead(r) \/ Replay(r) \/ Commit(r) \/ Fails(r)
       PROVE  Refusals'
  <2>1. /\ \E w \in worker : w[1] = r
        /\ worker' \subseteq worker /\ ran' = ran
        /\ \A q \in Run \ {r} : journal'[q] = journal[q]
    BY <1>a, <1>10 DEF AnswerRead, Replay, Commit, Fails, Answers, At, store
  <2>2. CASE pc[r] = "sent"
    <3>1. PICK o \in {"ok", "outputContract", "workerError"} : Throws(r, o) \/ Returns(r)
      BY <1>10, <2>2 DEF AnswerRead, Replay, Commit, Fails, Answers
    <3> QED BY <1>0, <1>3, <2>1, <3>1 DEF RefusedUntouched
  <2>3. CASE pc[r] # "sent"
    <3>1. UNCHANGED <<outcomes, pc>>
      BY <1>10, <2>3 DEF AnswerRead, Replay, Commit, Fails, Answers, engine
    <3> QED BY <1>0, <1>9, <2>1, <2>3, <3>1 DEF RefusedUntouched
  <2> QED BY <2>2, <2>3
<1>11. ASSUME NEW r \in Run, Begin(r) \/ Execute(r) PROVE Refusals'
  <2>1. /\ \E w \in worker : w[1] = r
        /\ UNCHANGED <<outcomes, pc>>
        /\ \A w \in worker' : w \in worker \/ w[1] = r
        /\ \A q \in Run \ {r} : journal'[q] = journal[q] /\ ran'[q] = ran[q]
    BY <1>a, <1>11 DEF Begin, Execute, At, Moves, engine
  <2> QED BY <1>0, <1>9, <2>1 DEF RefusedUntouched
<1>12. CASE UNCHANGED vars
  BY <1>0, <1>12 DEF vars, RefusedUntouched
<1> QED
  BY <1>2, <1>4, <1>5, <1>7, <1>8, <1>10, <1>11, <1>12 DEF Next, Proceed, Serve

\* A run every attempt of which was refused touches the store neither then nor
\* later.
THEOREM RefusalIsClean == Spec => []CleanRefusal
<1>1. Init => Refusals
  BY TypedInit DEF Init, Refusals, RefusedUntouched
<1>2. Refusals => CleanRefusal
  BY DEF Refusals, RefusedUntouched, CleanRefusal, Over
<1> QED BY <1>1, <1>2, RefusalsStep, PTL DEF Spec

-----------------------------------------------------------------------------
(* What is in the store. *)

CommittedRan == \A r \in Run : journal[r] = "completed" => ran[r] > 0
ExecutedRan == \A r \in Run : At(r, "executed") => ran[r] > 0
RanIsThere == \A r \in Run : ran[r] > 0 /\ plan[r].cap = "add" /\ ~purged[r] => present
CompletedRan == \A r \in Run : pc[r] = "completed" /\ Mutating(r) => ran[r] > 0

Landing == WellTyped /\ CommittedRan /\ ExecutedRan /\ RanIsThere /\ CompletedRan

LEMMA LandingStep == Landing /\ [Next]_vars => Landing'
<1> SUFFICES ASSUME Landing, [Next]_vars PROVE Landing'
  OBVIOUS
<1>0. WellTyped /\ WellTyped'
  BY TypedStep DEF Landing
<1>a. /\ pc \in [Run -> {"new", "invoke", "queued", "sent", "backoff"} \cup Over]
      /\ ran \in [Run -> Nat] /\ purged \in [Run -> BOOLEAN] /\ present \in BOOLEAN
      /\ journal \in [Run -> {"none", "begun", "completed"}]
      /\ worker \subseteq Run \X {"start", "begun", "executed"}
  BY <1>0 DEF WellTyped, TypeOK
<1> USE DEF Landing
<1>1. ASSUME UNCHANGED <<plan, store>>, NEW r \in Run,
             worker' \subseteq worker \cup {<<r, "start">>},
             \A q \in Run : pc'[q] = "completed" => pc[q] = "completed"
      PROVE  Landing'
  <2>1. UNCHANGED <<journal, ran, present, purged>>
    BY <1>1 DEF store
  <2> QED
    BY <1>0, <1>1, <2>1 DEF CommittedRan, ExecutedRan, RanIsThere, CompletedRan, At, Mutating
<1>2. ASSUME NEW r \in Run, Throws(r, "refused") \/ Throws(r, UnansweredAs(r))
      PROVE  plan' = plan /\ \A q \in Run : pc'[q] = "completed" => pc[q] = "completed"
  BY <1>a, <1>2 DEF Throws
<1>3. ASSUME NEW r \in Run, Proceed(r) \/ DeadlinePasses(r) \/ TimesOut(r) PROVE Landing'
  <2>1. /\ UNCHANGED store
        /\ worker' \subseteq worker \cup {<<r, "start">>}
    BY <1>3 DEF Proceed, StartRun, Retry, Refuse, Enqueue, RefuseQueued, Dispatch,
       DeadlinePasses, TimesOut
  <2>2. plan' = plan /\ \A q \in Run : pc'[q] = "completed" => pc[q] = "completed"
    <3>1. CASE StartRun(r)
      BY <1>a, <3>1 DEF StartRun, engine
    <3>2. CASE Retry(r) \/ Enqueue(r) \/ Dispatch(r) \/ DeadlinePasses(r)
      BY <1>a, <3>2 DEF Retry, Enqueue, Dispatch, DeadlinePasses, engine
    <3>3. CASE Refuse(r) \/ RefuseQueued(r) \/ TimesOut(r)
      BY <1>2, <3>3 DEF Refuse, RefuseQueued, TimesOut
    <3> QED BY <1>3, <3>1, <3>2, <3>3 DEF Proceed
  <2> QED BY <1>1, <2>1, <2>2
<1>4. CASE WorkerExits
  <2>1. UNCHANGED store /\ worker' = {}
    BY <1>4 DEF WorkerExits
  <2>2. plan' = plan /\ \A q \in Run : pc'[q] = "completed" => pc[q] = "completed"
    BY <1>2, <1>4 DEF WorkerExits, engine
  <2> QED
    BY <1>0, <2>1, <2>2 DEF store, CommittedRan, ExecutedRan, RanIsThere, CompletedRan, At,
       Mutating
<1>5. ASSUME NEW r \in Run, AnswerRead(r) \/ Replay(r) \/ Commit(r) \/ Fails(r)
      PROVE  Landing'
  <2>1. /\ worker' \subseteq worker /\ UNCHANGED <<plan, present, ran, purged>>
        /\ \A q \in Run : journal'[q] = "completed" =>
             journal[q] = "completed" \/ (q = r /\ At(r, "executed"))
    BY <1>a, <1>5 DEF AnswerRead, Replay, Commit, Fails, Answers, Throws, Returns, engine, store
  <2>2. \A q \in Run : pc'[q] = "completed" =>
          \/ pc[q] = "completed"
          \/ q = r /\ (Mutating(r) => journal[r] = "completed" \/ At(r, "executed"))
    <3>1. CASE AnswerRead(r)
      BY <1>a, <3>1 DEF AnswerRead, Answers, Throws, Returns, Over
    <3>2. CASE Replay(r)
      BY <1>a, <3>2 DEF Replay, Answers, Returns
    <3>3. CASE Commit(r)
      BY <1>a, <3>3 DEF Commit, Answers, Returns
    <3>4. CASE Fails(r)
      BY <1>a, <3>4 DEF Fails, Answers, Throws
    <3> QED BY <1>5, <3>1, <3>2, <3>3, <3>4
  <2> QED
    BY <1>0, <2>1, <2>2 DEF CommittedRan, ExecutedRan, RanIsThere, CompletedRan, At, Mutating
<1>6. ASSUME NEW r \in Run, Begin(r) PROVE Landing'
  <2>1. /\ UNCHANGED <<plan, pc, present, ran, purged>>
        /\ worker' \subseteq worker \cup {<<r, "begun">>}
        /\ \A q \in Run : journal'[q] = "completed" => journal[q] = "completed"
    BY <1>a, <1>6 DEF Begin, Moves, engine
  <2> QED
    BY <1>0, <2>1 DEF CommittedRan, ExecutedRan, RanIsThere, CompletedRan, At, Mutating
<1>7. ASSUME NEW r \in Run, Execute(r) PROVE Landing'
  <2>1. /\ UNCHANGED <<plan, pc, journal>>
        /\ worker' \subseteq worker \cup {<<r, "executed">>}
        /\ ran' = [ran EXCEPT ![r] = @ + 1]
    BY <1>7 DEF Execute, Moves, engine
  <2>2. ran'[r] > 0 /\ \A q \in Run \ {r} : ran'[q] = ran[q]
    BY <1>a, <2>1
  <2>3. CommittedRan' /\ ExecutedRan' /\ CompletedRan'
    BY <2>1, <2>2 DEF CommittedRan, ExecutedRan, CompletedRan, At, Mutating
  <2>4. RanIsThere'
    <3> SUFFICES ASSUME NEW q \in Run, ran'[q] > 0, plan[q].cap = "add", ~purged'[q]
                 PROVE  present'
      BY <2>1 DEF RanIsThere
    <3>1. purged' = [p \in Run |-> IF plan[r].cap = "forgetDataset"
                                      THEN ran[p] > 0 ELSE purged[p] /\ p # r]
          /\ present' = (plan[r].cap = "add" \/ (present /\ plan[r].cap # "forgetDataset"))
      BY <1>7 DEF Execute
    <3>2. CASE q = r
      BY <3>1, <3>2
    <3>3. CASE q # r
      BY <2>2, <3>1, <3>3 DEF RanIsThere
    <3> QED BY <3>2, <3>3
  <2> QED BY <1>0, <2>3, <2>4
<1>8. CASE UNCHANGED vars
  BY <1>0, <1>8 DEF vars, CommittedRan, ExecutedRan, RanIsThere, CompletedRan, At, Mutating
<1> QED
  BY <1>3, <1>4, <1>5, <1>6, <1>7, <1>8 DEF Next, Serve

\* A mutation reported as completed took effect, and the data is there unless a
\* forget came after its latest effect.
THEOREM CompletionsLanded == Spec => []CompletedHasLanded
<1>1. Init => Landing
  BY TypedInit DEF Init, Landing, CommittedRan, ExecutedRan, RanIsThere, CompletedRan, At
<1>2. Landing => CompletedHasLanded
  BY DEF Landing, CompletedRan, RanIsThere, CompletedHasLanded
<1> QED BY <1>1, <1>2, LandingStep, PTL DEF Spec

-----------------------------------------------------------------------------
(* Who is in the worker when. *)

\* A mutation is in one stage, and while one goes on that was given up nobody
\* waits for an answer.
OneStage ==
    \A v, w \in worker : v[1] = w[1] /\ Mutating(v[1]) => v = w
GivenUpAlone ==
    \A w \in worker : Mutating(w[1]) /\ pc[w[1]] # "sent" => \A q \in Run : pc[q] # "sent"

Behind == WellTyped /\ OneStage /\ GivenUpAlone

LEMMA BehindStep == Behind /\ [Next]_vars => Behind'
<1> SUFFICES ASSUME Behind, [Next]_vars PROVE Behind'
  OBVIOUS
<1>0. WellTyped /\ WellTyped'
  BY TypedStep DEF Behind
<1>a. /\ pc \in [Run -> {"new", "invoke", "queued", "sent", "backoff"} \cup Over]
      /\ worker \subseteq Run \X {"start", "begun", "executed"}
      /\ \A q, r \in Run : pc[q] = "sent" /\ pc[r] = "sent" => q = r
  BY <1>0 DEF WellTyped, TypeOK, SentIsHead, AtHead
<1> USE DEF Behind
<1>1. ASSUME UNCHANGED plan, worker' \subseteq worker,
             NEW r \in Run, \A q \in Run \ {r} : pc'[q] = pc[q], pc'[r] # "sent"
      PROVE  Behind'
  <2>1. OneStage'
    BY <1>1 DEF OneStage, Mutating
  <2>2. GivenUpAlone'
    BY <1>1, <1>a DEF GivenUpAlone, Mutating
  <2> QED BY <1>0, <2>1, <2>2
<1>2. ASSUME UNCHANGED <<plan, pc>>, worker' \subseteq worker PROVE Behind'
  BY <1>0, <1>2 DEF OneStage, GivenUpAlone, Mutating
<1>3. ASSUME NEW r \in Run, NEW o, Throws(r, o) \/ Returns(r), worker' \subseteq worker
      PROVE  Behind'
  BY <1>1, <1>3, <1>a DEF Throws, Returns
<1>4. ASSUME NEW r \in Run, StartRun(r) \/ Retry(r) \/ Enqueue(r) PROVE Behind'
  BY <1>1, <1>4, <1>a DEF StartRun, Retry, Enqueue, engine
<1>5. ASSUME NEW r \in Run, Refuse(r) \/ RefuseQueued(r) \/ TimesOut(r) PROVE Behind'
  BY <1>3, <1>5 DEF Refuse, RefuseQueued, TimesOut
<1>6. ASSUME NEW r \in Run, DeadlinePasses(r) PROVE Behind'
  BY <1>2, <1>6 DEF DeadlinePasses
<1>7. ASSUME NEW r \in Run, Dispatch(r) PROVE Behind'
  <2>1. /\ plan' = plan /\ pc' = [pc EXCEPT ![r] = "sent"]
        /\ \A w \in worker' : ~Mutating(w[1]) \/ w = <<r, "start">>
    BY <1>7 DEF Dispatch, engine
  <2>2. OneStage'
    BY <2>1 DEF OneStage, Mutating
  <2>3. GivenUpAlone'
    BY <1>a, <2>1 DEF GivenUpAlone, Mutating
  <2> QED BY <1>0, <2>2, <2>3
<1>8. ASSUME NEW r \in Run, AnswerRead(r) \/ Replay(r) \/ Commit(r) \/ Fails(r) PROVE Behind'
  <2>1. Answered(r)
    BY <1>8, AnswersAreAnswered
  <2> QED BY <1>2, <1>3, <2>1 DEF Answered, engine
<1>9. ASSUME NEW r \in Run, Begin(r) \/ Execute(r) PROVE Behind'
  <2>1. PICK w \in worker, to \in {"begun", "executed"} :
          w[1] = r /\ worker' = (worker \ {w}) \cup {<<r, to>>}
    BY <1>9 DEF Begin, Execute, At, Moves
  <2>2. UNCHANGED <<plan, pc>>
    BY <1>9 DEF Begin, Execute, engine
  <2>3. OneStage'
    BY <2>1, <2>2 DEF OneStage, Mutating
  <2>4. GivenUpAlone'
    BY <2>1, <2>2 DEF GivenUpAlone, Mutating
  <2> QED BY <1>0, <2>3, <2>4
<1>10. CASE WorkerExits
  <2>1. worker' = {}
    BY <1>10 DEF WorkerExits
  <2> QED BY <1>0, <2>1 DEF OneStage, GivenUpAlone
<1>11. CASE UNCHANGED vars
  BY <1>2, <1>11 DEF vars
<1> QED
  BY <1>4, <1>5, <1>6, <1>7, <1>8, <1>9, <1>10, <1>11 DEF Next, Proceed, Serve

\* Work given up by a run that is over lands, if at all, before anything else
\* is sent to a worker.
THEOREM GivenUpLandsFirst == Spec => NothingLandsBehind
<1>1. Init => Behind
  BY TypedInit DEF Init, Behind, OneStage, GivenUpAlone
<1>2. Behind /\ [Next]_vars =>
        [\A r \in Run : ran'[r] > ran[r] /\ pc[r] \in Over => \A q \in Run : pc[q] # "sent"]_vars
  <2> SUFFICES ASSUME Behind, Next, NEW r \in Run, ran'[r] > ran[r], pc[r] \in Over
               PROVE  \A q \in Run : pc[q] # "sent"
    BY DEF vars
  <2>0. ran \in [Run -> Nat] /\ pc[r] # "sent"
    BY DEF Behind, WellTyped, TypeOK, Over
  <2>1. ASSUME UNCHANGED ran PROVE FALSE
    BY <2>0, <2>1
  <2>2. PICK q \in Run : Execute(q)
    BY <2>1 DEF Next, Proceed, Serve, StartRun, Retry, Refuse, Enqueue, RefuseQueued, Dispatch,
       DeadlinePasses, TimesOut, AnswerRead, Replay, Begin, Commit, Fails, WorkerExits, store
  <2>3. q = r
    BY <2>0, <2>2 DEF Execute
  <2>4. Mutating(r) /\ \E w \in worker : w[1] = r
    BY <2>2, <2>3 DEF Execute, At, Mutating, Write, Search
  <2> QED BY <2>0, <2>4 DEF Behind, GivenUpAlone
<1> QED BY <1>1, <1>2, BehindStep, PTL DEF Spec, NothingLandsBehind
=============================================================================
