--------------------------- MODULE ProofLayerProofs ----------------------------
(***************************************************************************)
(* Machine-checked proofs about the proof layer: part 1, the client of the *)
(* worker (ProofClient), for any number of workers and of requests; part   *)
(* 2, the script of the cognify-retry proof (EquivRun), whatever fails;    *)
(* part 3, its comparator (GraphComparison), for any identities, variants  *)
(* and number of rows.                                                     *)
(***************************************************************************)
EXTENDS ProofClient, EquivRun, GraphComparison, SequenceTheorems,
        FiniteSetTheorems, WellFoundedInduction, TLAPS

-----------------------------------------------------------------------------
(* PART 1.  The client of the worker. *)

TypeOK ==
    /\ proc \in [Proc -> {"none", "starting", "up", "dead", "reaped"}]
    /\ busy \in [Proc -> Seq(Req)]
    /\ spawns \in 0..MaxSpawns /\ child \in 0..spawns
    /\ promise \in [Proc -> {"none", "pending", "ok", "failed"}]
    /\ armed \in BOOLEAN /\ timers \subseteq Proc
    /\ poisoned \in BOOLEAN
    /\ at \in {"idle", "killing", "waiting", "sent"}
    /\ recovers \in BOOLEAN
    /\ req \in 0..MaxRequests /\ writes \subseteq Req
    /\ result \in [Req -> {"none", "unavailable", "unknown", "deadline", "ok", "error"}]
    /\ executed \subseteq Req /\ hasty \in BOOLEAN

\* The fields that all spawns share are those of the last spawn, and only as
\* long as the driver waits for it.
ReadyFields ==
    /\ at = "waiting" => spawns \in Proc
    /\ \A p \in Proc : promise[p] = "pending" =>
         p = spawns /\ at = "waiting" /\ armed /\ spawns \in timers
    /\ armed => spawns \in Proc /\ promise[spawns] = "pending"
    /\ \A p \in timers : promise[p] = "pending"

\* Whatever runs, or is dead and not yet missed, is the child, and during the
\* 300 ms after a kill nothing runs - unless an exit was seen late.
RunningIsChild ==
    ~hasty =>
      /\ \A p \in Proc : proc[p] \in {"starting", "up", "dead"} => p = child
      /\ at = "killing" => \A p \in Proc : ~Alive(p)

\* Some worker was sent the request.
Sent(r) == r \in executed \/ \E p \in Proc : r \in Elements(busy[p])

\* What was sent and what is known of it.
Requests ==
    /\ \A r \in Req : Sent(r) => r <= req
    /\ \A r \in Req : r > req => result[r] = "none"
    /\ at = "sent" => req \in Req /\ ~recovers
    /\ at \in {"waiting", "killing"} /\ ~recovers =>
         req \in Req /\ ~Sent(req) /\ result[req] = "none"
    /\ \A r \in writes : result[r] = "unavailable" => ~Sent(r)
    /\ \A r \in Req : result[r] = "ok" => r \in executed

IInv == TypeOK /\ ReadyFields /\ RunningIsChild /\ Requests

-----------------------------------------------------------------------------
(* Queues of requests. *)

LEMMA HeadAndTail ==
    ASSUME NEW q \in Seq(Req), q # <<>>
    PROVE  /\ Head(q) \in Req /\ Tail(q) \in Seq(Req)
           /\ Head(q) \in Elements(q) /\ Elements(Tail(q)) \subseteq Elements(q)
<1>1. /\ Head(q) \in Req /\ Tail(q) \in Seq(Req) /\ Head(q) = q[1] /\ Len(q) \in Nat \ {0}
      /\ Len(Tail(q)) = Len(q) - 1 /\ \A i \in 1..Len(Tail(q)) : Tail(q)[i] = q[i + 1]
  BY HeadTailProperties, EmptySeq
<1>2. 1 \in 1..Len(q) /\ \A i \in 1..Len(Tail(q)) : i + 1 \in 1..Len(q)
  BY <1>1
<1> QED BY <1>1, <1>2 DEF Elements

LEMMA Appended ==
    ASSUME NEW q \in Seq(Req), NEW r \in Req
    PROVE  /\ Append(q, r) \in Seq(Req)
           /\ Elements(Append(q, r)) \subseteq Elements(q) \cup {r}
<1>1. /\ Append(q, r) \in Seq(Req) /\ Len(q) \in Nat
      /\ Len(Append(q, r)) = Len(q) + 1
      /\ \A i \in 1..Len(q) : Append(q, r)[i] = q[i]
      /\ Append(q, r)[Len(q) + 1] = r
  BY AppendProperties, LenProperties
<1>2. ASSUME NEW i \in 1..Len(Append(q, r)) PROVE i \in 1..Len(q) \/ i = Len(q) + 1
  BY <1>1, <1>2
<1> QED BY <1>1, <1>2 DEF Elements

LEMMA NothingIn == Elements(<<>>) = {} /\ <<>> \in Seq(Req)
<1>1. <<>> \in Seq(Req) /\ Len(<<>>) = 0
  BY EmptySeq
<1> QED BY <1>1 DEF Elements

-----------------------------------------------------------------------------
(* Types. *)

LEMMA SpawnTyped ==
    ASSUME TypeOK, Spawn
    PROVE  /\ spawns + 1 \in Proc
           /\ spawns' = spawns + 1 /\ spawns' \in 0..MaxSpawns /\ child' = spawns'
           /\ proc' \in [Proc -> {"none", "starting", "up", "dead", "reaped"}]
           /\ promise' \in [Proc -> {"none", "pending", "ok", "failed"}]
           /\ armed' = TRUE /\ timers' \subseteq Proc /\ at' = "waiting"
  BY BoundsAssumption DEF TypeOK, Spawn, Proc

LEMMA SettleTyped ==
    ASSUME TypeOK, req \in Req, NEW o \in {"unavailable", "unknown", "deadline", "ok", "error"}, Settle(o)
    PROVE  /\ at' = "idle" /\ recovers' \in BOOLEAN /\ req' = req /\ writes' = writes
           /\ result' \in [Req -> {"none", "unavailable", "unknown", "deadline", "ok", "error"}]
           /\ result' = [result EXCEPT ![req] = o]
<1>1. recovers' \in BOOLEAN
  <2>1. recovers' = FALSE \/ recovers' = (o # "ok")
    BY DEF Settle
  <2> QED BY <2>1
<1> QED BY <1>1 DEF TypeOK, Settle

LEMMA LifecycleTyped ==
    ASSUME TypeOK, Lifecycle
    PROVE  /\ proc' \in [Proc -> {"none", "starting", "up", "dead", "reaped"}]
           /\ busy' = busy
           /\ spawns' \in 0..MaxSpawns /\ child' \in 0..spawns'
           /\ promise' \in [Proc -> {"none", "pending", "ok", "failed"}]
           /\ armed' \in BOOLEAN /\ timers' \subseteq Proc
           /\ poisoned' = poisoned /\ at' \in {"killing", "waiting"}
<1> USE DEF handlers, processes
<1>1. CASE child # 0 /\ ~poisoned
  BY <1>1 DEF Lifecycle, TypeOK
<1>2. CASE child # 0 /\ poisoned
  BY <1>2 DEF Lifecycle, TypeOK
<1>3. CASE child = 0
  <2>1. Spawn /\ UNCHANGED <<busy, poisoned>>
    BY <1>3 DEF Lifecycle
  <2>2. spawns' \in 0..MaxSpawns /\ child' = spawns' /\ armed' = TRUE
    BY <2>1, SpawnTyped
  <2>3. child' \in 0..spawns' /\ armed' \in BOOLEAN
    BY <2>2, BoundsAssumption
  <2> QED BY <2>1, <2>2, <2>3, SpawnTyped
<1> QED BY <1>1, <1>2, <1>3

-----------------------------------------------------------------------------
(* _lifecycle, from a driver that waits for nothing. *)

\* A spawn takes the ready fields over; nobody waits for the former ones.
LEMMA SpawnReady ==
    ASSUME TypeOK, ReadyFields, at # "waiting", Spawn
    PROVE  ReadyFields'
<1>1. spawns + 1 \in Proc /\ spawns' = spawns + 1 /\ armed' = TRUE /\ at' = "waiting"
  BY SpawnTyped
<1>2. /\ \A p \in Proc : promise'[p] = IF p = spawns' THEN "pending" ELSE promise[p]
      /\ timers' = timers \cup {spawns'}
  BY <1>1 DEF Spawn, TypeOK
<1>3. \A p \in Proc : promise[p] # "pending"
  BY DEF ReadyFields
<1>4. timers = {}
  BY <1>3 DEF ReadyFields, TypeOK
<1> QED BY <1>1, <1>2, <1>3, <1>4 DEF ReadyFields

LEMMA LifecycleReady == ASSUME TypeOK, ReadyFields, at = "idle", Lifecycle PROVE ReadyFields'
<1>1. CASE child # 0 /\ ~poisoned
  <2>1. UNCHANGED <<spawns, handlers>> /\ at' = "waiting" /\ spawns \in Proc
    BY <1>1, BoundsAssumption DEF Lifecycle, TypeOK, Proc
  <2> QED BY <2>1 DEF ReadyFields, handlers
<1>2. CASE child # 0 /\ poisoned
  <2>1. UNCHANGED <<spawns, handlers>> /\ at' = "killing"
    BY <1>2 DEF Lifecycle
  <2> QED BY <2>1 DEF ReadyFields, handlers
<1>3. CASE child = 0
  BY <1>3, SpawnReady DEF Lifecycle
<1> QED BY <1>1, <1>2, <1>3

LEMMA LifecycleRunning ==
    ASSUME TypeOK, RunningIsChild, at = "idle", Lifecycle, hasty' = hasty
    PROVE  RunningIsChild'
<1> SUFFICES ASSUME ~hasty
             PROVE  /\ \A p \in Proc : proc'[p] \in {"starting", "up", "dead"} => p = child'
                    /\ at' = "killing" => \A p \in Proc : proc'[p] \notin {"starting", "up"}
  BY DEF RunningIsChild, Alive
<1>0. \A p \in Proc : proc[p] \in {"starting", "up", "dead"} => p = child
  BY DEF RunningIsChild
<1>1. CASE child # 0 /\ ~poisoned
  BY <1>0, <1>1 DEF Lifecycle, processes
<1>2. CASE child # 0 /\ poisoned
  BY <1>0, <1>2 DEF Lifecycle, TypeOK, Alive
<1>3. CASE child = 0
  <2>1. Spawn
    BY <1>3 DEF Lifecycle
  <2>2. /\ spawns + 1 \in Proc /\ child' = spawns + 1 /\ at' = "waiting"
        /\ \A p \in Proc : proc'[p] = IF p = child' THEN "starting" ELSE proc[p]
    BY <2>1, SpawnTyped DEF Spawn, TypeOK
  <2>3. 0 \notin Proc
    BY BoundsAssumption DEF Proc
  <2> QED BY <1>0, <1>3, <2>2, <2>3
<1> QED BY <1>1, <1>2, <1>3

-----------------------------------------------------------------------------
(* The invariant holds initially, and every action keeps it. *)

LEMMA InitOK == Init => IInv
<1> SUFFICES ASSUME Init PROVE IInv
  OBVIOUS
<1>1. TypeOK
  <2>1. busy \in [Proc -> Seq(Req)]
    BY NothingIn DEF Init
  <2>2. /\ spawns \in 0..MaxSpawns /\ child \in 0..spawns /\ req \in 0..MaxRequests
        /\ writes \subseteq Req /\ executed \subseteq Req /\ timers \subseteq Proc
    BY BoundsAssumption DEF Init
  <2>3. /\ proc \in [Proc -> {"none", "starting", "up", "dead", "reaped"}]
        /\ promise \in [Proc -> {"none", "pending", "ok", "failed"}]
        /\ result \in [Req -> {"none", "unavailable", "unknown", "deadline", "ok", "error"}]
    BY DEF Init
  <2> QED BY <2>1, <2>2, <2>3 DEF Init, TypeOK
<1>2. ReadyFields /\ RunningIsChild
  BY DEF Init, ReadyFields, RunningIsChild
<1>3. Requests
  BY NothingIn DEF Init, Requests, Sent
<1> QED BY <1>1, <1>2, <1>3 DEF IInv

LEMMA BeginOK == ASSUME IInv, Begin PROVE IInv'
<1> USE DEF IInv, Begin
<1>1. /\ req' = req + 1 /\ req' \in Req /\ req' \in 0..MaxRequests
      /\ writes' \in {writes, writes \cup {req'}}
  BY BoundsAssumption DEF TypeOK, Req
<1>2. TypeOK'
  BY <1>1, LifecycleTyped DEF TypeOK
<1>3. ReadyFields' /\ RunningIsChild'
  BY LifecycleReady, LifecycleRunning
<1>4. Requests'
  <2>1. UNCHANGED <<busy, executed, result, recovers>> /\ at' \in {"killing", "waiting"}
    BY LifecycleTyped
  <2>2. \A r \in Req : ~(req' <= req) /\ (r > req' => r > req) /\ (r <= req => r <= req')
    BY <1>1, BoundsAssumption DEF TypeOK, Req
  <2>3. req' > req
    BY <1>1, BoundsAssumption DEF TypeOK, Req
  <2>4. ~Sent(req') /\ result[req'] = "none"
    BY <1>1, <2>2, <2>3 DEF Requests
  <2> QED BY <1>1, <2>1, <2>2, <2>4 DEF Requests, Sent
<1> QED BY <1>2, <1>3, <1>4

LEMMA RecoverOK == ASSUME IInv, Recover PROVE IInv'
<1> USE DEF IInv, Recover
<1>1. TypeOK'
  BY LifecycleTyped DEF TypeOK
<1>2. ReadyFields' /\ RunningIsChild'
  BY LifecycleReady, LifecycleRunning
<1>3. Requests'
  <2>1. UNCHANGED <<busy, executed>> /\ at' \in {"killing", "waiting"} /\ recovers
    BY LifecycleTyped
  <2> QED BY <2>1 DEF Requests, Sent
<1> QED BY <1>1, <1>2, <1>3

LEMMA KillDelayOverOK == ASSUME IInv, KillDelayOver PROVE IInv'
<1> USE DEF IInv, KillDelayOver
<1>1. TypeOK'
  <2>1. hasty' \in BOOLEAN
    BY DEF TypeOK
  <2>2. spawns' \in 0..MaxSpawns /\ child' = spawns' /\ armed' = TRUE /\ at' = "waiting"
    BY SpawnTyped
  <2>3. child' \in 0..spawns' /\ armed' \in BOOLEAN
    BY <2>2, BoundsAssumption
  <2> QED BY <2>1, <2>2, <2>3, SpawnTyped DEF TypeOK
<1>2. ReadyFields'
  BY SpawnReady
<1>3. RunningIsChild'
  <2> SUFFICES ASSUME ~hasty'
               PROVE  \A p \in Proc : proc'[p] \in {"starting", "up", "dead"} => p = child'
    BY DEF RunningIsChild, Spawn
  <2>1. \A p \in Proc : proc[p] \notin {"starting", "up", "dead"}
    BY DEF RunningIsChild, Alive
  <2>2. /\ spawns + 1 \in Proc /\ child' = spawns + 1
        /\ \A p \in Proc : proc'[p] = IF p = child' THEN "starting" ELSE proc[p]
    BY SpawnTyped DEF Spawn, TypeOK
  <2> QED BY <2>1, <2>2
<1>4. Requests'
  BY DEF Requests, Sent, Spawn
<1> QED BY <1>1, <1>2, <1>3, <1>4

LEMMA ReadyOK == ASSUME IInv, Ready PROVE IInv'
<1> USE DEF IInv
<1>0. /\ at = "waiting" /\ promise[spawns] # "pending" /\ spawns \in Proc
      /\ UNCHANGED <<proc, child, spawns, handlers, poisoned, executed, hasty>>
  BY DEF Ready, ReadyFields
<1>1. ReadyFields' /\ RunningIsChild'
  <2>1. at' \in {"idle", "sent"}
    BY DEF Ready, Settle
  <2> QED BY <1>0, <2>1 DEF ReadyFields, RunningIsChild, handlers, Alive
<1>2. CASE recovers
  <2>1. at' = "idle" /\ recovers' = FALSE /\ UNCHANGED <<busy, req, writes, result>>
    BY <1>2 DEF Ready
  <2> QED BY <1>0, <1>1, <2>1 DEF TypeOK, Requests, Sent, handlers
<1>3. CASE ~recovers /\ promise[spawns] = "failed"
  <2>1. Settle("unavailable") /\ UNCHANGED busy /\ req \in Req /\ ~Sent(req)
    BY <1>0, <1>3 DEF Ready, Requests
  <2>2. /\ at' = "idle" /\ recovers' \in BOOLEAN /\ req' = req /\ writes' = writes
        /\ result' \in [Req -> {"none", "unavailable", "unknown", "deadline", "ok", "error"}]
        /\ \A r \in Req : result'[r] = IF r = req THEN "unavailable" ELSE result[r]
    BY <2>1, SettleTyped DEF TypeOK
  <2>3. TypeOK'
    BY <1>0, <2>1, <2>2 DEF TypeOK, handlers
  <2>4. Requests'
    <3>1. \A r \in Req : Sent(r)' <=> Sent(r)
      BY <1>0, <2>1 DEF Sent
    <3>2. req \in Nat /\ ~(req > req)
      BY DEF TypeOK
    <3> QED BY <1>0, <2>1, <2>2, <3>1, <3>2 DEF Requests, TypeOK
  <2> QED BY <1>1, <2>3, <2>4
<1>4. CASE ~recovers /\ promise[spawns] = "ok"
  <2>1. /\ at' = "sent" /\ UNCHANGED <<recovers, req, writes, result>> /\ req \in Req
        /\ busy' = [p \in Proc |-> IF p = child /\ Alive(p) THEN Append(busy[p], req) ELSE busy[p]]
    BY <1>0, <1>4 DEF Ready, Requests
  <2>2. \A p \in Proc : /\ busy'[p] \in Seq(Req)
                        /\ Elements(busy'[p]) \subseteq Elements(busy[p]) \cup {req}
    BY <2>1, Appended DEF TypeOK
  <2>3. TypeOK'
    BY <1>0, <2>1, <2>2 DEF TypeOK, handlers
  <2>4. Requests'
    <3>1. \A r \in Req : Sent(r)' => Sent(r) \/ r = req
      BY <1>0, <2>2 DEF Sent
    <3>2. req \in Nat /\ req <= req /\ ~Sent(req) /\ result[req] = "none"
      BY <1>0, <1>4 DEF TypeOK, Requests
    <3> QED BY <1>0, <1>4, <2>1, <3>1, <3>2 DEF Requests, TypeOK
  <2> QED BY <1>1, <2>3, <2>4
<1> QED BY <1>0, <1>2, <1>3, <1>4 DEF Ready

LEMMA TimesOutOK == ASSUME IInv, TimesOut PROVE IInv'
<1> USE DEF IInv, TimesOut
<1> DEFINE o == IF Mutating THEN "unknown" ELSE "deadline"
<1>1. /\ Settle(o) /\ o \in {"unknown", "deadline"} /\ req \in Req
      /\ UNCHANGED <<processes, child, spawns, handlers, executed, hasty>>
      /\ poisoned' \in BOOLEAN
  BY DEF Requests, TypeOK
<1> HIDE DEF o
<1>2. /\ at' = "idle" /\ recovers' \in BOOLEAN /\ req' = req /\ writes' = writes
      /\ result' \in [Req -> {"none", "unavailable", "unknown", "deadline", "ok", "error"}]
      /\ \A r \in Req : result'[r] = IF r = req THEN o ELSE result[r]
  BY <1>1, SettleTyped DEF TypeOK
<1>3. TypeOK'
  BY <1>1, <1>2 DEF TypeOK, processes, handlers
<1>4. ReadyFields' /\ RunningIsChild'
  BY <1>1, <1>2 DEF ReadyFields, RunningIsChild, processes, handlers, Alive
<1>5. Requests'
  <2>1. req \in Nat /\ ~(req > req)
    BY DEF TypeOK
  <2> QED BY <1>1, <1>2, <2>1 DEF Requests, Sent, processes, TypeOK
<1> QED BY <1>3, <1>4, <1>5

\* The driver and what was sent are not concerned.
LEMMA RequestsUnchanged ==
    ASSUME Requests, UNCHANGED <<busy, driver, executed>> PROVE Requests'
  BY DEF Requests, Sent, driver

LEMMA ReadyLineOK == ASSUME IInv, NEW p \in Proc, ReadyLine(p) PROVE IInv'
<1> USE DEF IInv, ReadyLine
<1>1. \A q \in Proc : proc'[q] = IF q = p THEN "up" ELSE proc[q]
  BY DEF TypeOK
<1>2. RunningIsChild'
  BY <1>1 DEF RunningIsChild, driver, Alive
<1>3. Requests'
  BY RequestsUnchanged
<1>4. CASE armed
  <2>1. /\ promise' = [promise EXCEPT ![spawns] = "ok"] /\ spawns \in Proc
        /\ armed' = FALSE /\ timers' = timers \ {spawns} /\ at' = at
    BY <1>4 DEF ReadyFields, driver
  <2>2. TypeOK'
    BY <2>1 DEF TypeOK, driver
  <2>3. \A q \in Proc : promise'[q] # "pending" /\ q \notin timers'
    BY <2>1 DEF ReadyFields, TypeOK
  <2>4. ReadyFields'
    BY <2>1, <2>2, <2>3 DEF ReadyFields, TypeOK
  <2> QED BY <1>2, <1>3, <2>2, <2>4
<1>5. CASE ~armed
  BY <1>2, <1>3, <1>5 DEF TypeOK, ReadyFields, driver, handlers
<1> QED BY <1>4, <1>5

LEMMA ReadyExpiresOK == ASSUME IInv, NEW p \in Proc, ReadyExpires(p) PROVE IInv'
<1> USE DEF IInv, ReadyExpires
<1>1. /\ promise[p] = "pending" /\ p = spawns
      /\ \A q \in Proc : promise'[q] = IF q = p THEN "failed" ELSE promise[q]
  BY DEF ReadyFields, TypeOK
<1>2. TypeOK'
  <2>1. promise' \in [Proc -> {"none", "pending", "ok", "failed"}]
    BY DEF TypeOK
  <2> QED BY <2>1 DEF TypeOK, processes, driver
<1>3. ReadyFields'
  BY <1>1, <1>2 DEF ReadyFields, TypeOK, driver
<1>4. RunningIsChild' /\ Requests'
  BY RequestsUnchanged DEF RunningIsChild, processes, driver, Alive
<1> QED BY <1>2, <1>3, <1>4

LEMMA ExecutesOK == ASSUME IInv, NEW p \in Proc, Executes(p) PROVE IInv'
<1> USE DEF IInv, Executes
<1>1. busy[p] \in Seq(Req) /\ Head(busy[p]) \in Req /\ Head(busy[p]) \in Elements(busy[p])
  BY HeadAndTail DEF TypeOK
<1>2. TypeOK' /\ ReadyFields' /\ RunningIsChild'
  BY <1>1 DEF TypeOK, ReadyFields, RunningIsChild, processes, driver, handlers, Alive
<1>3. Requests'
  <2>1. \A r \in Req : Sent(r)' => Sent(r)
    BY <1>1 DEF Sent, processes
  <2> QED BY <2>1 DEF Requests, driver, TypeOK
<1> QED BY <1>2, <1>3

LEMMA AnswersOK == ASSUME IInv, NEW p \in Proc, Answers(p) PROVE IInv'
<1> USE DEF IInv, Answers
<1>1. /\ busy[p] \in Seq(Req) /\ Head(busy[p]) \in Req
      /\ Tail(busy[p]) \in Seq(Req) /\ Elements(Tail(busy[p])) \subseteq Elements(busy[p])
  BY HeadAndTail DEF TypeOK
<1>2. /\ busy' \in [Proc -> Seq(Req)]
      /\ \A q \in Proc : Elements(busy'[q]) \subseteq Elements(busy[q])
  BY <1>1 DEF TypeOK
<1>3. \A r \in Req : Sent(r)' => Sent(r)
  BY <1>2 DEF Sent
<1>4. CASE at = "sent" /\ Head(busy[p]) = req
  <2>a. PICK o \in Responses(p) : Settle(o)
    BY <1>4
  <2>b. o \in {"ok", "error"} /\ (o = "ok" => req \in executed)
    BY <1>4 DEF Responses
  <2>1. /\ at' = "idle" /\ recovers' \in BOOLEAN /\ req' = req /\ writes' = writes
        /\ result' \in [Req -> {"none", "unavailable", "unknown", "deadline", "ok", "error"}]
        /\ \A r \in Req : result'[r] = IF r = req THEN o ELSE result[r]
    BY <1>1, <1>4, <2>a, <2>b, SettleTyped DEF TypeOK
  <2>2. TypeOK' /\ ReadyFields' /\ RunningIsChild'
    BY <1>2, <1>4, <2>1 DEF TypeOK, ReadyFields, RunningIsChild, handlers, Alive
  <2>3. Requests'
    <3>1. req \in Nat /\ ~(req > req)
      BY <1>4 DEF TypeOK
    <3> QED BY <1>3, <1>4, <2>1, <2>b, <3>1 DEF Requests, TypeOK
  <2> QED BY <2>2, <2>3
<1>5. CASE UNCHANGED driver
  <2>1. TypeOK' /\ ReadyFields' /\ RunningIsChild'
    BY <1>2, <1>5 DEF TypeOK, ReadyFields, RunningIsChild, handlers, driver, Alive
  <2>2. Requests'
    BY <1>3, <1>5 DEF Requests, driver, TypeOK
  <2> QED BY <2>1, <2>2
<1> QED BY <1>4, <1>5

LEMMA DiesOK == ASSUME IInv, NEW p \in Proc, Dies(p) PROVE IInv'
<1> USE DEF IInv, Dies
<1>1. /\ proc' \in [Proc -> {"none", "starting", "up", "dead", "reaped"}]
      /\ \A q \in Proc : proc'[q] = IF q = p THEN "dead" ELSE proc[q]
  BY DEF TypeOK
<1>2. TypeOK' /\ ReadyFields'
  BY <1>1 DEF TypeOK, ReadyFields, handlers, driver
<1>3. RunningIsChild'
  BY <1>1 DEF RunningIsChild, driver, Alive
<1> QED BY <1>2, <1>3, RequestsUnchanged

LEMMA ExitsOK == ASSUME IInv, NEW p \in Proc, Exits(p) PROVE IInv'
<1> USE DEF IInv, Exits
<1>1. /\ proc' \in [Proc -> {"none", "starting", "up", "dead", "reaped"}]
      /\ busy' \in [Proc -> Seq(Req)] /\ child' \in 0..spawns'
      /\ \A q \in Proc : proc'[q] = IF q = p THEN "reaped" ELSE proc[q]
      /\ \A q \in Proc : Elements(busy'[q]) \subseteq Elements(busy[q])
  BY NothingIn, BoundsAssumption DEF TypeOK
<1>2. \A r \in Req : Sent(r)' => Sent(r)
  BY <1>1 DEF Sent
<1>3. /\ promise' \in [Proc -> {"none", "pending", "ok", "failed"}]
      /\ armed' = FALSE /\ timers' \subseteq Proc
      /\ \A q \in Proc : promise'[q] # "pending"
      /\ timers' = {}
  <2>1. CASE armed
    <3>1. /\ promise' = [promise EXCEPT ![spawns] = "failed"] /\ spawns \in Proc
          /\ armed' = FALSE /\ timers' = timers \ {spawns}
      BY <2>1 DEF ReadyFields
    <3> QED BY <3>1 DEF ReadyFields, TypeOK
  <2>2. CASE ~armed
    BY <2>2 DEF ReadyFields, TypeOK, handlers
  <2> QED BY <2>1, <2>2
<1>4. /\ at' \in {"idle", at} /\ at' \in {"idle", "killing", "waiting"} /\ req' = req /\ writes' = writes
      /\ recovers' \in BOOLEAN /\ poisoned' \in BOOLEAN
      /\ result' \in [Req -> {"none", "unavailable", "unknown", "deadline", "ok", "error"}]
      /\ Requests'
  <2>1. CASE at = "sent"
    <3>1. Settle(Lost) /\ Lost \in {"unknown", "unavailable"} /\ req \in Req /\ executed' = executed
      BY <2>1 DEF Lost, Requests
    <3>2. /\ at' = "idle" /\ recovers' \in BOOLEAN /\ req' = req /\ writes' = writes
          /\ result' \in [Req -> {"none", "unavailable", "unknown", "deadline", "ok", "error"}]
          /\ \A r \in Req : result'[r] = IF r = req THEN Lost ELSE result[r]
      BY <3>1, SettleTyped DEF TypeOK
    <3>3. req \in Nat /\ ~(req > req) /\ (req \in writes => Lost = "unknown")
      BY DEF TypeOK, Lost, Mutating
    <3>4. Requests'
      BY <1>2, <3>1, <3>2, <3>3 DEF Requests, TypeOK
    <3> QED BY <2>1, <3>2, <3>4 DEF TypeOK
  <2>2. CASE at # "sent"
    BY <1>2, <2>2 DEF Requests, driver, TypeOK
  <2> QED BY <2>1, <2>2
<1>5. TypeOK'
  BY <1>1, <1>3, <1>4 DEF TypeOK
<1>6. ReadyFields'
  BY <1>3, <1>4 DEF ReadyFields
<1>7. RunningIsChild'
  <2> SUFFICES ASSUME ~hasty
               PROVE  /\ \A q \in Proc : proc'[q] \notin {"starting", "up", "dead"}
    BY DEF RunningIsChild, Alive
  <2> QED BY <1>1 DEF RunningIsChild
<1> QED BY <1>4, <1>5, <1>6, <1>7

LEMMA StutterOK == ASSUME IInv, UNCHANGED vars PROVE IInv'
  BY DEF IInv, TypeOK, ReadyFields, RunningIsChild, Requests, Sent, Alive,
         vars, processes, handlers, driver

LEMMA IInvStep == IInv /\ [Next]_vars => IInv'
  BY BeginOK, RecoverOK, KillDelayOverOK, ReadyOK, TimesOutOK, ReadyLineOK, ReadyExpiresOK,
     ExecutesOK, AnswersOK, DiesOK, ExitsOK, StutterOK DEF Next

LEMMA Inductive == Spec => []IInv
  BY InitOK, IInvStep, PTL DEF Spec

-----------------------------------------------------------------------------
\* Every variable stays in its domain.
THEOREM TypeCorrect == Spec => []TypeOK
  BY Inductive, PTL DEF IInv

\* However many workers are spawned, killed and replaced, no two live ones have
\* an operation, as long as each exit is seen before the successor is spawned.
THEOREM OneOperation == Spec => []OneOpAtATime
<1>1. IInv => OneOpAtATime
  <2> SUFFICES ASSUME IInv, ~hasty PROVE Cardinality(AtWork) <= 1
    BY DEF OneOpAtATime
  <2>1. AtWork \in SUBSET {child}
    BY DEF IInv, RunningIsChild, AtWork, Alive
  <2>2. IsFiniteSet({child}) /\ Cardinality({child}) = 1
    BY FS_Singleton
  <2> QED BY <2>1, <2>2, FS_Subset
<1> QED BY <1>1, Inductive, PTL

\* A mutation that the driver takes for not done has no effect, then or later, and
\* a result is passed on only for a request that was executed.
THEOREM TrueResults == Spec => []ResultsAreTrue
<1>1. IInv => ResultsAreTrue
  BY DEF IInv, TypeOK, Requests, Sent, ResultsAreTrue, UnavailableMeansNoEffect, OkMeansExecuted
<1> QED BY <1>1, Inductive, PTL

\* A ready promise that is awaited has its resolvers and its timer, whatever
\* events of earlier workers come in between.
THEOREM WaitsSettle == Spec => []WaitsForSomething
<1>1. IInv => WaitsForSomething
  BY DEF IInv, ReadyFields, WaitsForSomething
<1> QED BY <1>1, Inductive, PTL
-----------------------------------------------------------------------------
(* PART 2.  The script of the cognify-retry proof. *)

Steps == Request \cup {"inspect", "dump", "compare", "closing", "gone"}
Stages == {"start", "fresh", "freshDone", "reissued", "reissueDone"}
\* Only a cognify of store B has stages.
Work == (Request \X {"start"}) \cup ({"armed", "reissue"} \X Stages)

RunTyped ==
    /\ step \in Steps /\ waiting \in BOOLEAN
    /\ alive \subseteq Client
    /\ doing \in [Client -> {Idle} \cup Work]
    /\ journal \in {"none", "begun", "completed"} /\ effects \in Nat
    /\ same \in BOOLEAN /\ exit \in {"none", "green", "red"}

\* Nothing has gone wrong that the exit status shows.
Clean == Outcomes \subseteq {"PASS"} /\ exit # "red"

Ends ==
    /\ exit # "none" <=> step = "gone"
    /\ exit = "green" => Outcomes \subseteq {"PASS"}
    /\ waiting => step \in Request

\* Only the request that the script awaits is with a worker.
NothingLeftBehind ==
    \A c \in Client : doing[c] # Idle => waiting /\ c = ClientOf(step) /\ doing[c][1] = step

\* What store B has seen, by step.
Untouched == journal = "none" /\ effects = 0
Interrupted == hooked /\ journal = "begun" /\ effects = 1
Repaired == hooked /\ journal = "completed" /\ effects = 2

Progress ==
    /\ step \in {"addA", "cognifyA", "addB"} \/ (step = "armed" /\ ~waiting) => Untouched
    /\ step = "armed" /\ waiting =>
         \/ doing["cc"] = <<"armed", "start">> /\ Untouched
         \/ doing["cc"] = <<"armed", "fresh">> /\ journal = "begun" /\ effects = 0
         \/ doing["cc"] = <<"armed", "freshDone">> /\ journal = "begun" /\ effects = 1
    /\ step = "inspect" \/ (step = "reissue" /\ ~waiting) => Interrupted
    /\ step = "reissue" /\ waiting =>
         \/ doing["b"] \in {<<"reissue", "start">>, <<"reissue", "reissued">>} /\ Interrupted
         \/ doing["b"] = <<"reissue", "reissueDone">> /\ hooked /\ journal = "begun" /\ effects = 2
    /\ step \in {"search", "dump", "compare", "closing", "gone"} => Repaired
    /\ step \in {"closing", "gone"} => same

RunInv == RunTyped /\ Ends /\ (Clean => NothingLeftBehind /\ Progress)

-----------------------------------------------------------------------------
\* What is recorded stays recorded, so a run that is clean now always was.
LEMMA CleanBefore ==
    ASSUME results \subseteq results', exit' = exit, Clean'
    PROVE  Clean
BY DEF Clean, Outcomes

LEMMA RecordedPassed ==
    ASSUME NEW id, NEW ok \in BOOLEAN, NEW otherwise, otherwise # "PASS",
           Record(id, ok, otherwise)
    PROVE  results \subseteq results' /\ (Clean' => ok)
<1>1. results' = results \cup {<<id, IF ok THEN "PASS" ELSE otherwise>>}
  BY DEF Record
<1>2. (IF ok THEN "PASS" ELSE otherwise) \in Outcomes'
  <2>1. <<id, IF ok THEN "PASS" ELSE otherwise>> \in results'
    BY <1>1
  <2>2. <<id, IF ok THEN "PASS" ELSE otherwise>>[2] = IF ok THEN "PASS" ELSE otherwise
    OBVIOUS
  <2> QED BY <2>1, <2>2 DEF Outcomes
<1>3. Clean' => (IF ok THEN "PASS" ELSE otherwise) = "PASS"
  BY <1>2 DEF Clean
<1> QED BY <1>1, <1>3

LEMMA Failed == ASSUME Fails PROVE ~Clean' /\ results \subseteq results'
BY RecordedPassed DEF Fails

\* A failure that the script learns of shows, except that of the armed worker.
LEMMA LosesOK ==
    ASSUME RunTyped, Ends, NEW c \in Client, NEW two \in BOOLEAN, Loses(c, two)
    PROVE  /\ step' \in Steps /\ waiting' \in BOOLEAN /\ results \subseteq results'
           /\ waiting' => waiting /\ step' = step
           /\ ~waiting => UNCHANGED script
           /\ step' = step \/ (waiting /\ step' \in {"inspect", "closing"})
           /\ Clean' => \/ UNCHANGED script /\ ~(waiting /\ ClientOf(step) = c)
                       \/ /\ two /\ waiting /\ step = "armed" /\ c = "cc"
                          /\ step' = "inspect" /\ ~waiting'
<1>1. CASE ~(waiting /\ ClientOf(step) = c)
  BY <1>1 DEF Loses, script, RunTyped
<1>2. CASE waiting /\ ClientOf(step) = c /\ step = "armed"
  <2>1. Goes("inspect") /\ Record("g2", two, "ERROR")
    BY <1>2 DEF Loses
  <2>2. results \subseteq results' /\ (Clean' => two)
    BY <2>1, RecordedPassed
  <2>3. c = "cc"
    BY <1>2 DEF ClientOf
  <2> QED BY <1>2, <2>1, <2>2, <2>3 DEF Goes, Steps
<1>3. CASE waiting /\ ClientOf(step) = c /\ step # "armed"
  <2>1. Fails
    BY <1>3 DEF Loses
  <2> QED BY <1>3, <2>1, Failed DEF Fails, Goes, Steps
<1> QED BY <1>1, <1>2, <1>3

-----------------------------------------------------------------------------
LEMMA RunInitOK == RunInit => RunInv
<1> SUFFICES ASSUME RunInit PROVE RunInv
  OBVIOUS
<1>1. RunTyped
  BY DEF RunInit, RunTyped, Steps, Request
<1>2. Ends
  BY DEF RunInit, Ends, Outcomes
<1>3. NothingLeftBehind /\ Progress
  BY DEF RunInit, NothingLeftBehind, Progress, Untouched
<1> QED BY <1>1, <1>2, <1>3 DEF RunInv

LEMMA SendOK == ASSUME RunInv, Send PROVE RunInv'
<1> USE DEF RunInv
<1>1. ClientOf(step) \in Client /\ <<step, "start">> \in Work
  BY DEF Send, ClientOf, Client, Work
<1>2. RunTyped' /\ Ends'
  BY <1>1 DEF Send, RunTyped, Ends, Clean, Outcomes, stores, Steps
<1>3. ASSUME Clean' PROVE NothingLeftBehind' /\ Progress'
  <2>1. Clean
    BY <1>3, CleanBefore DEF Send
  <2>2. NothingLeftBehind'
    <3>1. \A c \in Client : doing[c] = Idle
      BY <2>1 DEF Send, NothingLeftBehind
    <3>2. \A c \in Client : doing'[c] = IF c = ClientOf(step) THEN <<step, "start">> ELSE doing[c]
      BY <1>1 DEF Send, RunTyped
    <3> QED BY <3>1, <3>2 DEF NothingLeftBehind, Send, RunTyped
  <2>3. Progress'
    <3>1. doing'[ClientOf(step)] = <<step, "start">>
      BY <1>1 DEF Send, RunTyped
    <3> QED BY <2>1, <3>1 DEF Progress, Send, Untouched, Interrupted, Repaired, stores, ClientOf,
                             Request
  <2> QED BY <2>2, <2>3
<1> QED BY <1>2, <1>3

LEMMA BeginsOK ==
    ASSUME RunInv, NEW c \in Client, NEW op \in Request, Begins(c, op)
    PROVE  RunInv'
<1> USE DEF RunInv
<1> DEFINE to == IF journal = "none" THEN "fresh" ELSE "reissued"
<1>1. /\ doing[c] = <<op, "start">> /\ doing[c] # Idle /\ op \in {"armed", "reissue"}
      /\ journal # "completed" /\ journal' = "begun"
      /\ doing' = [doing EXCEPT ![c] = <<op, to>>]
      /\ UNCHANGED <<script, alive, effects, hooked, same, exit>>
  BY DEF Begins, At, Stage, Idle
<1>2. RunTyped' /\ Ends'
  <2>1. <<op, to>> \in Work
    BY <1>1 DEF Work, Stages
  <2> HIDE DEF to
  <2> QED BY <1>1, <2>1 DEF RunTyped, Ends, Outcomes, script
<1>3. ASSUME Clean' PROVE NothingLeftBehind' /\ Progress'
  <2>1. Clean
    BY <1>1, <1>3, CleanBefore DEF script
  <2>2. waiting /\ c = ClientOf(step) /\ op = step
    BY <1>1, <2>1 DEF NothingLeftBehind
  <2>3. doing'[c] = <<op, to>> /\ \A d \in Client \ {c} : doing'[d] = doing[d]
    BY <1>1 DEF RunTyped
  <2>4. NothingLeftBehind'
    <3> HIDE DEF to
    <3> QED BY <1>1, <2>1, <2>2, <2>3 DEF NothingLeftBehind, script
  <2>5. Progress'
    <3>1. CASE step = "armed"
      <4>1. c = "cc" /\ Untouched
        BY <1>1, <2>1, <2>2, <3>1 DEF Progress, ClientOf
      <4> QED BY <1>1, <2>2, <2>3, <3>1, <4>1 DEF Progress, Untouched, script
    <3>2. CASE step = "reissue"
      <4>1. c = "b" /\ Interrupted
        BY <1>1, <2>1, <2>2, <3>2 DEF Progress, ClientOf
      <4> QED BY <1>1, <2>2, <2>3, <3>2, <4>1 DEF Progress, Interrupted, script
    <3> QED BY <1>1, <2>2, <3>1, <3>2
  <2> QED BY <2>4, <2>5
<1> QED BY <1>2, <1>3

LEMMA WritesOK ==
    ASSUME RunInv, NEW c \in Client, NEW op \in Request, Writes(c, op)
    PROVE  RunInv'
<1> USE DEF RunInv
<1>1. PICK s \in {"fresh", "reissued"} :
        /\ doing[c] = <<op, s>> /\ doing[c] # Idle
        /\ doing' = [doing EXCEPT ![c] = <<op, IF s = "fresh" THEN "freshDone" ELSE "reissueDone">>]
        /\ effects' = effects + 1
        /\ UNCHANGED <<script, alive, journal, hooked, same, exit>>
        /\ op \in {"armed", "reissue"}
  <2>1. PICK s \in {"fresh", "reissued"} :
          At(c, op, s) /\ Stage(c, op, IF s = "fresh" THEN "freshDone" ELSE "reissueDone")
    BY DEF Writes
  <2>2. /\ <<op, s>> # Idle
        /\ <<op, s>> \in {Idle} \cup Work => op \in {"armed", "reissue"}
    BY DEF Idle, Work
  <2>3. doing[c] = <<op, s>> /\ doing[c] \in {Idle} \cup Work
    BY <2>1 DEF At, RunTyped
  <2>4. doing' = [doing EXCEPT ![c] = <<op, IF s = "fresh" THEN "freshDone" ELSE "reissueDone">>]
    BY <2>1 DEF Stage
  <2>5. op \in {"armed", "reissue"} /\ doing[c] # Idle
    BY <2>2, <2>3
  <2>6. effects' = effects + 1 /\ UNCHANGED <<script, alive, journal, hooked, same, exit>>
    BY DEF Writes
  <2> QED BY <2>3, <2>4, <2>5, <2>6
<1> DEFINE to == IF s = "fresh" THEN "freshDone" ELSE "reissueDone"
<1>2. RunTyped' /\ Ends'
  <2>1. <<op, to>> \in Work
    BY <1>1 DEF Work, Stages
  <2> HIDE DEF to
  <2>2. doing' = [doing EXCEPT ![c] = <<op, to>>]
    BY <1>1 DEF to
  <2> QED BY <1>1, <2>1, <2>2 DEF RunTyped, Ends, Outcomes, script
<1>3. ASSUME Clean' PROVE NothingLeftBehind' /\ Progress'
  <2>1. Clean
    BY <1>1, <1>3, CleanBefore DEF script
  <2>2. waiting /\ c = ClientOf(step) /\ op = step
    BY <1>1, <2>1 DEF NothingLeftBehind
  <2>3. doing'[c] = <<op, to>> /\ \A d \in Client \ {c} : doing'[d] = doing[d]
    BY <1>1 DEF RunTyped
  <2>4. NothingLeftBehind'
    <3> HIDE DEF to
    <3> QED BY <1>1, <2>1, <2>2, <2>3 DEF NothingLeftBehind, script
  <2>5. Progress'
    <3>1. CASE step = "armed"
      <4>1. c = "cc" /\ s = "fresh" /\ journal = "begun" /\ effects = 0
        BY <1>1, <2>1, <2>2, <3>1 DEF Progress, ClientOf
      <4> QED BY <1>1, <2>2, <2>3, <3>1, <4>1 DEF Progress, script
    <3>2. CASE step = "reissue"
      <4>1. c = "b" /\ s = "reissued" /\ Interrupted
        BY <1>1, <2>1, <2>2, <3>2 DEF Progress, ClientOf
      <4> QED BY <1>1, <2>2, <2>3, <3>2, <4>1 DEF Progress, Interrupted, script
    <3>3. step \in {"armed", "reissue"}
      BY <1>1, <2>2
    <3> QED BY <3>1, <3>2, <3>3
  <2> QED BY <2>4, <2>5
<1> QED BY <1>2, <1>3

\* A worker that stops, of whose end the script learns.
LEMMA StopTyped ==
    ASSUME RunTyped, Ends, NEW c \in Client, NEW two \in BOOLEAN, Stop(c), Loses(c, two),
           UNCHANGED <<journal, effects, same, exit>>
    PROVE  RunTyped' /\ Ends'
<1>1. doing' = [doing EXCEPT ![c] = Idle] /\ alive' = alive \ {c}
  BY DEF Stop
<1>2. RunTyped'
  <2>1. Idle \in {Idle} \cup Work
    OBVIOUS
  <2> QED BY <1>1, <2>1, LosesOK DEF RunTyped
<1>3. Ends'
  <2>1. /\ step' = step \/ (waiting /\ step' \in {"inspect", "closing"})
        /\ waiting' => waiting /\ step' = step
        /\ ~waiting => UNCHANGED script
    BY LosesOK
  <2>2. "gone" \notin Request
    BY DEF Request
  <2> QED BY <2>1, <2>2 DEF Ends, script, Outcomes
<1> QED BY <1>2, <1>3

LEMMA StopOK ==
    ASSUME RunInv, NEW c \in Client, NEW two \in BOOLEAN, Stop(c), Loses(c, two),
           UNCHANGED <<journal, effects, same, exit>>, hooked => hooked',
           two => hooked' /\ journal = "begun" /\ effects = 1
    PROVE  RunInv'
<1> USE DEF RunInv
<1>1. doing' = [doing EXCEPT ![c] = Idle] /\ alive' = alive \ {c}
  BY DEF Stop
<1>2. RunTyped' /\ Ends'
  BY StopTyped
<1>3. ASSUME Clean' PROVE NothingLeftBehind' /\ Progress'
  <2>1. Clean
    BY <1>3, CleanBefore, LosesOK
  <2>2. doing'[c] = Idle /\ \A d \in Client \ {c} : doing'[d] = doing[d]
    BY <1>1 DEF RunTyped
  <2>3. CASE UNCHANGED script /\ ~(waiting /\ ClientOf(step) = c)
    <3>1. NothingLeftBehind'
      BY <2>1, <2>2, <2>3 DEF NothingLeftBehind, script
    <3>2. Progress'
      BY <2>1, <2>2, <2>3 DEF Progress, Untouched, Interrupted, Repaired, script, ClientOf, Client
    <3> QED BY <3>1, <3>2
  <2>4. CASE two /\ waiting /\ step = "armed" /\ c = "cc" /\ step' = "inspect" /\ ~waiting'
    <3>1. NothingLeftBehind'
      BY <2>1, <2>2, <2>4 DEF NothingLeftBehind, ClientOf
    <3>2. Progress'
      BY <2>4 DEF Progress, Interrupted
    <3> QED BY <3>1, <3>2
  <2> QED BY <1>3, <2>3, <2>4, LosesOK
<1> QED BY <1>2, <1>3
LEMMA FaultFiresOK == ASSUME RunInv, FaultFires PROVE RunInv'
<1> USE DEF RunInv
<1>1. PICK s \in {"freshDone", "reissueDone"} : doing["cc"] = <<"armed", s>>
  BY DEF FaultFires, At
<1>2. "cc" \in Client /\ Stop("cc") /\ Loses("cc", TRUE) /\ hooked'
      /\ UNCHANGED <<journal, effects, same, exit>>
  BY DEF FaultFires, Client
<1>3. CASE Clean
  <2>1. doing["cc"] # Idle
    BY <1>1 DEF Idle
  <2>2. waiting /\ step = "armed"
    BY <1>1, <1>2, <1>3, <2>1 DEF NothingLeftBehind
  <2>3. journal = "begun" /\ effects = 1
    BY <1>1, <1>3, <2>2 DEF Progress
  <2> QED BY <1>2, <2>3, StopOK
<1>4. CASE ~Clean
  <2>1. ~Clean'
    BY <1>2, <1>4, CleanBefore, LosesOK
  <2> QED BY <1>2, <2>1, StopTyped
<1> QED BY <1>3, <1>4
LEMMA WorkerDiesOK == ASSUME RunInv, NEW c \in Client, WorkerDies(c) PROVE RunInv'
BY StopOK DEF WorkerDies, stores

LEMMA RequestFailsOK == ASSUME RunInv, RequestFails PROVE RunInv'
<1> USE DEF RunInv
<1>1. ClientOf(step) \in Client
  BY DEF RequestFails, Ends, ClientOf, Client, Request
<1>2. /\ waiting /\ Loses(ClientOf(step), FALSE)
      /\ doing' = [doing EXCEPT ![ClientOf(step)] = Idle] \/ UNCHANGED doing
      /\ UNCHANGED <<alive, journal, effects, hooked, same, exit>>
  BY DEF RequestFails, stores
<1>3. RunTyped'
  <2>1. Idle \in {Idle} \cup Work
    OBVIOUS
  <2> QED BY <1>1, <1>2, <2>1, LosesOK DEF RunTyped
<1>4. Ends'
  <2>1. /\ step' = step \/ step' \in {"inspect", "closing"}
        /\ waiting' => step' = step
    BY <1>1, <1>2, LosesOK
  <2>2. "gone" \notin Request
    BY DEF Request
  <2> QED BY <1>2, <2>1, <2>2 DEF Ends
<1>5. ~Clean'
  BY <1>1, <1>2, LosesOK
<1> QED BY <1>3, <1>4, <1>5

\* The steps of the script between two requests.
LEMMA InspectOK == ASSUME RunInv, Inspect PROVE RunInv'
<1> USE DEF RunInv
<1>1. /\ step = "inspect" /\ step' = "reissue" /\ ~waiting' /\ waiting' = FALSE
      /\ Record("g3", crashed /\ journal = "begun", "FAIL")
      /\ UNCHANGED <<alive, doing, journal, effects, hooked, same, exit>>
  BY DEF Inspect, Goes, stores
<1>2. results \subseteq results'
  BY <1>1 DEF Record
<1>3. RunTyped' /\ Ends'
  BY <1>1 DEF RunTyped, Ends, Steps, Request
<1>4. ASSUME Clean' PROVE NothingLeftBehind' /\ Progress'
  <2>1. Clean
    BY <1>1, <1>2, <1>4, CleanBefore
  <2>2. ~waiting
    BY <1>1 DEF Ends, Request
  <2> QED BY <1>1, <2>1, <2>2 DEF NothingLeftBehind, Progress, Interrupted
<1> QED BY <1>3, <1>4

LEMMA DumpGraphsOK == ASSUME RunInv, DumpGraphs PROVE RunInv'
<1> USE DEF RunInv
<1>1. PICK ok \in BOOLEAN :
        /\ Record("g5", ok, "ERROR") /\ Goes(IF ok THEN "compare" ELSE "closing")
        /\ step = "dump"
        /\ UNCHANGED <<alive, doing, journal, effects, hooked, same, exit>>
  BY DEF DumpGraphs, stores
<1>2. results \subseteq results' /\ (Clean' => ok)
  BY <1>1, RecordedPassed
<1>3. RunTyped' /\ Ends'
  BY <1>1 DEF Goes, RunTyped, Ends, Steps, Request
<1>4. ASSUME Clean' PROVE NothingLeftBehind' /\ Progress'
  <2>1. Clean /\ step' = "compare" /\ ~waiting'
    BY <1>1, <1>2, <1>4, CleanBefore DEF Goes
  <2>2. ~waiting
    BY <1>1 DEF Ends, Request
  <2> QED BY <1>1, <2>1, <2>2 DEF NothingLeftBehind, Progress, Repaired
<1> QED BY <1>3, <1>4

LEMMA CompareOK == ASSUME RunInv, Compare PROVE RunInv'
<1> USE DEF RunInv
<1>1. /\ step = "compare" /\ step' = "closing" /\ waiting' = FALSE
      /\ results \subseteq results'
      /\ <<"g6", IF same THEN "PASS" ELSE "FAIL">> \in results'
      /\ UNCHANGED <<alive, doing, journal, effects, hooked, same, exit>>
  BY DEF Compare, Goes, stores
<1>2. Clean' => same
  <2>1. (IF same THEN "PASS" ELSE "FAIL") \in Outcomes'
    BY <1>1 DEF Outcomes
  <2> QED BY <2>1 DEF Clean
<1>3. RunTyped' /\ Ends'
  BY <1>1 DEF RunTyped, Ends, Steps, Request
<1>4. ASSUME Clean' PROVE NothingLeftBehind' /\ Progress'
  <2>1. Clean
    BY <1>1, <1>4, CleanBefore
  <2>2. ~waiting
    BY <1>1 DEF Ends, Request
  <2> QED BY <1>1, <1>2, <1>4, <2>1, <2>2 DEF NothingLeftBehind, Progress, Repaired
<1> QED BY <1>3, <1>4

LEMMA CloseOK == ASSUME RunInv, NEW c \in Client, Close(c) PROVE RunInv'
<1> USE DEF RunInv
<1>1. /\ step = "closing" /\ doing' = [doing EXCEPT ![c] = Idle] /\ alive' = alive \ {c}
      /\ UNCHANGED <<script, journal, effects, hooked, same, exit>>
  BY DEF Close, Stop, stores
<1>2. RunTyped' /\ Ends'
  <2>1. Idle \in {Idle} \cup Work
    OBVIOUS
  <2> QED BY <1>1, <2>1 DEF RunTyped, Ends, script, Outcomes
<1>3. ASSUME Clean' PROVE NothingLeftBehind' /\ Progress'
  <2>1. Clean
    BY <1>1, <1>3, CleanBefore DEF script
  <2>2. doing'[c] = Idle /\ \A d \in Client \ {c} : doing'[d] = doing[d]
    BY <1>1 DEF RunTyped
  <2> QED BY <1>1, <2>1, <2>2 DEF NothingLeftBehind, Progress, Repaired, script
<1> QED BY <1>2, <1>3

LEMMA ExitOK == ASSUME RunInv, Exit PROVE RunInv'
<1> USE DEF RunInv
<1>1. /\ step = "closing" /\ step' = "gone" /\ waiting' = FALSE /\ exit' = ExitStatus
      /\ UNCHANGED <<results, alive, doing, journal, effects, hooked, same>>
  BY DEF Exit, Goes, stores
<1>2. RunTyped' /\ Ends'
  BY <1>1 DEF RunTyped, Ends, Steps, ExitStatus, Outcomes
<1>3. ASSUME Clean' PROVE NothingLeftBehind' /\ Progress'
  <2>1. Clean /\ ~waiting
    BY <1>1, <1>3 DEF Clean, Ends, Outcomes, Request
  <2> QED BY <1>1, <2>1 DEF NothingLeftBehind, Progress, Repaired
<1> QED BY <1>2, <1>3

LEMMA UncaughtOK == ASSUME RunInv, Uncaught PROVE RunInv'
<1> USE DEF RunInv
<1>1. /\ ClientOf(step) \in Client /\ step' = "gone" /\ waiting' = FALSE /\ exit' = "red"
      /\ doing' = [doing EXCEPT ![ClientOf(step)] = Idle] /\ alive' = alive \ {ClientOf(step)}
      /\ UNCHANGED <<journal, effects, hooked, same>>
  BY DEF Uncaught, Goes, Stop, stores, ClientOf, Client
<1>2. RunTyped' /\ Ends'
  <2>1. Idle \in {Idle} \cup Work
    OBVIOUS
  <2> QED BY <1>1, <2>1 DEF RunTyped, Ends, Steps
<1> QED BY <1>1, <1>2 DEF Clean

LEMMA WorkerAnswersOK == ASSUME RunInv, NEW c \in Client, WorkerAnswers(c) PROVE RunInv'
<1> USE DEF RunInv
<1> DEFINE op == doing[c][1]
           how == Done(c, op)
<1>1. /\ doing[c] # Idle /\ how # "unfinished" /\ (op = "armed" => how = "replayed")
      /\ journal' = IF how \in {"fresh", "reissued"} THEN "completed" ELSE journal
      /\ IF waiting /\ step = op THEN Answered(how)
           ELSE /\ doing' = [doing EXCEPT ![c] = Idle]
                /\ UNCHANGED <<script, alive>>
      /\ UNCHANGED <<effects, hooked, same, exit>>
  BY DEF WorkerAnswers
<1> HIDE DEF op, how
<1>2. CASE ~(waiting /\ step = op)
  <2>1. doing' = [doing EXCEPT ![c] = Idle] /\ UNCHANGED <<script, alive>>
    BY <1>1, <1>2
  <2>2. RunTyped' /\ Ends'
    <3>1. Idle \in {Idle} \cup Work
      OBVIOUS
    <3> QED BY <1>1, <2>1, <3>1 DEF RunTyped, Ends, script, Outcomes
  <2>3. ~Clean'
    <3>1. Clean' => Clean
      BY <1>1, <2>1, CleanBefore DEF script
    <3>2. Clean => waiting /\ op = step
      BY <1>1 DEF NothingLeftBehind, op
    <3> QED BY <1>2, <3>1, <3>2
  <2> QED BY <2>2, <2>3
<1>3. CASE waiting /\ step = op
  <2>1. Answered(how)
    BY <1>1, <1>3
  <2>2. step \in Request /\ ClientOf(step) \in Client
    BY <1>3 DEF Ends, Request, ClientOf, Client
  <2>3. (doing' = [doing EXCEPT ![ClientOf(step)] = Idle]) /\ alive' \subseteq alive
    BY <2>1 DEF Answered, Stop
  <2>4. /\ waiting' = FALSE /\ results \subseteq results'
        /\ step' = CASE step = "addA" -> "cognifyA" [] step = "cognifyA" -> "addB"
                     [] step = "addB" -> "armed" [] step = "armed" -> "inspect"
                     [] step = "reissue" -> "search" [] step = "search" -> "dump"
        /\ step = "armed" => ~Clean'
    <3>1. CASE step \in {"addA", "addB", "reissue"}
      BY <2>1, <3>1 DEF Answered, Goes
    <3>2. CASE step = "cognifyA"
      BY <2>1, <3>2 DEF Answered, Goes, Record
    <3>3. CASE step = "armed"
      <4>1. Goes("inspect") /\ Record("g2", FALSE, "FAIL-UNEXPECTED")
        BY <2>1, <3>3 DEF Answered
      <4> QED BY <3>3, <4>1, RecordedPassed DEF Goes
    <3>4. CASE step = "search"
      BY <2>1, <3>4 DEF Answered, Goes, Record
    <3> QED BY <2>2, <3>1, <3>2, <3>3, <3>4 DEF Request
  <2>5. step' \in Steps /\ step' # "gone"
    BY <2>2, <2>4 DEF Request, Steps
  <2>6. RunTyped' /\ Ends'
    <3>1. Idle \in {Idle} \cup Work
      OBVIOUS
    <3>2. step # "gone"
      BY <2>2 DEF Request
    <3> QED BY <1>1, <2>2, <2>3, <2>4, <2>5, <3>1, <3>2 DEF RunTyped, Ends
  <2>7. ASSUME Clean' PROVE NothingLeftBehind' /\ Progress'
    <3>1. Clean
      BY <1>1, <2>4, <2>7, CleanBefore
    <3>2. c = ClientOf(step)
      BY <1>1, <3>1 DEF NothingLeftBehind
    <3>3. NothingLeftBehind'
      <4>1. \A d \in Client : doing'[d] = IF d = c THEN Idle ELSE doing[d]
        BY <2>3, <3>2 DEF RunTyped
      <4> QED BY <3>1, <3>2, <4>1 DEF NothingLeftBehind
    <3>4. CASE step \in {"addA", "cognifyA", "addB"}
      <4>1. how = "ok"
        BY <1>3, <3>4 DEF how, Done
      <4> QED BY <1>1, <2>4, <3>1, <3>3, <3>4, <4>1 DEF Progress, Untouched
    <3>5. CASE step = "reissue"
      <4>1. c = "b" /\ doing["b"][1] = "reissue"
        BY <1>3, <3>2, <3>5 DEF ClientOf, op
      <4>2. how \in {"unfinished", "reissued"} /\ (how = "reissued" => doing["b"] = <<"reissue", "reissueDone">>)
        BY <1>3, <3>1, <3>5, <4>1 DEF how, Done, At, Progress, Interrupted
      <4>3. hooked /\ effects = 2 /\ journal' = "completed"
        BY <1>1, <1>3, <3>1, <3>5, <4>2 DEF Progress, Interrupted
      <4> QED BY <1>1, <2>4, <3>3, <3>5, <4>3 DEF Progress, Repaired
    <3>6. CASE step = "search"
      <4>1. how = "ok"
        BY <1>3, <3>6 DEF how, Done
      <4> QED BY <1>1, <2>4, <3>1, <3>3, <3>6, <4>1 DEF Progress, Repaired
    <3> QED BY <2>2, <2>4, <2>7, <3>4, <3>5, <3>6 DEF Request
  <2> QED BY <2>6, <2>7
<1> QED BY <1>2, <1>3

LEMMA RunStutterOK == ASSUME RunInv, UNCHANGED runVars PROVE RunInv'
BY DEF runVars, script, RunInv, RunTyped, Ends, Clean, Outcomes, NothingLeftBehind, Progress,
       Untouched, Interrupted, Repaired

LEMMA RunInvStep == RunInv /\ [RunNext]_runVars => RunInv'
BY SendOK, RequestFailsOK, InspectOK, DumpGraphsOK, CompareOK, ExitOK, UncaughtOK, FaultFiresOK,
   WorkerAnswersOK, WorkerDiesOK, CloseOK, BeginsOK, WritesOK, RunStutterOK DEF RunNext

\* Whatever fails, times out or crashes on the way: a run of the cognify-retry
\* proof that exits 0 has tested what it is for.
THEOREM GreenIsTested == RunSpec => []GreenMeansTested
<1>1. RunInv => GreenMeansTested
  <2>1. SUFFICES ASSUME RunInv, exit = "green" PROVE Repaired /\ same
    BY DEF GreenMeansTested, Repaired
  <2>2. step = "gone" /\ Clean
    BY <2>1 DEF RunInv, Ends, Clean
  <2> QED BY <2>1, <2>2 DEF RunInv, Progress
<1> QED BY <1>1, RunInitOK, RunInvStep, PTL DEF RunSpec

-----------------------------------------------------------------------------
(* PART 3.  The comparator. *)

\* A set of numbers has a least one: where a definition is recursive, this does
\* what induction would.
LEMMA Least ==
    ASSUME NEW T, T \subseteq Nat, T # {}
    PROVE  \E k \in T : \A j \in T : k <= j
<1>1. \E k \in T : \A j \in T : <<j, k>> \notin OpToRel(<, Nat)
  BY NatLessThanWellFounded, WFMin
<1>2. PICK k \in T : \A j \in T : <<j, k>> \notin OpToRel(<, Nat)
  BY <1>1
<1>3. ASSUME NEW j \in T, j < k PROVE FALSE
  <2>1. <<j, k>> \in OpToRel(<, Nat)
    BY <1>3 DEF OpToRel
  <2> QED BY <1>2, <2>1
<1>4. \A j \in T : ~(j < k) /\ j \in Nat /\ k \in Nat
  BY <1>3
<1>5. \A j \in T : k <= j
  BY <1>4
<1> QED BY <1>5

-----------------------------------------------------------------------------
(* Instances, the recursive definition of the dump. *)

\* One more row.
Extended(rows, kind, k, list, i) ==
    IF rows[i].kind = kind /\ rows[i].identity = k THEN Append(list, rows[i].variant) ELSE list

\* The lists that the first m rows give, one after the other.
Builds(rows, kind, k, f, m) ==
    f = [i \in 0..m |-> IF i = 0 THEN <<>> ELSE Extended(rows, kind, k, f[i - 1], i)]

LEMMA Built ==
    ASSUME NEW rows, NEW kind, NEW k, NEW n \in Nat
    PROVE  \E f : Builds(rows, kind, k, f, n)
<1> DEFINE T == {m \in 0..n : ~\E f : Builds(rows, kind, k, f, m)}
<1>1. T = {}
  <2>1. SUFFICES ASSUME T # {} PROVE FALSE
    OBVIOUS
  <2>2. PICK m \in T : \A j \in T : m <= j
    <3>1. T \subseteq Nat
      OBVIOUS
    <3> HIDE DEF T
    <3> QED BY <2>1, <3>1, Least
  <2>3. CASE m = 0
    <3> DEFINE f == [i \in 0..0 |-> <<>>]
    <3>1. f = [i \in 0..0 |-> IF i = 0 THEN <<>> ELSE Extended(rows, kind, k, f[i - 1], i)]
      OBVIOUS
    <3> QED BY <2>2, <2>3, <3>1 DEF Builds
  <2>4. CASE m # 0
    <3>1. m - 1 \in 0..n /\ ~(m <= m - 1) /\ m \in Nat
      BY <2>2, <2>4
    <3>2. PICK g : Builds(rows, kind, k, g, m - 1)
      BY <2>2, <3>1
    <3> DEFINE f == [i \in 0..m |-> IF i = m THEN Extended(rows, kind, k, g[m - 1], m) ELSE g[i]]
    <3>3. \A i \in 0..(m - 1) :
            g[i] = IF i = 0 THEN <<>> ELSE Extended(rows, kind, k, g[i - 1], i)
      BY <3>2, Zenon DEF Builds
    <3>4. ASSUME NEW i \in 0..m
          PROVE  f[i] = IF i = 0 THEN <<>> ELSE Extended(rows, kind, k, f[i - 1], i)
      <4>1. CASE i = m
        <5>1. f[i] = Extended(rows, kind, k, g[m - 1], m) /\ f[m - 1] = g[m - 1]
          BY <2>4, <3>1, <4>1
        <5> QED BY <2>4, <4>1, <5>1
      <4>2. CASE i # m
        <5>1. i \in 0..(m - 1) /\ f[i] = g[i] /\ (i # 0 => f[i - 1] = g[i - 1])
          BY <3>1, <4>2
        <5> QED BY <3>3, <5>1
      <4> QED BY <4>1, <4>2
    <3>5. f = [i \in 0..m |-> IF i = 0 THEN <<>> ELSE Extended(rows, kind, k, f[i - 1], i)]
      <4> DEFINE h == [i \in 0..m |-> IF i = 0 THEN <<>> ELSE Extended(rows, kind, k, f[i - 1], i)]
      <4>1. \A i \in 0..m : f[i] = h[i]
        BY <3>4
      <4>2. f = [i \in 0..m |-> f[i]] /\ h = [i \in 0..m |-> h[i]]
        OBVIOUS
      <4> HIDE DEF f, h
      <4>3. f = h
        BY <4>1, <4>2
      <4> QED BY <4>3 DEF h
    <3> HIDE DEF f
    <3>6. Builds(rows, kind, k, f, m)
      BY <3>5 DEF Builds
    <3> QED BY <2>2, <3>6
  <2> QED BY <2>3, <2>4
<1>2. n \in 0..n
  OBVIOUS
<1> QED BY <1>1, <1>2

\* How often each variant is in the list, how long it is.
LEMMA InstancesBuilt ==
    ASSUME NEW rows, NEW kind, NEW k, Len(rows) \in Nat
    PROVE  \E f : /\ Instances(rows, kind, k) = f[Len(rows)]
                  /\ f[0] = <<>>
                  /\ \A i \in 1..Len(rows) : f[i] = Extended(rows, kind, k, f[i - 1], i)
<1> DEFINE n == Len(rows)
           f == CHOOSE g : Builds(rows, kind, k, g, n)
<1>1. Builds(rows, kind, k, f, n)
  BY Built
<1>2. Instances(rows, kind, k) = f[n]
  BY Zenon DEF Instances, Builds, Extended
<1> HIDE DEF f
<1>3. \A i \in 0..n : f[i] = IF i = 0 THEN <<>> ELSE Extended(rows, kind, k, f[i - 1], i)
  BY <1>1, Zenon DEF Builds
<1>4. 0 \in 0..n /\ \A i \in 1..n : i \in 0..n /\ i # 0
  OBVIOUS
<1>5. f[0] = <<>> /\ \A i \in 1..n : f[i] = Extended(rows, kind, k, f[i - 1], i)
  BY <1>3, <1>4
<1> QED BY <1>2, <1>5

LEMMA Positions ==
    ASSUME NEW n \in Nat, NEW S, S \subseteq 1..n
    PROVE  IsFiniteSet(S) /\ Cardinality(S) \in Nat
<1>1. IsFiniteSet(1..n)
  BY FS_Interval
<1>2. IsFiniteSet(S)
  BY <1>1, FS_Subset
<1> QED BY <1>2, FS_CardinalityType

LEMMA AppendCount ==
    ASSUME NEW X, NEW s \in Seq(X), NEW e \in X, NEW v
    PROVE  /\ CountIn(s, v) \in Nat
           /\ CountIn(Append(s, e), v) = IF e = v THEN CountIn(s, v) + 1 ELSE CountIn(s, v)
<1> DEFINE n == Len(s)
           S == {i \in 1..n : s[i] = v}
<1>1. n \in Nat /\ Len(Append(s, e)) = n + 1 /\ Append(s, e)[n + 1] = e
      /\ \A i \in 1..n : Append(s, e)[i] = s[i]
  BY AppendProperties, LenProperties
<1>2. IsFiniteSet(S) /\ Cardinality(S) \in Nat
  BY <1>1, Positions
<1>3. n + 1 \notin S
  BY <1>1
<1>4. {i \in 1..(n + 1) : Append(s, e)[i] = v} = IF e = v THEN S \cup {n + 1} ELSE S
  <2>1. \A i : i \in 1..(n + 1) <=> i \in 1..n \/ i = n + 1
    BY <1>1
  <2> QED BY <1>1, <2>1
<1>5. Cardinality(S \cup {n + 1}) = Cardinality(S) + 1
  BY <1>2, <1>3, FS_AddElement
<1> HIDE DEF S
<1>6. CountIn(Append(s, e), v) = Cardinality(IF e = v THEN S \cup {n + 1} ELSE S)
  BY <1>1, <1>4 DEF CountIn
<1>7. CountIn(s, v) = Cardinality(S)
  BY DEF CountIn, S
<1> QED BY <1>2, <1>5, <1>6, <1>7

RowOf(kind, k, v) == [kind |-> kind, identity |-> k, variant |-> v]

\* An instance in the dump for every row, and no other.
LEMMA Counted ==
    ASSUME NEW rows \in Seq(Row), NEW kind \in Kind, NEW k \in Identity
    PROVE  /\ Instances(rows, kind, k) \in Seq(Variant)
           /\ \A v \in Variant :
                CountIn(Instances(rows, kind, k), v) = CountIn(rows, RowOf(kind, k, v))
<1> DEFINE n == Len(rows)
           Upto(i, v) == {m \in 1..i : rows[m] = RowOf(kind, k, v)}
           Right(g, i) == /\ g[i] \in Seq(Variant)
                          /\ \A v \in Variant : CountIn(g[i], v) = Cardinality(Upto(i, v))
<1>1. n \in Nat /\ \A i \in 1..n : rows[i] \in Row
  BY LenProperties, ElementOfSeq
<1>2. PICK f : /\ Instances(rows, kind, k) = f[n]
               /\ f[0] = <<>>
               /\ \A i \in 1..n : f[i] = Extended(rows, kind, k, f[i - 1], i)
  BY <1>1, InstancesBuilt
<1>3. Right(f, 0)
  <2>1. <<>> \in Seq(Variant) /\ \A v \in Variant : CountIn(<<>>, v) = 0
    <3>1. \A v : {i \in 1..Len(<<>>) : <<>>[i] = v} = {}
      OBVIOUS
    <3> QED BY <3>1, FS_EmptySet DEF CountIn
  <2>2. \A v : Upto(0, v) = {}
    OBVIOUS
  <2> QED BY <1>2, <2>1, <2>2, FS_EmptySet
<1>4. ASSUME NEW i \in 1..n, Right(f, i - 1) PROVE Right(f, i)
  <2>1. f[i] = Extended(rows, kind, k, f[i - 1], i) /\ rows[i] \in Row /\ i \in Nat
    BY <1>1, <1>2
  <2>2. ASSUME NEW v \in Variant
        PROVE  Cardinality(Upto(i, v)) = IF rows[i] = RowOf(kind, k, v)
                                         THEN Cardinality(Upto(i - 1, v)) + 1
                                         ELSE Cardinality(Upto(i - 1, v))
    <3>1. IsFiniteSet(Upto(i - 1, v)) /\ i \notin Upto(i - 1, v)
      BY <2>1, Positions
    <3>2. Upto(i, v) = IF rows[i] = RowOf(kind, k, v) THEN Upto(i - 1, v) \cup {i}
                                                     ELSE Upto(i - 1, v)
      <4>1. \A m : m \in 1..i <=> m \in 1..(i - 1) \/ m = i
        BY <2>1
      <4> QED BY <4>1
    <3> QED BY <3>1, <3>2, FS_AddElement
  <2> HIDE DEF Upto
  <2>3. CASE rows[i].kind = kind /\ rows[i].identity = k
    <3>1. f[i] = Append(f[i - 1], rows[i].variant) /\ rows[i].variant \in Variant
      BY <2>1, <2>3 DEF Extended, Row
    <3>2. f[i] \in Seq(Variant)
      BY <1>4, <3>1, AppendProperties
    <3>3. ASSUME NEW v \in Variant PROVE rows[i].variant = v <=> rows[i] = RowOf(kind, k, v)
      BY <2>1, <2>3 DEF Row, RowOf
    <3>4. ASSUME NEW v \in Variant PROVE CountIn(f[i], v) = Cardinality(Upto(i, v))
      <4>1. CountIn(f[i], v) = IF rows[i].variant = v THEN CountIn(f[i - 1], v) + 1
                                                     ELSE CountIn(f[i - 1], v)
        BY <1>4, <3>1, AppendCount
      <4> QED BY <1>4, <2>2, <3>3, <4>1
    <3> QED BY <3>2, <3>4
  <2>4. CASE ~(rows[i].kind = kind /\ rows[i].identity = k)
    <3>1. f[i] = f[i - 1] /\ \A v : rows[i] # RowOf(kind, k, v)
      BY <2>1, <2>4 DEF Extended, RowOf
    <3> QED BY <1>4, <2>2, <3>1
  <2> QED BY <2>3, <2>4
<1>5. Right(f, n)
  <2> DEFINE T == {i \in 0..n : ~Right(f, i)}
  <2>1. SUFFICES ASSUME T # {} PROVE FALSE
    BY <1>1
  <2>2. T \subseteq Nat
    BY <1>1
  <2>3. PICK i \in T : \A j \in T : i <= j
    <3> HIDE DEF T
    <3> QED BY <2>1, <2>2, Least
  <2>4. i \in 0..n /\ ~Right(f, i)
    OBVIOUS
  <2> HIDE DEF Right
  <2>5. i \in 1..n
    BY <1>1, <1>3, <2>4
  <2>6. i - 1 \in 0..n /\ ~(i <= i - 1)
    BY <1>1, <2>5
  <2>7. Right(f, i - 1)
    BY <2>3, <2>6
  <2> QED BY <1>4, <2>4, <2>5, <2>7
<1>6. \A v \in Variant : Cardinality(Upto(n, v)) = CountIn(rows, RowOf(kind, k, v))
  BY DEF CountIn
<1> QED BY <1>2, <1>5, <1>6

-----------------------------------------------------------------------------
(* Multisets. *)

\* Those of the positions S at which f has the value x.
With(S, f, x) == {i \in S : f[i] = x}

\* f has values in X on S, g on T, each value equally often.
Alike(X, S, f, T, g) ==
    /\ IsFiniteSet(S) /\ IsFiniteSet(T)
    /\ \A i \in S : f[i] \in X
    /\ \A j \in T : g[j] \in X
    /\ \A x \in X : Cardinality(With(S, f, x)) = Cardinality(With(T, g, x))

\* Two sets whose elements are alike equally often are equally large.
LEMMA AlikeEquallyOften ==
    ASSUME NEW X, NEW S, NEW f, NEW T, NEW g, Alike(X, S, f, T, g)
    PROVE  Cardinality(S) = Cardinality(T)
<1> DEFINE A(x) == With(S, f, x)
           B(x) == With(T, g, x)
           b == [x \in X |-> CHOOSE h : h \in Bijection(A(x), B(x))]
           m == [i \in S |-> b[f[i]][i]]
<1>1. ASSUME NEW x \in X PROVE b[x] \in Bijection(A(x), B(x))
  <2>1. IsFiniteSet(A(x)) /\ IsFiniteSet(B(x)) /\ Cardinality(A(x)) = Cardinality(B(x))
    <3>1. A(x) \subseteq S /\ B(x) \subseteq T
      BY DEF With
    <3> QED BY <3>1, FS_Subset DEF Alike
  <2> HIDE DEF A, B
  <2>2. ExistsBijection(A(x), B(x))
    BY <2>1, FS_SameCardinalityBij
  <2> QED BY <2>2 DEF ExistsBijection
<1> HIDE DEF b
<1>2. ASSUME NEW x \in X
      PROVE  /\ \A i \in A(x) : b[x][i] \in B(x)
             /\ \A i, j \in A(x) : b[x][i] = b[x][j] => i = j
             /\ \A j \in B(x) : \E i \in A(x) : b[x][i] = j
  <2> HIDE DEF A, B
  <2> QED BY <1>1 DEF Bijection, Injection, Surjection, IsInjective
<1>3. ASSUME NEW i \in S PROVE i \in A(f[i]) /\ m[i] \in T /\ g[m[i]] = f[i]
  <2>1. i \in A(f[i]) /\ f[i] \in X
    BY DEF With, Alike
  <2>2. b[f[i]][i] \in B(f[i])
    BY <1>2, <2>1
  <2> QED BY <2>1, <2>2 DEF With
<1>4. ASSUME NEW i \in S, NEW j \in S, m[i] = m[j] PROVE i = j
  <2>1. f[i] = f[j] /\ f[i] \in X
    BY <1>3, <1>4 DEF Alike
  <2>2. i \in A(f[i]) /\ j \in A(f[i]) /\ b[f[i]][i] = b[f[i]][j]
    BY <1>3, <1>4, <2>1
  <2> QED BY <1>2, <2>1, <2>2
<1>5. ASSUME NEW j \in T PROVE \E i \in S : m[i] = j
  <2>1. g[j] \in X /\ j \in B(g[j])
    BY DEF With, Alike
  <2>2. PICK i \in A(g[j]) : b[g[j]][i] = j
    BY <1>2, <2>1
  <2> QED BY <2>2 DEF With
<1>6. m \in Bijection(S, T)
  <2>1. m \in [S -> T]
    BY <1>3
  <2> HIDE DEF m
  <2> QED BY <1>4, <1>5, <2>1 DEF Bijection, Injection, Surjection, IsInjective
<1>7. ExistsBijection(S, T)
  BY <1>6 DEF ExistsBijection
<1> QED BY <1>7, FS_Bijection DEF Alike

\* Lists in which everything is equally often are equally long.
LEMMA SameLength ==
    ASSUME NEW X, NEW s \in Seq(X), NEW t \in Seq(X), \A x \in X : CountIn(s, x) = CountIn(t, x)
    PROVE  Len(s) = Len(t)
<1> DEFINE S == 1..Len(s)
           T == 1..Len(t)
<1>1. /\ Len(s) \in Nat /\ Len(t) \in Nat
      /\ \A i \in S : s[i] \in X
      /\ \A i \in T : t[i] \in X
  BY LenProperties, ElementOfSeq
<1>2. /\ IsFiniteSet(S) /\ Cardinality(S) = Len(s)
      /\ IsFiniteSet(T) /\ Cardinality(T) = Len(t)
  <2>1. \A n \in Nat : IsFiniteSet(1..n) /\ Cardinality(1..n) = n
    <3> TAKE n \in Nat
    <3>1. 1 \in Int /\ n \in Int
      OBVIOUS
    <3>2. IsFiniteSet(1..n) /\ Cardinality(1..n) = IF 1 > n THEN 0 ELSE n - 1 + 1
      BY <3>1, FS_Interval
    <3> QED BY <3>2
  <2> QED BY <1>1, <2>1
<1>3. \A x \in X : Cardinality(With(S, s, x)) = Cardinality(With(T, t, x))
  BY DEF CountIn, With
<1> HIDE DEF S, T
<1>4. Alike(X, S, s, T, t)
  BY <1>1, <1>2, <1>3 DEF Alike
<1>5. Cardinality(S) = Cardinality(T)
  BY <1>4, AlikeEquallyOften
<1> QED BY <1>2, <1>5

\* No surplus on either side: everything is equally often in both lists.
LEMMA NoSurplus ==
    ASSUME NEW s, NEW t, Len(s) \in Nat, Len(t) \in Nat
    PROVE  Surplus(s, t) = {} /\ Surplus(t, s) = {} <=> \A v : CountIn(s, v) = CountIn(t, v)
<1>1. ASSUME NEW q, Len(q) \in Nat, NEW v
      PROVE  CountIn(q, v) \in Nat /\ (v \notin Elements(q) => CountIn(q, v) = 0)
  <2>1. CountIn(q, v) \in Nat
    BY <1>1, Positions DEF CountIn
  <2>2. v \notin Elements(q) => {i \in 1..Len(q) : q[i] = v} = {}
    BY DEF Elements
  <2> QED BY <2>1, <2>2, FS_EmptySet DEF CountIn
<1>2. ASSUME Surplus(s, t) = {}, Surplus(t, s) = {}, NEW v PROVE CountIn(s, v) = CountIn(t, v)
  <2>1. v \in Elements(s) => ~(CountIn(s, v) > CountIn(t, v))
    BY <1>2 DEF Surplus
  <2>2. v \in Elements(t) => ~(CountIn(t, v) > CountIn(s, v))
    BY <1>2 DEF Surplus
  <2>3. CountIn(s, v) \in Nat /\ CountIn(t, v) \in Nat
        /\ (v \notin Elements(s) => CountIn(s, v) = 0)
        /\ (v \notin Elements(t) => CountIn(t, v) = 0)
    BY <1>1
  <2> QED BY <2>1, <2>2, <2>3
<1>3. ASSUME \A v : CountIn(s, v) = CountIn(t, v) PROVE Surplus(s, t) = {} /\ Surplus(t, s) = {}
  <2>1. \A v : CountIn(s, v) \in Nat /\ CountIn(t, v) \in Nat
    BY <1>1
  <2> QED BY <1>3, <2>1 DEF Surplus
<1> QED BY <1>2, <1>3
-----------------------------------------------------------------------------
(* The comparison. *)

\* The list of an identity in the dump is the list of its instances.
LEMMA ListInTable ==
    ASSUME NEW rows, NEW kind, NEW k \in Identity
    PROVE  ListOf(Table(rows, kind), k) = Instances(rows, kind, k)
BY DEF ListOf, Table, Identities

\* Nothing differs exactly if each variant of each identity is equally often in
\* both.
LEMMA TablesAgree ==
    ASSUME NEW a \in Seq(Row), NEW b \in Seq(Row), NEW kind \in Kind
    PROVE  TableDiffs(Table(a, kind), Table(b, kind)) = {} <=>
             \A k \in Identity, v \in Variant :
               CountIn(a, RowOf(kind, k, v)) = CountIn(b, RowOf(kind, k, v))
<1> DEFINE la(k) == Instances(a, kind, k)
           lb(k) == Instances(b, kind, k)
           alike(k) == Len(la(k)) = Len(lb(k)) /\ Surplus(la(k), lb(k)) = {}
                                             /\ Surplus(lb(k), la(k)) = {}
<1>1. \A k \in Identity : /\ ListOf(Table(a, kind), k) = la(k)
                          /\ ListOf(Table(b, kind), k) = lb(k)
  BY ListInTable
<1>2. DOMAIN Table(a, kind) = {k \in Identity : la(k) # <<>>}
      /\ DOMAIN Table(b, kind) = {k \in Identity : lb(k) # <<>>}
  BY DEF Table, Identities
<1>3. ASSUME NEW k \in Identity
      PROVE  alike(k) <=> \A v \in Variant :
                           CountIn(a, RowOf(kind, k, v)) = CountIn(b, RowOf(kind, k, v))
  <2>1. la(k) \in Seq(Variant) /\ lb(k) \in Seq(Variant)
        /\ \A v \in Variant : CountIn(la(k), v) = CountIn(a, RowOf(kind, k, v))
                              /\ CountIn(lb(k), v) = CountIn(b, RowOf(kind, k, v))
    BY Counted
  <2> HIDE DEF la, lb
  <2>2. Len(la(k)) \in Nat /\ Len(lb(k)) \in Nat
    BY <2>1, LenProperties
  <2>3. ASSUME \A v \in Variant : CountIn(la(k), v) = CountIn(lb(k), v)
        PROVE  Len(la(k)) = Len(lb(k)) /\ \A v : CountIn(la(k), v) = CountIn(lb(k), v)
    <3>1. Len(la(k)) = Len(lb(k))
      BY <2>1, <2>3, SameLength
    <3>2. ASSUME NEW v, v \notin Variant PROVE CountIn(la(k), v) = CountIn(lb(k), v)
      <4>1. (\A i \in 1..Len(la(k)) : la(k)[i] # v) /\ (\A i \in 1..Len(lb(k)) : lb(k)[i] # v)
        BY <2>1, <3>2, ElementOfSeq
      <4>2. {i \in 1..Len(la(k)) : la(k)[i] = v} = {} /\ {i \in 1..Len(lb(k)) : lb(k)[i] = v} = {}
        BY <4>1
      <4> QED BY <4>2 DEF CountIn
    <3> QED BY <2>3, <3>1, <3>2
  <2>4. Surplus(la(k), lb(k)) = {} /\ Surplus(lb(k), la(k)) = {} <=>
          \A v : CountIn(la(k), v) = CountIn(lb(k), v)
    BY <2>2, NoSurplus
  <2> QED BY <2>1, <2>3, <2>4
<1>4. ASSUME NEW k \in Identity, la(k) = <<>>, lb(k) = <<>> PROVE alike(k)
  <2>1. Surplus(<<>>, <<>>) = {}
    BY DEF Surplus, Elements
  <2> QED BY <1>4, <2>1
<1> HIDE DEF la, lb
<1>5. TableDiffs(Table(a, kind), Table(b, kind)) = {} <=> \A k \in Identity : alike(k)
  <2>1. TableDiffs(Table(a, kind), Table(b, kind)) =
          {k \in Identity : (la(k) # <<>> \/ lb(k) # <<>>) /\ ~alike(k)}
    BY <1>1, <1>2 DEF TableDiffs
  <2> HIDE DEF alike
  <2> QED BY <1>4, <2>1
<1> QED BY <1>3, <1>5

\* Equally many rows of each kind, if each row is equally often in both.
LEMMA CountsAgree ==
    ASSUME NEW a \in Seq(Row), NEW b \in Seq(Row), NEW kind \in Kind,
           \A row \in Row : CountIn(a, row) = CountIn(b, row)
    PROVE  Cardinality(OfKind(a, kind)) = Cardinality(OfKind(b, kind))
<1> DEFINE X == {row \in Row : row.kind = kind}
<1>1. Len(a) \in Nat /\ Len(b) \in Nat
      /\ (\A i \in 1..Len(a) : a[i] \in Row) /\ (\A i \in 1..Len(b) : b[i] \in Row)
  BY LenProperties, ElementOfSeq
<1>2. IsFiniteSet(OfKind(a, kind)) /\ IsFiniteSet(OfKind(b, kind))
  BY <1>1, Positions DEF OfKind
<1>3. (\A i \in OfKind(a, kind) : a[i] \in X) /\ (\A i \in OfKind(b, kind) : b[i] \in X)
  BY <1>1 DEF OfKind
<1>4. ASSUME NEW row \in X
      PROVE  Cardinality(With(OfKind(a, kind), a, row)) = Cardinality(With(OfKind(b, kind), b, row))
  <2>1. With(OfKind(a, kind), a, row) = {i \in 1..Len(a) : a[i] = row}
        /\ With(OfKind(b, kind), b, row) = {i \in 1..Len(b) : b[i] = row}
    BY DEF With, OfKind
  <2> QED BY <2>1 DEF CountIn
<1> HIDE DEF X
<1>5. Alike(X, OfKind(a, kind), a, OfKind(b, kind), b)
  BY <1>2, <1>3, <1>4 DEF Alike
<1> QED BY <1>5, AlikeEquallyOften

LEMMA Exact ==
    ASSUME NEW a \in Seq(Row), NEW b \in Seq(Row)
    PROVE  Equivalent(Dump(a), Dump(b)) <=> \A row \in Row : CountIn(a, row) = CountIn(b, row)
<1>1. Equivalent(Dump(a), Dump(b)) <=>
        \A kind \in Kind : /\ Cardinality(OfKind(a, kind)) = Cardinality(OfKind(b, kind))
                           /\ TableDiffs(Table(a, kind), Table(b, kind)) = {}
  BY DEF Equivalent, RawCountDiffs, Dump
<1>2. (\A row \in Row : CountIn(a, row) = CountIn(b, row)) <=>
        \A kind \in Kind : \A k \in Identity, v \in Variant :
          CountIn(a, RowOf(kind, k, v)) = CountIn(b, RowOf(kind, k, v))
  BY DEF Row, RowOf
<1>3. ASSUME \A row \in Row : CountIn(a, row) = CountIn(b, row)
      PROVE  \A kind \in Kind : Cardinality(OfKind(a, kind)) = Cardinality(OfKind(b, kind))
  BY <1>3, CountsAgree
<1>4. \A kind \in Kind : TableDiffs(Table(a, kind), Table(b, kind)) = {} <=>
        \A k \in Identity, v \in Variant :
          CountIn(a, RowOf(kind, k, v)) = CountIn(b, RowOf(kind, k, v))
  BY TablesAgree
<1> QED BY <1>1, <1>2, <1>3, <1>4

\* A copy that the control marks is one more of its identity, an edge of a new
\* identity one more of its kind.
LEMMA Detected ==
    ASSUME NEW a, NEW b,
           rowsA \in Seq(Row), rowsB \in Seq(Row), a = Dump(rowsA), b = Dump(rowsB),
           Equivalent(a, b)
    PROVE  /\ \A kind \in Kind : \A k \in DOMAIN a[kind].table :
                ~Equivalent(InjectDuplicate(a, kind, k), b)
           /\ \A k \in DOMAIN a["edge"].table : ~Equivalent(InjectNovelEdge(a, k), b)
<1>1. \A kind \in Kind : /\ a[kind] = [count |-> Cardinality(OfKind(rowsA, kind)),
                                      table |-> Table(rowsA, kind)]
                         /\ b[kind] = [count |-> Cardinality(OfKind(rowsB, kind)),
                                      table |-> Table(rowsB, kind)]
  BY DEF Dump
<1>2. DOMAIN a = Kind
  BY DEF Dump
<1>3. ASSUME NEW kind \in Kind, NEW k \in DOMAIN a[kind].table,
             Equivalent(InjectDuplicate(a, kind, k), b)
      PROVE  FALSE
  <2> DEFINE t == a[kind].table
             u == b[kind].table
             d == InjectDuplicate(a, kind, k)[kind].table
  <2>1. d = [t EXCEPT ![k] = Append(@, Injected)]
    BY <1>1, <1>2, <1>3 DEF InjectDuplicate
  <2>2. t = Table(rowsA, kind) /\ k \in DOMAIN t /\ k \in Identity
    <3>1. a[kind] = [count |-> Cardinality(OfKind(rowsA, kind)), table |-> Table(rowsA, kind)]
      BY <1>1
    <3>2. t = Table(rowsA, kind) /\ k \in DOMAIN t
      BY <1>3, <3>1
    <3> QED BY <3>2 DEF Table, Identities
  <2>3. t[k] \in Seq(Variant) /\ ListOf(t, k) = t[k]
    BY <1>1, <2>2, Counted DEF Table, ListOf
  <2>4. Len(ListOf(t, k)) = Len(ListOf(u, k))
    BY <1>1, <1>3, <2>2 DEF Equivalent, TableDiffs
  <2>5. ListOf(d, k) = Append(t[k], Injected) /\ k \in DOMAIN d
    <3> HIDE DEF t, d
    <3> QED BY <2>1, <2>2 DEF ListOf
  <2>6. Len(ListOf(d, k)) = Len(ListOf(u, k))
    BY <1>3, <2>5 DEF Equivalent, TableDiffs
  <2> HIDE DEF t, u, d
  <2>7. t[k] \in Seq(Variant \cup {Injected})
    BY <2>3, ElementOfSeq, LenProperties, IsASeq
  <2>8. Len(Append(t[k], Injected)) = Len(t[k]) + 1 /\ Len(t[k]) \in Nat
    BY <2>7, AppendProperties, LenProperties
  <2> QED BY <2>3, <2>4, <2>5, <2>6, <2>8
<1>4. ASSUME NEW k \in DOMAIN a["edge"].table, Equivalent(InjectNovelEdge(a, k), b)
      PROVE  FALSE
  <2>1. "edge" \in Kind
    BY DEF Kind
  <2>2. InjectNovelEdge(a, k)["edge"].count = a["edge"].count + 1
    BY <1>2, <2>1 DEF InjectNovelEdge
  <2>3. a["edge"].count = b["edge"].count
    BY <2>1 DEF Equivalent, RawCountDiffs
  <2>4. InjectNovelEdge(a, k)["edge"].count = b["edge"].count
    BY <1>4, <2>1 DEF Equivalent, RawCountDiffs
  <2>5. a["edge"].count \in Nat
    <3>1. Len(rowsA) \in Nat
      BY LenProperties
    <3>2. OfKind(rowsA, "edge") \subseteq 1..Len(rowsA)
      BY DEF OfKind
    <3>3. Cardinality(OfKind(rowsA, "edge")) \in Nat
      BY <3>1, <3>2, Positions
    <3>4. a["edge"] = [count |-> Cardinality(OfKind(rowsA, "edge")), table |-> Table(rowsA, "edge")]
      BY <1>1, <2>1
    <3>5. a["edge"].count = Cardinality(OfKind(rowsA, "edge"))
      BY <3>4
    <3> QED BY <3>3, <3>5
  <2> QED BY <2>2, <2>3, <2>4, <2>5
<1> QED BY <1>3, <1>4

-----------------------------------------------------------------------------
RowsKnown == rowsA \in Seq(Row) /\ rowsB \in Seq(Row)

\* The comparator of the cognify-retry proof accepts two dumps exactly if the
\* databases hold the same rows equally often, and each of its negative controls
\* is found: for any identities, variants and number of rows.
THEOREM ComparatorExact == GraphsSpec => []ComparatorIsExact
<1>1. GraphsInit => RowsKnown
  BY EmptySeq DEF GraphsInit, RowsKnown
<1>2. RowsKnown /\ [GraphsNext]_graphsVars => RowsKnown'
  <2>1. ASSUME RowsKnown, NEW row \in Row, AddToA(row) \/ AddToB(row) PROVE RowsKnown'
    <3>1. \A s \in Seq(Row) : Append(s, row) \in Seq(Row)
      BY AppendProperties
    <3> HIDE DEF Row
    <3> QED BY <2>1, <3>1 DEF RowsKnown, AddToA, AddToB
  <2> QED BY <2>1 DEF GraphsNext, graphsVars, RowsKnown
<1>3. RowsKnown => ComparatorIsExact
  <2>1. SUFFICES ASSUME RowsKnown PROVE EquivalentIffSameRows /\ ControlsDetect
    BY DEF ComparatorIsExact
  <2>2. rowsA \in Seq(Row) /\ rowsB \in Seq(Row)
    BY <2>1 DEF RowsKnown
  <2>3. EquivalentIffSameRows
    BY <2>2, Exact DEF EquivalentIffSameRows, SameRows
  <2>4. ControlsDetect
    <3> DEFINE a == Dump(rowsA)
               b == Dump(rowsB)
    <3>1. SUFFICES ASSUME Equivalent(a, b)
                   PROVE  /\ \A kind \in Kind : \A k \in DOMAIN a[kind].table :
                               ~Equivalent(InjectDuplicate(a, kind, k), b)
                          /\ \A k \in DOMAIN a["edge"].table :
                               ~Equivalent(InjectNovelEdge(a, k), b)
      BY Zenon DEF ControlsDetect
    <3> QED BY <2>2, <3>1, Detected
  <2> QED BY <2>3, <2>4
<1> QED BY <1>1, <1>2, <1>3, PTL DEF GraphsSpec
=============================================================================
