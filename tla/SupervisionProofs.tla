--------------------------- MODULE SupervisionProofs ---------------------------
(***************************************************************************)
(* Machine-checked proofs about Supervision, for any sets of mutations and *)
(* reads, with and without the loss of the lock.                           *)
(***************************************************************************)
EXTENDS Supervision, Integers, SequenceTheorems, TLAPS

-----------------------------------------------------------------------------
(* The inductive invariant. *)

Elements(q) == {q[i] : i \in 1..Len(q)}
Distinct(q) == \A i, j \in 1..Len(q) : q[i] = q[j] => i = j

\* Requests wait for their turn once, and nothing is known of them before.
Requests ==
    /\ Distinct(queue)
    /\ \A r \in Elements(queue) : out[r] = "pending" /\ r # cur
    /\ cur # None => out[cur] = "pending"
    /\ \A r \in Request : out[r] = "uncalled" \/ r \in Elements(queue) =>
         ready[r] = "unset" /\ sentTo[r] = None

\* The await that the current request is at, and the readiness it awaits.
Turns ==
    /\ phase = "respawning" => ready[cur] = "unset" /\ sentTo[cur] = None
    /\ phase = "awaiting" =>
         ready[cur] = "armed" /\ sentTo[cur] = None /\ child \in {cur, None}
    /\ phase = "inflight" => sentTo[cur] # None
    /\ \A w \in Worker : ready[w] = "armed" => phase = "awaiting" /\ w = cur
    /\ child # None => ready[child] = "resolved" \/ (phase = "awaiting" /\ child = cur)
    /\ \A r \in Request : sentTo[r] # None => ready[sentTo[r]] = "resolved"

\* What was sent, what was executed of it, and what was said of it.
Effects ==
    /\ \A w \in Worker : \A k \in 1..Len(inbox[w]) : sentTo[inbox[w][k]] = w
    /\ \A r \in executed : sentTo[r] # None
    /\ \A r \in Mutation : out[r] \in Refusal => sentTo[r] = None
    /\ \A r \in Request : out[r] = "ok" => r \in executed
    /\ \A r \in Mutation :
         out[r] = "unknown" /\ child # None /\ sentTo[r] = child => poisoned

\* The running worker, and what is left of it when the lock is gone.
NoneAlive == \A w \in Worker : ~Alive(w)
Workers ==
    /\ \A w \in Worker : Alive(w) => child = w
    /\ phase = "respawning" => NoneAlive
    /\ ~owns /\ phase # "inflight" => \A w \in Worker : Alive(w) => inbox[w] = <<>>
    /\ ~owns /\ phase = "inflight" => lostMidOp \/ NoneAlive

IInv == TypeOK /\ Requests /\ Turns /\ Effects /\ Workers

-----------------------------------------------------------------------------
(* Sequences and signals. *)

LEMMA Appended ==
    ASSUME NEW S, NEW q \in Seq(S), NEW x \in S
    PROVE  /\ Append(q, x) \in Seq(S)
           /\ Elements(Append(q, x)) = Elements(q) \cup {x}
           /\ Distinct(q) /\ x \notin Elements(q) => Distinct(Append(q, x))
<1>1. /\ Append(q, x) \in Seq(S) /\ Len(Append(q, x)) = Len(q) + 1 /\ Len(q) \in Nat
      /\ Append(q, x)[Len(q) + 1] = x /\ \A i \in 1..Len(q) : Append(q, x)[i] = q[i]
  BY AppendProperties
<1>2. Elements(Append(q, x)) = Elements(q) \cup {x}
  <2> DEFINE t == Append(q, x)
  <2> HIDE DEF t
  <2>1. \A i \in 1..Len(t) : i \in 1..Len(q) \/ i = Len(q) + 1
    BY <1>1 DEF t
  <2>2. \A i \in 1..Len(q) : i \in 1..Len(t) /\ t[i] = q[i]
    BY <1>1 DEF t
  <2>3. Len(q) + 1 \in 1..Len(t) /\ t[Len(q) + 1] = x
    BY <1>1 DEF t
  <2>4. Elements(t) \subseteq Elements(q) \cup {x}
    BY <2>1, <2>2, <2>3 DEF Elements
  <2>5. Elements(q) \cup {x} \subseteq Elements(t)
    BY <2>2, <2>3 DEF Elements
  <2> QED BY <2>4, <2>5 DEF t
<1>3. ASSUME Distinct(q), x \notin Elements(q) PROVE Distinct(Append(q, x))
  <2> DEFINE t == Append(q, x)
  <2> SUFFICES ASSUME NEW i \in 1..Len(t), NEW j \in 1..Len(t), t[i] = t[j] PROVE i = j
    BY DEF Distinct
  <2>1. \A n \in 1..Len(t) : (n \in 1..Len(q) /\ t[n] = q[n]) \/ (n = Len(q) + 1 /\ t[n] = x)
    BY <1>1
  <2>2. \A n \in 1..Len(q) : q[n] # x
    BY <1>3 DEF Elements
  <2> HIDE DEF t
  <2> QED BY <1>3, <2>1, <2>2 DEF Distinct
<1> QED BY <1>1, <1>2, <1>3

LEMMA Beheaded ==
    ASSUME NEW S, NEW q \in Seq(S), q # <<>>
    PROVE  /\ Tail(q) \in Seq(S) /\ Head(q) \in S
           /\ Head(q) \in Elements(q) /\ Elements(Tail(q)) \subseteq Elements(q)
           /\ Elements(q) = Elements(Tail(q)) \cup {Head(q)}
           /\ Distinct(q) => Distinct(Tail(q)) /\ Head(q) \notin Elements(Tail(q))
<1>1. /\ Tail(q) \in Seq(S) /\ Head(q) = q[1] /\ Len(q) \in Nat \ {0}
      /\ Len(Tail(q)) = Len(q) - 1 /\ \A i \in 1..Len(Tail(q)) : Tail(q)[i] = q[i + 1]
  BY HeadTailProperties, EmptySeq
<1> DEFINE t == Tail(q)
<1> HIDE DEF t
<1>2. \A i \in 1..Len(t) : i + 1 \in 1..Len(q) /\ i + 1 # 1 /\ t[i] = q[i + 1]
  BY <1>1 DEF t
<1>3. \A j \in 1..Len(q) : j = 1 \/ (j - 1 \in 1..Len(t) /\ q[j] = t[j - 1])
  BY <1>1, <1>2 DEF t
<1>4. 1 \in 1..Len(q) /\ Head(q) = q[1] /\ Head(q) \in S
  BY <1>1
<1>5. Elements(t) \subseteq Elements(q) /\ Head(q) \in Elements(q)
  BY <1>2, <1>4 DEF Elements
<1>6. Elements(q) \subseteq Elements(t) \cup {Head(q)}
  BY <1>3, <1>4 DEF Elements
<1>7. ASSUME Distinct(q) PROVE Distinct(t) /\ Head(q) \notin Elements(t)
  <2>1. Distinct(t)
    <3> SUFFICES ASSUME NEW i \in 1..Len(t), NEW j \in 1..Len(t), t[i] = t[j] PROVE i = j
      BY DEF Distinct
    <3>1. i + 1 = j + 1
      BY <1>2, <1>7 DEF Distinct
    <3> QED BY <3>1
  <2>2. Head(q) \notin Elements(t)
    BY <1>2, <1>4, <1>7 DEF Distinct, Elements
  <2> QED BY <2>1, <2>2
<1> QED BY <1>1, <1>4, <1>5, <1>6, <1>7 DEF t

LEMMA Sorts ==
    /\ Mutation \subseteq Request /\ Worker = Request
    /\ None \notin Request /\ Stop \in Request /\ Stop \notin Mutation
  BY RequestAssumption DEF Request, Worker

\* A signal: nothing starts running, and the worker it goes to stops.
LEMMA Signalled ==
    ASSUME TypeOK, NEW w \in Worker \cup {None}
    PROVE  /\ AfterKill(w) \in [Worker -> {"unspawned", "booting", "serving", "killed",
                                           "exited", "reaped"}]
           /\ \A v \in Worker : AfterKill(w)[v] \in {"booting", "serving"} =>
                AfterKill(w)[v] = os[v] /\ v # w
  BY Sorts DEF TypeOK, AfterKill, Alive

-----------------------------------------------------------------------------
(* One lemma per action. *)

LEMMA InitOK == Init => IInv
<1> SUFFICES ASSUME Init PROVE IInv
  OBVIOUS
<1>1. TypeOK
  <2>1. queue \in Seq(Request) /\ inbox \in [Worker -> Seq(Request)]
    BY DEF Init
  <2>2. sentTo \in [Request -> Worker \cup {None}]
    BY DEF Init
  <2> QED BY <2>1, <2>2 DEF Init, TypeOK
<1>2. Elements(queue) = {} /\ Distinct(queue)
  BY DEF Init, Elements, Distinct
<1>3. Requests /\ Turns
  BY <1>2, Sorts DEF Init, Requests, Turns
<1>4. Effects /\ Workers
  BY Sorts DEF Init, Effects, Workers, Alive, Refusal
<1> QED BY <1>1, <1>3, <1>4 DEF IInv

LEMMA CallOK == ASSUME IInv, NEW r \in Request, Call(r) PROVE IInv'
<1> USE Sorts DEF IInv, Call, nodeVars, osVars
<1>0. /\ queue' \in Seq(Request) /\ Elements(queue') = Elements(queue) \cup {r}
      /\ Distinct(queue')
  <2>1. r \notin Elements(queue)
    BY DEF Requests
  <2> QED BY <2>1, Appended DEF TypeOK, Requests
<1>1. TypeOK'
  BY <1>0 DEF TypeOK
<1>2. Requests'
  BY <1>0 DEF Requests, TypeOK
<1>3. Turns'
  BY DEF Turns
<1>4. Effects'
  BY DEF Effects, TypeOK, Refusal
<1>5. Workers'
  BY DEF Workers, NoneAlive, Alive
<1> QED BY <1>1, <1>2, <1>3, <1>4, <1>5

LEMMA DeadlineNearsOK == ASSUME IInv, NEW r \in Request, DeadlineNears(r) PROVE IInv'
<1> USE Sorts DEF IInv, DeadlineNears, nodeVars, osVars
<1>1. TypeOK'
  BY DEF TypeOK
<1>2. Requests' /\ Turns' /\ Effects' /\ Workers'
  BY DEF Requests, Turns, Effects, Workers, NoneAlive, Alive
<1> QED BY <1>1, <1>2

LEMMA LoseLockOK == ASSUME IInv, LoseLock PROVE IInv'
<1> USE Sorts DEF IInv, LoseLock, nodeVars, osVars
<1>1. TypeOK'
  BY DEF TypeOK
<1>2. Requests' /\ Turns' /\ Effects' /\ Workers'
  BY DEF Requests, Turns, Effects, Workers, NoneAlive, Alive
<1> QED BY <1>1, <1>2

\* A turn starts: its request leaves the queue, and nothing is known of it yet.
LEMMA TurnOf ==
    ASSUME IInv, NEW r \in Request, TurnStarts(r)
    PROVE  /\ queue' \in Seq(Request) /\ Distinct(queue')
           /\ Elements(queue') \subseteq Elements(queue) /\ r \notin Elements(queue')
           /\ cur = None /\ phase = "idle"
           /\ out[r] = "pending" /\ ready[r] = "unset" /\ sentTo[r] = None
           /\ \A q \in Request : out[q] = "uncalled" => q # r
<1>1. queue \in Seq(Request) /\ queue # <<>> /\ r = Head(queue) /\ queue' = Tail(queue)
  BY DEF TurnStarts, IInv, TypeOK
<1>2. Distinct(queue) /\ r \in Elements(queue)
  BY <1>1, Beheaded DEF IInv, Requests
<1>3. out[r] = "pending" /\ ready[r] = "unset" /\ sentTo[r] = None
  BY <1>2 DEF IInv, Requests
<1>4. cur = None /\ phase = "idle"
  BY DEF TurnStarts, IInv, TypeOK
<1> QED BY <1>1, <1>2, <1>3, <1>4, Beheaded

LEMMA TurnRefusedOwnershipOK ==
    ASSUME IInv, NEW r \in Request, TurnRefusedOwnership(r) PROVE IInv'
<1> USE Sorts DEF IInv, TurnRefusedOwnership, Settle
<1>0. /\ queue' \in Seq(Request) /\ Distinct(queue')
      /\ Elements(queue') \subseteq Elements(queue) /\ r \notin Elements(queue')
      /\ cur = None /\ phase = "idle"
      /\ out[r] = "pending" /\ ready[r] = "unset" /\ sentTo[r] = None
  BY TurnOf
<1>k. /\ os' \in [Worker -> {"unspawned", "booting", "serving", "killed", "exited", "reaped"}]
      /\ \A w \in Worker : os'[w] \in {"booting", "serving"} => ~owns /\ os'[w] = os[w]
  <2>1. CASE owns
    BY <2>1, Signalled DEF TypeOK, Workers, Alive
  <2>2. CASE ~owns
    BY <2>2 DEF TypeOK
  <2> QED BY <2>1, <2>2 DEF TypeOK
<1>1. TypeOK'
  BY <1>0, <1>k DEF TypeOK, Outcome, Refusal
<1>2. Requests'
  BY <1>0 DEF Requests, TypeOK
<1>3. Turns'
  BY <1>0 DEF Turns, TypeOK
<1>4. Effects'
  BY <1>0 DEF Effects, TypeOK, Refusal
<1>5. Workers'
  BY <1>0, <1>k DEF Workers, NoneAlive, Alive, TypeOK
<1> QED BY <1>1, <1>2, <1>3, <1>4, <1>5

LEMMA TurnRefusedDeadlineOK ==
    ASSUME IInv, NEW r \in Request, TurnRefusedDeadline(r) PROVE IInv'
<1> USE Sorts DEF IInv, TurnRefusedDeadline, Settle, osVars
<1>0. /\ queue' \in Seq(Request) /\ Distinct(queue')
      /\ Elements(queue') \subseteq Elements(queue) /\ r \notin Elements(queue')
      /\ cur = None /\ phase = "idle"
      /\ out[r] = "pending" /\ ready[r] = "unset" /\ sentTo[r] = None
  BY TurnOf
<1>1. TypeOK'
  BY <1>0 DEF TypeOK, Outcome, Refusal
<1>2. Requests'
  BY <1>0 DEF Requests, TypeOK
<1>3. Turns'
  BY <1>0 DEF Turns, TypeOK
<1>4. Effects'
  BY <1>0 DEF Effects, TypeOK, Refusal
<1>5. Workers'
  BY <1>0 DEF Workers, NoneAlive, Alive, TypeOK
<1> QED BY <1>1, <1>2, <1>3, <1>4, <1>5

\* A message is written to a worker; the current request is sent nowhere else.
LEMMA Written ==
    ASSUME IInv, NEW r \in Request, Send(r), child \in Worker, sentTo[r] = None,
           out[r] = "pending", UNCHANGED <<executed, out, child, poisoned>>
    PROVE  /\ inbox' \in [Worker -> Seq(Request)]
           /\ sentTo' \in [Request -> Worker \cup {None}]
           /\ Effects'
<1> USE Sorts DEF IInv
<1>1. /\ inbox' \in [Worker -> Seq(Request)]
      /\ \A w \in Worker \ {child} : inbox'[w] = inbox[w]
      /\ Len(inbox'[child]) = Len(inbox[child]) + 1 /\ Len(inbox[child]) \in Nat
      /\ inbox'[child][Len(inbox[child]) + 1] = r
      /\ \A k \in 1..Len(inbox[child]) : inbox'[child][k] = inbox[child][k]
  <2>1. inbox[child] \in Seq(Request)
    BY DEF TypeOK
  <2> QED BY <2>1, AppendProperties DEF TypeOK, Send
<1>2. sentTo' = [sentTo EXCEPT ![r] = child] /\ sentTo' \in [Request -> Worker \cup {None}]
  BY DEF Send, TypeOK
<1>3. \A w \in Worker : \A k \in 1..Len(inbox'[w]) : sentTo'[inbox'[w][k]] = w
  <2> SUFFICES ASSUME NEW w \in Worker, NEW k \in 1..Len(inbox'[w])
               PROVE  sentTo'[inbox'[w][k]] = w
    OBVIOUS
  <2>1. CASE w = child /\ k = Len(inbox[child]) + 1
    BY <1>1, <1>2, <2>1 DEF TypeOK
  <2>2. CASE k \in 1..Len(inbox[w]) /\ inbox'[w][k] = inbox[w][k]
    <3>1. sentTo[inbox[w][k]] = w /\ inbox[w] \in Seq(Request)
      BY <2>2 DEF Effects, TypeOK
    <3>2. inbox[w][k] \in Request /\ inbox[w][k] # r
      BY <2>2, <3>1
    <3> QED BY <1>2, <2>2, <3>1, <3>2 DEF TypeOK
  <2>3. CASE w # child
    BY <1>1, <2>2, <2>3
  <2>4. CASE w = child /\ k # Len(inbox[child]) + 1
    BY <1>1, <2>2, <2>4
  <2> QED BY <2>1, <2>3, <2>4
<1>4. \A q \in executed : sentTo'[q] # None
  BY <1>2 DEF Effects, TypeOK
<1>5. \A q \in Mutation : out[q] \in Refusal => sentTo'[q] = None
  BY <1>2 DEF Effects, TypeOK, Refusal
<1>6. \A q \in Mutation : out[q] = "unknown" /\ sentTo'[q] = child => poisoned
  BY <1>2 DEF Effects, TypeOK
<1>7. Effects'
  BY <1>3, <1>4, <1>5, <1>6 DEF Effects
<1> QED BY <1>1, <1>2, <1>7

LEMMA TurnReusesOK == ASSUME IInv, NEW r \in Request, TurnReuses(r) PROVE IInv'
<1> USE Sorts DEF IInv, TurnReuses, TurnAdmitted
<1>0. /\ queue' \in Seq(Request) /\ Distinct(queue')
      /\ Elements(queue') \subseteq Elements(queue) /\ r \notin Elements(queue')
      /\ cur = None /\ phase = "idle"
      /\ out[r] = "pending" /\ ready[r] = "unset" /\ sentTo[r] = None
  BY TurnOf
<1>i. /\ inbox' \in [Worker -> Seq(Request)] /\ child \in Worker
      /\ sentTo' \in [Request -> Worker \cup {None}] /\ Effects'
  BY <1>0, Written DEF TypeOK
<1>1. TypeOK'
  BY <1>0, <1>i DEF TypeOK, Send
<1>2. Requests'
  BY <1>0 DEF Requests, TypeOK, Send
<1>3. Turns'
  BY <1>0, <1>i DEF Turns, TypeOK, Send
<1>5. Workers'
  BY <1>0 DEF Workers, NoneAlive, Alive, TypeOK, Send
<1> QED BY <1>1, <1>2, <1>3, <1>i, <1>5

LEMMA TurnKillsPoisonedOK ==
    ASSUME IInv, NEW r \in Request, TurnKillsPoisoned(r) PROVE IInv'
<1> USE Sorts DEF IInv, TurnKillsPoisoned, TurnAdmitted
<1>0. /\ queue' \in Seq(Request) /\ Distinct(queue')
      /\ Elements(queue') \subseteq Elements(queue) /\ r \notin Elements(queue')
      /\ cur = None /\ phase = "idle"
      /\ out[r] = "pending" /\ ready[r] = "unset" /\ sentTo[r] = None
  BY TurnOf
<1>k. /\ os' \in [Worker -> {"unspawned", "booting", "serving", "killed", "exited", "reaped"}]
      /\ \A w \in Worker : os'[w] \notin {"booting", "serving"}
  BY Signalled DEF TypeOK, Workers, Alive
<1>1. TypeOK'
  BY <1>0, <1>k DEF TypeOK
<1>2. Requests'
  BY <1>0 DEF Requests, TypeOK
<1>3. Turns'
  BY <1>0 DEF Turns, TypeOK
<1>4. Effects'
  BY <1>0 DEF Effects, TypeOK, Refusal
<1>5. Workers'
  BY <1>0, <1>k DEF Workers, NoneAlive, Alive, TypeOK
<1> QED BY <1>1, <1>2, <1>3, <1>4, <1>5

\* A spawn, while nothing runs: in the turn of its request, or after the delay.
LEMMA Spawned ==
    ASSUME IInv, NEW r \in Request, Spawn(r, os), NoneAlive, ready[r] = "unset",
           sentTo[r] = None,
           UNCHANGED <<expired, out, sentTo, owns, lockMine, lostMidOp, closing, hostUp,
                       inbox, executed>>,
           poisoned' \in BOOLEAN,
           queue' \in Seq(Request), Distinct(queue'),
           Elements(queue') \subseteq Elements(queue), r \notin Elements(queue'),
           out[r] = "pending", phase \in {"idle", "respawning"}
    PROVE  IInv'
<1> USE Sorts DEF IInv, Spawn
<1>1. TypeOK'
  BY DEF TypeOK
<1>2. Requests'
  BY DEF Requests, TypeOK
<1>3. Turns'
  BY DEF Turns, TypeOK
<1>4. Effects'
  <2>1. \A q \in Request : sentTo[q] # r
    BY DEF Turns
  <2> QED BY <2>1 DEF Effects, TypeOK, Refusal
<1>5. Workers'
  <2>1. inbox[r] = <<>>
    <3>1. inbox[r] \in Seq(Request) /\ \A k \in 1..Len(inbox[r]) : inbox[r][k] \in Request
      BY DEF TypeOK
    <3>2. \A k \in 1..Len(inbox[r]) : sentTo[inbox[r][k]] = r
      BY DEF Effects
    <3>3. Len(inbox[r]) = 0
      BY <3>1, <3>2 DEF Turns
    <3> QED BY <3>1, <3>3, EmptySeq
  <2> QED BY <2>1 DEF Workers, NoneAlive, Alive, TypeOK
<1> QED BY <1>1, <1>2, <1>3, <1>4, <1>5

LEMMA TurnSpawnsOK == ASSUME IInv, NEW r \in Request, TurnSpawns(r) PROVE IInv'
<1>1. NoneAlive
  BY Sorts DEF TurnSpawns, IInv, Workers, NoneAlive
<1>2. TurnStarts(r)
  BY DEF TurnSpawns, TurnAdmitted
<1>3. poisoned' \in BOOLEAN
  BY DEF TurnSpawns, IInv, TypeOK
<1> QED BY <1>1, <1>2, <1>3, TurnOf, Spawned DEF TurnSpawns

LEMMA DelayEndsOK == ASSUME IInv, DelayEnds PROVE IInv'
<1>1. /\ phase = "respawning" /\ cur \in Request /\ NoneAlive
      /\ ready[cur] = "unset" /\ sentTo[cur] = None /\ out[cur] = "pending"
      /\ queue' = queue /\ queue \in Seq(Request) /\ Distinct(queue)
      /\ cur \notin Elements(queue) /\ poisoned' = FALSE
  BY Sorts DEF DelayEnds, IInv, TypeOK, Turns, Workers, Requests
<1> QED BY <1>1, Spawned DEF DelayEnds

\* A ready line resumes the request that spawned the worker.
LEMMA Resumed ==
    ASSUME IInv, NEW w \in Worker, ReadyResumes(w)
    PROVE  /\ w = cur /\ child = w /\ phase = "awaiting" /\ ready[w] = "armed"
           /\ sentTo[cur] = None /\ out[cur] = "pending" /\ cur \in Request
           /\ ready' = [ready EXCEPT ![w] = "resolved"]
           /\ inbox[w] = <<>>
<1>1. /\ w = cur /\ child = w /\ phase = "awaiting" /\ ready[w] = "armed"
      /\ sentTo[cur] = None /\ out[cur] = "pending" /\ cur \in Request
      /\ ready' = [ready EXCEPT ![w] = "resolved"]
  BY Sorts DEF ReadyResumes, IInv, Turns, Requests, TypeOK
<1>2. inbox[w] \in Seq(Request) /\ \A k \in 1..Len(inbox[w]) : inbox[w][k] \in Request
  BY DEF IInv, TypeOK
<1>3. \A k \in 1..Len(inbox[w]) : sentTo[inbox[w][k]] = w
  BY DEF IInv, Effects
<1>4. \A q \in Request : sentTo[q] # w
  BY <1>1, Sorts DEF IInv, Turns
<1>5. Len(inbox[w]) = 0
  BY <1>2, <1>3, <1>4
<1> QED BY <1>1, <1>2, <1>5, EmptySeq

\* The request in hand settles, or stays; whoever waits is not concerned.
LEMMA StillQueued ==
    ASSUME TypeOK, Requests, queue' = queue, sentTo' = sentTo,
           cur' \in {cur, None}, cur' # None => out'[cur] = "pending",
           \A q \in Request : q # cur => out'[q] = out[q],
           cur # None => out'[cur] # "uncalled",
           \A q \in Request : ready[q] = "unset" => ready'[q] = "unset"
    PROVE  Requests'
<1>1. Distinct(queue') /\ Elements(queue') = Elements(queue)
  BY DEF Requests
<1>2. \A r \in Elements(queue) : r \in Request
  BY DEF Elements, TypeOK
<1>3. \A r \in Elements(queue) : out'[r] = "pending" /\ r # cur'
  BY <1>2, Sorts DEF Requests, TypeOK
<1>4. ASSUME NEW r \in Request, out'[r] = "uncalled" \/ r \in Elements(queue)
      PROVE  ready'[r] = "unset" /\ sentTo[r] = None
  <2>1. r # cur
    BY <1>4, Sorts DEF Requests, TypeOK
  <2> QED BY <1>4, <2>1 DEF Requests
<1> QED BY <1>1, <1>3, <1>4 DEF Requests

LEMMA ReadyRefusedOwnershipOK ==
    ASSUME IInv, NEW w \in Worker, ReadyRefusedOwnership(w) PROVE IInv'
<1> USE Sorts DEF IInv, ReadyRefusedOwnership, Settle
<1>0. /\ w = cur /\ child = w /\ phase = "awaiting" /\ ready[w] = "armed"
      /\ sentTo[cur] = None /\ out[cur] = "pending" /\ cur \in Request
      /\ ready' = [ready EXCEPT ![w] = "resolved"]
      /\ inbox[w] = <<>>
  BY Resumed
<1>k. /\ os' \in [Worker -> {"unspawned", "booting", "serving", "killed", "exited", "reaped"}]
      /\ \A v \in Worker : os'[v] \in {"booting", "serving"} =>
           ~owns /\ v = w /\ os[w] \in {"booting", "serving"}
  <2>1. CASE owns
    BY <1>0, <2>1, Signalled DEF TypeOK, Workers, Alive
  <2>2. CASE ~owns
    BY <1>0, <2>2 DEF TypeOK, Serving, Workers, Alive
  <2> QED BY <2>1, <2>2 DEF TypeOK
<1>1. TypeOK'
  BY <1>0, <1>k DEF TypeOK, Outcome, Refusal
<1>2. Requests'
  <2>1. \A q \in Request : q # cur => out'[q] = out[q]
    BY <1>0 DEF TypeOK
  <2>2. \A q \in Request : ready[q] = "unset" => ready'[q] = "unset"
    BY <1>0 DEF TypeOK
  <2>3. out'[cur] # "uncalled"
    BY <1>0 DEF TypeOK
  <2> QED BY <1>0, <2>1, <2>2, <2>3, StillQueued
<1>3. Turns'
  BY <1>0 DEF Turns, TypeOK
<1>4. Effects'
  BY <1>0 DEF Effects, TypeOK, Refusal
<1>5. Workers'
  BY <1>0, <1>k DEF Workers, NoneAlive, Alive, TypeOK
<1> QED BY <1>1, <1>2, <1>3, <1>4, <1>5

LEMMA ReadyRefusedDeadlineOK ==
    ASSUME IInv, NEW w \in Worker, ReadyRefusedDeadline(w) PROVE IInv'
<1> USE Sorts DEF IInv, ReadyRefusedDeadline, Settle
<1>0. /\ w = cur /\ child = w /\ phase = "awaiting" /\ ready[w] = "armed"
      /\ sentTo[cur] = None /\ out[cur] = "pending" /\ cur \in Request
      /\ ready' = [ready EXCEPT ![w] = "resolved"]
      /\ inbox[w] = <<>>
  BY Resumed
<1>k. /\ os' \in [Worker -> {"unspawned", "booting", "serving", "killed", "exited", "reaped"}]
      /\ \A v \in Worker : os'[v] \in {"booting", "serving"} => os[v] \in {"booting", "serving"}
  BY DEF TypeOK, Serving
<1>1. TypeOK'
  BY <1>0, <1>k DEF TypeOK, Outcome, Refusal
<1>2. Requests'
  <2>1. \A q \in Request : q # cur => out'[q] = out[q]
    BY <1>0 DEF TypeOK
  <2>2. \A q \in Request : ready[q] = "unset" => ready'[q] = "unset"
    BY <1>0 DEF TypeOK
  <2>3. out'[cur] # "uncalled"
    BY <1>0 DEF TypeOK
  <2> QED BY <1>0, <2>1, <2>2, <2>3, StillQueued
<1>3. Turns'
  BY <1>0 DEF Turns, TypeOK
<1>4. Effects'
  BY <1>0 DEF Effects, TypeOK, Refusal
<1>5. Workers'
  BY <1>0, <1>k DEF Workers, NoneAlive, Alive, TypeOK
<1> QED BY <1>1, <1>2, <1>3, <1>4, <1>5

LEMMA ReadySendsOK == ASSUME IInv, NEW w \in Worker, ReadySends(w) PROVE IInv'
<1> USE Sorts DEF IInv, ReadySends
<1>0. /\ w = cur /\ child = w /\ phase = "awaiting" /\ ready[w] = "armed"
      /\ sentTo[cur] = None /\ out[cur] = "pending" /\ cur \in Request
      /\ ready' = [ready EXCEPT ![w] = "resolved"]
      /\ inbox[w] = <<>>
  BY Resumed
<1>i. /\ inbox' \in [Worker -> Seq(Request)]
      /\ sentTo' \in [Request -> Worker \cup {None}] /\ Effects'
  BY <1>0, Written DEF TypeOK
<1>k. /\ os' \in [Worker -> {"unspawned", "booting", "serving", "killed", "exited", "reaped"}]
      /\ \A v \in Worker : os'[v] \in {"booting", "serving"} => os[v] \in {"booting", "serving"}
  BY DEF TypeOK, Serving
<1>1. TypeOK'
  BY <1>0, <1>i, <1>k DEF TypeOK, Send
<1>2. Requests'
  BY <1>0 DEF Requests, TypeOK, Send
<1>3. Turns'
  BY <1>0, <1>i DEF Turns, TypeOK, Send
<1>5. Workers'
  BY <1>0, <1>k DEF Workers, NoneAlive, Alive, TypeOK, Send
<1> QED BY <1>1, <1>2, <1>3, <1>i, <1>5

LEMMA ReadyTimerFiresOK == ASSUME IInv, NEW w \in Worker, ReadyTimerFires(w) PROVE IInv'
<1> USE Sorts DEF IInv, ReadyTimerFires, Settle
<1>0. /\ w = cur /\ phase = "awaiting" /\ ready[w] = "armed" /\ child \in {w, None}
      /\ sentTo[cur] = None /\ out[cur] = "pending" /\ cur \in Request
      /\ ready' = [ready EXCEPT ![w] = "rejected"] /\ child' = None
      /\ \A q \in Request : sentTo[q] # w
  BY DEF Turns, Requests, TypeOK
<1>k. /\ os' \in [Worker -> {"unspawned", "booting", "serving", "killed", "exited", "reaped"}]
      /\ \A v \in Worker : os'[v] \notin {"booting", "serving"}
  BY <1>0, Signalled DEF TypeOK, Workers, Alive
<1>1. TypeOK'
  <2>1. out' \in [Request -> {"uncalled", "pending"} \cup Outcome]
    <3>1. out' = [out EXCEPT ![cur] = "unavailable"] /\ "unavailable" \in Outcome
      BY <1>0 DEF Outcome, Refusal
    <3>2. out \in [Request -> {"uncalled", "pending"} \cup Outcome]
      BY DEF TypeOK
    <3> HIDE DEF IInv, ReadyTimerFires, Settle
    <3> QED BY <3>1, <3>2
  <2>2. cur' = None /\ phase' = "idle" /\ child' = None
    BY <1>0
  <2>3. ready' \in [Worker -> {"unset", "armed", "resolved", "rejected"}]
    BY <1>0 DEF TypeOK
  <2>4. TypeOK /\ UNCHANGED <<queue, expired, sentTo, poisoned, owns, lockMine,
                              lostMidOp, closing, hostUp, inbox, executed>>
    OBVIOUS
  <2> HIDE DEF IInv, ReadyTimerFires, Settle
  <2> QED BY <1>k, <2>1, <2>2, <2>3, <2>4 DEF TypeOK
<1>2. Requests'
  <2>1. \A q \in Request : q # cur => out'[q] = out[q]
    BY <1>0 DEF TypeOK
  <2>2. \A q \in Request : ready[q] = "unset" => ready'[q] = "unset"
    BY <1>0 DEF TypeOK
  <2>3. out'[cur] # "uncalled"
    BY <1>0 DEF TypeOK
  <2> QED BY <1>0, <2>1, <2>2, <2>3, StillQueued
<1>3. Turns'
  BY <1>0 DEF Turns, TypeOK
<1>4. Effects'
  BY <1>0 DEF Effects, TypeOK, Refusal
<1>5. Workers'
  BY <1>0, <1>k DEF Workers, NoneAlive, Alive, TypeOK
<1> QED BY <1>1, <1>2, <1>3, <1>4, <1>5

LEMMA StaleExitEventOK == ASSUME IInv, NEW w \in Worker, StaleExitEvent(w) PROVE IInv'
<1> USE Sorts DEF IInv, StaleExitEvent, nodeVars
<1>1. TypeOK'
  BY DEF TypeOK
<1>2. Requests' /\ Turns' /\ Effects'
  BY DEF Requests, Turns, Effects
<1>3. Workers'
  BY DEF Workers, NoneAlive, Alive, TypeOK
<1> QED BY <1>1, <1>2, <1>3

LEMMA ExitEventOK == ASSUME IInv, NEW w \in Worker, ExitEvent(w) PROVE IInv'
<1> USE Sorts DEF IInv, ExitEvent
<1>0. child = w /\ child' = None /\ os[w] = "exited"
      /\ \A v \in Worker : os'[v] \notin {"booting", "serving"}
  BY DEF Workers, Alive, TypeOK
<1>r. /\ ready' \in [Worker -> {"unset", "armed", "resolved", "rejected"}]
      /\ \A v \in Worker : ready'[v] = ready[v] \/ (ready[v] = "armed" /\ ready'[v] = "rejected")
      /\ ready'[w] # "armed"
  BY DEF TypeOK
<1>a. \/ /\ phase \in {"inflight", "awaiting"} /\ cur \in Request
         /\ out' = [out EXCEPT ![cur] = out'[cur]] /\ cur' = None /\ phase' = "idle"
         /\ out'[cur] \in {"unknown", "unavailable"}
         /\ (out'[cur] = "unavailable" => cur \notin Mutation \/ sentTo[cur] = None)
      \/ phase \in {"idle", "respawning"} /\ UNCHANGED <<out, cur, phase>>
  BY DEF Settle, TypeOK, Turns
<1>1. TypeOK'
  <2>1. poisoned' \in BOOLEAN /\ os' \in
          [Worker -> {"unspawned", "booting", "serving", "killed", "exited", "reaped"}]
    BY DEF TypeOK
  <2>2. out' \in [Request -> {"uncalled", "pending"} \cup Outcome]
    BY <1>a DEF TypeOK, Outcome, Refusal
  <2>3. /\ cur' \in Request \cup {None} /\ phase' \in {"idle", "respawning", "awaiting", "inflight"}
        /\ (phase' = "idle") <=> (cur' = None)
    BY <1>a DEF TypeOK
  <2> QED BY <1>0, <1>r, <2>1, <2>2, <2>3 DEF TypeOK
<1>2. Requests'
  <2>1. \A q \in Request : q # cur => out'[q] = out[q]
    BY <1>a DEF TypeOK
  <2>2. \A q \in Request : ready[q] = "unset" => ready'[q] = "unset"
    BY <1>r
  <2>3. /\ cur' \in {cur, None} /\ (cur' # None => out'[cur] = "pending")
        /\ (cur # None => out'[cur] # "uncalled")
    BY <1>a DEF Requests, TypeOK
  <2> QED BY <2>1, <2>2, <2>3, StillQueued
<1>3. Turns'
  <2>1. \A v \in Worker : ready'[v] = "armed" => phase' = "awaiting" /\ v = cur'
    BY <1>a, <1>0, <1>r DEF Turns, TypeOK
  <2>2. \A q \in Request : sentTo[q] # None => ready'[sentTo[q]] = "resolved"
    BY <1>r DEF Turns, TypeOK
  <2> QED BY <1>0, <1>a, <1>r, <2>1, <2>2 DEF Turns, TypeOK
<1>4. Effects'
  BY <1>0, <1>a DEF Effects, TypeOK, Refusal
<1>5. Workers'
  BY <1>0 DEF Workers, NoneAlive, Alive
<1> QED BY <1>1, <1>2, <1>3, <1>4, <1>5

-----------------------------------------------------------------------------
\* A worker is done with its first operation.
LEMMA DoneWith ==
    ASSUME IInv, NEW w \in Worker, inbox[w] # <<>>,
           inbox' = [inbox EXCEPT ![w] = Tail(@)]
    PROVE  /\ inbox' \in [Worker -> Seq(Request)]
           /\ Head(inbox[w]) \in Request /\ sentTo[Head(inbox[w])] = w
           /\ \A v \in Worker : \A k \in 1..Len(inbox'[v]) : sentTo[inbox'[v][k]] = v
           /\ \A v \in Worker : inbox[v] = <<>> => inbox'[v] = <<>>
<1>1. inbox[w] \in Seq(Request) /\ inbox \in [Worker -> Seq(Request)]
  BY DEF IInv, TypeOK
<1>2. /\ Tail(inbox[w]) \in Seq(Request) /\ Head(inbox[w]) \in Request
      /\ Head(inbox[w]) = inbox[w][1] /\ Len(inbox[w]) \in Nat \ {0}
      /\ Len(Tail(inbox[w])) = Len(inbox[w]) - 1
      /\ \A k \in 1..Len(Tail(inbox[w])) : Tail(inbox[w])[k] = inbox[w][k + 1]
  BY <1>1, HeadTailProperties, EmptySeq
<1>3. \A v \in Worker : \A k \in 1..Len(inbox[v]) : sentTo[inbox[v][k]] = v
  BY DEF IInv, Effects
<1>4. \A k \in 1..Len(Tail(inbox[w])) : sentTo[Tail(inbox[w])[k]] = w
  <2>1. \A k \in 1..Len(Tail(inbox[w])) : k + 1 \in 1..Len(inbox[w])
    BY <1>2
  <2> QED BY <1>2, <1>3, <2>1
<1>5. 1 \in 1..Len(inbox[w])
  BY <1>2
<1>6. sentTo[Head(inbox[w])] = w
  BY <1>2, <1>3, <1>5
<1>7. \A v \in Worker : inbox'[v] = IF v = w THEN Tail(inbox[w]) ELSE inbox[v]
  BY <1>1
<1>8. inbox' \in [Worker -> Seq(Request)]
  BY <1>1, <1>2
<1> QED BY <1>2, <1>3, <1>4, <1>6, <1>7, <1>8

\* The operation in flight settles; if the lock was lost, its worker is killed.
LEMMA Finished ==
    ASSUME IInv, phase = "inflight",
           NEW result \in {"ok", "failed", "unknown", "clientDeadline"},
           Finish(result),
           result = "ok" => cur \in executed,
           result = "clientDeadline" => cur \notin Mutation,
           poisoned' \in BOOLEAN, poisoned => poisoned',
           result = "unknown" => poisoned',
           inbox' \in [Worker -> Seq(Request)],
           \A v \in Worker : \A k \in 1..Len(inbox'[v]) : sentTo[inbox'[v][k]] = v,
           UNCHANGED <<queue, expired, sentTo, child, ready, owns, lockMine,
                       lostMidOp, closing, hostUp, executed>>
    PROVE  IInv'
<1> USE Sorts DEF IInv, Finish, Settle
<1>0. /\ cur \in Request /\ sentTo[cur] # None /\ out[cur] = "pending"
      /\ \A v \in Worker : ready[v] # "armed"
      /\ out' = [out EXCEPT ![cur] = result] /\ cur' = None /\ phase' = "idle"
  BY DEF Turns, Requests, TypeOK
<1>k. /\ os' \in [Worker -> {"unspawned", "booting", "serving", "killed", "exited", "reaped"}]
      /\ \A v \in Worker : os'[v] \in {"booting", "serving"} =>
           ~lostMidOp /\ os[v] \in {"booting", "serving"}
  <2>1. CASE lostMidOp
    BY <2>1, Signalled DEF TypeOK, Workers, Alive
  <2>2. CASE ~lostMidOp
    BY <2>2 DEF TypeOK
  <2> QED BY <2>1, <2>2
<1>1. TypeOK'
  <2>1. out' \in [Request -> {"uncalled", "pending"} \cup Outcome]
    BY <1>0 DEF TypeOK, Outcome, Refusal
  <2> QED BY <1>0, <1>k, <2>1 DEF TypeOK
<1>2. Requests'
  <2>1. \A q \in Request : q # cur => out'[q] = out[q]
    BY <1>0 DEF TypeOK
  <2>2. out'[cur] # "uncalled"
    BY <1>0 DEF TypeOK
  <2> QED BY <1>0, <2>1, <2>2, StillQueued
<1>3. Turns'
  BY <1>0 DEF Turns, TypeOK
<1>4. Effects'
  <2>1. \A q \in Request : out'[q] = IF q = cur THEN result ELSE out[q]
    BY <1>0 DEF TypeOK
  <2>2. result \in Refusal => result = "clientDeadline"
    BY DEF Refusal
  <2> QED BY <1>0, <2>1, <2>2 DEF Effects
<1>5. Workers'
  BY <1>0, <1>k DEF Workers, NoneAlive, Alive, TypeOK
<1> QED BY <1>1, <1>2, <1>3, <1>4, <1>5

LEMMA DeadlineFiresOK == ASSUME IInv, DeadlineFires PROVE IInv'
<1>1. /\ \A v \in Worker : \A k \in 1..Len(inbox'[v]) : sentTo[inbox'[v][k]] = v
      /\ inbox' \in [Worker -> Seq(Request)]
  BY DEF DeadlineFires, IInv, Effects, TypeOK
<1>2. poisoned' \in BOOLEAN /\ (poisoned => poisoned') /\ (cur \in Mutation => poisoned')
  BY DEF DeadlineFires, IInv, TypeOK
<1>3. CASE cur \in Mutation
  BY <1>1, <1>2, <1>3, Finished DEF DeadlineFires
<1>4. CASE cur \notin Mutation
  BY <1>1, <1>2, <1>4, Finished DEF DeadlineFires
<1> QED BY <1>3, <1>4

LEMMA HeartbeatSeesLossOK == ASSUME IInv, HeartbeatSeesLoss PROVE IInv'
<1> USE DEF IInv, HeartbeatSeesLoss, osVars
<1>1. TypeOK'
  BY DEF TypeOK
<1>2. Requests' /\ Turns' /\ Effects'
  BY DEF Requests, Turns, Effects
<1>3. Workers'
  BY DEF Workers, NoneAlive, Alive
<1> QED BY <1>1, <1>2, <1>3

\* Nothing but the mailbox of one worker changes.
LEMMA MailboxOK ==
    ASSUME IInv, NEW w \in Worker, inbox[w] # <<>>,
           inbox' = [inbox EXCEPT ![w] = Tail(@)],
           UNCHANGED <<nodeVars, os, executed>>
    PROVE  IInv'
<1> USE DoneWith DEF IInv, nodeVars
<1>1. TypeOK'
  BY DEF TypeOK
<1>2. Requests' /\ Turns'
  BY DEF Requests, Turns
<1>3. Effects'
  BY DEF Effects
<1>4. Workers'
  BY DEF Workers, NoneAlive, Alive
<1> QED BY <1>1, <1>2, <1>3, <1>4

LEMMA AnswerOK ==
    ASSUME IInv, NEW w \in Worker, NEW result \in {"ok", "failed"}, Answer(w, result)
    PROVE  IInv'
<1>1. CASE child = w /\ phase = "inflight" /\ cur = Head(inbox[w])
  <2>1. Finish(result) /\ poisoned' = (poisoned \/ lostMidOp)
    BY <1>1 DEF Answer
  <2>2. poisoned' \in BOOLEAN /\ (poisoned => poisoned')
    BY <2>1 DEF IInv, TypeOK
  <2> QED BY <1>1, <2>1, <2>2, DoneWith, Finished DEF Answer
<1>2. CASE ~(child = w /\ phase = "inflight" /\ cur = Head(inbox[w]))
  BY <1>2, MailboxOK DEF Answer, nodeVars
<1> QED BY <1>1, <1>2

LEMMA DiscardsOK == ASSUME IInv, NEW w \in Worker, Discards(w) PROVE IInv'
  BY MailboxOK DEF Discards

LEMMA ExecuteOK == ASSUME IInv, NEW w \in Worker, Execute(w) PROVE IInv'
<1> USE DEF IInv, Execute, nodeVars
<1>0. Head(inbox[w]) \in Request /\ sentTo[Head(inbox[w])] = w
  <2>1. inbox[w] \in Seq(Request) /\ inbox[w] # <<>>
    BY DEF TypeOK
  <2>2. Head(inbox[w]) \in Request /\ Head(inbox[w]) = inbox[w][1] /\ 1 \in 1..Len(inbox[w])
    BY <2>1, HeadTailProperties, EmptySeq
  <2> QED BY <2>2 DEF Effects
<1>1. TypeOK'
  BY <1>0 DEF TypeOK
<1>2. Requests' /\ Turns'
  BY DEF Requests, Turns
<1>3. Effects'
  BY <1>0, Sorts DEF Effects
<1>4. Workers'
  BY DEF Workers, NoneAlive, Alive
<1> QED BY <1>1, <1>2, <1>3, <1>4

\* Nothing changes but the processes, and none of them starts.
LEMMA ProcessEndsOK ==
    ASSUME IInv, UNCHANGED <<nodeVars, inbox, executed>>,
           os' \in [Worker -> {"unspawned", "booting", "serving", "killed", "exited", "reaped"}],
           \A v \in Worker : os'[v] \in {"booting", "serving"} => os[v] \in {"booting", "serving"}
    PROVE  IInv'
<1> USE DEF IInv, nodeVars
<1>1. TypeOK'
  BY DEF TypeOK
<1>2. Requests' /\ Turns' /\ Effects'
  BY DEF Requests, Turns, Effects
<1>3. Workers'
  BY DEF Workers, NoneAlive, Alive
<1> QED BY <1>1, <1>2, <1>3

LEMMA DiesOK == ASSUME IInv, NEW w \in Worker, Dies(w) PROVE IInv'
<1>1. /\ os' \in [Worker -> {"unspawned", "booting", "serving", "killed", "exited", "reaped"}]
      /\ \A v \in Worker : os'[v] \in {"booting", "serving"} => os[v] \in {"booting", "serving"}
  BY DEF Dies, IInv, TypeOK
<1> QED BY <1>1, ProcessEndsOK DEF Dies

\* shutdown() kills the child; what it forgets and releases comes with that.
LEMMA Stopped ==
    ASSUME IInv, os' = AfterKill(child), child' \in {child, None},
           owns' \in BOOLEAN, lockMine' \in BOOLEAN,
           closing' \in {"open", "stopping", "closed"},
           UNCHANGED <<queue, cur, phase, expired, out, sentTo, ready, poisoned,
                       lostMidOp, hostUp, inbox, executed>>
    PROVE  IInv'
<1> USE Sorts DEF IInv
<1>k. /\ os' \in [Worker -> {"unspawned", "booting", "serving", "killed", "exited", "reaped"}]
      /\ \A v \in Worker : os'[v] \notin {"booting", "serving"}
  BY Signalled DEF TypeOK, Workers, Alive
<1>1. TypeOK'
  BY <1>k DEF TypeOK
<1>2. Requests' /\ Turns' /\ Effects'
  BY DEF Requests, Turns, Effects, TypeOK
<1>3. Workers'
  BY <1>k DEF Workers, NoneAlive, Alive
<1> QED BY <1>1, <1>2, <1>3

LEMMA StopKillsOK == ASSUME IInv, StopKills PROVE IInv'
<1>1. os' = AfterKill(child)
  BY DEF StopKills, AfterKill
<1>2. /\ child' \in {child, None} /\ owns' \in BOOLEAN /\ lockMine' \in BOOLEAN
      /\ closing' \in {"open", "stopping", "closed"}
  BY DEF StopKills, ReleaseOwnership, IInv, TypeOK
<1> QED BY <1>1, <1>2, Stopped DEF StopKills

LEMMA StopReleasesOK == ASSUME IInv, StopReleases PROVE IInv'
  BY Stopped DEF StopReleases, ReleaseOwnership

LEMMA StutterOK == ASSUME IInv, UNCHANGED vars PROVE IInv'
  BY DEF IInv, vars, nodeVars, osVars, TypeOK, Requests, Turns, Effects, Workers,
         NoneAlive, Alive

LEMMA IInvStep == IInv /\ [Next]_vars => IInv'
<1> SUFFICES ASSUME IInv, [Next]_vars PROVE IInv'
  OBVIOUS
<1>1. ASSUME NEW r \in Request, Call(r) \/ DeadlineNears(r) PROVE IInv'
  BY <1>1, CallOK, DeadlineNearsOK
<1>2. CASE LoseLock
  BY <1>2, LoseLockOK
<1>3. CASE Turn
  BY <1>3, TurnRefusedOwnershipOK, TurnRefusedDeadlineOK, TurnReusesOK,
     TurnKillsPoisonedOK, TurnSpawnsOK DEF Turn
<1>4. CASE DelayEnds
  BY <1>4, DelayEndsOK
<1>5. ASSUME NEW w \in Worker, ReadyLine(w) \/ ReadyTimerFires(w)
      PROVE  IInv'
  BY <1>5, ReadyRefusedOwnershipOK, ReadyRefusedDeadlineOK, ReadySendsOK,
     ReadyTimerFiresOK DEF ReadyLine
<1>6. ASSUME NEW w \in Worker, StaleExitEvent(w) \/ ExitEvent(w) PROVE IInv'
  BY <1>6, StaleExitEventOK, ExitEventOK
<1>7. ASSUME NEW w \in Worker, Answer(w, "ok") \/ Answer(w, "failed") PROVE IInv'
  BY <1>7, AnswerOK
<1>8. ASSUME NEW w \in Worker, Execute(w) \/ Discards(w) \/ Dies(w) PROVE IInv'
  BY <1>8, ExecuteOK, DiscardsOK, DiesOK
<1>9. CASE DeadlineFires \/ HeartbeatSeesLoss
  BY <1>9, DeadlineFiresOK, HeartbeatSeesLossOK
<1>10. CASE StopKills \/ StopReleases
  BY <1>10, StopKillsOK, StopReleasesOK
<1>11. CASE UNCHANGED vars
  BY <1>11, StutterOK
<1> QED BY <1>1, <1>2, <1>3, <1>4, <1>5, <1>6, <1>7, <1>8, <1>9, <1>10, <1>11 DEF Next

LEMMA Invariance == Spec => []IInv
  BY InitOK, IInvStep, PTL DEF Spec

-----------------------------------------------------------------------------
(* The theorems. *)

\* Types, and that run() is between two awaits exactly when it has a request.
THEOREM TypeCorrect == Spec => []TypeOK
<1>1. IInv => TypeOK
  BY DEF IInv
<1> QED BY <1>1, Invariance, PTL

\* What a caller is told is true: a mutation that was refused never reached a
\* worker, and a success is of an operation that took effect.
THEOREM OutcomesTrue == Spec => []OutcomesAreTrue
<1>1. IInv => OutcomesAreTrue
  <2> SUFFICES ASSUME IInv PROVE OutcomesAreTrue
    OBVIOUS
  <2>1. SuccessMeansEffect
    BY DEF IInv, Effects, SuccessMeansEffect
  <2>2. RefusalMeansNoEffect
    <3> SUFFICES ASSUME NEW r \in Mutation, out[r] \in Refusal
        PROVE  r \notin executed /\ \A w \in Worker : \A k \in DOMAIN inbox[w] : inbox[w][k] # r
      BY DEF RefusalMeansNoEffect
    <3>1. sentTo[r] = None
      BY DEF IInv, Effects
    <3>2. \A w \in Worker : DOMAIN inbox[w] = 1..Len(inbox[w])
      BY DEF IInv, TypeOK
    <3> QED BY <3>1, <3>2, Sorts DEF IInv, Effects
  <2> QED BY <2>1, <2>2 DEF OutcomesAreTrue
<1> QED BY <1>1, Invariance, PTL

\* No second live worker, however many were spawned, killed and replaced: a
\* worker that runs is the one the instance refers to.
THEOREM OneWorker == Spec => []OneLiveWorker
<1>1. IInv => OneLiveWorker
  BY DEF IInv, Workers, OneLiveWorker
<1> QED BY <1>1, Invariance, PTL

\* The ready fields that all spawns share are never mixed up.
THEOREM Readiness == Spec => []ReadinessIsReal
<1>1. IInv => ReadinessIsReal
  <2> SUFFICES ASSUME IInv PROVE ReadinessIsReal
    OBVIOUS
  <2>1. OneReadyTimer
    BY DEF IInv, Turns, OneReadyTimer
  <2>2. ReusedChildIsReady
    BY Sorts DEF IInv, Turns, TypeOK, ReusedChildIsReady
  <2>3. OnlyReadyWorkersServe
    BY DEF IInv, Turns, OnlyReadyWorkersServe
  <2> QED BY <2>1, <2>2, <2>3 DEF ReadinessIsReal
<1> QED BY <1>1, Invariance, PTL

-----------------------------------------------------------------------------
\* A step that sends a request sends it to a child that is not poisoned, with
\* the lock held and the deadline not too close.
LEMMA Sending ==
    ASSUME IInv, [Next]_vars, NEW r \in Request, sentTo[r] = None, sentTo'[r] # None
    PROVE  /\ owns /\ lockMine /\ r \notin expired
           /\ sentTo'[r] = child /\ child # None
           /\ \A q \in Mutation : ~(out[q] = "unknown" /\ sentTo[q] = child)
<1>1. sentTo' # sentTo
  OBVIOUS
<1>2. PICK q \in Request : TurnReuses(q) \/ ReadySends(q)
  BY <1>1, Sorts DEF Next, vars, nodeVars, osVars, Call, DeadlineNears, LoseLock, Turn,
     TurnRefusedOwnership, TurnRefusedDeadline, TurnKillsPoisoned, TurnSpawns, DelayEnds,
     ReadyLine, ReadyRefusedOwnership, ReadyRefusedDeadline, ReadyTimerFires,
     StaleExitEvent, ExitEvent, Answer, Execute, Discards, Dies, DeadlineFires,
     HeartbeatSeesLoss, StopKills, StopReleases
<1>3. CASE TurnReuses(q)
  <2>1. /\ owns /\ lockMine /\ q \notin expired /\ child # None /\ ~poisoned
        /\ sentTo' = [sentTo EXCEPT ![q] = child]
    BY <1>3 DEF TurnReuses, TurnAdmitted, Send
  <2>2. r = q /\ sentTo'[r] = child
    BY <2>1 DEF IInv, TypeOK
  <2> QED BY <2>1, <2>2 DEF IInv, Effects
<1>4. CASE ReadySends(q)
  <2>1. /\ q = cur /\ child = q /\ phase = "awaiting" /\ ready[q] = "armed"
    BY <1>4, Resumed, Sorts DEF ReadySends
  <2>2. /\ owns /\ lockMine /\ cur \notin expired
        /\ sentTo' = [sentTo EXCEPT ![cur] = child]
    BY <1>4 DEF ReadySends, Send
  <2>3. r = cur /\ sentTo'[r] = child
    BY <2>1, <2>2 DEF IInv, TypeOK
  <2>4. \A m \in Request : sentTo[m] # child
    BY <2>1, Sorts DEF IInv, Turns
  <2> QED BY <2>1, <2>2, <2>3, <2>4, Sorts
<1> QED BY <1>2, <1>3, <1>4

\* What admitted a request still holds when it is written to a worker.
THEOREM DispatchAdmitted == Spec => DispatchStillAdmitted
<1>1. IInv /\ [Next]_vars =>
        [\A r \in Request : sentTo[r] = None /\ sentTo'[r] # None =>
           owns /\ lockMine /\ r \notin expired]_vars
  BY Sending
<1> QED BY <1>1, Invariance, PTL DEF Spec, DispatchStillAdmitted

\* A worker with a mutation of unknown outcome is never sent another request.
THEOREM TaintedServesNothing == Spec => TaintedWorkerServesNothing
<1>1. IInv /\ [Next]_vars =>
        [\A r \in Request :
           sentTo[r] = None /\ sentTo'[r] # None => ~Tainted(sentTo'[r])]_vars
  BY Sending DEF Tainted
<1> QED BY <1>1, Invariance, PTL DEF Spec, TaintedWorkerServesNothing

\* After the instance knows of the loss only the operation in flight counts.
THEOREM NoEffect == Spec => NoEffectAfterLoss
<1>1. IInv /\ [Next]_vars => [executed' # executed => owns \/ phase = "inflight"]_vars
  <2> SUFFICES ASSUME IInv, [Next]_vars, executed' # executed PROVE owns \/ phase = "inflight"
    OBVIOUS
  <2>1. PICK w \in Worker : Execute(w)
    BY DEF Next, vars, nodeVars, osVars, Call, DeadlineNears, LoseLock, Turn,
       TurnRefusedOwnership, TurnRefusedDeadline, TurnKillsPoisoned, TurnSpawns,
       TurnReuses, DelayEnds, ReadyLine, ReadySends,
       ReadyRefusedOwnership, ReadyRefusedDeadline, ReadyTimerFires,
       StaleExitEvent, ExitEvent, Answer, Discards, Dies, DeadlineFires,
       HeartbeatSeesLoss, StopKills, StopReleases
  <2>2. Alive(w) /\ inbox[w] # <<>>
    BY <2>1 DEF Execute, Alive
  <2> QED BY <2>2 DEF IInv, Workers
<1> QED BY <1>1, Invariance, PTL DEF Spec, NoEffectAfterLoss
=============================================================================
