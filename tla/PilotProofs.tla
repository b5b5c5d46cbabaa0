------------------------------ MODULE PilotProofs -------------------------------
(***************************************************************************)
(* Machine-checked proofs about PilotServer and PilotBrowser, for any      *)
(* number of concurrent requests and any dataset names.                    *)
(*                                                                         *)
(* act() awaits between activating a graph and running it, so which graph  *)
(* a run hits is anybody's guess.  What carries the two deletion gates and *)
(* the separation of the stores is therefore not the graph but the request *)
(* itself: from mapActionInput on it has the sound body that was checked   *)
(* there, and its run is allowed what that body's action allows.           *)
(***************************************************************************)
EXTENDS PilotBrowser, FiniteSetTheorems, TLAPS

\* What mapActionInput lets through names datasets of its own domain, and a
\* confirmed deletion names what was typed.
SoundBody(b) ==
    /\ b \in Body
    /\ b.names \subseteq NamesOf(b.domain)
    /\ b.action = "forgetArmed" => armed /\ b.names = {b.confirm}

SlotOK(r) ==
    /\ r.pc = "received" => r \in [pc : {"received"}, body : Body]
    /\ r.pc \in {"mapped", "activated"} =>
         /\ r \in [pc : {"mapped", "activated"}, body : Body]
         /\ SoundBody(r.body)
    /\ r.pc = "running" =>
         /\ SoundBody(r.body)
         /\ r.allow => r.body.action = "forgetArmed"

RequestsSound ==
    /\ armed \in BOOLEAN
    /\ acts = [x \in Act |-> acts[x]]
    /\ \A x \in Act : SlotOK(acts[x])

\* Each shutdown releases the domains in order.
ReleasedInOrder ==
    /\ stop \in [{"graceful", "crash"} -> 0..3]
    /\ store \in [Domain -> {"free", "owned", "released"}]
    /\ \A k \in {"graceful", "crash"} :
         /\ stop[k] >= 2 /\ "a" \notin stubborn => store["a"] = "released"
         /\ stop[k] = 3 /\ "b" \notin stubborn => store["b"] = "released"

DataTyped == data \in [Domain -> SUBSET Names]

\* A body that mapActionInput lets through is sound.
LEMMA MappedIsSound ==
    ASSUME NEW b \in Body, Mapped(b), armed \in BOOLEAN
    PROVE  SoundBody(b)
<1>1. b.names \subseteq NamesOf(b.domain)
  BY DEF Mapped, NsOk
<1>2. ASSUME b.action = "forgetArmed" PROVE armed /\ b.names = {b.confirm}
  <2>1. armed /\ b.confirm \in b.names /\ Cardinality(b.names) = 1
    BY <1>2 DEF Mapped
  <2>2. b.names \in SUBSET Names
    BY DEF Body
  <2>3. IsFiniteSet(b.names)
    BY <2>2, NamesAssumption, FS_Subset
  <2>4. PICK n : b.names = {n}
    BY <2>1, <2>3, FS_Singleton
  <2> QED BY <2>1, <2>4
<1> QED BY <1>1, <1>2 DEF SoundBody

-----------------------------------------------------------------------------
(* The requests stay sound. *)

LEMMA RequestsSoundInit == Init => RequestsSound
  BY DEF Init, RequestsSound, SlotOK, Idle

\* Changing one slot to a sound one keeps all of them sound.
LEMMA OneSlot ==
    ASSUME RequestsSound, NEW x \in Act, NEW r, Set(x, r), UNCHANGED armed,
           SlotOK(r)
    PROVE  RequestsSound'
<1>1. acts' = [acts EXCEPT ![x] = r]
  BY DEF Set
<1>2. \A y \in Act : acts'[y] = IF y = x THEN r ELSE acts[y]
  BY <1>1 DEF RequestsSound
<1>3. \A s : SlotOK(s) => SlotOK(s)'
  BY DEF SlotOK, SoundBody
<1>4. \A y \in Act : SlotOK(acts'[y])
  BY <1>2 DEF RequestsSound
<1>5. \A y \in Act : SlotOK(acts[y])'
  BY <1>4 DEF SlotOK, SoundBody
<1> QED BY <1>1, <1>5 DEF RequestsSound

LEMMA RequestsSoundStep == RequestsSound /\ [Next]_vars => RequestsSound'
<1> SUFFICES ASSUME RequestsSound, [Next]_vars PROVE RequestsSound'
  OBVIOUS
<1>1. ASSUME UNCHANGED <<armed, acts>> PROVE RequestsSound'
  BY <1>1 DEF RequestsSound, SlotOK, SoundBody
<1>2. ASSUME NEW d \in Domain, BootDomain(d) PROVE RequestsSound'
  BY <1>1, <1>2 DEF BootDomain
<1>3. CASE BootFails \/ Shutdown \/ Uncaught
  BY <1>1, <1>3 DEF BootFails, Shutdown, Uncaught
<1>4. ASSUME NEW x \in Act, MapInput(x) PROVE RequestsSound'
  <2>1. acts[x].body \in Body
    BY <1>4 DEF MapInput, RequestsSound, SlotOK
  <2>2. CASE Mapped(acts[x].body)
    <3>1. SoundBody(acts[x].body)
      BY <2>1, <2>2, MappedIsSound DEF RequestsSound
    <3>2. acts[x] \in [pc : {"received"}, body : Body]
      BY <1>4 DEF MapInput, RequestsSound, SlotOK
    <3>3. SlotOK([acts[x] EXCEPT !.pc = "mapped"])
      BY <3>1, <3>2 DEF SlotOK
    <3> QED BY <1>4, <2>2, <3>3, OneSlot DEF MapInput, Elsewhere
  <2>3. CASE ~Mapped(acts[x].body)
    <3>1. SlotOK([pc |-> "answered", status |-> "refused", found |-> {}])
      BY DEF SlotOK
    <3> QED BY <1>4, <2>3, <3>1, OneSlot DEF MapInput, Elsewhere, Answer
  <2> QED BY <2>2, <2>3
<1>5. ASSUME NEW x \in Act, Activate(x) PROVE RequestsSound'
  <2>1. SlotOK([acts[x] EXCEPT !.pc = "activated"])
    BY <1>5 DEF Activate, RequestsSound, SlotOK
  <2> QED BY <1>5, <2>1, OneSlot DEF Activate, Elsewhere
<1>6. ASSUME NEW x \in Act, StartRun(x) PROVE RequestsSound'
  <2> DEFINE r == [pc |-> "running", body |-> acts[x].body,
                   graph |-> active[acts[x].body.domain],
                   allow |-> AllowsIrreversible(acts[x].body.action)]
  <2>1. SlotOK(r)
    BY <1>6 DEF StartRun, RequestsSound, SlotOK, AllowsIrreversible
  <2>2. Set(x, r) /\ UNCHANGED armed
    BY <1>6 DEF StartRun, Elsewhere
  <2> QED BY <2>1, <2>2, OneSlot
<1>7. ASSUME NEW x \in Act, RunEnds(x) PROVE RequestsSound'
  <2>1. \A status, found : SlotOK([pc |-> "answered", status |-> status, found |-> found])
    BY DEF SlotOK
  <2>2. \E status, found : Answer(x, status, found)
    BY <1>7 DEF RunEnds
  <2>3. UNCHANGED armed
    BY <1>7 DEF RunEnds
  <2> QED BY <2>1, <2>2, <2>3, OneSlot DEF Answer
<1>8. ASSUME NEW x \in Act, Collect(x) PROVE RequestsSound'
  <2>1. SlotOK(Idle)
    BY DEF SlotOK, Idle
  <2> QED BY <1>8, <2>1, OneSlot DEF Collect, Elsewhere
<1>9. ASSUME NEW x \in Act, NEW body \in Bodies, Receive(x, body) PROVE RequestsSound'
  <2>1. SlotOK([pc |-> "received", body |-> body])
    BY BodiesAssumption DEF SlotOK
  <2> QED BY <1>9, <2>1, OneSlot DEF Receive, Elsewhere
<1>10. ASSUME NEW k \in {"graceful", "crash"}, End(k) PROVE RequestsSound'
  BY <1>1, <1>10 DEF End, Release, Exit
<1>11. CASE UNCHANGED vars
  BY <1>1, <1>11 DEF vars
<1> QED
  BY <1>2, <1>3, <1>4, <1>5, <1>6, <1>7, <1>8, <1>9, <1>10, <1>11
     DEF Next, ServerNext, Serve

-----------------------------------------------------------------------------
(* The stores. *)

\* The only step that touches a store or deletes is the end of a run.
LEMMA OnlyRunsTouchStores ==
    ASSUME [Next]_vars
    PROVE  \/ \E x \in Act : RunEnds(x)
           \/ UNCHANGED <<data, deletions>>
<1>1. CASE UNCHANGED vars
  BY <1>1 DEF vars
<1>2. CASE Next
  BY <1>2 DEF Next, ServerNext, Serve, End, BootDomain, BootFails, Shutdown, Uncaught,
     MapInput, Activate, StartRun, Collect, Receive, Release, Exit, Elsewhere
<1> QED BY <1>1, <1>2

LEMMA ArmedForGood == [Next]_vars => armed' = armed
<1>1. CASE UNCHANGED vars
  BY <1>1 DEF vars
<1>2. CASE Next
  BY <1>2 DEF Next, ServerNext, Serve, End, BootDomain, BootFails, Shutdown, Uncaught,
     MapInput, Activate, StartRun, RunEnds, Collect, Receive, Release, Exit, Elsewhere
<1> QED BY <1>1, <1>2

\* The run of whatever graph adds at most the names of a request that was checked
\* against its own domain.
LEMMA StoresApartStep ==
    ASSUME RequestsSound, DataTyped, StoresStayApart, [Next]_vars
    PROVE  DataTyped' /\ StoresStayApart'
<1>1. ASSUME NEW x \in Act, RunEnds(x) PROVE DataTyped' /\ StoresStayApart'
  <2> DEFINE r == acts[x]  d == r.body.domain
  <2>1. d \in Domain /\ r.body.names \subseteq NamesOf(d) /\ r.body.names \subseteq Names
    BY <1>1 DEF RunEnds, RequestsSound, SlotOK, SoundBody, Body
  <2>2. \/ data' = data
        \/ data' = [data EXCEPT ![d] = @ \cup r.body.names]
        \/ data' = [data EXCEPT ![d] = @ \ r.body.names]
    BY <1>1 DEF RunEnds, DataTyped
  <2> QED BY <2>1, <2>2 DEF DataTyped, StoresStayApart, NamesOf
<1>2. CASE UNCHANGED <<data, deletions>>
  BY <1>2 DEF DataTyped, StoresStayApart, NamesOf
<1> QED BY <1>1, <1>2, OnlyRunsTouchStores

\* A deletion is of a request that is allowed it, and so was confirmed.
LEMMA RunDeletesConfirmed ==
    ASSUME RequestsSound, NEW x \in Act, RunEnds(x)
    PROVE  \/ UNCHANGED deletions
           \/ LET b == acts[x].body
              IN  /\ deletions' = deletions \cup {b}
                  /\ SoundBody(b) /\ b.action = "forgetArmed"
                  /\ "cognee.delete" \in Grants(b.domain)
<1> DEFINE r == acts[x]
<1>1. SoundBody(r.body) /\ (r.allow => r.body.action = "forgetArmed")
  BY DEF RunEnds, RequestsSound, SlotOK
<1>2. CASE r.graph = "forget" /\ Permitted(x) /\ deletions' = deletions \cup {r.body}
  <2>1. r.allow /\ "cognee.delete" \in Grants(r.body.domain)
    BY <1>2 DEF Permitted
  <2> QED BY <1>1, <1>2, <2>1
<1>3. CASE UNCHANGED deletions
  BY <1>3
<1> QED BY <1>2, <1>3 DEF RunEnds

LEMMA ConfirmedStep ==
    ASSUME RequestsSound, DeletionWasConfirmed, [Next]_vars
    PROVE  DeletionWasConfirmed'
<1>1. UNCHANGED armed
  BY ArmedForGood
<1>2. ASSUME NEW x \in Act, RunEnds(x) PROVE DeletionWasConfirmed'
  BY <1>1, <1>2, RunDeletesConfirmed DEF DeletionWasConfirmed, SoundBody
<1>3. CASE UNCHANGED <<data, deletions>>
  BY <1>1, <1>3 DEF DeletionWasConfirmed
<1> QED BY <1>2, <1>3, OnlyRunsTouchStores

\* Stores hold datasets of their own domain only.
THEOREM StoresSeparate == Spec => []StoresStayApart
<1> DEFINE Inv == RequestsSound /\ DataTyped /\ StoresStayApart
<1>1. Init => Inv
  BY RequestsSoundInit DEF Init, DataTyped, StoresStayApart, NamesOf, Domain
<1>2. Inv /\ [Next]_vars => Inv'
  BY RequestsSoundStep, StoresApartStep
<1>3. Inv => StoresStayApart
  OBVIOUS
<1> QED BY <1>1, <1>2, <1>3, PTL DEF Spec

\* Every deletion was confirmed and permitted, whatever graph it came through.
THEOREM DeletionsConfirmed == Spec => []DeletionWasConfirmed
<1> DEFINE Inv == RequestsSound /\ DeletionWasConfirmed
<1>1. Init => Inv
  BY RequestsSoundInit DEF Init, DeletionWasConfirmed
<1>2. Inv /\ [Next]_vars => Inv'
  BY RequestsSoundStep, ConfirmedStep
<1>3. Inv => DeletionWasConfirmed
  OBVIOUS
<1> QED BY <1>1, <1>2, <1>3, PTL DEF Spec

-----------------------------------------------------------------------------
(* The end. *)

\* After a shutdown, graceful or by an exception in whatever state, only locks
\* whose own release failed stay behind.
THEOREM ShutdownReleasesLocks == Spec => []ShutdownSparesNoLock
<1>1. Init => ReleasedInOrder
  BY DEF Init, ReleasedInOrder, Domain
<1>2. ReleasedInOrder /\ [Next]_vars => ReleasedInOrder'
  <2> SUFFICES ASSUME ReleasedInOrder, [Next]_vars PROVE ReleasedInOrder'
    OBVIOUS
  <2> USE DEF ReleasedInOrder, Domain
  <2>1. ASSUME UNCHANGED <<store, stubborn, stop>> PROVE ReleasedInOrder'
    BY <2>1
  <2>2. ASSUME NEW d \in Domain, BootDomain(d) PROVE ReleasedInOrder'
    BY <2>2 DEF BootDomain
  <2>3. CASE BootFails
    BY <2>1, <2>3 DEF BootFails
  <2>4. CASE Shutdown \/ Uncaught
    BY <2>4 DEF Shutdown, Uncaught
  <2>5. ASSUME NEW x \in Act, Serve(x) PROVE ReleasedInOrder'
    BY <2>1, <2>5 DEF Serve, MapInput, Activate, StartRun, RunEnds, Elsewhere, process
  <2>6. ASSUME NEW x \in Act, Collect(x) \/ \E body \in Bodies : Receive(x, body)
        PROVE ReleasedInOrder'
    BY <2>1, <2>6 DEF Collect, Receive, Elsewhere, process
  <2>7. ASSUME NEW k \in {"graceful", "crash"}, Release(k) PROVE ReleasedInOrder'
    <3>1. CASE stop[k] = 1
      BY <2>7, <3>1 DEF Release, Released, Order
    <3>2. CASE stop[k] = 2
      BY <2>7, <3>2 DEF Release, Released, Order
    <3> QED BY <2>7, <3>1, <3>2 DEF Release
  <2>8. ASSUME NEW k \in {"graceful", "crash"}, Exit(k) PROVE ReleasedInOrder'
    BY <2>1, <2>8 DEF Exit
  <2>9. CASE UNCHANGED vars
    BY <2>1, <2>9 DEF vars, process
  <2> QED
    BY <2>2, <2>3, <2>4, <2>5, <2>6, <2>7, <2>8, <2>9 DEF Next, ServerNext, End
<1>3. ReleasedInOrder => ShutdownSparesNoLock
  BY DEF ReleasedInOrder, ShutdownSparesNoLock, Domain
<1> QED BY <1>1, <1>2, <1>3, PTL DEF Spec

-----------------------------------------------------------------------------
(* The page. *)

\* A handler that waits knows what its request said: a body that may delete was
\* meant, an answer to it is of its domain.
Handler == [domain : Domain, action : Action, names : SUBSET Names]
HandlerOK(x) ==
    LET r == acts[x]
    IN  /\ r.pc # "idle" => sent[x] \in Handler
        /\ r.pc \in {"received", "mapped", "activated", "running"} =>
             /\ r.body.domain = sent[x].domain /\ r.body.names = sent[x].names
             /\ r.body.action = "forgetArmed" /\ r.body.names = {r.body.confirm} =>
                  \A n \in r.body.names : <<x, r.body.domain, n>> \in meant
        /\ r.pc = "answered" =>
             /\ r.found \subseteq NamesOf(sent[x].domain)
             /\ r.status = "completed" => sent[x].names \subseteq NamesOf(sent[x].domain)

HandlersOK == sent = [x \in Act |-> sent[x]] /\ \A x \in Act : HandlerOK(x)

PageTyped ==
    /\ tab \in Domain /\ selected \subseteq Names
    /\ newest \in Act \cup {"shown", "overtaken"}

\* The latest status request is of the tab in front, and so is its answer.
NewestIsOwn ==
    /\ newest \in Act =>
         /\ acts[newest].pc # "idle"
         /\ sent[newest].action = "status" /\ sent[newest].domain = tab
    /\ newest = "shown" => shown \subseteq NamesOf(tab)

ServerInv == RequestsSound /\ DataTyped /\ StoresStayApart
PageInv ==
    /\ HandlersOK /\ PageTyped /\ NewestIsOwn /\ CandidatesStayApart
BInv == ServerInv /\ PageInv

LEMMA BInitOK == BInit => BInv
<1> SUFFICES ASSUME BInit PROVE BInv
  OBVIOUS
<1>1. RequestsSound
  BY DEF BInit, RequestsSound, SlotOK, Idle
<1>2. DataTyped /\ StoresStayApart
  BY DEF BInit, DataTyped, StoresStayApart, NamesOf
<1>3. HandlersOK
  BY DEF BInit, PageInit, HandlersOK, HandlerOK, Idle
<1>4. PageTyped /\ NewestIsOwn /\ CandidatesStayApart
  BY ActAssumption DEF BInit, PageInit, PageTyped, NewestIsOwn, CandidatesStayApart, Domain
<1> QED BY <1>1, <1>2, <1>3, <1>4 DEF BInv, ServerInv, PageInv

\* The server serves a request that the page waits for.
LEMMA ServeOK ==
    ASSUME BInv, NEW x \in Act, Serve(x), UNCHANGED <<page, sent>>
    PROVE  BInv'
<1> USE DEF BInv, ServerInv, PageInv
<1>1. [Next]_vars
  BY DEF Next, ServerNext
<1>2. ServerInv'
  BY <1>1, RequestsSoundStep, StoresApartStep
<1>3. /\ \E r : /\ acts' = [acts EXCEPT ![x] = r] /\ r.pc # "idle" /\ acts[x].pc # "idle"
                /\ r.pc \in {"received", "mapped", "activated", "running"} =>
                     /\ acts[x].pc \in {"received", "mapped", "activated", "running"}
                     /\ r.body = acts[x].body
                /\ r.pc = "answered" =>
                     /\ r.found \subseteq NamesOf(sent[x].domain)
                     /\ r.status = "completed" => sent[x].names \subseteq NamesOf(sent[x].domain)
  <2>1. CASE MapInput(x)
    <3>1. acts[x] \in [pc : {"received"}, body : Body]
      BY <2>1 DEF MapInput, RequestsSound, SlotOK
    <3>2. CASE Set(x, [acts[x] EXCEPT !.pc = "mapped"])
      <4> DEFINE r == [acts[x] EXCEPT !.pc = "mapped"]
      <4>1. r.pc = "mapped" /\ r.body = acts[x].body /\ acts[x].pc = "received"
        BY <3>1
      <4>2. acts' = [acts EXCEPT ![x] = r]
        BY <3>2 DEF Set
      <4> HIDE DEF r
      <4> QED BY <4>1, <4>2
    <3>3. CASE Answer(x, "refused", {})
      <4> DEFINE r == [pc |-> "answered", status |-> "refused", found |-> {}]
      <4>1. r.pc = "answered" /\ r.status = "refused" /\ r.found = {} /\ acts[x].pc = "received"
        BY <3>1
      <4>2. acts' = [acts EXCEPT ![x] = r]
        BY <3>3 DEF Answer, Set
      <4> HIDE DEF r
      <4> QED BY <4>1, <4>2
    <3> QED BY <2>1, <3>2, <3>3 DEF MapInput
  <2>2. CASE Activate(x)
    <3>1. acts[x] \in [pc : {"mapped", "activated"}, body : Body]
      BY <2>2 DEF Activate, RequestsSound, SlotOK
    <3> DEFINE r == [acts[x] EXCEPT !.pc = "activated"]
    <3>2. r.pc = "activated" /\ r.body = acts[x].body /\ acts[x].pc = "mapped"
      BY <2>2, <3>1 DEF Activate
    <3>3. acts' = [acts EXCEPT ![x] = r]
      BY <2>2 DEF Activate, Set
    <3> HIDE DEF r
    <3> QED BY <3>2, <3>3
  <2>3. CASE StartRun(x)
    <3> DEFINE r == [pc |-> "running", body |-> acts[x].body,
                     graph |-> active[acts[x].body.domain],
                     allow |-> AllowsIrreversible(acts[x].body.action)]
    <3>1. acts' = [acts EXCEPT ![x] = r] /\ acts[x].pc = "activated"
      BY <2>3 DEF StartRun, Set
    <3>2. r.pc = "running" /\ r.body = acts[x].body
      OBVIOUS
    <3> HIDE DEF r
    <3> QED BY <3>1, <3>2
  <2>4. CASE RunEnds(x)
    <3>1. /\ acts[x].pc = "running" /\ acts[x].body.domain = sent[x].domain
          /\ acts[x].body.names = sent[x].names /\ SoundBody(acts[x].body)
          /\ sent[x].names \subseteq NamesOf(sent[x].domain)
      BY <2>4 DEF RunEnds, HandlersOK, HandlerOK, RequestsSound, SlotOK, SoundBody
    <3>2. data[sent[x].domain] \subseteq NamesOf(sent[x].domain)
      BY <3>1 DEF StoresStayApart, SoundBody, Body
    <3>3. PICK status, found : Answer(x, status, found) /\ found \in {{}, data[sent[x].domain]}
      BY <2>4, <3>1 DEF RunEnds
    <3> DEFINE r == [pc |-> "answered", status |-> status, found |-> found]
    <3>4. r.pc = "answered" /\ r.found \subseteq NamesOf(sent[x].domain)
      BY <3>2, <3>3
    <3>5. acts' = [acts EXCEPT ![x] = r]
      BY <3>3 DEF Answer, Set
    <3> HIDE DEF r
    <3> QED BY <3>1, <3>4, <3>5
  <2> QED BY <2>1, <2>2, <2>3, <2>4 DEF Serve
<1>4. /\ \A y \in Act : y # x => acts'[y] = acts[y]
      /\ acts[x].pc # "idle" /\ acts'[x].pc # "idle"
  BY <1>3 DEF RequestsSound
<1>5. HandlersOK'
  <2>1. HandlerOK(x)'
    BY <1>3 DEF RequestsSound, HandlersOK, HandlerOK, page, NamesOf
  <2>2. ASSUME NEW y \in Act, y # x PROVE HandlerOK(y)'
    BY <1>4, <2>2 DEF HandlersOK, HandlerOK, page, NamesOf
  <2> QED BY <2>1, <2>2 DEF HandlersOK
<1>6. (PageTyped /\ NewestIsOwn /\ CandidatesStayApart)'
  BY <1>4 DEF PageTyped, NewestIsOwn, CandidatesStayApart, page, NamesOf, Domain
<1> QED BY <1>2, <1>5, <1>6

\* The server's part is not touched by what the page does, but for one request.
LEMMA ServerKept ==
    ASSUME ServerInv, UNCHANGED <<armed, data>>,
           \/ UNCHANGED acts
           \/ \E x \in Act : Set(x, Idle)
           \/ \E x \in Act, body \in Body : Set(x, [pc |-> "received", body |-> body])
    PROVE  ServerInv'
<1> USE DEF ServerInv
<1>1. DataTyped' /\ StoresStayApart'
  BY DEF DataTyped, StoresStayApart, NamesOf
<1>2. CASE UNCHANGED acts
  BY <1>1, <1>2 DEF RequestsSound, SlotOK, SoundBody, NamesOf
<1>3. ASSUME NEW x \in Act, Set(x, Idle) PROVE RequestsSound'
  <2>1. SlotOK(Idle)
    BY DEF SlotOK, Idle
  <2> QED BY <1>3, <2>1, OneSlot
<1>4. ASSUME NEW x \in Act, NEW body \in Body, Set(x, [pc |-> "received", body |-> body])
      PROVE  RequestsSound'
  <2>1. SlotOK([pc |-> "received", body |-> body])
    BY DEF SlotOK
  <2> QED BY <1>4, <2>1, OneSlot
<1> QED BY <1>1, <1>2, <1>3, <1>4

\* Handlers of other requests are not concerned, nor what was confirmed for them.
LEMMA OtherHandlers ==
    ASSUME NEW x \in Act, RequestsSound, HandlersOK,
           NEW r, acts' = [acts EXCEPT ![x] = r], NEW h, sent' = [sent EXCEPT ![x] = h],
           \A m \in meant : m[1] # x => m \in meant', HandlerOK(x)'
    PROVE  HandlersOK'
<1>1. ASSUME NEW y \in Act, y # x PROVE HandlerOK(y)'
  <2>1. acts'[y] = acts[y] /\ sent'[y] = sent[y]
    BY <1>1 DEF RequestsSound, HandlersOK
  <2> QED BY <2>1 DEF HandlersOK, HandlerOK, NamesOf
<1>2. sent' = [y \in Act |-> sent'[y]]
  BY DEF HandlersOK
<1> QED BY <1>1, <1>2 DEF HandlersOK

\* A request leaves the page: its body says what its handler knows, and a
\* deletion that it may confirm is meant.
LEMMA RequestOK ==
    ASSUME BInv, NEW x \in Act, NEW d \in Domain, NEW action \in Action,
           NEW names \in SUBSET Names, NEW confirm \in Names \cup {NoName},
           Request(x, d, action, names, confirm),
           meant \subseteq meant',
           action = "forgetArmed" /\ names = {confirm} =>
             \A n \in names : <<x, d, n>> \in meant'
    PROVE  ServerInv' /\ HandlersOK' /\ UNCHANGED deletions
<1> USE DEF BInv, ServerInv, PageInv
<1> DEFINE body == [domain |-> d, action |-> action, names |-> names,
                    confirm |-> confirm, valid |-> TRUE]
           r == [pc |-> "received", body |-> body]
           h == [domain |-> d, action |-> action, names |-> names]
<1>1. /\ body \in Body /\ h \in Handler
      /\ body.domain = d /\ body.action = action /\ body.names = names /\ body.confirm = confirm
      /\ h.domain = d /\ h.names = names
  BY DEF Body, Handler
<1>2. acts' = [acts EXCEPT ![x] = r] /\ sent' = [sent EXCEPT ![x] = h] /\ Set(x, r)
      /\ UNCHANGED <<armed, data, deletions>>
  BY DEF Request, Receive, Set, Elsewhere
<1>3. r.pc = "received" /\ r.body = body
  OBVIOUS
<1> HIDE DEF body, h
<1>4. ServerInv'
  BY <1>1, <1>2, ServerKept
<1> HIDE DEF r
<1>5. acts'[x] = r /\ sent'[x] = h
  BY <1>2 DEF RequestsSound, HandlersOK
<1>6. HandlerOK(x)'
  BY <1>1, <1>3, <1>5 DEF HandlerOK
<1> QED BY <1>2, <1>4, <1>6, OtherHandlers

\* A request that waits was not the one that is sent now, and what is newest
\* afterwards is of the tab.
LEMMA NewestAfterRequest ==
    ASSUME BInv, NEW x \in Act, NEW d \in Domain, NEW action, NEW names, NEW confirm,
           Request(x, d, action, names, confirm), UNCHANGED shown,
           action = "status" => d = tab', action # "status" => UNCHANGED tab
    PROVE  NewestIsOwn' /\ newest' \in Act \cup {"shown", "overtaken"}
<1> USE DEF BInv, ServerInv, PageInv
<1>1. /\ acts[x] = Idle /\ acts' = [acts EXCEPT ![x] = acts'[x]] /\ acts'[x].pc = "received"
      /\ sent' = [sent EXCEPT ![x] = [domain |-> d, action |-> action, names |-> names]]
      /\ newest' = IF action = "status" THEN x ELSE newest
  BY DEF Request, Receive, Set, RequestsSound
<1>2. CASE action = "status"
  <2>1. newest' = x /\ sent'[x].domain = tab' /\ sent'[x].action = "status"
    BY <1>1, <1>2 DEF HandlersOK
  <2> QED BY <1>1, <2>1, ActAssumption DEF NewestIsOwn
<1>3. CASE action # "status"
  <2>1. newest' = newest /\ tab' = tab
    BY <1>1, <1>3
  <2>2. newest \in Act => newest # x
    BY <1>1 DEF NewestIsOwn, Idle
  <2>3. \A y \in Act : y # x => acts'[y] = acts[y] /\ sent'[y] = sent[y]
    BY <1>1 DEF RequestsSound, HandlersOK
  <2> QED BY <2>1, <2>2, <2>3 DEF NewestIsOwn, NamesOf, PageTyped
<1> QED BY <1>2, <1>3

LEMMA SetDomainOK == ASSUME BInv, NEW x \in Act, NEW d \in Domain, SetDomain(x, d) PROVE BInv'
<1>1. /\ Request(x, d, "status", {}, NoName) /\ tab' = d /\ selected' = {} /\ candidates' = {}
      /\ UNCHANGED <<picker, shown, meant>>
  BY DEF SetDomain
<1>2. ServerInv' /\ HandlersOK' /\ UNCHANGED deletions
  BY <1>1, RequestOK DEF Action
<1>3. NewestIsOwn' /\ newest' \in Act \cup {"shown", "overtaken"}
  BY <1>1, NewestAfterRequest
<1>4. PageTyped' /\ CandidatesStayApart'
  BY <1>1, <1>2, <1>3 DEF BInv, PageInv, PageTyped, CandidatesStayApart, Domain
<1> QED BY <1>2, <1>3, <1>4 DEF BInv, PageInv

LEMMA ClickOK ==
    ASSUME BInv, NEW x \in Act, NEW action \in Action, NEW typed \in Names, NEW confirm \in Names,
           Click(x, action, typed, confirm)
    PROVE  BInv'
<1> DEFINE names == CASE action = "search" -> selected
                      [] action = "status" -> {}
                      [] OTHER -> {typed}
           says == IF action = "forgetArmed" THEN confirm ELSE NoName
<1>1. /\ Request(x, tab, action, names, says)
      /\ meant' = meant \cup Confirms(x, action, typed, confirm)
      /\ UNCHANGED <<tab, selected, picker, shown, candidates>>
  BY DEF Click
<1>2. /\ tab \in Domain /\ names \in SUBSET Names /\ says \in Names \cup {NoName}
      /\ action = "forgetArmed" => names = {typed} /\ says = confirm
  BY DEF BInv, PageInv, PageTyped
<1> HIDE DEF names, says
<1>3. action = "forgetArmed" /\ names = {says} => \A n \in names : <<x, tab, n>> \in meant'
  BY <1>1, <1>2 DEF Confirms
<1>4. ServerInv' /\ HandlersOK' /\ UNCHANGED deletions
  BY <1>1, <1>2, <1>3, RequestOK
<1>5. NewestIsOwn' /\ newest' \in Act \cup {"shown", "overtaken"}
  BY <1>1, <1>2, NewestAfterRequest
<1>6. PageTyped' /\ CandidatesStayApart'
  BY <1>1, <1>4, <1>5 DEF BInv, PageInv, PageTyped, CandidatesStayApart, NamesOf
<1> QED BY <1>4, <1>5, <1>6 DEF BInv, PageInv

LEMMA TickOK == ASSUME BInv, NEW n \in Names, Tick(n) PROVE BInv'
<1>1. /\ UNCHANGED <<vars, tab, picker, shown, candidates, meant, newest, sent>>
      /\ selected' \in {selected \ {n}, selected \cup {n}}
  BY DEF Tick
<1>2. ServerInv'
  BY <1>1, ServerKept DEF vars, BInv
<1>3. HandlersOK' /\ NewestIsOwn'
  BY <1>1 DEF BInv, PageInv, HandlersOK, HandlerOK, NewestIsOwn, vars, NamesOf
<1>4. PageTyped' /\ CandidatesStayApart'
  BY <1>1 DEF BInv, PageInv, PageTyped, CandidatesStayApart, vars, NamesOf
<1> QED BY <1>2, <1>3, <1>4 DEF BInv, PageInv

\* A handler is through with its answer.
LEMMA CollectOK ==
    ASSUME BInv, NEW x \in Act, Collect(x), sent' = [sent EXCEPT ![x] = NoName],
           \A m \in meant : m[1] # x => m \in meant'
    PROVE  /\ ServerInv' /\ HandlersOK' /\ UNCHANGED deletions
           /\ \A y \in Act : y # x => acts'[y] = acts[y] /\ sent'[y] = sent[y]
<1> USE DEF BInv, ServerInv, PageInv
<1>1. acts' = [acts EXCEPT ![x] = Idle] /\ Set(x, Idle) /\ UNCHANGED <<armed, data, deletions>>
  BY DEF Collect, Set, Elsewhere
<1>2. ServerInv'
  BY <1>1, ServerKept
<1>3. HandlerOK(x)'
  BY <1>1 DEF HandlerOK, Idle, RequestsSound
<1>4. HandlersOK'
  BY <1>1, <1>3, OtherHandlers
<1> QED BY <1>1, <1>2, <1>4 DEF RequestsSound, HandlersOK

LEMMA StatusArrivesOK == ASSUME BInv, NEW x \in Act, StatusArrives(x) PROVE BInv'
<1>1. /\ Collect(x) /\ sent' = [sent EXCEPT ![x] = NoName]
      /\ UNCHANGED <<tab, selected, candidates, meant>>
      /\ acts[x].pc = "answered"
      /\ shown' = IF Completed(x) THEN acts[x].found ELSE {}
      /\ newest' = CASE newest = x -> "shown"
                     [] newest \in Act \ {x} -> newest
                     [] OTHER -> "overtaken"
  BY DEF StatusArrives, Arrived
<1>2. /\ ServerInv' /\ HandlersOK' /\ UNCHANGED deletions
      /\ \A y \in Act : y # x => acts'[y] = acts[y] /\ sent'[y] = sent[y]
  BY <1>1, CollectOK
<1>3. shown' \subseteq NamesOf(sent[x].domain)
  BY <1>1 DEF BInv, PageInv, HandlersOK, HandlerOK
<1>4. NewestIsOwn' /\ newest' \in Act \cup {"shown", "overtaken"}
  <2>1. CASE newest = x
    <3>1. newest' = "shown" /\ sent[x].domain = tab
      BY <1>1, <2>1 DEF BInv, PageInv, NewestIsOwn
    <3> QED BY <1>1, <1>3, <3>1, ActAssumption DEF NewestIsOwn, NamesOf
  <2>2. CASE newest \in Act \ {x}
    <3>1. newest' = newest
      BY <1>1, <2>2
    <3> QED BY <1>1, <1>2, <2>2, <3>1, ActAssumption DEF BInv, PageInv, NewestIsOwn
  <2>3. CASE newest \notin Act
    <3>1. newest' = "overtaken"
      BY <1>1, <2>3
    <3> QED BY <3>1, ActAssumption DEF NewestIsOwn
  <2> QED BY <2>1, <2>2, <2>3
<1>5. PageTyped' /\ CandidatesStayApart'
  BY <1>1, <1>2, <1>4 DEF BInv, PageInv, PageTyped, CandidatesStayApart, NamesOf
<1> QED BY <1>2, <1>4, <1>5 DEF BInv, PageInv

\* The answer to another request than the newest leaves what is shown alone.
LEMMA OthersNewest ==
    ASSUME BInv, NEW x \in Act, sent[x].action # "status",
           \A y \in Act : y # x => acts'[y] = acts[y] /\ sent'[y] = sent[y],
           UNCHANGED <<tab, shown, newest>>
    PROVE  NewestIsOwn' /\ newest' \in Act \cup {"shown", "overtaken"}
<1>1. newest \in Act => newest # x
  BY DEF BInv, PageInv, NewestIsOwn
<1> QED BY <1>1 DEF BInv, PageInv, NewestIsOwn, PageTyped, NamesOf

LEMMA CandidatesArriveOK == ASSUME BInv, NEW x \in Act, CandidatesArrive(x) PROVE BInv'
<1>1. /\ Collect(x) /\ sent' = [sent EXCEPT ![x] = NoName]
      /\ UNCHANGED <<tab, selected, picker, shown, meant, newest>>
      /\ acts[x].pc = "answered" /\ sent[x].action = "search"
      /\ candidates' = IF acts[x].status = "completed" THEN sent[x].names ELSE {}
  BY DEF CandidatesArrive, Arrived, Completed
<1>2. /\ ServerInv' /\ HandlersOK' /\ UNCHANGED deletions
      /\ \A y \in Act : y # x => acts'[y] = acts[y] /\ sent'[y] = sent[y]
  BY <1>1, CollectOK
<1>3. NewestIsOwn' /\ newest' \in Act \cup {"shown", "overtaken"}
  BY <1>1, <1>2, OthersNewest
<1>4. CandidatesStayApart'
  <2>1. sent[x].domain \in Domain /\ candidates' \subseteq NamesOf(sent[x].domain)
    BY <1>1 DEF BInv, PageInv, HandlersOK, HandlerOK, Handler
  <2> QED BY <2>1 DEF CandidatesStayApart, NamesOf
<1>5. PageTyped'
  BY <1>1, <1>2, <1>3 DEF BInv, PageInv, PageTyped
<1> QED BY <1>2, <1>3, <1>4, <1>5 DEF BInv, PageInv

LEMMA ResultArrivesOK == ASSUME BInv, NEW x \in Act, ResultArrives(x) PROVE BInv'
<1>1. /\ acts[x].pc = "answered" /\ sent[x].action # "status"
      /\ UNCHANGED <<tab, selected, picker, shown, candidates>>
      /\ meant' = {m \in meant : m[1] # x}
  BY DEF ResultArrives, Arrived, Forgets
<1>2. CASE Collect(x) /\ sent' = [sent EXCEPT ![x] = NoName] /\ UNCHANGED newest
  <2>1. /\ ServerInv' /\ HandlersOK' /\ UNCHANGED deletions
        /\ \A y \in Act : y # x => acts'[y] = acts[y] /\ sent'[y] = sent[y]
    BY <1>1, <1>2, CollectOK
  <2>2. NewestIsOwn' /\ newest' \in Act \cup {"shown", "overtaken"}
    BY <1>1, <1>2, <2>1, OthersNewest
  <2>3. PageTyped' /\ CandidatesStayApart'
    BY <1>1, <2>1, <2>2 DEF BInv, PageInv, PageTyped, CandidatesStayApart, NamesOf
  <2> QED BY <2>1, <2>2, <2>3 DEF BInv, PageInv
<1>3. ASSUME acts' = [acts EXCEPT ![x] =
                        [pc |-> "received",
                         body |-> [domain |-> tab, action |-> "status", names |-> {},
                                   confirm |-> NoName, valid |-> TRUE]]],
             sent' = [sent EXCEPT ![x] = [domain |-> tab, action |-> "status", names |-> {}]],
             newest' = x, Elsewhere, UNCHANGED <<active, data>>
      PROVE  BInv'
  <2> USE DEF BInv, ServerInv, PageInv
  <2> DEFINE body == [domain |-> tab, action |-> "status", names |-> {},
                      confirm |-> NoName, valid |-> TRUE]
             r == [pc |-> "received", body |-> body]
             h == [domain |-> tab, action |-> "status", names |-> {}]
  <2>1. /\ body \in Body /\ h \in Handler
        /\ body.domain = tab /\ body.action = "status" /\ body.names = {}
        /\ h.domain = tab /\ h.names = {} /\ h.action = "status"
    BY DEF Body, Handler, PageTyped, Action
  <2>2. r.pc = "received" /\ r.body = body
    OBVIOUS
  <2>3. /\ Set(x, r) /\ acts' = [acts EXCEPT ![x] = r] /\ sent' = [sent EXCEPT ![x] = h]
        /\ UNCHANGED <<armed, deletions, data>>
    BY <1>3 DEF Set, Elsewhere
  <2> HIDE DEF body, h
  <2>4. ServerInv'
    BY <2>1, <2>3, ServerKept
  <2> HIDE DEF r
  <2>5. acts'[x] = r /\ sent'[x] = h
    BY <2>3 DEF RequestsSound, HandlersOK
  <2>6. HandlerOK(x)'
    BY <2>1, <2>2, <2>5 DEF HandlerOK
  <2>7. HandlersOK'
    BY <1>1, <2>3, <2>6, OtherHandlers
  <2>8. NewestIsOwn' /\ newest' \in Act \cup {"shown", "overtaken"}
    BY <1>1, <1>3, <2>1, <2>2, <2>5, ActAssumption DEF NewestIsOwn
  <2>9. PageTyped' /\ CandidatesStayApart'
    BY <1>1, <2>3, <2>8 DEF PageTyped, CandidatesStayApart, NamesOf
  <2> QED BY <2>4, <2>7, <2>8, <2>9
<1> QED BY <1>2, <1>3 DEF ResultArrives

LEMMA BStutterOK == ASSUME BInv, UNCHANGED allVars PROVE BInv'
<1>1. ServerInv'
  BY ServerKept DEF allVars, vars, BInv
<1>2. PageInv'
  BY DEF BInv, PageInv, HandlersOK, HandlerOK, PageTyped, NewestIsOwn,
     CandidatesStayApart, NamesOf, allVars, vars, page
<1> QED BY <1>1, <1>2 DEF BInv

LEMMA BInvStep == BInv /\ [BNext]_allVars => BInv'
  BY ServeOK, TickOK, SetDomainOK, ClickOK, StatusArrivesOK, ResultArrivesOK,
     CandidatesArriveOK, BStutterOK DEF BNext

LEMMA BInductive == BSpec => []BInv
  BY BInitOK, BInvStep, PTL DEF BSpec

\* What the end of a run removes, its own request named and confirmed.
LEMMA RunRemovesConfirmed ==
    ASSUME RequestsSound, DataTyped, NEW x \in Act, RunEnds(x),
           NEW d \in Domain, NEW n \in data[d], n \notin data'[d]
    PROVE  LET b == acts[x].body
           IN  d = b.domain /\ n \in b.names /\ b.action = "forgetArmed" /\ b.names = {b.confirm}
<1> DEFINE r == acts[x]
<1>1. SoundBody(r.body) /\ r.allow => r.body.action = "forgetArmed"
  BY DEF RunEnds, RequestsSound, SlotOK
<1>2. SoundBody(r.body) /\ r.body.domain \in Domain
  BY DEF RunEnds, RequestsSound, SlotOK, SoundBody, Body
<1>3. /\ Permitted(x)
      /\ data' = [data EXCEPT ![r.body.domain] =
                    IF r.graph = "addNote" THEN @ \cup r.body.names
                    ELSE IF r.graph = "forget" THEN @ \ r.body.names
                    ELSE @]
  BY DEF RunEnds
<1> HIDE DEF r
<1>4. r.graph = "forget" /\ d = r.body.domain /\ n \in r.body.names
  BY <1>2, <1>3 DEF DataTyped
<1>5. r.allow
  BY <1>3, <1>4 DEF Permitted, r
<1> QED BY <1>1, <1>2, <1>4, <1>5 DEF SoundBody, r

\* A dataset only vanishes in the run of a request that is still awaited, and
\* that the user confirmed for it with the tab of its domain in front - however
\* many other requests are on the way and whatever graph the run hits.
THEOREM DeletionsMeant == BSpec => DeletionWasMeant
<1> DEFINE Meant ==
      \A d \in Domain : \A n \in data[d] \ data'[d] :
        \E x \in Act : <<x, d, n>> \in meant /\ acts[x].pc = "running" /\ acts'[x] # acts[x]
<1>1. BInv /\ [BNext]_allVars => [Meant]_allVars
  <2> SUFFICES ASSUME BInv, BNext PROVE Meant
    OBVIOUS
  <2> USE DEF BInv, ServerInv, PageInv
  <2>1. ASSUME NEW x \in Act, RunEnds(x), NEW d \in Domain, NEW n \in data[d] \ data'[d]
        PROVE  <<x, d, n>> \in meant /\ acts[x].pc = "running" /\ acts'[x] # acts[x]
    <3>1. acts[x].pc = "running" /\ acts'[x].pc = "answered"
      BY <2>1 DEF RunEnds, Answer, Set, RequestsSound
    <3> QED BY <2>1, <3>1, RunRemovesConfirmed DEF HandlersOK, HandlerOK
  <2>2. CASE UNCHANGED data
    BY <2>2
  <2>3. (\E x \in Act : RunEnds(x)) \/ UNCHANGED data
    <3>1. ASSUME NEW x \in Act, Serve(x) PROVE RunEnds(x) \/ UNCHANGED data
      BY <3>1 DEF Serve, MapInput, Activate, StartRun
    <3>2. ASSUME NEW n \in Names, Tick(n) PROVE UNCHANGED data
      BY <3>2 DEF Tick, vars
    <3>3. ASSUME NEW x \in Act, NEW d \in Domain, SetDomain(x, d) PROVE UNCHANGED data
      BY <3>3 DEF SetDomain, Request, Receive
    <3>4. ASSUME NEW x \in Act, NEW action \in Action, NEW typed \in Names,
                 NEW confirm \in Names, Click(x, action, typed, confirm)
          PROVE  UNCHANGED data
      BY <3>4 DEF Click, Request, Receive
    <3>5. ASSUME NEW x \in Act, StatusArrives(x) \/ CandidatesArrive(x) \/ ResultArrives(x)
          PROVE  UNCHANGED data
      BY <3>5 DEF StatusArrives, CandidatesArrive, ResultArrives, Collect
    <3> QED BY <3>1, <3>2, <3>3, <3>4, <3>5 DEF BNext
  <2> QED BY <2>1, <2>2, <2>3
<1> QED BY <1>1, BInductive, PTL DEF BSpec, DeletionWasMeant

\* Candidates are of one domain, and once all answers are in, the list is of the
\* tab in front unless an older answer came last - however many requests are on
\* the way and whatever tabs were in front meanwhile.
THEOREM PageApart == BSpec => []PageKeepsApart
<1>1. BInv => PageKeepsApart
  <2> SUFFICES ASSUME BInv, \A x \in Act : acts[x] = Idle, newest # "overtaken"
               PROVE  shown \subseteq NamesOf(tab)
    BY DEF BInv, PageInv, PageKeepsApart, QuietListIsOwn
  <2>1. newest \notin Act
    BY DEF BInv, PageInv, NewestIsOwn, Idle
  <2> QED BY <2>1 DEF BInv, PageInv, PageTyped, NewestIsOwn
<1> QED BY <1>1, BInductive, PTL
=============================================================================
