------------------------------ MODULE PilotServer -------------------------------
(***************************************************************************)
(* The server of the browser pilot, examples/c6-browser-pilot/server.mjs:  *)
(* one process with a pack and a VICT runtime per trust domain, the        *)
(* /api/act boundary in front of them, and the ways the process ends.      *)
(*                                                                         *)
(* A runtime keeps one active graph (external); act() activates the graph  *)
(* of its action, waits, and runs whatever graph is active then.  The pack *)
(* is abstracted to its lock, its grants and the datasets in its store.    *)
(***************************************************************************)
EXTENDS Naturals, FiniteSets

CONSTANTS
    Act,        \* requests the server can be in at the same time
    NoName,
    NotesName, VaultName,   \* dataset names with the prefix of domain a / b
    Bodies      \* the requests that come

Domain == {"a", "b"}
Names == NotesName \cup VaultName
NamesOf(d) == IF d = "a" THEN NotesName ELSE VaultName
Grants(d) ==
    {"cognee.write", "cognee.search"} \cup (IF d = "b" THEN {"cognee.delete"} ELSE {})

Forgets == {"forgetDefault", "forgetArmed"}
Action == {"addNote", "cognify", "search", "status"} \cup Forgets
GraphOf(action) == IF action \in Forgets THEN "forget" ELSE action

\* The body of a POST: valid stands for the checks on content and query.
Body == [domain : Domain, action : Action, names : SUBSET Names,
         confirm : Names \cup {NoName}, valid : BOOLEAN]

ASSUME BodiesAssumption == Bodies \subseteq Body
ASSUME NamesAssumption == IsFiniteSet(Names)

VARIABLES
    phase,      \* of the process: "boot", "up", "gone"
    store,      \* of each domain: its lock "free", "owned" or "released"
    stubborn,   \* domains whose supervision.shutdown() throws
    armed,      \* ARM_DELETE
    closed,     \* server.close()
    stop,       \* how far the graceful and the crash shutdown are; 0: not begun
    active,     \* the active graph of each runtime
    acts,       \* what each request slot is at
    data,       \* datasets in each store
    deletions   \* datasets deleted, with the request that did it

process == <<phase, store, stubborn, closed, stop>>
vars == <<process, armed, active, acts, data, deletions>>

Idle == [pc |-> "idle"]
Order == <<"a", "b">>

Init ==
    /\ phase = "boot" /\ store = [d \in Domain |-> "free"]
    /\ stubborn \in SUBSET Domain
    /\ armed \in BOOLEAN /\ closed = FALSE
    /\ stop = [k \in {"graceful", "crash"} |-> 0]
    /\ active = [d \in Domain |-> "none"]
    /\ acts = [x \in Act |-> Idle]
    /\ data = [d \in Domain |-> {}] /\ deletions = {}

-----------------------------------------------------------------------------
(* Boot: one domain after the other, before any handler is registered. *)

BootDomain(d) ==
    /\ phase = "boot" /\ store[d] = "free"
    /\ d = "b" => store["a"] = "owned"
    /\ store' = [store EXCEPT ![d] = "owned"]
    /\ phase' = IF d = "b" THEN "up" ELSE "boot"
    /\ UNCHANGED <<stubborn, closed, stop, armed, active, acts, data, deletions>>

\* createCogneePack throws: the store is owned by another process, say.
BootFails ==
    /\ phase = "boot" /\ phase' = "gone"
    /\ UNCHANGED <<store, stubborn, closed, stop, armed, active, acts, data, deletions>>

-----------------------------------------------------------------------------
(* One request: act(). *)

Set(x, r) == acts' = [acts EXCEPT ![x] = r]
Elsewhere == UNCHANGED <<process, armed, deletions>>
Answer(x, status, found) == Set(x, [pc |-> "answered", status |-> status, found |-> found])

Receive(x, body) ==
    /\ phase = "up" /\ ~closed /\ acts[x] = Idle
    /\ Set(x, [pc |-> "received", body |-> body])
    /\ Elsewhere /\ UNCHANGED <<active, data>>

\* Variant: the prefix is not looked at.
AnyName(d, name) == TRUE
\* nsOk
NsOk(d, name) == name \in NamesOf(d)

\* mapActionInput: what gets past it.
Mapped(b) ==
    /\ \A n \in b.names : NsOk(b.domain, n)
    /\ b.action \in {"search", "addNote"} => b.valid
    /\ b.action = "search" => b.names # {}
    /\ b.action \notin {"search", "status"} => Cardinality(b.names) = 1
    /\ b.action = "forgetArmed" => armed /\ b.confirm \in b.names

MapInput(x) ==
    /\ phase # "gone" /\ acts[x].pc = "received"
    /\ IF Mapped(acts[x].body) THEN Set(x, [acts[x] EXCEPT !.pc = "mapped"])
                               ELSE Answer(x, "refused", {})
    /\ Elsewhere /\ UNCHANGED <<active, data>>

\* ensureActivation
Activate(x) ==
    /\ phase # "gone" /\ acts[x].pc = "mapped"
    /\ active' = [active EXCEPT ![acts[x].body.domain] = GraphOf(acts[x].body.action)]
    /\ Set(x, [acts[x] EXCEPT !.pc = "activated"])
    /\ Elsewhere /\ UNCHANGED data

\* Variant: an armed server allows the irreversible for every deletion.
AllowsIfArmed(action) == armed /\ action \in Forgets
\* Variant: the policy belongs to the runtimes, not to the run.
AllowsBeside(action) ==
    \E y \in Act :
      acts[y].pc \in {"activated", "running"} /\ acts[y].body.action = "forgetArmed"
\* runOptions.policy
AllowsIrreversible(action) == action = "forgetArmed"

StartRun(x) ==
    /\ phase # "gone" /\ acts[x].pc = "activated"
    /\ Set(x, [pc |-> "running", body |-> acts[x].body,
               graph |-> active[acts[x].body.domain],
               allow |-> AllowsIrreversible(acts[x].body.action)])
    /\ Elsewhere /\ UNCHANGED <<active, data>>

\* The runtime's checks of the input's shape, of permissions and of the policy.
Permitted(x) ==
    LET r == acts[x]
    IN  /\ r.graph \in {"search", "addNote"} => r.body.action = r.graph
        /\ r.graph \in {"cognify", "forget"} => r.body.action \notin {"search", "status"}
        /\ r.graph = "forget" => "cognee.delete" \in Grants(r.body.domain) /\ r.allow

\* The run is denied, fails with or without its effect, or completes.
RunEnds(x) ==
    LET r == acts[x]
        d == r.body.domain
        hits == r.body.names
    IN  /\ phase # "gone" /\ r.pc = "running"
        /\ UNCHANGED <<process, armed, active>>
        /\ \/ Answer(x, "failed", {}) /\ UNCHANGED <<data, deletions>>
           \/ /\ Permitted(x) /\ store[d] = "owned"
              /\ r.graph \in {"cognify", "search", "forget"} => hits \subseteq data[d]
              /\ data' = [data EXCEPT ![d] = IF r.graph = "addNote" THEN @ \cup hits
                                             ELSE IF r.graph = "forget" THEN @ \ hits
                                             ELSE @]
              /\ deletions' = IF r.graph = "forget" THEN deletions \cup {r.body} ELSE deletions
              /\ \E status \in {"completed", "failed"} :
                   Answer(x, status, IF r.graph = "status" THEN data[d] ELSE {})

-----------------------------------------------------------------------------
(* The end. *)

\* SIGINT, SIGTERM or /api/shutdown.
Shutdown ==
    /\ phase = "up" /\ stop = [k \in {"graceful", "crash"} |-> 0]
    /\ closed' = TRUE /\ stop' = [stop EXCEPT !["graceful"] = 1]
    /\ UNCHANGED <<phase, store, stubborn, armed, active, acts, data, deletions>>

\* An uncaught exception, such as EPIPE from the stdin of a dead worker; also
\* in the middle of a graceful shutdown.
\* Bound: one such exception; a second one would start the same loop again.
Uncaught ==
    /\ phase = "up" /\ stop["crash"] = 0
    /\ closed' = TRUE /\ stop' = [stop EXCEPT !["crash"] = 1]
    /\ UNCHANGED <<phase, store, stubborn, armed, active, acts, data, deletions>>

Released(d) == [store EXCEPT ![d] = IF d \in stubborn THEN @ ELSE "released"]

\* Variant: what one shutdown() throws ends the loop.
ReleaseUnguarded(k) ==
    /\ phase = "up" /\ stop[k] \in 1..2
    /\ store' = Released(Order[stop[k]])
    /\ stop' = [stop EXCEPT ![k] = IF Order[stop[k]] \in stubborn THEN 3 ELSE @ + 1]
    /\ UNCHANGED <<phase, stubborn, closed, armed, active, acts, data, deletions>>

\* supervision.shutdown() of the next domain settles.
Release(k) ==
    /\ phase = "up" /\ stop[k] \in 1..2
    /\ store' = Released(Order[stop[k]])
    /\ stop' = [stop EXCEPT ![k] = @ + 1]
    /\ UNCHANGED <<phase, stubborn, closed, armed, active, acts, data, deletions>>

\* process.exit
Exit(k) ==
    /\ phase = "up" /\ stop[k] = 3 /\ phase' = "gone"
    /\ UNCHANGED <<store, stubborn, closed, stop, armed, active, acts, data, deletions>>

Serve(x) == MapInput(x) \/ Activate(x) \/ StartRun(x) \/ RunEnds(x)
End(k) == Release(k) \/ Exit(k)

\* The response reaches whoever sent the request.
Collect(x) ==
    /\ acts[x].pc = "answered" /\ Set(x, Idle)
    /\ Elsewhere /\ UNCHANGED <<active, data>>

ServerNext ==
    \/ \E d \in Domain : BootDomain(d)
    \/ BootFails \/ Shutdown \/ Uncaught
    \/ \E x \in Act : Serve(x)
    \/ \E k \in {"graceful", "crash"} : End(k)

Next ==
    \/ ServerNext
    \/ \E x \in Act : Collect(x) \/ \E body \in Bodies : Receive(x, body)

Spec == Init /\ [][Next]_vars

-----------------------------------------------------------------------------
\* An irreversible deletion is always the armed act's, of a dataset whose name
\* was typed to confirm it, in a domain that may delete - also while concurrent
\* requests swap the active graph (server header 25-29, README "three gates").
DeletionWasConfirmed ==
    \A b \in deletions :
      /\ armed /\ b.action = "forgetArmed" /\ b.names = {b.confirm}
      /\ "cognee.delete" \in Grants(b.domain)

\* Whatever graph a run hits, the store of a domain only ever holds datasets
\* with the prefix of that domain.
StoresStayApart == \A d \in Domain : data[d] \subseteq NamesOf(d)

\* When the process exits through one of its shutdowns, no lock stays behind
\* but those whose own release failed: "sequentially and error-tolerant".
ShutdownSparesNoLock ==
    phase = "gone" /\ (\E k \in {"graceful", "crash"} : stop[k] = 3) =>
      \A d \in Domain \ stubborn : store[d] = "released"
=============================================================================
