------------------------------ MODULE PilotBrowser ------------------------------
(***************************************************************************)
(* The browser client of the pilot (public/app.js) in front of its server. *)
(* Every action is a POST that is answered some time later; the handlers   *)
(* go on where they awaited the answer, whatever tab is in front by then.  *)
(* The page comes from a server that is up, over stores that may hold      *)
(* datasets already; a server that ends only leaves requests unanswered.   *)
(***************************************************************************)
EXTENDS PilotServer

VARIABLES
    tab,        \* state.domain
    selected,   \* state.selected
    picker,     \* state.lastDatasets, as rendered with a checkbox each
    shown,      \* the datasets the status list names
    sent,       \* what the handler waiting on each request goes on with
    candidates, \* datasets whose content is displayed as candidates
    meant,      \* deletions the user confirmed and has no answer to: the
                \* request, and tab and name at the click
    newest      \* the latest status request; "shown" once its answer is, and
                \* "overtaken" if an older answer came after that (history)

\* The history tells a request from a word.
ASSUME ActAssumption == Act \cap {"shown", "overtaken"} = {}

page == <<tab, selected, picker, shown, candidates, meant, newest>>
allVars == <<vars, page, sent>>

PageInit ==
    /\ tab = "a" /\ selected = {} /\ picker = {} /\ shown = {}
    /\ sent = [x \in Act |-> NoName]
    /\ candidates = {} /\ newest = "shown"

BInit ==
    /\ phase = "up" /\ store = [d \in Domain |-> "owned"]
    /\ stubborn = {} /\ armed \in BOOLEAN /\ closed = FALSE
    /\ stop = [k \in {"graceful", "crash"} |-> 0]
    /\ active = [d \in Domain |-> "none"] /\ acts = [x \in Act |-> Idle]
    /\ data \in {f \in [Domain -> SUBSET Names] : \A d \in Domain : f[d] \subseteq NamesOf(d)}
    /\ deletions = {}
    /\ PageInit /\ meant = {}

\* act(): the domain is the one of the tab at the time of the call.
Request(x, d, action, names, typedConfirm) ==
    /\ Receive(x, [domain |-> d, action |-> action, names |-> names,
                   confirm |-> typedConfirm, valid |-> TRUE])
    /\ sent' = [sent EXCEPT ![x] = [domain |-> d, action |-> action, names |-> names]]
    /\ newest' = IF action = "status" THEN x ELSE newest

\* Variant: the new tab is not asked for its datasets.
SetDomainQuietly(x, d) ==
    /\ d # tab /\ phase = "up" /\ acts[x] = Idle
    /\ tab' = d /\ selected' = {} /\ candidates' = {}
    /\ UNCHANGED <<vars, sent, picker, shown, meant, newest>>

\* setDomain, with its refreshStatus: the status list and the picker stay until
\* the answer.
SetDomain(x, d) ==
    /\ d # tab
    /\ tab' = d /\ selected' = {} /\ candidates' = {}
    /\ Request(x, d, "status", {}, NoName)
    /\ UNCHANGED <<picker, shown, meant>>

Tick(n) ==
    /\ n \in picker
    /\ selected' = IF n \in selected THEN selected \ {n} ELSE selected \cup {n}
    /\ UNCHANGED <<vars, tab, picker, shown, candidates, meant, newest, sent>>

\* What the user confirms with a click: name and confirmation are the same.
Confirms(x, action, typed, confirm) ==
    IF action = "forgetArmed" /\ confirm = typed THEN {<<x, tab, typed>>} ELSE {}

\* Variant: the domain is read later, when another tab may be in front.
ClickReadsLate(x, action, typed, confirm) ==
    /\ \E d \in Domain :
         Request(x, d, action,
                 CASE action = "search" -> selected
                   [] action = "status" -> {}
                   [] OTHER -> {typed},
                 IF action = "forgetArmed" THEN confirm ELSE NoName)
    /\ meant' = meant \cup Confirms(x, action, typed, confirm)
    /\ UNCHANGED <<tab, selected, picker, shown, candidates>>

\* The buttons, with what is in the fields datasetName and forgetConfirm.
Click(x, action, typed, confirm) ==
    /\ Request(x, tab, action,
               CASE action = "search" -> selected
                 [] action = "status" -> {}
                 [] OTHER -> {typed},
               IF action = "forgetArmed" THEN confirm ELSE NoName)
    /\ meant' = meant \cup Confirms(x, action, typed, confirm)
    /\ UNCHANGED <<tab, selected, picker, shown, candidates>>

Completed(x) == acts[x].status = "completed"
Arrived(x) == acts[x].pc = "answered"

\* refreshStatus goes on: an answer without a list leaves the picker.
StatusArrives(x) ==
    /\ Arrived(x) /\ sent[x].action = "status"
    /\ shown' = IF Completed(x) THEN acts[x].found ELSE {}
    /\ picker' = IF Completed(x) THEN acts[x].found ELSE picker
    /\ Collect(x) /\ sent' = [sent EXCEPT ![x] = NoName]
    /\ newest' = CASE newest = x -> "shown"
                   [] newest \in Act \ {x} -> newest
                   [] OTHER -> "overtaken"
    /\ UNCHANGED <<tab, selected, candidates, meant>>

\* show() - what it displays is left out - and refreshStatus after what changes
\* the datasets.
ResultArrives(x) ==
    /\ Arrived(x) /\ sent[x].action \in {"addNote", "cognify"} \cup Forgets
    /\ IF Completed(x) /\ sent[x].action \in {"addNote", "forgetArmed"} /\ phase = "up" /\ ~closed
         THEN /\ acts' = [acts EXCEPT ![x] =
                            [pc |-> "received",
                             body |-> [domain |-> tab, action |-> "status", names |-> {},
                                       confirm |-> NoName, valid |-> TRUE]]]
              /\ sent' = [sent EXCEPT ![x] = [domain |-> tab, action |-> "status", names |-> {}]]
              /\ newest' = x
              /\ Elsewhere /\ UNCHANGED <<active, data>>
         ELSE /\ Collect(x) /\ sent' = [sent EXCEPT ![x] = NoName]
              /\ UNCHANGED newest
    /\ meant' = {m \in meant : m[1] # x}
    /\ UNCHANGED <<tab, selected, picker, shown, candidates>>

\* renderCandidates
CandidatesArrive(x) ==
    /\ Arrived(x) /\ sent[x].action = "search"
    /\ candidates' = IF Completed(x) THEN sent[x].names ELSE {}
    /\ Collect(x) /\ sent' = [sent EXCEPT ![x] = NoName]
    /\ UNCHANGED <<tab, selected, picker, shown, meant, newest>>

BNext ==
    \/ (\E x \in Act : Serve(x)) /\ UNCHANGED <<page, sent>>
    \/ \E n \in Names : Tick(n)
    \/ \E x \in Act :
         \/ \E d \in Domain : SetDomain(x, d)
         \/ \E action \in Action, typed, confirm \in Names : Click(x, action, typed, confirm)
         \/ StatusArrives(x) \/ ResultArrives(x) \/ CandidatesArrive(x)

BSpec == BInit /\ [][BNext]_allVars

-----------------------------------------------------------------------------
\* A dataset only ever vanishes in the run of a request whose answer the user
\* awaits, and which was sent because, with the tab of the dataset's domain in
\* front, its name was in both fields when the armed button was clicked: no tab
\* switched to since, late answer or other request on the way makes it another's.
DeletionWasMeant ==
    [][\A d \in Domain : \A n \in data[d] \ data'[d] :
         \E x \in Act : <<x, d, n>> \in meant /\ acts[x].pc = "running" /\ acts'[x] # acts[x]
      ]_allVars

\* Whatever stale names are ticked when a search is sent, what is displayed
\* comes from one domain: a scope that mixes domains is refused whole (README
\* of the pilot: "foreign-namespace scopes are refused").
CandidatesStayApart == \E d \in Domain : candidates \subseteq NamesOf(d)

\* Once all answers are in, the list shows datasets of the tab in front ("the
\* other domain's data is never named", app.js 77-78), whatever tab was in front
\* when they were asked for - unless the answer to an older request came last.
QuietListIsOwn ==
    (\A x \in Act : acts[x] = Idle) /\ newest # "overtaken" =>
      shown \subseteq NamesOf(tab)

\* The page never mixes the two domains.
PageKeepsApart == CandidatesStayApart /\ QuietListIsOwn
=============================================================================
