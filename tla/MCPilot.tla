-------------------------------- MODULE MCPilot ---------------------------------
(***************************************************************************)
(* The pilot's server under two concurrent requests of any origin, or      *)
(* behind its page.  Bound: the page has two requests on the way only if   *)
(* both ask for the status - tabs are switched while an answer is awaited  *)
(* - or if a confirmed deletion awaits its answer, in an armed pilot, with *)
(* no candidates on display and none but vault datasets ticked.  Requests  *)
(* from anywhere count as meant: DeletionWasMeant is about the page.       *)
(***************************************************************************)
EXTENDS PilotBrowser, TLC

\* Requests come from the page, or from anywhere; then any deletion is meant.
VARIABLE origin

Post(d, action, names, confirm) ==
    [domain |-> d, action |-> action, names |-> names, confirm |-> confirm, valid |-> TRUE]

\* What the browser sends, with a foreign name and a missing confirmation.
MCBodies ==
    {Post("b", action, VaultName, NoName) :
       action \in {"addNote", "status", "forgetDefault", "forgetArmed"}}
    \cup {Post("b", "forgetArmed", VaultName, n) : n \in VaultName}
    \cup {Post("b", "addNote", NotesName, NoName), Post("a", "addNote", NotesName, NoName)}

MCInit ==
    \/ origin = "anywhere" /\ Init /\ PageInit /\ meant = Act \X Domain \X Names
    \/ origin = "page" /\ BInit

OnTheWay == {x \in Act : acts[x] # Idle}

MCNext ==
    \/ /\ origin = "anywhere" /\ Next
       /\ UNCHANGED <<origin, page, sent>>
    \/ /\ origin = "page" /\ BNext
       /\ \/ Cardinality(OnTheWay') <= 1
          \/ \A x \in OnTheWay' : sent'[x].action = "status"
          \/ armed /\ meant' # {} /\ candidates' = {} /\ selected' \subseteq VaultName
       /\ UNCHANGED origin

MCSpec == MCInit /\ [][MCNext]_<<origin, allVars>>

MCSymmetry == Permutations(Act)

=============================================================================
