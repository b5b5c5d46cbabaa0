------------------------------ MODULE KeyedWrites -------------------------------
(***************************************************************************)
(* What the worker promises of writes that carry an idempotency key: a key *)
(* is bound to one piece of work, the work may be tried several times      *)
(* until one outcome is recorded, and from then on every caller is told    *)
(* that outcome and nothing is executed.                                   *)
(***************************************************************************)
EXTENDS Naturals

CONSTANTS Key, Work, Outcome, NoWork, NoOutcome

VARIABLES
    work,       \* what each key is bound to
    tries,      \* how often it took effect
    outcome,    \* the recorded outcome
    told        \* the outcomes that callers learnt

vars == <<work, tries, outcome, told>>

Init ==
    /\ work = [k \in Key |-> NoWork]
    /\ tries = [k \in Key |-> 0]
    /\ outcome = [k \in Key |-> NoOutcome]
    /\ told = [k \in Key |-> {}]

Bind(k) ==
    /\ work[k] = NoWork
    /\ \E w \in Work : work' = [work EXCEPT ![k] = w]
    /\ UNCHANGED <<tries, outcome, told>>

Try(k) ==
    /\ work[k] # NoWork /\ outcome[k] = NoOutcome
    /\ tries' = [tries EXCEPT ![k] = @ + 1]
    /\ UNCHANGED <<work, outcome, told>>

Record(k) ==
    /\ tries[k] > 0 /\ outcome[k] = NoOutcome
    /\ \E o \in Outcome : outcome' = [outcome EXCEPT ![k] = o]
    /\ UNCHANGED <<work, tries, told>>

Tell(k) ==
    /\ outcome[k] # NoOutcome
    /\ told' = [told EXCEPT ![k] = @ \cup {outcome[k]}]
    /\ UNCHANGED <<work, tries, outcome>>

Next == \E k \in Key : Bind(k) \/ Try(k) \/ Record(k) \/ Tell(k)

Spec == Init /\ [][Next]_vars
=============================================================================
