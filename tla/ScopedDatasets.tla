----------------------------- MODULE ScopedDatasets ------------------------------
(***************************************************************************)
(* What the worker's interface promises about dataset names: a store of    *)
(* datasets known by their addresses <ns>.<name>, of which a worker that   *)
(* was granted some namespaces creates, deletes and lists its own only.    *)
(***************************************************************************)
EXTENDS FiniteSets, Naturals

CONSTANTS Address, NsOf(_), Grants

VARIABLES
    datasets,   \* addresses with data
    granted,    \* namespaces of the worker that is running
    listing     \* the last answer of datasetsStatus

vars == <<datasets, granted, listing>>

Own(g) == {a \in Address : NsOf(a) \in g}

Init ==
    /\ datasets = {} /\ granted \in Grants
    /\ listing = [shown |-> {}, hidden |-> 0]

Restart(g) == granted' = g /\ UNCHANGED <<datasets, listing>>
Add(a) ==
    /\ a \in Own(granted) /\ datasets' = datasets \cup {a}
    /\ UNCHANGED <<granted, listing>>
Forget(a) ==
    /\ a \in Own(granted) \cap datasets /\ datasets' = datasets \ {a}
    /\ UNCHANGED <<granted, listing>>
List ==
    /\ listing' = [shown |-> datasets \cap Own(granted),
                   hidden |-> Cardinality(datasets \ Own(granted))]
    /\ UNCHANGED <<datasets, granted>>

Next == (\E g \in Grants : Restart(g)) \/ (\E a \in Address : Add(a) \/ Forget(a)) \/ List

Spec == Init /\ [][Next]_vars
=============================================================================
