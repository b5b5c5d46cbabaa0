------------------------------ MODULE MCProofLayer -------------------------------
(***************************************************************************)
(* The three parts of the proof layer: the client of the worker            *)
(* (ProofClient), the run of the cognify-retry proof (EquivRun) and the    *)
(* comparator that run relies on (GraphComparison).  They share no state;  *)
(* a behaviour picks one and the others rest.                              *)
(***************************************************************************)
EXTENDS ProofClient, EquivRun, GraphComparison, TLC

VARIABLE part   \* which one moves

-----------------------------------------------------------------------------
MCInit ==
    /\ part \in {"client", "run", "graphs"}
    /\ Init /\ RunInit /\ GraphsInit
    /\ part # "run" => same

MCNext ==
    \/ part = "client" /\ Next /\ UNCHANGED <<part, runVars, graphsVars>>
    \/ part = "run" /\ RunNext /\ UNCHANGED <<part, vars, graphsVars>>
    \/ part = "graphs" /\ GraphsNext /\ UNCHANGED <<part, vars, runVars>>

MCSpec == MCInit /\ [][MCNext]_<<part, vars, runVars, graphsVars>>

MCSymmetry == Permutations(Identity) \cup Permutations(Variant)
=============================================================================
