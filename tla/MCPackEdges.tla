------------------------------ MODULE MCPackEdges -------------------------------
(***************************************************************************)
(* The three places where the pack meets what it does not control: values  *)
(* (ContractBoundary), names (WorkerScope) and directories (StoreRoots).   *)
(* They share no state; a behaviour picks one and the others rest.         *)
(***************************************************************************)
EXTENDS ContractBoundary, WorkerScope, StoreRoots, TLC

CONSTANTS outer, middle, inner, apart, link, turn, leak

VARIABLE part       \* which one moves

edgeVars == <<part, boundaryVars, scopeVars, rootsVars>>

-----------------------------------------------------------------------------
\* Inputs of every capability, well-formed and not.
MCInputs ==
    {Undefined, Str, Obj(<<>>)}
    \cup {Obj([datasetName |-> d, content |-> c]) : d, c \in {Str, EmptyStr, Num, Undefined}}
    \cup {Obj([datasets |-> Arr(ds), query |-> q, topK |-> k]) :
            ds \in {<<>>, <<Str>>, <<Str, Str>>, <<Str, Num>>}, q \in {Str, EmptyStr},
            k \in {Undefined, Num, OddNum, NaN}}

MCRows ==
    {Str} \cup {Obj([text |-> t, summary |-> s, name |-> n, score |-> x, id |-> Str]) :
                  t \in {Str, EmptyStr, Undefined}, s \in {Str, Null}, n \in {Str, Undefined},
                  x \in {Num, NaN, Null}}

MCReceipts ==
    {Obj([datasetName |-> Str, idempotencyKey |-> k, reconciled |-> Str, itemsBefore |-> b,
          itemsAfter |-> a, deduplicated |-> d, duration_ms |-> Num]) :
       k \in {Str, Undefined}, a, b \in {Num, NaN, Null, Undefined}, d \in {Bool, Null}}
    \cup {Obj([datasetName |-> Str, datasetId |-> i, purged |-> Str, storeFilesBefore |-> b,
               storeFilesAfter |-> Num, duration_ms |-> Num]) :
            i \in {Str, Null}, b \in {Num, Str}}
    \cup {Null, Arr(<<>>)}

\* A namespace and a longer one that starts with it and has an underscore;
\* names that start with one, and one that has a separator of its own.
MCNs == {<<"a">>, <<"a", "_", "b">>}
MCName == {<<"x">>, <<"_", "x">>, <<"b", "_", "_", "x">>}
MCGrants == {{<<"a">>}, {<<"a", "_", "b">>}, MCNs}

\* Directories outer/middle/inner and apart; a link elsewhere to inner, one below
\* outer that leads to inner, and one below apart that leads to middle.
MCDir == {outer, middle, inner, apart}
MCLink == {link, turn, leak}
MCTarget == (link :> inner) @@ (turn :> inner) @@ (leak :> middle)
MCAbove ==
    (outer :> <<>>) @@ (middle :> <<outer>>) @@ (inner :> <<middle, outer>>)
    @@ (apart :> <<>>) @@ (link :> <<>>) @@ (turn :> <<outer>>) @@ (leak :> <<apart>>)

\* Data in the store itself, in a link below it, and in a place that its .env
\* should not name.
MCConfigurations ==
    {(outer :> p @@ middle :> q @@ inner :> r @@ apart :> t) :
       p \in {{outer}, {middle, turn}}, q \in {{middle}, {middle, Remote}},
       r \in {{inner}, {link}}, t \in {{apart}, {apart, leak}, {link}}}

-----------------------------------------------------------------------------
Resting ==
    /\ part # "values" => cap = "add" /\ ~test /\ input = Undefined
    /\ part # "names" => granted = MCNs
    /\ part # "directories" =>
         /\ root = [h \in Host |-> outer]
         /\ places = [d \in MCDir |-> {d}]

MCInit ==
    /\ part \in {"values", "names", "directories"}
    /\ BoundaryInit /\ ScopeInit /\ RootsInit
    /\ Resting

MCNext ==
    \/ part = "values" /\ BoundaryNext /\ UNCHANGED <<part, scopeVars, rootsVars>>
    \/ part = "names" /\ ScopeNext /\ UNCHANGED <<part, boundaryVars, rootsVars>>
    \/ part = "directories" /\ RootsNext /\ UNCHANGED <<part, boundaryVars, scopeVars>>

MCSpec == MCInit /\ [][MCNext]_edgeVars

MCSymmetry == Permutations(Host)
=============================================================================
