----------------------------- MODULE GraphComparison -----------------------------
(***************************************************************************)
(* The comparator of the cognify-retry proof, worker/graph_equiv_c4.mjs,   *)
(* over the dumps of worker/graph_dump_c4.py: two graphs are compared as   *)
(* multisets of property variants per identity.  The rows of the two       *)
(* databases grow one by one, in any order; the comparator and its         *)
(* negative controls are evaluated on every pair.                          *)
(***************************************************************************)
EXTENDS Naturals, Sequences, FiniteSets

CONSTANTS
    Identity,   \* (type, name) of a node, (source, target, relationship) of an edge
    Variant,    \* the properties of an instance, volatile ones dropped
    Injected,   \* the marked copy that a control injects, none of Variant
    Novel,      \* the identity that a control adds, none of Identity
    MaxRows     \* bound on the rows of a database

Kind == {"node", "edge"}
Row == [kind : Kind, identity : Identity, variant : Variant]

VARIABLES rowsA, rowsB

graphsVars == <<rowsA, rowsB>>

-----------------------------------------------------------------------------
(* The dump. *)

\* The variants of one identity, in the order of the rows.
Instances(rows, kind, k) ==
    LET upTo[i \in 0..Len(rows)] ==
          IF i = 0 THEN <<>>
          ELSE IF rows[i].kind = kind /\ rows[i].identity = k
               THEN Append(upTo[i - 1], rows[i].variant)
               ELSE upTo[i - 1]
    IN  upTo[Len(rows)]

Identities(rows, kind) == {k \in Identity : Instances(rows, kind, k) # <<>>}

\* Variant: one instance per identity, the last one.
TableOverwritten(rows, kind) ==
    [k \in Identities(rows, kind) |->
       LET vs == Instances(rows, kind, k) IN <<vs[Len(vs)]>>]
\* norm_nodes and norm_edges: identity -> list of variants.
Table(rows, kind) == [k \in Identities(rows, kind) |-> Instances(rows, kind, k)]

OfKind(rows, kind) == {i \in 1..Len(rows) : rows[i].kind = kind}
Dump(rows) ==
    [kind \in Kind |->
       [count |-> Cardinality(OfKind(rows, kind)), table |-> Table(rows, kind)]]

-----------------------------------------------------------------------------
(* compareGraphs. *)

ListOf(table, k) == IF k \in DOMAIN table THEN table[k] ELSE <<>>
CountIn(list, v) == Cardinality({i \in 1..Len(list) : list[i] = v})
Elements(list) == {list[i] : i \in 1..Len(list)}

\* multisetDiff: what one list has more often than the other.
Surplus(la, lb) == {v \in Elements(la) : CountIn(la, v) > CountIn(lb, v)}

RawCountDiffs(a, b) == {kind \in Kind : a[kind].count # b[kind].count}

\* Variant: instances that the first dump has more of go unnoticed.
OneSidedDiffs(ta, tb) ==
    {k \in DOMAIN ta \cup DOMAIN tb : Surplus(ListOf(tb, k), ListOf(ta, k)) # {}}
\* compareTable: the identities that differ in multiplicity or in variants.
TableDiffs(ta, tb) ==
    {k \in DOMAIN ta \cup DOMAIN tb :
       \/ Len(ListOf(ta, k)) # Len(ListOf(tb, k))
       \/ Surplus(ListOf(ta, k), ListOf(tb, k)) # {}
       \/ Surplus(ListOf(tb, k), ListOf(ta, k)) # {}}

Equivalent(a, b) ==
    /\ RawCountDiffs(a, b) = {}
    /\ \A kind \in Kind : TableDiffs(a[kind].table, b[kind].table) = {}

\* Controls (i) and (ii): one more instance of an identity, marked; the raw
\* count stays.
InjectDuplicate(g, kind, k) == [g EXCEPT ![kind].table[k] = Append(@, Injected)]

\* Control (iii): an edge with a new identity; here the count grows.
InjectNovelEdge(g, k) ==
    [g EXCEPT !["edge"] =
       [count |-> @.count + 1,
        table |-> [j \in DOMAIN @.table \cup {Novel} |->
                     IF j = Novel THEN <<@.table[k][1]>> ELSE @.table[j]]]]

-----------------------------------------------------------------------------
GraphsInit == rowsA = <<>> /\ rowsB = <<>>

AddToA(row) == Len(rowsA) < MaxRows /\ rowsA' = Append(rowsA, row) /\ UNCHANGED rowsB
AddToB(row) == Len(rowsB) < MaxRows /\ rowsB' = Append(rowsB, row) /\ UNCHANGED rowsA

GraphsNext == \E row \in Row : AddToA(row) \/ AddToB(row)

GraphsSpec == GraphsInit /\ [][GraphsNext]_graphsVars

-----------------------------------------------------------------------------
SameRows == \A row \in Row : CountIn(rowsA, row) = CountIn(rowsB, row)

\* The comparator calls two dumps equivalent exactly if the databases hold the
\* same rows equally often, in whatever order: a duplicate "with no counterpart
\* in the other is a difference", and nothing else is.
EquivalentIffSameRows == Equivalent(Dump(rowsA), Dump(rowsB)) <=> SameRows

\* Each control of an equivalent pair is found, whichever identity it is
\* applied to ("the comparator must FAIL when an extra duplicate instance or an
\* extra edge is injected").
ControlsDetect ==
    LET a == Dump(rowsA)
        b == Dump(rowsB)
    IN  Equivalent(a, b) =>
          /\ \A kind \in Kind : \A k \in DOMAIN a[kind].table :
               ~Equivalent(InjectDuplicate(a, kind, k), b)
          /\ \A k \in DOMAIN a["edge"].table : ~Equivalent(InjectNovelEdge(a, k), b)

\* The comparator accepts two dumps exactly if the rows are the same, and every
\* negative control is found.
ComparatorIsExact == EquivalentIffSameRows /\ ControlsDetect
=============================================================================
