------------------------------- MODULE WorkerScope -------------------------------
(***************************************************************************)
(* The scope rail of pack/src/worker/cognee_worker.py: an interface        *)
(* address <ns>.<name> is checked against the granted namespaces, stored   *)
(* under one name with a double underscore in the dot's place, and read    *)
(* back from that name when the store is listed.  The mapping is what the  *)
(* properties are about, so names are sequences of characters here.        *)
(***************************************************************************)
EXTENDS Naturals, Sequences, FiniteSets

CONSTANTS
    Char,           \* of addresses: no dot and no blank
    Ns, Name,       \* parts of addresses
    Grants,         \* the --allow-ns sets that workers are started with
    Underscore

VARIABLES
    stored,     \* names of the datasets in Cognee's store
    granted,    \* Scope.namespaces of the running worker
    listing     \* the last answer of datasetsStatus

scopeVars == <<stored, granted, listing>>

Address == Ns \X Name
NsOf(addr) == addr[1]
Separator == <<Underscore, Underscore>>

\* to_cognee_name
ToCogneeName(addr) == addr[1] \o Separator \o addr[2]

\* Where partition("__") finds the separator: everywhere it could be.
SeparatorsIn(name) ==
    {i \in 1..(Len(name) - 1) : SubSeq(name, i, i + 1) = Separator}
\* Variant: the last one is taken.
LastOf(positions) == CHOOSE i \in positions : \A j \in positions : j <= i
First(positions) == CHOOSE i \in positions : \A j \in positions : i <= j

\* The first separator in a stored name is the one that to_cognee_name put
\* there, whatever the name behind it, for these namespaces and no others; the
\* pilot's and the proofs' have no underscore at all.
ASSUME PartsAssumption ==
    /\ Underscore \in Char
    /\ \A n \in Ns : /\ n \in Seq(Char) /\ n # <<>>
                    /\ SeparatorsIn(n) = {} /\ n[Len(n)] # Underscore
    /\ \A n \in Name : n \in Seq(Char) /\ n # <<>>

\* The address that filter_names reads from a stored name, <<>> for none.
FromCogneeName(name) ==
    IF SeparatorsIn(name) = {} THEN <<>>
    ELSE LET i == First(SeparatorsIn(name))
         IN  <<SubSeq(name, 1, i - 1), SubSeq(name, i + 2, Len(name))>>

\* check_name
CheckName(addr) == NsOf(addr) \in granted

\* filter_names keeps a name with a separator, a granted namespace before it
\* and something behind it.
Kept(name) ==
    LET addr == FromCogneeName(name)
    IN  addr # <<>> /\ NsOf(addr) \in granted /\ addr[2] # <<>>

-----------------------------------------------------------------------------
ScopeInit ==
    /\ stored = {} /\ granted \in Grants
    /\ listing = [shown |-> {}, hidden |-> 0]

\* main(): a worker is started on the store with other namespaces.
Restart(g) == granted' = g /\ UNCHANGED <<stored, listing>>

Add(addr) ==
    /\ CheckName(addr)
    /\ stored' = stored \cup {ToCogneeName(addr)}
    /\ UNCHANGED <<granted, listing>>

Forget(addr) ==
    /\ CheckName(addr)
    /\ ToCogneeName(addr) \in stored
    /\ stored' = stored \ {ToCogneeName(addr)}
    /\ UNCHANGED <<granted, listing>>

\* datasets_status
List ==
    /\ listing' = [shown |-> {FromCogneeName(n) : n \in {m \in stored : Kept(m)}},
                   hidden |-> Cardinality({n \in stored : ~Kept(n)})]
    /\ UNCHANGED <<stored, granted>>

ScopeNext ==
    \/ \E g \in Grants : Restart(g)
    \/ \E a \in Address : Add(a) \/ Forget(a)
    \/ List

ScopeSpec == ScopeInit /\ [][ScopeNext]_scopeVars

-----------------------------------------------------------------------------
\* Through the stored names, the worker keeps the promise about addresses: an
\* add or a forget touches one address, and a listing shows the granted ones
\* with data and counts all others (header of cognee_worker.py 18-19; contract
\* section 4: "never revealed - not by name").
Scoped ==
    INSTANCE ScopedDatasets
      WITH datasets <- {a \in Address : ToCogneeName(a) \in stored}
ImplementsScopedDatasets == Scoped!Spec
=============================================================================
