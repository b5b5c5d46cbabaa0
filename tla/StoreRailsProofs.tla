--------------------------- MODULE StoreRailsProofs ----------------------------
(***************************************************************************)
(* Machine-checked proofs about the two rails around a store.  WorkerScope *)
(* keeps addresses apart: for any names, and any namespaces that do not    *)
(* end in an underscore and contain no two in succession                   *)
(* (PartsAssumption), the worker implements the abstract store of          *)
(* addresses.  StoreRoots keeps stores apart: for any tree of directories  *)
(* (TreeAssumption), any links, configurations and instances.              *)
(***************************************************************************)
EXTENDS WorkerScope, StoreRoots, FiniteSetTheorems, SequenceTheorems, TLAPS

(* PART 1: names. *)

\* Cognee's store holds names that the worker made up of addresses, finitely
\* many.
StoredIsMapped ==
    /\ IsFiniteSet(stored)
    /\ \A n \in stored : \E a \in Address : n = ToCogneeName(a)

-----------------------------------------------------------------------------
(* The names. *)

LEMMA SeparatorPair ==
    Separator \in Seq(Char) /\ Len(Separator) = 2
    /\ Separator[1] = Underscore /\ Separator[2] = Underscore
  BY PartsAssumption DEF Separator

\* What partition("__") looks for.
LEMMA SeparatorAt ==
    ASSUME NEW s \in Seq(Char), NEW i \in 1..(Len(s) - 1)
    PROVE  i \in SeparatorsIn(s) <=> s[i] = Underscore /\ s[i + 1] = Underscore
<1> DEFINE t == SubSeq(s, i, i + 1)
<1>1. \A j \in i..(i + 1) : s[j] \in Char
  BY ElementOfSeq, LenProperties
<1>2. /\ t \in Seq(Char) /\ Len(t) = 2
      /\ t[1] = s[i] /\ t[2] = s[i + 1]
  <2>1. i \in Int /\ i + 1 \in Int /\ i <= i + 1 /\ (i + 1) - i + 1 = 2
    BY LenProperties
  <2>2. /\ t \in Seq(Char) /\ Len(t) = 2
        /\ \A j \in 1..2 : t[j] = s[i + j - 1]
    BY <1>1, <2>1, SubSeqProperties
  <2> QED BY <2>1, <2>2
<1> HIDE DEF t
<1>3. ASSUME t[1] = Underscore, t[2] = Underscore PROVE t = Separator
  <2>1. \A j \in 1..2 : t[j] = Separator[j]
    BY <1>3, SeparatorPair
  <2>2. Separator \in Seq(Char) /\ Len(Separator) = Len(t)
    BY <1>2, SeparatorPair
  <2> QED BY <1>2, <2>1, <2>2, SeqEqual
<1>4. t = Separator <=> s[i] = Underscore /\ s[i + 1] = Underscore
  BY <1>2, <1>3, SeparatorPair
<1> QED BY <1>4 DEF SeparatorsIn, t

\* A stored name is the namespace, the separator and the name, place by place.
LEMMA StoredName ==
    ASSUME NEW a \in Address
    PROVE  /\ a[1] \in Seq(Char) /\ ToCogneeName(a) \in Seq(Char)
           /\ Len(a[1]) \in Nat \ {0} /\ Len(ToCogneeName(a)) \in Nat
           /\ Len(ToCogneeName(a)) > Len(a[1]) + 2
           /\ \A i \in 1..Len(a[1]) : ToCogneeName(a)[i] = a[1][i]
           /\ ToCogneeName(a)[Len(a[1]) + 1] = Underscore
           /\ ToCogneeName(a)[Len(a[1]) + 2] = Underscore
           /\ SubSeq(ToCogneeName(a), 1, Len(a[1])) = a[1]
           /\ SubSeq(ToCogneeName(a), Len(a[1]) + 3, Len(ToCogneeName(a))) = a[2]
<1> DEFINE n == a[1]
           m == a[2]
           t == Separator \o m
           s == n \o t
<1>1. /\ n \in Seq(Char) /\ m \in Seq(Char) /\ Len(n) \in Nat \ {0} /\ Len(m) \in Nat \ {0}
  <2>1. n \in Seq(Char) /\ m \in Seq(Char) /\ n # <<>> /\ m # <<>>
    BY PartsAssumption DEF Address
  <2> QED BY <2>1, EmptySeq, LenProperties
<1>2. t \in Seq(Char) /\ Len(t) = 2 + Len(m) /\ t[1] = Underscore /\ t[2] = Underscore
  <2>1. /\ t \in Seq(Char) /\ Len(t) = Len(Separator) + Len(m)
        /\ \A i \in 1..(Len(Separator) + Len(m)) :
             t[i] = IF i <= Len(Separator) THEN Separator[i] ELSE m[i - Len(Separator)]
    BY <1>1, SeparatorPair, ConcatProperties
  <2> QED BY <1>1, <2>1, SeparatorPair
<1> HIDE DEF n, m
<1>3. SubSeq(t, 3, Len(t)) = m
  <2>1. SubSeq(t, 3, 2 + Len(m)) = SubSeq(m, 1, Len(m))
    <3> DEFINE l == Len(Separator)
    <3>1. 3 \in l + 1 .. l + Len(m) /\ 2 + Len(m) \in l + 1 .. l + Len(m)
          /\ 3 - l = 1 /\ (2 + Len(m)) - l = Len(m)
      BY <1>1, SeparatorPair
    <3>2. SubSeq(t, 3, 2 + Len(m)) = SubSeq(m, 3 - l, (2 + Len(m)) - l)
      BY <1>1, <3>1, SeparatorPair, SubSeqOfConcat2
    <3> QED BY <3>1, <3>2
  <2> QED BY <1>1, <1>2, <2>1, SubSeqFull
<1> HIDE DEF t
<1>4. /\ s \in Seq(Char) /\ Len(s) = Len(n) + 2 + Len(m)
      /\ \A i \in 1..(Len(n) + Len(t)) : s[i] = IF i <= Len(n) THEN n[i] ELSE t[i - Len(n)]
  <2>1. s \in Seq(Char) /\ Len(s) = Len(n) + Len(t)
    BY <1>1, <1>2, ConcatProperties
  <2>2. \A i \in 1..(Len(n) + Len(t)) : s[i] = IF i <= Len(n) THEN n[i] ELSE t[i - Len(n)]
    BY <1>1, <1>2, ConcatProperties
  <2> QED BY <1>1, <1>2, <2>1, <2>2
<1>5. SubSeq(s, 1, Len(n)) = n
  <2>1. 1 \in 1..Len(n) /\ Len(n) \in 1..Len(n)
    BY <1>1
  <2>2. SubSeq(s, 1, Len(n)) = SubSeq(n, 1, Len(n))
    BY <1>1, <1>2, <2>1, SubSeqOfConcat1
  <2> QED BY <1>1, <2>2, SubSeqFull
<1>6. SubSeq(s, Len(n) + 3, Len(s)) = m
  <2>1. /\ Len(n) + 3 \in Len(n) + 1 .. Len(n) + Len(t)
        /\ Len(n) + Len(t) \in Len(n) + 1 .. Len(n) + Len(t)
        /\ (Len(n) + 3) - Len(n) = 3 /\ (Len(n) + Len(t)) - Len(n) = Len(t)
    BY <1>1, <1>2
  <2>2. SubSeq(s, Len(n) + 3, Len(n) + Len(t))
          = SubSeq(t, (Len(n) + 3) - Len(n), (Len(n) + Len(t)) - Len(n))
    BY <1>1, <1>2, <2>1, SubSeqOfConcat2
  <2>3. Len(s) = Len(n) + Len(t)
    BY <1>1, <1>2, ConcatProperties
  <2> QED BY <1>3, <2>1, <2>2, <2>3
<1>7. /\ \A i \in 1..Len(n) : s[i] = n[i]
      /\ s[Len(n) + 1] = Underscore /\ s[Len(n) + 2] = Underscore
      /\ Len(s) \in Nat /\ Len(s) > Len(n) + 2
  BY <1>1, <1>2, <1>4
<1>8. s = ToCogneeName(a)
  <2>1. (n \o Separator) \o m = n \o (Separator \o m)
    BY <1>1, SeparatorPair, ConcatAssociative
  <2> QED BY <2>1 DEF ToCogneeName, n, m, t
<1> HIDE DEF s
<1> QED BY <1>1, <1>4, <1>5, <1>6, <1>7, <1>8 DEF n, m

\* The namespace ends where the first separator is.
LEMMA FirstSeparator ==
    ASSUME NEW a \in Address
    PROVE  LET found == SeparatorsIn(ToCogneeName(a))
           IN  found # {} /\ First(found) = Len(a[1]) + 1
<1> DEFINE n == a[1]
           s == ToCogneeName(a)
           k == Len(n) + 1
<1>1. /\ n \in Seq(Char) /\ s \in Seq(Char) /\ Len(n) \in Nat \ {0}
      /\ Len(s) \in Nat /\ Len(s) > Len(n) + 2
      /\ \A i \in 1..Len(n) : s[i] = n[i]
      /\ s[Len(n) + 1] = Underscore /\ s[Len(n) + 2] = Underscore
  BY StoredName
<1>2. SeparatorsIn(n) = {} /\ n[Len(n)] # Underscore
  BY PartsAssumption DEF Address
<1> HIDE DEF n, s
<1>3. k \in SeparatorsIn(s)
  <2>1. k \in 1..(Len(s) - 1) /\ k + 1 = Len(n) + 2
    BY <1>1
  <2> QED BY <1>1, <2>1, SeparatorAt
<1>4. ASSUME NEW i \in SeparatorsIn(s) PROVE i \in Nat /\ k <= i
  <2>1. i \in 1..(Len(s) - 1) /\ s[i] = Underscore /\ s[i + 1] = Underscore
    <3>1. i \in 1..(Len(s) - 1)
      BY DEF SeparatorsIn
    <3> QED BY <1>1, <3>1, SeparatorAt
  <2>2. CASE i < Len(n)
    <3>1. i \in 1..(Len(n) - 1) /\ n[i] = Underscore /\ n[i + 1] = Underscore
      BY <1>1, <2>1, <2>2
    <3> QED BY <1>1, <1>2, <3>1, SeparatorAt
  <2>3. CASE i = Len(n)
    BY <1>1, <1>2, <2>1, <2>3
  <2> QED BY <1>1, <2>1, <2>2, <2>3
<1>5. First(SeparatorsIn(s)) = k
  <2> DEFINE f == First(SeparatorsIn(s))
  <2>1. \E i \in SeparatorsIn(s) : \A j \in SeparatorsIn(s) : i <= j
    BY <1>3, <1>4
  <2>2. f \in SeparatorsIn(s) /\ f <= k
    BY <1>3, <2>1 DEF First
  <2>3. f \in Nat /\ k <= f
    BY <1>4, <2>2
  <2> QED BY <1>1, <2>2, <2>3
<1> QED BY <1>3, <1>5 DEF n, s

\* The worker reads back the address that it stored.
LEMMA ReadsBack ==
    ASSUME NEW a \in Address PROVE FromCogneeName(ToCogneeName(a)) = a
<1>1. a = <<a[1], a[2]>>
  BY DEF Address
<1> DEFINE s == ToCogneeName(a)
           f == First(SeparatorsIn(s))
<1>2. SeparatorsIn(s) # {} /\ f - 1 = Len(a[1]) /\ f + 2 = Len(a[1]) + 3
  <2>1. Len(a[1]) \in Nat
    BY StoredName
  <2> QED BY <2>1, FirstSeparator
<1>3. FromCogneeName(s) = <<SubSeq(s, 1, f - 1), SubSeq(s, f + 2, Len(s))>>
  BY <1>2 DEF FromCogneeName
<1> QED BY <1>1, <1>2, <1>3, StoredName

\* No two addresses share a stored name.
LEMMA KeptApart ==
    ASSUME NEW a \in Address, NEW b \in Address, ToCogneeName(a) = ToCogneeName(b)
    PROVE  a = b
  BY ReadsBack

\* The listing shows what it should.
LEMMA KeptIsGranted ==
    ASSUME NEW a \in Address PROVE Kept(ToCogneeName(a)) <=> NsOf(a) \in granted
<1>1. a[1] \in Ns /\ a[2] \in Name /\ a = <<a[1], a[2]>>
  BY DEF Address
<1>2. a # <<>> /\ a[2] # <<>>
  <2>1. <<a[1], a[2]>> # <<>>
    OBVIOUS
  <2> QED BY <1>1, <2>1, PartsAssumption
<1> QED BY <1>2, ReadsBack DEF Kept

-----------------------------------------------------------------------------
(* The invariant. *)

LEMMA InitMapped == ScopeInit => StoredIsMapped
  BY FS_EmptySet DEF ScopeInit, StoredIsMapped

LEMMA StepMapped == StoredIsMapped /\ [ScopeNext]_scopeVars => StoredIsMapped'
<1> SUFFICES ASSUME StoredIsMapped, [ScopeNext]_scopeVars PROVE StoredIsMapped'
  OBVIOUS
<1>1. CASE UNCHANGED stored
  BY <1>1 DEF StoredIsMapped
<1>2. ASSUME NEW a \in Address, Add(a) PROVE StoredIsMapped'
  BY <1>2, FS_AddElement DEF StoredIsMapped, Add
<1>3. ASSUME NEW a \in Address, Forget(a) PROVE StoredIsMapped'
  BY <1>3, FS_RemoveElement DEF StoredIsMapped, Forget
<1> QED
  BY <1>1, <1>2, <1>3 DEF ScopeNext, scopeVars, Restart, List

-----------------------------------------------------------------------------
(* The refinement: a stored name stands for the address it was made up of. *)

Datasets == {a \in Address : ToCogneeName(a) \in stored}

\* The names that a listing passes over stand for the addresses it must not
\* show, one for one.
LEMMA HiddenNames ==
    ASSUME StoredIsMapped
    PROVE  Cardinality({n \in stored : ~Kept(n)}) = Cardinality(Datasets \ Scoped!Own(granted))
<1> DEFINE H == {n \in stored : ~Kept(n)}
           T == Datasets \ Scoped!Own(granted)
           f == [n \in H |-> FromCogneeName(n)]
<1>1. IsFiniteSet(H)
  BY FS_Subset DEF StoredIsMapped
<1>2. ASSUME NEW n \in H
      PROVE  f[n] \in T /\ ToCogneeName(f[n]) = n
  <2>1. PICK a \in Address : n = ToCogneeName(a)
    BY DEF StoredIsMapped
  <2>2. f[n] = a
    BY <2>1, ReadsBack
  <2>3. NsOf(a) \notin granted
    BY <2>1, KeptIsGranted
  <2>4. a \in Datasets /\ a \notin Scoped!Own(granted)
    BY <2>1, <2>3 DEF Datasets, Scoped!Own
  <2> QED BY <2>1, <2>2, <2>4
<1>3. ASSUME NEW a \in T PROVE ToCogneeName(a) \in H /\ f[ToCogneeName(a)] = a
  <2>1. a \in Address /\ ToCogneeName(a) \in stored /\ NsOf(a) \notin granted
    BY DEF Datasets, Scoped!Own
  <2> QED BY <2>1, KeptIsGranted, ReadsBack
<1>4. f \in Bijection(H, T)
  <2>1. f \in [H -> T]
    BY <1>2
  <2>2. \A m, n \in H : f[m] = f[n] => m = n
    BY <1>2
  <2>3. \A a \in T : \E n \in H : f[n] = a
    BY <1>3
  <2> QED BY <2>1, <2>2, <2>3 DEF Bijection, Injection, Surjection, IsInjective
<1>5. ExistsBijection(H, T)
  BY <1>4 DEF ExistsBijection
<1> QED BY <1>1, <1>5, FS_Bijection

LEMMA ShownNames ==
    ASSUME StoredIsMapped
    PROVE  {FromCogneeName(n) : n \in {m \in stored : Kept(m)}}
             = Datasets \cap Scoped!Own(granted)
<1> DEFINE S == {m \in stored : Kept(m)}
           T == Datasets \cap Scoped!Own(granted)
<1>1. ASSUME NEW n \in S PROVE FromCogneeName(n) \in T
  <2>1. PICK a \in Address : n = ToCogneeName(a)
    BY DEF StoredIsMapped
  <2>2. FromCogneeName(n) = a /\ NsOf(a) \in granted
    BY <2>1, ReadsBack, KeptIsGranted
  <2> QED BY <2>1, <2>2 DEF Datasets, Scoped!Own
<1>2. ASSUME NEW a \in T PROVE \E n \in S : FromCogneeName(n) = a
  <2>1. a \in Address /\ ToCogneeName(a) \in stored /\ NsOf(a) \in granted
    BY DEF Datasets, Scoped!Own
  <2>2. ToCogneeName(a) \in S /\ FromCogneeName(ToCogneeName(a)) = a
    BY <2>1, KeptIsGranted, ReadsBack
  <2> QED BY <2>2
<1> QED BY <1>1, <1>2

LEMMA InitMaps == ScopeInit => Scoped!Init
  BY DEF ScopeInit, Scoped!Init

\* An add or a forget moves the one address it names, because no other shares
\* its stored name.
LEMMA AddMaps == ASSUME NEW a \in Address, Add(a) PROVE Scoped!Add(a)
<1>1. a \in Scoped!Own(granted)
  BY DEF Add, CheckName, Scoped!Own
<1>2. \A b \in Address :
        ToCogneeName(b) \in stored' <=> ToCogneeName(b) \in stored \/ b = a
  BY KeptApart DEF Add
<1>3. Datasets' = Datasets \cup {a}
  BY <1>2 DEF Datasets
<1> QED BY <1>1, <1>3 DEF Add, Scoped!Add, Datasets

LEMMA ForgetMaps == ASSUME NEW a \in Address, Forget(a) PROVE Scoped!Forget(a)
<1>1. a \in Scoped!Own(granted) /\ a \in Datasets
  BY DEF Forget, CheckName, Scoped!Own, Datasets
<1>2. \A b \in Address :
        ToCogneeName(b) \in stored' <=> ToCogneeName(b) \in stored /\ b # a
  BY KeptApart DEF Forget
<1>3. Datasets' = Datasets \ {a}
  BY <1>2 DEF Datasets
<1> QED BY <1>1, <1>3 DEF Forget, Scoped!Forget, Datasets

LEMMA ListMaps == ASSUME StoredIsMapped, List PROVE Scoped!List
<1>1. Datasets' = Datasets
  BY DEF List, Datasets
<1>2. listing' = [shown |-> Datasets \cap Scoped!Own(granted),
                  hidden |-> Cardinality(Datasets \ Scoped!Own(granted))]
  BY HiddenNames, ShownNames DEF List
<1>3. granted' = granted
  BY DEF List
<1>4. \A S : Scoped!Cardinality(S) = Cardinality(S)
  BY DEF Scoped!Cardinality, Cardinality
<1> QED BY <1>1, <1>2, <1>3, <1>4, Zenon DEF Scoped!List, Datasets

LEMMA StepMaps == StoredIsMapped /\ [ScopeNext]_scopeVars => [Scoped!Next]_Scoped!vars
<1> SUFFICES ASSUME StoredIsMapped, [ScopeNext]_scopeVars PROVE [Scoped!Next]_Scoped!vars
  OBVIOUS
<1>1. CASE UNCHANGED scopeVars
  BY <1>1 DEF scopeVars, Scoped!vars
<1>2. ASSUME NEW g \in Grants, Restart(g) PROVE Scoped!Next
  BY <1>2 DEF Restart, Scoped!Restart, Scoped!Next
<1>3. ASSUME NEW a \in Address, Add(a) \/ Forget(a) PROVE Scoped!Next
  BY <1>3, AddMaps, ForgetMaps DEF Scoped!Next
<1>4. CASE List
  BY <1>4, ListMaps DEF Scoped!Next
<1> QED BY <1>1, <1>2, <1>3, <1>4 DEF ScopeNext

\* Through the stored names the worker implements the abstract store of
\* addresses: an add or a forget touches one address, a listing shows those of
\* granted namespaces and counts all others, whatever the names
\* (cognee_worker.py 151-201).
THEOREM KeepsAddressesApart == ScopeSpec => ImplementsScopedDatasets
<1>1. ScopeInit => StoredIsMapped
  BY InitMapped
<1>2. StoredIsMapped /\ [ScopeNext]_scopeVars => StoredIsMapped'
  BY StepMapped
<1>3. ScopeInit => Scoped!Init
  BY InitMaps
<1>4. StoredIsMapped /\ [ScopeNext]_scopeVars => [Scoped!Next]_Scoped!vars
  BY StepMaps
<1> QED BY <1>1, <1>2, <1>3, <1>4, PTL DEF ScopeSpec, ImplementsScopedDatasets, Scoped!Spec

-----------------------------------------------------------------------------
(* PART 2: directories. *)

TypeOK ==
    /\ there \subseteq Path
    /\ lock \in [Dir -> Host \cup {NoHost}]
    /\ pc \in [Host -> {"new", "resolved", "scanning", "refused", "owner", "serving",
                        "closed"}]
    /\ root \in [Host -> Path]
    /\ ahead \in [Host -> Seq(Path)]
    /\ older \in [Host -> SUBSET Dir]

\* An owner's lock is its own until it releases it.
OwnersHold ==
    \A h \in Host : pc[h] \in {"owner", "serving"} => lock[Real(root[h])] = h

\* A lock counts as older only while it is there.
OlderIsLocked == \A h \in Host : \A d \in older[h] : lock[d] # NoHost

\* The directories that a sequence of paths resolves to.
Reals(s) == {Real(p) : p \in Elements(s)}

\* The scan does not get past an older lock.
OlderIsAhead ==
    \A h \in Host : pc[h] \in {"scanning", "owner", "serving"} =>
      older[h] \cap Reals(Above[root[h]]) \subseteq Reals(ahead[h])
ScanIsOver == \A h \in Host : pc[h] \in {"owner", "serving"} => ahead[h] = <<>>

\* What serves was guarded, in a root that is spelled as it resolves.
ServesInside ==
    \A h \in Host : pc[h] = "serving" => Guarded(root[h]) /\ Real(root[h]) = root[h]

IInv ==
    /\ TypeOK /\ OwnersHold /\ OlderIsLocked /\ OlderIsAhead /\ ScanIsOver
    /\ ServesInside

-----------------------------------------------------------------------------
LEMMA Resolved == ASSUME Tree, NEW p \in Path PROVE Real(p) \in Dir /\ Real(p) \in Path
  BY DEF Tree, Path, Real

\* A step of the scan.
LEMMA Scanned ==
    ASSUME NEW q \in Seq(Path), q # <<>>
    PROVE  /\ Tail(q) \in Seq(Path) /\ Head(q) \in Path
           /\ Reals(q) \subseteq Reals(Tail(q)) \cup {Real(Head(q))}
<1>1. /\ Tail(q) \in Seq(Path) /\ Head(q) = q[1] /\ Len(q) \in Nat \ {0}
      /\ Len(Tail(q)) = Len(q) - 1 /\ \A i \in 1..Len(Tail(q)) : Tail(q)[i] = q[i + 1]
  BY HeadTailProperties, EmptySeq
<1>a. /\ Head(q) \in Path
      /\ DOMAIN q = 1..Len(q) /\ DOMAIN Tail(q) = 1..Len(Tail(q))
  <2>1. DOMAIN q = 1..Len(q)
    BY LenProperties
  <2>2. DOMAIN Tail(q) = 1..Len(Tail(q))
    BY <1>1, LenProperties
  <2>3. 1 \in 1..Len(q)
    BY <1>1
  <2>4. q[1] \in Path
    BY <2>3, ElementOfSeq
  <2> QED BY <1>1, <2>1, <2>2, <2>4
<1>2. ASSUME NEW i \in DOMAIN q, i # 1
      PROVE  i - 1 \in DOMAIN Tail(q) /\ q[i] = Tail(q)[i - 1]
  <2>1. i - 1 \in 1..Len(Tail(q)) /\ (i - 1) + 1 = i
    BY <1>1, <1>a, <1>2
  <2> QED BY <1>1, <1>a, <2>1
<1>3. Elements(q) \subseteq Elements(Tail(q)) \cup {Head(q)}
  <2> SUFFICES ASSUME NEW i \in DOMAIN q
               PROVE  q[i] \in Elements(Tail(q)) \cup {q[1]}
    BY <1>1 DEF Elements
  <2>1. CASE i = 1
    BY <2>1
  <2>2. CASE i # 1
    BY <1>2, <2>2 DEF Elements
  <2> QED BY <2>1, <2>2
<1> QED BY <1>1, <1>a, <1>3 DEF Reals

LEMMA NothingAhead == Reals(<<>>) = {}
  BY DEF Reals, Elements

\* The text above a directory is where it lies.
LEMMA DirsAhead == ASSUME Tree, NEW d \in Dir PROVE Reals(Above[d]) = Elements(Above[d])
<1>1. Above[d] \in Seq(Dir)
  BY DEF Tree
<1>2. \A p \in Elements(Above[d]) : p \in Dir
  BY <1>1, ElementOfSeq, LenProperties DEF Elements
<1>3. \A p \in Dir : Real(p) = p
  BY DEF Tree, Real
<1> QED BY <1>2, <1>3 DEF Reals

LEMMA InitOK == ASSUME Tree, RootsInit PROVE IInv
<1>1. TypeOK
  <2>1. ahead \in [Host -> Seq(Path)] /\ older \in [Host -> SUBSET Dir]
    BY DEF RootsInit
  <2> QED BY <2>1 DEF RootsInit, TypeOK
<1>2. OwnersHold /\ OlderIsLocked /\ OlderIsAhead /\ ScanIsOver /\ ServesInside
  BY DEF RootsInit, OwnersHold, OlderIsLocked, OlderIsAhead, ScanIsOver, ServesInside
<1> QED BY <1>1, <1>2 DEF IInv

-----------------------------------------------------------------------------
(* One lemma per action. *)

LEMMA ProvisionOK == ASSUME Tree, IInv, NEW p \in Path, Provision(p) PROVE IInv'
<1> USE DEF IInv, Provision
<1>1. TypeOK'
  BY Resolved DEF TypeOK
<1>2. OwnersHold' /\ OlderIsLocked' /\ OlderIsAhead' /\ ScanIsOver' /\ ServesInside'
  BY DEF OwnersHold, OlderIsLocked, OlderIsAhead, ScanIsOver, ServesInside, Guarded
<1> QED BY <1>1, <1>2

LEMMA ConstructOK == ASSUME Tree, IInv, NEW h \in Host, Construct(h) PROVE IInv'
<1> USE DEF IInv, Construct, Goes
<1>1. /\ \A g \in Host \ {h} : pc'[g] = pc[g] /\ root'[g] = root[g] /\ older'[g] = older[g]
      /\ pc'[h] = "resolved" /\ older'[h] \subseteq Dir
      /\ \A d \in older'[h] : lock[d] # NoHost
  BY DEF TypeOK, Resolves
<1>2. TypeOK'
  <2>1. root' \in [Host -> Path]
    BY Resolved DEF TypeOK, Resolves
  <2> QED BY <1>1, <2>1 DEF TypeOK
<1>3. OwnersHold' /\ OlderIsLocked' /\ OlderIsAhead' /\ ScanIsOver' /\ ServesInside'
  BY <1>1 DEF OwnersHold, OlderIsLocked, OlderIsAhead, ScanIsOver, ServesInside, Guarded
<1> QED BY <1>2, <1>3

LEMMA RootMissingOK == ASSUME Tree, IInv, NEW h \in Host, RootMissing(h) PROVE IInv'
<1> USE DEF IInv, RootMissing, Goes
<1>1. (\A g \in Host \ {h} : pc'[g] = pc[g]) /\ pc'[h] = "refused" /\ TypeOK'
  BY DEF TypeOK
<1>2. OwnersHold' /\ OlderIsLocked' /\ OlderIsAhead' /\ ScanIsOver' /\ ServesInside'
  BY <1>1 DEF OwnersHold, OlderIsLocked, OlderIsAhead, ScanIsOver, ServesInside, Guarded
<1> QED BY <1>1, <1>2

LEMMA RootThereOK == ASSUME Tree, IInv, NEW h \in Host, RootThere(h) PROVE IInv'
<1> USE DEF IInv, RootThere, Goes
<1>1. /\ \A g \in Host \ {h} : pc'[g] = pc[g] /\ ahead'[g] = ahead[g]
      /\ pc'[h] = "scanning" /\ ahead'[h] = Above[root[h]] /\ Above[root[h]] \in Seq(Path)
  BY DEF TypeOK, Tree
<1>2. TypeOK'
  BY <1>1 DEF TypeOK
<1>3. OwnersHold' /\ OlderIsLocked' /\ OlderIsAhead' /\ ScanIsOver' /\ ServesInside'
  BY <1>1 DEF OwnersHold, OlderIsLocked, OlderIsAhead, ScanIsOver, ServesInside, Guarded
<1> QED BY <1>2, <1>3

LEMMA ScanOK == ASSUME Tree, IInv, NEW h \in Host, Scan(h) PROVE IInv'
<1> USE DEF IInv, Scan
<1>1. /\ ahead[h] \in Seq(Path) /\ ahead[h] # <<>>
      /\ Tail(ahead[h]) \in Seq(Path) /\ Head(ahead[h]) \in Path
      /\ Reals(ahead[h]) \subseteq Reals(Tail(ahead[h])) \cup {Real(Head(ahead[h]))}
  BY Scanned DEF TypeOK
<1>2. /\ \A g \in Host \ {h} : pc'[g] = pc[g] /\ ahead'[g] = ahead[g]
      /\ pc'[h] \in {"refused", "scanning"} /\ ahead'[h] = Tail(ahead[h])
      /\ pc'[h] = "scanning" => lock[Real(Head(ahead[h]))] = NoHost
  BY DEF TypeOK
<1>3. TypeOK'
  BY <1>1, <1>2 DEF TypeOK
<1>4. OlderIsAhead'
  <2> SUFFICES ASSUME NEW g \in Host, pc'[g] \in {"scanning", "owner", "serving"}
               PROVE  older[g] \cap Reals(Above[root[g]]) \subseteq Reals(ahead'[g])
    BY DEF OlderIsAhead
  <2>1. CASE g # h
    BY <1>2, <2>1 DEF OlderIsAhead
  <2>2. CASE g = h
    <3>1. Real(Head(ahead[h])) \notin older[h]
      BY <1>2, <2>2 DEF OlderIsLocked
    <3>2. older[h] \cap Reals(Above[root[h]]) \subseteq Reals(ahead[h])
      BY DEF OlderIsAhead
    <3> QED BY <1>1, <1>2, <2>2, <3>1, <3>2
  <2> QED BY <2>1, <2>2
<1>5. OwnersHold' /\ OlderIsLocked' /\ ScanIsOver' /\ ServesInside'
  BY <1>2 DEF OwnersHold, OlderIsLocked, ScanIsOver, ServesInside, Guarded
<1> QED BY <1>3, <1>4, <1>5

LEMMA ClaimOK == ASSUME Tree, IInv, NEW h \in Host, Claim(h) PROVE IInv'
<1> USE DEF IInv, Claim, Goes
<1>1. CASE lock[Real(root[h])] = NoHost
  <2> DEFINE d == Real(root[h])
  <2>1. /\ d \in Dir /\ lock[d] = NoHost /\ lock' = [lock EXCEPT ![d] = h]
        /\ \A g \in Host \ {h} : pc'[g] = pc[g]
        /\ pc'[h] = "owner" /\ pc[h] = "scanning" /\ ahead[h] = <<>>
        /\ \A e \in Dir : lock'[e] = IF e = d THEN h ELSE lock[e]
    BY <1>1, Resolved DEF TypeOK
  <2>2. \A g \in Host : Real(root[g]) \in Dir
    BY Resolved DEF TypeOK
  <2> HIDE DEF d
  <2>3. TypeOK'
    <3>1. lock' \in [Dir -> Host \cup {NoHost}]
      BY <2>1 DEF TypeOK
    <3>2. pc' \in [Host -> {"new", "resolved", "scanning", "refused", "owner", "serving",
                           "closed"}]
      BY <1>1 DEF TypeOK
    <3> QED BY <3>1, <3>2 DEF TypeOK
  <2>4. OwnersHold'
    <3> SUFFICES ASSUME NEW g \in Host, pc'[g] \in {"owner", "serving"}
                 PROVE  lock'[Real(root[g])] = g
      BY DEF OwnersHold
    <3>1. CASE g = h
      BY <2>1, <3>1 DEF d
    <3>2. CASE g # h
      <4>1. lock[Real(root[g])] = g /\ g # NoHost
        BY <2>1, <3>2 DEF OwnersHold, Tree
      <4> QED BY <2>1, <2>2, <4>1
    <3> QED BY <3>1, <3>2
  <2>5. OlderIsLocked'
    BY <2>1 DEF OlderIsLocked, TypeOK, Tree
  <2>6. OlderIsAhead' /\ ScanIsOver' /\ ServesInside'
    BY <2>1 DEF OlderIsAhead, ScanIsOver, ServesInside, Guarded
  <2> QED BY <2>3, <2>4, <2>5, <2>6
<1>2. CASE lock[Real(root[h])] # NoHost
  <2>1. /\ \A g \in Host \ {h} : pc'[g] = pc[g]
        /\ pc'[h] = "refused" /\ lock' = lock /\ TypeOK'
    BY <1>2 DEF TypeOK
  <2>2. OwnersHold' /\ OlderIsLocked' /\ OlderIsAhead' /\ ScanIsOver' /\ ServesInside'
    BY <2>1 DEF OwnersHold, OlderIsLocked, OlderIsAhead, ScanIsOver, ServesInside, Guarded
  <2> QED BY <2>1, <2>2
<1> QED BY <1>1, <1>2

LEMMA ServesOK == ASSUME Tree, IInv, NEW h \in Host, Serves(h) PROVE IInv'
<1> USE DEF IInv, Serves, Goes
<1>1. /\ \A g \in Host \ {h} : pc'[g] = pc[g]
      /\ pc'[h] = "serving" /\ pc[h] = "owner" /\ TypeOK'
      /\ Guarded(root[h]) /\ Real(root[h]) = root[h]
  BY DEF TypeOK
<1>2. OwnersHold' /\ OlderIsLocked' /\ OlderIsAhead' /\ ScanIsOver'
  BY <1>1 DEF OwnersHold, OlderIsLocked, OlderIsAhead, ScanIsOver
<1>3. ServesInside'
  BY <1>1 DEF ServesInside, Guarded
<1> QED BY <1>1, <1>2, <1>3

LEMMA ReleaseOK == ASSUME Tree, IInv, NEW h \in Host, Release(h) PROVE IInv'
<1> USE DEF IInv, Release
<1> DEFINE d == Real(root[h])
<1>1. /\ d \in Dir /\ lock[d] = h
      /\ \A e \in Dir : lock'[e] = IF e = d THEN NoHost ELSE lock[e]
      /\ \A g \in Host \ {h} : pc'[g] = pc[g]
      /\ pc'[h] = "closed" /\ \A g \in Host : older'[g] = older[g] \ {d}
  BY Resolved DEF TypeOK, OwnersHold
<1>2. \A g \in Host : Real(root[g]) \in Dir
  BY Resolved DEF TypeOK
<1>3. TypeOK'
  BY <1>1 DEF TypeOK
<1> HIDE DEF d
<1>4. OwnersHold'
  <2> SUFFICES ASSUME NEW g \in Host, pc'[g] \in {"owner", "serving"}
               PROVE  lock'[Real(root[g])] = g
    BY DEF OwnersHold
  <2>1. g # h /\ lock[Real(root[g])] = g
    BY <1>1 DEF OwnersHold
  <2> QED BY <1>1, <1>2, <2>1
<1>5. OlderIsLocked'
  BY <1>1 DEF OlderIsLocked, TypeOK
<1>6. OlderIsAhead' /\ ScanIsOver' /\ ServesInside'
  BY <1>1 DEF OlderIsAhead, ScanIsOver, ServesInside, Guarded
<1> QED BY <1>3, <1>4, <1>5, <1>6

LEMMA StutterOK == ASSUME IInv, UNCHANGED rootsVars PROVE IInv'
  BY DEF IInv, rootsVars, TypeOK, OwnersHold, OlderIsLocked, OlderIsAhead, ScanIsOver,
         ServesInside, Guarded

LEMMA IInvStep == ASSUME Tree PROVE IInv /\ [RootsNext]_rootsVars => IInv'
  BY ProvisionOK, ConstructOK, RootMissingOK, RootThereOK, ScanOK, ClaimOK, ServesOK,
     ReleaseOK, StutterOK DEF RootsNext

-----------------------------------------------------------------------------
\* Where one directory lies at or above another, all that is below is below.
LEMMA WithinTransitive ==
    ASSUME Tree, NEW a \in Dir, NEW b, NEW c, Within(a, b), Within(b, c)
    PROVE  Within(a, c)
  BY DEF Tree, Within

\* Two directories that a third one is within lie in one another.
LEMMA WithinComparable ==
    ASSUME Tree, NEW a \in Dir, NEW b, NEW c, Within(a, b), Within(a, c)
    PROVE  Overlap(b, c)
  BY DEF Tree, Within, Overlap

\* The places of a store that does not lead out of itself are within its root.
LEMMA TouchedWithin ==
    ASSUME Tree, IInv, NEW h \in Host, Works(h), ~LeadsOut(h)
    PROVE  /\ root[h] \in Dir /\ Home(h) = root[h]
           /\ \A a \in Touched(h) : a \in Dir /\ Within(a, Home(h))
<1>1. Real(root[h]) = root[h] /\ root[h] \in Dir /\ Guarded(root[h])
  BY Resolved DEF IInv, ServesInside, Works, TypeOK
<1>2. \A p \in places[root[h]] : p \in Path /\ Within(p, root[h])
  BY <1>1 DEF Guarded
<1>3. \A p \in places[root[h]] : Real(p) \in Dir /\ Within(Real(p), root[h])
  BY <1>1, <1>2, Resolved DEF LeadsOut, Home
<1> QED BY <1>1, <1>3 DEF Home, Touched

\* Two instances whose workers serve lie in one another or apart; one that lies
\* in an older one's root would have met its lock in the scan, and two on one
\* root would both hold its lock.
LEMMA Apart == ASSUME Tree, IInv PROVE OlderStoreUntouched
<1> SUFFICES ASSUME NEW h \in Host, NEW g \in Host, h # g, Works(h), Works(g),
                    Home(g) \in older[h], ~Around(h, g), ~LeadsOut(h), ~LeadsOut(g),
                    NEW a \in Touched(h), NEW b \in Touched(g), Overlap(a, b)
             PROVE  FALSE
  BY DEF OlderStoreUntouched
<1> DEFINE d == root[h]
           e == root[g]
<1>1. /\ d \in Dir /\ Home(h) = d /\ a \in Dir /\ Within(a, d)
      /\ e \in Dir /\ Home(g) = e /\ b \in Dir /\ Within(b, e)
  BY TouchedWithin
<1>2. d # e
  BY <1>1 DEF IInv, OwnersHold, Works, Home
<1>3. e \notin Elements(Above[d])
  <2>1. older[h] \cap Reals(Above[d]) \subseteq Reals(ahead[h]) /\ ahead[h] = <<>>
    BY DEF IInv, OlderIsAhead, ScanIsOver, Works
  <2>2. Reals(Above[d]) = Elements(Above[d])
    BY <1>1, DirsAhead
  <2> QED BY <1>1, <2>1, <2>2, NothingAhead
<1>4. d \notin Elements(Above[e])
  BY <1>1 DEF Around
<1> HIDE DEF d, e
<1>5. Overlap(d, e)
  <2>1. CASE Within(a, b)
    BY <1>1, <2>1, WithinTransitive, WithinComparable
  <2>2. CASE Within(b, a)
    BY <1>1, <2>2, WithinTransitive, WithinComparable
  <2> QED BY <2>1, <2>2 DEF Overlap
<1> QED BY <1>2, <1>3, <1>4, <1>5 DEF Overlap, Within

\* No place of an instance that serves overlaps one of an instance whose lock
\* was there before it, unless it was put around that one's root or one of the
\* two configurations names a link that leads out of its root: for any tree,
\* any links, and any other configurations.
THEOREM OlderStoresStayApart == RootsSpec => []OlderStoreUntouched
<1>1. RootsInit => IInv
  BY InitOK, TreeAssumption
<1>2. IInv /\ [RootsNext]_rootsVars => IInv'
  BY IInvStep, TreeAssumption
<1>3. IInv => OlderStoreUntouched
  BY Apart, TreeAssumption
<1> QED BY <1>1, <1>2, <1>3, PTL DEF RootsSpec
=============================================================================
