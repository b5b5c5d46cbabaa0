-------------------------- MODULE WorkerJournalProofs ---------------------------
(***************************************************************************)
(* Machine-checked proofs about WorkerJournal, for any keys, datasets and  *)
(* contents and any bounds.                                                *)
(***************************************************************************)
EXTENDS WorkerJournal, WellFoundedInduction, FiniteSetTheorems, SequenceTheorems, TLAPS

-----------------------------------------------------------------------------
(* What find() returns. *)

\* A set of positions has a last one.
LEMMA HasLast ==
    ASSUME NEW n \in Nat, NEW I \in SUBSET (1..n), I # {}
    PROVE  \E m \in I : \A i \in I : m >= i
<1> DEFINE T == {n - i : i \in I}
<1>1. T \subseteq Nat
  <2>1. \A i \in I : n - i \in Nat
    OBVIOUS
  <2> QED BY <2>1
<1>2. T # {}
  OBVIOUS
<1>3. \E x \in T : \A y \in T : ~(<<y, x>> \in OpToRel(<, Nat))
  <2> HIDE DEF T
  <2> QED BY <1>1, <1>2, NatLessThanWellFounded, WFMin
<1>4. PICK x \in T : \A y \in T : ~(y < x)
  BY <1>1, <1>3 DEF OpToRel
<1>5. PICK m \in I : x = n - m
  OBVIOUS
<1>6. \A i \in I : ~(n - i < n - m)
  BY <1>4, <1>5
<1> QED BY <1>6

\* The readable records of a key in a journal, and the latest of them.
Readable(s, k) == {n \in 1..Len(s) : s[n].state # "garbled" /\ s[n].key = k}
LastOf(s, k) ==
    LET n == SelectLastInSeq(s, LAMBDA line : line.state # "garbled" /\ line.key = k)
    IN  IF n = 0 THEN NoRecord ELSE s[n]

LEMMA LastExists ==
    ASSUME NEW s \in Seq(Line), NEW k
    PROVE  \/ Readable(s, k) = {} /\ LastOf(s, k) = NoRecord
           \/ \E m \in Readable(s, k) :
                (\A i \in Readable(s, k) : m >= i) /\ LastOf(s, k) = s[m]
<1> DEFINE I == {n \in 1..Len(s) : s[n].state # "garbled" /\ s[n].key = k}
<1>1. CASE I = {}
  BY <1>1 DEF Readable, LastOf, SelectLastInSeq
<1>2. CASE I # {}
  <2>1. Len(s) \in Nat
    OBVIOUS
  <2>2. \E m \in I : \A i \in I : m >= i
    BY <1>2, <2>1, HasLast
  <2>3. Max(I) \in I /\ \A i \in I : Max(I) >= i
    BY <2>2 DEF Max
  <2>4. Max(I) # 0
    BY <2>3
  <2>5. SelectLastInSeq(s, LAMBDA line : line.state # "garbled" /\ line.key = k) = Max(I)
    BY <1>2 DEF SelectLastInSeq
  <2>6. LastOf(s, k) = s[Max(I)]
    BY <2>4, <2>5 DEF LastOf
  <2> QED BY <2>3, <2>6 DEF Readable
<1> QED BY <1>1, <1>2

LEMMA LastOfAppend ==
    ASSUME NEW s \in Seq(Line), NEW rec \in Line, rec.state # "garbled", NEW k
    PROVE  LastOf(Append(s, rec), k) = IF rec.key = k THEN rec ELSE LastOf(s, k)
<1> DEFINE t == Append(s, rec)
<1>1. t \in Seq(Line) /\ Len(t) = Len(s) + 1 /\ t[Len(s) + 1] = rec
      /\ \A n \in 1..Len(s) : t[n] = s[n]
  BY AppendProperties
<1>2. Len(s) \in Nat
  OBVIOUS
<1>3. Readable(t, k) = Readable(s, k) \cup (IF rec.key = k THEN {Len(s) + 1} ELSE {})
  <2> HIDE DEF t
  <2> QED BY <1>1, <1>2 DEF Readable
<1>4. \A n \in Readable(s, k) : n \in 1..Len(s) /\ n < Len(s) + 1
  BY <1>2 DEF Readable
<1> HIDE DEF t
<1>5. CASE rec.key = k
  <2>1. Len(s) + 1 \in Readable(t, k)
    BY <1>3, <1>5
  <2>2. PICK m \in Readable(t, k) :
          (\A i \in Readable(t, k) : m >= i) /\ LastOf(t, k) = t[m]
    BY <1>1, <2>1, LastExists
  <2>3. m = Len(s) + 1
    <3>1. m \in 1..Len(t)
      BY <2>2 DEF Readable
    <3> QED BY <1>1, <1>2, <2>1, <2>2, <3>1
  <2> QED BY <1>1, <1>5, <2>2, <2>3 DEF t
<1>6. CASE rec.key # k
  <2>1. Readable(t, k) = Readable(s, k)
    BY <1>3, <1>6
  <2>2. CASE Readable(s, k) = {}
    BY <1>1, <1>6, <2>1, <2>2, LastExists DEF t
  <2>3. CASE Readable(s, k) # {}
    <3>1. PICK m \in Readable(s, k) :
            (\A i \in Readable(s, k) : m >= i) /\ LastOf(s, k) = s[m]
      BY <2>3, LastExists
    <3>2. PICK l \in Readable(t, k) :
            (\A i \in Readable(t, k) : l >= i) /\ LastOf(t, k) = t[l]
      BY <1>1, <2>1, <2>3, LastExists
    <3>3. l = m
      BY <1>2, <1>4, <2>1, <3>1, <3>2
    <3> QED BY <1>1, <1>4, <1>6, <3>1, <3>2, <3>3 DEF t
  <2> QED BY <2>2, <2>3
<1> QED BY <1>5, <1>6

LEMMA FindIsLast == \A k : Find(k) = LastOf(journal, k)
  BY DEF Find, LastOf, SelectLastInSeq

LEMMA FindIsLastNext == \A k : Find(k)' = LastOf(journal', k)
  BY DEF Find, LastOf, SelectLastInSeq

LEMMA FindTyped ==
    ASSUME TypeOK, NEW k \in Key, Find(k) # NoRecord
    PROVE  Find(k) \in Line \ {Garbled} /\ Find(k).key = k
<1>1. Find(k) = LastOf(journal, k) /\ journal \in Seq(Line)
  BY FindIsLast DEF TypeOK
<1>2. PICK m \in Readable(journal, k) : Find(k) = journal[m]
  BY <1>1, LastExists
<1>3. m \in 1..Len(journal) /\ journal[m].state # "garbled" /\ journal[m].key = k
  BY <1>2 DEF Readable
<1>4. journal[m] \in Line
  BY <1>1, <1>3
<1> QED BY <1>2, <1>3, <1>4 DEF Garbled

\* A record that was found is begun or completed, with what it is bound to.
LEMMA FoundShape ==
    ASSUME TypeOK, NEW k \in Key, Find(k).state \in {"begun", "completed"}
    PROVE  /\ Find(k) # NoRecord /\ Find(k).key = k
           /\ Find(k).bind \in Binding /\ Find(k).before \in Count
           /\ Find(k).state = "completed" => Find(k).after \in Count
<1>1. Find(k) # NoRecord
  BY DEF NoRecord
<1>2. Find(k) \in Line \ {Garbled} /\ Find(k).key = k
  BY <1>1, FindTyped
<1> QED BY <1>1, <1>2 DEF Line

LEMMA CountsTyped ==
    ASSUME NEW stored \in SUBSET Content PROVE Counts(stored) \subseteq Count
<1>1. IsFiniteSet(stored) /\ Cardinality(stored) <= Cardinality(Content)
  BY ContentAssumption, FS_Subset
<1>2. Cardinality(stored) \in Nat /\ Cardinality(Content) \in Nat
  BY <1>1, ContentAssumption, FS_CardinalityType
<1> QED BY <1>1, <1>2 DEF Counts, Count

Job == [key : Key, bind : Binding, before : Count, after : Count]

LEMMA JobIsReal == NoJob \notin Job /\ 0 \in Count /\ Count \subseteq Int
<1>1. Cardinality(Content) \in Nat
  BY ContentAssumption, FS_CardinalityType
<1>2. Count \subseteq Int /\ 0 \in Count
  BY <1>1 DEF Count
<1>3. Job \subseteq [key : Key, bind : Binding, before : Int, after : Int]
  BY <1>2 DEF Job
<1> QED BY <1>2, <1>3, JobAssumption

LEMMA AppendTyped ==
    ASSUME TypeOK, NEW rec \in Line
    PROVE  Append1(rec) \in Seq(Line) /\ Cut(rec) \subseteq Seq(Line)
<1>1. Append(journal, rec) \in Seq(Line) /\ Append(journal, Garbled) \in Seq(Line)
  BY DEF TypeOK, Line
<1>2. [journal EXCEPT ![Len(journal)] = Garbled] \in Seq(Line)
  <2>1. Garbled \in Line /\ journal \in Seq(Line)
    BY DEF Line, TypeOK
  <2> HIDE DEF Garbled, Line
  <2>2. CASE Len(journal) \in 1..Len(journal)
    BY <2>1, <2>2, ExceptSeq
  <2>3. CASE Len(journal) \notin 1..Len(journal)
    <3>1. [journal EXCEPT ![Len(journal)] = Garbled] = journal
      BY <2>1, <2>3
    <3> QED BY <2>1, <3>1
  <2> QED BY <2>2, <2>3
<1> QED BY <1>1, <1>2 DEF Append1, Cut

LEMMA RecordsTyped ==
    ASSUME NEW j \in Job
    PROVE  /\ Begun(j) \in Line /\ Completed(j) \in Line
           /\ Begun(j).state # "garbled" /\ Completed(j).state # "garbled"
  BY DEF Begun, Completed, Line, Job

\* Every variable stays in its domain, and a dataset that Cognee does not know
\* is empty.
LEMMA TypeInit == Init => TypeOK
<1> SUFFICES ASSUME Init PROVE TypeOK
  OBVIOUS
<1>1. journal \in Seq(Line)
  BY DEF Init
<1>2. runs \in [Key -> 0..MaxRuns] /\ ranAs \in [Key -> SUBSET Binding]
  BY BoundAssumption DEF Init
<1>3. items \in [Dataset -> SUBSET Content] /\ \A d \in Dataset : items[d] = {}
  BY DEF Init
<1>4. acked \in [Key -> SUBSET [before : Count, after : Count]]
  BY DEF Init
<1> QED BY <1>1, <1>2, <1>3, <1>4 DEF Init, TypeOK

LEMMA TypeStep == TypeOK /\ [Next]_vars => TypeOK'
<1> SUFFICES ASSUME TypeOK, [Next]_vars PROVE TypeOK'
  OBVIOUS
<1> USE JobIsReal DEF Job
<1>1. ASSUME NEW k \in Key, NEW b \in Binding, ReceiveReplay(k, b) PROVE TypeOK'
  <2>1. Find(k).before \in Count /\ Find(k).after \in Count
    BY <1>1, FoundShape DEF ReceiveReplay
  <2> HIDE DEF Count
  <2> QED BY <1>1, <2>1 DEF ReceiveReplay, Receipt, TypeOK, store
<1>2. ASSUME NEW k \in Key, NEW b \in Binding, ReceiveReissue(k, b) PROVE TypeOK'
  <2>1. Find(k).before \in Count
    BY <1>2, FoundShape DEF ReceiveReissue
  <2>2. job' \in Job /\ pc' = "execute"
    BY <1>2, <2>1 DEF ReceiveReissue
  <2> QED BY <1>2, <2>2 DEF ReceiveReissue, TypeOK, store, seen
<1>3. ASSUME NEW k \in Key, NEW b \in Binding, ReceiveFresh(k, b) PROVE TypeOK'
  <2>1. b.dataset \in Dataset
    BY DEF Binding
  <2>2. Counts(items[b.dataset]) \subseteq Count
    BY <2>1, CountsTyped DEF TypeOK
  <2>3. job' \in Job /\ pc' = "begin"
    BY <1>3, <2>2 DEF ReceiveFresh
  <2> QED BY <1>3, <2>3 DEF ReceiveFresh, TypeOK, store, seen
<1>4. CASE Begin
  <2>1. job \in Job
    BY <1>4 DEF Begin, TypeOK
  <2>2. journal' \in Seq(Line)
    BY <1>4, <2>1, RecordsTyped, AppendTyped DEF Begin
  <2> QED BY <1>4, <2>1, <2>2 DEF Begin, TypeOK, store, seen
<1>5. ASSUME job \in Job, Executed
      PROVE  /\ items' \in [Dataset -> SUBSET Content] /\ exists' \subseteq Dataset
             /\ \A d \in Dataset : items'[d] # {} => d \in exists'
             /\ runs' \in [Key -> 0..MaxRuns] /\ ranAs' \in [Key -> SUBSET Binding]
             /\ forgotten' \subseteq Dataset \X Content
  <2>1. runs' \in [Key -> 0..MaxRuns] /\ ranAs' \in [Key -> SUBSET Binding]
    BY <1>5, BoundAssumption DEF Executed, TypeOK
  <2>2. CASE job.bind.op = "add"
    <3>1. job.bind.dataset \in Dataset /\ job.bind.content \in Content
      BY <1>5, <2>2 DEF Binding
    <3>2. exists' = exists \cup {job.bind.dataset}
      BY <1>5, <2>2 DEF Executed
    <3>3. items' = [items EXCEPT ![job.bind.dataset] = @ \cup {job.bind.content}]
      BY <1>5, <2>2 DEF Executed
    <3>4. forgotten' \subseteq forgotten
      BY <1>5, <2>2 DEF Executed
    <3> QED BY <2>1, <3>1, <3>2, <3>3, <3>4 DEF TypeOK
  <2>3. CASE job.bind.op # "add"
    BY <1>5, <2>1, <2>3 DEF Executed, TypeOK, store
  <2> QED BY <2>2, <2>3
<1>6. CASE Execute
  <2>1. job \in Job
    BY <1>6 DEF Execute, TypeOK
  <2>2. job.bind.dataset \in Dataset
    BY <2>1 DEF Binding
  <2>3. Counts(items'[job.bind.dataset]) \subseteq Count
    BY <1>5, <1>6, <2>1, <2>2, CountsTyped DEF Execute
  <2>4. job' \in Job /\ pc' = "commit"
    BY <1>6, <2>1, <2>3 DEF Execute
  <2> QED BY <1>5, <1>6, <2>1, <2>4 DEF Execute, TypeOK
<1>7. CASE ExecuteFails
  <2>1. job \in Job
    BY <1>7 DEF ExecuteFails, TypeOK
  <2>2. CASE Executed
    BY <1>5, <1>7, <2>1, <2>2 DEF ExecuteFails, Idle, TypeOK
  <2>3. CASE UNCHANGED <<store, runs, ranAs, forgotten>>
    BY <1>7, <2>3 DEF ExecuteFails, Idle, TypeOK, store
  <2> QED BY <1>7, <2>2, <2>3 DEF ExecuteFails
<1>8. CASE Commit
  <2>1. job \in Job
    BY <1>8 DEF Commit, TypeOK
  <2>2. journal' \in Seq(Line)
    BY <1>8, <2>1, RecordsTyped, AppendTyped DEF Commit
  <2> QED BY <1>8, <2>1, <2>2 DEF Commit, TypeOK, store, seen
<1>9. CASE Reply
  <2>1. job \in Job
    BY <1>9 DEF Reply, TypeOK
  <2> QED BY <1>9, <2>1 DEF Reply, Receipt, Idle, TypeOK, store
<1>10. ASSUME NEW d \in Dataset, Forget(d) PROVE TypeOK'
  BY <1>10 DEF Forget, TypeOK
<1>11. CASE Crash
  BY <1>11 DEF Crash, Idle, TypeOK, store, seen
<1>12. CASE AppendCut
  <2>1. job \in Job
    BY <1>12 DEF AppendCut, TypeOK
  <2>2. journal' \in Seq(Line)
    BY <1>12, <2>1, RecordsTyped, AppendTyped DEF AppendCut
  <2> QED BY <1>12, <2>2 DEF AppendCut, Idle, TypeOK, store, seen
<1>13. CASE UNCHANGED vars
  BY <1>13 DEF vars, TypeOK, store, seen
<1> QED
  BY <1>1, <1>2, <1>3, <1>4, <1>6, <1>7, <1>8, <1>9, <1>10, <1>11, <1>12, <1>13 DEF Next

\* Every variable stays in its domain, torn appends included.
THEOREM TypeCorrect == Spec => []TypeOK
  BY TypeInit, TypeStep, PTL DEF Spec

-----------------------------------------------------------------------------
(* Receipts and effects, whatever becomes of the journal's last line. *)

LEMMA FoundIsLine ==
    ASSUME TypeOK, NEW k \in Key, Find(k).state \in {"begun", "completed"}
    PROVE  \E n \in 1..Len(journal) : journal[n] = Find(k) /\ journal[n].key = k
<1>1. Find(k) = LastOf(journal, k) /\ journal \in Seq(Line) /\ Find(k) # NoRecord
  BY FindIsLast DEF TypeOK, NoRecord
<1>2. PICK m \in Readable(journal, k) : Find(k) = journal[m]
  BY <1>1, LastExists
<1> QED BY <1>2 DEF Readable

\* An append adds one line, and garbles at most one.
LEMMA AppendedLines ==
    ASSUME TypeOK, NEW rec \in Line, NEW s \in {Append1(rec)} \cup Cut(rec),
           NEW n \in 1..Len(s)
    PROVE  s[n] \in {Garbled, rec} \/ (n \in 1..Len(journal) /\ s[n] = journal[n])
<1>1. journal \in Seq(Line) /\ Garbled \in Line
  BY DEF TypeOK, Line
<1>2. \/ \E r \in {Garbled, rec} : s = Append(journal, r)
      \/ s = [journal EXCEPT ![Len(journal)] = Garbled]
  BY DEF Append1, Cut
<1> HIDE DEF Garbled, Line
<1>3. ASSUME NEW r \in {Garbled, rec}, s = Append(journal, r)
      PROVE  s[n] = r \/ (n \in 1..Len(journal) /\ s[n] = journal[n])
  BY <1>1, <1>3, AppendProperties
<1>4. CASE s = [journal EXCEPT ![Len(journal)] = Garbled]
  <2>1. Len(s) = Len(journal)
    BY <1>1, <1>4
  <2>2. DOMAIN journal = 1..Len(journal)
    BY <1>1
  <2>3. s[n] = IF n = Len(journal) THEN Garbled ELSE journal[n]
    BY <1>4, <2>1, <2>2
  <2> QED BY <2>1, <2>3
<1> QED BY <1>2, <1>3, <1>4

Landed ==
    \A k \in Key : \A b \in ranAs[k] :
      b.op = "add" => \/ b.content \in items[b.dataset]
                      \/ <<b.dataset, b.content>> \in forgotten
CompletedRan ==
    \A n \in 1..Len(journal) : journal[n].state = "completed" => ranAs[journal[n].key] # {}
JobRan == pc \in {"commit", "reply"} => ranAs[job.key] # {}
AckedRan == \A k \in Key : acked[k] # {} => ranAs[k] # {}
JobAdmitted ==
    pc \in {"begin", "execute"} /\ job.bind.op = "cognify" => job.bind.dataset \in exists

Effects == TypeOK /\ Landed /\ CompletedRan /\ JobRan /\ AckedRan /\ JobAdmitted

LEMMA EffectsStep == Effects /\ [Next]_vars => Effects'
<1> SUFFICES ASSUME Effects, [Next]_vars PROVE Effects'
  OBVIOUS
<1>0. TypeOK /\ TypeOK'
  BY TypeStep DEF Effects
<1> USE DEF Effects
<1>1. ASSUME NEW k \in Key, NEW b \in Binding, ReceiveReplay(k, b) PROVE Effects'
  <2>1. ranAs[k] # {}
    BY <1>0, <1>1, FoundIsLine DEF ReceiveReplay, CompletedRan
  <2>2. AckedRan'
    BY <1>0, <1>1, <2>1 DEF ReceiveReplay, AckedRan, TypeOK
  <2> QED
    BY <1>0, <1>1, <2>2 DEF ReceiveReplay, Landed, CompletedRan, JobRan, JobAdmitted, store
<1>2. ASSUME NEW k \in Key, NEW b \in Binding, ReceiveReissue(k, b) \/ ReceiveFresh(k, b)
      PROVE  Effects'
  <2>1. JobAdmitted' /\ JobRan'
    BY <1>2 DEF ReceiveReissue, ReceiveFresh, Admitted, JobAdmitted, JobRan, store
  <2> QED
    BY <1>0, <1>2, <2>1 DEF ReceiveReissue, ReceiveFresh, Landed, CompletedRan, AckedRan,
       store, seen
<1>3. ASSUME NEW rec \in Line, journal' \in {Append1(rec)} \cup Cut(rec), UNCHANGED ranAs,
             rec.state = "completed" => rec.key \in Key /\ ranAs[rec.key] # {}
      PROVE  CompletedRan'
  <2>1. \A n \in 1..Len(journal') :
          journal'[n] \in {Garbled, rec} \/ (n \in 1..Len(journal) /\ journal'[n] = journal[n])
    BY <1>0, <1>3, AppendedLines
  <2> QED BY <1>3, <2>1 DEF CompletedRan, Garbled
<1>4. CASE Begin
  <2>1. job \in Job
    BY <1>0, <1>4 DEF Begin, TypeOK, Job
  <2>2. CompletedRan'
    BY <1>3, <1>4, <2>1, RecordsTyped DEF Begin, seen, Begun
  <2> QED
    BY <1>0, <1>4, <2>2 DEF Begin, Landed, AckedRan, JobAdmitted, JobRan, store, seen
<1>5. ASSUME Executed, job \in Job, JobAdmitted, UNCHANGED <<journal, acked>>
      PROVE  /\ Landed' /\ CompletedRan' /\ AckedRan' /\ ranAs'[job.key] # {}
  <2>1. /\ ranAs' = [ranAs EXCEPT ![job.key] = @ \cup {job.bind}]
        /\ job.key \in Key /\ job.bind \in Binding /\ ranAs \in [Key -> SUBSET Binding]
    BY <1>0, <1>5 DEF Executed, TypeOK, Job
  <2>2. \A k : ranAs[k] # {} /\ k \in Key => ranAs'[k] # {}
    BY <2>1
  <2>3. CompletedRan'
    <3> SUFFICES ASSUME NEW n \in 1..Len(journal), journal[n].state = "completed"
                 PROVE  ranAs'[journal[n].key] # {}
      BY <1>5 DEF CompletedRan
    <3>1. journal[n] \in Line
      BY <1>0 DEF TypeOK
    <3>2. journal[n].key \in Key
      BY <3>1 DEF Line, Garbled
    <3> QED BY <2>2, <3>2 DEF CompletedRan
  <2>4. Landed'
    <3>1. CASE job.bind.op = "add"
      <4>1. job.bind.dataset \in Dataset /\ job.bind.content \in Content
        BY <2>1, <3>1 DEF Binding
      <4>2. items' = [items EXCEPT ![job.bind.dataset] = @ \cup {job.bind.content}]
        BY <1>5, <3>1 DEF Executed
      <4>3. \A d : items[d] \subseteq items'[d] \/ d \notin Dataset
        BY <1>0, <4>1, <4>2 DEF TypeOK
      <4>4. job.bind.content \in items'[job.bind.dataset]
        BY <1>0, <4>1, <4>2 DEF TypeOK
      <4>5. \A k \in Key : \A b \in ranAs'[k] : b \in ranAs[k] \/ b = job.bind
        BY <2>1
      <4>6. \A k \in Key : \A b \in ranAs[k] : b.op = "add" => b.dataset \in Dataset
        BY <2>1 DEF Binding
      <4>7. forgotten' = forgotten \ {<<job.bind.dataset, job.bind.content>>}
        BY <1>5, <3>1 DEF Executed
      <4> QED
        <5> SUFFICES ASSUME NEW k \in Key, NEW b \in ranAs'[k], b.op = "add",
                            b.content \notin items'[b.dataset]
                     PROVE  <<b.dataset, b.content>> \in forgotten'
          BY DEF Landed
        <5>1. CASE b \in ranAs[k]
          BY <4>3, <4>4, <4>6, <4>7, <5>1 DEF Landed
        <5>2. CASE b = job.bind
          BY <4>4, <5>2
        <5> QED BY <4>5, <5>1, <5>2
    <3>2. CASE job.bind.op # "add"
      BY <1>5, <2>1, <3>2 DEF Executed, Landed, store
    <3> QED BY <3>1, <3>2
  <2> QED BY <1>5, <2>1, <2>2, <2>3, <2>4 DEF AckedRan
<1>6. CASE Execute
  <2>1. job \in Job /\ job'.key = job.key /\ pc' = "commit"
    BY <1>0, <1>6 DEF Execute, TypeOK, Job
  <2> QED BY <1>0, <1>5, <1>6, <2>1 DEF Execute, JobRan, JobAdmitted
<1>7. CASE ExecuteFails
  <2>1. job \in Job /\ pc' = "idle"
    BY <1>0, <1>7 DEF ExecuteFails, TypeOK, Job, Idle
  <2>2. CASE Executed
    BY <1>0, <1>5, <1>7, <2>1, <2>2 DEF ExecuteFails, JobRan, JobAdmitted
  <2>3. CASE UNCHANGED <<store, runs, ranAs, forgotten>>
    BY <1>0, <1>7, <2>1, <2>3 DEF ExecuteFails, Landed, CompletedRan, AckedRan, JobRan,
       JobAdmitted, store
  <2> QED BY <1>7, <2>2, <2>3 DEF ExecuteFails
<1>8. CASE Commit
  <2>1. job \in Job /\ ranAs[job.key] # {} /\ job.key \in Key
    BY <1>0, <1>8 DEF Commit, TypeOK, Job, JobRan
  <2>2. CompletedRan'
    BY <1>3, <1>8, <2>1, RecordsTyped DEF Commit, seen, Completed
  <2> QED
    BY <1>0, <1>8, <2>1, <2>2 DEF Commit, Landed, AckedRan, JobAdmitted, JobRan, store, seen
<1>9. CASE Reply
  <2>1. job \in Job /\ ranAs[job.key] # {} /\ job.key \in Key
    BY <1>0, <1>9 DEF Reply, TypeOK, Job, JobRan
  <2>2. AckedRan'
    BY <1>0, <1>9, <2>1 DEF Reply, AckedRan, TypeOK
  <2> QED
    BY <1>0, <1>9, <2>2 DEF Reply, Idle, Landed, CompletedRan, JobRan, JobAdmitted, store
<1>10. ASSUME NEW d \in Dataset, Forget(d) PROVE Effects'
  <2>1. Landed'
    <3>1. \A k \in Key : \A b \in ranAs[k] : b.op = "add" => b.dataset \in Dataset
      BY <1>0 DEF TypeOK, Binding
    <3>2. \A e \in Dataset : items'[e] = items[e] \/ (e = d /\ {d} \X items[d] \subseteq forgotten')
      BY <1>0, <1>10 DEF Forget, TypeOK
    <3> QED BY <1>0, <1>10, <3>1, <3>2 DEF Forget, Landed
  <2> QED BY <1>0, <1>10, <2>1 DEF Forget, CompletedRan, JobRan, AckedRan, JobAdmitted
<1>11. CASE Crash
  BY <1>0, <1>11 DEF Crash, Idle, Landed, CompletedRan, AckedRan, JobRan, JobAdmitted,
     store, seen
<1>12. CASE AppendCut
  <2>1. job \in Job /\ (pc = "commit" => ranAs[job.key] # {}) /\ job.key \in Key
    BY <1>0, <1>12 DEF AppendCut, TypeOK, Job, JobRan
  <2>2. CompletedRan'
    <3>1. CASE pc = "begin"
      BY <1>3, <1>12, <2>1, <3>1, RecordsTyped DEF AppendCut, seen, Begun
    <3>2. CASE pc = "commit"
      BY <1>3, <1>12, <2>1, <3>2, RecordsTyped DEF AppendCut, seen, Completed
    <3> QED BY <1>12, <3>1, <3>2 DEF AppendCut
  <2> QED
    BY <1>0, <1>12, <2>2 DEF AppendCut, Idle, Landed, AckedRan, JobRan, JobAdmitted,
       store, seen
<1>13. CASE UNCHANGED vars
  BY <1>0, <1>13 DEF vars, Landed, CompletedRan, AckedRan, JobRan, JobAdmitted, store, seen
<1> QED
  BY <1>1, <1>2, <1>4, <1>6, <1>7, <1>8, <1>9, <1>10, <1>11, <1>12, <1>13 DEF Next

\* What a receipt claims was executed; an acknowledged content is in the store
\* unless its dataset was forgotten after the content was last written, in
\* particular also when it was forgotten before; and cognify never runs on an
\* unknown dataset - torn appends, crashes and failures included.
THEOREM EffectsReal == Spec => []EffectsAreReal
<1>1. Init => Effects
  BY TypeInit DEF Init, Effects, Landed, CompletedRan, JobRan, AckedRan, JobAdmitted
<1>2. Effects => EffectsAreReal
  BY DEF Effects, Landed, AckedRan, JobAdmitted, EffectsAreReal, NoSilentNoOp,
     AcknowledgedHasLanded, TypeOK
<1> QED BY <1>1, <1>2, EffectsStep, PTL DEF Spec

-----------------------------------------------------------------------------
(* Keys and outcomes, as long as no append is cut short. *)

\* What find() returns for each key.
Rec == [k \in Key |-> Find(k)]

Whole == openTail = FALSE
FreshIsNew == pc = "begin" => Rec[job.key] = NoRecord
UnderwayIsBegun ==
    pc \in {"execute", "commit"} =>
      /\ Rec[job.key].state = "begun"
      /\ Rec[job.key].bind = job.bind /\ Rec[job.key].before = job.before
CommitHasRun == pc = "commit" => runs[job.key] > 0
ReplyIsRecorded ==
    pc = "reply" =>
      /\ Rec[job.key].state = "completed"
      /\ Rec[job.key].bind = job.bind /\ Receipt(Rec[job.key]) = Receipt(job)
RanAsBound ==
    \A k \in Key : /\ ranAs[k] # {} => Rec[k] # NoRecord /\ ranAs[k] = {Rec[k].bind}
                   /\ runs[k] > 0 <=> ranAs[k] # {}
CompletedHasRun == \A k \in Key : Rec[k].state = "completed" => runs[k] > 0
ToldAsRecorded ==
    \A k \in Key : acked[k] # {} =>
      Rec[k].state = "completed" /\ acked[k] = {Receipt(Rec[k])}

\* The strengthening: what the request in hand and the histories have to do
\* with the latest record of the key.
Keyed ==
    /\ TypeOK /\ Whole
    /\ FreshIsNew /\ UnderwayIsBegun /\ CommitHasRun /\ ReplyIsRecorded
    /\ RanAsBound /\ CompletedHasRun /\ ToldAsRecorded

LEMMA RecTyped ==
    ASSUME TypeOK
    PROVE  /\ DOMAIN Rec = Key
           /\ \A k \in Key : Rec[k] = Find(k)
           /\ \A k \in Key : Rec[k] = NoRecord \/ (Rec[k] \in Line \ {Garbled} /\ Rec[k].key = k)
  BY FindTyped DEF Rec

LEMMA RecUnchanged == ASSUME journal' = journal PROVE Rec' = Rec
<1>1. Rec = [k \in Key |-> LastOf(journal, k)]
  BY FindIsLast DEF Rec
<1>2. Rec' = [k \in Key |-> LastOf(journal', k)]
  BY FindIsLastNext DEF Rec
<1> QED BY <1>1, <1>2

LEMMA RecAppended ==
    ASSUME TypeOK, Whole, NEW rec \in Line, rec.state # "garbled",
           journal' = Append1(rec)
    PROVE  Rec' = [Rec EXCEPT ![rec.key] = rec]
<1>1. journal \in Seq(Line) /\ journal' = Append(journal, rec)
  BY DEF TypeOK, Whole, Append1
<1>2. Rec = [k \in Key |-> LastOf(journal, k)]
  BY FindIsLast DEF Rec
<1>3. Rec' = [k \in Key |-> LastOf(journal', k)]
  BY FindIsLastNext DEF Rec
<1>4. \A k : LastOf(journal', k) = IF rec.key = k THEN rec ELSE LastOf(journal, k)
  BY <1>1, LastOfAppend
<1> QED BY <1>2, <1>3, <1>4

LEMMA KeyedStep == ~TornWrites /\ Keyed /\ [Next]_vars => Keyed'
<1> SUFFICES ASSUME ~TornWrites, Keyed, [Next]_vars PROVE Keyed'
  OBVIOUS
<1>0. TypeOK /\ TypeOK'
  BY TypeStep DEF Keyed
<1>a. DOMAIN Rec = Key /\ \A k \in Key : Rec[k] = Find(k)
  BY <1>0, RecTyped
<1>b. runs \in [Key -> Nat] /\ ranAs \in [Key -> SUBSET Binding]
      /\ acked \in [Key -> SUBSET [before : Count, after : Count]]
      /\ (pc # "idle" => job \in Job)
  BY <1>0, BoundAssumption DEF TypeOK, Job
<1> USE DEF Keyed
<1>1. ASSUME NEW k \in Key, NEW b \in Binding, ReceiveReplay(k, b) PROVE Keyed'
  <2>1. Rec' = Rec /\ Rec[k].state = "completed"
    BY <1>1, <1>a, RecUnchanged DEF ReceiveReplay
  <2>2. acked' = [acked EXCEPT ![k] = @ \cup {Receipt(Rec[k])}]
    BY <1>1, <1>a DEF ReceiveReplay
  <2>3. ToldAsRecorded'
    BY <1>b, <2>1, <2>2 DEF ToldAsRecorded
  <2> QED
    BY <1>0, <1>1, <2>1, <2>3 DEF ReceiveReplay, Whole, FreshIsNew, UnderwayIsBegun,
       CommitHasRun, ReplyIsRecorded, RanAsBound, CompletedHasRun
<1>2. ASSUME NEW k \in Key, NEW b \in Binding, ReceiveReissue(k, b) PROVE Keyed'
  <2>1. Rec' = Rec /\ Rec[k].state = "begun" /\ Rec[k].bind = b
    BY <1>2, <1>a, RecUnchanged DEF ReceiveReissue
  <2>2. pc' = "execute" /\ job'.key = k /\ job'.bind = b /\ job'.before = Rec[k].before
    BY <1>2, <1>a DEF ReceiveReissue
  <2> QED
    BY <1>0, <1>2, <2>1, <2>2 DEF ReceiveReissue, seen, Whole, FreshIsNew, UnderwayIsBegun,
       CommitHasRun, ReplyIsRecorded, RanAsBound, CompletedHasRun, ToldAsRecorded
<1>3. ASSUME NEW k \in Key, NEW b \in Binding, ReceiveFresh(k, b) PROVE Keyed'
  <2>1. Rec' = Rec /\ Rec[k] = NoRecord
    BY <1>3, <1>a, RecUnchanged DEF ReceiveFresh
  <2>2. pc' = "begin" /\ job'.key = k
    BY <1>3 DEF ReceiveFresh
  <2> QED
    BY <1>0, <1>3, <2>1, <2>2 DEF ReceiveFresh, seen, Whole, FreshIsNew, UnderwayIsBegun,
       CommitHasRun, ReplyIsRecorded, RanAsBound, CompletedHasRun, ToldAsRecorded
<1>4. CASE Begin
  <2>1. job \in Job /\ job.key \in Key
    BY <1>4, <1>b DEF Begin, Job
  <2>2. Rec' = [Rec EXCEPT ![job.key] = Begun(job)]
    BY <1>0, <1>4, <2>1, RecordsTyped, RecAppended DEF Begin, Begun
  <2>3. /\ Begun(job).state = "begun" /\ Begun(job).bind = job.bind
        /\ Begun(job).before = job.before
    BY DEF Begun
  <2>4. Rec[job.key] = NoRecord /\ NoRecord.state = "none"
    BY <1>4 DEF Begin, FreshIsNew, NoRecord
  <2>5. RanAsBound' /\ CompletedHasRun' /\ ToldAsRecorded'
    BY <1>4, <1>a, <2>1, <2>2, <2>3, <2>4 DEF Begin, seen, RanAsBound, CompletedHasRun,
       ToldAsRecorded
  <2>6. UnderwayIsBegun'
    BY <1>4, <1>a, <2>1, <2>2, <2>3 DEF Begin, UnderwayIsBegun
  <2> QED
    BY <1>0, <1>4, <2>5, <2>6 DEF Begin, Whole, FreshIsNew, CommitHasRun, ReplyIsRecorded
<1>5. ASSUME Executed, pc = "execute", UNCHANGED <<journal, acked>>
      PROVE  /\ RanAsBound' /\ CompletedHasRun' /\ ToldAsRecorded'
             /\ runs'[job.key] > 0 /\ job.key \in Key /\ Rec' = Rec
  <2>1. job \in Job /\ job.key \in Key /\ Rec' = Rec
    BY <1>5, <1>b, RecUnchanged DEF Job
  <2>2. Rec[job.key].state = "begun" /\ Rec[job.key].bind = job.bind
    BY <1>5 DEF UnderwayIsBegun
  <2>3. Rec[job.key] # NoRecord
    BY <2>2 DEF NoRecord
  <2>4. /\ runs' = [runs EXCEPT ![job.key] = @ + 1]
        /\ ranAs' = [ranAs EXCEPT ![job.key] = @ \cup {job.bind}]
    BY <1>5 DEF Executed
  <2>5. RanAsBound'
    BY <1>b, <2>1, <2>2, <2>3, <2>4 DEF RanAsBound
  <2> QED
    BY <1>5, <1>b, <2>1, <2>2, <2>4, <2>5 DEF CompletedHasRun, ToldAsRecorded
<1>6. CASE Execute
  <2>1. job' \in [key : {job.key}, bind : {job.bind}, before : {job.before}, after : Count]
        /\ pc' = "commit"
    <3>1. job \in Job /\ job' \in Job /\ pc' = "commit"
      BY <1>0, <1>6, <1>b DEF Execute, TypeOK, Job
    <3> QED BY <1>6, <3>1 DEF Execute, Job
  <2> QED
    BY <1>0, <1>5, <1>6, <2>1 DEF Execute, Whole, FreshIsNew, UnderwayIsBegun, CommitHasRun,
       ReplyIsRecorded
<1>7. CASE ExecuteFails
  <2>1. pc' = "idle" /\ Whole'
    BY <1>7 DEF ExecuteFails, Idle, Whole
  <2>2. RanAsBound' /\ CompletedHasRun' /\ ToldAsRecorded'
    <3>1. CASE Executed
      BY <1>5, <1>7, <3>1 DEF ExecuteFails
    <3>2. CASE UNCHANGED <<store, runs, ranAs, forgotten>>
      BY <1>7, <3>2, RecUnchanged DEF ExecuteFails, RanAsBound, CompletedHasRun,
         ToldAsRecorded
    <3> QED BY <1>7, <3>1, <3>2 DEF ExecuteFails
  <2> QED
    BY <1>0, <2>1, <2>2 DEF FreshIsNew, UnderwayIsBegun, CommitHasRun, ReplyIsRecorded
<1>8. CASE Commit
  <2>1. job \in Job /\ job.key \in Key
    BY <1>8, <1>b DEF Commit, Job
  <2>2. Rec' = [Rec EXCEPT ![job.key] = Completed(job)]
    BY <1>0, <1>8, <2>1, RecordsTyped, RecAppended DEF Commit, Completed
  <2>3. /\ Completed(job).state = "completed" /\ Completed(job).bind = job.bind
        /\ Receipt(Completed(job)) = Receipt(job)
    BY DEF Completed, Receipt
  <2>4. /\ Rec[job.key].state = "begun" /\ Rec[job.key].bind = job.bind
        /\ runs[job.key] > 0
    BY <1>8 DEF Commit, UnderwayIsBegun, CommitHasRun
  <2>5. Completed(job) # NoRecord
    BY <2>3 DEF NoRecord
  <2>6. RanAsBound' /\ CompletedHasRun' /\ ToldAsRecorded'
    BY <1>8, <1>a, <2>1, <2>2, <2>3, <2>4, <2>5 DEF Commit, seen, RanAsBound,
       CompletedHasRun, ToldAsRecorded
  <2>7. ReplyIsRecorded'
    <3>1. job' = job /\ Rec'[job.key] = Completed(job) /\ Receipt(job') = Receipt(job)
      BY <1>8, <1>a, <2>1, <2>2 DEF Commit
    <3> QED BY <2>3, <3>1 DEF ReplyIsRecorded, Receipt
  <2> QED
    BY <1>0, <1>8, <2>6, <2>7 DEF Commit, Whole, FreshIsNew, CommitHasRun, UnderwayIsBegun
<1>9. CASE Reply
  <2>1. job \in Job /\ job.key \in Key /\ Rec' = Rec
    BY <1>9, <1>b, RecUnchanged DEF Reply, Job
  <2>2. Rec[job.key].state = "completed" /\ Receipt(Rec[job.key]) = Receipt(job)
    BY <1>9 DEF Reply, ReplyIsRecorded
  <2>3. acked' = [acked EXCEPT ![job.key] = @ \cup {Receipt(job)}]
    BY <1>9 DEF Reply
  <2>4. ToldAsRecorded'
    BY <1>b, <2>1, <2>2, <2>3 DEF ToldAsRecorded
  <2> QED
    BY <1>0, <1>9, <2>1, <2>4 DEF Reply, Idle, Whole, FreshIsNew, UnderwayIsBegun,
       CommitHasRun, ReplyIsRecorded, RanAsBound, CompletedHasRun
<1>10. ASSUME NEW d \in Dataset, Forget(d) PROVE Keyed'
  <2>1. Rec' = Rec
    BY <1>10, RecUnchanged DEF Forget
  <2> QED
    BY <1>0, <1>10, <2>1 DEF Forget, Whole, FreshIsNew, UnderwayIsBegun, CommitHasRun,
       ReplyIsRecorded, RanAsBound, CompletedHasRun, ToldAsRecorded
<1>11. CASE Crash
  <2>1. Rec' = Rec
    BY <1>11, RecUnchanged DEF Crash
  <2> QED
    BY <1>0, <1>11, <2>1 DEF Crash, Idle, seen, Whole, FreshIsNew, UnderwayIsBegun,
       CommitHasRun, ReplyIsRecorded, RanAsBound, CompletedHasRun, ToldAsRecorded
<1>12. CASE AppendCut
  BY <1>12 DEF AppendCut
<1>13. CASE UNCHANGED vars
  <2>1. Rec' = Rec
    BY <1>13, RecUnchanged DEF vars
  <2> QED
    BY <1>0, <1>13, <2>1 DEF vars, seen, Whole, FreshIsNew, UnderwayIsBegun, CommitHasRun,
       ReplyIsRecorded, RanAsBound, CompletedHasRun, ToldAsRecorded, Receipt
<1> QED
  BY <1>1, <1>2, <1>3, <1>4, <1>6, <1>7, <1>8, <1>9, <1>10, <1>11, <1>12, <1>13 DEF Next

LEMMA KeyedInit == Init => Keyed
<1> SUFFICES ASSUME Init PROVE Keyed
  OBVIOUS
<1>1. TypeOK
  BY TypeInit
<1>2. \A k \in Key : Rec[k] = NoRecord
  <2>1. journal \in Seq(Line) /\ Len(journal) = 0
    BY <1>1 DEF Init, TypeOK
  <2>2. \A k : Readable(journal, k) = {}
    BY <2>1 DEF Readable
  <2> QED BY <2>1, <2>2, FindIsLast, LastExists DEF Rec
<1>3. NoRecord.state = "none"
  BY DEF NoRecord
<1> QED
  BY <1>1, <1>2, <1>3 DEF Init, Keyed, Whole, FreshIsNew, UnderwayIsBegun, CommitHasRun,
     ReplyIsRecorded, RanAsBound, CompletedHasRun, ToldAsRecorded

\* A key is never executed for two different pieces of work.
THEOREM KeysKeepTheirWork == ASSUME ~TornWrites PROVE Spec => []KeyKeepsItsWork
<1>1. Keyed => KeyKeepsItsWork
  <2> SUFFICES ASSUME Keyed, NEW k \in Key PROVE Cardinality(ranAs[k]) <= 1
    BY DEF KeyKeepsItsWork
  <2>1. ranAs[k] = {} \/ ranAs[k] = {Rec[k].bind}
    BY DEF Keyed, RanAsBound
  <2>2. CASE ranAs[k] = {}
    BY <2>2, FS_EmptySet
  <2>3. CASE ranAs[k] = {Rec[k].bind}
    <3>1. Cardinality({Rec[k].bind}) = 1
      BY FS_Singleton
    <3> QED BY <2>3, <3>1
  <2> QED BY <2>1, <2>2, <2>3
<1>2. Keyed /\ [Next]_vars => Keyed'
  BY KeyedStep
<1> QED BY <1>1, <1>2, KeyedInit, PTL DEF Spec

\* Whatever was executed is known to the journal, and all receipts of a key
\* agree.
THEOREM OneRecordedOutcome ==
    ASSUME ~TornWrites PROVE Spec => [](ExecutedIsJournaled /\ OneOutcomePerKey)
<1>1. Keyed => ExecutedIsJournaled
  BY RecTyped DEF Keyed, RanAsBound, ExecutedIsJournaled
<1>2. Keyed => OneOutcomePerKey
  <2> SUFFICES ASSUME Keyed, NEW k \in Key PROVE Cardinality(acked[k]) <= 1
    BY DEF OneOutcomePerKey
  <2>1. acked[k] = {} \/ acked[k] = {Receipt(Rec[k])}
    BY DEF Keyed, ToldAsRecorded
  <2>2. CASE acked[k] = {}
    BY <2>2, FS_EmptySet
  <2>3. CASE acked[k] = {Receipt(Rec[k])}
    <3>1. Cardinality({Receipt(Rec[k])}) = 1
      BY FS_Singleton
    <3> QED BY <2>3, <3>1
  <2> QED BY <2>1, <2>2, <2>3
<1>3. Keyed /\ [Next]_vars => Keyed'
  BY KeyedStep
<1> QED BY <1>1, <1>2, <1>3, KeyedInit, PTL DEF Spec

-----------------------------------------------------------------------------
(* The refinement. *)

LEMMA PromiseInit == Init => Promise!Init
<1> SUFFICES ASSUME Init PROVE Promise!Init
  OBVIOUS
<1>1. \A k : Find(k) = NoRecord
  <2>1. journal \in Seq(Line) /\ Len(journal) = 0
    BY TypeInit DEF Init, TypeOK
  <2>2. \A k : Readable(journal, k) = {}
    BY <2>1 DEF Readable
  <2> QED BY <2>1, <2>2, FindIsLast, LastExists
<1>2. NoRecord.state # "completed"
  BY DEF NoRecord
<1> QED BY <1>1, <1>2 DEF Init, Promise!Init

\* What the promise sees of the records.
WorkOf(r) == [k \in Key |-> IF r[k] = NoRecord THEN NoRecord ELSE r[k].bind]
OutcomeOf(r) ==
    [k \in Key |-> IF r[k].state = "completed" THEN Receipt(r[k]) ELSE NoRecord]

LEMMA Mapped ==
    /\ [k \in Key |-> IF Find(k) = NoRecord THEN NoRecord ELSE Find(k).bind] = WorkOf(Rec)
    /\ [k \in Key |-> IF Find(k).state = "completed" THEN Receipt(Find(k))
                                                     ELSE NoRecord] = OutcomeOf(Rec)
  BY DEF WorkOf, OutcomeOf, Rec

LEMMA MappedNext ==
    /\ [k \in Key |-> IF Find(k) = NoRecord THEN NoRecord ELSE Find(k).bind]'
         = WorkOf(Rec')
    /\ [k \in Key |-> IF Find(k).state = "completed" THEN Receipt(Find(k))
                                                     ELSE NoRecord]' = OutcomeOf(Rec')
  BY DEF WorkOf, OutcomeOf, Rec, Receipt

LEMMA NoRecordIsNothing ==
    /\ \A b \in Binding : b # NoRecord
    /\ \A r : Receipt(r) # NoRecord
  BY DEF Binding, NoRecord, Receipt

LEMMA PromiseStep == ~TornWrites /\ Keyed /\ [Next]_vars => [Promise!Next]_(Promise!vars)
<1> SUFFICES ASSUME ~TornWrites, Keyed, [Next]_vars PROVE [Promise!Next]_(Promise!vars)
  OBVIOUS
<1>0. TypeOK /\ DOMAIN Rec = Key /\ \A k \in Key : Rec[k] = Find(k)
  BY RecTyped DEF Keyed
<1>a. ASSUME UNCHANGED <<journal, runs, acked>> PROVE UNCHANGED Promise!vars
  <2>1. Rec' = Rec
    BY <1>a, RecUnchanged
  <2> QED BY <1>a, <2>1, Mapped, MappedNext DEF Promise!vars
<1>1. ASSUME NEW k \in Key, OutcomeOf(Rec)[k] # NoRecord, UNCHANGED <<journal, runs>>,
             acked' = [acked EXCEPT ![k] = @ \cup {OutcomeOf(Rec)[k]}]
      PROVE  Promise!Next
  <2>1. Rec' = Rec
    BY <1>1, RecUnchanged
  <2>2. Promise!Tell(k)
    BY <1>1, <2>1, Mapped, MappedNext DEF Promise!Tell
  <2> QED BY <2>2 DEF Promise!Next
<1>2. ASSUME NEW k \in Key, NEW b \in Binding, ReceiveReplay(k, b)
      PROVE  Promise!Next
  <2>1. OutcomeOf(Rec)[k] = Receipt(Find(k))
    BY <1>0, <1>2 DEF ReceiveReplay, OutcomeOf
  <2>2. OutcomeOf(Rec)[k] # NoRecord
    BY <2>1, NoRecordIsNothing
  <2> QED BY <1>1, <1>2, <2>1, <2>2 DEF ReceiveReplay
<1>3. ASSUME NEW k \in Key, NEW b \in Binding, ReceiveReissue(k, b) \/ ReceiveFresh(k, b)
      PROVE  UNCHANGED Promise!vars
  BY <1>a, <1>3 DEF ReceiveReissue, ReceiveFresh, seen
<1>4. CASE Begin
  <2>1. job \in Job /\ job.key \in Key /\ job.bind \in Binding
    BY <1>4 DEF Begin, Keyed, TypeOK, Job
  <2>2. Rec' = [Rec EXCEPT ![job.key] = Begun(job)]
    BY <1>0, <1>4, <2>1, RecordsTyped, RecAppended DEF Begin, Begun, Keyed
  <2>3. Rec[job.key] = NoRecord
    BY <1>4 DEF Begin, FreshIsNew, Keyed
  <2>4. /\ WorkOf(Rec)[job.key] = NoRecord
        /\ WorkOf(Rec') = [WorkOf(Rec) EXCEPT ![job.key] = job.bind]
        /\ OutcomeOf(Rec') = OutcomeOf(Rec)
    BY <1>0, <2>1, <2>2, <2>3 DEF WorkOf, OutcomeOf, Begun, NoRecord
  <2>5. Promise!Bind(job.key)
    BY <1>4, <2>1, <2>4, Mapped, MappedNext DEF Promise!Bind, Begin, seen
  <2> QED BY <2>1, <2>5 DEF Promise!Next
<1>5. ASSUME Executed, pc = "execute", UNCHANGED <<journal, acked>>
      PROVE  Promise!Next
  <2>1. job.key \in Key /\ job.bind \in Binding
    BY <1>5 DEF Keyed, TypeOK
  <2>2. Rec[job.key].state = "begun" /\ Rec[job.key].bind = job.bind
    BY <1>5 DEF UnderwayIsBegun, Keyed
  <2>3. WorkOf(Rec)[job.key] # NoRecord /\ OutcomeOf(Rec)[job.key] = NoRecord
    BY <2>1, <2>2, NoRecordIsNothing DEF WorkOf, OutcomeOf, NoRecord
  <2>4. Rec' = Rec
    BY <1>5, RecUnchanged
  <2>5. Promise!Try(job.key)
    BY <1>5, <2>3, <2>4, Mapped, MappedNext DEF Promise!Try, Executed
  <2> QED BY <2>1, <2>5 DEF Promise!Next
<1>6. CASE Execute
  BY <1>5, <1>6 DEF Execute
<1>7. CASE ExecuteFails
  BY <1>a, <1>5, <1>7 DEF ExecuteFails
<1>8. CASE Commit
  <2>1. job \in Job /\ job.key \in Key
    BY <1>8 DEF Commit, Keyed, TypeOK, Job
  <2>2. Rec' = [Rec EXCEPT ![job.key] = Completed(job)]
    BY <1>0, <1>8, <2>1, RecordsTyped, RecAppended DEF Commit, Completed, Keyed
  <2>3. /\ Rec[job.key].state = "begun" /\ Rec[job.key].bind = job.bind
        /\ runs[job.key] > 0
    BY <1>8 DEF Commit, UnderwayIsBegun, CommitHasRun, Keyed
  <2>4. Rec[job.key] # NoRecord /\ Completed(job) # NoRecord
    BY <2>3 DEF NoRecord, Completed
  <2>5. Receipt(job) \in [before : Count, after : Count]
    BY <2>1 DEF Receipt, Job
  <2>6. /\ WorkOf(Rec') = WorkOf(Rec)
        /\ OutcomeOf(Rec)[job.key] = NoRecord
        /\ OutcomeOf(Rec') = [OutcomeOf(Rec) EXCEPT ![job.key] = Receipt(job)]
    BY <1>0, <2>1, <2>2, <2>3, <2>4 DEF WorkOf, OutcomeOf, Completed, Receipt
  <2>7. Promise!Record(job.key)
    BY <1>8, <2>3, <2>5, <2>6, Mapped, MappedNext DEF Promise!Record, Commit, seen
  <2> QED BY <2>1, <2>7 DEF Promise!Next
<1>9. CASE Reply
  <2>1. job.key \in Key
    BY <1>9 DEF Reply, Keyed, TypeOK
  <2>2. Rec[job.key].state = "completed" /\ Receipt(Rec[job.key]) = Receipt(job)
    BY <1>9 DEF Reply, ReplyIsRecorded, Keyed
  <2>3. OutcomeOf(Rec)[job.key] = Receipt(job)
    BY <2>1, <2>2 DEF OutcomeOf
  <2>4. OutcomeOf(Rec)[job.key] # NoRecord
    BY <2>3, NoRecordIsNothing
  <2> QED BY <1>1, <1>9, <2>1, <2>3, <2>4 DEF Reply
<1>10. ASSUME NEW d \in Dataset, Forget(d) PROVE UNCHANGED Promise!vars
  BY <1>a, <1>10 DEF Forget
<1>11. CASE Crash
  BY <1>a, <1>11 DEF Crash, seen
<1>12. CASE AppendCut
  BY <1>12 DEF AppendCut
<1>13. CASE UNCHANGED vars
  BY <1>a, <1>13 DEF vars, seen
<1> QED
  BY <1>2, <1>3, <1>4, <1>6, <1>7, <1>8, <1>9, <1>10, <1>11, <1>12, <1>13 DEF Next

\* The journal keeps the promise of KeyedWrites for any keys, datasets and
\* contents, as long as no append is cut short.
THEOREM KeepsThePromise == ASSUME ~TornWrites PROVE Spec => ImplementsKeyedWrites
<1>1. Keyed /\ [Next]_vars => Keyed' /\ [Promise!Next]_(Promise!vars)
  BY KeyedStep, PromiseStep
<1> QED
  BY <1>1, KeyedInit, PromiseInit, PTL DEF Spec, ImplementsKeyedWrites, Promise!Spec

\* Once a caller was told that a key completed, it is never executed again.
THEOREM AcknowledgedIsFinal == ASSUME ~TornWrites PROVE Spec => AcknowledgedNeverReexecuted
<1>1. Keyed /\ [Next]_vars => [\A k \in Key : acked[k] # {} => runs'[k] = runs[k]]_vars
  <2> SUFFICES ASSUME Keyed, Next, NEW k \in Key, acked[k] # {} PROVE runs'[k] = runs[k]
    BY DEF vars
  <2>1. Rec[k].state = "completed"
    BY DEF Keyed, ToldAsRecorded
  <2>2. ASSUME Executed, pc = "execute" PROVE runs'[k] = runs[k]
    <3>1. Rec[job.key].state = "begun"
      BY <2>2 DEF Keyed, UnderwayIsBegun
    <3>2. job.key # k
      BY <2>1, <3>1
    <3> QED BY <2>2, <3>2 DEF Executed, Keyed, TypeOK
  <2> QED
    BY <2>2 DEF Next, ReceiveReplay, ReceiveReissue, ReceiveFresh, Begin, Execute,
       ExecuteFails, Commit, Reply, Forget, Crash, AppendCut, seen
<1>2. Keyed /\ [Next]_vars => Keyed'
  BY KeyedStep
<1> QED BY <1>1, <1>2, KeyedInit, PTL DEF Spec, AcknowledgedNeverReexecuted
=============================================================================
