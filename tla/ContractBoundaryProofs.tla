------------------------ MODULE ContractBoundaryProofs -------------------------
(***************************************************************************)
(* Machine-checked proofs about ContractBoundary, for any inputs, rows and *)
(* receipts: the binding's parse and the runtime's agree, only a hit       *)
(* without text is rejected, and what one component answers the next one   *)
(* takes.                                                                  *)
(***************************************************************************)
EXTENDS ContractBoundary, SequenceTheorems, WellFoundedInduction, TLAPS

-----------------------------------------------------------------------------
(* Values. *)

\* What tells the values apart.
LEMMA Kinds ==
    /\ \A fields : /\ Obj(fields).t = "object" /\ Obj(fields).f = fields
                   /\ IsObj(Obj(fields)) /\ ~IsStr(Obj(fields)) /\ ~IsNum(Obj(fields))
                   /\ ~IsArr(Obj(fields)) /\ Obj(fields) # Bad
    /\ \A items : Arr(items).t = "array" /\ Arr(items).s = items /\ IsArr(Arr(items))
    /\ IsStr(Str) /\ IsNum(Num) /\ IsBool(Bool) /\ ~IsStr(Undefined) /\ ~IsNum(Undefined)
    /\ ~IsObj(Bad) /\ Undefined # Bad
  BY DEF Obj, Arr, Bad, IsObj, IsStr, IsNum, IsBool, IsArr, Str, Num, Bool, Undefined

\* A set of numbers has a least one: where a definition is recursive, this does
\* what induction would.
LEMMA Least ==
    ASSUME NEW T, T \subseteq Nat, T # {}
    PROVE  \E k \in T : \A j \in T : k <= j
<1>1. \E k \in T : \A j \in T : <<j, k>> \notin OpToRel(<, Nat)
  BY NatLessThanWellFounded, WFMin
<1>2. PICK k \in T : \A j \in T : <<j, k>> \notin OpToRel(<, Nat)
  BY <1>1
<1>3. ASSUME NEW j \in T, j < k PROVE FALSE
  <2>1. <<j, k>> \in OpToRel(<, Nat)
    BY <1>3 DEF OpToRel
  <2> QED BY <1>2, <2>1
<1>4. \A j \in T : ~(j < k) /\ j \in Nat /\ k \in Nat
  BY <1>3
<1>5. \A j \in T : k <= j
  BY <1>4
<1> QED BY <1>5

\* What a parser has picked, it finds again.
LEMMA Picked ==
    ASSUME NEW v, NEW names
    PROVE  /\ IsObj(Pick(v, names)) /\ Pick(v, names) # Bad
           /\ Pick(v, names).f = [n \in names |-> Get(v, n)]
           /\ DOMAIN Pick(v, names).f = names
  BY Kinds DEF Pick

LEMMA PickedField ==
    ASSUME NEW v, NEW names, NEW n
    PROVE  Get(Pick(v, names), n) = IF n \in names THEN Get(v, n) ELSE Undefined
<1>1. Pick(v, names).f = [m \in names |-> Get(v, m)] /\ DOMAIN Pick(v, names).f = names
  BY Picked
<1>2. Get(Pick(v, names), n)
        = IF n \in DOMAIN Pick(v, names).f THEN Pick(v, names).f[n] ELSE Undefined
  BY DEF Get
<1> QED BY <1>1, <1>2

LEMMA PickedTwice ==
    ASSUME NEW v, NEW names PROVE Pick(Pick(v, names), names) = Pick(v, names)
<1>1. \A n \in names : Get(Pick(v, names), n) = Get(v, n)
  BY PickedField
<1>2. [n \in names |-> Get(Pick(v, names), n)] = [n \in names |-> Get(v, n)]
  BY <1>1
<1> QED BY <1>2 DEF Pick

LEMMA TypedTwice ==
    ASSUME NEW v, NEW types, Typed(v, types) # Bad
    PROVE  /\ Typed(v, types) = Pick(v, DOMAIN types)
           /\ IsObj(v) /\ \A n \in DOMAIN types : HasType(Get(v, n), types[n])
           /\ Typed(Typed(v, types), types) = Typed(v, types)
<1>1. /\ Typed(v, types) = Pick(v, DOMAIN types)
      /\ IsObj(v) /\ \A n \in DOMAIN types : HasType(Get(v, n), types[n])
  BY DEF Typed
<1>2. \A n \in DOMAIN types : HasType(Get(Pick(v, DOMAIN types), n), types[n])
  BY <1>1, PickedField
<1>3. IsObj(Pick(v, DOMAIN types))
  BY Picked
<1> QED BY <1>1, <1>2, <1>3, PickedTwice DEF Typed

\* A hit keeps its text and, if they are what they should be, score and name.
LEMMA HitTwice ==
    ASSUME NEW h, IsHit(h)
    PROVE  /\ IsHit(HitValue(h)) /\ HitValue(HitValue(h)) = HitValue(h)
           /\ DOMAIN HitValue(h).f \subseteq {"text", "score", "datasetName"}
<1> DEFINE names == {"text"} \cup OptionalField(h, "score", IsNum)
                             \cup OptionalField(h, "datasetName", IsStr)
           w == Pick(h, names)
<1>1. HitValue(h) = w
  BY DEF HitValue
<1>2. /\ "score" \in names <=> IsNum(Get(h, "score"))
      /\ "datasetName" \in names <=> IsStr(Get(h, "datasetName"))
      /\ "text" \in names /\ names \subseteq {"text", "score", "datasetName"}
  BY DEF OptionalField
<1> HIDE DEF names
<1>3. /\ IsNum(Get(w, "score")) <=> IsNum(Get(h, "score"))
      /\ IsStr(Get(w, "datasetName")) <=> IsStr(Get(h, "datasetName"))
      /\ Get(w, "text") = Get(h, "text")
  <2>1. \A n : Get(w, n) = IF n \in names THEN Get(h, n) ELSE Undefined
    BY PickedField
  <2> HIDE DEF w
  <2> QED BY <1>2, <2>1, Kinds
<1>4. HitValue(w) = Pick(w, names)
  BY <1>3 DEF HitValue, OptionalField, names
<1>5. IsHit(w) /\ DOMAIN w.f = names
  BY <1>3, Picked DEF IsHit
<1> QED BY <1>1, <1>2, <1>4, <1>5, PickedTwice

\* An array of strings passes the filter as it is.
LEMMA AllStrings ==
    ASSUME NEW X, NEW s \in Seq(X), \A k \in DOMAIN s : IsStr(s[k])
    PROVE  Strings(s) = s
<1> DEFINE n == Len(s)
           Next(g) == [k \in 0..n |->
                         IF k = 0 THEN <<>>
                         ELSE IF IsStr(s[k]) THEN Append(g[k - 1], s[k]) ELSE g[k - 1]]
           prefix == [k \in 0..n |-> SubSeq(s, 1, k)]
           upTo == CHOOSE g : g = Next(g)
<1>1. n \in Nat /\ \A k \in 1..n : IsStr(s[k]) /\ s[k] \in X
  BY LenProperties, ElementOfSeq
<1>2. prefix[0] = <<>>
  BY <1>1, SubSeqEmpty
<1>3. ASSUME NEW k \in 1..n PROVE prefix[k] = Append(prefix[k - 1], s[k])
  <2>1. SubSeq(s, 1, k) = SubSeq(s, 1, k - 1) \o <<s[k]>>
    BY <1>1, SubSeqRecursiveSecond
  <2>2. \A i \in 1..(k - 1) : s[i] \in X
    BY <1>1
  <2>3. SubSeq(s, 1, k - 1) \in Seq(X)
    BY <1>1, <2>2, SubSeqProperties
  <2>4. SubSeq(s, 1, k - 1) \o <<s[k]>> = Append(SubSeq(s, 1, k - 1), s[k])
    BY <1>1, <2>3, AppendIsConcat
  <2>5. prefix[k] = SubSeq(s, 1, k) /\ prefix[k - 1] = SubSeq(s, 1, k - 1)
    BY <1>1
  <2> QED BY <2>1, <2>4, <2>5
<1> HIDE DEF prefix
<1>4. prefix = Next(prefix)
  <2>1. ASSUME NEW k \in 0..n PROVE prefix[k] = Next(prefix)[k]
    <3>1. CASE k = 0
      BY <1>1, <1>2, <3>1
    <3>2. CASE k # 0
      <4>1. k \in 1..n
        BY <1>1, <3>2
      <4> QED BY <1>1, <1>3, <3>2, <4>1
    <3> QED BY <3>1, <3>2
  <2>2. prefix = [k \in 0..n |-> prefix[k]]
    BY DEF prefix
  <2> QED BY <2>1, <2>2
<1>5. upTo = Next(upTo)
  BY <1>4
<1> HIDE DEF upTo
<1>6. /\ upTo[0] = <<>>
      /\ \A k \in 1..n : upTo[k] = Append(upTo[k - 1], s[k])
  <2>1. \A k \in 0..n : upTo[k] = Next(upTo)[k]
    BY <1>5
  <2>2. 0 \in 0..n /\ \A k \in 1..n : k \in 0..n /\ k # 0
    BY <1>1
  <2>3. upTo[0] = <<>>
    BY <2>1, <2>2
  <2>4. ASSUME NEW k \in 1..n PROVE upTo[k] = Append(upTo[k - 1], s[k])
    <3>1. upTo[k] = Next(upTo)[k]
      BY <2>1, <2>2
    <3> QED BY <1>1, <2>2, <3>1
  <2> QED BY <2>3, <2>4
<1>7. \A k \in 0..n : upTo[k] = prefix[k]
  <2> DEFINE T == {k \in 0..n : upTo[k] # prefix[k]}
  <2>1. SUFFICES ASSUME T # {} PROVE FALSE
    OBVIOUS
  <2>a. T \subseteq Nat
    BY <1>1
  <2>2. PICK k \in T : \A j \in T : k <= j
    <3> HIDE DEF T
    <3> QED BY <2>1, <2>a, Least
  <2>3. k \in 1..n
    BY <1>1, <1>2, <1>6
  <2>4. k - 1 \in 0..n /\ ~(k <= k - 1)
    BY <1>1, <2>3
  <2>5. upTo[k - 1] = prefix[k - 1]
    BY <2>2, <2>4
  <2> QED BY <1>3, <1>6, <2>3, <2>5
<1>8. upTo[n] = s
  <2>1. n \in 0..n
    BY <1>1
  <2>2. prefix[n] = SubSeq(s, 1, n)
    BY <2>1 DEF prefix
  <2> QED BY <1>7, <2>1, <2>2, SubSeqFull
<1> QED BY <1>8 DEF Strings, upTo

\* SearchOutput, its condition and its value apart.
Searchable(v) ==
    /\ IsObj(v)
    /\ IsArr(Get(v, "hits")) /\ \A k \in DOMAIN Get(v, "hits").s : IsHit(Get(v, "hits").s[k])
    /\ IsArr(Get(v, "datasets")) /\ IsNum(Get(v, "total")) /\ IsBool(Get(v, "truncated"))
HitValues(v) == [k \in DOMAIN Get(v, "hits").s |-> HitValue(Get(v, "hits").s[k])]

LEMMA SearchParsed ==
    ASSUME NEW v
    PROVE  /\ SearchOutput(v) # Bad <=> Searchable(v)
           /\ SearchOutput(v) # Bad =>
                LET w == SearchOutput(v)
                IN  /\ IsObj(w) /\ DOMAIN w.f = {"hits", "datasets", "total", "truncated"}
                    /\ w = Obj([hits |-> Arr(HitValues(v)),
                                datasets |-> Arr(Strings(Get(v, "datasets").s)),
                                total |-> Get(v, "total"), truncated |-> Get(v, "truncated")])
                    /\ Get(w, "hits") = Arr(HitValues(v))
                    /\ Get(w, "datasets") = Arr(Strings(Get(v, "datasets").s))
                    /\ Get(w, "total") = Get(v, "total")
                    /\ Get(w, "truncated") = Get(v, "truncated")
<1> DEFINE r == [hits |-> Arr(HitValues(v)), datasets |-> Arr(Strings(Get(v, "datasets").s)),
                 total |-> Get(v, "total"), truncated |-> Get(v, "truncated")]
<1>1. SearchOutput(v) = IF Searchable(v) THEN Obj(r) ELSE Bad
  BY Zenon DEF SearchOutput, Searchable, HitValues, Every
<1>2. Obj(r) # Bad /\ IsObj(Obj(r)) /\ Obj(r).f = r
  BY Kinds
<1>3. DOMAIN r = {"hits", "datasets", "total", "truncated"}
  OBVIOUS
<1>4. /\ Get(Obj(r), "hits") = r.hits /\ Get(Obj(r), "datasets") = r.datasets
      /\ Get(Obj(r), "total") = r.total /\ Get(Obj(r), "truncated") = r.truncated
  BY <1>2, <1>3 DEF Get
<1> QED BY <1>1, <1>2, <1>3, <1>4

LEMMA SearchTwice ==
    ASSUME NEW v, SearchOutput(v) # Bad, NEW X, Get(v, "datasets").s \in Seq(X),
           \A k \in DOMAIN Get(v, "datasets").s : IsStr(Get(v, "datasets").s[k])
    PROVE  /\ SearchOutput(SearchOutput(v)) = SearchOutput(v)
           /\ DOMAIN SearchOutput(v).f = {"hits", "datasets", "total", "truncated"}
           /\ \A k \in DOMAIN SearchOutput(v).f.hits.s :
                DOMAIN SearchOutput(v).f.hits.s[k].f \subseteq {"text", "score", "datasetName"}
<1> DEFINE w == SearchOutput(v)
           hs == Get(v, "hits").s
           ds == Get(v, "datasets").s
<1>1. /\ Searchable(v) /\ IsObj(w)
      /\ DOMAIN w.f = {"hits", "datasets", "total", "truncated"}
      /\ w = Obj([hits |-> Arr(HitValues(v)), datasets |-> Arr(ds),
                  total |-> Get(v, "total"), truncated |-> Get(v, "truncated")])
      /\ Get(w, "hits") = Arr(HitValues(v)) /\ Get(w, "datasets") = Arr(ds)
      /\ Get(w, "total") = Get(v, "total") /\ Get(w, "truncated") = Get(v, "truncated")
  <2>1. Strings(ds) = ds
    BY AllStrings
  <2> QED BY <2>1, SearchParsed
<1>2. /\ Get(w, "hits").s = HitValues(v) /\ Get(w, "datasets").s = ds
      /\ IsArr(Get(w, "hits")) /\ IsArr(Get(w, "datasets"))
  BY <1>1, Kinds
<1>3. /\ DOMAIN HitValues(v) = DOMAIN hs
      /\ \A k \in DOMAIN hs : /\ HitValues(v)[k] = HitValue(hs[k]) /\ IsHit(HitValues(v)[k])
                              /\ HitValue(HitValues(v)[k]) = HitValues(v)[k]
                              /\ DOMAIN HitValues(v)[k].f
                                   \subseteq {"text", "score", "datasetName"}
  BY <1>1, HitTwice DEF HitValues, Searchable
<1>4. Searchable(w)
  BY <1>1, <1>2, <1>3 DEF Searchable
<1>5. HitValues(w) = HitValues(v)
  <2>1. HitValues(w) = [k \in DOMAIN hs |-> HitValue(HitValues(v)[k])]
    BY <1>2, <1>3 DEF HitValues
  <2>2. HitValues(v) = [k \in DOMAIN hs |-> HitValue(hs[k])]
    BY DEF HitValues
  <2> QED BY <1>3, <2>1, <2>2
<1>6. SearchOutput(w) = Obj([hits |-> Arr(HitValues(w)), datasets |-> Arr(Strings(ds)),
                             total |-> Get(w, "total"), truncated |-> Get(w, "truncated")])
  BY <1>2, <1>4, SearchParsed
<1>7. w.f.hits.s = HitValues(v)
  <2>1. w.f.hits = Get(w, "hits")
    BY <1>1 DEF Get
  <2> QED BY <1>2, <2>1
<1> QED BY <1>1, <1>3, <1>5, <1>6, <1>7, AllStrings

LEMMA StatusTwice ==
    ASSUME NEW v, StatusOutput(v) # Bad
    PROVE  StatusOutput(StatusOutput(v)) = StatusOutput(v)
<1> DEFINE named == [k \in DOMAIN Get(v, "datasets").s |->
                       Pick(Get(v, "datasets").s[k], {"name"})]
           r == [datasets |-> Arr(named), hiddenDatasets |-> Get(v, "hiddenDatasets"),
                 namespaces |-> Get(v, "namespaces")]
           w == Obj(r)
<1>1. /\ \A k \in DOMAIN Get(v, "datasets").s : IsNamed(Get(v, "datasets").s[k])
      /\ IsNum(Get(v, "hiddenDatasets")) /\ Every(IsStr, Get(v, "namespaces"))
      /\ StatusOutput(v) = w
  BY DEF StatusOutput, Every
<1>2. /\ IsObj(w) /\ Get(w, "datasets") = Arr(named)
      /\ Get(w, "hiddenDatasets") = Get(v, "hiddenDatasets")
      /\ Get(w, "namespaces") = Get(v, "namespaces")
  <2>1. DOMAIN r = {"datasets", "hiddenDatasets", "namespaces"} /\ w.f = r /\ IsObj(w)
    BY Kinds
  <2>2. /\ r.datasets = Arr(named) /\ r.hiddenDatasets = Get(v, "hiddenDatasets")
        /\ r.namespaces = Get(v, "namespaces")
    OBVIOUS
  <2> HIDE DEF r, w
  <2>3. /\ Get(w, "datasets") = r.datasets /\ Get(w, "hiddenDatasets") = r.hiddenDatasets
        /\ Get(w, "namespaces") = r.namespaces
    BY <2>1 DEF Get
  <2> QED BY <2>1, <2>2, <2>3
<1>3. ASSUME NEW k \in DOMAIN named
      PROVE  IsNamed(named[k]) /\ Pick(named[k], {"name"}) = named[k]
  <2>1. named[k] = Pick(Get(v, "datasets").s[k], {"name"}) /\ IsNamed(Get(v, "datasets").s[k])
    BY <1>1
  <2>2. /\ IsObj(named[k])
        /\ Get(named[k], "name") = Get(Get(v, "datasets").s[k], "name")
    BY <2>1, Picked, PickedField
  <2> QED BY <2>1, <2>2, PickedTwice DEF IsNamed
<1>4. [k \in DOMAIN named |-> Pick(named[k], {"name"})] = named
  BY <1>3
<1> HIDE DEF named, w
<1>5. /\ IsArr(Get(w, "datasets")) /\ Get(w, "datasets").s = named
  BY <1>2, Kinds
<1>6. Every(IsNamed, Get(w, "datasets")) /\ Every(IsStr, Get(w, "namespaces"))
  BY <1>1, <1>2, <1>3, <1>5 DEF Every
<1>7. StatusOutput(w) = Obj([datasets |-> Arr(named), hiddenDatasets |-> Get(v, "hiddenDatasets"),
                             namespaces |-> Get(v, "namespaces")])
  BY <1>1, <1>2, <1>4, <1>5, <1>6 DEF StatusOutput
<1> QED BY <1>1, <1>7 DEF w

-----------------------------------------------------------------------------
(* What accepted inputs and answers are like. *)

IsSequence(q) == q \in Seq({q[k] : k \in DOMAIN q})

\* What the parsed input of a capability can be relied on for.
Understood(c, v) ==
    /\ c \in Write \cup {"forgetDataset"} => IsStr(Get(v, "datasetName"))
    /\ c \in Search =>
         /\ IsArr(Get(v, "datasets")) /\ IsSequence(Get(v, "datasets").s)
         /\ \A k \in DOMAIN Get(v, "datasets").s : IsStr(Get(v, "datasets").s[k])

LEMMA ReferenceParsed ==
    ASSUME NEW v, DatasetRef(v) # Bad PROVE IsStr(Get(DatasetRef(v), "datasetName"))
<1> DEFINE types == [datasetName |-> "s"]
<1>1. /\ DatasetRef(v) = Pick(v, DOMAIN types)
      /\ \A n \in DOMAIN types : HasType(Get(v, n), types[n])
  BY TypedTwice DEF DatasetRef
<1>2. DOMAIN types = {"datasetName"} /\ types["datasetName"] = "s"
  OBVIOUS
<1>3. HasType(Get(v, "datasetName"), "s")
  BY <1>1, <1>2
<1>4. Get(DatasetRef(v), "datasetName") = Get(v, "datasetName")
  BY <1>1, <1>2, PickedField
<1> QED BY <1>3, <1>4 DEF HasType

LEMMA SearchInputParsed ==
    ASSUME NEW v \in Inputs, SearchInput(v) # Bad
    PROVE  LET ds == Get(SearchInput(v), "datasets")
           IN  IsArr(ds) /\ IsSequence(ds.s) /\ \A k \in DOMAIN ds.s : IsStr(ds.s[k])
<1> DEFINE names == {"datasets", "query"} \cup OptionalField(v, "topK", IsNum)
           ds == Get(v, "datasets")
<1>1. /\ IsObj(v) /\ IsArr(ds) /\ \A k \in DOMAIN ds.s : IsStr(ds.s[k])
      /\ SearchInput(v) = Pick(v, names)
  BY DEF SearchInput, Every
<1>2. Get(SearchInput(v), "datasets") = ds
  BY <1>1, PickedField
<1>3. "datasets" \in DOMAIN v.f /\ ds = v.f["datasets"]
  <2>1. ~IsArr(Undefined)
    BY DEF IsArr, Undefined
  <2> QED BY <1>1, <2>1 DEF Get
<1>4. IsSequence(ds.s)
  BY <1>1, <1>3, ArraysAssumption DEF IsSequence
<1> QED BY <1>1, <1>2, <1>4

LEMMA InputParsed ==
    ASSUME NEW c \in Capability, NEW v, c \in Search => v \in Inputs,
           ParseInput(c, v) # Bad
    PROVE  Understood(c, ParseInput(c, v))
<1>1. CASE c = "add"
  <2>1. AddInput(v) = Pick(v, {"datasetName", "content"}) /\ IsStr(Get(v, "datasetName"))
    <3>1. ParseInput(c, v) = AddInput(v)
      BY <1>1 DEF ParseInput, Search
    <3> QED BY <3>1 DEF AddInput
  <2>2. Get(AddInput(v), "datasetName") = Get(v, "datasetName")
    BY <2>1, PickedField
  <2> QED BY <1>1, <2>1, <2>2 DEF Understood, ParseInput, Search
<1>2. CASE c \in {"cognify", "forgetDataset"}
  BY <1>2, ReferenceParsed DEF Understood, ParseInput, Search
<1>3. CASE c \in Search
  <2>1. ParseInput(c, v) = SearchInput(v)
    BY <1>3 DEF ParseInput, Search
  <2> QED BY <1>3, <2>1, SearchInputParsed DEF Understood, Search, Write
<1>4. CASE c = "datasetsStatus"
  BY <1>4 DEF Understood, Search, Write
<1> QED BY <1>1, <1>2, <1>3, <1>4 DEF Capability, Write

\* A row's hit has a text that is a string, or none.
LEMMA HitOfRow ==
    ASSUME NEW row, NEW single
    PROVE  LET h == WorkerHit(row, single)
           IN  IsObj(h) /\ ("text" \in DOMAIN h.f => IsStr(Get(h, "text")))
<1>1. CASE ~IsObj(row)
  <2>1. WorkerHit(row, single) = Obj([text |-> Str])
    BY <1>1 DEF WorkerHit
  <2> QED BY <2>1, Kinds DEF Get
<1>2. CASE IsObj(row)
  <2> DEFINE text == IF Truthy(Get(row, "text")) THEN Get(row, "text")
                     ELSE IF Truthy(Get(row, "summary")) THEN Get(row, "summary")
                     ELSE Get(row, "name")
             score == Get(row, "score")
             fields == (IF IsStr(text) THEN {"text"} ELSE {})
                       \cup (IF score.t \in {"number", "notFinite"} THEN {"score"} ELSE {})
                       \cup (IF single THEN {"datasetName"} ELSE {})
             r == [n \in fields |-> CASE n = "text" -> text
                                      [] n = "score" -> score
                                      [] n = "datasetName" -> Str]
  <2>1. WorkerHit(row, single) = Obj(r)
    BY <1>2 DEF WorkerHit
  <2>2. "text" \in fields => IsStr(text)
    OBVIOUS
  <2> HIDE DEF text, score, fields
  <2>3. IsObj(Obj(r)) /\ Obj(r).f = r /\ DOMAIN r = fields
    BY Kinds
  <2>4. "text" \in fields => r["text"] = text
    OBVIOUS
  <2> QED BY <2>1, <2>2, <2>3, <2>4 DEF Get
<1> QED BY <1>1, <1>2

LEMMA AnswerToSearch ==
    ASSUME NEW v, NEW a \in SearchAnswers(v)
    PROVE  /\ IsObj(a) /\ Get(a, "datasets") = Get(v, "datasets")
           /\ IsNum(Get(a, "total")) /\ IsBool(Get(a, "truncated"))
           /\ IsArr(Get(a, "hits")) /\ a.f.hits = Get(a, "hits")
           /\ \A k \in DOMAIN Get(a, "hits").s :
                LET h == Get(a, "hits").s[k]
                IN  IsObj(h) /\ ("text" \in DOMAIN h.f => IsStr(Get(h, "text")))
<1> DEFINE single == Len(Get(v, "datasets").s) = 1
           Answer(hits) == Obj([hits |-> Arr(hits), datasets |-> Get(v, "datasets"),
                                total |-> Num, truncated |-> Bool, duration_ms |-> Num])
           Fine(h) == IsObj(h) /\ ("text" \in DOMAIN h.f => IsStr(Get(h, "text")))
<1>1. PICK hits : a = Answer(hits) /\ \A k \in DOMAIN hits : Fine(hits[k])
  <2>1. CASE a = Answer(<<>>)
    BY <2>1
  <2>2. ASSUME NEW r \in Rows, a = Answer(<<WorkerHit(r, single)>>)
        PROVE  \E hits : a = Answer(hits) /\ \A k \in DOMAIN hits : Fine(hits[k])
    <3>1. Fine(WorkerHit(r, single))
      BY HitOfRow
    <3> QED BY <2>2, <3>1
  <2>3. ASSUME NEW r \in Rows, NEW s \in Rows,
               a = Answer(<<WorkerHit(r, single), WorkerHit(s, single)>>)
        PROVE  \E hits : a = Answer(hits) /\ \A k \in DOMAIN hits : Fine(hits[k])
    <3>1. Fine(WorkerHit(r, single)) /\ Fine(WorkerHit(s, single))
      BY HitOfRow
    <3> QED BY <2>3, <3>1
  <2>4. a \in {Answer(<<>>)} \cup {Answer(<<WorkerHit(r, single)>>) : r \in Rows}
               \cup {Answer(<<WorkerHit(r, single), WorkerHit(s, single)>>) : r, s \in Rows}
    BY DEF SearchAnswers
  <2>5. \/ a = Answer(<<>>)
        \/ \E r \in Rows : a = Answer(<<WorkerHit(r, single)>>)
        \/ \E r \in Rows, s \in Rows :
             a = Answer(<<WorkerHit(r, single), WorkerHit(s, single)>>)
    BY <2>4
  <2> HIDE DEF Answer, Fine, single
  <2> QED BY <2>1, <2>2, <2>3, <2>5
<1> DEFINE r == [hits |-> Arr(hits), datasets |-> Get(v, "datasets"),
                 total |-> Num, truncated |-> Bool, duration_ms |-> Num]
<1>2. a.f = r /\ IsObj(a)
  BY <1>1, Kinds
<1>3. /\ Get(a, "hits") = Arr(hits) /\ Get(a, "datasets") = Get(v, "datasets")
      /\ Get(a, "total") = Num /\ Get(a, "truncated") = Bool /\ a.f.hits = Arr(hits)
  BY <1>2 DEF Get
<1> QED BY <1>1, <1>2, <1>3, Kinds

\* An answer to an accepted input: the double's in test mode, else the worker's.
Answering(c, v, a) ==
    IF test THEN HasDouble(c) /\ a = DoubleAnswer(c, v) ELSE a \in Answers(c, v)

LEMMA CapabilityOf ==
    ASSUME NEW c \in Capability
    PROVE  /\ c \in Search => c \notin Write /\ c # "datasetsStatus" /\ c # "forgetDataset"
                              /\ ~HasDouble(c)
           /\ \/ c \in Search \/ c \in Write \/ c = "datasetsStatus" \/ c = "forgetDataset"
  BY DEF Capability, Search, Write, HasDouble

LEMMA OutputOf ==
    ASSUME NEW c \in Capability, NEW v
    PROVE  /\ c \in Write => ParseOutput(c, v) = Typed(v, ReceiptTypes)
           /\ c = "forgetDataset" => ParseOutput(c, v) = Typed(v, ForgetTypes)
           /\ c \in Search => ParseOutput(c, v) = SearchOutput(v)
           /\ c = "datasetsStatus" => ParseOutput(c, v) = StatusOutput(v)
  BY DEF ParseOutput, Capability, Search, Write, MutatingReceipt, ForgetReceipt

\* An output that the binding has parsed is parsed again to the same value.
LEMMA ParsedTwice ==
    ASSUME NEW c \in Capability, NEW v, NEW a, Understood(c, v), Answering(c, v, a),
           ParseOutput(c, a) # Bad
    PROVE  ParseOutput(c, ParseOutput(c, a)) = ParseOutput(c, a)
<1>1. CASE c \in Write \/ c = "forgetDataset"
  BY <1>1, OutputOf, TypedTwice
<1>2. CASE c = "datasetsStatus"
  BY <1>2, OutputOf, StatusTwice
<1>3. CASE c \in Search
  <2>1. a \in SearchAnswers(v)
    BY <1>3, CapabilityOf DEF Answering, Answers
  <2>2. Get(a, "datasets") = Get(v, "datasets")
    BY <2>1, AnswerToSearch
  <2> DEFINE ds == Get(a, "datasets").s
  <2>3. ds \in Seq({ds[k] : k \in DOMAIN ds}) /\ \A k \in DOMAIN ds : IsStr(ds[k])
    BY <1>3, <2>2 DEF Understood, IsSequence
  <2>4. ParseOutput(c, a) = SearchOutput(a)
    BY <1>3, OutputOf
  <2>5. SearchOutput(SearchOutput(a)) = SearchOutput(a)
    BY <2>3, <2>4, SearchTwice
  <2> QED BY <1>3, <2>4, <2>5, OutputOf
<1> QED BY <1>1, <1>2, <1>3, CapabilityOf

\* A double's answer is one of its capability's.
LEMMA DoubleFits ==
    ASSUME NEW c \in Capability, HasDouble(c), NEW v, Understood(c, v)
    PROVE  ParseOutput(c, DoubleAnswer(c, v)) # Bad
<1> DEFINE a == DoubleAnswer(c, v)
<1>1. IsStr(Get(v, "datasetName"))
  BY DEF Understood, HasDouble, Write
<1>2. CASE c = "forgetDataset"
  <2> DEFINE r == [datasetName |-> Get(v, "datasetName"), datasetId |-> Str, purged |-> Str,
                   storeFilesBefore |-> Num, storeFilesAfter |-> Num]
  <2>1. a = Obj(r)
    BY <1>2 DEF DoubleAnswer
  <2>2. IsObj(a) /\ a.f = r
    BY <2>1, Kinds
  <2>3. \A n \in DOMAIN r : Get(a, n) = r[n]
    BY <2>2 DEF Get
  <2>4. \A n \in DOMAIN ForgetTypes : HasType(Get(a, n), ForgetTypes[n])
    BY <1>1, <2>3, Kinds DEF ForgetTypes, HasType
  <2>5. Typed(a, ForgetTypes) # Bad
    BY <2>2, <2>4, Picked DEF Typed
  <2> QED BY <1>2, <2>5, OutputOf
<1>3. CASE c # "forgetDataset"
  <2> DEFINE r == [datasetName |-> Get(v, "datasetName"), idempotencyKey |-> Str,
                   reconciled |-> Str, itemsBefore |-> Num, itemsAfter |-> Num,
                   deduplicated |-> Bool]
  <2>1. a = Obj(r)
    BY <1>3 DEF DoubleAnswer
  <2>2. IsObj(a) /\ a.f = r
    BY <2>1, Kinds
  <2>3. \A n \in DOMAIN r : Get(a, n) = r[n]
    BY <2>2 DEF Get
  <2>4. \A n \in DOMAIN ReceiptTypes : HasType(Get(a, n), ReceiptTypes[n])
    BY <1>1, <2>3, Kinds DEF ReceiptTypes, HasType
  <2>5. Typed(a, ReceiptTypes) # Bad
    BY <2>2, <2>4, Picked DEF Typed
  <2>6. c \in Write
    BY <1>3 DEF HasDouble
  <2> QED BY <2>5, <2>6, OutputOf
<1> QED BY <1>2, <1>3

\* The receipt of an add names its dataset.
LEMMA ReceiptNames ==
    ASSUME NEW v, ParseOutput("add", v) # Bad
    PROVE  ParseInput("cognify", ParseOutput("add", v)) # Bad
<1> DEFINE w == Typed(v, ReceiptTypes)
<1>1. ParseOutput("add", v) = w
  BY DEF ParseOutput, MutatingReceipt, Write, Search
<1>2. /\ w = Pick(v, DOMAIN ReceiptTypes)
      /\ \A n \in DOMAIN ReceiptTypes : HasType(Get(v, n), ReceiptTypes[n])
  BY <1>1, TypedTwice
<1>3. "datasetName" \in DOMAIN ReceiptTypes /\ ReceiptTypes["datasetName"] = "s"
  BY DEF ReceiptTypes
<1>4. IsObj(w) /\ HasType(Get(w, "datasetName"), "s")
  <2> HIDE DEF w
  <2>1. IsObj(w)
    BY <1>2, Picked
  <2>2. Get(w, "datasetName") = Get(v, "datasetName")
    BY <1>2, <1>3, PickedField
  <2> QED BY <1>2, <1>3, <2>1, <2>2
<1> DEFINE types == [datasetName |-> "s"]
<1>5. DOMAIN types = {"datasetName"} /\ types["datasetName"] = "s"
  OBVIOUS
<1>6. Typed(w, types) # Bad
  <2>1. \A n \in DOMAIN types : HasType(Get(w, n), types[n])
    BY <1>4, <1>5
  <2>2. Typed(w, types) = Pick(w, DOMAIN types)
    BY <1>4, <2>1 DEF Typed
  <2>3. Pick(w, DOMAIN types) # Bad
    BY Picked
  <2> QED BY <2>2, <2>3
<1>7. ParseInput("cognify", w) = Typed(w, types)
  BY DEF ParseInput, DatasetRef, Search
<1> QED BY <1>1, <1>6, <1>7

-----------------------------------------------------------------------------
(* The invariant: at every stage, where the values came from. *)

StageKnown ==
    /\ cap \in Capability /\ test \in BOOLEAN
    /\ stage \in {"input", "rejected", "accepted", "paramsRejected", "answered", "lost",
                  "blocked", "bound", "outputContract", "delivered"}

\* An input is the run's own, or the receipt that an add delivered.
InputKnown ==
    stage = "input" =>
      \/ input \in Inputs /\ raw = Undefined
      \/ cap = "cognify" /\ ParseInput("cognify", input) # Bad
RejectedIsOwn == stage = "rejected" => raw = Undefined

AcceptedIsUnderstood ==
    stage \in {"accepted", "answered", "bound", "outputContract", "delivered"} =>
      Understood(cap, input)

AnswerKnown ==
    stage \in {"answered", "bound", "outputContract", "delivered"} => Answering(cap, input, raw)

ParsedFromAnswer ==
    /\ stage \in {"bound", "delivered"} => value = ParseOutput(cap, raw) /\ value # Bad
    /\ stage = "outputContract" => ParseOutput(cap, raw) = Bad

IInv ==
    /\ StageKnown /\ InputKnown /\ RejectedIsOwn /\ AcceptedIsUnderstood /\ AnswerKnown
    /\ ParsedFromAnswer

LEMMA InitOK == BoundaryInit => IInv
  BY DEF BoundaryInit, IInv, StageKnown, InputKnown, RejectedIsOwn, AcceptedIsUnderstood,
         AnswerKnown, ParsedFromAnswer

LEMMA CheckInputOK == ASSUME IInv, CheckInput PROVE IInv'
<1> USE DEF IInv, CheckInput
<1>1. CASE ParseInput(cap, input) = Bad
  <2>1. stage' = "rejected" /\ UNCHANGED <<input, cap, test, raw, value>>
    BY <1>1
  <2>2. raw = Undefined
    BY <1>1 DEF InputKnown
  <2> QED BY <2>1, <2>2 DEF StageKnown, InputKnown, RejectedIsOwn, AcceptedIsUnderstood,
                            AnswerKnown, ParsedFromAnswer
<1>2. CASE ParseInput(cap, input) # Bad
  <2>1. stage' = "accepted" /\ input' = ParseInput(cap, input) /\ UNCHANGED <<cap, test, raw, value>>
    BY <1>2
  <2>2. cap \in Search => input \in Inputs
    BY DEF InputKnown, Search
  <2>3. Understood(cap, ParseInput(cap, input))
    BY <1>2, <2>2, InputParsed DEF StageKnown
  <2> QED BY <2>1, <2>3 DEF StageKnown, InputKnown, RejectedIsOwn, AcceptedIsUnderstood,
                            AnswerKnown, ParsedFromAnswer
<1> QED BY <1>1, <1>2

LEMMA WorkerOK == ASSUME IInv, WorkerRefuses \/ WorkerAnswers PROVE IInv'
<1> USE DEF IInv
<1>1. CASE WorkerRefuses
  BY <1>1 DEF WorkerRefuses, StageKnown, InputKnown, RejectedIsOwn, AcceptedIsUnderstood,
              AnswerKnown, ParsedFromAnswer
<1>2. CASE WorkerAnswers
  <2>1. /\ stage = "accepted" /\ ~test /\ raw' \in Answers(cap, input)
        /\ stage' \in {"lost", "answered"} /\ UNCHANGED <<cap, test, input, value>>
    BY <1>2 DEF WorkerAnswers
  <2>2. Answering(cap, input, raw)'
    BY <2>1 DEF Answering
  <2> QED BY <2>1, <2>2 DEF StageKnown, InputKnown, RejectedIsOwn, AcceptedIsUnderstood,
                            AnswerKnown, ParsedFromAnswer
<1> QED BY <1>1, <1>2

LEMMA DoubleAnswersOK == ASSUME IInv, DoubleAnswers PROVE IInv'
<1> USE DEF IInv, DoubleAnswers
<1>1. CASE HasDouble(cap)
  <2>1. Answering(cap, input, raw)'
    BY <1>1 DEF Answering
  <2> QED BY <1>1, <2>1 DEF StageKnown, InputKnown, RejectedIsOwn, AcceptedIsUnderstood,
                            AnswerKnown, ParsedFromAnswer
<1>2. CASE ~HasDouble(cap)
  BY <1>2 DEF StageKnown, InputKnown, RejectedIsOwn, AcceptedIsUnderstood, AnswerKnown,
              ParsedFromAnswer
<1> QED BY <1>1, <1>2

LEMMA BindOK == ASSUME IInv, Bind PROVE IInv'
<1> USE DEF IInv, Bind
<1>1. Answering(cap, input, raw)' <=> Answering(cap, input, raw)
  BY DEF Answering
<1> QED BY <1>1 DEF StageKnown, InputKnown, RejectedIsOwn, AcceptedIsUnderstood,
                    AnswerKnown, ParsedFromAnswer

\* The runtime's parse changes nothing and rejects nothing.
LEMMA DeliverOK == ASSUME IInv, Deliver PROVE IInv'
<1> USE DEF IInv, Deliver
<1>1. ParseOutput(cap, value) = value /\ value # Bad
  BY ParsedTwice DEF StageKnown, AcceptedIsUnderstood, AnswerKnown, ParsedFromAnswer
<1>2. value' = value /\ stage' = "delivered"
  BY <1>1
<1>3. Answering(cap, input, raw)' <=> Answering(cap, input, raw)
  BY DEF Answering
<1> QED BY <1>2, <1>3 DEF StageKnown, InputKnown, RejectedIsOwn, AcceptedIsUnderstood,
                          AnswerKnown, ParsedFromAnswer

LEMMA ComposeOK == ASSUME IInv, Compose PROVE IInv'
<1> USE DEF IInv, Compose
<1>1. ParseInput("cognify", value) # Bad
  BY ReceiptNames DEF ParsedFromAnswer
<1> QED BY <1>1 DEF StageKnown, InputKnown, RejectedIsOwn, AcceptedIsUnderstood,
                    AnswerKnown, ParsedFromAnswer, Capability, Write

LEMMA StutterOK == ASSUME IInv, UNCHANGED boundaryVars PROVE IInv'
<1> USE DEF IInv, boundaryVars
<1>1. Answering(cap, input, raw)' <=> Answering(cap, input, raw)
  BY DEF Answering
<1> QED BY <1>1 DEF StageKnown, InputKnown, RejectedIsOwn, AcceptedIsUnderstood,
                    AnswerKnown, ParsedFromAnswer

LEMMA IInvStep == IInv /\ [BoundaryNext]_boundaryVars => IInv'
  BY CheckInputOK, WorkerOK, DoubleAnswersOK, BindOK, DeliverOK, ComposeOK, StutterOK
     DEF BoundaryNext

-----------------------------------------------------------------------------
LEMMA Tight == ASSUME IInv PROVE BoundaryIsTight
<1> USE DEF IInv
<1>1. ParsedOnceIsParsed
  BY ParsedTwice DEF StageKnown, AcceptedIsUnderstood, AnswerKnown, ParsedFromAnswer,
                     ParsedOnceIsParsed
<1>2. OnlyDeclaredFields
  <2> SUFFICES ASSUME stage = "delivered", cap \in Search
               PROVE  /\ DOMAIN value.f = {"hits", "datasets", "total", "truncated"}
                      /\ \A k \in DOMAIN value.f.hits.s :
                           DOMAIN value.f.hits.s[k].f \subseteq {"text", "score", "datasetName"}
    BY DEF OnlyDeclaredFields
  <2>1. /\ value = SearchOutput(raw) /\ value # Bad
        /\ Understood(cap, input) /\ raw \in SearchAnswers(input)
    BY CapabilityOf, OutputOf DEF StageKnown, AcceptedIsUnderstood, AnswerKnown,
                                  ParsedFromAnswer, Answering, Answers
  <2> DEFINE ds == Get(raw, "datasets").s
  <2>2. ds \in Seq({ds[k] : k \in DOMAIN ds}) /\ \A k \in DOMAIN ds : IsStr(ds[k])
    BY <2>1, AnswerToSearch DEF Understood, IsSequence
  <2> QED BY <2>1, <2>2, SearchTwice
<1> QED BY <1>1, <1>2 DEF BoundaryIsTight

LEMMA TextlessOnly == ASSUME IInv PROVE OnlyTextlessIsRejected
<1> USE DEF IInv
<1> SUFFICES ASSUME stage = "outputContract", cap \in Search
             PROVE  \E k \in DOMAIN raw.f.hits.s : "text" \notin DOMAIN raw.f.hits.s[k].f
  BY DEF OnlyTextlessIsRejected
<1>1. SearchOutput(raw) = Bad /\ Understood(cap, input) /\ raw \in SearchAnswers(input)
  BY CapabilityOf, OutputOf DEF StageKnown, AcceptedIsUnderstood, AnswerKnown,
                                ParsedFromAnswer, Answering, Answers
<1>2. ~Searchable(raw)
  BY <1>1, SearchParsed
<1>3. PICK k \in DOMAIN Get(raw, "hits").s : ~IsHit(Get(raw, "hits").s[k])
  BY <1>1, <1>2, AnswerToSearch DEF Searchable, Understood
<1>4. "text" \notin DOMAIN Get(raw, "hits").s[k].f
  BY <1>1, <1>3, AnswerToSearch DEF IsHit
<1> QED BY <1>1, <1>3, <1>4, AnswerToSearch

LEMMA Fits == ASSUME IInv PROVE AnswersFit
<1> USE DEF IInv
<1>1. DoubleStandsIn
  BY DoubleFits DEF DoubleStandsIn, StageKnown, AcceptedIsUnderstood, AnswerKnown,
                    ParsedFromAnswer, Answering
<1>2. ReceiptFeedsCognify
  BY DEF ReceiptFeedsCognify, RejectedIsOwn
<1> QED BY <1>1, <1>2 DEF AnswersFit

LEMMA Invariant == BoundarySpec => []IInv
<1> QED BY InitOK, IInvStep, PTL DEF BoundarySpec

\* Whatever the inputs, rows and receipts: the runtime's parse of what a binding
\* returned neither rejects nor changes it, and nothing undeclared is delivered
\* (parseOutput, bindings.ts 130-138).
THEOREM ParsedOnce == BoundarySpec => []BoundaryIsTight
  BY Invariant, Tight, PTL

\* The one answer of the worker that the search contract rejects has a hit
\* without a text (contracts.ts 166-196).
THEOREM RejectedForText == BoundarySpec => []OnlyTextlessIsRejected
  BY Invariant, TextlessOnly, PTL

\* Doubles answer to their contracts, and cognify takes any receipt of an add.
THEOREM AnswersAreTaken == BoundarySpec => []AnswersFit
  BY Invariant, Fits, PTL
=============================================================================
