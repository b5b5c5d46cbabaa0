------------------------------- MODULE Contracts -------------------------------
(***************************************************************************)
(* The executable contracts of pack/src/contracts.ts, the capability table *)
(* of manifest.ts, the doubles of bindings.ts and the shape of what the    *)
(* worker answers, as pure operators.                                      *)
(*                                                                         *)
(* A JavaScript value is a record whose "t" is what typeof, Array.isArray  *)
(* and Number.isFinite can tell of it; an object carries its own fields    *)
(* and an array its elements.  Text and numbers beyond that are abstracted.*)
(***************************************************************************)
EXTENDS Sequences, Naturals

Undefined == [t |-> "undefined"]
Str == [t |-> "string"]             \* a non-empty string
EmptyStr == [t |-> "emptyString"]
Num == [t |-> "number"]             \* a finite number
NaN == [t |-> "notFinite"]
Bool == [t |-> "boolean"]
Null == [t |-> "null"]
Obj(fields) == [t |-> "object", f |-> fields]
Arr(items) == [t |-> "array", s |-> items]
Bad == [t |-> "rejected"]

IsObj(v) == v.t = "object"
IsStr(v) == v.t \in {"string", "emptyString"}
IsNum(v) == v.t = "number"
IsBool(v) == v.t = "boolean"
IsArr(v) == v.t = "array"
Every(P(_), v) == IsArr(v) /\ \A k \in DOMAIN v.s : P(v.s[k])

Get(v, name) == IF name \in DOMAIN v.f THEN v.f[name] ELSE Undefined

\* The value a parser builds: the named fields, and an optional one only when
\* the condition that the parser puts on it holds.
Pick(v, names) == Obj([n \in names |-> Get(v, n)])
OptionalField(v, n, P(_)) == IF P(Get(v, n)) THEN {n} ELSE {}

-----------------------------------------------------------------------------
\* AddInputContract: the content must not be empty.
AddInput(v) ==
    IF IsObj(v) /\ IsStr(Get(v, "datasetName")) /\ Get(v, "content") = Str
    THEN Pick(v, {"datasetName", "content"})
    ELSE Bad

ReceiptTypes ==
    [datasetName |-> "s", idempotencyKey |-> "s", reconciled |-> "s",
     itemsBefore |-> "n", itemsAfter |-> "n", deduplicated |-> "b"]
ForgetTypes ==
    [datasetName |-> "s", datasetId |-> "s", purged |-> "s",
     storeFilesBefore |-> "n", storeFilesAfter |-> "n"]

HasType(v, type) ==
    \/ type = "s" /\ IsStr(v)
    \/ type = "n" /\ IsNum(v)
    \/ type = "b" /\ IsBool(v)

Typed(v, types) ==
    IF IsObj(v) /\ \A n \in DOMAIN types : HasType(Get(v, n), types[n])
    THEN Pick(v, DOMAIN types)
    ELSE Bad

\* parseReceipt, parseDatasetRef (which an add receipt satisfies) and the
\* forget receipt.
MutatingReceipt(v) == Typed(v, ReceiptTypes)
\* Variant: cognify insists on a bare reference.
BareRef(v) ==
    IF IsObj(v) /\ DOMAIN v.f = {"datasetName"} THEN Typed(v, [datasetName |-> "s"]) ELSE Bad
DatasetRef(v) == Typed(v, [datasetName |-> "s"])
ForgetReceipt(v) == Typed(v, ForgetTypes)

SearchInput(v) ==
    LET topK == Get(v, "topK")
    IN  IF /\ IsObj(v)
           /\ Every(IsStr, Get(v, "datasets"))
           /\ Len(Get(v, "datasets").s) \in 1..8
           /\ Get(v, "query") = Str
           /\ topK = Undefined \/ IsNum(topK)
        THEN Pick(v, {"datasets", "query"} \cup OptionalField(v, "topK", IsNum))
        ELSE Bad

\* Variant: a hit needs a score.
IsScoredHit(h) == IsObj(h) /\ IsStr(Get(h, "text")) /\ IsNum(Get(h, "score"))
IsHit(h) == IsObj(h) /\ IsStr(Get(h, "text"))
HitValue(h) ==
    Pick(h, {"text"} \cup OptionalField(h, "score", IsNum)
                     \cup OptionalField(h, "datasetName", IsStr))

\* The strings among the elements.
Strings(s) ==
    LET upTo[k \in 0..Len(s)] ==
          IF k = 0 THEN <<>>
          ELSE IF IsStr(s[k]) THEN Append(upTo[k - 1], s[k]) ELSE upTo[k - 1]
    IN  upTo[Len(s)]

\* Variant: hits are passed on as they came.
SearchOutputVerbatim(v) ==
    IF IsObj(v) /\ Every(IsHit, Get(v, "hits")) THEN v ELSE Bad

\* SearchOutputContract: one hit without a text rejects the whole answer; an
\* ill-typed score or a name that is no string is dropped.
SearchOutput(v) ==
    IF /\ IsObj(v)
       /\ Every(IsHit, Get(v, "hits"))
       /\ IsArr(Get(v, "datasets"))
       /\ IsNum(Get(v, "total"))
       /\ IsBool(Get(v, "truncated"))
    THEN Obj([hits |-> Arr([k \in DOMAIN Get(v, "hits").s |-> HitValue(Get(v, "hits").s[k])]),
              datasets |-> Arr(Strings(Get(v, "datasets").s)),
              total |-> Get(v, "total"),
              truncated |-> Get(v, "truncated")])
    ELSE Bad

StatusInput(v) ==
    IF v.t \in {"undefined", "null", "object"} THEN Obj([storeScoped |-> Bool]) ELSE Bad

IsNamed(d) == IsObj(d) /\ IsStr(Get(d, "name"))
StatusOutput(v) ==
    IF /\ IsObj(v)
       /\ Every(IsNamed, Get(v, "datasets"))
       /\ IsNum(Get(v, "hiddenDatasets"))
       /\ Every(IsStr, Get(v, "namespaces"))
    THEN Obj([datasets |-> Arr([k \in DOMAIN Get(v, "datasets").s |->
                                  Pick(Get(v, "datasets").s[k], {"name"})]),
              hiddenDatasets |-> Get(v, "hiddenDatasets"),
              namespaces |-> Get(v, "namespaces")])
    ELSE Bad

-----------------------------------------------------------------------------
Write == {"add", "cognify"}
Search == {"searchChunks", "searchSummaries"}
Capability == Write \cup Search \cup {"datasetsStatus", "forgetDataset"}

\* PACK_MANIFEST.capabilities, and the contracts the bindings register.
Effect(c) ==
    CASE c \in Write -> "write"
      [] c = "forgetDataset" -> "irreversible"
      [] OTHER -> "read"
Permission(c) ==
    CASE c \in Write -> "cognee.write"
      [] c = "forgetDataset" -> "cognee.delete"
      [] OTHER -> "cognee.search"
HasDouble(c) == c \in Write \cup {"forgetDataset"}

ParseInput(c, v) ==
    CASE c = "add" -> AddInput(v)
      [] c \in {"cognify", "forgetDataset"} -> DatasetRef(v)
      [] c \in Search -> SearchInput(v)
      [] c = "datasetsStatus" -> StatusInput(v)
ParseOutput(c, v) ==
    CASE c \in Write -> MutatingReceipt(v)
      [] c = "forgetDataset" -> ForgetReceipt(v)
      [] c \in Search -> SearchOutput(v)
      [] c = "datasetsStatus" -> StatusOutput(v)

\* Variant: the forget double of a dataset that was never there has no id.
DoubleWithoutId(c, v) ==
    IF c = "forgetDataset"
    THEN Obj([datasetName |-> Get(v, "datasetName"), purged |-> Str,
              storeFilesBefore |-> Num, storeFilesAfter |-> Num])
    ELSE Obj([datasetName |-> Get(v, "datasetName"), idempotencyKey |-> Str,
              reconciled |-> Str, itemsBefore |-> Num, itemsAfter |-> Num,
              deduplicated |-> Bool])

\* What the registered doubles answer to the input v, before their own parse.
DoubleAnswer(c, v) ==
    IF c = "forgetDataset"
    THEN Obj([datasetName |-> Get(v, "datasetName"), datasetId |-> Str, purged |-> Str,
              storeFilesBefore |-> Num, storeFilesAfter |-> Num])
    ELSE Obj([datasetName |-> Get(v, "datasetName"), idempotencyKey |-> Str,
              reconciled |-> Str, itemsBefore |-> Num, itemsAfter |-> Num,
              deduplicated |-> Bool])
=============================================================================
