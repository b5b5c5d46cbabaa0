--------------------------- MODULE ContractBoundary ----------------------------
(***************************************************************************)
(* One value on its way through a VICT graph: the run input meets the      *)
(* capability's input contract, the worker (or in test mode the double)    *)
(* answers, the binding parses the answer (parseOutput), the runtime       *)
(* parses what the binding returned once more, and the delivered value is  *)
(* the next node's input.  Scope and idempotency are other modules'.       *)
(***************************************************************************)
EXTENDS Contracts

CONSTANTS
    Inputs,     \* run inputs to start from
    Rows,       \* rows that cognee.search returns
    Receipts    \* receipts, well-formed or not, that reach the binding

\* An array is the sequence of its elements.
ASSUME ArraysAssumption ==
    \A v \in Inputs : IsObj(v) =>
      \A n \in DOMAIN v.f : IsArr(v.f[n]) =>
        LET s == v.f[n].s IN s \in Seq({s[k] : k \in DOMAIN s})

VARIABLES cap, test, stage, input, raw, value

boundaryVars == <<cap, test, stage, input, raw, value>>

\* A finite number that is no integer in 1..25.
OddNum == [t |-> "number", odd |-> TRUE]

\* dispatch(): the worker's own check of the search limit.
WorkerTakes(c, v) ==
    c \in Search => Get(v, "topK") \notin {OddNum}

Truthy(v) == v.t \notin {"undefined", "null", "emptyString"}

\* _bound_search: a row becomes a hit; text, summary and name are tried in this
\* order and only a string is kept, a score only if it converts.
WorkerHit(row, single) ==
    IF ~IsObj(row) THEN Obj([text |-> Str])
    ELSE LET text == IF Truthy(Get(row, "text")) THEN Get(row, "text")
                     ELSE IF Truthy(Get(row, "summary")) THEN Get(row, "summary")
                     ELSE Get(row, "name")
             score == Get(row, "score")
             fields == (IF IsStr(text) THEN {"text"} ELSE {})
                       \cup (IF score.t \in {"number", "notFinite"} THEN {"score"} ELSE {})
                       \cup (IF single THEN {"datasetName"} ELSE {})
         IN  Obj([n \in fields |-> CASE n = "text" -> text
                                     [] n = "score" -> score
                                     [] n = "datasetName" -> Str])

\* The answers to a search over the rows: lists of at most two, or a result
\* that is no list, which carries rawShape instead.
SearchAnswers(v) ==
    LET single == Len(Get(v, "datasets").s) = 1
        Answer(hits) == Obj([hits |-> Arr(hits), datasets |-> Get(v, "datasets"),
                             total |-> Num, truncated |-> Bool, duration_ms |-> Num])
    IN  {Answer(<<>>)} \cup {Answer(<<WorkerHit(r, single)>>) : r \in Rows}
        \cup {Answer(<<WorkerHit(r, single), WorkerHit(s, single)>>) : r, s \in Rows}

StatusAnswers ==
    {Obj([datasets |-> Arr(names), hiddenDatasets |-> Num, namespaces |-> Arr(<<Str>>)]) :
       names \in {<<>>, <<Obj([name |-> Str])>>}}

Answers(c, v) ==
    CASE c \in Search -> SearchAnswers(v)
      [] c = "datasetsStatus" -> StatusAnswers
      [] OTHER -> Receipts

\* json.dumps writes a number that is not finite as NaN, which JSON.parse
\* refuses: the line is demoted to diagnostics and answers nobody.
Unparseable(v) ==
    /\ IsObj(v) /\ IsArr(Get(v, "hits"))
    /\ \E k \in DOMAIN Get(v, "hits").s : Get(Get(v, "hits").s[k], "score") = NaN

-----------------------------------------------------------------------------
BoundaryInit ==
    /\ cap \in Capability /\ test \in BOOLEAN /\ input \in Inputs
    /\ stage = "input"
    /\ raw = Undefined /\ value = Undefined

\* The runtime's check of a node's input against the registered contract.
CheckInput ==
    /\ stage = "input"
    /\ LET v == ParseInput(cap, input)
       IN  IF v = Bad THEN stage' = "rejected" /\ UNCHANGED input
                      ELSE stage' = "accepted" /\ input' = v
    /\ UNCHANGED <<cap, test, raw, value>>

\* The real binding's worker refuses the parameters, or answers.
WorkerRefuses ==
    /\ stage = "accepted" /\ ~test
    /\ ~WorkerTakes(cap, input)
    /\ stage' = "paramsRejected"
    /\ UNCHANGED <<cap, test, input, raw, value>>

WorkerAnswers ==
    /\ stage = "accepted" /\ ~test
    /\ WorkerTakes(cap, input)
    /\ raw' \in Answers(cap, input)
    /\ stage' = IF Unparseable(raw') THEN "lost" ELSE "answered"
    /\ UNCHANGED <<cap, test, input, value>>

DoubleAnswers ==
    /\ stage = "accepted" /\ test
    /\ IF HasDouble(cap) THEN raw' = DoubleAnswer(cap, input) /\ stage' = "answered"
                         ELSE stage' = "blocked" /\ UNCHANGED raw
    /\ UNCHANGED <<cap, test, input, value>>

\* Variant: the binding returns what the worker answered.
BindsNothing ==
    /\ stage = "answered"
    /\ value' = raw /\ stage' = "bound"
    /\ UNCHANGED <<cap, test, input, raw>>

\* parseOutput: COGNEE_OUTPUT_CONTRACT, or the parsed value.
Bind ==
    /\ stage = "answered"
    /\ value' = ParseOutput(cap, raw)
    /\ stage' = IF value' = Bad THEN "outputContract" ELSE "bound"
    /\ UNCHANGED <<cap, test, input, raw>>

\* The runtime checks the node's declared output.
Deliver ==
    /\ stage = "bound"
    /\ value' = ParseOutput(cap, value)
    /\ stage' = IF value' = Bad THEN "contractRejected" ELSE "delivered"
    /\ UNCHANGED <<cap, test, input, raw>>

\* An add node followed by a cognify node.
Compose ==
    /\ stage = "delivered" /\ cap = "add"
    /\ cap' = "cognify" /\ input' = value /\ stage' = "input"
    /\ UNCHANGED <<test, raw, value>>

BoundaryNext ==
    \/ CheckInput \/ WorkerRefuses \/ WorkerAnswers \/ DoubleAnswers
    \/ Bind \/ Deliver \/ Compose

BoundarySpec == BoundaryInit /\ [][BoundaryNext]_boundaryVars

-----------------------------------------------------------------------------
(* Safety. *)

\* What a binding lets through, the runtime's own check of the same contract
\* neither rejects nor changes: the two parses of bindings.ts and of the
\* runtime never disagree about a value.
ParsedOnceIsParsed ==
    /\ stage # "contractRejected"
    /\ stage = "bound" => ParseOutput(cap, value) = value

\* Nothing beyond the declared fields crosses the boundary, at any depth
\* (_bound_search: "any further chunk-payload fields are NOT part of the
\* contract and are dropped").
OnlyDeclaredFields ==
    stage = "delivered" /\ cap \in Search =>
      /\ DOMAIN value.f = {"hits", "datasets", "total", "truncated"}
      /\ \A k \in DOMAIN value.f.hits.s :
           DOMAIN value.f.hits.s[k].f \subseteq {"text", "score", "datasetName"}

\* Binding and runtime never disagree about a value, and nothing undeclared
\* crosses the boundary (parseOutput, bindings.ts 130-138).
BoundaryIsTight == ParsedOnceIsParsed /\ OnlyDeclaredFields

\* The one shape of an answer that the worker gives and the search contract
\* rejects is a hit whose row had no text under any of the three names; it takes
\* the other hits with it (contracts.ts, header: "verified against the worker's
\* actual output").
OnlyTextlessIsRejected ==
    stage = "outputContract" /\ cap \in Search =>
      \E k \in DOMAIN raw.f.hits.s : "text" \notin DOMAIN raw.f.hits.s[k].f

\* A double stands in for its capability: whatever input the capability's
\* contract accepts, the double's answer passes the capability's output
\* contract (contracts.ts, header).
DoubleStandsIn == test => stage # "outputContract"

\* The receipt of an add is an input of cognify ("graph composition: cognify
\* consumes the add receipt's datasetName"): only a run's own input is rejected.
ReceiptFeedsCognify ==
    stage = "rejected" /\ cap = "cognify" => raw = Undefined

\* What one component answers, the next one takes: a double's answer passes the
\* output contract, an add's receipt the input contract of cognify.
AnswersFit == DoubleStandsIn /\ ReceiptFeedsCognify
=============================================================================
