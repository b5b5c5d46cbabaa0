---------------------------- MODULE WorkerJournal -----------------------------
(***************************************************************************)
(* The keyed writes of the bundled worker (pack/src/worker/                *)
(* cognee_worker.py): dispatch() of add, cognify and forget_dataset over   *)
(* the durable IdempotencyJournal and the Cognee store.                    *)
(*                                                                         *)
(* There is one worker on the store at a time (Supervision.tla); it serves *)
(* one request at a time and may be killed between any two steps, after    *)
(* which a new worker starts on the same journal file and store.  A key is *)
(* bound to the whole of what it was first used for, so the pair (dataset, *)
(* fingerprint) of the code is the binding record itself here.  Requests   *)
(* that are refused - out of scope, malformed, a key bound to other work - *)
(* change nothing and are not actions.                                     *)
(*                                                                         *)
(* The journal is the file: a sequence of lines, the last of which may lack*)
(* its newline.  Cognee is external: adding a content twice leaves one item*)
(* and cognify changes no item, which is what the retry logic relies on.   *)
(***************************************************************************)
EXTENDS Integers, SequencesExt, FiniteSets

CONSTANTS
    Key,        \* idempotency keys of the invocation context
    Dataset,    \* dataset addresses inside the granted namespaces
    Content,    \* what can be added
    NoJob,      \* the worker is not in a request
    TornWrites, \* may an append to the journal be cut short?
    MaxLines,   \* bound on the journal's length
    MaxRuns     \* bound on the executions of one key

ASSUME BoundAssumption == MaxLines \in Nat /\ MaxRuns \in Nat
ASSUME TornAssumption == TornWrites \in BOOLEAN
ASSUME ContentAssumption == IsFiniteSet(Content)

\* (op, dataset, fingerprint): the fingerprint of add covers the content.
Binding ==
    [op : {"add"}, dataset : Dataset, content : Content]
      \cup [op : {"cognify"}, dataset : Dataset]

ASSUME JobAssumption ==
    NoJob \notin [key : Key, bind : Binding, before : Int, after : Int]

Garbled == [state |-> "garbled"]    \* a line json.loads rejects
NoRecord == [state |-> "none"]

VARIABLES
    journal,    \* the lines of the journal file
    openTail,   \* the last line has no newline yet
    items,      \* the contents of each dataset
    exists,     \* datasets known to Cognee
    pc,         \* where dispatch() is
    job,        \* its locals: key, binding, items_before, items_after, reconciled
    runs,       \* how often each key's operation was executed
    ranAs,      \* the bindings each key was executed with
    acked,      \* receipts the callers got, by key
    forgotten   \* (dataset, content) pairs purged and not written again since

store == <<items, exists>>
seen == <<runs, ranAs, acked, forgotten>>
vars == <<journal, openTail, store, pc, job, seen>>

Init ==
    /\ journal = <<>> /\ openTail = FALSE
    /\ items = [d \in Dataset |-> {}]
    /\ exists = {}
    /\ pc = "idle" /\ job = NoJob
    /\ runs = [k \in Key |-> 0]
    /\ ranAs = [k \in Key |-> {}]
    /\ acked = [k \in Key |-> {}]
    /\ forgotten = {}

-----------------------------------------------------------------------------
\* Variant: the first record of a key decides, not the latest.
FindFirst(k) ==
    LET n == SelectInSeq(journal, LAMBDA line :
               line.state # "garbled" /\ line.key = k)
    IN  IF n = 0 THEN NoRecord ELSE journal[n]

\* IdempotencyJournal.find: the latest readable record of a key.
Find(k) ==
    LET n == SelectLastInSeq(journal, LAMBDA line :
               line.state # "garbled" /\ line.key = k)
    IN  IF n = 0 THEN NoRecord ELSE journal[n]

\* _append: one more line, in append mode.  Behind a line without a newline the
\* new record lands on that line and makes it unreadable.
Append1(rec) ==
    IF openTail THEN [journal EXCEPT ![Len(journal)] = Garbled]
                ELSE Append(journal, rec)

\* What is on disk after an append that was cut short: a piece of the record,
\* or all of it without its newline.
Cut(rec) ==
    IF openTail THEN {[journal EXCEPT ![Len(journal)] = Garbled]}
                ELSE {Append(journal, Garbled), Append(journal, rec)}

Room == openTail \/ Len(journal) < MaxLines

\* _items_for_dataset_name: the count, 0 for a dataset that is not resolved, -1
\* when counting fails; none of the failures reaches the caller.
Counts(stored) == {Cardinality(stored), 0, -1}

Idle == pc' = "idle" /\ job' = NoJob

\* What a receipt says of the write itself.
Receipt(rec) == [before |-> rec.before, after |-> rec.after]

-----------------------------------------------------------------------------
(* One request: dispatch() of add and cognify. *)

\* Variant: cognify without the existence precheck.
AdmittedUnchecked(b) == TRUE

\* cognify on a dataset Cognee does not know is refused before the journal is
\* looked at.
Admitted(b) == b.op = "cognify" => b.dataset \in exists

\* Variant: a begun record is taken for a completed one.
ReplayBegun(k, b) ==
    /\ pc = "idle" /\ Admitted(b)
    /\ Find(k).state \in {"begun", "completed"} /\ Find(k).bind = b
    /\ acked' = [acked EXCEPT ![k] = @ \cup {Receipt([after |-> 0] @@ Find(k))}]
    /\ UNCHANGED <<journal, openTail, store, pc, job, runs, ranAs, forgotten>>

\* find() decides: a key bound to other work is refused; a completed record is
\* replayed; a begun one is executed again with its own items_before; without
\* a record the items are counted and the key is begun.
ReceiveReplay(k, b) ==
    /\ pc = "idle" /\ Admitted(b)
    /\ Find(k).state = "completed" /\ Find(k).bind = b
    /\ acked' = [acked EXCEPT ![k] = @ \cup {Receipt(Find(k))}]
    /\ UNCHANGED <<journal, openTail, store, pc, job, runs, ranAs, forgotten>>

\* Variant: a key is taken up again without comparing what it is bound to.
ReissueUnmatched(k, b) ==
    /\ pc = "idle" /\ Admitted(b)
    /\ Find(k).state = "begun"
    /\ pc' = "execute"
    /\ job' = [key |-> k, bind |-> b, before |-> Find(k).before, after |-> 0]
    /\ UNCHANGED <<journal, openTail, store, seen>>

ReceiveReissue(k, b) ==
    /\ pc = "idle" /\ Admitted(b)
    /\ Find(k).state = "begun" /\ Find(k).bind = b
    /\ pc' = "execute"
    /\ job' = [key |-> k, bind |-> b, before |-> Find(k).before, after |-> 0]
    /\ UNCHANGED <<journal, openTail, store, seen>>

\* Variant: the key is not begun before it is executed.
FreshUnbegun(k, b) ==
    /\ pc = "idle" /\ Admitted(b)
    /\ Find(k) = NoRecord
    /\ pc' = "execute"
    /\ job' = [key |-> k, bind |-> b, before |-> 0, after |-> 0]
    /\ UNCHANGED <<journal, openTail, store, seen>>

ReceiveFresh(k, b) ==
    /\ pc = "idle" /\ Admitted(b)
    /\ Find(k) = NoRecord
    /\ pc' = "begin"
    /\ \E n \in Counts(items[b.dataset]) :
         job' = [key |-> k, bind |-> b, before |-> n, after |-> 0]
    /\ UNCHANGED <<journal, openTail, store, seen>>

Begun(j) == [state |-> "begun", key |-> j.key, bind |-> j.bind, before |-> j.before]

\* journal.begin: appended and fsynced before anything is executed.
Begin ==
    /\ pc = "begin" /\ Room
    /\ journal' = Append1(Begun(job))
    /\ openTail' = FALSE
    /\ pc' = "execute"
    /\ UNCHANGED <<store, job, seen>>

\* Variant: an add that already ran for this key is skipped when it is
\* reissued, as if nothing could have been purged in between.
ExecutedOnce ==
    /\ runs[job.key] < MaxRuns
    /\ runs' = [runs EXCEPT ![job.key] = @ + 1]
    /\ ranAs' = [ranAs EXCEPT ![job.key] = @ \cup {job.bind}]
    /\ IF job.bind.op = "add"
         THEN /\ exists' = exists \cup {job.bind.dataset}
              /\ items' = [items EXCEPT ![job.bind.dataset] =
                             IF job.bind \in ranAs[job.key] THEN @
                                                            ELSE @ \cup {job.bind.content}]
              /\ forgotten' = forgotten \ {<<job.bind.dataset, job.bind.content>>}
         ELSE UNCHANGED <<store, forgotten>>

\* cognee.add / cognee.cognify takes effect.
Executed ==
    /\ runs[job.key] < MaxRuns
    /\ runs' = [runs EXCEPT ![job.key] = @ + 1]
    /\ ranAs' = [ranAs EXCEPT ![job.key] = @ \cup {job.bind}]
    /\ IF job.bind.op = "add"
         THEN /\ exists' = exists \cup {job.bind.dataset}
              /\ items' = [items EXCEPT ![job.bind.dataset] =
                             @ \cup {job.bind.content}]
              /\ forgotten' = forgotten \ {<<job.bind.dataset, job.bind.content>>}
         ELSE UNCHANGED <<store, forgotten>>

Execute ==
    /\ pc = "execute"
    /\ Executed
    /\ pc' = "commit"
    /\ \E n \in Counts(items'[job.bind.dataset]) : job' = [job EXCEPT !.after = n]
    /\ UNCHANGED <<journal, openTail, acked>>

\* Cognee raises, having written everything or nothing; the caller gets
\* COGNEE_ERROR and the key stays begun.
ExecuteFails ==
    /\ pc = "execute"
    /\ \/ Executed
       \/ UNCHANGED <<store, runs, ranAs, forgotten>>
    /\ Idle
    /\ UNCHANGED <<journal, openTail, acked>>

Completed(j) ==
    [state |-> "completed", key |-> j.key, bind |-> j.bind,
     before |-> j.before, after |-> j.after]

\* Variant: the response is sent before the commit, which may never come.
CommitSkipped ==
    /\ pc = "commit"
    /\ pc' = "reply"
    /\ UNCHANGED <<journal, openTail, store, job, seen>>

\* journal.commit.
Commit ==
    /\ pc = "commit" /\ Room
    /\ journal' = Append1(Completed(job))
    /\ openTail' = FALSE
    /\ pc' = "reply"
    /\ UNCHANGED <<store, job, seen>>

\* The response line; the supervision may have given up waiting for it.
Reply ==
    /\ pc = "reply"
    /\ acked' = [acked EXCEPT ![job.key] = @ \cup {Receipt(job)}]
    /\ Idle
    /\ UNCHANGED <<journal, openTail, store, runs, ranAs, forgotten>>

-----------------------------------------------------------------------------
\* Variant: the dataset's name goes, its contents stay.
ForgetLeavesItems(d) ==
    /\ pc = "idle" /\ d \in exists
    /\ exists' = exists \ {d}
    /\ forgotten' = forgotten \cup ({d} \X items[d])
    /\ UNCHANGED <<items, journal, openTail, pc, job, runs, ranAs, acked>>

\* forget_dataset: strict resolution, then the purge; never journaled.
Forget(d) ==
    /\ pc = "idle" /\ d \in exists
    /\ exists' = exists \ {d}
    /\ items' = [items EXCEPT ![d] = {}]
    /\ forgotten' = forgotten \cup ({d} \X items[d])
    /\ UNCHANGED <<journal, openTail, pc, job, runs, ranAs, acked>>

\* The worker is gone - crashed, or killed as poisoned - and another one
\* starts; only the file and the store remain.
Crash ==
    /\ pc # "idle"
    /\ Idle
    /\ UNCHANGED <<journal, openTail, store, seen>>

\* An append is cut short: the machine or the worker dies in it, or the disk
\* is full and the worker answers COGNEE_ERROR.
AppendCut ==
    /\ TornWrites
    /\ pc \in {"begin", "commit"} /\ Room
    /\ journal' \in Cut(IF pc = "begin" THEN Begun(job) ELSE Completed(job))
    /\ openTail' = TRUE
    /\ Idle
    /\ UNCHANGED <<store, seen>>

Next ==
    \/ \E k \in Key, b \in Binding :
         ReceiveReplay(k, b) \/ ReceiveReissue(k, b) \/ ReceiveFresh(k, b)
    \/ Begin \/ Execute \/ ExecuteFails \/ Commit \/ Reply
    \/ \E d \in Dataset : Forget(d)
    \/ Crash \/ AppendCut

Spec == Init /\ [][Next]_vars

-----------------------------------------------------------------------------
Count == -1..Cardinality(Content)
Line ==
    [state : {"begun"}, key : Key, bind : Binding, before : Count]
      \cup [state : {"completed"}, key : Key, bind : Binding, before : Count, after : Count]
      \cup {Garbled}

\* Every variable stays in its domain, and content is only ever found in
\* datasets Cognee knows.
TypeOK ==
    /\ journal \in Seq(Line)
    /\ openTail \in BOOLEAN
    /\ items \in [Dataset -> SUBSET Content]
    /\ exists \subseteq Dataset
    /\ \A d \in Dataset : items[d] # {} => d \in exists
    /\ pc \in {"idle", "begin", "execute", "commit", "reply"}
    /\ job \in {NoJob} \cup [key : Key, bind : Binding, before : Count, after : Count]
    /\ (pc = "idle") <=> (job = NoJob)
    /\ runs \in [Key -> 0..MaxRuns]
    /\ ranAs \in [Key -> SUBSET Binding]
    /\ acked \in [Key -> SUBSET [before : Count, after : Count]]
    /\ forgotten \subseteq Dataset \X Content

-----------------------------------------------------------------------------
\* A key is never executed for two different pieces of work, across crashes,
\* failed attempts and purges of its dataset (section 7.3: a key is durably
\* bound; reuse for other work is refused "before any Cognee call").
KeyKeepsItsWork ==
    \A k \in Key : Cardinality(ranAs[k]) <= 1

\* Whatever was executed is known to the journal, so that the next request
\* with that key cannot take it for fresh work.
ExecutedIsJournaled ==
    \A k \in Key : runs[k] > 0 => Find(k) # NoRecord

\* A receipt, replayed or not, is only given for work that was executed, and the
\* content of an acknowledged add is in the store unless its dataset was
\* forgotten after the content was last written.
AcknowledgedHasLanded ==
    \A k \in Key : acked[k] # {} =>
      \E b \in ranAs[k] :
        b.op = "add" => \/ b.content \in items[b.dataset]
                        \/ <<b.dataset, b.content>> \in forgotten

\* All receipts of one key agree: whoever retries, and however often the worker
\* died on the way, learns the one recorded outcome.
OneOutcomePerKey ==
    \A k \in Key : Cardinality(acked[k]) <= 1

\* cognify never runs on a dataset Cognee does not know, where it would be a
\* silent no-op (section 7.4): nothing gets between the precheck and the run.
NoSilentNoOp ==
    pc = "execute" /\ job.bind.op = "cognify" => job.bind.dataset \in exists

\* What is executed has an effect, and what is acknowledged was executed.
EffectsAreReal == NoSilentNoOp /\ AcknowledgedHasLanded

\* Once a caller was told that a key completed, it is never executed again
\* (section 7.3: "replay the recorded outcome without re-execution").  Holds as
\* long as no append to the journal is cut short.
AcknowledgedNeverReexecuted ==
    [][\A k \in Key : acked[k] # {} => runs'[k] = runs[k]]_vars

\* The journal keeps the promise of KeyedWrites, seen through find(): a key is
\* bound by its first record, its outcome is what the completed record says,
\* and no crash, failure or retry makes it be executed after that or told two
\* ways (contract section 7.3).  As long as no append is cut short.
Promise ==
    INSTANCE KeyedWrites
      WITH Work <- Binding, Outcome <- [before : Count, after : Count],
           NoWork <- NoRecord, NoOutcome <- NoRecord,
           work <- [k \in Key |-> IF Find(k) = NoRecord THEN NoRecord ELSE Find(k).bind],
           tries <- runs,
           outcome <- [k \in Key |-> IF Find(k).state = "completed" THEN Receipt(Find(k))
                                                                  ELSE NoRecord],
           told <- acked
ImplementsKeyedWrites == Promise!Spec
=============================================================================
