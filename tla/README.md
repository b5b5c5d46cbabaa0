# A formal model of the Cognee pack

TLA+ modules, TLC configurations and TLAPS proofs for the program in this
repository: a capability pack that puts the Cognee memory engine behind a
supervised Python worker, the browser pilot built on it, and the proof layer it
grew out of. `PROJECT.json` lists the components, the runs, the mapping from
definitions to source lines, the hazards, the findings and the theorems.

## 1. The system

```
 page (public/app.js)
   |  POST /api/act
   v
 pilot server: one pack and one VICT runtime per trust domain   server.mjs
   |  runtime.activate(graph), runtime.run(input)
   v
 VICT runtime (external): contracts, permissions, policy, engines
   |  invoke(input, context)
   v
 bindings: mode guard, key, deadline, output contract           bindings.ts, contracts.ts
   |  request(op, params, {deadlineAt, mutating, ctx})
   v
 CogneeWorkerSupervision: queue, deadlines, lifecycle, poison   supervision.ts
   |                                                |
   |  NDJSON on stdin / stdout                      |  cognee-store-owner.lock
   v                                                v  (other processes use it too)
 worker process: store guard, scope rail,  -->  the store root: journal, Cognee's data
   journal, Cognee           cognee_worker.py, guard_store_roots.py
```

| Part | State | Operations | What makes it correct |
|---|---|---|---|
| Store-owner lock (`supervision.ts`) | the lock file; `ownsStore` in each process | acquire, heartbeat, three verification points, release; the operator's recovery | one process operates on a store at a time; a live owner's lock stays; a stale one can be recovered; a displaced owner fails closed |
| Supervision (`supervision.ts`) | `queue`, `child`, ready promise and timer, `pending`, `poisoned` | `request`, `_lifecycle`, `spawnChild` and its handlers, `shutdown` | what the caller is told about a mutation is true; at most one live worker; nothing sent late, without the lock, or to a worker that may still be writing; every request settles |
| Keyed writes (`cognee_worker.py`) | the journal file; Cognee's datasets | `add`, `cognify`, `forget_dataset`; `find`, `begin`, `commit` | a key stands for one piece of work with one outcome; what was acknowledged is in the store and is not executed again |
| Protocol loop, reads (`cognee_worker.py`) | none | `search_*`, `datasets_status`, `shutdown` | bounded answers under the request's id |
| Scope rail (`cognee_worker.py`) | granted namespaces | `check_name`, `to_cognee_name`, `filter_names` | names of one namespace never reach, list or collide with another's |
| Bindings (`bindings.ts`) | none | six handlers, three doubles | refusals come before any effect; a retry finishes what an attempt left |
| Contracts (`contracts.ts`), manifest, factory | none | the registered contracts | nothing undeclared crosses; answers and doubles fit what consumes them |
| Store guard (`guard_store_roots.py`), nested roots (`supervision.ts`) | the directory tree | `verify`, the constructor's resolution and ancestor scan | all places named inside one store, and no two instances on one store |
| Browser pilot (`server.mjs`, `app.js`) | packs, runtimes with one active graph, the page's tabs and ticks | `act`, boot, graceful and crash shutdown; the page's handlers | deletions are armed and confirmed; domains stay apart; locks are released |
| Proof client (`client.mjs`) | `child`, ready promise, `pending`, `poisoned` | `request`, `_lifecycle`, handlers | one operation at a time; results are true |
| Cognify-retry proof (`graph_equiv_c4.mjs`, `graph_dump_c4.py`, `worker_proof.py`) | two stores, recorded results | the script, its injected crash, the comparator | exit status 0 means what it is taken for |
| Batteries, verification suites | none | sequences of calls with expectations | - |

How they interact. The bindings call `request`; `request` chains a `run` behind
everything already queued; a `run` awaits a respawn delay and a worker's
readiness, and between those awaits timers, exit events, response lines, a
shutdown and other processes act. Processes share only the lock file and the
store. The worker keeps nothing in memory that a successor needs: the journal
and the store are all that survives it. Two requests to the pilot share the
active graph of a runtime across an `await`; two actions of the page share the
state that their handlers read after one.

What is hard here: read-then-act pairs on the lock file between processes; state
read before an `await` and used after it; the events of a worker that was
already replaced; deadlines that pass in the queue, in a startup, or in flight;
a crash between any two steps of a journaled write; retries of what an earlier
attempt is still doing; an operator who deletes lock files. `PROJECT.json` lists
each with its line and the properties that would notice it going wrong.

## 2. The modules

| Module | Models | Properties about |
|---|---|---|
| `ExclusiveStore` | abstract: one holder, operations by the holder only | |
| `StoreOwnership` | the lock-file protocol between processes; implements `ExclusiveStore` | mutual exclusion, recovery, tampering |
| `Supervision` | one supervision instance, its requests, the workers it spawns | outcomes, workers, readiness, dispatch, progress |
| `KeyedWrites` | abstract: a key is bound, tried, recorded once, told ever after | |
| `WorkerJournal` | keyed writes over journal and store; implements `KeyedWrites` | keys, receipts, torn appends |
| `PackCalls` | capability runs: engines, bindings, supervision and worker composed | admission, refusals, completions, progress |
| `Contracts` | every contract, the capability table, the doubles, as operators | |
| `ContractBoundary` | one value through a graph: input, answer, two parses, next node | what crosses, what is rejected |
| `ScopedDatasets` | abstract: datasets known by their addresses | |
| `WorkerScope` | the name mapping and the filter; implements `ScopedDatasets` | names kept apart |
| `StoreRoots` | root resolution, ancestor scan, store guard, boundary check | sharing of stores |
| `PilotServer` | the action boundary, two runtimes, boot and shutdowns | deletions, separation, locks |
| `PilotBrowser` | the page in front of that server | what its user meant |
| `ProofClient` | the proof layer's client and its driver | one operation, results, waiting |
| `EquivRun`, `GraphComparison` | the cognify-retry proof and its comparator | the meaning of success |
| `MCPackEdges`, `MCPilot`, `MCProofLayer` | sums of the modules above (section 3) | |
| `MCStoreOwnership`, `MCSupervision`, `MCWorkerJournal`, `MCPackCalls` | model values, symmetry | |
| `StoreOwnershipProofs`, `SupervisionProofs`, `WorkerJournalProofs`, `PackCallsProofs`, `PilotProofs`, `ContractBoundaryProofs`, `StoreRailsProofs`, `ProofLayerProofs` | theorems (section 4) | |

Definitions named "Variant" in a comment are deliberately broken forms of the
definition that follows them, each the kind of slip a change to that code could
make. They are part of no specification: substituted for the definition they
precede, they make one property fail, which shows that the property constrains
the code.

**StoreOwnership.** A JavaScript turn is atomic in its process but not between
processes, so every file-system call that another process can interleave with is
a step. `pc[i]` says which synchronous section process `i` is in: `creating` lies
between `existsSync` and `openSync('wx')`, `writing` between the creation of the
(empty) lock file and its record, `beating` between `readFileSync` and
`renameSync` of the heartbeat, `sending` between the last verification and the
write to the worker, `unlinking` between the read and the `unlinkSync` of the
release. `req[i]` is the await at which the head of the queue is suspended. The
lock file is `lock` (whose record, `Absent`, or `Foreign`) and `torn` (a file
without a readable record). `OperatorRecovers` is section 8.1 of
`docs/c3-pack-contract.md`; `OperatorTampers` (only when `RogueOperator`) is
anything else.

**Supervision.** Each action on the Node side is one turn of the event loop.
`cur` and `phase` are the `run()` in progress and the await it is suspended at
(`respawning` is `delay(300)`, `awaiting` the ready promise, `inflight` the pending
entry). Time is abstracted to the order of events: `expired` holds the requests
with at most `MIN_DISPATCH_REMAINING_MS` left; a timer may fire at any moment
after that. A worker is named by the request whose turn spawned it, so late lines
and exits of a replaced worker stay distinguishable. `os[w]` is the process:
`killed` is between a signal and its disappearance, `exited` between that and the
exit event, when Node still believes in the child. The lock appears as `owns` and
`lockMine` only; its file protocol is `StoreOwnership`'s business.

**WorkerJournal.** `journal` is the sequence of lines of the file, `openTail` says
that its last line has no newline yet. `find` takes the latest readable record of a
key. A request goes through `begin`, `execute`, `commit` and `reply`; `Crash` may
strike in any of them; `ExecuteFails` is Cognee raising after writing everything or
nothing. `runs`, `ranAs`, `acked` and `forgotten` are history: no action reads them
except for the bound on `runs`. `forgotten` holds the contents that a forget purged
and nobody has written since: an add that executes takes its content out again, so
the forget of an earlier life of a dataset excuses nothing. Cognee is external: a
second `add` of the same content leaves one item, as section 5 of the contract
relies on.

**PackCalls.** A run has a plan: capability, node policy (retry, timeout, control),
mode and irreversible policy. Which engine executes it follows from the plan as
in VICT (external): the durable engine calls the real binding in every mode and
derives a key only for nodes with a retry policy; the sequential one turns to the
doubles. The supervision is reduced to what a run can tell of it: one request
served at a time, a request given up while its worker goes on, a worker given up
on a mutation killed before the next dispatch. The journal is one record per run.
`purged` says that a forget took effect after the run's own latest effect; a reissue
that takes effect clears it.

**ContractBoundary, WorkerScope, StoreRoots.** The first drives the operators of
`Contracts` with values abstracted to what `typeof`, `Array.isArray` and
`Number.isFinite` tell of them; an object keeps its fields; `Strings`, which
filters an array, is a recursive function over its positions, which a proof can
unfold. The second treats
names as sequences of characters, because the mapping through a double underscore
is the very thing to check. The third takes one file-system call per step. A path
is its text: `Above` gives the ancestors of the text, `Real` the directory it
resolves to, which for a link need not lie under the text's ancestors. The
constructor resolves the root, the scan and the lock follow links, and the guard
(`Guarded`, `Within`) compares texts only, as `_norm` does.

**PilotServer, PilotBrowser.** `acts` are requests inside `act()`; `active[d]` is the
runtime's one active graph, changed by `activate` and read by `run` after an
await. Boot, the graceful shutdown and the crash shutdown are steps of their own,
and the release of any domain can fail in either (`stubborn`). In the page, the tab
in front, the ticks and the listed datasets change while answers are on the way; a
handler goes on with whatever is there when its own answer comes. `meant` is
history: the confirmed deletions that the user has no answer to, each with its
request and the tab that was in front. `DeletionWasMeant` is an action property: the
step in which a dataset vanishes is the run of such a request, for that domain and
that name.

**ProofClient, EquivRun, GraphComparison.** The client is the forerunner of the
supervision and lacks its scoping of handlers to children, so the module keeps
processes and their late events apart; an answer is a result or an error response,
which rejects the request before or after its effect. `EquivRun` follows the script
step by step with a fault possible anywhere; what it assumes of the comparator - an
equal pair passes and its controls are detected, an unequal one fails - is what
`GraphComparison` shows, which evaluates the comparator and its negative controls on
every pair of databases.

## 3. The runs

| Run | Instance | Question |
|---|---|---|
| `ownership` | 3 processes, operator keeps to 8.1, fair | Is the lock file an exclusive store, does no stray worker serve, does a live owner's lock stay, can a stale lock always be recovered? |
| `ownership_rogue` | 3 processes, lock tampered with at will | Does a displaced instance fail closed and let go? |
| `supervision` | a mutation, a read, a shutdown; lock may be lost; fair | Are callers told the truth, workers single and ready, dispatches admitted, and does everything settle? |
| `journal` | 2 keys, 2 datasets, 2 contents, 3 executions per key | Is the journal an abstract keyed write, and does a key keep its work? |
| `journal_torn` | 2 keys, 1 dataset, torn appends | Do receipts still speak of writes that are in the store? |
| `pack_calls` | 2 runs of any plan, 2 attempts, fair | Is only admitted work served, are refusals and completions true, does nothing land behind a later operation, does every run end? |
| `pack_edges` | the sum of boundary, names and directories | Is the boundary tight, do answers fit, do names keep apart, is a locked store never shared? |
| `pilot` | server with 2 concurrent requests, or behind the page | Are deletions confirmed and meant, stores and pages apart, locks released? |
| `proof_layer` | the sum of client, script and comparator | Do results, exit status and equivalence mean what they claim? |
| `stray_worker`, `epipe`, `torn_tail` | the smallest instance that shows it | the findings of section 5 |

Some properties are conjunctions of statements that belong together and are
defined one by one in the modules: `OutcomesAreTrue` is `RefusalMeansNoEffect`
and `SuccessMeansEffect`; `ReadinessIsReal` is `OneReadyTimer`,
`ReusedChildIsReady` and `OnlyReadyWorkersServe`; `EffectsAreReal` is `NoSilentNoOp`
and `AcknowledgedHasLanded`; `BoundaryIsTight`, `AnswersFit`, `ResultsAreTrue`,
`ComparatorIsExact` and `PageKeepsApart` likewise. `ImplementsKeyedWrites` covers
`ExecutedIsJournaled`, `OneOutcomePerKey` and `AcknowledgedNeverReexecuted`.

`MCPackEdges` and `MCProofLayer` extend modules without shared state, whose initial
predicates and next-state relations carry the component's name (`BoundaryInit`,
`ScopeNext`, `RunSpec`): a behaviour picks one component and the others keep their
initial values (fixed ones, where several are possible), so that the states are the
sum and not the product of the parts. In `MCPilot` the server takes requests from
anywhere, two at a time and malformed ones included (every deletion then counts as
meant, so that `DeletionWasMeant` is about the page), or it serves the page. The
page has two requests on the way if both ask for the status, or if a confirmed
deletion is awaited in an armed pilot; in the second case no candidates are on
display and only vault datasets are ticked. So a tab switch, a late status answer, a
note, a search, a cognify or a second deletion meets a deletion on its way, in
either order. `newest` records whether an older status answer came after a newer
one; only then may the list belong to another tab (section 5).

Bounds. Three processes are enough for the lock: the interleaving that needs the
most is a releasing owner, a fresh owner and a third contender. One shutdown, one
mutation and one read exercise every pair of consecutive requests in either
order, each spawning at most one worker, so up to three workers exist at once in
some stage of dying; a fourth request gives twelve million states, and the proofs
cover any number. `MaxLines = 4` is the most two keys can write when no append is
torn (a reissue adds no `begun` record), and three lines already let a torn line
swallow either kind of record. Two runs are one that leaves work behind and one
that it could land behind; two attempts are one retry, whose key then has a
journal record. Namespaces `a` and `a_b` with names that begin with or contain
underscores are the shortest that could collide; no granted namespace contains a
double underscore or ends in one (section 5). Two instances, the older and the
younger, on three nested directories and one apart give a root above, between,
below and beside another; one link gives a second spelling of a root, one leads from
below a root to a place further down in it, one from below a root out of it. In
the page, one dataset per domain is enough to take one domain's name for the
other's. `MaxSpawns = 4` and `MaxRequests = 3` let a worker be replaced after each
request of the proof client and once more; three rows over two identities and two
variants give every multiplicity that the comparator distinguishes.

`CHECK_DEADLOCK FALSE` is set in all runs: requests, processes, runs and scripts are
used once, and a behaviour in which all of them are over has ended properly.

Fairness. `ownership` assumes that an event loop runs, that an orphaned worker meets
the end of its standard input, and that the operator does what section 8.1 asks.
`supervision` assumes that timers fire and the event loop runs; nothing is assumed
of a worker, neither that it becomes ready, nor that it answers, nor that its exit
is noticed. `pack_calls` assumes the same of each run: its engine and the
supervision proceed, and its deadline passes at some time. The journal has no
liveness property: it makes no progress of its own, every retry is the caller's.

## 4. The proofs

All proofs hold for every value of the constants that satisfies the named
assumptions of the modules, and are checked down to the last step.

`StoreOwnershipProofs`, for any set of processes: every safety property of the two
ownership runs, under `InstanceAssumption`, and `~RogueOperator` where the operator
procedure is presupposed. `OneOperating` is not inductive. The strengthening `IInv`
is: whoever has `ownsStore` set is named by the readable lock (`OwnerIsNamed`);
whoever is in the acting half of a read-then-act pair still owns (`ActorsOwn`); a
claimed but unwritten lock is its claimant's (`ClaimIsMine`); only the worker of
the instance on the lock is busy (`BusyIsNamed`); the lock is unlinked after the
worker was killed (`ReleasedIsKilled`); other workers are idle
(`StrayWorkerNeverServes`). The refinement maps the holder to the instance on a
readable lock and the running operations to the busy workers.
`DisplacedIsForever` needs the type invariant only and `NonOwnersLetGo` an
invariant of its own; both hold under tampering.

`SupervisionProofs`, for any sets of mutations and reads, with and without loss of
the lock: every safety property of the run `supervision`. The inductive invariant
has four parts beside the types. `Requests`: a request waits once, and nothing was
sent or spawned for it before its turn. `Turns`: what each await stands on - in
particular, a ready timer runs only while its spawn is awaited by the very request
that spawned it, and a child that is not awaited has resolved; this is what keeps
the ready fields, which all spawns share, from being mixed up. `Effects`: an
operation in a worker's input was sent to that worker, a refused mutation was sent
to none, and a mutation reported unknown while its worker is still the child has
left `poisoned` set. `Workers`: whatever runs is the child; nothing runs during the
respawn delay; and without the lock a running worker has nothing to do, unless an
operation is in flight whose heartbeat will have it killed.

`WorkerJournalProofs`, for any keys, datasets and contents: types and
`EffectsAreReal` also with torn appends, by the invariant `Effects`; and, as long as
no append is cut short (`~TornWrites`), `KeyKeepsItsWork` and the refinement of
`KeyedWrites`, by the invariant `Keyed` about what `find` returns - a fresh job has no
record, a job under way is bound as its record says, a completed record has run,
and whatever callers were told is what is recorded. The assumption is needed: the
run `torn_tail` violates `AcknowledgedNeverReexecuted` without it, and
`AcknowledgedIsFinal` proves it under the assumption.

`PackCallsProofs`, for any runs, plans, permission sets and numbers of attempts:
the four safety properties of `pack_calls`. Only the head of the queue is with a
worker (`SentIsHead`); work left at a worker whose run has gone on implies `poisoned`
until that worker is killed, which orders it before the next dispatch.

`PilotProofs`, for any number of concurrent requests and any dataset names. Of the
server: the separation of the stores, the two deletion gates, and the release of
locks. The argument is that the request and not the active graph carries the
gates: from `mapActionInput` on it has a body that was checked (`SoundBody`), and
its run is allowed only what that body's action allows. Of the page in front of it:
`DeletionWasMeant` and `PageKeepsApart`, for any number and mix of concurrent
requests, where `MCPilot` has two. There the argument is that a handler knows its
request: whatever tab is in front when its answer comes, the answer is of the domain
that was asked, and a confirmed deletion on its way is in `meant` under that very
request, domain and name (`HandlersOK`); a run only removes what its own body names
and confirms (`RunRemovesConfirmed`). The latest status request is of the tab in
front (`NewestIsOwn`), so that only an older answer that comes after a newer one can
bring a foreign list.
`ActAssumption` keeps the names of requests apart from the two words that the
history `newest` also takes.

`ContractBoundaryProofs`, for any inputs, rows, receipts and lengths of arrays:
`BoundaryIsTight`, `OnlyTextlessIsRejected` and `AnswersFit`. The invariant says of
each stage where its value comes from: an accepted input is the parse of the run's
input, a raw answer is that of the double or of the worker to it, an accepted
answer is the parse of the raw one. The rest is algebra of the parsers: each
returns what it accepted unchanged the second time (`TypedTwice`, `HitTwice`,
`SearchTwice`, `StatusTwice`), declares no more than its fields, and takes what its
producer makes. `Strings`, the only recursive definition on the way, is treated by
the least position at which a claim about it fails (`Least`), which replaces
induction. `ArraysAssumption`: an array of an input is the sequence of its elements.

`StoreRailsProofs`. Names: for any names, and any namespaces that are not empty,
contain no double underscore and do not end in one underscore
(`PartsAssumption`), `WorkerScope` implements `ScopedDatasets`. Under exactly this
condition the first separator of a stored name is the one that `to_cognee_name` put
there (`FirstSeparator`), so that every stored name reads back as its address
(`ReadsBack`); then different addresses have different names (`KeptApart`), and the
names that a listing hides are as many as the addresses that were not granted
(`HiddenNames`, a bijection). Directories: for any instances, configurations and
links, in any directories that form a `Tree` (`TreeAssumption`),
`OlderStoreUntouched`. An older lock among the ancestors is always still ahead of
the scan (`OlderIsAhead`), so a finished scan has none; one root for two is excluded
by the lock (`OwnersHold`), and what serves names its data under a root spelled as
it resolves (`ServesInside`). A place is named below the root in text; unless it is
a link that leads out, the directory it resolves to is below it too
(`TouchedWithin`). Two roots that are not one below the other then have nothing
below them that overlaps, because what lies above a directory lies in line
(`WithinTransitive`, `WithinComparable`, `Apart`). The excuse `LeadsOut` is needed:
without it the model checker finds two instances on one directory in the instance
of `pack_edges`.

`ProofLayerProofs`, in three parts. The client, for any numbers of workers and
requests (`BoundsAssumption`): `OneOpAtATime`, `ResultsAreTrue` and
`WaitsForSomething`. The fields that all spawns share are those of the last spawn,
and only while the driver waits for it (`ReadyFields`); whatever runs is the child,
as long as no exit was seen late (`RunningIsChild`); and what some worker was sent
is no later than the current request and never reported unavailable (`Requests`).
The script, through every crash, timeout and error: `GreenMeansTested`. As long as
nothing was recorded that forbids a green exit (`Clean`), only the awaited request
is with a worker (`NothingLeftBehind`) - a worker that goes on after a deadline
is one the results tell of - and therefore journal, effects and fault are what the
step says (`Progress`). The comparator, for any identities, variants and databases
of any size: `ComparatorIsExact`. The list of an identity has each variant as often
as the database has the row (`Counted`); two lists without a surplus agree in every
count and hence in length (`NoSurplus`, `SameLength`, by a bijection); equal rows
make equal raw counts for the same reason. A marked duplicate changes a length, a
new edge a raw count. The two parts about the proof's verdict belong together: what
`EquivRun` lets `Compare` do is what `ComparatorExact` proves.

Found by proving: `Done` of `EquivRun` had alternatives that overlapped once the
journal record was completed. The model checker takes the first that applies, the
language any; the proof did not go through, and the alternatives now exclude each
other.

Only model-checked: liveness (`StaleLockRecovered`, `EverythingSettles`,
`EveryRunEnds`), which is beyond the prover. Every other property of a passing run is
a theorem. The definitions marked "Variant" and the findings of section 5 are
matters of runs by nature.

## 5. Findings

Three runs show the code doing something else than the repository says of it:

- `stray_worker`: a request sleeping in `_lifecycle` while `shutdown` releases the
  lock spawns a worker on the released store, and its own pre-dispatch check
  refuses the request without killing that worker. For this the respawn's 300 ms
  must overlap the end of the shutdown's 500 ms: a mutation queued behind the
  shutdown is dispatched to the worker that is slow to obey SIGTERM, times out,
  and the next request starts the respawn. The worker executes nothing
  (`StrayWorkerNeverServes`), it only holds the store's files open.
- `epipe`: nobody listens for `error` on the worker's standard input, so a dispatch
  to a worker that died an instant ago ends the host process instead of
  reporting `COGNEE_WRITE_UNKNOWN`.
- `torn_tail`: `_append` does not end a torn line before it writes the next record,
  so that record is lost too. If it was the `completed` record of a write that was
  acknowledged, the key is executed again.

Other divergences and oddities, met while modelling and kept in the modules as the
code has them:

- The `poisoned` flag is the instance's, not the worker's (`supervision.ts:561`). A
  worker that dies with a mutation in flight leaves it set and no child; the
  healthy replacement is killed at the next request but one.
- Two instances on nested roots notice each other only if the outer lock exists
  when the inner one looks (`supervision.ts:293-308`); the outer instance never looks
  below itself. `OlderStoreUntouched` states what does hold: nothing of a store that
  was locked before an instance began is touched by it.
- The store guard compares names after `abspath` and `normpath` and follows no link
  (`guard_store_roots.py:41-48`, `122-123`), where it calls a root that passes
  "provably inside allow_root" (`guard_store_roots.py:103-104`). A configuration
  that names a link inside the root passes although the data lies elsewhere, also
  in the store of another instance; one that names the root itself through a link
  is refused, because the worker resolves the root. `OlderStoreUntouched` excepts the
  former (`LeadsOut`); the configurations that the repository itself writes
  (`server.mjs:265-266`) name directories that it creates.
- A namespace that contains a double underscore, or ends in an underscore, reads
  back from its stored names as another one (`cognee_worker.py:196`). The granted
  namespaces of the repository have none.
- One search hit without text rejects the whole answer (`contracts.ts:183`), and the
  input contract accepts a `topK` that the worker refuses (`contracts.ts:149`).
- Two concurrent requests to a pilot domain may run each other's graph
  (`server.mjs:317`). The input contract of the graph that is hit, and the policy of
  the request, keep deletions and stores safe; the request itself fails or has the
  other capability's effect.
- A pilot that fails to boot its second domain leaves the lock of the first behind
  (`server.mjs:297`): the crash guard is registered later.
- A status answer that arrives after a change of tab is shown under the new one
  (`app.js:60`).
- If the exit event of a killed worker comes later than the 300 ms that `_lifecycle`
  waits (`client.mjs:109`, `153`), it clears the proof client's reference to the
  successor, and a third worker is started next to that one, against "one op at a
  time" (`client.mjs:16`). `hasty` records that this happened; `OneOpAtATime` holds
  as long as it did not, the other properties also when it did.
- The duplicates injected by the negative controls carry a mark that no real
  duplicate has (`graph_equiv_c4.mjs:273`), so an identity-to-properties comparison
  would have detected them too.
- The cognify-retry proof has a second worker on store B while the first is alive
  (`graph_equiv_c4.mjs:160-170`), idle at that time; its crash guards come after
  `process.exit` and are never registered (`graph_equiv_c4.mjs:327-329`).

Documented as intended and not held against the code: a replayed receipt for a
dataset that was forgotten since, and a `deduplicated` flag computed from counts of
different times.

## 6. Not modelled

Wording of errors, statistics, memory sampling, diagnostics and the content of
records beyond what decides. The `ready` getter of the supervision (no caller) and
a `spawn` that fails with an `error` event before any process exists. The ratio of
the heartbeat interval to an operation's deadline: time is an order of events, and
a heartbeat that sees a loss late or never is among the behaviours. Parsing of
`.env` files and Windows path forms in the store guard; response budgets in the
worker. The static file route and the figures shown by the pilot. The batteries
`proof_c3.mjs`, `proof_c4.mjs` and the verification suites in `pack/verify` and
`proof/`: sequences of calls with expected results and no state of their own; the
way they drive the client is the driver of `ProofClient`, and their expectations were
used to understand what is intended.

## 7. What could come next

1. The composition of `Supervision` with `WorkerJournal` in full instead of
   `PackCalls`' summary of both, shown to implement that summary.
2. A model of the ownership handshake across the pilot's two shutdown paths, with
   the file protocol of `StoreOwnership` under each domain.
