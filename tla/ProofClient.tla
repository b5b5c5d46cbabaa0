------------------------------ MODULE ProofClient -------------------------------
(***************************************************************************)
(* The client of the proof layer, worker/client.mjs, driven the way        *)
(* proof_c3.mjs, proof_c4.mjs and graph_equiv_c4.mjs drive it: one request *)
(* after the other, and after a request that failed a call of _lifecycle   *)
(* outside the request queue.  It is the forerunner of supervision.ts,     *)
(* without its deadlines in the queue, its ownership and its scoping of    *)
(* the handlers to the child they belong to.                               *)
(***************************************************************************)
EXTENDS Naturals, FiniteSets, Sequences

CONSTANTS
    MaxSpawns,      \* bound on the workers of one client
    MaxRequests     \* bound on the requests of one driver

ASSUME BoundsAssumption == MaxSpawns \in Nat /\ MaxRequests \in Nat

Proc == 1..MaxSpawns
Req == 1..MaxRequests

VARIABLES
    proc,       \* each process: "none", "starting", "up", "dead", "reaped"
    busy,       \* the requests each process was sent and has not answered
    child,      \* this.child, 0 if null
    spawns,     \* processes spawned; the last one's promise is this.ready
    promise,    \* each ready promise: "none", "pending", "ok", "failed"
    armed,      \* readyResolve and readyReject are set
    timers,     \* ready budgets that run
    poisoned,
    at,         \* the driver: "idle", "killing", "waiting", "sent"
    recovers,   \* it is in the _lifecycle call after a failure
    req,        \* the number of the current request
    writes,     \* the requests that are mutating
    result,     \* what the driver learnt of each request
    executed,   \* requests that took effect
    hasty       \* a worker was spawned before the exit of the killed one was
                \* seen (history)

processes == <<proc, busy>>
handlers == <<promise, armed, timers>>
driver == <<at, recovers, req, writes, result>>
vars == <<processes, child, spawns, handlers, poisoned, driver, executed, hasty>>

Init ==
    /\ proc = [p \in Proc |-> "none"] /\ busy = [p \in Proc |-> <<>>]
    /\ child = 0 /\ spawns = 0
    /\ promise = [p \in Proc |-> "none"] /\ armed = FALSE /\ timers = {}
    /\ poisoned = FALSE
    /\ at = "idle" /\ recovers = FALSE /\ req = 0 /\ writes = {}
    /\ result = [r \in Req |-> "none"]
    /\ executed = {} /\ hasty = FALSE

Alive(p) == proc[p] \in {"starting", "up"}
Mutating == req \in writes

\* Continuations of settled promises run before the next event is handled.
Quiet == ~(at = "waiting" /\ promise[spawns] # "pending")

-----------------------------------------------------------------------------
(* _lifecycle and spawnChild. *)

\* Variant: a spawn without a ready budget.
SpawnUntimed ==
    /\ spawns < MaxSpawns
    /\ spawns' = spawns + 1 /\ child' = spawns + 1
    /\ proc' = [proc EXCEPT ![spawns + 1] = "starting"]
    /\ promise' = [promise EXCEPT ![spawns + 1] = "pending"]
    /\ armed' = TRUE /\ UNCHANGED timers
    /\ at' = "waiting"
Spawn ==
    /\ spawns < MaxSpawns
    /\ spawns' = spawns + 1 /\ child' = spawns + 1
    /\ proc' = [proc EXCEPT ![spawns + 1] = "starting"]
    /\ promise' = [promise EXCEPT ![spawns + 1] = "pending"]
    /\ armed' = TRUE /\ timers' = timers \cup {spawns + 1}
    /\ at' = "waiting"

\* Variant: a poisoned worker is left alone, not killed.
LifecycleAbandons ==
    \/ /\ child # 0 /\ ~poisoned
       /\ at' = "waiting"
       /\ UNCHANGED <<processes, child, spawns, handlers, poisoned>>
    \/ /\ child = 0 \/ poisoned
       /\ Spawn /\ poisoned' = FALSE /\ UNCHANGED busy

\* A worker that is not poisoned is taken as it is; a poisoned one is killed;
\* without one there is a spawn.
Lifecycle ==
    \/ /\ child # 0 /\ ~poisoned
       /\ at' = "waiting"
       /\ UNCHANGED <<processes, child, spawns, handlers, poisoned>>
    \/ /\ child # 0 /\ poisoned
       /\ proc' = [proc EXCEPT ![child] = IF Alive(child) THEN "dead" ELSE @]
       /\ at' = "killing"
       /\ UNCHANGED <<busy, child, spawns, handlers, poisoned>>
    \/ /\ child = 0
       /\ Spawn /\ UNCHANGED <<busy, poisoned>>

\* The 300 ms after a kill are over.
KillDelayOver ==
    /\ at = "killing"
    /\ Spawn
    /\ poisoned' = FALSE
    /\ hasty' = (hasty \/ \E p \in Proc : proc[p] = "dead")
    /\ UNCHANGED <<busy, recovers, req, writes, result, executed>>

Begin ==
    /\ at = "idle" /\ ~recovers /\ req < MaxRequests
    /\ req' = req + 1 /\ writes' \in {writes, writes \cup {req + 1}}
    /\ Lifecycle
    /\ UNCHANGED <<recovers, result, executed, hasty>>

Recover ==
    /\ at = "idle" /\ recovers
    /\ Lifecycle
    /\ UNCHANGED <<recovers, req, writes, result, executed, hasty>>

-----------------------------------------------------------------------------
(* The request: what follows the await of the ready promise. *)

\* The driver expected a failure, or its scenario failed and it recovers.
Settle(outcome) ==
    /\ at' = "idle" /\ recovers' \in {FALSE, outcome # "ok"}
    /\ result' = [result EXCEPT ![req] = outcome]
    /\ UNCHANGED <<req, writes>>

\* The promise awaited is the one of the last spawn.
Ready ==
    /\ at = "waiting" /\ promise[spawns] \in {"ok", "failed"}
    /\ \/ /\ recovers
          /\ at' = "idle" /\ recovers' = FALSE
          /\ UNCHANGED <<busy, req, writes, result>>
       \/ /\ ~recovers /\ promise[spawns] = "failed"
          /\ Settle("unavailable") /\ UNCHANGED busy
       \/ /\ ~recovers /\ promise[spawns] = "ok"
          /\ at' = "sent"
          /\ busy' = [p \in Proc |-> IF p = child /\ Alive(p) THEN Append(busy[p], req) ELSE busy[p]]
          /\ UNCHANGED <<recovers, req, writes, result>>
    /\ UNCHANGED <<proc, child, spawns, handlers, poisoned, executed, hasty>>

\* Variant: whoever loses its worker is told that nothing happened.
ToldUnavailable == "unavailable"
\* COGNEE_WRITE_UNKNOWN, COGNEE_WORKER_UNAVAILABLE.
Lost == IF Mutating THEN "unknown" ELSE "unavailable"

TimesOut ==
    /\ Quiet
    /\ at = "sent"
    /\ Settle(IF Mutating THEN "unknown" ELSE "deadline")
    /\ poisoned' = (poisoned \/ Mutating)
    /\ UNCHANGED <<processes, child, spawns, handlers, executed, hasty>>

-----------------------------------------------------------------------------
(* The worker, and the handlers of its lines and its exit. *)

\* The ready line resolves whatever promise is armed; the timer cleared is the
\* last one set.
ReadyLine(p) ==
    /\ Quiet
    /\ proc[p] = "starting"
    /\ proc' = [proc EXCEPT ![p] = "up"]
    /\ IF armed THEN /\ promise' = [promise EXCEPT ![spawns] = "ok"]
                     /\ armed' = FALSE /\ timers' = timers \ {spawns}
                ELSE UNCHANGED handlers
    /\ UNCHANGED <<busy, child, spawns, poisoned, driver, executed, hasty>>

\* The ready budget expires; the worker lives on.
ReadyExpires(p) ==
    /\ Quiet
    /\ p \in timers
    /\ timers' = timers \ {p} /\ armed' = FALSE
    /\ promise' = [promise EXCEPT ![p] = IF @ = "pending" THEN "failed" ELSE @]
    /\ UNCHANGED <<processes, child, spawns, poisoned, driver, executed, hasty>>

Executes(p) ==
    /\ proc[p] = "up" /\ busy[p] # <<>> /\ Head(busy[p]) \notin executed
    /\ executed' = executed \cup {Head(busy[p])}
    /\ UNCHANGED <<processes, child, spawns, handlers, poisoned, driver, hasty>>

\* Success, or an error with the worker's own code: whether the request
\* took effect or not.
Responses(p) == IF Head(busy[p]) \in executed THEN {"ok", "error"} ELSE {"error"}

\* Variant: the answer need not be to the request that waits.
AnswersAnyone(p) ==
    /\ Quiet
    /\ proc[p] = "up" /\ busy[p] # <<>>
    /\ busy' = [busy EXCEPT ![p] = Tail(@)]
    /\ IF at = "sent" THEN \E outcome \in Responses(p) : Settle(outcome)
                      ELSE UNCHANGED driver
    /\ UNCHANGED <<proc, child, spawns, handlers, poisoned, executed, hasty>>

\* The response; nobody may be waiting for its id any more.
Answers(p) ==
    /\ Quiet
    /\ proc[p] = "up" /\ busy[p] # <<>>
    /\ busy' = [busy EXCEPT ![p] = Tail(@)]
    /\ IF at = "sent" /\ Head(busy[p]) = req
         THEN \E outcome \in Responses(p) : Settle(outcome)
         ELSE UNCHANGED driver
    /\ UNCHANGED <<proc, child, spawns, handlers, poisoned, executed, hasty>>

\* A crash, or the kill of shutdown(), which leaves this.child.
Dies(p) ==
    /\ Alive(p) /\ proc' = [proc EXCEPT ![p] = "dead"]
    /\ UNCHANGED <<busy, child, spawns, handlers, poisoned, driver, executed, hasty>>

\* The exit event, of whichever worker.
Exits(p) ==
    /\ Quiet
    /\ proc[p] = "dead"
    /\ proc' = [proc EXCEPT ![p] = "reaped"] /\ busy' = [busy EXCEPT ![p] = <<>>]
    /\ child' = 0
    /\ IF armed THEN /\ promise' = [promise EXCEPT ![spawns] = "failed"]
                     /\ armed' = FALSE /\ timers' = timers \ {spawns}
                ELSE UNCHANGED handlers
    /\ IF at = "sent" THEN Settle(Lost) /\ poisoned' = (poisoned \/ Mutating)
                      ELSE UNCHANGED <<driver, poisoned>>
    /\ UNCHANGED <<spawns, executed, hasty>>

-----------------------------------------------------------------------------
Next ==
    \/ Begin \/ Recover \/ KillDelayOver \/ Ready \/ TimesOut
    \/ \E p \in Proc : ReadyLine(p) \/ ReadyExpires(p) \/ Executes(p) \/ Answers(p)
                       \/ Dies(p) \/ Exits(p)

Spec == Init /\ [][Next]_vars

-----------------------------------------------------------------------------
\* Workers that are executing something, alive or about to be found dead.
AtWork == {p \in Proc : Alive(p) /\ busy[p] # <<>>}

\* "Strict request serialization (one op at a time - cognee store-lock
\* discipline)", client.mjs 16: no two live workers have an operation, as long as
\* the exit of a killed worker is seen within the 300 ms (client.mjs 153).
OneOpAtATime == ~hasty => Cardinality(AtWork) <= 1

\* A mutation the driver takes for not done - refused because no worker became
\* ready or was there - has no effect, then or later (client.mjs 11-13).
UnavailableMeansNoEffect ==
    \A r \in writes : result[r] = "unavailable" => r \notin executed

\* A result is only passed on for a request that was executed, though answers
\* to requests that were given up arrive in between.
OkMeansExecuted == \A r \in Req : result[r] = "ok" => r \in executed

\* What the driver learns of a request is true.
ResultsAreTrue == UnavailableMeansNoEffect /\ OkMeansExecuted

\* The promise the driver waits for always settles: whatever handler cleared or
\* took over the resolvers, its timer runs or its worker is on the way.
WaitsForSomething ==
    at = "waiting" /\ promise[spawns] = "pending" => armed /\ spawns \in timers
=============================================================================
