--------------------------- MODULE ServiceLifecycle ---------------------------
(***************************************************************************)
(* The life of an automation process: the schema gate, the writer lock     *)
(* of the deployment target, the business entry that is opened once the    *)
(* synchronous reads are ready, and the graceful stop.                     *)
(*                                                                         *)
(* Sources: src/src/automation-main.ts, src/src/automation-service-entry.ts*)
(* src/src/automation-risk-foundation.ts, src/src/risk/writer-lock.ts,     *)
(* src/src/schema/schema-gate.ts, schema-contract.ts.                      *)
(*                                                                         *)
(* Several processes of one target may run on different hosts.             *)
(* Abstractions.  A schema version is a number; the configuration, the     *)
(* clients and the stores a process builds are its stage; what the         *)
(* business entry starts is one of four parts, in the order of the code.   *)
(***************************************************************************)
EXTENDS Naturals, FiniteSets, FiniteSetsExt

CONSTANTS
    Procs, None,
    Ledgers,         \* migration ledgers a process may find: [ok, rows, contract]
    Required,        \* REQUIRED_SCHEMA_VERSION
    Known,           \* versions of the migration files of the build
    Owned,           \* those of the owner whose database the process opens
    Waiver,          \* AIDCP_ALLOW_SCHEMA_AHEAD, or 0
    GateMode,        \* "enforce" or "warn"
    MaxInputs        \* bound: faults and calls from outside

ASSUME GateAssumption ==
    /\ Known \subseteq Nat \ {0} /\ Owned \subseteq Known /\ Owned # {} /\ Required \in Known /\ Waiver \in Nat
    /\ GateMode \in {"enforce", "warn"} /\ MaxInputs \in Nat

ASSUME NoneAssumption == None \notin Procs \cup {"edge", "consumers", "worker", "recovered"}

VARIABLES
    stage,      \* how far each process has come
    lock,       \* the session that holds the advisory lock, or None
    notice,     \* processes whose lock connection ended and that have not seen the event
    lost,       \* writerAuthorityLost of each process
    parts,      \* what the business entry has started and not stopped: timers, consumers, listeners
    rounds,     \* work that is under way: a message, a round of a consumer or a sweep, a task, a flush
    start,      \* the step of a start in progress
    started,    \* businessIngressStarted
    shut,       \* how far stopService has come
    failed,     \* history: a start or a stop broke off half-way
    outlived,   \* history: the work that was under way when the construction was given back
    inputs

life == <<stage, lock, notice, lost, parts, rounds, start, started, shut, failed, outlived>>

Unguarded == {"down", "root", "stores", "tasks", "built"}
Guarded == {"guarded", "accounting", "schedulers", "dispatcher", "edges", "publishing", "worker", "reads", "routes"}
Parts == {"edge", "consumers", "worker", "recovered"}
Works == {"accounting", "edge", "consumers", "worker"}
Shutdown == {"no", "asked", "stopped", "disposed"}

LifeInit ==
    /\ stage = [p \in Procs |-> "down"] /\ lock = None /\ notice = {}
    /\ lost = [p \in Procs |-> FALSE] /\ parts = [p \in Procs |-> {}]
    /\ start = [p \in Procs |-> None] /\ started = [p \in Procs |-> FALSE]
    /\ shut = [p \in Procs |-> "no"] /\ failed = [p \in Procs |-> FALSE]
    /\ rounds = [p \in Procs |-> {}] /\ outlived = [p \in Procs |-> {}]
    /\ inputs = 0

Input == inputs < MaxInputs /\ inputs' = inputs + 1

-----------------------------------------------------------------------------
(* The schema gate *)

\* The versions of the build that belong to this owner, and the window they leave of the contract.
narrowSchemaContract(own) ==
    LET below == {v \in own : v <= Required}
    IN  [required |-> IF below = {} THEN Min(own) ELSE Max(below), knownMax |-> Max(own)]

\* Rows of other owners are left out, rows nobody knows are kept.
ledgerForOwner(rows, own) == {v \in rows : v \in own \/ v \notin Known}

evaluateSchemaGate(l, own) ==
    LET rows == ledgerForOwner(l.rows, own)
        c == narrowSchemaContract(own)
        ahead == {v \in rows : v > c.knownMax}
    IN  CASE ~l.ok -> "unreadable"
          [] l.ok /\ (rows = {} \/ \A v \in rows : v < c.required) -> "behind"
          [] l.ok /\ (\E v \in rows : v >= c.required) /\ ahead = {} -> "ok"
          [] OTHER -> IF ahead \cap l.contract = {} \/ (Waiver # 0 /\ Max(rows) <= Waiver)
                      THEN "ahead_allowed" ELSE "ahead"

\* Only in enforce mode does a failed gate stop the process.
GatePasses(l, own) == GateMode = "enforce" => evaluateSchemaGate(l, own) \in {"ok", "ahead_allowed"}

-----------------------------------------------------------------------------
(* Building the process *)

\* One part after the other is built, each from what the ones before it are; what is referred to
\* before it is built is bound late and asked for only once the process serves.
construct(p, from, to) ==
    /\ stage[p] = from
    /\ stage' = [stage EXCEPT ![p] = to]
    /\ UNCHANGED <<notice, lost, parts, start, started, shut, failed, inputs, rounds, outlived>>

\* The gate, the pool, the mirrors and the root; nothing listens yet.
runAutomationMain(p) ==
    /\ \E l \in Ledgers : GatePasses(l, Owned)
    /\ construct(p, "down", "root") /\ UNCHANGED lock

\* The relay of configuration changes, the stores and the clients of content and API.
createStores(p) == construct(p, "root", "stores") /\ UNCHANGED lock

\* The task store and the service of the commands.
createTaskService(p) == construct(p, "stores", "tasks") /\ UNCHANGED lock

\* The model client and the policies; a policy that cannot be read leaves its default.
createPolicies(p) == construct(p, "tasks", "built") /\ UNCHANGED lock

\* pg_try_advisory_lock is asked until it is granted; the deadline ends the process.
acquire(p) == lock = None /\ lock' = p /\ construct(p, "built", "guarded")

\* From here on lock losses are heard: counters, the consumers of facts and the connections.
createRiskAccounting(p) == construct(p, "guarded", "accounting") /\ UNCHANGED lock

\* Comments, groups, the modes of one platform.
createSchedulers(p) == construct(p, "accounting", "schedulers") /\ UNCHANGED lock

createDispatcherFactory(p) == construct(p, "schedulers", "dispatcher") /\ UNCHANGED lock

createEdgeAccess(p) == construct(p, "dispatcher", "edges") /\ UNCHANGED lock

createPublishDispatch(p) == construct(p, "edges", "publishing") /\ UNCHANGED lock

\* The worker of the tasks, then the routes of the internal server.
createWorker(p) == construct(p, "publishing", "worker") /\ UNCHANGED lock
registerReadRoutes(p) == construct(p, "worker", "reads") /\ UNCHANGED lock
registerRoutes(p) == construct(p, "reads", "routes") /\ UNCHANGED lock

\* The internal server listens.
startAutomationService(p) == construct(p, "routes", "starting") /\ UNCHANGED lock

\* The first refresh is over, whatever it brought.
rootStarted(p) == construct(p, "starting", "listening") /\ UNCHANGED lock

Built(p) == stage[p] \notin Unguarded
Serving(p) == stage[p] \in {"starting", "listening"}

\* interactionBlocked without the accounting.  The admission of interactions asks it; consumers,
\* sweeps and signals write without asking.
Unblocked(p) == Built(p) /\ ~lost[p]

-----------------------------------------------------------------------------
(* The writer lock *)

\* The database ends the session of the lock and frees it; the process does not know yet.
LockConnectionEnds(p) ==
    /\ lock = p /\ Input
    /\ lock' = None /\ notice' = notice \cup {p}
    /\ UNCHANGED <<stage, lost, parts, start, started, shut, failed, rounds, outlived>>

\* Mutant: nobody listens to the end of the connection.
unheard(p) == lost

markLost(p) == [lost EXCEPT ![p] = TRUE]

\* 'end' or 'error' of the connection: the authority is gone until the process is restarted.
onLost(p) ==
    /\ p \in notice
    /\ notice' = notice \ {p}
    /\ lost' = markLost(p)
    /\ UNCHANGED <<stage, lock, parts, start, started, shut, failed, inputs, rounds, outlived>>

-----------------------------------------------------------------------------
(* The business entry *)

\* edgeAccess.start: a listener of its own; readiness is asked in the same turn.
startBusiness(p) ==
    /\ stage[p] = "listening" /\ shut[p] = "no" /\ ~started[p] /\ start[p] = None
    /\ "edge" \notin parts[p]
    /\ parts' = [parts EXCEPT ![p] = @ \cup {"edge"}]
    /\ start' = [start EXCEPT ![p] = "edge"]
    /\ UNCHANGED <<stage, lock, notice, lost, started, shut, failed, inputs, rounds, outlived>>

Order == [edge |-> "consumers", consumers |-> "worker", worker |-> "recovered"]

\* The next of the parts is up: the relays and consumers, the task worker, the recovery of open actions.
startNext(p) ==
    /\ start[p] \in DOMAIN Order
    /\ LET part == Order[start[p]]
       IN  /\ parts' = [parts EXCEPT ![p] = @ \cup {part}]
           /\ start' = [start EXCEPT ![p] = IF part = "recovered" THEN None ELSE part]
           /\ started' = [started EXCEPT ![p] = part = "recovered"]
    /\ UNCHANGED <<stage, lock, notice, lost, shut, failed, inputs, rounds, outlived>>

\* The worker or the recovery throws: what has been started stays, the entry does not count as open.
startFails(p) ==
    /\ start[p] \in {"consumers", "worker"} /\ Input
    /\ start' = [start EXCEPT ![p] = None]
    /\ failed' = [failed EXCEPT ![p] = TRUE]
    /\ UNCHANGED <<stage, lock, notice, lost, parts, started, shut, rounds, outlived>>

-----------------------------------------------------------------------------
(* Work *)

\* What may begin work: the parts that are started, and the timers of the accounting, which run from
\* its construction to the end.
Armed(p) ==
    (parts[p] \cap Works) \cup (IF Built(p) /\ stage[p] # "guarded" /\ shut[p] # "disposed" THEN {"accounting"} ELSE {})

\* A message, a wake, a timer: neither the lock nor its loss is asked.
RoundBegins(p, w) ==
    /\ w \in Armed(p) \ rounds[p]
    /\ rounds' = [rounds EXCEPT ![p] = @ \cup {w}]
    /\ UNCHANGED <<stage, lock, notice, lost, parts, start, started, shut, failed, outlived, inputs>>

RoundEnds(p, w) ==
    /\ w \in rounds[p]
    /\ rounds' = [rounds EXCEPT ![p] = @ \ {w}]
    /\ UNCHANGED <<stage, lock, notice, lost, parts, start, started, shut, failed, outlived, inputs>>

-----------------------------------------------------------------------------
(* The graceful stop *)

\* A signal, or a root that does not start: once.
stopService(p) ==
    /\ Serving(p) /\ shut[p] = "no" /\ Input
    /\ shut' = [shut EXCEPT ![p] = "asked"]
    /\ UNCHANGED <<stage, lock, notice, lost, parts, start, started, failed, rounds, outlived>>

startAwaited(p) == start[p] = None

\* The entry is stopped if it is open: timers are cleared and listeners closed, what is under way goes
\* on; a step that throws leaves the listener of the edges.
stopBusiness(p) ==
    /\ shut[p] = "asked" /\ startAwaited(p)
    /\ shut' = [shut EXCEPT ![p] = "stopped"]
    /\ IF ~started[p] THEN UNCHANGED <<parts, started, failed, inputs>>
       ELSE \/ /\ parts' = [parts EXCEPT ![p] = {}] /\ started' = [started EXCEPT ![p] = FALSE]
               /\ UNCHANGED <<failed, inputs>>
            \/ /\ Input /\ parts' = [parts EXCEPT ![p] = {"edge"}]
               /\ failed' = [failed EXCEPT ![p] = TRUE] /\ UNCHANGED started
    /\ UNCHANGED <<stage, lock, notice, lost, start, rounds, outlived>>

\* The timers of the accounting are cleared, the lock is given back and its connection ended, whose
\* end is heard like a loss; a resource before it that throws leaves the lock to the end of the
\* process.  Nobody waits for the work that is under way.
dispose(p) ==
    /\ shut[p] = "stopped"
    /\ shut' = [shut EXCEPT ![p] = "disposed"]
    /\ outlived' = [outlived EXCEPT ![p] = rounds[p]]
    /\ \/ /\ lock' = IF lock = p THEN None ELSE lock
          /\ notice' = IF lock = p THEN notice \cup {p} ELSE notice
          /\ UNCHANGED inputs
       \/ Input /\ UNCHANGED <<lock, notice>>
    /\ UNCHANGED <<stage, lost, parts, start, started, failed, rounds>>

\* The process is gone, and with it its session in the database.
Dies(p) ==
    /\ stage' = [stage EXCEPT ![p] = "down"]
    /\ lock' = IF lock = p THEN None ELSE lock
    /\ notice' = notice \ {p}
    /\ lost' = [lost EXCEPT ![p] = FALSE]
    /\ parts' = [parts EXCEPT ![p] = {}] /\ start' = [start EXCEPT ![p] = None]
    /\ started' = [started EXCEPT ![p] = FALSE] /\ shut' = [shut EXCEPT ![p] = "no"]
    /\ failed' = [failed EXCEPT ![p] = FALSE]
    /\ rounds' = [rounds EXCEPT ![p] = {}] /\ outlived' = [outlived EXCEPT ![p] = {}]

\* Root closed, exit 0 or 1.
Exit(p) == shut[p] = "disposed" /\ Dies(p) /\ UNCHANGED inputs

\* The deadline of the lock passes, or a store the process cannot do without fails.
BuildFails(p) == stage[p] \in (Unguarded \cup Guarded) \ {"down"} /\ Input /\ Dies(p)

Crash(p) == Serving(p) /\ Input /\ Dies(p)

\* A start is tried again after one broke off: the second listener on the port ends the process.
startAgain(p) ==
    /\ stage[p] = "listening" /\ shut[p] = "no" /\ ~started[p] /\ start[p] = None
    /\ "edge" \in parts[p]
    /\ Dies(p) /\ UNCHANGED inputs

LifeStep(p) ==
    \/ runAutomationMain(p) \/ createStores(p) \/ createTaskService(p) \/ createPolicies(p) \/ acquire(p)
    \/ createRiskAccounting(p) \/ createSchedulers(p) \/ createDispatcherFactory(p) \/ createEdgeAccess(p)
    \/ createPublishDispatch(p) \/ createWorker(p) \/ registerReadRoutes(p) \/ registerRoutes(p)
    \/ startAutomationService(p) \/ rootStarted(p)
    \/ LockConnectionEnds(p) \/ onLost(p) \/ startNext(p) \/ startFails(p)
    \/ stopService(p) \/ stopBusiness(p) \/ dispose(p)
    \/ \E w \in Works : RoundBegins(p, w) \/ RoundEnds(p, w)

-----------------------------------------------------------------------------
(* Properties *)

\* A process whose interactions are not blocked holds the writer lock of its target, or the loss of
\* the lock has just happened and its event is still to come (writer-lock.ts markLost, release;
\* automation-risk-foundation.ts writerAuthorityLost): two writers meet at most in that window.
WriterIsBacked ==
    \A p \in Procs : Unblocked(p) => lock = p \/ p \in notice

\* Work that is under way in a process without the lock belongs to one whose connection of the lock
\* ended, by a loss or by the stop: the work itself asks for nothing.
WorkIsExplained ==
    \A p \in Procs : rounds[p] # {} => lock = p \/ p \in notice \/ lost[p]

\* Once a process has given back its lock no work begins in it: nothing of its business entry is
\* started and what is under way was when the stop came to the lock, unless a start or a stop broke
\* off (automation-service-entry.ts stopService).  That work is not waited for.
NoneBeginsAfterRelease ==
    \A p \in Procs : shut[p] = "disposed" /\ ~failed[p] => parts[p] = {} /\ rounds[p] \subseteq outlived[p]

\* How far the writer lock guards the work.  Interactions are admitted only with it (WriterIsBacked);
\* other work goes on after a loss, and after the stop to its end (WorkIsExplained), but none begins
\* once the lock was given back (NoneBeginsAfterRelease).
LockGuardsWork == WriterIsBacked /\ WorkIsExplained /\ NoneBeginsAfterRelease

=============================================================================
