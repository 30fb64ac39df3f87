--------------------------- MODULE RiskAccounting ---------------------------
(***************************************************************************)
(* The risk-accounting funnel: a fact "this platform action happened" is   *)
(* first written to the table risk_counter_outbox, then claimed, applied   *)
(* to the table risk_counters and, only then, counted in the memory of the *)
(* process that applied it.  A periodic reconciler compares memory with    *)
(* the table and rebuilds memory from it.                                  *)
(*                                                                         *)
(* Sources: src/src/risk/risk-accounting.ts (the funnel and its single-    *)
(* flight rounds), risk-counter-outbox-store.ts (the SQL),                 *)
(* risk-counter-reconciler.ts, the controller cache of                     *)
(* risk-controller-registry.ts and the handshake that moves an account     *)
(* from one target to another (orchestrator/connection-runtime.ts).        *)
(*                                                                         *)
(* Abstractions.  A claim token is workerId:uuid, drawn once per           *)
(* claimBatch; a process has at most one batch in flight, so the token is  *)
(* represented by the process.  A lease is either running or expired.      *)
(* All facts lie in the same Shanghai day and one RiskAction is followed:  *)
(* the reconciler compares each action by itself.                          *)
(***************************************************************************)
EXTENDS Naturals, FiniteSets

CONSTANTS
    Procs,          \* automation processes
    Keys,           \* outbox identities: (execution_target, dedupe_key)
    Accounts,
    Targets,        \* deployment targets (dev, ol)
    ProcTarget,     \* the target a process runs as
    KeyTarget,      \* execution_target of an outbox row
    KeyAccount,     \* account_id of an outbox row
    MaxAttempts,    \* maxAttempts of RiskAccountingOptions
    BatchLimit,     \* batchLimit of RiskAccountingOptions
    MaxCrashes,     \* bound: process crashes in a behaviour
    MaxEvictions,   \* bound: controller evictions in a behaviour
    None            \* a value that is no process and no account

ASSUME ProcAssumption == ProcTarget \in [Procs -> Targets] /\ None \notin Procs
ASSUME KeyAssumption ==
    KeyTarget \in [Keys -> Targets] /\ KeyAccount \in [Keys -> Accounts]
ASSUME KeysFinite == IsFiniteSet(Keys)
ASSUME BoundAssumption ==
    /\ MaxAttempts \in Nat \ {0} /\ BatchLimit \in Nat \ {0}
    /\ MaxCrashes \in Nat /\ MaxEvictions \in Nat
ASSUME NoneAssumption == None \notin Accounts /\ None \notin Keys

VARIABLES
    row,        \* risk_counter_outbox, one record per key
    ledger,     \* risk_counters: how many rows carry the outbox_id of a key
    owner,      \* accounts.execution_target
    up,         \* processes that are running
    blocked,    \* RiskAccounting.blocked: accounts that fail closed
    pc,         \* where the apply round of a process is
    batch,      \* keys claimed by the round and not yet handled
    cur,        \* key the round is handling, with the attempts it was read with
    q,          \* RiskAccounting.queued: none, waiting for the run, ready
    caller,     \* callers of record(): idle, enqueued, run, queue
    mat,        \* accounts whose controller the registry of a process holds
    cnt,        \* events in the counter of that controller, per key
    rec,        \* the reconciler of a process
    crashes, evictions

dbVars   == <<row, ledger, owner>>
runVars  == <<pc, batch, cur, q>>
memVars  == <<mat, cnt>>
boundVars == <<crashes, evictions>>
vars == <<row, ledger, owner, up, blocked, pc, batch, cur, q, caller, mat, cnt,
          rec, crashes, evictions>>

-----------------------------------------------------------------------------
(* Rows of the outbox *)

RowStatus == {"none", "pending", "applied", "dead"}
RowRec == [status : RowStatus, attempts : Nat, holder : Procs \cup {None},
           expired : BOOLEAN, id : Nat]

NoRow == [status |-> "none", attempts |-> 0, holder |-> None,
          expired |-> FALSE, id |-> 0]

Claim == [key : Keys, attempts : Nat]
NoClaim == [key |-> None, attempts |-> 0]

RecRec == [pc : {"idle", "totals", "drift", "snap"},
           acct : Accounts \cup {None}, snap : [Keys -> Nat]]
NoRec == [pc |-> "idle", acct |-> None, snap |-> [k \in Keys |-> 0]]

ClaimableUnclaimed(k) == row[k].status = "pending" /\ row[k].holder = None

\* A row claimBatch may take: pending, and unclaimed or with an expired lease.
Claimable(k) ==
    /\ row[k].status = "pending"
    /\ row[k].holder = None \/ row[k].expired

\* ORDER BY id LIMIT n over the claimable rows of the target of p.
ClaimableBy(p) == {k \in Keys : KeyTarget[k] = ProcTarget[p] /\ Claimable(k)}
Candidates(p) ==
    {k \in ClaimableBy(p) :
        Cardinality({j \in ClaimableBy(p) : row[j].id < row[k].id}) < BatchLimit}

InsertedRowAnew(k) ==
    [NoRow EXCEPT !.status = "pending", !.id = 1 + Cardinality({j \in Keys : row[j].status # "none"})]

\* INSERT ... ON CONFLICT (execution_target, dedupe_key) DO NOTHING.
InsertedRow(k) ==
    IF row[k].status # "none" THEN row[k]
    ELSE [NoRow EXCEPT !.status = "pending",
                       !.id = 1 + Cardinality({j \in Keys : row[j].status # "none"})]

\* WHERE id AND claim_token AND status = 'pending' in applyClaimed.
StillClaimed(p, k) == row[k].status = "pending" /\ row[k].holder = p

AppliedRow(k) == [row[k] EXCEPT !.status = "applied", !.holder = None, !.expired = FALSE]

FailedRowUnguarded(k, attempts) ==
    [row[k] EXCEPT !.attempts = attempts + 1,
                   !.status = IF attempts + 1 >= MaxAttempts THEN "dead" ELSE "pending",
                   !.holder = None, !.expired = FALSE]

\* failClaimed: guarded by status = 'pending' but not by the claim token, and
\* attempts is computed from the value read when the row was claimed.
FailedRow(k, attempts) ==
    IF row[k].status # "pending" THEN row[k]
    ELSE [row[k] EXCEPT !.attempts = attempts + 1,
                        !.status = IF attempts + 1 >= MaxAttempts THEN "dead" ELSE "pending",
                        !.holder = None, !.expired = FALSE]

-----------------------------------------------------------------------------
Init ==
    /\ row = [k \in Keys |-> NoRow]
    /\ ledger = [k \in Keys |-> 0]
    /\ owner \in [Accounts -> Targets]
    /\ up = Procs
    /\ blocked = [p \in Procs |-> {}]
    /\ pc = [p \in Procs |-> "idle"]
    /\ batch = [p \in Procs |-> {}]
    /\ cur = [p \in Procs |-> NoClaim]
    /\ q = [p \in Procs |-> "none"]
    /\ caller = [p \in Procs |-> [k \in Keys |-> "idle"]]
    /\ mat = [p \in Procs |-> {}]
    /\ cnt = [p \in Procs |-> [k \in Keys |-> 0]]
    /\ rec = [p \in Procs |-> NoRec]
    /\ crashes = 0
    /\ evictions = 0

-----------------------------------------------------------------------------
(* enqueue() and the callers of record() *)

\* The insert succeeds and lifts the fail-closed mark of the account.
EnqueueSucceeds(p, k) ==
    /\ p \in up /\ KeyTarget[k] = ProcTarget[p] /\ caller[p][k] = "idle"
    /\ row' = [row EXCEPT ![k] = InsertedRow(k)]
    /\ blocked' = [blocked EXCEPT ![p] = @ \ {KeyAccount[k]}]
    /\ UNCHANGED <<ledger, owner, up, runVars, memVars, rec, boundVars>>

\* The receipt handler only enqueues and leaves the apply to a subscriber.
Enqueue(p, k) == EnqueueSucceeds(p, k) /\ UNCHANGED caller

\* record() has resolved the controller (for the verdict) before it enqueues,
\* and goes on to applyNow.
RecordEnqueues(p, k) ==
    /\ KeyAccount[k] \in mat[p]
    /\ EnqueueSucceeds(p, k)
    /\ caller' = [caller EXCEPT ![p][k] = "enqueued"]

\* The insert fails: the account fails closed and the error goes to the caller.
EnqueueFails(p, k) ==
    /\ p \in up /\ KeyTarget[k] = ProcTarget[p] /\ caller[p][k] = "idle"
    /\ blocked' = [blocked EXCEPT ![p] = @ \cup {KeyAccount[k]}]
    /\ UNCHANGED <<dbVars, up, runVars, caller, memVars, rec, boundVars>>

\* The insert has happened and only its answer is lost: the caller sees a failure.
EnqueueAnswerLost(p, k) ==
    /\ p \in up /\ KeyTarget[k] = ProcTarget[p] /\ caller[p][k] = "idle"
    /\ row' = [row EXCEPT ![k] = InsertedRow(k)]
    /\ blocked' = [blocked EXCEPT ![p] = @ \cup {KeyAccount[k]}]
    /\ UNCHANGED <<ledger, owner, up, runVars, caller, memVars, rec, boundVars>>

ClearBlock(p, a) ==
    /\ p \in up /\ a \in blocked[p]
    /\ blocked' = [blocked EXCEPT ![p] = @ \ {a}]
    /\ UNCHANGED <<dbVars, up, runVars, caller, memVars, rec, boundVars>>

-----------------------------------------------------------------------------
(* Rounds: at most one in flight, at most one more queued behind it *)

\* applyNow: start a round, or queue one behind the round in flight.
ApplyNow(p) ==
    IF pc[p] = "idle"
    THEN /\ pc' = [pc EXCEPT ![p] = "claiming"]
         /\ UNCHANGED q
    ELSE /\ q' = [q EXCEPT ![p] = IF @ = "none" THEN "waiting" ELSE @]
         /\ UNCHANGED pc

JoinedRoundReused(p) == "run"

\* The promise applyNow hands to a caller: the new run, or the queued one.
JoinedRound(p) == IF pc[p] = "idle" THEN "run" ELSE "queue"

RecordApplies(p, k) ==
    /\ p \in up /\ caller[p][k] = "enqueued"
    /\ ApplyNow(p)
    /\ caller' = [caller EXCEPT ![p][k] = JoinedRound(p)]
    /\ UNCHANGED <<dbVars, up, blocked, batch, cur, memVars, rec, boundVars>>

\* The fallback timer, and subscribers that trigger a round without waiting.
Poll(p) ==
    /\ p \in up
    /\ ApplyNow(p)
    /\ UNCHANGED <<dbVars, up, blocked, batch, cur, caller, memVars, rec, boundVars>>

\* The run settles: its waiters resume, the queued promise becomes runnable.
EndRun(p) ==
    /\ pc' = [pc EXCEPT ![p] = "idle"]
    /\ q' = [q EXCEPT ![p] = IF @ = "waiting" THEN "ready" ELSE @]
    /\ caller' = [caller EXCEPT ![p] =
                    [k \in Keys |-> IF @[k] = "run" THEN "idle" ELSE @[k]]]

\* The continuation of the queued promise calls applyNow again: it starts the
\* round, unless somebody else has started one since, and then queues anew.
QueuedContinues(p) ==
    /\ p \in up /\ q[p] = "ready"
    /\ \/ /\ pc[p] = "idle"
          /\ q' = [q EXCEPT ![p] = "none"]
          /\ pc' = [pc EXCEPT ![p] = "claiming"]
          /\ caller' = [caller EXCEPT ![p] =
                          [k \in Keys |-> IF @[k] = "queue" THEN "run" ELSE @[k]]]
       \/ /\ pc[p] # "idle"
          /\ q' = [q EXCEPT ![p] = "waiting"]
          /\ UNCHANGED <<pc, caller>>
    /\ UNCHANGED <<dbVars, up, blocked, batch, cur, memVars, rec, boundVars>>

\* The UPDATE of claimBatch: token and lease of the candidates.
ClaimedRows(p) ==
    [k \in Keys |-> IF k \in Candidates(p) THEN [row[k] EXCEPT !.holder = p, !.expired = FALSE]
                    ELSE row[k]]

ClaimBatch(p) ==
    /\ p \in up /\ pc[p] = "claiming"
    /\ row' = ClaimedRows(p)
    /\ batch' = [batch EXCEPT ![p] =
                   {[key |-> k, attempts |-> row[k].attempts] : k \in Candidates(p)}]
    /\ pc' = [pc EXCEPT ![p] = "row"]
    /\ UNCHANGED <<ledger, owner, up, blocked, cur, q, caller, memVars, rec, boundVars>>

ClaimFails(p) ==
    /\ p \in up /\ pc[p] = "claiming"
    /\ EndRun(p)
    /\ UNCHANGED <<dbVars, up, blocked, batch, cur, memVars, rec, boundVars>>

\* The claim is in the table but its answer is lost: nobody works on the rows
\* until their lease has ended.
ClaimAnswerLost(p) ==
    /\ p \in up /\ pc[p] = "claiming"
    /\ row' = ClaimedRows(p)
    /\ EndRun(p)
    /\ UNCHANGED <<ledger, owner, up, blocked, batch, cur, memVars, rec, boundVars>>

BatchDone(p) ==
    /\ p \in up /\ pc[p] = "row" /\ batch[p] = {}
    /\ EndRun(p)
    /\ UNCHANGED <<dbVars, up, blocked, batch, cur, memVars, rec, boundVars>>

-----------------------------------------------------------------------------
(* One claimed row *)

\* COMMIT of the ledger row and of status = 'applied'.  The worker learns of
\* it (committed), or the answer is lost and it takes the failure path.
ApplyCommits(p, c) ==
    /\ p \in up /\ pc[p] = "row" /\ c \in batch[p]
    /\ StillClaimed(p, c.key)
    /\ ledger' = [ledger EXCEPT ![c.key] = IF @ = 0 THEN 1 ELSE @]
    /\ row' = [row EXCEPT ![c.key] = AppliedRow(c.key)]
    /\ batch' = [batch EXCEPT ![p] = @ \ {c}]
    /\ cur' = [cur EXCEPT ![p] = c]
    /\ \E next \in {"committed", "failing"} : pc' = [pc EXCEPT ![p] = next]
    /\ UNCHANGED <<owner, up, blocked, q, caller, memVars, rec, boundVars>>

\* The UPDATE matches no row: the whole transaction is rolled back.
ApplyRollsBack(p, c) ==
    /\ p \in up /\ pc[p] = "row" /\ c \in batch[p]
    /\ ~StillClaimed(p, c.key)
    /\ batch' = [batch EXCEPT ![p] = @ \ {c}]
    /\ UNCHANGED <<dbVars, up, blocked, pc, cur, q, caller, memVars, rec, boundVars>>

ErrsCounted(p, c) ==
    /\ p \in up /\ pc[p] = "row" /\ c \in batch[p]
    /\ batch' = [batch EXCEPT ![p] = @ \ {c}]
    /\ cur' = [cur EXCEPT ![p] = c]
    /\ pc' = [pc EXCEPT ![p] = "committed"]
    /\ UNCHANGED <<dbVars, up, blocked, q, caller, memVars, rec, boundVars>>

\* The transaction fails before its COMMIT.
ApplyErrs(p, c) ==
    /\ p \in up /\ pc[p] = "row" /\ c \in batch[p]
    /\ batch' = [batch EXCEPT ![p] = @ \ {c}]
    /\ cur' = [cur EXCEPT ![p] = c]
    /\ pc' = [pc EXCEPT ![p] = "failing"]
    /\ UNCHANGED <<dbVars, up, blocked, q, caller, memVars, rec, boundVars>>

NextRow(p) ==
    /\ pc' = [pc EXCEPT ![p] = "row"]
    /\ cur' = [cur EXCEPT ![p] = NoClaim]

FailClaimed(p) ==
    /\ p \in up /\ pc[p] = "failing"
    /\ row' = [row EXCEPT ![cur[p].key] = FailedRow(cur[p].key, cur[p].attempts)]
    /\ NextRow(p)
    /\ UNCHANGED <<ledger, owner, up, blocked, batch, q, caller, memVars, rec, boundVars>>

\* failClaimed itself fails: the row keeps its claim until the lease ends.
FailClaimedErrs(p) ==
    /\ p \in up /\ pc[p] = "failing"
    /\ NextRow(p)
    /\ UNCHANGED <<dbVars, up, blocked, batch, q, caller, memVars, rec, boundVars>>

LoadedCounts(p, a) == [k \in Keys |-> IF KeyAccount[k] = a THEN ledger[k] ELSE cnt[p][k]]

\* resolveController after the commit: a cached controller, or a new one whose
\* counters are loaded from the ledger as it is now.
ResolveController(p) ==
    /\ p \in up /\ pc[p] = "committed"
    /\ LET a == KeyAccount[cur[p].key] IN
         /\ mat' = [mat EXCEPT ![p] = @ \cup {a}]
         /\ cnt' = IF a \in mat[p] THEN cnt ELSE [cnt EXCEPT ![p] = LoadedCounts(p, a)]
    /\ pc' = [pc EXCEPT ![p] = "resolved"]
    /\ UNCHANGED <<dbVars, up, blocked, batch, cur, q, caller, rec, boundVars>>

\* Creating the controller fails after the commit: only a warning is logged.
ResolveFails(p) ==
    /\ p \in up /\ pc[p] = "committed" /\ KeyAccount[cur[p].key] \notin mat[p]
    /\ NextRow(p)
    /\ UNCHANGED <<dbVars, up, blocked, batch, q, caller, memVars, rec, boundVars>>

RecordFact(p) ==
    /\ p \in up /\ pc[p] = "resolved"
    /\ cnt' = [cnt EXCEPT ![p][cur[p].key] = @ + 1]
    /\ NextRow(p)
    /\ UNCHANGED <<dbVars, up, blocked, batch, q, caller, mat, rec, boundVars>>

\* Time passes until the lease of a claimed row has ended.
LeaseExpires(k) ==
    /\ row[k].status = "pending" /\ row[k].holder # None /\ ~row[k].expired
    /\ row' = [row EXCEPT ![k].expired = TRUE]
    /\ UNCHANGED <<ledger, owner, up, blocked, runVars, caller, memVars, rec, boundVars>>

-----------------------------------------------------------------------------
(* Controllers come and go *)

\* Any reader of the registry materialises the controller of an account.
Materialize(p, a) ==
    /\ p \in up /\ a \notin mat[p]
    /\ mat' = [mat EXCEPT ![p] = @ \cup {a}]
    /\ cnt' = [cnt EXCEPT ![p] = LoadedCounts(p, a)]
    /\ UNCHANGED <<dbVars, up, blocked, runVars, caller, rec, boundVars>>

\* The cached controller is dropped.  Whoever already holds the object (the
\* worker between resolve and recordFact, the reconciler) goes on with an
\* object the registry no longer hands out.
DropController(p, a) ==
    /\ mat' = [mat EXCEPT ![p] = @ \ {a}]
    /\ cnt' = [cnt EXCEPT ![p] = [k \in Keys |-> IF KeyAccount[k] = a THEN 0 ELSE @[k]]]
    /\ rec' = [rec EXCEPT ![p] = IF @.acct = a THEN NoRec ELSE @]
    /\ IF pc[p] = "resolved" /\ KeyAccount[cur[p].key] = a
       THEN NextRow(p)
       ELSE UNCHANGED <<pc, cur>>

\* evict() by an operator, or handleNotOwned after a rejected state write.
Evict(p, a) ==
    /\ p \in up /\ a \in mat[p] /\ evictions < MaxEvictions
    /\ evictions' = evictions + 1
    /\ DropController(p, a)
    /\ UNCHANGED <<dbVars, up, blocked, batch, q, caller, crashes>>

\* An edge of the account completes a handshake with p: resolveOwnership moves
\* the account to the target of p and evicts the cached controller.
Handshake(p, a) ==
    /\ p \in up /\ owner[a] # ProcTarget[p] /\ evictions < MaxEvictions
    /\ evictions' = evictions + 1
    /\ owner' = [owner EXCEPT ![a] = ProcTarget[p]]
    /\ DropController(p, a)
    /\ UNCHANGED <<row, ledger, up, blocked, batch, q, caller, crashes>>

-----------------------------------------------------------------------------
(* The reconciler *)

\* Counted events of account a, and equality of their totals (no key is counted
\* more than twice).
Counted(f, a) == {o \in Keys \X (1..2) : KeyAccount[o[1]] = a /\ f[o[1]] >= o[2]}
SameTotal(f, g, a) == Cardinality(Counted(f, a)) = Cardinality(Counted(g, a))

ReconcileStarts(p, a) ==
    /\ p \in up /\ rec[p].pc = "idle" /\ a \in mat[p] /\ owner[a] = ProcTarget[p]
    /\ rec' = [rec EXCEPT ![p] = [pc |-> "totals", acct |-> a, snap |-> ledger]]
    /\ UNCHANGED <<dbVars, up, blocked, runVars, caller, memVars, boundVars>>

\* Memory is read after the totals have arrived.
ReconcileCompares(p) ==
    /\ p \in up /\ rec[p].pc = "totals"
    /\ rec' = [rec EXCEPT ![p] =
                 IF SameTotal(rec[p].snap, cnt[p], rec[p].acct) THEN NoRec
                 ELSE [@ EXCEPT !.pc = "drift"]]
    /\ UNCHANGED <<dbVars, up, blocked, runVars, caller, memVars, boundVars>>

\* reloadCounters: the query answers ...
ReloadReads(p) ==
    /\ p \in up /\ rec[p].pc = "drift"
    /\ rec' = [rec EXCEPT ![p].pc = "snap", ![p].snap = ledger]
    /\ UNCHANGED <<dbVars, up, blocked, runVars, caller, memVars, boundVars>>

\* A failing query ends the round of the reconciler.
ReconcileFails(p) ==
    /\ p \in up /\ rec[p].pc \in {"totals", "drift"}
    /\ rec' = [rec EXCEPT ![p] = NoRec]
    /\ UNCHANGED <<dbVars, up, blocked, runVars, caller, memVars, boundVars>>

\* ... and the counter is replaced as a whole by what it answered.
ReloadedCounts(p) ==
    [k \in Keys |-> IF KeyAccount[k] = rec[p].acct THEN rec[p].snap[k] ELSE cnt[p][k]]

ReloadResets(p) ==
    /\ p \in up /\ rec[p].pc = "snap"
    /\ cnt' = [cnt EXCEPT ![p] = ReloadedCounts(p)]
    /\ rec' = [rec EXCEPT ![p] = NoRec]
    /\ UNCHANGED <<dbVars, up, blocked, runVars, caller, mat, boundVars>>

-----------------------------------------------------------------------------
(* Crash and restart *)

Crash(p) ==
    /\ p \in up /\ crashes < MaxCrashes
    /\ crashes' = crashes + 1
    /\ up' = up \ {p}
    /\ blocked' = [blocked EXCEPT ![p] = {}]
    /\ pc' = [pc EXCEPT ![p] = "idle"]
    /\ batch' = [batch EXCEPT ![p] = {}]
    /\ cur' = [cur EXCEPT ![p] = NoClaim]
    /\ q' = [q EXCEPT ![p] = "none"]
    /\ caller' = [caller EXCEPT ![p] = [k \in Keys |-> "idle"]]
    /\ mat' = [mat EXCEPT ![p] = {}]
    /\ cnt' = [cnt EXCEPT ![p] = [k \in Keys |-> 0]]
    /\ rec' = [rec EXCEPT ![p] = NoRec]
    /\ UNCHANGED <<dbVars, evictions>>

\* start(): recoverExpiredClaims for the rows of this target.
Restart(p) ==
    /\ p \notin up
    /\ up' = up \cup {p}
    /\ row' = [k \in Keys |->
                 IF row[k].status = "pending" /\ row[k].expired /\ KeyTarget[k] = ProcTarget[p]
                 THEN [row[k] EXCEPT !.holder = None, !.expired = FALSE]
                 ELSE row[k]]
    /\ UNCHANGED <<ledger, owner, blocked, runVars, caller, memVars, rec, boundVars>>

\* start() goes on when recoverExpiredClaims fails.
RestartUnrecovered(p) ==
    /\ p \notin up
    /\ up' = up \cup {p}
    /\ UNCHANGED <<dbVars, blocked, runVars, caller, memVars, rec, boundVars>>

-----------------------------------------------------------------------------
Round(p) == ClaimBatch(p) \/ BatchDone(p) \/ QueuedContinues(p)

Row(p) ==
    \/ \E c \in batch[p] : ApplyCommits(p, c) \/ ApplyRollsBack(p, c) \/ ApplyErrs(p, c)
    \/ FailClaimed(p) \/ FailClaimedErrs(p)
    \/ ResolveController(p) \/ ResolveFails(p) \/ RecordFact(p)

Reconcile(p) ==
    \/ \E a \in Accounts : ReconcileStarts(p, a)
    \/ ReconcileCompares(p) \/ ReloadReads(p) \/ ReloadResets(p) \/ ReconcileFails(p)

Controllers(p) ==
    \E a \in Accounts : Materialize(p, a) \/ Evict(p, a) \/ Handshake(p, a)

Next ==
    \/ \E p \in Procs :
         \/ \E k \in Keys : \/ Enqueue(p, k) \/ RecordEnqueues(p, k)
                           \/ EnqueueFails(p, k) \/ EnqueueAnswerLost(p, k)
                           \/ RecordApplies(p, k)
         \/ \E a \in Accounts : ClearBlock(p, a)
         \/ Poll(p) \/ Round(p) \/ ClaimFails(p) \/ ClaimAnswerLost(p) \/ Row(p)
         \/ Controllers(p) \/ Reconcile(p)
         \/ Crash(p) \/ Restart(p) \/ RestartUnrecovered(p)
    \/ \E k \in Keys : LeaseExpires(k)

Spec == Init /\ [][Next]_vars

AppliesHeld(p) ==
    \E c \in batch[p] : StillClaimed(p, c.key) /\ (ApplyCommits(p, c) \/ ApplyErrs(p, c))

\* The timers keep firing and every await is answered; a database that is asked
\* again and again does not fail for ever (a claim that finds rows, failClaimed,
\* reload); a lease is longer than an apply, so that a process that claims a row
\* again and again gets to apply it while it still holds the claim.
ProcFairness(p) ==
    /\ WF_vars(Poll(p) \/ Round(p) \/ Row(p) \/ Restart(p) \/ RestartUnrecovered(p))
    /\ SF_vars(Candidates(p) # {} /\ ClaimBatch(p)) /\ SF_vars(AppliesHeld(p))
    /\ SF_vars(FailClaimed(p))
    /\ WF_vars(Reconcile(p)) /\ SF_vars(ReloadReads(p)) /\ SF_vars(ReconcileCompares(p))
Fairness ==
    /\ \A p \in Procs : ProcFairness(p)
    /\ \A k \in Keys : WF_vars(LeaseExpires(k))

FairSpec == Spec /\ Fairness

-----------------------------------------------------------------------------
(* Properties *)

\* Type correctness of the tables and of the memory of each process.
TypeOK ==
    /\ row \in [Keys -> RowRec]
    /\ ledger \in [Keys -> Nat]
    /\ owner \in [Accounts -> Targets]
    /\ up \subseteq Procs
    /\ blocked \in [Procs -> SUBSET Accounts]
    /\ pc \in [Procs -> {"idle", "claiming", "row", "failing", "committed", "resolved"}]
    /\ batch \in [Procs -> SUBSET Claim]
    /\ cur \in [Procs -> Claim \cup {NoClaim}]
    /\ q \in [Procs -> {"none", "waiting", "ready"}]
    /\ caller \in [Procs -> [Keys -> {"idle", "enqueued", "run", "queue"}]]
    /\ mat \in [Procs -> SUBSET Accounts]
    /\ cnt \in [Procs -> [Keys -> Nat]]
    /\ rec \in [Procs -> RecRec]
    /\ crashes \in Nat /\ evictions \in Nat

\* A fact is in the ledger exactly when its outbox row says applied, and then
\* once: claims that expire, lost COMMIT answers, retries and dead letters of
\* applyClaimed / failClaimed neither lose nor duplicate an accounted fact.
ExactlyOnce ==
    \A k \in Keys : ledger[k] = IF row[k].status = "applied" THEN 1 ELSE 0

\* Memory is only incremented for a fact the ledger already holds, and a fact
\* is over-counted at most once, whatever evictions, reloads and crashes do
\* between the COMMIT and recordFact.
MemoryBackedByLedger ==
    \A p \in Procs, k \in Keys :
        /\ cnt[p][k] > 0 => ledger[k] = 1
        /\ cnt[p][k] <= 2

\* A round a caller of record() waits for has its claim after the enqueue of
\* that caller: once the claim has happened, the row of the caller has been
\* claimed, failed, applied or dead-lettered (applyNow must not hand out a run
\* that claimed before).  For a batch that is large enough and while no other
\* process restarts, which gives up the claims it finds expired.
AwaitedRoundCoversRow ==
    \A p \in Procs, k \in Keys :
        caller[p][k] = "run" /\ pc[p] \in {"row", "failing", "committed", "resolved"} =>
            \/ row[k].status # "pending"
            \/ row[k].attempts > 0
            \/ row[k].holder # None

\* No late failure report and no second apply changes a row that has reached
\* applied or dead (the guard status = 'pending' of failClaimed).
TerminalStable ==
    [][\A k \in Keys : row[k].status \in {"applied", "dead"} => row'[k] = row[k]]_vars

\* Every fact that reached the outbox is applied or, after the retries, put into
\* the dead letters: crashes and abandoned claims do not strand it (a row leaves
\* pending for good).  And once accounting has come to rest, the reconciler has
\* brought the memory of every account its process owns and holds back to the
\* totals of the ledger.
EveryFactSettles == \A k \in Keys : []<>(row[k].status # "pending")
MemoryConverges ==
    <>[](\A p \in up, a \in Accounts :
            a \in mat[p] /\ owner[a] = ProcTarget[p] => SameTotal(cnt[p], ledger, a))
AccountingSettles == EveryFactSettles /\ MemoryConverges
=============================================================================
