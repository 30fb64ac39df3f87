---------------------------- MODULE DelegatedTask ----------------------------
(***************************************************************************)
(* Delegated tasks: an operator asks for a number of verified results on   *)
(* an account; the worker claims the task, dispatches attempts one after   *)
(* the other and settles each of them in the database, until the goal, the *)
(* attempt budget, the deadline or a cancellation ends the task.           *)
(*                                                                         *)
(* Sources: src/src/delegated-task/store.ts (PgDelegatedTaskStore),        *)
(* worker.ts, executors.ts, types.ts, ownership.ts, service.ts.            *)
(*                                                                         *)
(* Abstractions.  One process serves the execution target; its concurrent  *)
(* ticks are the slots.  A claim token is drawn per claim; a slot has one  *)
(* claim at a time, so the token is the slot.  Time appears as two events, *)
(* the end of a lease and the passing of a deadline; retry delays are the  *)
(* freedom to claim later.  All tasks are of one account and one action    *)
(* family, whose tasks exclude each other.  An optional version in pause,  *)
(* resume and cancel is only compared with the first read; it is left out. *)
(* tick() is called without a catch: whatever it throws is an unhandled    *)
(* rejection and ends the process.                                         *)
(***************************************************************************)
EXTENDS Naturals, FiniteSets

CONSTANTS
    Tasks,          \* numbered in the order of their rows (created_at)
    Slots,          \* concurrent ticks: maxConcurrent
    Target,         \* target_success_count of a task
    MaxAttempts,    \* max_attempts of a task
    Operators,      \* requests that may be in progress at the same time
    MaxOps,         \* bound: pause, resume and cancel requests
    MaxCrashes,     \* bound: crashes that no step of the worker has caused
    None

ASSUME TaskAssumption ==
    /\ Target \in [Tasks -> Nat \ {0}] /\ MaxAttempts \in [Tasks -> Nat]
    /\ \A t \in Tasks : MaxAttempts[t] >= Target[t]
    /\ None \notin Tasks /\ None \notin Slots
ASSUME TaskOrder == Tasks \subseteq Nat
ASSUME TaskBounds == MaxOps \in Nat /\ MaxCrashes \in Nat

VARIABLES
    task,       \* delegated_tasks
    att,        \* delegated_task_attempts: status by ordinal
    key,        \* delegated_task_attempts: target_key by ordinal
    due,        \* tasks whose deadline has passed
    fixed,      \* tasks whose targetKey is the same for every attempt
    buried,     \* tasks with ListLimit rows after theirs: list no longer returns them
    up,         \* the process runs
    adm,        \* the slot that holds the admission turn
    slot,       \* the tick of each slot
    op,         \* a request of an operator between its read and its write
    ops, crashes

vars == <<task, att, key, due, buried, fixed, up, adm, slot, op, ops, crashes>>

Terminal == {"partially_completed", "completed", "cancelled", "failed"}
Claimed == {"planning", "executing"}
Owning == {"planning", "waiting_approval", "executing"}
Status == {"none", "awaiting_confirmation", "queued", "waiting_approval", "deferred"}
          \cup Claimed \cup Terminal

\* TRANSITIONS of types.ts (without draft, which nothing creates).
Successors(st) ==
    CASE st = "awaiting_confirmation" -> {"queued", "cancelled", "failed"}
      [] st = "queued" -> {"planning", "deferred", "partially_completed", "cancelled", "failed"}
      [] st = "planning" -> {"queued", "waiting_approval", "executing", "deferred"} \cup Terminal
      [] st = "waiting_approval" -> {"planning", "queued", "executing", "deferred"} \cup Terminal
      [] st = "executing" -> {"queued", "waiting_approval", "deferred"} \cup Terminal
      [] st = "deferred" -> {"queued", "cancelled", "failed", "partially_completed"}
      [] OTHER -> {}
CanTransition(from, to) == from = to \/ to \in Successors(from)

\* honestTerminalStatus for every reason but the goal.
Honest(succ, st) == IF succ > 0 THEN "partially_completed" ELSE st

\* Room for one attempt more than the budget allows.  No row needs a higher
\* ordinal: the target key of an attempt is drawn from the attempts counted so
\* far, and no two attempts share one.
Ordinals(t) == 1..(MaxAttempts[t] + 1)
\* closed stands for skipped and failed, which differ only in a counter for display.
AttemptStatus == {"none", "prepared", "dispatched", "succeeded", "closed", "unknown"}
Unsettled(t) == {n \in Ordinals(t) : att[t][n] \in {"prepared", "dispatched"}}

NewTask == [status |-> "none", paused |-> FALSE, cancel |-> FALSE, holder |-> None,
            expired |-> FALSE, reconcile |-> FALSE, succ |-> 0, count |-> 0]
NothingSeen == [succ |-> 0, count |-> 0]
\* Of the row read at the start of processClaimed the ticks use the progress.
IdleSlot == [pc |-> "idle", t |-> None, n |-> 0, res |-> None, list |-> {}, seen |-> NothingSeen]
NoOp == [kind |-> None, t |-> None, st |-> None, reconcile |-> FALSE]

Init ==
    /\ task = [t \in Tasks |-> NewTask]
    /\ att = [t \in Tasks |-> [n \in Ordinals(t) |-> "none"]]
    /\ key = [t \in Tasks |-> [n \in Ordinals(t) |-> 0]]
    /\ due = {} /\ buried = {} /\ fixed \in SUBSET Tasks
    /\ up = TRUE
    /\ adm = None
    /\ slot = [s \in Slots |-> IdleSlot]
    /\ op = [o \in Operators |-> NoOp]
    /\ ops = 0 /\ crashes = 0

-----------------------------------------------------------------------------
(* The process *)

\* Everything in memory is gone, requests in progress included.
ProcessDies ==
    /\ up' = FALSE
    /\ adm' = None
    /\ slot' = [s \in Slots |-> IdleSlot]
    /\ op' = [o \in Operators |-> NoOp]

Crash ==
    /\ up /\ crashes < MaxCrashes
    /\ ProcessDies
    /\ crashes' = crashes + 1
    /\ UNCHANGED <<task, att, key, due, buried, fixed, ops>>

RecoveredTask(r) ==
    IF r.status \notin Claimed THEN r
    ELSE [r EXCEPT !.status = IF r.cancel THEN Honest(r.succ, "cancelled")
                              ELSE IF r.paused THEN "deferred" ELSE "queued",
                   !.holder = None, !.expired = FALSE, !.reconcile = FALSE]

\* start(): recoverInterruptedClaims, before the pump is opened.
Restart ==
    /\ ~up
    /\ up' = TRUE
    /\ task' = [t \in Tasks |-> RecoveredTask(task[t])]
    /\ UNCHANGED <<att, key, due, buried, fixed, adm, slot, op, ops, crashes>>

LeaseExpires(t) ==
    /\ task[t].holder # None /\ ~task[t].expired
    /\ task' = [task EXCEPT ![t].expired = TRUE]
    /\ UNCHANGED <<att, key, due, buried, fixed, up, adm, slot, op, ops, crashes>>

DeadlinePasses(t) ==
    /\ t \notin due /\ task[t].status # "none"
    /\ due' = due \cup {t}
    /\ UNCHANGED <<task, att, key, buried, fixed, up, adm, slot, op, ops, crashes>>

\* The 200th row after that of t is inserted, of whatever account: the rows of the
\* execution target are never deleted, and list orders them by created_at.
RowsInserted(t) ==
    /\ t \notin buried /\ task[t].status # "none" /\ \A u \in Tasks : u < t => u \in buried
    /\ buried' = buried \cup {t}
    /\ UNCHANGED <<task, att, key, due, fixed, up, adm, slot, op, ops, crashes>>

-----------------------------------------------------------------------------
(* Operators.  The store reads the row, decides, and writes by id alone. *)

\* createDraft.
Create(t) ==
    /\ up /\ task[t].status = "none" /\ \A u \in Tasks : u < t => task[u].status # "none"
    /\ task' = [task EXCEPT ![t].status = "awaiting_confirmation"]
    /\ UNCHANGED <<att, key, due, buried, fixed, up, adm, slot, op, ops, crashes>>

\* confirm: one UPDATE guarded by status (and version).
Confirm(t) ==
    /\ up /\ task[t].status = "awaiting_confirmation"
    /\ task' = [task EXCEPT ![t].status = "queued"]
    /\ UNCHANGED <<att, key, due, buried, fixed, up, adm, slot, op, ops, crashes>>

\* requestPause, resume and requestCancel read the row ...
Requests(o, t, kind, st) ==
    /\ up /\ op[o] = NoOp /\ ops < MaxOps
    /\ task[t].status \notin Terminal \cup {"none"}
    /\ ops' = ops + 1
    /\ op' = [op EXCEPT ![o] = [kind |-> kind, t |-> t, st |-> st, reconcile |-> task[t].reconcile]]
    /\ UNCHANGED <<task, att, key, due, buried, fixed, up, adm, slot, crashes>>

PauseReads(o, t) == Requests(o, t, "pause", task[t].status)

ResumeReads(o, t) ==
    /\ task[t].status = "deferred" /\ task[t].paused
    /\ Requests(o, t, "resume", None)

\* In flight the request is only noted; otherwise complete(id, null, ...).
CancelReads(o, t) ==
    \/ task[t].status \in Claimed /\ Requests(o, t, "cancel", None)
    \/ /\ task[t].status \notin Claimed
       /\ Requests(o, t, "complete", Honest(task[t].succ, "cancelled"))

PausedTask(r, st, reconcile) ==
    IF st \in {"queued", "deferred", "awaiting_confirmation"}
    THEN [r EXCEPT !.paused = TRUE, !.status = "deferred", !.holder = None,
                   !.expired = FALSE, !.reconcile = FALSE]
    ELSE [r EXCEPT !.paused = TRUE, !.status = st, !.reconcile = reconcile]

CompletedTask(r, st) ==
    [r EXCEPT !.status = st, !.holder = None, !.expired = FALSE, !.reconcile = FALSE]

\* ... and write by id alone, whatever the row has become since.
OperatorWrites(o) ==
    /\ up /\ op[o] # NoOp
    /\ task' = [task EXCEPT ![op[o].t] =
                  CASE op[o].kind = "pause" -> PausedTask(@, op[o].st, op[o].reconcile)
                    [] op[o].kind = "resume" -> [@ EXCEPT !.paused = FALSE, !.status = "queued",
                                                          !.reconcile = FALSE]
                    [] op[o].kind = "cancel" -> [@ EXCEPT !.cancel = TRUE]
                    [] op[o].kind = "complete" -> CompletedTask(@, op[o].st)]
    /\ op' = [op EXCEPT ![o] = NoOp]
    /\ UNCHANGED <<att, key, due, buried, fixed, up, adm, slot, ops, crashes>>

-----------------------------------------------------------------------------
(* A tick up to the claim *)

\* On to the next await: with the row as it was seen, or without it.
GotoSeeing(s, pc, n, res, seen) ==
    slot' = [slot EXCEPT ![s].pc = pc, ![s].n = n, ![s].res = res, ![s].seen = seen]
Goto(s, pc, n, res) == GotoSeeing(s, pc, n, res, NothingSeen)
Leave(s) ==
    /\ slot' = [slot EXCEPT ![s] = IdleSlot]
    /\ adm' = IF adm = s THEN None ELSE adm
ReleaseAdmission(s) == adm' = IF adm = s THEN None ELSE adm

OverdueQueued(t) == t \in due /\ task[t].status = "queued"

\* A claim protects a task from expireDueTasks only while its lease runs.
Overdue(t) ==
    /\ t \in due /\ task[t].status \notin Terminal \cup {"none", "awaiting_confirmation"}
    /\ task[t].holder = None \/ task[t].expired

\* list({limit: 200}): the newest rows of every status, the others are not looked at.
Listed(t) == task[t].status # "none" /\ t \notin buried

\* tick() gets the admission turn and lists what is due among the newest rows.
TickBegins(s) ==
    /\ up /\ slot[s].pc = "idle" /\ adm = None
    /\ adm' = s
    /\ slot' = [slot EXCEPT ![s] = [IdleSlot EXCEPT !.pc = "expire", !.list =
                  {[t |-> t, succ |-> task[t].succ] : t \in {u \in Tasks : Listed(u) /\ Overdue(u)}}]]
    /\ UNCHANGED <<task, att, key, due, buried, fixed, up, op, ops, crashes>>

\* expireDueTasks, one task: complete(id, null, ...) with the listed progress.
\* The read of complete: gone terminal meanwhile, or on to its write.
ExpireReads(s) ==
    /\ up /\ slot[s].pc = "expire"
    /\ \E d \in slot[s].list :
         slot' = [slot EXCEPT ![s].list = @ \ {d},
                              ![s].pc = IF task[d.t].status \in Terminal THEN "expire" ELSE "expiring",
                              ![s].t = IF task[d.t].status \in Terminal THEN None ELSE d.t,
                              ![s].res = IF task[d.t].status \in Terminal THEN None
                                         ELSE Honest(d.succ, "failed")]
    /\ UNCHANGED <<task, att, key, due, buried, fixed, up, adm, op, ops, crashes>>

ExpireWrites(s) ==
    /\ up /\ slot[s].pc = "expiring"
    /\ task' = [task EXCEPT ![slot[s].t] = CompletedTask(@, slot[s].res)]
    /\ slot' = [slot EXCEPT ![s].pc = "expire", ![s].t = None, ![s].res = None]
    /\ UNCHANGED <<att, key, due, buried, fixed, up, adm, op, ops, crashes>>

Claimable(t) ==
    /\ task[t].status \in {"queued", "deferred", "waiting_approval"}
    /\ ~task[t].paused /\ ~task[t].cancel /\ t \notin due
    /\ task[t].holder = None \/ task[t].expired

\* A waiting task keeps its status and is only looked at again.
ClaimNext(s) ==
    /\ up /\ slot[s].pc = "expire" /\ slot[s].list = {}
    /\ \E t \in Tasks :
         /\ Claimable(t)
         /\ task' = [task EXCEPT ![t].holder = s, ![t].expired = FALSE,
                       ![t].reconcile = task[t].status = "waiting_approval",
                       ![t].status = IF @ = "waiting_approval" THEN @ ELSE "planning"]
         /\ slot' = [slot EXCEPT ![s] = [IdleSlot EXCEPT !.pc = "claimed", !.t = t]]
    /\ UNCHANGED <<att, key, due, buried, fixed, up, adm, op, ops, crashes>>

\* Nothing to claim (or the account projection is not ready).
TickEnds(s) ==
    /\ up /\ slot[s].pc = "expire" /\ slot[s].list = {}
    /\ Leave(s)
    /\ UNCHANGED <<task, att, key, due, buried, fixed, up, op, ops, crashes>>

-----------------------------------------------------------------------------
(* processClaimed up to the dispatch *)

\* What the claimed row says now: the claim lost, cancelled, paused, the
\* platform of the account changed, a waiting task, or work to do.
ReadsFresh(s) ==
    /\ up /\ slot[s].pc = "claimed"
    /\ LET r == task[slot[s].t] IN
         \/ r.holder # s /\ Leave(s)
         \/ /\ r.holder = s /\ r.cancel
            /\ Goto(s, "complete", 0, Honest(r.succ, "cancelled")) /\ UNCHANGED adm
         \/ r.holder = s /\ ~r.cancel /\ r.paused /\ Goto(s, "release", 0, "deferred") /\ UNCHANGED adm
         \/ /\ r.holder = s /\ ~r.cancel /\ ~r.paused
            /\ \/ Goto(s, "complete", 0, "failed") /\ UNCHANGED adm
               \/ r.reconcile /\ GotoSeeing(s, "approval", 0, None, [succ |-> r.succ, count |-> r.count]) /\ ReleaseAdmission(s)
               \/ ~r.reconcile /\ GotoSeeing(s, "plan", 0, None, [succ |-> r.succ, count |-> r.count]) /\ UNCHANGED adm
    /\ UNCHANGED <<task, att, key, due, buried, fixed, up, op, ops, crashes>>

FirstUnsettled(t) == {n \in Unsettled(t) : \A m \in Unsettled(t) : n <= m}

\* hasTaskOwnershipConflict: another task of the lane is active.
Conflict(t) == \E u \in Tasks \ {t} : task[u].status \in Owning

\* An attempt left prepared was never dispatched: it is deleted.
DiscardPrepared(s) ==
    /\ up /\ slot[s].pc = "plan"
    /\ \E n \in FirstUnsettled(slot[s].t) :
         att[slot[s].t][n] = "prepared" /\ Goto(s, "finish", n, "recovered")
    /\ UNCHANGED <<task, att, key, due, buried, fixed, up, adm, op, ops, crashes>>

\* One left dispatched may have reached the platform: reconcileAttempt can only
\* answer submitted_unknown.
ReconcileDispatched(s) ==
    /\ up /\ slot[s].pc = "plan"
    /\ \E n \in FirstUnsettled(slot[s].t) :
         att[slot[s].t][n] = "dispatched" /\ Goto(s, "finish", n, "unknown")
    /\ ReleaseAdmission(s)
    /\ UNCHANGED <<task, att, key, due, buried, fixed, up, op, ops, crashes>>

NothingPrepared(t) == \A n \in Unsettled(t) : att[t][n] # "prepared"

NothingUnsettled(t) == Unsettled(t) = {}
BudgetLeft(t, count) == count < MaxAttempts[t]

\* The lane is taken or the scheduler busy, the budget used up, or go ahead.
PlanAttempt(s) ==
    /\ up /\ slot[s].pc = "plan" /\ NothingUnsettled(slot[s].t)
    /\ LET t == slot[s].t
           seen == slot[s].seen IN
         \/ Goto(s, "release", 0, "deferred")
         \/ /\ ~Conflict(t) /\ ~BudgetLeft(t, seen.count)
            /\ Goto(s, "complete", 0, Honest(seen.succ, "failed"))
         \/ ~Conflict(t) /\ BudgetLeft(t, seen.count) /\ GotoSeeing(s, "start", 0, None, seen)
    /\ UNCHANGED <<task, att, key, due, buried, fixed, up, adm, op, ops, crashes>>

\* targetKey: the candidate or the curated post, or the number of the attempt.
TargetKey(t, count) == IF t \in fixed THEN 0 ELSE count + 1

\* MAX(ordinal) + 1.
NextOrdinal(t) == {n \in Ordinals(t) : \A m \in Ordinals(t) : att[t][m] = "none" <=> m >= n}

\* The unique index on (task_id, target_key).
DuplicateTarget(t, k) == \E n \in Ordinals(t) : att[t][n] # "none" /\ key[t][n] = k

StartAttempt(s) ==
    /\ up /\ slot[s].pc = "start"
    /\ LET t == slot[s].t
           k == TargetKey(t, slot[s].seen.count) IN
         /\ task[t].holder = s /\ ~DuplicateTarget(t, k)
         /\ \E n \in NextOrdinal(t) :
              /\ att' = [att EXCEPT ![t][n] = "prepared"]
              /\ key' = [key EXCEPT ![t][n] = k]
              /\ Goto(s, "dispatch", n, None)
    /\ UNCHANGED <<task, due, buried, fixed, up, adm, op, ops, crashes>>

\* task_claim_mismatch, or the unique index: the worker looks for the message
\* duplicate_attempt_target, PostgreSQL raises 23505.
StartThrows(s) ==
    /\ up /\ slot[s].pc = "start"
    /\ \/ task[slot[s].t].holder # s
       \/ DuplicateTarget(slot[s].t, TargetKey(slot[s].t, slot[s].seen.count))
    /\ ProcessDies
    /\ UNCHANGED <<task, att, key, due, buried, fixed, ops, crashes>>

\* markAttemptDispatched: nothing happens to an attempt that is not prepared.
MarkDispatched(s) ==
    /\ up /\ slot[s].pc = "dispatch"
    /\ LET t == slot[s].t
           prepared == att[t][slot[s].n] = "prepared" IN
         /\ att' = IF prepared THEN [att EXCEPT ![t][slot[s].n] = "dispatched"] ELSE att
         /\ task' = IF prepared THEN [task EXCEPT ![t].count = @ + 1] ELSE task
    /\ Goto(s, "mark", slot[s].n, None)
    /\ UNCHANGED <<key, due, buried, fixed, up, adm, op, ops, crashes>>

\* The last look at the claim before the executor runs.
MarkExecuting(s) ==
    /\ up /\ slot[s].pc = "mark"
    /\ LET t == slot[s].t IN
         IF task[t].holder = s
         THEN /\ task' = [task EXCEPT ![t] = IF @.status = "planning"
                                                THEN [@ EXCEPT !.status = "executing", !.reconcile = FALSE]
                                                ELSE @]
              /\ Goto(s, "exec", slot[s].n, None)
              /\ ReleaseAdmission(s)
         ELSE Leave(s) /\ UNCHANGED task
    /\ UNCHANGED <<att, key, due, buried, fixed, up, op, ops, crashes>>

-----------------------------------------------------------------------------
(* Execution and settlement *)

Results == {"success", "closed", "fatal", "unknown", "waiting", "deferred", "not_started"}

\* The executor answers, or throws (failed, retryable).
ExecReturns(s) ==
    /\ up /\ slot[s].pc = "exec"
    /\ \E r \in Results : Goto(s, "finish", slot[s].n, r)
    /\ UNCHANGED <<task, att, key, due, buried, fixed, up, adm, op, ops, crashes>>

\* reconcileWaitingApproval reads the candidate; the attempt it is about is the
\* first unsettled one, if there is any (0: none).
ApprovalReads(s) ==
    /\ up /\ slot[s].pc = "approval"
    /\ \E r \in {"still_waiting", "success", "unknown", "refused", "cancelled"},
         n \in IF Unsettled(slot[s].t) = {} THEN {0} ELSE FirstUnsettled(slot[s].t) :
           GotoSeeing(s, IF r = "still_waiting" THEN "waiting" ELSE "finish", n, r,
                      IF n = 0 THEN slot[s].seen ELSE NothingSeen)
    /\ UNCHANGED <<task, att, key, due, buried, fixed, up, adm, op, ops, crashes>>

\* releaseWaitingApprovalClaim.
ReleaseWaiting(s) ==
    /\ up /\ slot[s].pc = "waiting"
    /\ LET t == slot[s].t IN
         task' = IF task[t].holder = s /\ task[t].status = "waiting_approval"
                 THEN [task EXCEPT ![t].holder = None, ![t].expired = FALSE, ![t].reconcile = FALSE]
                 ELSE task
    /\ Leave(s)
    /\ UNCHANGED <<att, key, due, buried, fixed, up, op, ops, crashes>>

AttemptAfter(res) ==
    CASE res = "success" -> "succeeded"
      [] res \in {"closed", "fatal", "deferred", "cancelled", "refused"} -> "closed"
      [] res = "unknown" -> "unknown"
      [] OTHER -> "none"

\* WHERE status IN ('prepared','dispatched') of finishAttempt and discard.
Settleable(t, n) == n \in Unsettled(t)

\* The counters of the row in the same transaction.
FinishedTask(r, res, dispatched) ==
    [r EXCEPT !.succ = @ + IF res = "success" THEN 1 ELSE 0,
              !.count = IF AttemptAfter(res) = "none" /\ dispatched /\ @ > 0 THEN @ - 1 ELSE @]

\* What follows a settled attempt: look at the task again, give it back, or end.
AfterFinish(s, succ) ==
    LET res == slot[s].res IN
      CASE res \in {"success", "closed", "fatal"} -> Goto(s, "settled", slot[s].n, res)
        [] res \in {"deferred", "not_started"} -> Goto(s, "release", 0, "deferred")
        [] res = "recovered" -> Goto(s, "release", 0, "queued")
        [] res = "cancelled" -> Goto(s, "complete", 0, Honest(succ, "cancelled"))
        [] res = "waiting" -> Goto(s, "complete", 0, "waiting_approval")
        [] OTHER -> Goto(s, "complete", 0, Honest(succ, "failed"))

\* finishAttempt, or discardAttemptBeforeStart when nothing was started.
FinishAttempt(s) ==
    /\ up /\ slot[s].pc = "finish" /\ slot[s].res # "waiting" /\ slot[s].n # 0
    /\ Settleable(slot[s].t, slot[s].n)
    /\ LET t == slot[s].t
           r == FinishedTask(task[t], slot[s].res, att[t][slot[s].n] = "dispatched") IN
         /\ att' = [att EXCEPT ![t][slot[s].n] = AttemptAfter(slot[s].res)]
         /\ key' = [key EXCEPT ![t][slot[s].n] = IF AttemptAfter(slot[s].res) = "none" THEN 0 ELSE @]
         /\ task' = [task EXCEPT ![t] = r]
         /\ AfterFinish(s, r.succ)
    /\ UNCHANGED <<due, buried, fixed, up, adm, op, ops, crashes>>

\* annotateAttempt changes no status; without an attempt there is nothing to settle.
FinishWithoutAttempt(s) ==
    /\ up /\ slot[s].pc = "finish" /\ (slot[s].res = "waiting" \/ slot[s].n = 0)
    /\ AfterFinish(s, slot[s].seen.succ)
    /\ UNCHANGED <<task, att, key, due, buried, fixed, up, adm, op, ops, crashes>>

\* attempt_already_finished_or_missing.
FinishThrows(s) ==
    /\ up /\ slot[s].pc = "finish" /\ slot[s].res # "waiting" /\ slot[s].n # 0
    /\ ~Settleable(slot[s].t, slot[s].n)
    /\ ProcessDies
    /\ UNCHANGED <<task, att, key, due, buried, fixed, ops, crashes>>

GoalReached(t) == task[t].succ >= Target[t]

\* afterSettledAttempt.
AfterSettled(s) ==
    /\ up /\ slot[s].pc = "settled"
    /\ LET t == slot[s].t
           r == task[t] IN
         IF r.cancel THEN Goto(s, "complete", 0, Honest(r.succ, "cancelled"))
         ELSE IF r.paused THEN Goto(s, "release", 0, "deferred")
         ELSE IF GoalReached(t) THEN Goto(s, "complete", 0, "completed")
         ELSE IF slot[s].res = "fatal" \/ ~BudgetLeft(t, r.count) \/ t \in due
              THEN Goto(s, "complete", 0, Honest(r.succ, "failed"))
         ELSE Goto(s, "release", 0, "queued")
    /\ UNCHANGED <<task, att, key, due, buried, fixed, up, adm, op, ops, crashes>>

\* complete with a token: the read, with its checks, ...
CompleteReads(s) ==
    /\ up /\ slot[s].pc = "complete"
    /\ LET r == task[slot[s].t] IN
         \/ (r.holder # s \/ r.status \in Terminal) /\ Leave(s) /\ UNCHANGED <<up, op>>
         \/ /\ r.holder = s /\ r.status \notin Terminal /\ CanTransition(r.status, slot[s].res)
            /\ Goto(s, "completing", 0, slot[s].res) /\ UNCHANGED <<up, adm, op>>
         \/ /\ r.holder = s /\ r.status \notin Terminal /\ ~CanTransition(r.status, slot[s].res)
            /\ ProcessDies
    /\ UNCHANGED <<task, att, key, due, buried, fixed, ops, crashes>>

\* ... and the write, by id alone.
CompleteWrites(s) ==
    /\ up /\ slot[s].pc = "completing"
    /\ task' = [task EXCEPT ![slot[s].t] = CompletedTask(@, slot[s].res)]
    /\ Leave(s)
    /\ UNCHANGED <<att, key, due, buried, fixed, up, op, ops, crashes>>

\* releaseClaim: the read, with its checks, ...
ReleaseReads(s) ==
    /\ up /\ slot[s].pc = "release"
    /\ LET r == task[slot[s].t] IN
         \/ r.holder # s /\ Leave(s) /\ UNCHANGED <<up, op>>
         \/ /\ r.holder = s /\ CanTransition(r.status, slot[s].res)
            /\ Goto(s, "releasing", 0, slot[s].res) /\ UNCHANGED <<up, adm, op>>
         \/ /\ r.holder = s /\ ~CanTransition(r.status, slot[s].res)
            /\ ProcessDies
    /\ UNCHANGED <<task, att, key, due, buried, fixed, ops, crashes>>

\* ... and the write, guarded by the token.
ReleaseWrites(s) ==
    /\ up /\ slot[s].pc = "releasing"
    /\ task' = IF task[slot[s].t].holder = s
               THEN [task EXCEPT ![slot[s].t] = CompletedTask(@, slot[s].res)]
               ELSE task
    /\ Leave(s)
    /\ UNCHANGED <<att, key, due, buried, fixed, up, op, ops, crashes>>

-----------------------------------------------------------------------------
Tick(s) == TickBegins(s) \/ ExpireReads(s) \/ ExpireWrites(s) \/ ClaimNext(s) \/ TickEnds(s)

Process(s) ==
    \/ ReadsFresh(s) \/ DiscardPrepared(s) \/ ReconcileDispatched(s) \/ PlanAttempt(s)
    \/ StartAttempt(s) \/ StartThrows(s) \/ MarkDispatched(s) \/ MarkExecuting(s)
    \/ ExecReturns(s) \/ ApprovalReads(s) \/ ReleaseWaiting(s)
    \/ FinishAttempt(s) \/ FinishWithoutAttempt(s) \/ FinishThrows(s)
    \/ AfterSettled(s) \/ CompleteReads(s) \/ CompleteWrites(s)
    \/ ReleaseReads(s) \/ ReleaseWrites(s)

Next ==
    \/ \E t \in Tasks : Create(t) \/ Confirm(t) \/ LeaseExpires(t) \/ DeadlinePasses(t) \/ RowsInserted(t)
    \/ \E o \in Operators :
         \/ \E t \in Tasks : PauseReads(o, t) \/ ResumeReads(o, t) \/ CancelReads(o, t)
         \/ OperatorWrites(o)
    \/ \E s \in Slots : Tick(s) \/ Process(s)
    \/ Crash \/ Restart

Spec == Init /\ [][Next]_vars

\* The timer pumps, every await is answered, leases and deadlines pass and the
\* process manager restarts the process.
Fairness ==
    /\ \A s \in Slots : WF_vars(Tick(s)) /\ WF_vars(Process(s))
    /\ \A t \in Tasks : WF_vars(LeaseExpires(t)) /\ WF_vars(DeadlinePasses(t))
    /\ \A o \in Operators : WF_vars(OperatorWrites(o))
    /\ WF_vars(Restart)

FairSpec == Spec /\ Fairness

-----------------------------------------------------------------------------
(* Properties *)

\* Type correctness of the tables and of the ticks.
TypeOK ==
    /\ task \in [Tasks -> [status : Status, paused : BOOLEAN, cancel : BOOLEAN,
                           holder : Slots \cup {None}, expired : BOOLEAN,
                           reconcile : BOOLEAN, succ : Nat, count : Nat]]
    /\ \A t \in Tasks : att[t] \in [Ordinals(t) -> AttemptStatus]
    /\ \A t \in Tasks : key[t] \in [Ordinals(t) -> Nat]
    /\ due \subseteq Tasks /\ buried \subseteq Tasks /\ fixed \subseteq Tasks /\ up \in BOOLEAN /\ adm \in Slots \cup {None}
    /\ \A s \in Slots : slot[s].t \in Tasks \cup {None} /\ slot[s].n \in Nat
    /\ \A o \in Operators : op[o].t \in Tasks \cup {None}
    /\ ops \in Nat /\ crashes \in Nat

\* The counters of the row never run ahead of the attempts, which are kept in
\* another table and settled by ticks that crash, race and withdraw: success_count
\* is the number of verified attempts, attempt_count covers only real dispatches.
CountersMatchAttempts ==
    \A t \in Tasks :
        /\ task[t].succ = Cardinality({n \in Ordinals(t) : att[t][n] = "succeeded"})
        /\ task[t].count <= Cardinality({n \in Ordinals(t) : att[t][n] \notin {"none", "prepared"}})

\* A task has never two attempts in the air: a new one is started only after
\* the one before has been settled or withdrawn, crashes included.
OneUnsettled == \A t \in Tasks : Cardinality(Unsettled(t)) <= 1

\* While an executor runs, the store does not show its attempt as prepared or
\* withdrawn: a crash can never turn it into one that was not dispatched.
WriteAhead ==
    \A s \in Slots : slot[s].pc = "exec" => att[slot[s].t][slot[s].n] \notin {"none", "prepared"}

\* The number of dispatched attempts stays within max_attempts.
BudgetRespected == \A t \in Tasks : task[t].count <= MaxAttempts[t]

\* A task says completed only when its goal has been verified.
CompletedIsEarned == \A t \in Tasks : task[t].status = "completed" => task[t].succ >= Target[t]

\* What is recorded of a settled attempt is never rewritten or deleted.
SettledStays ==
    [][\A t \in Tasks : \A n \in Ordinals(t) :
          att[t][n] \in {"succeeded", "closed", "unknown"} => att'[t][n] = att[t][n]]_vars

\* Every task that has left the confirmation reaches a terminal status, through
\* crashes, lost claims, duplicate targets and operators that change their mind -
\* unless its row has fallen behind the newest 200: expireDueTasks is blind to it then,
\* and a task that is paused, waits or is due is never ended.  Until that happens
\* nothing but the deadline is needed.
EveryTaskEnds ==
    \A t \in Tasks :
        task[t].status \notin {"none", "awaiting_confirmation"} ~> task[t].status \in Terminal \/ t \in buried

\* The task keeps its contract: TaskContract says what, the variables here say
\* where the store and the ticks keep it.
Contract == INSTANCE TaskContract WITH
    Numbers <- [t \in Tasks |-> Ordinals(t)], Goal <- Target, Budget <- MaxAttempts,
    attempt <- att,
    running <- {<<slot[s].t, slot[s].n>> : s \in {r \in Slots : slot[r].pc = "exec"}},
    verified <- [t \in Tasks |-> task[t].succ],
    spent <- [t \in Tasks |-> task[t].count],
    completed <- {t \in Tasks : task[t].status = "completed"}
ImplementsContract == Contract!Spec
=============================================================================
