# TLA+ models of aidcp-automation

aidcp-automation drives social-media accounts through remote browsers ("edges"):
a cloud process decides what an account does next, sends commands to its edge
over a WebSocket, receives receipts, and accounts for every platform action
against risk quotas.  Several such processes (deployment targets `dev` and `ol`,
old and new instances during a rolling restart) share one PostgreSQL database.
This directory holds TLA+ models of its protocols, TLC configurations that check
them on small instances, and TLAPS proofs of their central safety properties.

Paths below are relative to `src/src/`.

## 1. Inventory

| Part | State it keeps | Operations | Hard behaviour | What makes it correct |
|---|---|---|---|---|
| **Risk accounting** `risk/risk-accounting.ts`, `risk-counter-outbox-store.ts`, `risk-counter-reconciler.ts` | tables `risk_counter_outbox`, `risk_counters`; per process: single-flight round, queued round, fail-closed accounts, counters in memory | record / enqueue, applyNow, claimBatch, applyClaimed, failClaimed, recover, reconcile, reload | expiring claims, lost COMMIT answers, resent receipts, joins of a running round, eviction between commit and count | a fact is in the ledger exactly once; memory converges to the ledger; an awaited round covers its fact |
| **Event outbox** `transport/event-outbox.ts`, `outbox-notify-listener.ts` | tables `event_outbox`, `event_outbox_topic_cursor`, `event_outbox_cursor`; poll loop per consumer instance | emit, tick, runRound, runTopicOnce, advanceCursor, syncLegacyAggregateCursor, wake, prune | commits out of id order, two instances, failing topics, poison events, crash between handler and cursor, stale pruning floor | no committed event is skipped, none pruned unread, every event is eventually handled |
| **Risk state** `risk/risk-state-machine.ts`, `risk-controller.ts`, `risk-controller-registry.ts`, `pg-risk-store.ts`, `risk-recovery-sweeper.ts` | `risk_state` with owner target; controller cache; mutation chain per controller | applySignal, recoverRestricted, sweep, evict, handshake | memory assigned before it is persisted, ownership read before the write, controllers captured by live connections | a command reported as carried out has reached the table |
| **Risk commands** `risk/risk-command-service.ts`, `transport/risk-command-outbox.ts` | `risk_command_outcome` rows with a stage | submit, apply, resume edges | redelivery at every stage, a crash between domain change and edge resume | edges are resumed at most once per command; a final outcome is final |
| **Delegated tasks** `delegated-task/*` | tasks (status, claim, version), attempts, events | create, confirm, claim, attempt, settle, pause, cancel, expire, recover | lease expiry during execution, cancel racing a dispatch, recovery of interrupted claims | attempts written ahead, one in the air, within the budget; a task says completed only when it is; every task ends |
| **Interactions** `interactions/*`, `automation-interaction.ts` | messages and reply jobs, drafts, send attempts, bindings, offboards | ingest, generate, edit, approve, queue, dispatch, settle, reconcile, offboard, purge | approval racing an edit, send result unknown, offboarding and purging during a send | a reply is sent as approved, tried again only when the earlier try was reported as failed, charged again only while no charge is known to be written; a purge spares live data |
| **Publishing** `publish-agent/*` | drafts, approvals by revision, claims, account queue, breaker, retry budgets | schedule, approve, edit, dispatch, submit, settle, reconcile | answers late or missing, two wake-ups, spent approvals, an edit during a queue | an approval is worth one post of the version approved; an open breaker stops every queued draft |
| **Facebook consumption and rule modes** `orchestrator/facebook-*-mode*.ts` | durable rows of actions, batches and progress; coordinator and dispatcher in memory | view, claim, dispatch, settle, recover, supersede | policy change during a settlement, crash after a dispatch, session that moves | an action is written once; obligations are earned; one open round |
| **Comment tasks** `comment-agent/comment-scheduler.ts`, `comm/edge-task-lease-client.ts` | task stack, single-flight flag, dedup ledger; the lease of the edge | trigger, search, compose, approve, commit, record | approval that takes hours, receipts matched by action, leases granted late | the tasks comment on a note once, one active lease, the flag is freed |
| **Group joining** `comment-agent/facebook-group-*.ts` | targets, membership rows, runs | claim, observe, click, settle, reconcile, reclaim | late answers, writes without a status predicate, rows deleted in flight | a group keeps its owner; a joined row is true; every run ends |
| **Edge communication** `comm/*`, `orchestrator/connection-runtime.ts`, `automation-edge-access.ts` | connections, runtimes, pauses, alerts, incidents, pending searches | hello, replace, close, captcha frames, assisted clicks, receipts | a socket that closes inside its hello, frames of one socket in parallel | what a connection drives ends with it; pauses end with the block; recorded facts are true |
| **Role dispatcher** `orchestrator/role-dispatcher.ts`, `agents/` | session clock and its pauses, timers, comment subline, patrol lease | start, browse, comment, patrol, rest, resume | everything that may hold a session up | holds have owners and end; a session meant to resume has a timer |
| **Process life cycle** `automation-main.ts`, `automation-service-entry.ts`, `risk/writer-lock.ts`, `schema/` | stage, advisory lock, parts started | gate, lock, start, stop | lock lost while starting or stopping, a second process | interactions are admitted only with the lock; nothing begins after it was given back |
| **Synchronous reads** `transport/automation-sync-read-*.ts`, `account-projection-store.ts` | generation row, snapshots, mirrors, checkpoints, roster projection | publish, notify, fetch, restore | lost or repeated notices, a restart between apply and checkpoint | a generation names one value; a ready mirror rests on durable state |
| **Operator commands** `delegated-task/operator-command-*.ts`, `transport/paired-command-http.ts`, `*-command-receiver.ts` | ledger of text commands, receipts in memory | call, claim, run, decide | timeouts and retries of the sender, an edit in between | a command runs once and decides what was confirmed |
| Pacing, schema DDL, alerts, caches, configuration, planner, hot leads, platform, wire adapters | rows, no protocol | single statements, arithmetic, encoding | - | - |

**Interactions between the parts.**  Edge receipts and the agents call
`RiskAccounting.record`/`enqueue`.  Every business transaction may emit into the
event outbox; consumers of it apply risk commands, wake the accounting worker and
announce changed reads.  The handshake of an edge moves an account to the target of
the process it connects to and evicts that process's cached risk controller.
Controllers are shared, through the registry, by connections, the accounting
worker, the reconciler, the sweeper and the command service.  Comment tasks,
publishing, patrols and assisted clicks compete for the lease of the edge.  An
operator's text command drafts a delegated task, which after its confirmation runs
executors that end in the other parts.  All cross-process coordination goes through
PostgreSQL rows (claim tokens, leases, cursors, owners, versions) and one advisory
lock; within a process, interleaving happens at every `await`.

## 2. The modules

| Part | Model | Abstract specification | Proofs | TLC instance |
|---|---|---|---|---|
| Risk accounting | `RiskAccounting` | - | `RiskAccountingProofs` | `MCRiskAccounting` |
| Event outbox | `EventOutbox` | - | `TransportProofs` | `MCEventOutbox` |
| Delegated tasks | `DelegatedTask` | `TaskContract` | `DelegatedTaskProofs` | `MCDelegatedTask` |
| Risk state and commands | `RiskControl` | - | `AccountProofs` | `MCRiskControl` |
| Interactions and offboarding | `Interactions` extends `InteractionOffboard` | `ReplyContract` | `EngagementProofs` | `MCInteractions` |
| Publishing | `Publish` | - | `PublishProofs` | `MCPublish` |
| Group joining | `GroupJoin` | - | `CommentAgentProofs` | `MCGroupJoin` |
| Life cycle, reads, commands | `AutomationProcess` composes `ServiceLifecycle`, `SyncReads`, `OperatorCommands` | - | `AutomationProcessProofs` | `MCAutomationProcess` |
| Facebook modes | `FacebookModes` composes `FacebookConsumption` and `FacebookRule` over `FacebookSession` | - | `AccountProofs` | `MCFacebookModes` |
| Comment tasks | `CommentTasks` with an instance of `EdgeLease` | - | `CommentAgentProofs` | `MCCommentTasks` |
| Browsing session | `BrowseSession` | - | `EngagementProofs` | `MCBrowseSession` |
| Edge communication | `EdgeLink` | - | `TransportProofs` | `MCEdgeLink` |

Each module's header names its sources and its abstractions; each action carries
the name of the function it models where there is one.  An action is what runs
between two awaits; a database transaction is one step.  `None` stands for every
null.  Variables marked *history* exist only for the properties.  Four proof modules
extend two components each, so the definitions every module has are named for their
component where the two would clash: `JoinSpec`, `joinVars` and `Nil` in `GroupJoin`,
`LinkSpec` and `linkVars` in `EdgeLink`, `SessionSpec`, `sessionVars` and `Nobody` in
`BrowseSession`, `ModesSpec`, `modesVars`, `Services` and `Nothing` in the Facebook modules.

### RiskAccounting

A key is an outbox identity `(execution_target, dedupe_key)`.  `row` is
`risk_counter_outbox`, `ledger` counts the rows of `risk_counters` that carry the
id of an outbox row, `owner` is `accounts.execution_target`.  Per process: `pc`,
`batch`, `cur` are the round in flight; `q` is the queued promise of `applyNow`;
`caller` says which promise each caller of `record()` awaits; `mat` and `cnt` are
the controllers the registry holds and the events in their counters; `rec` is the
reconciler between its awaits; `blocked` is the fail-closed set.  Actions:
`Enqueue`, `RecordEnqueues`, `EnqueueFails`, `EnqueueAnswerLost` (`enqueue`,
`record`); `RecordApplies`, `Poll`, `QueuedContinues` (`applyNow`); `ClaimBatch`,
`ApplyCommits`, `ApplyRollsBack`, `ApplyErrs`, `FailClaimed` and their lost answers;
`ResolveController`, `RecordFact` after the commit; `Materialize`, `Evict`,
`Handshake`; `ReconcileStarts` to `ReconcileFails`; `Crash`, `Restart`,
`LeaseExpires`.  The claim token is the process (a process has one batch in flight);
a lease is running or expired, and may expire at any moment; all facts are of one
day and one kind of action (the reconciler compares each kind by itself).

### EventOutbox

A transaction emits one event and names it.  `xid` and `eid` are what PostgreSQL
draws at the first write and at the INSERT; `cursor` and `legacy` are the two
cursor tables; `handled` is a history variable.  Per instance, `todo`, `at`,
`from`, `rows`, `done`, `count`, `seen`, `failed`, `full` are the locals of
`runRound` and `runTopicOnce`; `synced`, `pending`, `timer` are fields; `pr` is the
pruner between reading its floor and deleting.  One execution target (every query
filters on it); which rows are old enough to be pruned is left open; a cursor row is
absent exactly while it is 0.

### DelegatedTask and TaskContract

`task` is a row of `delegated_tasks` (status, pause and cancel requests, the holder
of the claim and whether its lease has ended, whether `current_step` asks for the
reconciliation of an approval, the two counters), `att` and `key` are the attempts
by ordinal; `fixed` are the tasks that draw the same target key for every attempt.
`list` returns the newest 200 rows only: `buried` are the tasks with as many newer rows,
which the expiry of a tick no longer sees (`Tasks` are numbered in the order of their
rows).  `slot` is a concurrent `tick()` between two awaits, `adm` the admission
turn that serialises everything from expiry to dispatch, `op` a request of an
operator between the read and the write of the store.  `skipped` and `failed`
attempts are one status (`closed`): they differ in a counter nobody decides on.
`pump` calls `tick()` without a catch and the program installs no handler for
unhandled rejections, so whatever the store throws into a tick ends the process
(`ProcessDies`).  One process serves a target, the claim token is the tick, all tasks
share one lane, retry delays are the freedom to claim later, and the optional version
of a request (compared with its first read only) is left out.

`TaskContract` is what the operator was promised: an attempt is written before it
runs, one is in the air at a time, no more are dispatched than the budget allows,
a settled one is settled for good and a task says completed only when its goal has
been reached.  `DelegatedTask` maps its rows to it (`ImplementsContract`).

### RiskControl

`row` and `owner` are the tables; `ctl` holds every controller object with its
process, its state in memory and the write in flight; `cache` is the registry's,
`conns` are the controllers captured by live connections.  `cons` is the consumer of
risk commands in the middle of a delivery, `out` the outcome rows, `hs` and `sweep`
a handshake and a sweep between their awaits.  `applySignal` and `recoverRestricted`
change memory, read the owner (`SaveStateReads`) and upsert (`SaveStateWrites`) in
steps of their own, and a handshake may fall between.

### Interactions, InteractionOffboard and ReplyContract

`job` and `att` are the reply jobs and their send attempts, `work` the operation a
request, sweep or handler is in the middle of: what it read and at which version.
`wire` is the socket to the edge (in order, lost as a whole), `seen` what the edge has
made of each attempt, `charged` the risk budget in memory, `blessed` the texts a person
approved or auto_safe let through.  A charge raises the counter in memory before it appends
the row; a failed append gives the claim back, and the result charges again when it is
delivered again.  `written` (history) are the attempts whose append is known to have
succeeded.  Ingestion checks the account before its transaction, in a step of its own.
`InteractionOffboard` has the binding of the account (`auth`, `controls`, `replyConfig`; an
auth report is authorised by the API, `receipts`, and written later), the offboards of its
environments, the admission round that materialises a revocation (`held`, `reconciler`) and
the purge in three transactions, one per host on the shared database (`purge`); `late` marks
a purge whose row another host has flipped in between.  The two meet in the gate of every send, in the welcome of the
edge (a cleanup goes before a reconciliation), and in the purge and the cleanup, which
take jobs and texts away under running operations.

`ReplyContract` is what the inbox promises of a reply: tried with a text somebody
agreed to, one try of the account at a time and none while an earlier one of the reply is
open or unsure (one reported as failed may turn out posted all the same), reported as sent
only when it was, charged only for what was posted and not again once a charge of it is
known to be written.  A try is an attempt without its way through the edge (`TryOf`).

### Publish

`draft` (status, version), `appr` (the approval authority's row: its revision and the
version approved), `calls` (dispatch requests that await a draft), `queue`
(`accountTail`), `run` (the head of the queue, with the plan of what is left to do once
the outcome is known), `fails`/`open` (the breaker), `preempts`/`defers` (budgets),
`edge`, `answer`, `media`.  The commands that fill the form before `submit_publish` are
one step; whatever throws before it takes the approval back (`Unconfirmed`).  A rejection is
written at the authority (`rejectCandidate`), which refuses it where an approval stands, and
then at the draft (`rejectPendingApproval`).

### GroupJoin

`target` and `row` are the two ledgers (one membership row per group, so that one
account owns it), `job` is the run of an account, `edge` what its edge has not answered
yet, `member` the truth of the platform.  Pool, manual and mode runs differ in where they
start and in whether a timeout counts.  The claim of a particular group is two steps, the
reset of a failed row and the claim itself.  History: `forgotten` (rows deleted after a
dispatch) and `crossed` (runs judged by the answer of another request).

### AutomationProcess: ServiceLifecycle, SyncReads, OperatorCommands

`ServiceLifecycle`: `stage` of each process, the advisory `lock`, the loss that a
process has not heard of yet (`notice`), the `parts` the business entry has started -
timers, consumers, listeners - and the start or stop in progress.  A stop takes `parts`
away, which is all the code does; the work they have begun is in `rounds` and goes on to
its end, past `dispose` too, since nobody waits for it and it asks for no lock.  History:
`outlived` (what was under way when the lock was given back) and `failed` (a start or a
stop broke off).  `SyncReads`: the owned fact of the process with its
generation (`row`, `pub`, `observed`, `asked`), what the API has applied (`api`), and the
consumed streams with `fetch`, `mirror`, `checkpoint` and the roster `projection` shared
by the targets.  `OperatorCommands`: the client's `call`, the text-command `ledger`, the
`receipts` kept in memory only, the drafted `task` and the candidate (`draft`).  A command is
a text in plain language, whose task an operator confirms, a slash command, whose run
confirms its own task after the row is there and may be refused then (`left`), or one of those
remembered in memory, which may fail after a part or all of its effect (`half`).  The
composition lets the business entry open when the reads are ready, lets a listening
process serve snapshots and commands, and drops all memory when a process ends.

### FacebookModes: FacebookSession, FacebookConsumption, FacebookRule

`FacebookSession` has the operation policy by revision, the processes and the session of
the edge.  `FacebookConsumption` has the action rows (`act`), the progress by revision
(`prog`), the result facts and the coordinator's drive (`run`); `FacebookRule` the batches
and the dispatcher's pending batch (`pend`).  A boundary, a start and a crash reach both.

### CommentTasks and EdgeLease

`task` is the stack of a task: search, compose, approve, post and record under one
lease, or prepare under one and commit under a second.  `dedup` is the ledger of
the tasks' comments, `posted` those comments on the platform, `doubt` the notes whose comment the cloud lost count of
(no receipt, another task's receipt, a ledger that was not read or written in time, a
forced task, two tasks at once).  The browsing session's own comments are in no ledger; they
matter here as receipts a task may take for its own.  `EdgeLease` has the client's maps, the ordered channels
and the edge that grants, queues, preempts and expires.  A continuation whose promise has
settled runs before the next event (`Prompt`, `Quiet`).

### BrowseSession

`disp` is the dispatcher with its roles' fields: session, pauses of the clock, timers, the
comment in hand, the patrol and its lease, what the session is parked for.  The private
event bus is synchronous, so a handler and all it emits is one step; what a role awaits
is not (`pipe`, `pushing`).  `disp.out` are the commands on the edge, answered in order or
never; `disp.awaited` is the comment whose outcome timer runs; `disp.adrift` (history) are
comments pending without a timer of theirs when the edge fell silent over them.

### EdgeLink

`sock`, `hello`, `edges`, `rt`, `work`: the sockets of an edge, how far each hello has
come (a second hello may come while the first one of a half-open socket is awaited), the
server's map, the runtimes and the work started on them.  `paused`, `detect`,
`clear`, `alerted`, `alerts`, `incident`, `recovery`: a blocked page, the frames about it in
work, its alert and its assisted clicks.  `search`, `view`, `note`, `facts`: what is
recorded from receipts.  History: `excuse` (which frame overtook which).

## 3. Runs

Every run checks one composed component on one instance; `CHECK_DEADLOCK FALSE` stands
where the bounds, or the system itself, may let everything rest.

| Run | Instance | Properties |
|---|---|---|
| `acc` | 2 processes of one target, 1 fact, 2 attempts, a second target to move to, 1 crash, 1 eviction; the second process only polls | `ExactlyOnce`, `MemoryBackedByLedger`, `AwaitedRoundCoversRow`, `TerminalStable`, `AccountingSettles` |
| `outbox` | 4 transactions on 2 topics, one of them poison and writing before it emits; 2 instances of one consumer, batches of 1; 1 fault or crash | `NoEventSkipped`, `PrunedWereConsumed`, `CursorsOnlyAdvance`, `AtLeastOnce` |
| `task` | 1 task with 1 result wanted and 2 attempts, its target key fixed or not, its row buried at any time; 2 ticks, 1 operator with up to 2 requests, 1 crash besides those the worker causes | `ImplementsContract`, `EveryTaskEnds` |
| `facebook_modes` | 2 processes, 2 revisions, 2 boundaries or crashes, 3 rows, cadence 1 everywhere | `WriteOnce`, `ObligationsEarned`, `OneRound` |
| `risk_control` | 2 processes, 3 controllers, 1 recovery, 1 signal command, 1 reported signal, 1 fault, 1 handshake | `ResumedOnce`, `OutcomeHonest`, `OutcomeStable` |
| `interactions` | 2 jobs, 2 texts, 2 workers, 2 attempts, 2 environments, 2 hosts that purge, 4 stimuli | `JobAttemptAgree`, `LiveDataKept`, `ImplementsContract` |
| `browse_session` | 2 notes, one of which must be commented on, 1 redrive, 1 stall, 2 outside events | `HoldsHaveOwners`, `WillResume`, `HoldsEnd` |
| `group_join` | 2 accounts, 1 group, 3 runs of an account, 2 requests on an edge, 1 operator change | `OneAccountPerGroup`, `JoinedHolds`, `RunsEnd` |
| `comment_tasks` | a scheduled or Facebook task and one a human starts, 1 note, 1 lost connection, the browsing session | `NoSecondComment`, `LeaseHolds`, `FlagIsFreed` |
| `publish` | 2 drafts (one scheduled), 2 approvals or edits, 2 calls, 1 fault, breaker threshold 1 | `PostedOnce`, `PostedAsApproved`, `BreakerStops` |
| `edge_link` | 3 connections of one edge, 2 searches, 2 notes, 5 frames or calls from outside | `ConnectionOwnsWork`, `PauseSettles`, `FactsAreTrue` |
| `automation_process` | 2 processes, 3 migration ledgers, 2 calls of one command (a text, a slash or a memory command), 2 values, 2 versions | `LockGuardsWork`, `OwnedFactHolds`, `ReadyIsBacked`, `CommandRunsOnce`, `DecidedAsConfirmed` |

**Bounds, by name.**

* Counters in guards: `MaxCrashes`, `MaxEvictions`, `MaxFaults`, `MaxShakes`,
  `MaxReports`, `MaxDrops`, `MaxChanges`, `MaxMoves`, `MaxOps`, `MaxStarts`, `MaxInputs`, `MaxHuman`,
  `MaxCalls`, `MaxRuns`, `MaxEdge`, `MaxQueue` bound what people, the environment or a
  failing dependency start; one of each interrupts every await once, two let a second
  event meet the consequences of the first.  `MaxVersion`, `MaxDraft`, `MaxRev`,
  `MaxTime`, `MaxActions`, `MaxBatches` bound rows, versions and time.
* `acc`: `PeerOnlyPolls` (the second process competes for rows but serves no caller, holds
  no controller and is not restarted) and `PeerClaimsOnce` (it leaves its own expired claim
  to the first).  Two processes are what a claim needs to change hands; two attempts tell a
  retry from a dead letter.
* `outbox`: `PeerIsPlain` (the second instance does not fail, is not woken and does not
  loop on a full batch; nobody prunes the second topic; the panel event that emits first is
  called t1; the poison event t3 comes beside one instance or one panel event, the other
  audit event t4 beside t1 alone and one instance) and `PeerRunsOnce` (one round of the
  second instance each time it is started).  Two events on one topic and one on another are
  the smallest instance with an out-of-order commit and a topic that lags; batches of 1 make
  the loop on full batches happen.
* `task`: `OneDisturbance` (a request or a crash, or a pause and its resume) and
  `SecondCompetes` (the second tick begins only while the first holds a claim).  Two
  attempts distinguish a retry from the end of the budget; there is room for one attempt
  beyond it, so that going over it would show.  A fixed key lets the second attempt of a task
run into the unique index.
* `facebook_modes`: `RowBound` (rows of both modes together, and a second boundary only
  under the first revision).  Cadence 1 makes every confirmation earn the next action, which
  reaches the whole chain view - like - join - comment within three rows.
* `risk_control`: `StimuliBound` (commands sent, signals reported and ticks, together), a
  `VIEW` in which a controller nobody holds is as good as a new one.
* `interactions`: `StimulusBound` (what people start in the inbox, and twice what they
  change in the binding).
* `automation_process`: `OneMoves`.  The steps of a start or a stop, of each stream and of
  the commands touch nothing in common but the stage of the processes, so only the orders
  in which one of these moves at a time are explored, the streams of a process in turn; the
  calls repeat one command; beside a source that has changed there is one fault or call
  from outside; the work under way in a process is one piece at a time, beside the life of the
  processes (with one fault) or a command only, and that of a sweep or a task.

Symmetry (processes, hosts, controllers, workers, jobs, texts, environments, sockets, notes,
calls, values) is used only in runs without liveness properties.

**Fairness.**  `RiskAccounting`: timers fire again (`setInterval`), so polling, rounds,
rows, the reconciler, restarts and lease expiry are weakly fair.  A query that is retried
for ever succeeds eventually: strong fairness on a claim that finds rows, on `failClaimed`,
on the comparison and on the reload - without it a database that always fails would let the
retry loop spin.  `EventOutbox`: transactions end, the process manager restarts a worker, an
armed timer fires, an await is answered; all weak, and none on wakes, so a lost notification
is covered.  In both runs nothing is assumed of the second process (`MCFairSpec`): it may
stop at any point.  `DelegatedTask`: the interval pumps, every await of a tick and of a
request is answered, leases and deadlines pass and the process is restarted; all weak, and
none on claiming - a task that is never claimed must end at its deadline, unless its row is buried; the
second tick need not begin.  `BrowseSession`: only the two watchdog timers (`onStall`,
`expireCommentSubline`) are fair - edges, models and people may never answer.  `GroupJoin`:
a run goes on by itself, because every wait of a step has a timer; the edge need not answer.
`CommentTasks`: the steps of a task, the timers of the lease client, and the ordered channel
of a connected edge.  The other modules state no fairness and no liveness.

## 4. Proofs

All theorems hold for every value of the constants that satisfies the modules' assumptions
(which say that `None` is none of the other values, that bounds are naturals, that limits
are positive), so without the bounds of section 3.  Each proof module has one inductive
invariant, `Init => Inv`, `Inv /\ [Next]_vars => Inv'` by one lemma per action or family of
actions, and the properties as consequences.

**`RiskAccountingProofs`**: `TypeCorrect`, `AccountedExactlyOnce`, `MemoryIsBacked`,
`TerminalRowsAreStable`.  `IInv == TypeOK /\ ExactlyOnce /\ MemoryBackedByLedger /\ RoundInv
/\ SnapshotInv`.  `ExactlyOnce` is preserved by itself, because the guard of `applyClaimed`
and the status guard of `failClaimed` make `applied` final.  `MemoryBackedByLedger` needs
`RoundInv` - a round between commit and count is working on a key the ledger holds and whose
count is at most one, so one increment stays within two - and `SnapshotInv` - a snapshot of
the reconciler holds nothing the ledger does not.

**`TransportProofs`, the outbox**: `TypeCorrect`, `CursorSkipsNothing`, `AggregateSkipsNothing`,
`PruningIsSafe`, `CursorsAdvance`.  `IInv == TypeOK /\ IdInv /\ AtInv /\ PositionInv /\
RowsInv /\ PrunedWereConsumed`.  `IdInv` orders ids and transaction ids (on orderly topics
they are drawn together, so a smaller id has a smaller xid); from it a fetch leaves no event
behind that may still commit.  `PositionInv` says every position anybody holds - stored
cursors, the aggregate, what an instance has read, handled and seen, the pruner's floor - has
only settled events behind it.  `RowsInv` describes the fetched rows: everything between the
position and a fetched row is itself fetched, handled or rolled back.

**`TransportProofs`, the link**: `LinkTypeCorrect`, `ConnectionOwned`, `PausesSettle`,
`FactsRecorded`.  `EdgeInv == LinkInv /\ LeaseInv /\ PauseInv /\ SessionInv`.  `LinkInv` ties how
far a hello has come to the state of its socket and of its runtime (`SockOK`) and leaves one
open runtime per edge at most; only a socket closed while its hello was awaited keeps a runtime
(`excuse.orphan`).  `LeaseInv` says that a recovery lease has an entry or is being released.
`PauseInv` is `PauseSettles` with the frames that are still in work.  `SessionInv` has the
remembered searches - a search is remembered on one connection, once, and not recorded yet,
which holds because the edge sends on one open connection at a time, so that it rests on
`LinkInv` - the views in the middle of being stored (`Storing`) and the likes.

**`DelegatedTaskProofs`**: `TypeCorrect`, `CountersMatch`, `OneInTheAir`, `WrittenAhead`,
`BudgetHolds`, `CompletionEarned`, `SettledForGood`, and `ContractKept`: the module implements
`TaskContract`.  `IInv == TypeInv /\ TurnInv /\ AttInv /\ CountersMatchAttempts /\ EarnedInv`.
`TurnInv`: while a tick has the admission turn nobody else plans, starts or withdraws an
attempt.  `AttInv` joins who owns a dispatched attempt (`OwnerInv`), what a plan may rely on
(`PlanInv`), what the unique index on the target key leaves room for (`KeyInv` - this is what
keeps dispatched attempts within `max_attempts`, which no step compares) and `OneInAir`.
`EarnedInv`: whoever is about to write `completed` has seen the goal verified, and verified
attempts do not go away.

**`AccountProofs`, the risk commands**: `ResumedAtMostOnce`, `OutcomeIsHonest`,
`OutcomeIsStable`.  A command
is handled where it was sent, one delivery at a time (`AtOK`); a write that is under way for
it belongs to a controller of that very process while the handler waits (`ByOK`, `ProcOK`), so
the crash that ends the handler ends the write; hence a row of the outcome table is final only
once nothing of its command is left (`RowOK`), and final outcomes stay (`StaysFinal`).

**`AccountProofs`, the Facebook modes**: `WrittenOnce`, `EarnedObligations`, `OneRoundAtATime`,
for every cadence and any number of services, revisions, rows and batches, from `ModesInv ==
AuthOK /\ up \subseteq Services /\ ConsInv /\ RuleInv`.  None of the three is inductive.
`WriteOnce` needs `Sent`: a row may be written only by the one holder of the mark that took it
out of `not_started`, and only while nobody has written it; it holds because no step takes a row
back to `not_started` (`Shrinks`), however often it is claimed again, and because no other step
gives anyone the mark (`Within`).  `ObligationsEarned` is kept by `settleAction`
alone, which pays a new obligation off the counters in the transaction that confirms its last
instalment (`Earned`); the cardinalities are those of the rows before and after one row changed.
`OneRound` needs `SlotsOpen` in the consumption mode and, in the rule mode, that an open batch and
the slot of its revision go together (`Bookings`): a policy change ends both in one transaction.

**`EngagementProofs`**: `PurgeSparesLiveData`, `JobsAndAttempts`, and `ContractKept`: the
inbox implements `ReplyContract`.  The binding needs `PurgeOK`: between the deletion of the
rows and that of the reply configuration the offboard is open and bound and the account is
still bound to its environment, since an open bound offboard turns every report of another
binding into a note - unless another host has flipped the row since (`late`), for any number
of hosts.  So a binding loses its controls never, and its reply configuration to a purge that
was overtaken only (`lost \subseteq {"overtaken"}`).  The inbox needs `AttemptsOK` (the state of a job says which attempts it
has; numbers are used in order and one at a time), `WorkersOK` (what a worker took in is
either there at the version it read or out of reach of its write; versions only grow),
`BlessedOK` (a job past approval carries a text that was agreed to, and so does everything
read from it) and `ChargesOK` (whoever is about to charge holds the claim on a confirmed
attempt alone, and one whose charge is known to be written keeps its claim, so nobody charges
it again).  The refinement then has one lemma per action; a deletion maps to `Forget`, an
erasure of texts to nothing the contract sees.

**`PublishProofs`**: `OnePostPerApproval`, `PostsAreApproved`, `BreakerHolds`.  An approval
becomes pending again only when the edge has certainly not pressed the button (`SpentInv`);
what is dispatched or at the edge has been granted at that version (`GrantInv`, `DraftInv`); a
run that has posted writes the status of its draft or says so in doubt (`DoubtInv`); what is
charged has used up an approval (`ChargeInv`).

**`EngagementProofs`, the session**: `HoldsOwned`, `Resumed`.  `Settled` says of the dispatcher
between two handlers that every pause of its clock has an owner (`Owners`: the comment in hand, the timer or the
answer of the comment that is out, the quota's timer, the patrol, and, as the named exception,
a comment adrift), that a lease, a
patrol and a comment in hand are watched by what ends them (`Watched`) and that a session that
is to resume has a timer (`Resumes`).  A handler is a composition of operators on the state of
the dispatcher, some of which break a part of this that a later one mends; so each operator
has a lemma about `GoodBut(s, X)`, the invariant without the holds named in `X`, and the proof
of a handler follows its composition.

**`CommentAgentProofs`, the lease**: `LeaseIsExclusive`.  `LInv` relates the client's maps to the
two channels.  `LeaseOK` says which message about a lease is on its way in which state of the
client; `Ordered` that every grant on the way back, but that of the lease held now, is followed
by its release, and that the release of one lease comes before the grant of the next.  So when
the client hears a grant it has heard the end of every earlier lease, cancelled acquires
included.

**`CommentAgentProofs`, the comments**: `TypeCorrect`, `NoteCommentedOnce`.  `CInv` adds to `LInv`
that a note not in doubt is counted (`Counted`): a comment command, a receipt or a record still
to be written exists once and belongs to the one task that runs (`TaskOK`), and the ledger holds
what has been posted otherwise.  `Alone`: two tasks that run at once have put every note in
doubt.  The browsing session comes in through the lease and through the receipts of its own comments.

**`CommentAgentProofs`, the groups**: `GroupIsOwned`, `JoinedIsKept`.  The row of a group in which
somebody may be names its account and counts an attempt (`DispatchOK`), and the run that is
taken back before its dispatch does not take it away, because it counted one of its own first
(`JobOK`).  What is written without a status predicate is right because only the run of its
account can close the row it owns.

**`AutomationProcessProofs`**: `LockIsGuarding`, `WritersExclude`, `OwnedFactKept`,
`ReadyIsDurable`, `CommandIsRunOnce`, `DecisionIsConfirmed`.  No invariant of one part needs one
of another, so there are three: `LifeInv` (a stage that admits interactions is backed by the lock or by a loss not heard of
yet; the entry has started exactly the parts its progress says, `EntryOK`; work under way
without the lock is that of a process whose lock connection ended, and after the lock was
given back it is some that was under way then, `WorkOK`),
`ReadsInv` (generations, publications and snapshot requests name values in the row; mirrors are
not newer than rows and checkpoints), `CmdsInv` (whoever runs a command holds its ledger row or
its place in flight alone, `HolderIsAlone`; the runs of a command are those its ledger row or
its receipt stand for, and one for each failure after an effect, `RunsOK`; nobody was told
that a command has run which its run then left, `NoneTold`; a decided version is the one
confirmed).

**Assumptions of the proofs.**  Only the named `ASSUME`s of the modules; TLC evaluates each of
them in the runs above.

## 5. Only model-checked

* Liveness (`AccountingSettles`, `AtLeastOnce`, `EveryTaskEnds`, `HoldsEnd`, `RunsEnd`,
  `FlagIsFreed`): fairness and `ENABLED` are outside the proof system used.
* `AwaitedRoundCoversRow`: false once another process has been restarted and recovers the rows
  in flight; it is a property of the process that serves the caller, and the run keeps the peer
  up (`PeerOnlyPolls`).

## 6. What the models show besides

Each of these is what the code does, seen while modelling it; the properties above are stated
so that they are true of the code, and the exceptions they name (`buried`, `lost`, `adrift`,
`left`, `half`, `outlived`, `excuse`, `doubt`, `crossed`, `forgotten`) are these.

**Where code and a statement of the repository part.**

* `risk/risk-accounting.ts:4-6` says there is one increment path and that a fact cannot be
  counted twice.  After the COMMIT the worker resolves the controller (`:223`); if it is not
  cached, it is created from `risk_counters`, which already holds the row, and `recordFact`
  counts it again.  The counter is one too high until the reconciler repairs it
  (`MemoryBackedByLedger` allows two, `AccountingSettles` says it is repaired).
* `transport/event-outbox.ts:505` says the cursor never passes a position where a smaller id
  may still surface.  The watermark (`:511`) compares transaction ids, drawn at the first
  write, while event ids are drawn at the INSERT: of two producers that write business rows
  first, the one with the larger xid may draw the smaller id.  On topics whose transactions
  begin with the emit the property holds and is proved.
* `delegated-task/executors.ts:138` says a result that is submitted but unknown ends the task
  and is never retried.  The attempt is settled in one transaction and the task ended in
  another (`worker.ts:293`); after a crash in between, the restart queues the task
  (`store.ts:450`) and the next attempt is dispatched.
* `delegated-task/types.ts:64-67` gives terminal statuses no successor.  `requestPause`,
  `resume` and `complete` read the row and then update it by id (`store.ts:745`), so a request
  read before the end of a task reopens it; it ends again at its deadline (`EveryTaskEnds`).
* `delegated-task/worker.ts:496` expires the overdue tasks among what `list({limit: 200})`
  returns, the newest 200 rows of every status (`store.ts:407-428`).  An overdue task with 200
  newer rows is never ended by its deadline: `EveryTaskEnds` excepts it (`buried`).
* `interactions/interaction-inbox-service.ts:102-107` gives the claim of a charge back only when
  nothing was written.  `risk/risk-controller.ts:301-309` counts in memory before it awaits the
  append; when that throws, the claim is given back (`:118-120`) and the result, delivered again,
  is counted a second time.  `ReplyContract` allows a further charge until one is known to be
  written (`Charge`).
* `interactions/interaction-store.ts:1949` names two hosts that purge on hourly timers; the
  first step skips locked rows (1899), the next two read nothing of what the first has seen.  A
  purge whose second step comes after the other host's third deletes the reply configuration
  by account (1938), that of a new binding too.  `LiveDataKept` excepts exactly this
  (`overtaken`).
* `orchestrator/role-dispatcher.ts` says at 4504, 4526 and 4969 that the clock must not stay
  frozen when a comment comes to nothing.  The outcome timer is set only for a comment a rule
  asked for (2432): an ordinary approved comment whose receipt never comes leaves the clock
  paused until the session ends by something else.  `HoldsHaveOwners` excepts it (`adrift`).
* `risk/writer-lock.ts:14-15` says no risk state is written after the loss of the lock.
  `writerAuthorityLost` is asked by the interaction admission alone
  (`automation-risk-foundation.ts:321-322`): the sweeper, the consumers and `applySignal` never
  ask, and a graceful stop clears timers (`automation-main.ts:1953-1965`) and disposes (1966-1980)
  without waiting for a consumer's round (`transport/event-outbox.ts:372`), a sweep
  (`risk/risk-recovery-sweeper.ts:164-201`) or a task (`delegated-task/worker.ts:114-117`).
  `LockGuardsWork` says how far the lock goes.
* `delegated-task/operator-command-receiver.ts` answers `rejected` for a command that came to
  nothing.  A slash command is confirmed inside its run, after its row is there
  (`service.ts:204-208`); a refusal by then (`:213-230`) is answered `rejected` although the task
  exists and an operator may still confirm it (`CommandRunsOnce`: `left`).
* The receivers with receipts in memory answer a command that comes again without executing it
  again, once it was applied (`comment-agent/facebook-scope-command-receiver.ts`).  An import without
  scopes writes row by row without a transaction (`comment-agent/facebook-group-store.ts:530-575`),
  and a COMMIT whose answer is lost (592, 755) leaves its effect: the command sent again is
  executed again (`half`).
* `automation-publish-dispatch.ts:804-807` says a rejection gives the media back.  The rejection
  of a candidate sets the draft first (`automation-main.ts:1567`), so that
  `notifyPublishRejected` (1568) finds no waiting draft and the media stay reserved.
* `comment-agent/comment-scheduler.ts:907-916` checks the single-flight flag, but awaits at
  926 and 936 sit before it is set (950, 965; likewise 688 before 756, 798, 819): two tasks
  of one account may run.  The comment at 1007 says the note is marked before the submit;
  the ledger is written after it (1409).
* `publish-agent/publish-dispatcher.ts:200` says a redispatch budget of 1 is used up by the first
  failure; the comparison `attempt > max` (493) redispatches once more.  The environment
  variable named for the budget (195) is read nowhere.
* `automation-service-entry.ts:63` asks for a start that is safe to repeat; a start retried
  after a failure opens a second `WebSocketServer` on the same port (`comm/ws-server.ts:263`).
* `orchestrator/facebook-consumption-mode-coordinator.ts:427-433` recovers active actions at
  a restart or a tick by its comment; it is called only at startup (`automation-main.ts:1951`).

**Hazards that follow from the code without contradicting it.**

* *Delegated tasks*: the second attempt of a task with a fixed target key ends the process at
  every start until the deadline (23505 is not the message the worker waits for); an approval
  whose lease was lost may settle the attempt another tick is about to dispatch, which then
  runs uncounted (`attempt_count` is a lower bound).
* *Interactions*: a `not_found` may overtake the command it asks about
  (`interaction-store.ts:1698`, `send-orchestrator.ts:266-288`), and the gate is read before
  `createAttempt` (`send-orchestrator.ts:232-247`), so a switch turned off in between is
  not seen; `retryPending` and `purgeDue` have no caller (`offboarding-service.ts:37,54`).
* *Risk state*: a write that read the owner before a handshake moved the account overwrites the
  new owner's row (`pg-risk-store.ts:365`); the model does it, and no property forbids it: the
  outcome of the command is true all the same.
* *Facebook modes*: the dispatcher supersedes in a call of its own before the view
  (`role-dispatcher.ts:1352-1369`), the model in the transaction of the view, which does it by the
  same routine; a view under a revision that a late supersession has closed commits and throws
  (`facebook-consumption-mode-runtime-store.ts:582-586`), which is left out; a gated or superseded action is settled without an owner or version check
  (`facebook-consumption-mode-runtime-store.ts:1220-1231`); a deferred action confirmed later
  earns nothing (1351; the slot is cleared at 614-626); `supersedeAccount` keeps a revision
  read earlier (535-549); the rule mode sends its like before the row says dispatched
  (`role-dispatcher.ts:1792-1807`).
* *Browsing session* (`orchestrator/role-dispatcher.ts`): a pending comment may be overwritten
  (2379); a preempted ordinary open_note clears the mandatory timer (4975-4981); a restart keeps
  the redrive counter (3528, 2665); the idle check is not gated by a pause (`session-monitor-role`
  211-221 against 3719); an automatic resume refused for a cap or for risk arms no timer (3920);
  a patrol begun while an
  older acquire is pending gets no lease (2046).
* *Group joining*: answers are matched by action name alone
  (`facebook-group-join-edge-steps.ts:53-56`); `reclaimStaleAssignments` deletes rows in flight
  (`facebook-group-store.ts:1628`); outcome updates carry no status predicate (1334, 1420);
  only a posted comment resets `left_confirmations` (1566), not a visit that reached the group.
* *Comment tasks*: a comment of the browsing session is in no ledger
  (`automation-interaction-ledger.ts:176-182` keeps likes and collections,
  `risk/interaction-guard.ts:5-6` only what is in flight), so a task may comment on the same note;
  no look at the ledger after the approval on the Facebook path (1293-1400); a
  step that times out although the edge posted is not recorded (`edge-steps.ts:365-370`); a
  failing write of the ledger is swallowed (1409); receipts are matched by action
  (`edge-steps.ts:348`); an approval id made of the time may collide (1577).
* *Publishing*: the key of a pending command survives into late answers
  (`command-sequencer.ts:645`); an approval may stay in `dispatching` (890, 375); failing status
  writes are swallowed (925-929); the count of pending drafts is read ahead
  (`publish-scheduler.ts:623-626`).
* *Edge communication*: a connection replaced while its hello is awaited registers a runtime after
  its close (`connection-runtime.ts:231`); `captcha.cleared` may overtake `captcha.detected`
  (`captcha-coordinator.ts:135` against 229, 242); a view may be recorded twice when its frames
  overlap (`handler.ts:518-545`), and a like without a note id is credited to the current note
  (778-781).
* *Processes*: a graceful stop raises an alert for a lost lock (`writer-lock.ts:241, 271-284`);
  between the loss of the lock and its notice two processes may let interactions pass
  (`WritersExclude` is about those that have heard); two processes of one target flip the
  generation of a fact between their values; a text command whose process died stays in flight
  (`operator-command-receiver.ts:215-219`); the paired adapter drops `accountScopeMode`
  (`paired-command-http.ts:123-133`); the roster projection of one target refuses an older cursor
  of another.

## 7. Not modelled

Prompt building, page interpretation, DDL, HTTP encoding and authentication, logging, alert texts
and health counters have no protocol of their own.  Pacing and session budgets are arithmetic on
one thread with unit tests; they appear as choices of the modules that ask them.  Cookie and
content ledgers, planner, hot leads and the platform adapters are single-statement stores.
Standby decisions, snapshots of the page and usage reports are left out of `EdgeLink`; wraparound
of 32-bit transaction ids needs 2^32 transactions.  Subscriptions of a consumer are constant, so a
topic added to an existing consumer is not covered.

## 8. What is left

An abstract specification for publishing (an approval worth one post), of which `PostedOnce` and
`PostedAsApproved` would be consequences.
