----------------------------- MODULE Interactions -----------------------------
(***************************************************************************)
(* The reply jobs of the interaction inbox, composed with the binding and  *)
(* the offboarding of the account: a message becomes a job, a draft is     *)
(* generated, read, edited and approved, sent through the edge, its result *)
(* applied and charged to the risk budget once.                            *)
(*                                                                         *)
(* Sources: src/src/interactions/interaction-store.ts,                     *)
(* reply-workflow.ts, send-orchestrator.ts, interaction-inbox-service.ts,  *)
(* src/src/automation-interaction.ts.                                      *)
(*                                                                         *)
(* Abstractions.  A reply text is a member of Texts; configuration, rules, *)
(* the models' verdicts, rate limits and the risk controller decide an     *)
(* operation's outcome by choice.  The socket to the edge keeps its order  *)
(* and loses everything when it breaks.                                    *)
(***************************************************************************)
EXTENDS InteractionOffboard, Sequences

CONSTANTS
    Jobs, Texts,
    Workers,        \* operations running at once: requests, sweeps, handlers
    MaxAttempts,    \* bound: send attempts of a job
    MaxOps          \* bound: operations started

ASSUME InboxAssumption == None \notin Jobs \cup Texts /\ MaxAttempts \in Nat /\ MaxOps \in Nat

VARIABLES
    job,            \* interaction_reply_jobs
    att,            \* interaction_send_attempts
    work,           \* the operation each worker is in the middle of
    ops,
    wire,           \* external: commands on their way to the edge
    seen,           \* external: what the edge has made of each attempt
    charged,        \* times the risk budget was charged for an attempt, in memory
    written,        \* history: the attempts whose charge is known to be in the ledger
    blessed         \* history: the texts a person approved, or auto_safe let through

inboxVars == <<job, att, work, ops, wire, seen, charged, written, blessed>>
vars == <<offVars, inboxVars>>

Numbers == 1..MaxAttempts
NoJob == [state |-> "none", env |-> None, ver |-> 0, text |-> None]
NoAttempt == [status |-> "none", text |-> None, claimed |-> FALSE]
Idle == [op |-> "idle", job |-> None, env |-> None, ver |-> 0, text |-> None, n |-> 0]

States == {"none", "new", "classifying", "draft_ready", "approval_required", "approved", "queued",
           "sending", "sent", "failed", "ambiguous", "closed", "gone"}
Ops == {"idle", "ingest", "generate", "look", "edit", "queue", "dispatch", "push", "mark", "defer", "unsure",
        "confirmed", "failed", "claim", "record"}
Versions == 0..(3 * (MaxOps + 1))

TypeOK ==
    /\ OffboardTypeOK
    /\ job \in [Jobs -> [state : States, env : Envs \cup {None}, ver : Versions, text : Texts \cup {None}]]
    /\ att \in [Jobs -> [Numbers -> [status : {"none", "created", "dispatched", "confirmed", "failed", "ambiguous"},
                                     text : Texts \cup {None}, claimed : BOOLEAN]]]
    /\ work \in [Workers -> [op : Ops, job : Jobs \cup {None}, env : Envs \cup {None}, ver : Versions,
                             text : Texts \cup {None}, n : 0..MaxAttempts]]
    /\ wire \in Seq([kind : {"send", "reconcile"}, job : Jobs, n : Numbers])
    /\ seen \in [Jobs -> [Numbers -> {"none", "confirmed", "failed", "ambiguous", "not_found"}]]
    /\ charged \in [Jobs -> [Numbers -> Nat]] /\ written \subseteq Jobs \X Numbers /\ blessed \in [Jobs -> SUBSET Texts]

\* The inbox between two operations: messages not read yet, drafts waiting for a person, a reply
\* approved by one.
InboxInit ==
    /\ job \in [Jobs -> {NoJob} \cup [state : {"approval_required", "approved"}, env : {auth.env}, ver : {0}, text : Texts]]
    /\ blessed = [j \in Jobs |-> IF job[j].state = "approved" THEN {job[j].text} ELSE {}]
    /\ att = [j \in Jobs |-> [n \in Numbers |-> NoAttempt]] /\ work = [w \in Workers |-> Idle]
    /\ ops = 0 /\ wire = <<>> /\ seen = [j \in Jobs |-> [n \in Numbers |-> "none"]]
    /\ charged = [j \in Jobs |-> [n \in Numbers |-> 0]] /\ written = {}

Init == OffboardInit /\ InboxInit

------------------------------------------------------------------------------
(* Conditional writes.                                                     *)

\* A mutant: the version is not in the predicate.
CanTransitionAnyVersion(j, ver, from) == job[j].state \in from

\* transitionJob: one UPDATE over version and state.
CanTransition(j, ver, from) == job[j].ver = ver /\ job[j].state \in from
Moved(j, to, text) == [job EXCEPT ![j].state = to, ![j].ver = @ + 1, ![j].text = text]

AttemptsIn(j, statuses) == {n \in Numbers : att[j][n].status \in statuses}
Unfinished == {"created", "dispatched"}
Active == Unfinished \cup {"ambiguous"}

Starts(w) == work[w] = Idle /\ ops < MaxOps /\ ops' = ops + 1
Doing(w, op) == work[w].op = op
Goes(w, op) == work' = [work EXCEPT ![w].op = op]
Ends(w) == work' = [work EXCEPT ![w] = Idle]
Step == UNCHANGED <<offVars, ops>>

------------------------------------------------------------------------------
(* Drafts.                                                                 *)

\* ensureReadable: the controls and the login are read before the batch's transaction.
ensureReadable(w, j) ==
    /\ Starts(w) /\ auth.env # None /\ auth.active /\ controls.env = auth.env
    /\ work' = [work EXCEPT ![w] = [Idle EXCEPT !.op = "ingest", !.job = j, !.env = auth.env]]
    /\ UNCHANGED <<offVars, job, att, wire, seen, charged, written, blessed>>

\* A batch, and a message, are taken in once; rows deleted since do not come back as the same job.
NotSeenBefore(j) == job[j].state = "none"
\* The binding the transaction reads: the environment's, active or not.
assertAuthStateBinding(e) == auth.env = e
ingestBatch(w) ==
    LET j == work[w].job
    IN  /\ Doing(w, "ingest") /\ Ends(w)
        /\ job' = IF assertAuthStateBinding(work[w].env) /\ NotSeenBefore(j)
                  THEN [job EXCEPT ![j] = [NoJob EXCEPT !.state = "new", !.env = work[w].env]]
                  ELSE job
        /\ Step /\ UNCHANGED <<att, wire, seen, charged, written, blessed>>

\* generate, up to the models: the sweep takes new jobs, a person any of the three.
generate(w, j) ==
    /\ Starts(w) /\ job[j].state \in {"new", "approval_required", "failed"}
    /\ job' = Moved(j, "classifying", job[j].text)
    /\ work' = [work EXCEPT ![w] = [Idle EXCEPT !.op = "generate", !.job = j, !.ver = job[j].ver + 1]]
    /\ UNCHANGED <<offVars, att, wire, seen, charged, written, blessed>>

\* gate: what of it is state of this model.
GateOpen(j) ==
    /\ controls.env = job[j].env /\ ~controls.paused
    /\ auth.env = job[j].env /\ auth.active
gate(j) == job[j].text # None /\ GateOpen(j)

\* The verdict comes back: the job may have moved on meanwhile.
StillClassifying(w) == Doing(w, "generate") /\ CanTransition(work[w].job, work[w].ver, {"classifying"})
GenerateTooLate(w) ==
    /\ Doing(w, "generate") /\ ~StillClassifying(w) /\ Ends(w)
    /\ Step /\ UNCHANGED <<job, att, wire, seen, charged, written, blessed>>
\* A draft for a person, or only for show.
buildPreview(w) ==
    /\ StillClassifying(w) /\ Ends(w)
    /\ \E to \in {"draft_ready", "approval_required"}, t \in Texts : job' = Moved(work[w].job, to, t)
    /\ Step /\ UNCHANGED <<att, wire, seen, charged, written, blessed>>
failGeneration(w) ==
    /\ StillClassifying(w) /\ Ends(w) /\ job' = Moved(work[w].job, "failed", None)
    /\ Step /\ UNCHANGED <<att, wire, seen, charged, written, blessed>>
\* One that auto_safe lets through is queued and dispatched at once.
canAutoQueueDraft(w) ==
    LET j == work[w].job
    IN  /\ StillClassifying(w) /\ GateOpen(j)
        /\ \E t \in Texts : job' = Moved(j, "queued", t) /\ blessed' = [blessed EXCEPT ![j] = @ \cup {t}]
        /\ work' = [work EXCEPT ![w].op = "dispatch", ![w].ver = @ + 1]
        /\ Step /\ UNCHANGED <<att, wire, seen, charged, written>>

\* A person reads the draft: its version comes back with what they decide.
Look(w, j) ==
    /\ Starts(w) /\ job[j].state = "approval_required" /\ job[j].text # None
    /\ work' = [work EXCEPT ![w] = [Idle EXCEPT !.op = "look", !.job = j, !.ver = job[j].ver,
                                                !.text = job[j].text]]
    /\ UNCHANGED <<offVars, job, att, wire, seen, charged, written, blessed>>

approve(w) ==
    LET j == work[w].job
    IN  /\ Doing(w, "look") /\ Ends(w)
        /\ IF CanTransition(j, work[w].ver, {"approval_required"}) /\ job[j].text # None
           THEN /\ job' = Moved(j, "approved", job[j].text)
                /\ blessed' = [blessed EXCEPT ![j] = @ \cup {work[w].text}]
           ELSE UNCHANGED <<job, blessed>>
        /\ Step /\ UNCHANGED <<att, wire, seen, charged, written>>

\* edit: the reviewer model is asked before the write; the draft waits for approval again.
edit(w) ==
    LET j == work[w].job
    IN  /\ Doing(w, "look") /\ Ends(w)
        /\ \E t \in Texts :
              job' = IF CanTransition(j, work[w].ver, {"approval_required"})
                     THEN Moved(j, "approval_required", t) ELSE job
        /\ Step /\ UNCHANGED <<att, wire, seen, charged, written, blessed>>

\* transitionMessageJob: ignored or escalated.
transitionMessageJob(w, j) ==
    /\ Starts(w)
    /\ job[j].state \in {"new", "classifying", "draft_ready", "approval_required", "approved", "failed"}
    /\ job' = Moved(j, "closed", job[j].text)
    /\ UNCHANGED <<offVars, att, work, wire, seen, charged, written, blessed>>

recoverStalledClassifyingJobs(j) ==
    /\ ops < MaxOps /\ ops' = ops + 1
    /\ job[j].state = "classifying" /\ job' = Moved(j, "new", job[j].text)
    /\ UNCHANGED <<offVars, att, work, wire, seen, charged, written, blessed>>

------------------------------------------------------------------------------
(* Sending.                                                                *)

\* queueApproved: the gate, then the write, at the version the person sent.
Queue(w, j) ==
    /\ Starts(w) /\ job[j].state = "approved" /\ gate(j)
    /\ work' = [work EXCEPT ![w] = [Idle EXCEPT !.op = "queue", !.job = j, !.ver = job[j].ver]]
    /\ UNCHANGED <<offVars, job, att, wire, seen, charged, written, blessed>>
queueApproved(w) ==
    LET j == work[w].job
    IN  /\ Doing(w, "queue") /\ Ends(w)
        /\ job' = IF CanTransition(j, work[w].ver, {"approved"}) THEN Moved(j, "queued", job[j].text) ELSE job
        /\ Step /\ UNCHANGED <<att, wire, seen, charged, written, blessed>>

\* dispatchQueued, from the sweep: the references it read first, and the gate one by one.
Dispatch(w, j) ==
    /\ Starts(w) /\ job[j].state = "queued" /\ AttemptsIn(j, Active) = {}
    /\ work' = [work EXCEPT ![w] = [Idle EXCEPT !.op = "dispatch", !.job = j, !.ver = job[j].ver]]
    /\ UNCHANGED <<offVars, job, att, wire, seen, charged, written, blessed>>
dispatchQueued(w) ==
    LET j == work[w].job
    IN  /\ Doing(w, "dispatch") /\ work[w].text = None
        /\ \/ /\ gate(j) /\ job[j].state = "queued"
              /\ work' = [work EXCEPT ![w].text = job[j].text]
           \/ Ends(w)
        /\ Step /\ UNCHANGED <<job, att, wire, seen, charged, written, blessed>>

\* createAttempt: under the account's lock, one unfinished attempt per account.
createAttempt(w) ==
    LET j == work[w].job
        n == Cardinality(Numbers \ AttemptsIn(j, {"none"})) + 1
    IN  /\ Doing(w, "dispatch") /\ work[w].text # None
        /\ IF /\ CanTransition(j, work[w].ver, {"queued"}) /\ n \in Numbers
              /\ \A k \in Jobs : AttemptsIn(k, Unfinished) = {}
              /\ AttemptsIn(j, Active) = {}
           THEN /\ att' = [att EXCEPT ![j][n] = [NoAttempt EXCEPT !.status = "created", !.text = work[w].text]]
                /\ job' = Moved(j, "sending", job[j].text)
                /\ work' = [work EXCEPT ![w].op = "push", ![w].n = n]
           ELSE Ends(w) /\ UNCHANGED <<job, att>>
        /\ Step /\ UNCHANGED <<wire, seen, charged, written, blessed>>

\* pushToEdges: delivered to one socket, to none, or an exception that says neither.
push(w) ==
    LET send == Append(wire, [kind |-> "send", job |-> work[w].job, n |-> work[w].n])
    IN  /\ Doing(w, "push")
        /\ \/ wire' = send /\ Goes(w, "mark")
           \/ wire' = wire /\ Goes(w, "defer")
           \/ wire' \in {wire, send} /\ Goes(w, "unsure")
        /\ Step /\ UNCHANGED <<job, att, seen, charged, written, blessed>>

\* A mutant: a result that came first is overwritten.
SettleAnyway(j, n, status, to) ==
    /\ att' = [att EXCEPT ![j][n].status = status]
    /\ job' = IF to # "sending" /\ job[j].state = "sending" THEN Moved(j, to, job[j].text) ELSE job

\* The attempt moves if it is still as created, and the job with it if it is still sending.
Settle(j, n, status, to) ==
    IF att[j][n].status = "created"
    THEN /\ att' = [att EXCEPT ![j][n].status = status]
         /\ job' = IF to # "sending" /\ job[j].state = "sending" THEN Moved(j, to, job[j].text) ELSE job
    ELSE UNCHANGED <<att, job>>

markAttemptDispatched(w) ==
    /\ Doing(w, "mark") /\ Ends(w) /\ Settle(work[w].job, work[w].n, "dispatched", "sending")
    /\ Step /\ UNCHANGED <<wire, seen, charged, written, blessed>>
\* Nothing left the process: the job is queued again.
markDispatchDeferred(w) ==
    /\ Doing(w, "defer") /\ Ends(w) /\ Settle(work[w].job, work[w].n, "failed", "queued")
    /\ Step /\ UNCHANGED <<wire, seen, charged, written, blessed>>
markDispatchAmbiguous(w) ==
    /\ Doing(w, "unsure") /\ Ends(w) /\ Settle(work[w].job, work[w].n, "ambiguous", "ambiguous")
    /\ Step /\ UNCHANGED <<wire, seen, charged, written, blessed>>

------------------------------------------------------------------------------
(* The edge.                                                               *)

\* It takes the next command: a reply is posted once per attempt, a query is answered from its journal.
EdgeTakes ==
    /\ wire # <<>> /\ wire' = Tail(wire)
    /\ LET c == Head(wire)
       IN  seen' = IF seen[c.job][c.n] \in {"none", "not_found"}
                   THEN IF c.kind = "send"
                        THEN [seen EXCEPT ![c.job][c.n] = "confirmed"]
                        ELSE [seen EXCEPT ![c.job][c.n] = "not_found"]
                   ELSE seen
    /\ UNCHANGED <<offVars, job, att, work, ops, charged, written, blessed>>
EdgeFails ==
    /\ wire # <<>> /\ wire' = Tail(wire) /\ Head(wire).kind = "send"
    /\ LET c == Head(wire)
       IN  /\ seen[c.job][c.n] \in {"none", "not_found"}
           /\ \E r \in {"failed", "ambiguous"} : seen' = [seen EXCEPT ![c.job][c.n] = r]
    /\ UNCHANGED <<offVars, job, att, work, ops, charged, written, blessed>>
\* What it could not tell, it may verify later.
EdgeVerifies(j, n) ==
    /\ seen[j][n] = "ambiguous" /\ \E r \in {"confirmed", "failed"} : seen' = [seen EXCEPT ![j][n] = r]
    /\ UNCHANGED <<offVars, job, att, work, ops, wire, charged, written, blessed>>
Disconnect ==
    /\ ops < MaxOps /\ ops' = ops + 1 /\ wire # <<>> /\ wire' = <<>>
    /\ UNCHANGED <<offVars, job, att, work, seen, charged, written, blessed>>

\* The attempts that may still be recovered.
recoverableAttempts == {c \in Jobs \X Numbers : att[c[1]][c[2]].status \in Active /\ job[c[1]].text # None}

\* reconcileOnWelcome, with no offboard waiting.
reconcileRecoverable ==
    /\ ops < MaxOps /\ ops' = ops + 1 /\ pendingOffboards = {}
    /\ \E c \in recoverableAttempts :
          wire' = Append(wire, [kind |-> "reconcile", job |-> c[1], n |-> c[2]])
    /\ UNCHANGED <<offVars, job, att, work, seen, charged, written, blessed>>

------------------------------------------------------------------------------
(* Results.                                                                *)

\* The results an edge may report; a frame with another one is dropped.
Results == {"confirmed", "failed", "ambiguous"}

ResultFits(j, n, r) ==
    /\ att[j][n].status \in Unfinished \/ (att[j][n].status = "ambiguous" /\ r # "ambiguous")
    /\ job[j].state \in {"sending", "ambiguous"}

\* applyReplyResult: delivered once or many times; onReplyResult goes on after it.
applyReplyResult(w, j, n) ==
    LET r == seen[j][n]
    IN  /\ Starts(w) /\ r \in Results /\ job[j].state # "gone"
        /\ \/ /\ ResultFits(j, n, r)
              /\ att' = [att EXCEPT ![j][n].status = r]
              /\ job' = Moved(j, IF r = "confirmed" THEN "sent" ELSE r, job[j].text)
              /\ work' = IF r = "ambiguous" THEN work
                         ELSE [work EXCEPT ![w] = [Idle EXCEPT !.op = r, !.job = j, !.n = n]]
           \/ /\ att[j][n].status = "confirmed" /\ r = "confirmed" /\ UNCHANGED <<att, job>>
              /\ work' = [work EXCEPT ![w] = [Idle EXCEPT !.op = r, !.job = j, !.n = n]]
    /\ UNCHANGED <<offVars, wire, seen, charged, written, blessed>>

\* The breaker, then the claim on the risk record of a confirmed reply.
Note(w) ==
    /\ work[w].op \in {"confirmed", "failed"}
    /\ controls' = noteSendOutcome(work[w].op = "confirmed")
    /\ IF work[w].op = "confirmed" THEN Goes(w, "claim") ELSE Ends(w)
    /\ UNCHANGED <<auth, replyConfig, offboards, held, reconciler, purge, receipts, cleared, changes, lost>>
    /\ UNCHANGED <<job, att, ops, wire, seen, charged, written, blessed>>

claimRiskRecord(w) ==
    LET j == work[w].job  n == work[w].n
    IN  /\ Doing(w, "claim")
        /\ IF att[j][n].status = "confirmed" /\ ~att[j][n].claimed
           THEN att' = [att EXCEPT ![j][n].claimed = TRUE] /\ Goes(w, "record")
           ELSE UNCHANGED att /\ Ends(w)
        /\ Step /\ UNCHANGED <<job, wire, seen, charged, written, blessed>>

\* The claim is released, unless that fails too.
releaseRiskRecordClaim(j, n) ==
    att' \in {att, IF att[j][n].status = "confirmed" THEN [att EXCEPT ![j][n].claimed = FALSE] ELSE att}

\* record counts in memory, then appends to the ledger.  The append answers and the claim stays; or
\* it throws, with or without the row written, and the claim is released although memory has
\* counted; or there was no controller and nothing was counted.
RecordRisk(w) ==
    LET j == work[w].job  n == work[w].n
    IN  /\ Doing(w, "record") /\ Ends(w)
        /\ \/ charged' = [charged EXCEPT ![j][n] = @ + 1] /\ written' = written \cup {<<j, n>>} /\ UNCHANGED att
           \/ charged' = [charged EXCEPT ![j][n] = @ + 1] /\ UNCHANGED written /\ releaseRiskRecordClaim(j, n)
           \/ UNCHANGED <<charged, written>> /\ releaseRiskRecordClaim(j, n)
        /\ Step /\ UNCHANGED <<job, wire, seen, blessed>>

\* applyReplyReconcileResult: not found and not yet dispatched is a failure, anything else unsure.
applyReplyReconcileResult(j, n) ==
    /\ ops < MaxOps /\ ops' = ops + 1
    /\ seen[j][n] = "not_found" /\ att[j][n].status \in Active
    /\ LET status == IF att[j][n].status = "created" THEN "failed" ELSE "ambiguous"
       IN  /\ att' = [att EXCEPT ![j][n].status = status]
           /\ job' = IF job[j].state = "sending" THEN Moved(j, status, job[j].text) ELSE job
    /\ UNCHANGED <<offVars, work, wire, seen, charged, written, blessed>>

------------------------------------------------------------------------------
(* What takes content or rows away, and crashes.                           *)

\* Rows deleted: nothing later finds the job.
Gone(js) ==
    /\ job' = [j \in Jobs |-> IF j \in js THEN [NoJob EXCEPT !.state = "gone"] ELSE job[j]]
    /\ att' = [j \in Jobs |-> IF j \in js THEN [n \in Numbers |-> NoAttempt] ELSE att[j]]

resetTestData ==
    /\ ops < MaxOps /\ ops' = ops + 1 /\ controls.env # None
    /\ Gone({j \in Jobs : job[j].env = controls.env})
    /\ UNCHANGED <<offVars, work, wire, seen, charged, written, blessed>>

\* purgeDueOffboards, step A: the jobs of the environment go, of a scoped offboard all of them.
PurgeJobs(h, e) ==
    /\ PurgeRows(h, e) /\ Gone({j \in Jobs : job[j].env = e})
    /\ UNCHANGED <<work, ops, wire, seen, charged, written, blessed>>

\* purgeExpiredContent and the cleanup the edge confirmed: the text goes, the version stays.
Erased(js) == job' = [j \in Jobs |-> IF j \in js THEN [job[j] EXCEPT !.text = None] ELSE job[j]]
purgeExpiredContent ==
    /\ ops < MaxOps /\ ops' = ops + 1 /\ \E j \in Jobs : job[j].text # None /\ Erased({j})
    /\ UNCHANGED <<offVars, att, work, wire, seen, charged, written, blessed>>
ContentErased(e) ==
    /\ applyOffboardCleared(e) /\ Erased({j \in Jobs : job[j].env = e})
    /\ UNCHANGED <<att, work, ops, wire, seen, charged, written, blessed>>

\* The process dies in the middle of everything.
Crash ==
    /\ ops < MaxOps /\ ops' = ops + 1 /\ \E w \in Workers : work[w] # Idle
    /\ work' = [w \in Workers |-> Idle] /\ wire' = <<>> /\ reconciler' = NoClaim
    /\ receipts' = {} /\ \E h \in Hosts : purge' = [purge EXCEPT ![h] = NoPurge]
    /\ UNCHANGED <<auth, controls, replyConfig, offboards, held, cleared, changes, lost>>
    /\ UNCHANGED <<job, att, seen, charged, written, blessed>>

Next ==
    \/ OffboardStep /\ UNCHANGED inboxVars
    \/ EdgeTakes \/ EdgeFails \/ Disconnect \/ reconcileRecoverable \/ resetTestData
    \/ purgeExpiredContent \/ Crash
    \/ \E e \in Envs : ContentErased(e) \/ \E h \in Hosts : PurgeJobs(h, e)
    \/ \E j \in Jobs : recoverStalledClassifyingJobs(j)
    \/ \E j \in Jobs, n \in Numbers : EdgeVerifies(j, n) \/ applyReplyReconcileResult(j, n)
    \/ \E w \in Workers :
          \/ ingestBatch(w) \/ GenerateTooLate(w) \/ buildPreview(w) \/ failGeneration(w) \/ canAutoQueueDraft(w)
          \/ approve(w) \/ edit(w) \/ queueApproved(w) \/ dispatchQueued(w)
          \/ createAttempt(w) \/ push(w) \/ markAttemptDispatched(w) \/ markDispatchDeferred(w)
          \/ markDispatchAmbiguous(w) \/ Note(w) \/ claimRiskRecord(w) \/ RecordRisk(w)
          \/ \E j \in Jobs :
                \/ ensureReadable(w, j) \/ generate(w, j) \/ Look(w, j) \/ transitionMessageJob(w, j)
                \/ Queue(w, j) \/ Dispatch(w, j)
                \/ \E n \in Numbers : applyReplyResult(w, j, n)

Spec == Init /\ [][Next]_vars

------------------------------------------------------------------------------
\* A job and its attempts agree, whatever was delivered late, twice or never: a job that is
\* sending has exactly one attempt under way, an ambiguous one keeps the attempt nobody could
\* settle, a sent one a confirmed attempt, and nothing else has one that could still be sent; an
\* account has one attempt under way at most (createAttempt, the mark operations, the results).
JobAttemptAgree ==
    /\ \A j \in Jobs :
          /\ (job[j].state = "sending") = (Cardinality(AttemptsIn(j, Active)) = 1 /\ AttemptsIn(j, Unfinished) # {})
          /\ (job[j].state = "ambiguous") = (AttemptsIn(j, {"ambiguous"}) # {})
          /\ (job[j].state = "sent") = (AttemptsIn(j, {"confirmed"}) # {})
    /\ Cardinality({j \in Jobs : AttemptsIn(j, Unfinished) # {}}) <= 1

\* Seen from outside, the inbox is the contract: what is tried is what a person approved when they
\* saw it or what auto_safe let through, no reply is tried again while an earlier try is open or
\* unsure, none is reported as sent that was not, and the budget is charged for what was posted
\* only, and never again once a charge is known to be in the ledger, whichever handlers overlap and
\* whatever is delivered late, twice or never (transitionJob, createAttempt, applyReplyResult,
\* claimRiskRecord, releaseRiskRecordClaim).
TryOf(a) ==
    [st |-> CASE a.status \in Unfinished -> "open" [] a.status = "ambiguous" -> "unsure" [] OTHER -> a.status,
     text |-> a.text]
Contract == INSTANCE ReplyContract WITH
    Numbers <- Numbers, agreed <- blessed,
    tries <- [j \in Jobs |-> [n \in Numbers |-> TryOf(att[j][n])]],
    posted <- {c \in Jobs \X Numbers : seen[c[1]][c[2]] = "confirmed"},
    charges <- charged, settled <- written, forgotten <- {j \in Jobs : job[j].state = "gone"}
ImplementsContract == Contract!Spec
==============================================================================
