---------------------------- MODULE BrowseSession ----------------------------
(***************************************************************************)
(* One connection's role dispatcher: the life of a browsing session (start *)
(* gate, rest and wake timers, view-quota sleep, idle watchdog, recovery   *)
(* by redrive), the comment subline that holds the page while a comment is *)
(* written and approved, and the notification patrol that suspends         *)
(* browsing under an edge task lease.                                      *)
(*                                                                         *)
(* Sources: src/src/orchestrator/role-dispatcher.ts and the roles under    *)
(* src/src/agents/ that its private event bus connects.  The bus is        *)
(* synchronous, so a handler and everything it emits is one step; what a   *)
(* role awaits (a model, an approval, a lease, a notification) is not.     *)
(*                                                                         *)
(* Abstractions.  Risk, quota, configuration, active week and the models   *)
(* decide by choice.  The edge runs its commands in order and may fall     *)
(* silent over one.  `disp` is the dispatcher with the roles' fields.  A   *)
(* dispatcher has one account: it is set when its connection is made.      *)
(***************************************************************************)
EXTENDS Naturals, Sequences, FiniteSets

CONSTANTS
    Notes, Mandatory,   \* notes, and those an auto-approved rule says must be commented on
    Nobody,
    MaxQueue,           \* bound: commands on the edge
    MaxRedrives,        \* FAILURE_REDRIVE_MAX_ATTEMPTS
    MaxStalls,          \* EXCURSION_STALL_MAX_RECOVERIES
    MaxTries,           \* DEFAULT_MAX_ATTEMPTS_PER_CATEGORY
    MaxStarts           \* bound: what the operator and the environment start

ASSUME SessionAssumption ==
    /\ Mandatory \subseteq Notes /\ Nobody \notin Notes
    /\ {MaxQueue, MaxRedrives, MaxStalls, MaxTries, MaxStarts} \subseteq Nat

VARIABLES
    disp,       \* the dispatcher of the connection and its commands the edge has not answered
    pipe,       \* how far the roles are with a comment on each note
    pushing,    \* the notifier awaits the delivery of a notice
    starts

sessionVars == <<disp, pipe, pushing, starts>>

Waits == {"rest", "wake", "gate"}                  \* timers that can start a session
Timers == Waits \cup {"view", "subline", "stall"}
Verdicts == {"ok", "recoverable", "structural"}
Stages == {"none", "appraise", "compose", "clear", "approve", "over"}
Commands == [a : {"scroll", "open", "search", "comment", "navigate", "notices", "category"}, n : Notes \cup {Nobody}]

\* awaited is the note whose outcome timer runs; adrift is history: the comments pending, with no
\* timer of theirs, when the edge fell silent over what would have settled them.
Fresh ==
    [up |-> FALSE, browser |-> "absent", active |-> FALSE, parked |-> "stopped", timers |-> {}, pauses |-> {},
     sleeping |-> FALSE, note |-> Nobody, inflight |-> Nobody, expired |-> {},
     pendingComment |-> Nobody, pendingMigration |-> Nobody, page |-> "feed", redrives |-> 0,
     excursion |-> FALSE, suspended |-> FALSE, tries |-> 0, stalls |-> 0, deferred |-> FALSE,
     lease |-> FALSE, acquiring |-> FALSE, ending |-> FALSE, queued |-> FALSE,
     outcome |-> [n \in Notes |-> "none"], awaited |-> Nobody, adrift |-> {}, out |-> <<>>]

SessionTypeOK ==
    /\ disp.browser \in {"absent", "present"} /\ disp.timers \subseteq Timers
    /\ disp.pauses \subseteq {"comment_subline", "view_quota", "patrol"}
    /\ disp.parked \in {"running", "resume", "capped", "structural", "stopped"}
    /\ {disp.note, disp.inflight, disp.pendingComment, disp.pendingMigration} \subseteq Notes \cup {Nobody}
    /\ disp.redrives \in 0..MaxRedrives /\ disp.tries \in 0..MaxTries /\ disp.stalls \in 0..MaxStalls
    /\ disp.outcome \in [Notes -> {"none", "confirmed", "failed", "unknown"}]
    /\ disp.page \in {"feed", "search"} /\ disp.awaited \in Notes \cup {Nobody} /\ disp.adrift \subseteq Notes
    /\ disp.out \in Seq(Commands) /\ pipe \in [Notes -> Stages] /\ pushing \in BOOLEAN /\ starts \in 0..MaxStarts

\* A dispatcher not connected yet, or one whose session runs and reads a note.
Running(n) == [Fresh EXCEPT !.up = TRUE, !.browser = "present", !.active = TRUE, !.parked = "running", !.note = n]

SessionInit ==
    /\ disp \in {Fresh} \cup {Running(n) : n \in Mandatory}
    /\ pipe = [n \in Notes |-> "none"] /\ pushing = FALSE /\ starts = 0

------------------------------------------------------------------------------
(* Sending.                                                                *)

isQuotaSleepBypass(c) == c.a \in {"notices", "category"}
isCommentSublineCommand(c) == c.a \in {"comment", "navigate"}

\* sendCommand: the gates in their order, the configuration mirror's by choice.
Admits(s, c, halted) ==
    \/ isQuotaSleepBypass(c)
    \/ /\ ~halted /\ ~s.sleeping /\ ~s.suspended /\ s.inflight = Nobody
       /\ s.pendingMigration = Nobody \/ isCommentSublineCommand(c)

Send(s, c, halted) == IF Admits(s, c, halted) THEN [s EXCEPT !.out = Append(@, c)] ELSE s
Cmd(a, n) == [a |-> a, n |-> n]

\* Patrol commands wait for the lease and leave under it.
SendPatrol(s, a) ==
    IF s.lease THEN [s EXCEPT !.out = Append(@, Cmd(a, Nobody))] ELSE [s EXCEPT !.queued = TRUE]

\* sleepForViewQuota: the session sleeps, its clock stands still.
sleepForViewQuota(s) ==
    IF s.sleeping THEN s
    ELSE [s EXCEPT !.sleeping = TRUE, !.timers = @ \cup {"view"}, !.pauses = @ \cup {"view_quota"}]

\* allowScrollForViewQuota, then sendCommand: an exhausted quota puts the session to sleep instead.
sendScrollCommand(s, viewOk) ==
    IF s.sleeping \/ viewOk THEN Send(s, Cmd("scroll", Nobody), FALSE) ELSE sleepForViewQuota(s)

------------------------------------------------------------------------------
(* The end of a session.                                                   *)

\* reportMandatoryCommentOutcome: one notice per approval, the first one stands.
Report(s, n, o) ==
    IF n \in Mandatory /\ s.outcome[n] = "none" THEN [s EXCEPT !.outcome[n] = o] ELSE s

\* pendingComment ?? pendingMigration
Pending(comment, migration) == IF comment # Nobody THEN comment ELSE migration

\* settlePendingMandatoryCommentAsUnknown
SettlePending(s) ==
    LET n == Pending(s.pendingComment, s.pendingMigration)
        r == IF n = Nobody THEN s ELSE Report(s, n, "unknown")
    IN  [r EXCEPT !.pendingComment = Nobody, !.pendingMigration = Nobody, !.awaited = Nobody]

\* endNotificationTask: a lease that is held is released, one that is coming will be.
endNotificationTask(s) == [s EXCEPT !.ending = TRUE, !.queued = FALSE, !.lease = FALSE]

\* A mutant: an ended session that may resume arms no timer.
endSessionForgetsRest(s, autoResume) ==
    [endNotificationTask(SettlePending(s)) EXCEPT
        !.timers = {}, !.pauses = {}, !.sleeping = FALSE, !.inflight = Nobody, !.deferred = FALSE, !.active = FALSE,
        !.stalls = 0, !.parked = IF autoResume /\ s.active THEN "resume" ELSE "stopped"]

\* endSession: what it clears of a running session, and the rest timer of one that may resume.
endSession(s, autoResume) ==
    LET resting == autoResume /\ s.active
    IN  [endNotificationTask(SettlePending(s)) EXCEPT
            !.timers = IF resting THEN {"rest"} ELSE {},
            !.pauses = {}, !.sleeping = FALSE, !.inflight = Nobody, !.deferred = FALSE,
            !.active = FALSE, !.stalls = 0,
            !.parked = IF resting THEN "resume" ELSE "stopped"]

\* checkSession: with a running clock, a session at one of its limits ends and may resume.
checkSession(s, limit) == IF s.active /\ s.pauses = {} /\ limit THEN endSession(s, TRUE) ELSE s

\* resumeClock: the last reason to pause is gone, and the session is checked at once.
resumeClock(s, why, limit) ==
    IF why \in s.pauses THEN checkSession([s EXCEPT !.pauses = @ \ {why}], limit) ELSE s

------------------------------------------------------------------------------
(* The start of a session.                                                 *)

\* restartSession: what the reset leaves, outside the active week only a wake-up.
restartSession(s, week, viewOk) ==
    IF s.browser = "absent" THEN s
    ELSE IF ~week THEN [s EXCEPT !.timers = @ \cup {"wake"}, !.parked = "resume"]
    ELSE LET r == [SettlePending(s) EXCEPT
                      !.timers = {}, !.pauses = {}, !.sleeping = FALSE, !.inflight = Nobody, !.active = TRUE,
                      !.parked = "running", !.page = "feed", !.excursion = FALSE, !.suspended = FALSE, !.tries = 0]
         IN  IF viewOk THEN r ELSE sleepForViewQuota(r)

\* canStartSession: a refusal that may pass is looked at again by a timer.
canStartSession(s, v) ==
    CASE v = "recoverable" -> [s EXCEPT !.timers = @ \cup {"gate"}, !.parked = "resume"]
      [] v = "structural"  -> [s EXCEPT !.parked = "structural"]
      [] OTHER -> s

tryStartSession(s, v, week, viewOk) ==
    IF s.active THEN s ELSE IF v = "ok" THEN restartSession(s, week, viewOk) ELSE canStartSession(s, v)

\* redriveBrowse: back to the surface the session browses.
redriveBrowse(s, viewOk) == IF s.active THEN sendScrollCommand(s, viewOk) ELSE s

startOnPersonaBound(s, v, week, viewOk) ==
    IF s.active THEN s ELSE redriveBrowse(tryStartSession(s, v, week, viewOk), viewOk)

\* doAutoResume and resumeGate: risk, window and daily limits refuse without arming anything.
doAutoResume(s, v, week, capped, viewOk) ==
    LET asked == canStartSession(s, v)
    IN  CASE s.active -> s
          [] ~s.active /\ (v # "ok" \/ ~week) ->
                [asked EXCEPT !.timers = IF week THEN @ \ {"wake"} ELSE @ \cup {"wake"},
                              !.parked = IF week THEN @ ELSE "resume"]
          [] ~s.active /\ v = "ok" /\ week /\ capped -> [s EXCEPT !.timers = @ \ {"wake"}, !.parked = "capped"]
          [] OTHER -> redriveBrowse(tryStartSession(s, v, week, viewOk), viewOk)

------------------------------------------------------------------------------
(* One handler: the dispatcher becomes s.                                  *)

Becomes(s) == disp' = s
Started(s) == Becomes(s) /\ UNCHANGED <<pipe, pushing, starts>>
Stimulus == starts < MaxStarts /\ starts' = starts + 1
Asked(s) == Stimulus /\ Becomes(s) /\ UNCHANGED <<pipe, pushing>>

\* The gates of a start as they stand at this moment.
Gates == [v : Verdicts, week : BOOLEAN, view : BOOLEAN, capped : BOOLEAN]

onHelloEvent(browser, g) ==
    /\ ~disp.up
    /\ LET s == [disp EXCEPT !.up = TRUE, !.browser = browser]
       IN  Asked(IF browser = "absent" THEN s ELSE tryStartSession(s, g.v, g.week, g.view))

\* teardown: the session ends, the bus loses its listeners; the next hello finds a new dispatcher.
Teardown ==
    /\ disp.up /\ Stimulus
    /\ disp' = [Fresh EXCEPT !.outcome = endSession(disp, FALSE).outcome]
    /\ pipe' = [n \in Notes |-> IF pipe[n] = "none" THEN "none" ELSE "over"] /\ pushing' = FALSE

onBrowserStatus(state, g) ==
    /\ disp.up /\ disp.browser # state
    /\ LET s == [disp EXCEPT !.browser = state]
       IN  Asked(IF state = "absent" THEN endSession(s, FALSE) ELSE tryStartSession(s, g.v, g.week, g.view))

\* endAll and endSessionForAccount; startAll, startSessionForAccount, resumeSessionForAccount.
Operator(g) ==
    /\ disp.up
    /\ \/ disp.active /\ Asked(endSession(disp, FALSE))
       \/ ~disp.active /\ Asked(tryStartSession(disp, g.v, g.week, g.view))
       \/ ~disp.active /\ Asked(startOnPersonaBound(disp, g.v, g.week, g.view))
       \/ ~disp.active /\ Asked(doAutoResume(disp, g.v, g.week, g.capped, g.view))

Fires(t) == t \in disp.timers
Fired(t) == [disp EXCEPT !.timers = @ \ {t}]

onRestElapsed(g) == Fires("rest") /\ Started(doAutoResume(Fired("rest"), g.v, g.week, g.capped, g.view))
onWakeElapsed(g) == Fires("wake") /\ Started(doAutoResume(Fired("wake"), g.v, g.week, g.capped, g.view))

\* onStartGateRecheckElapsed: the timer runs on until the gate opens or closes for good.
onStartGateRecheckElapsed(g) ==
    /\ Fires("gate")
    /\ LET s == Fired("gate")
           again == [s EXCEPT !.timers = @ \cup {"gate"}, !.parked = "resume"]
       IN  Started(CASE disp.active -> s
                     [] g.v = "structural" /\ ~disp.active -> canStartSession(s, "structural")
                     [] g.v = "recoverable" /\ ~disp.active -> again
                     [] g.v = "ok" /\ ~disp.active /\ (disp.browser = "absent" \/ ~g.week) -> again
                     [] OTHER -> startOnPersonaBound(s, g.v, g.week, g.view))

\* onViewQuotaSleepElapsed: sleeps again, or resumes the clock and browses on.
onViewQuotaSleepElapsed(viewOk, limit) ==
    /\ Fires("view")
    /\ LET s == [Fired("view") EXCEPT !.sleeping = FALSE]
       IN  Started(IF ~viewOk THEN sleepForViewQuota(s)
                   ELSE LET r == resumeClock(s, "view_quota", limit)
                        IN  IF r.active THEN sendScrollCommand(r, TRUE) ELSE r)

\* checkIdle: a nudge while nothing comes back, then the end; neither asks whether the clock is paused.
checkIdle(viewOk) ==
    /\ disp.active
    /\ \/ disp.inflight = Nobody /\ Len(disp.out) < MaxQueue /\ Started(sendScrollCommand(disp, viewOk))
       \/ starts < MaxStarts /\ starts' = starts + 1 /\ Becomes(endSession(disp, TRUE)) /\ UNCHANGED <<pipe, pushing>>

------------------------------------------------------------------------------
(* The comment subline.                                                    *)

\* enterCommentSubline: only for the note on the page, one at a time, once per note.
enterCommentSubline(s, n) ==
    IF s.note # n \/ n \in s.expired \/ s.inflight # Nobody THEN s
    ELSE [s EXCEPT !.inflight = n, !.pauses = @ \cup {"comment_subline"}, !.timers = @ \cup {"subline"}]

clearCommentSublineHold(s, resume, limit) ==
    LET c == [s EXCEPT !.inflight = Nobody, !.timers = @ \ {"subline"}]
    IN  IF resume THEN resumeClock(c, "comment_subline", limit) ELSE c

\* excursion.requested: browsing suspended, the clock paused, the lease asked for once.
StartExcursion(s) ==
    LET b == [s EXCEPT !.excursion = TRUE, !.suspended = TRUE, !.tries = 0, !.stalls = 0, !.queued = TRUE,
                       !.timers = @ \cup {"stall"}, !.pauses = @ \cup {"patrol"}]
    IN  IF s.lease \/ s.acquiring THEN b ELSE [b EXCEPT !.acquiring = TRUE, !.ending = FALSE]

\* The gatekeeper lets a patrol in, or keeps it for after the comment in hand.
admit(s) ==
    IF s.inflight # Nobody THEN [s EXCEPT !.deferred = TRUE]
    ELSE IF s.excursion THEN s ELSE StartExcursion(s)

retryDeferred(s) == IF s.active /\ s.deferred THEN admit([s EXCEPT !.deferred = FALSE]) ELSE s

\* comment.skipped and comment.done, as the dispatcher and the gatekeeper hear them.
Skipped(s, limit) == IF s.active THEN retryDeferred(clearCommentSublineHold(s, TRUE, limit)) ELSE s
Done(s, limit) == IF s.active THEN retryDeferred(resumeClock(s, "comment_subline", limit)) ELSE s

Stage(n, s, stage) == Becomes(s) /\ pipe' = [pipe EXCEPT ![n] = stage] /\ UNCHANGED <<pushing, starts>>

\* interaction.completed reaches the appraiser: a rule's note goes on to be written about, another
\* is judged first.  The page is held from here.
onInteractionCompleted(n, limit) ==
    /\ disp.active /\ disp.note = n /\ pipe[n] = "none"
    /\ \/ Stage(n, enterCommentSubline(disp, n), IF n \in Mandatory THEN "compose" ELSE "appraise")
       \/ Stage(n, Skipped(disp, limit), "over")

\* A role's answer: nothing once the hold has expired; what it emits is heard in a running session.
RoleAnswers(n, at, s, to, limit) ==
    /\ pipe[n] = at
    /\ IF n \in disp.expired \/ ~disp.active THEN Stage(n, disp, "over")
       ELSE \/ Stage(n, Skipped(disp, limit), "over")
            \/ Stage(n, s, to)

CommentAppraiser(n, limit) ==
    RoleAnswers(n, "appraise", enterCommentSubline(disp, n), "compose", limit)
CommentComposer(n, limit) == RoleAnswers(n, "compose", disp, "clear", limit)
CommentDeAiFlavor(n, limit) == RoleAnswers(n, "clear", disp, "approve", limit)

\* comment.approved: risk may still refuse, or a gate swallow the command, which takes the pending
\* delivery and the outcome timer with it, whichever comment they are of.  On the wrong surface the
\* note is opened first.
commentApproved(s, n, verdict, halted, limit) ==
    LET h == clearCommentSublineHold(s, FALSE, limit)
        armed == IF n \in Mandatory THEN n ELSE h.awaited
        Refused(x) == Skipped(Report(x, n, "failed"), limit)
        Delivered(d, c, undone) ==
            IF Admits(d, c, halted) THEN Send(d, c, halted) ELSE Refused([undone EXCEPT !.awaited = Nobody])
    IN  CASE verdict = "risk" -> Refused(h)
          [] verdict = "comment" ->
                Delivered([h EXCEPT !.pendingComment = n, !.awaited = armed], Cmd("comment", n),
                          [h EXCEPT !.pendingComment = Nobody])
          [] OTHER ->
                Delivered([h EXCEPT !.pendingMigration = n, !.awaited = armed], Cmd("navigate", n),
                          [h EXCEPT !.pendingMigration = Nobody])

CommentApprovalGate(n, limit) ==
    /\ pipe[n] = "approve"
    /\ IF n \in disp.expired \/ ~disp.active THEN Stage(n, disp, "over")
       ELSE \/ Stage(n, Skipped(disp, limit), "over")
            \/ \E verdict \in {"risk", "comment", "navigate"}, halted \in BOOLEAN :
                  Stage(n, commentApproved(disp, n, verdict, halted, limit), "over")

\* expireCommentSubline: the note is given up for good.
expireCommentSubline(limit) ==
    /\ Fires("subline")
    /\ LET s == [disp EXCEPT !.expired = @ \cup {disp.inflight}, !.inflight = Nobody, !.timers = @ \ {"subline"}]
       IN  Started(Skipped(resumeClock(s, "comment_subline", limit), limit))

\* armMandatoryCommentOutcomeTimer: no receipt in time is an unknown outcome, if what is pending is
\* still what the timer was set for.
OutcomeTimeout(limit) ==
    /\ disp.awaited # Nobody
    /\ LET n == disp.awaited
           s == [disp EXCEPT !.awaited = Nobody]
       IN  Started(IF Pending(s.pendingComment, s.pendingMigration) # n THEN s
                   ELSE Done(Report([s EXCEPT !.pendingComment = Nobody, !.pendingMigration = Nobody], n, "unknown"), limit))

------------------------------------------------------------------------------
(* The patrol.                                                             *)

NotificationDetected == disp.active /\ Asked(admit(disp))

\* beginNotificationTask, its lease granted: kept unless the task has ended meanwhile.
LeaseGranted ==
    /\ disp.acquiring
    /\ Started(IF disp.ending THEN [disp EXCEPT !.acquiring = FALSE]
               ELSE [disp EXCEPT !.acquiring = FALSE, !.lease = TRUE, !.queued = FALSE,
                              !.out = IF disp.queued THEN Append(@, Cmd("notices", Nobody)) ELSE @])

\* resume: the patrol ends, browsing goes on from where it was.
resumeBrowse(s, limit) ==
    IF ~s.excursion \/ ~s.active THEN s
    ELSE LET e == [s EXCEPT !.excursion = FALSE, !.suspended = FALSE, !.tries = 0, !.stalls = 0, !.timers = @ \ {"stall"}]
             r == endNotificationTask(resumeClock(e, "patrol", limit))
         IN  IF r.active THEN Send(r, Cmd("scroll", Nobody), FALSE) ELSE r

\* A mutant: a recovery that does not watch itself.
onStallUnwatched(limit) ==
    /\ Fires("stall") /\ disp.active
    /\ LET s == Fired("stall")
       IN  Started(IF ~disp.excursion THEN s
                   ELSE IF disp.stalls < MaxStalls THEN SendPatrol([s EXCEPT !.stalls = @ + 1], "notices")
                   ELSE resumeBrowse(s, limit))

\* onStall: reopen the notices a few times, then give the patrol up.
onStall(limit) ==
    /\ Fires("stall") /\ disp.active
    /\ LET s == Fired("stall")
       IN  Started(IF ~disp.excursion THEN s
                   ELSE IF disp.stalls < MaxStalls
                        THEN SendPatrol([s EXCEPT !.stalls = @ + 1, !.timers = @ \cup {"stall"}], "notices")
                   ELSE resumeBrowse(s, limit))

\* triage: a category with unread notices and tries left is opened, otherwise the patrol is done.
triage(s, unread, limit) ==
    IF ~s.excursion THEN s
    ELSE IF unread /\ s.tries < MaxTries
         THEN SendPatrol([s EXCEPT !.tries = @ + 1, !.timers = @ \cup {"stall"}], "category")
    ELSE resumeBrowse(s, limit)

\* The notifier has delivered or failed; the category is handled either way.
NotifierPushed ==
    /\ pushing /\ pushing' = FALSE /\ UNCHANGED <<pipe, starts>>
    /\ Becomes(IF disp.active /\ disp.excursion THEN SendPatrol(disp, "notices") ELSE disp)

------------------------------------------------------------------------------
(* What the edge answers.                                                  *)

\* recoverViaRedrive: a bounded number of redrives without a success, then the session ends.
recoverViaRedrive(s, viewOk) ==
    IF s.redrives >= MaxRedrives THEN endSession(s, TRUE)
    ELSE LET r == redriveBrowse([s EXCEPT !.page = "feed"], viewOk)
         IN  IF r.out # s.out THEN [r EXCEPT !.redrives = @ + 1] ELSE r

\* A mutant: a preempted comment lets go of the page, and leaves the clock paused.
PreemptedKeepsClock(s, c, limit) ==
    IF c.a # "comment" THEN s
    ELSE LET r == IF s.pendingComment = Nobody THEN s ELSE Report(s, s.pendingComment, "unknown")
         IN  clearCommentSublineHold([r EXCEPT !.pendingComment = Nobody, !.awaited = Nobody], FALSE, limit)

\* A preempted command is a scheduling event: no recovery, no comment.done; the subline lets go.
Preempted(s, c, limit) ==
    CASE c.a = "comment" ->
           LET r == IF s.pendingComment = Nobody THEN s ELSE Report(s, s.pendingComment, "unknown")
           IN  clearCommentSublineHold([r EXCEPT !.pendingComment = Nobody, !.awaited = Nobody], TRUE, limit)
      [] c.a \in {"open", "navigate"} ->
           LET r == IF s.pendingMigration = Nobody THEN s ELSE Report(s, s.pendingMigration, "unknown")
           IN  clearCommentSublineHold([r EXCEPT !.pendingMigration = Nobody, !.awaited = Nobody], TRUE, limit)
      [] OTHER -> s

\* The migration landed on the note, or it did not.
MigrationReceipt(s, c, ok, limit) ==
    LET n == s.pendingMigration
        s1 == [s EXCEPT !.pendingMigration = Nobody]
        landed == [s1 EXCEPT !.pendingComment = n]
    IN  IF ok /\ c.n = n /\ Admits(landed, Cmd("comment", n), FALSE)
        THEN Send(landed, Cmd("comment", n), FALSE)
        ELSE Done(Report([s1 EXCEPT !.awaited = Nobody], n, "failed"), limit)

\* The comment's receipt, whichever comment is pending.
CommentReceipt(s, result, limit) ==
    LET n == s.pendingComment
        o == CASE result = "ok" -> "confirmed" [] result = "ambiguous" -> "unknown" [] OTHER -> "failed"
    IN  Done(Report([s EXCEPT !.pendingComment = Nobody, !.awaited = Nobody], n, o), limit)

\* ExcursionResumer on a patrol command's receipt, then what the opened page reports.
PatrolReceipt(s, ok, limit) ==
    IF ok \/ ~s.excursion THEN s ELSE resumeBrowse(s, limit)

\* action.completed in the order its listeners subscribed: monitor, patrol, dispatcher.  A session
\* the monitor has ended has no listeners left.
actionCompleted(s, c, result, viewOk, limit) ==
    LET m == checkSession(s, limit)
        ok == result = "ok"
        r == IF ok THEN [m EXCEPT !.redrives = 0] ELSE m
    IN  CASE ~m.active -> m
          [] m.active /\ result = "preempted" ->
                Preempted(IF isQuotaSleepBypass(c) THEN resumeBrowse(m, limit) ELSE m, c, limit)
          [] m.active /\ result # "preempted" /\ isQuotaSleepBypass(c) ->
                LET p == PatrolReceipt(r, ok, limit)
                IN  IF ok \/ ~p.active THEN p ELSE recoverViaRedrive(p, viewOk)
          [] m.active /\ result # "preempted" /\ c.a \in {"open", "navigate"} /\ r.pendingMigration # Nobody ->
                MigrationReceipt(r, c, ok, limit)
          [] m.active /\ result # "preempted" /\ c.a = "comment" ->
                IF r.pendingComment = Nobody THEN r ELSE CommentReceipt(r, result, limit)
          [] m.active /\ r.pendingMigration = Nobody
               /\ \/ c.a \in {"open", "search"} /\ result \notin {"ok", "preempted"}
                  \/ c.a = "scroll" /\ result = "mismatch" ->
                recoverViaRedrive(r, viewOk)
          [] OTHER -> r

\* A refused lease is told as a failed way home: the patrol that is under way, the one that asked or
\* a later one, ends, and the session recovers as from any failed navigation.
LeaseRefused(viewOk, limit) ==
    /\ disp.acquiring
    /\ LET s == [disp EXCEPT !.acquiring = FALSE, !.queued = FALSE]
       IN  Started(IF s.active THEN actionCompleted(s, Cmd("notices", Nobody), "failed", viewOk, limit) ELSE s)

\* The edge finishes the command in front: its receipt, then the page it led to.
EdgeAnswers(result, viewOk, limit, unread) ==
    /\ disp.out # <<>> /\ disp.up
    /\ LET c == Head(disp.out)
           a == [disp EXCEPT !.out = Tail(@)]
           s == IF a.active THEN actionCompleted(a, c, result, viewOk, limit) ELSE a
           there == result = "ok" /\ s.active
       IN  /\ Becomes(CASE there /\ c.a \in {"open", "navigate"} -> [s EXCEPT !.note = c.n]
                        [] there /\ c.a = "notices" -> triage(s, unread, limit)
                        [] OTHER -> s)
           /\ pushing' = (pushing \/ (there /\ c.a = "category" /\ s.excursion))
           /\ UNCHANGED <<pipe, starts>>

\* The pending delivery the answer to a command would settle.
Settles(s, c) ==
    CASE c.a = "comment" -> {s.pendingComment} \ {Nobody}
      [] c.a \in {"open", "navigate"} -> {s.pendingMigration} \ {Nobody}
      [] OTHER -> {}
\* The outcome timer that runs is of the comment that is pending.
Timed(s) == s.awaited # Nobody /\ s.awaited = Pending(s.pendingComment, s.pendingMigration)

\* The edge says nothing about the command in front.
EdgeSilent ==
    /\ disp.out # <<>> /\ Stimulus
    /\ disp' = [disp EXCEPT !.out = Tail(@),
                            !.adrift = IF Timed(disp) THEN @ ELSE @ \cup Settles(disp, Head(disp.out))]
    /\ UNCHANGED <<pipe, pushing>>

\* The roles browse: a batch of cards is scrolled past, searched from, or one of its notes opened.
ScrollOn(viewOk) == disp.active /\ Len(disp.out) < MaxQueue /\ Asked(sendScrollCommand(disp, viewOk))
searchApproved(halted) ==
    /\ disp.active /\ Len(disp.out) < MaxQueue
    /\ LET s == Send(disp, Cmd("search", Nobody), halted)
       IN  Asked(IF s.out # disp.out THEN [s EXCEPT !.page = "search"] ELSE sendScrollCommand(disp, TRUE))
contentValuable(n, viewOk) ==
    /\ disp.active /\ pipe[n] = "none" /\ Len(disp.out) < MaxQueue
    /\ Asked(IF viewOk THEN Send(disp, Cmd("open", n), FALSE) ELSE sleepForViewQuota(disp))

------------------------------------------------------------------------------
Lifecycle ==
    \/ \E g \in Gates :
         \/ \E b \in {"absent", "present"} : onHelloEvent(b, g) \/ onBrowserStatus(b, g)
         \/ Operator(g) \/ onRestElapsed(g) \/ onWakeElapsed(g) \/ onStartGateRecheckElapsed(g)
    \/ Teardown
    \/ \E viewOk, limit \in BOOLEAN : onViewQuotaSleepElapsed(viewOk, limit)
    \/ \E viewOk \in BOOLEAN : checkIdle(viewOk)

Commenting ==
    \/ \E n \in Notes, limit \in BOOLEAN :
         \/ onInteractionCompleted(n, limit)
         \/ CommentAppraiser(n, limit) \/ CommentComposer(n, limit)
         \/ CommentDeAiFlavor(n, limit) \/ CommentApprovalGate(n, limit)
    \/ \E limit \in BOOLEAN : expireCommentSubline(limit) \/ OutcomeTimeout(limit)

Patrolling ==
    \/ NotificationDetected \/ LeaseGranted \/ NotifierPushed
    \/ \E limit \in BOOLEAN : onStall(limit) \/ \E viewOk \in BOOLEAN : LeaseRefused(viewOk, limit)

Browsing ==
    \/ \E result \in {"ok", "failed", "ambiguous", "mismatch", "preempted"}, viewOk, limit, unread \in BOOLEAN :
         EdgeAnswers(result, viewOk, limit, unread)
    \/ EdgeSilent
    \/ \E viewOk \in BOOLEAN : ScrollOn(viewOk) \/ searchApproved(viewOk)
    \/ \E n \in Notes, viewOk \in BOOLEAN : contentValuable(n, viewOk)

SessionNext == Lifecycle \/ Commenting \/ Patrolling \/ Browsing

\* Timers fire: the process runs and Node keeps its timers.
SessionFairness ==
    /\ WF_sessionVars(\E limit \in BOOLEAN : onStall(limit))
    /\ WF_sessionVars(\E limit \in BOOLEAN : expireCommentSubline(limit))

SessionSpec == SessionInit /\ [][SessionNext]_sessionVars /\ SessionFairness

------------------------------------------------------------------------------
\* Who will resume the clock of a comment that is out: the outcome timer set for it, or the answer to
\* a command the edge still has.  The exception is a comment adrift: the edge has fallen silent over
\* it and the dispatcher sets no timer for one no rule asked for, or has set it for the next comment.
AnswerDue(q, comment, migration) ==
    \E i \in DOMAIN q : \/ comment # Nobody /\ q[i].a = "comment"
                        \/ migration # Nobody /\ q[i].a \in {"open", "navigate"}
DeliveryEnds(q, comment, migration, awaited, adrift) ==
    \/ awaited # Nobody /\ awaited = Pending(comment, migration)
    \/ AnswerDue(q, comment, migration)
    \/ {comment, migration} \cap adrift # {}

\* A paused session clock has somebody who will resume it: the timer of the comment in hand, the
\* timer or the answer of a comment that is out, the quota's timer, the patrol.  A clock nobody
\* resumes puts off the end of the session for ever (role-dispatcher.ts:4969, "the subline's clock
\* must not leak"), and one case of it remains in the code: a comment adrift.
PausesHaveOwners ==
    /\ "comment_subline" \in disp.pauses
         => \/ disp.inflight # Nobody
            \/ DeliveryEnds(disp.out, disp.pendingComment, disp.pendingMigration, disp.awaited, disp.adrift)
    /\ "view_quota" \in disp.pauses => disp.sleeping /\ "view" \in disp.timers
    /\ "patrol" \in disp.pauses => disp.excursion

\* The edge task lease and the suspension of browsing belong to a patrol that is watched: no lease
\* survives its patrol, through ends, restarts and grants that come late.
PatrolIsWatched ==
    /\ disp.lease => disp.active /\ disp.excursion
    /\ disp.active /\ disp.suspended => disp.excursion /\ "stall" \in disp.timers
    /\ disp.inflight # Nobody => disp.active /\ "subline" \in disp.timers

\* Whatever stops the clock of a session, or takes the page from it, has an owner that gives it back,
\* but a comment adrift (PausesHaveOwners and PatrolIsWatched).
HoldsHaveOwners == PausesHaveOwners /\ PatrolIsWatched

\* A session that ended to resume, or was refused for now, has a timer that starts it: nobody else
\* will, since the edge reconnects only when its connection breaks; without a browser it is the
\* browser's return that does.
WillResume ==
    disp.up /\ disp.browser = "present" /\ disp.parked = "resume" => ~disp.active /\ disp.timers \cap Waits # {}

\* Browsing held up by a patrol or by a comment in hand is given back, whatever the edge, the models
\* and the people asked do.
HoldsEnd ==
    /\ (disp.active /\ disp.suspended) ~> ~(disp.active /\ disp.suspended)
    /\ (disp.inflight # Nobody) ~> (disp.inflight = Nobody)
==============================================================================
