----------------------------- MODULE RiskControl -----------------------------
(***************************************************************************)
(* The risk state of one account: a state machine behind controllers that  *)
(* keep it in memory and write it through, the ownership of the account    *)
(* that follows the last handshake, the recovery sweeper, and the durable  *)
(* risk commands with the outcomes their submitters read.                  *)
(*                                                                         *)
(* Sources: src/src/risk/risk-state-machine.ts, risk-controller.ts,        *)
(* risk-controller-registry.ts, risk-recovery-sweeper.ts, pg-risk-store.ts,*)
(* risk-command-service.ts, transport/risk-command-outbox.ts,              *)
(* comm/captcha-coordinator.ts and orchestrator/connection-runtime.ts.     *)
(*                                                                         *)
(* Abstractions.  One account; a process is an execution target.  A state  *)
(* is its status and the time its recovery window counts from.  The outbox *)
(* delivers a command until its handler returns.  Loading a controller is  *)
(* one step: nobody uses it before.                                        *)
(***************************************************************************)
EXTENDS Naturals, FiniteSets

CONSTANTS
    Procs,          \* execution targets, one process each
    Ctls,           \* controller objects
    Recoveries,     \* recoverRestricted commands
    Signals,        \* applySignal commands, of kind light
    MaxTime, Window,
    MaxReports,     \* bound: signals reported by connections
    MaxFaults,      \* bound: failed database calls, crashes
    MaxShakes,      \* bound: handshakes
    None

ASSUME RiskAssumption ==
    /\ None \notin Procs \cup Ctls \cup {"conn", "sweep"} /\ Window \in Nat \ {0} /\ MaxTime \in Nat
    /\ Recoveries \cap Signals = {} /\ {None, "conn", "sweep"} \cap (Recoveries \cup Signals) = {}
    /\ MaxReports \in Nat /\ MaxFaults \in Nat /\ MaxShakes \in Nat

VARIABLES
    owner,          \* accounts.execution_target
    row,            \* risk_state
    now,
    cache,          \* the registry's controller, per process
    ctl,            \* the controllers: their process, memory and write in flight
    conns,          \* the controllers captured by live connections
    hs,             \* the handshake in flight, per process
    sweep,          \* the sweeper holds a due row, per process
    cons,           \* the command consumer, per process
    sent,           \* commands in the outbox: their target, or None
    acked,          \* commands behind the consumer's cursor
    out,            \* risk_command_outcome
    reports, faults, shakes,
    resumed,        \* history: how often a command resumed the edges
    wrote           \* history: commands whose write reached the table

vars == <<owner, row, now, cache, ctl, conns, hs, sweep, cons, sent, acked, out, reports, faults,
          shakes, resumed, wrote>>

Commands == Recoveries \cup Signals
Status == {"normal", "warned", "restricted", "frozen"}
Kinds == {"light", "confirmed", "fatal", "recovered", "operator_override_recover",
          "manual_restrict", "manual_freeze", "manual_unfreeze"}
States == [st : Status, base : 0..MaxTime]
Times == 0..MaxTime

NoCtl == [proc |-> None, mem |-> [st |-> "normal", base |-> 0], step |-> "idle", by |-> None]
Idle == [cmd |-> None, step |-> "idle", ctl |-> None]
NoOutcome == [state |-> "submitted", changed |-> FALSE, resume |-> "none"]

TypeOK ==
    /\ owner \in Procs \cup {None} /\ row \in States /\ now \in Times
    /\ cache \in [Procs -> Ctls \cup {None}] /\ conns \subseteq Ctls
    /\ ctl \in [Ctls -> [proc : Procs \cup {None}, mem : States, step : {"idle", "check", "write"},
                         by : Commands \cup {"conn", "sweep", None}]]
    /\ hs \in [Procs -> {"none", "claimed", "resolve"}] /\ sweep \subseteq Procs
    /\ cons \in [Procs -> [cmd : Commands \cup {None}, ctl : Ctls \cup {None},
                           step : {"idle", "staged", "marked", "got", "mutating", "accepted", "changed", "refused",
                                   "error", "resume", "claimed", "resumed", "written", "returned"}]]
    /\ sent \in [Commands -> Procs \cup {None}] /\ acked \subseteq Commands
    /\ out \in [Commands -> [state : {"submitted", "applying", "refused", "failed", "applied"},
                             changed : BOOLEAN, resume : {"none", "pending", "claimed", "completed"}]]
    /\ reports \in 0..MaxReports /\ faults \in 0..MaxFaults /\ shakes \in 0..MaxShakes
    /\ resumed \in [Commands -> Nat] /\ wrote \subseteq Commands

\* The account is connected: one process owns it, and its connection has captured the
\* controller of the registry.
Init ==
    /\ row \in [st : Status, base : {0}] /\ now = 0
    /\ \E p \in Procs, k \in Ctls :
          /\ owner = p /\ cache = [q \in Procs |-> IF q = p THEN k ELSE None] /\ conns = {k}
          /\ ctl = [j \in Ctls |-> IF j = k THEN [NoCtl EXCEPT !.proc = p, !.mem = row] ELSE NoCtl]
    /\ hs = [p \in Procs |-> "none"] /\ sweep = {} /\ cons = [p \in Procs |-> Idle]
    /\ sent = [c \in Commands |-> None] /\ acked = {} /\ out = [c \in Commands |-> NoOutcome]
    /\ reports = 0 /\ faults = 0 /\ shakes = 0
    /\ resumed = [c \in Commands |-> 0] /\ wrote = {}

------------------------------------------------------------------------------
(* The state machine.                                                      *)

\* recoveryAtMs against the clock.
Due(s) == s.st \in {"warned", "restricted"} /\ now >= s.base + Window

recoverIfEligible(s) ==
    CASE Due(s) /\ s.st = "warned" -> "normal" [] Due(s) /\ s.st = "restricted" -> "warned" [] OTHER -> s.st

nextStatus(s, kind) ==
    CASE kind \in {"fatal", "manual_freeze"} -> "frozen"
      [] kind = "operator_override_recover" -> "normal"
      [] kind = "manual_restrict" -> IF s.st \in {"normal", "warned"} THEN "restricted" ELSE s.st
      [] kind = "manual_unfreeze" -> IF s.st = "frozen" THEN "restricted" ELSE s.st
      [] kind = "recovered" -> recoverIfEligible(s)
      [] kind = "confirmed" -> IF s.st = "frozen" THEN "frozen" ELSE "restricted"
      [] OTHER -> CASE s.st = "normal" -> "warned" [] s.st = "warned" -> "restricted" [] OTHER -> s.st

transition(s, kind) ==
    LET st == nextStatus(s, kind)
    IN  [st |-> st, base |-> IF st # s.st \/ kind \in {"light", "confirmed", "fatal"} THEN now ELSE s.base]

------------------------------------------------------------------------------
(* Controllers and their registry.                                         *)

InUse == {k \in Ctls : \/ k \in conns \/ ctl[k].step # "idle"
                       \/ \E p \in Procs : cache[p] = k \/ cons[p].ctl = k}

\* createController: a new controller, loaded from the table, becomes the registry's.
Load(p, k) ==
    /\ k \notin InUse /\ cache' = [cache EXCEPT ![p] = k]
    /\ ctl' = [ctl EXCEPT ![k] = [NoCtl EXCEPT !.proc = p, !.mem = row]]

\* materialize: the cached controller, or a new one.
Materialize(p, k) ==
    IF cache[p] # None THEN k = cache[p] /\ UNCHANGED <<cache, ctl>> ELSE Load(p, k)

\* applySignal, recoverRestricted and setQuotaLevel through the mutation chain: memory first.
Mutate(k, kind, by) ==
    /\ ctl[k].step = "idle"
    /\ ctl' = [ctl EXCEPT ![k].mem = transition(@, kind), ![k].step = "check", ![k].by = by]

\* The same on the controller the registry has or loads.
MutateRegistered(p, kind, by) ==
    IF cache[p] # None THEN Mutate(cache[p], kind, by) /\ UNCHANGED <<cache>>
    ELSE \E k \in Ctls \ InUse :
            /\ cache' = [cache EXCEPT ![p] = k]
            /\ ctl' = [ctl EXCEPT ![k] = [proc |-> p, mem |-> transition(row, kind), step |-> "check", by |-> by]]

\* A mutant: a write that failed is answered like one that landed.
AnswerAlways(by, ok) ==
    cons' = [p \in Procs |->
                IF cons[p].step = "mutating" /\ cons[p].cmd = by
                THEN [cons[p] EXCEPT !.step = IF by \in Recoveries THEN "changed" ELSE "written"]
                ELSE cons[p]]

\* What the origin of a write learns.
Answer(by, ok) ==
    cons' = [p \in Procs |->
                IF cons[p].step = "mutating" /\ cons[p].cmd = by
                THEN [cons[p] EXCEPT !.step = IF ~ok THEN "error"
                                              ELSE IF by \in Recoveries THEN "changed" ELSE "written"]
                ELSE cons[p]]

\* saveState asks for the owner; another one refuses the write, and handleNotOwned evicts
\* whatever the registry holds for the account.
SaveStateReads(k) ==
    /\ ctl[k].step = "check"
    /\ IF owner = ctl[k].proc
       THEN ctl' = [ctl EXCEPT ![k].step = "write"] /\ UNCHANGED <<cache, cons>>
       ELSE /\ ctl' = [ctl EXCEPT ![k].step = "idle", ![k].by = None]
            /\ cache' = [cache EXCEPT ![ctl[k].proc] = None]
            /\ Answer(ctl[k].by, FALSE)
    /\ UNCHANGED <<owner, row, now, conns, hs, sweep, sent, acked, out, reports, shakes, faults, resumed, wrote>>

\* upsertStateUnconditional.
SaveStateWrites(k) ==
    /\ ctl[k].step = "write"
    /\ ctl' = [ctl EXCEPT ![k].step = "idle", ![k].by = None]
    /\ \/ /\ row' = ctl[k].mem /\ Answer(ctl[k].by, TRUE) /\ UNCHANGED faults
          /\ wrote' = wrote \cup ({ctl[k].by} \cap Commands)
       \/ /\ faults < MaxFaults /\ faults' = faults + 1
          /\ Answer(ctl[k].by, FALSE) /\ UNCHANGED <<row, wrote>>
    /\ UNCHANGED <<owner, now, cache, conns, hs, sweep, sent, acked, out, reports, shakes, resumed>>

------------------------------------------------------------------------------
(* Connections, ownership, the sweeper.                                    *)

\* onHandshake and resolveOwnership: the account follows the connection; a change of owner
\* evicts, and the connection captures the controller the registry then has.
HandshakeClaims(p) ==
    /\ hs[p] = "none" /\ owner' = p /\ shakes < MaxShakes /\ shakes' = shakes + 1
    /\ hs' = [hs EXCEPT ![p] = IF owner = p THEN "resolve" ELSE "claimed"]
    /\ UNCHANGED <<row, now, cache, ctl, conns, sweep, cons, sent, acked, out, reports, faults,
                   resumed, wrote>>
HandshakeCaptures(p) ==
    /\ hs[p] # "none" /\ hs' = [hs EXCEPT ![p] = "none"]
    /\ \E k \in Ctls : /\ conns' = conns \cup {k}
                       /\ IF hs[p] = "claimed" THEN Load(p, k) ELSE Materialize(p, k)
    /\ UNCHANGED <<owner, row, now, sweep, cons, sent, acked, out, reports, shakes, faults, resumed, wrote>>

\* onDisconnect.
Disconnect(k) ==
    /\ k \in conns /\ conns' = conns \ {k}
    /\ UNCHANGED <<owner, row, now, cache, ctl, hs, sweep, cons, sent, acked, out, reports, shakes, faults,
                   resumed, wrote>>

\* onDetected: a blocking overlay on a connection is a signal for the registry's controller,
\* which is not always the one the connection has captured.
onDetected(p) ==
    /\ \E k \in conns : ctl[k].proc = p
    /\ reports < MaxReports /\ reports' = reports + 1
    /\ \E kind \in {"light", "confirmed"} : MutateRegistered(p, kind, "conn")
    /\ UNCHANGED <<owner, row, now, conns, hs, sweep, cons, sent, acked, out, faults, shakes, resumed, wrote>>

\* sweepOnce: a due row of an account that is owned here ...
SweepReads(p) ==
    /\ p \notin sweep /\ Due(row) /\ owner = p /\ sweep' = sweep \cup {p}
    /\ UNCHANGED <<owner, row, now, cache, ctl, conns, hs, cons, sent, acked, out, reports, shakes, faults,
                   resumed, wrote>>
\* ... and the controller's own state decides again.
SweepActs(p) ==
    /\ p \in sweep /\ sweep' = sweep \ {p}
    /\ LET s == IF cache[p] = None THEN row ELSE ctl[cache[p]].mem
       IN  IF Due(s) THEN MutateRegistered(p, "recovered", "sweep")
           ELSE \E k \in Ctls : Materialize(p, k)
    /\ UNCHANGED <<owner, row, now, conns, hs, cons, sent, acked, out, reports, shakes, faults, resumed, wrote>>

Tick ==
    /\ now < MaxTime /\ now' = now + 1
    /\ UNCHANGED <<owner, row, cache, ctl, conns, hs, sweep, cons, sent, acked, out, reports, shakes, faults,
                   resumed, wrote>>

------------------------------------------------------------------------------
(* Commands.                                                               *)

\* submit: the command is emitted.  The submitter's row that follows is best effort, and the
\* handler does not tell a submitted command from one without a row.
Emit(c, p) ==
    /\ sent[c] = None /\ sent' = [sent EXCEPT ![c] = p]
    /\ UNCHANGED <<owner, row, now, cache, ctl, conns, hs, sweep, cons, acked, out, reports, shakes, faults,
                   resumed, wrote>>

\* A step of the consumer of p: its place, the outcome row, the cursor.
Goto(p, step) == cons' = [cons EXCEPT ![p].step = step]
Return(p) == cons' = [cons EXCEPT ![p].step = "returned", ![p].ctl = None] /\ UNCHANGED acked
Throw(p) == cons' = [cons EXCEPT ![p] = Idle] /\ UNCHANGED acked
NoFault == UNCHANGED <<owner, row, now, conns, hs, sweep, sent, reports, shakes, wrote>>
ConsumerOnly == NoFault /\ UNCHANGED faults
Fault == NoFault /\ faults < MaxFaults /\ faults' = faults + 1

\* restrictedRecoveryStageOf.
Stage(c) == IF out[c].state = "applied" THEN out[c].resume ELSE out[c].state

\* The rows the handler writes: the mark, a refusal or failure, and a recovery that was carried out
\* but has not resumed the edges.
Recorded(c, st) == [out EXCEPT ![c].state = st]
Ended(c, st) == Recorded(c, st)
AppliedDomain(c, changed) == [out EXCEPT ![c] = [state |-> "applied", changed |-> changed, resume |-> "pending"]]

\* What the submitter reads of a signal and of a recovery.
outcomeOf(c) ==
    IF sent[c] = None THEN "unknown"
    ELSE IF out[c].state \in {"applied", "failed"} THEN out[c].state ELSE "processing"
restrictedRecoveryOutcomeOf(c) ==
    IF sent[c] = None THEN "unknown"
    ELSE CASE out[c].state \in {"refused", "failed"} -> out[c].state
           [] out[c].state = "applied" /\ out[c].resume = "completed" -> "applied"
           [] OTHER -> "processing"

\* The consumer is handed the oldest command it has not acknowledged.
Deliver(p) ==
    \E c \in Commands :
        /\ cons[p].step = "idle" /\ sent[c] = p /\ c \notin acked
        /\ cons' = [cons EXCEPT ![p] = [cmd |-> c, step |-> "staged", ctl |-> None]]
        /\ UNCHANGED <<cache, ctl, acked, out, resumed>> /\ ConsumerOnly

\* A mutant: a failed recovery is tried again.
MarkApplyingAgain(p) ==
    LET c == cons[p].cmd
    IN  /\ cons[p].step = "staged" /\ c \in Recoveries
        /\ CASE Stage(c) \in {"refused", "completed"} -> Return(p) /\ UNCHANGED out
             [] Stage(c) \in {"pending", "claimed"} -> Goto(p, "resume") /\ UNCHANGED <<out, acked>>
             [] OTHER -> Goto(p, "marked") /\ out' = Recorded(c, "applying") /\ UNCHANGED acked
        /\ UNCHANGED <<cache, ctl, resumed>> /\ ConsumerOnly

\* The head of the recovery handler: what an earlier delivery has left decides.
markRestrictedRecoveryApplying(p) ==
    LET c == cons[p].cmd
    IN  /\ cons[p].step = "staged" /\ c \in Recoveries
        /\ CASE Stage(c) \in {"refused", "failed", "completed"} -> Return(p) /\ UNCHANGED out
             [] Stage(c) \in {"pending", "claimed"} -> Goto(p, "resume") /\ UNCHANGED <<out, acked>>
             [] Stage(c) = "applying" -> Return(p) /\ out' = Ended(c, "failed")
             [] OTHER -> Goto(p, "marked") /\ out' = Recorded(c, "applying") /\ UNCHANGED acked
        /\ UNCHANGED <<cache, ctl, resumed>> /\ ConsumerOnly

\* getController for the command; it may fail.
CommandGetsController(p) ==
    /\ cons[p].step = IF cons[p].cmd \in Recoveries THEN "marked" ELSE "staged"
    /\ \/ /\ \E k \in Ctls : Materialize(p, k) /\ cons' = [cons EXCEPT ![p].ctl = k, ![p].step = "got"]
          /\ ConsumerOnly
       \/ Goto(p, "error") /\ Fault /\ UNCHANGED <<cache, ctl>>
    /\ UNCHANGED <<acked, out, resumed>>

\* recoverRestricted: normal is accepted as done, only restricted is recovered.
recoverRestricted(p) ==
    LET k == cons[p].ctl
    IN  /\ cons[p].step = "got" /\ cons[p].cmd \in Recoveries /\ ctl[k].step = "idle"
        /\ CASE ctl[k].mem.st = "normal" -> Goto(p, "accepted") /\ UNCHANGED ctl
             [] ctl[k].mem.st = "restricted" -> /\ Mutate(k, "operator_override_recover", cons[p].cmd)
                                                /\ Goto(p, "mutating")
             [] OTHER -> Goto(p, "refused") /\ UNCHANGED ctl
        /\ UNCHANGED <<cache, acked, out, resumed>> /\ ConsumerOnly

\* recordRestrictedRecoveryRefused and ...Failed.
RecordRecoveryRefused(p) ==
    /\ cons[p].step \in {"refused", "error"} /\ cons[p].cmd \in Recoveries
    /\ out' = Ended(cons[p].cmd, IF cons[p].step = "refused" THEN "refused" ELSE "failed")
    /\ Return(p) /\ UNCHANGED <<cache, ctl, resumed>> /\ ConsumerOnly

\* recordRestrictedRecoveryAppliedDomain; when it cannot be recorded the outcome says so.
RecordRecoveryApplied(p) ==
    LET c == cons[p].cmd
    IN  /\ cons[p].step \in {"accepted", "changed"}
        /\ \/ /\ out' = AppliedDomain(c, cons[p].step = "changed")
              /\ Goto(p, "resume") /\ UNCHANGED acked /\ ConsumerOnly
           \/ /\ out' = Ended(c, "failed") /\ Return(p) /\ Fault
        /\ UNCHANGED <<cache, ctl, resumed>>

\* A mutant: a claim that is already there is taken again.
ClaimResumeAgain(p) ==
    LET c == cons[p].cmd
    IN  /\ cons[p].step = "resume"
        /\ out' = [out EXCEPT ![c].resume = "claimed"] /\ Goto(p, "claimed") /\ UNCHANGED acked
        /\ UNCHANGED <<cache, ctl, resumed>> /\ ConsumerOnly

\* finishResume: only the claim may resume; a claim without a result is recorded as unknown.
ClaimResume(p) ==
    LET c == cons[p].cmd
    IN  /\ cons[p].step = "resume"
        /\ CASE out[c].resume = "pending" -> /\ out' = [out EXCEPT ![c].resume = "claimed"]
                                             /\ Goto(p, "claimed") /\ UNCHANGED acked
             [] out[c].resume = "claimed" -> out' = [out EXCEPT ![c].resume = "completed"] /\ Return(p)
             [] OTHER -> Return(p) /\ UNCHANGED out
        /\ UNCHANGED <<cache, ctl, resumed>> /\ ConsumerOnly

\* resumeEdgesForAccount, then recordRestrictedRecoveryResumeResult.
ResumeEdges(p) ==
    /\ cons[p].step = "claimed" /\ Goto(p, "resumed")
    /\ resumed' = [resumed EXCEPT ![cons[p].cmd] = @ + 1]
    /\ UNCHANGED <<cache, ctl, acked, out>> /\ ConsumerOnly
RecordResumeResult(p) ==
    /\ cons[p].step = "resumed" /\ out' = [out EXCEPT ![cons[p].cmd].resume = "completed"] /\ Return(p)
    /\ UNCHANGED <<cache, ctl, resumed>> /\ ConsumerOnly

\* The other commands: applied, then recorded; a failure is recorded and thrown.
ApplySignal(p) ==
    /\ cons[p].step = "got" /\ cons[p].cmd \in Signals
    /\ Mutate(cons[p].ctl, "light", cons[p].cmd) /\ Goto(p, "mutating")
    /\ UNCHANGED <<cache, acked, out, resumed>> /\ ConsumerOnly
RecordApplied(p) ==
    /\ cons[p].step = "written" /\ Return(p)
    /\ out' = [out EXCEPT ![cons[p].cmd].state = "applied"]
    /\ UNCHANGED <<cache, ctl, resumed>> /\ ConsumerOnly
RecordFailed(p) ==
    /\ cons[p].step = "error" /\ cons[p].cmd \in Signals /\ Throw(p)
    /\ out' = [out EXCEPT ![cons[p].cmd].state = "failed"]
    /\ UNCHANGED <<cache, ctl, resumed>> /\ ConsumerOnly

\* A database call of the handler fails and it throws: the command is delivered again.
HandlerThrows(p) ==
    /\ \/ cons[p].step = "staged" /\ cons[p].cmd \in Recoveries
       \/ cons[p].step \in {"refused", "error", "resume", "claimed", "resumed", "written", "returned"}
    /\ Throw(p) /\ Fault /\ UNCHANGED <<cache, ctl, out, resumed>>

\* The handler has returned: the consumer's cursor passes the command.
AdvanceCursor(p) ==
    /\ cons[p].step = "returned"
    /\ cons' = [cons EXCEPT ![p] = Idle] /\ acked' = acked \cup {cons[p].cmd}
    /\ UNCHANGED <<cache, ctl, out, resumed>> /\ ConsumerOnly

\* The process stops: what it had in memory is gone.
Crash(p) ==
    LET mine == {k \in Ctls : ctl[k].proc = p}
    IN  /\ faults < MaxFaults /\ faults' = faults + 1
        /\ cache' = [cache EXCEPT ![p] = None] /\ conns' = conns \ mine
        /\ ctl' = [k \in Ctls |-> IF k \in mine THEN NoCtl ELSE ctl[k]]
        /\ hs' = [hs EXCEPT ![p] = "none"] /\ sweep' = sweep \ {p} /\ cons' = [cons EXCEPT ![p] = Idle]
        /\ UNCHANGED <<owner, row, now, sent, acked, out, reports, shakes, resumed, wrote>>

Consume(p) ==
    \/ Deliver(p) \/ markRestrictedRecoveryApplying(p) \/ CommandGetsController(p)
    \/ recoverRestricted(p) \/ RecordRecoveryRefused(p) \/ RecordRecoveryApplied(p)
    \/ ClaimResume(p) \/ ResumeEdges(p) \/ RecordResumeResult(p)
    \/ ApplySignal(p) \/ RecordApplied(p) \/ RecordFailed(p) \/ AdvanceCursor(p)

Next ==
    \/ Tick
    \/ \E k \in Ctls : SaveStateReads(k) \/ SaveStateWrites(k) \/ Disconnect(k)
    \/ \E c \in Commands : \E p \in Procs : Emit(c, p)
    \/ \E p \in Procs : \/ HandshakeClaims(p) \/ HandshakeCaptures(p) \/ onDetected(p)
                        \/ SweepReads(p) \/ SweepActs(p) \/ Consume(p) \/ HandlerThrows(p) \/ Crash(p)

Spec == Init /\ [][Next]_vars

------------------------------------------------------------------------------
(* Properties.                                                             *)

\* A recovery resumes the edges of the account at most once, however often its command is
\* delivered: the claim in the ledger comes before the call (createRiskCommandApplyHandler).
ResumedOnce == \A c \in Recoveries : resumed[c] <= 1

\* A command that is reported as carried out has reached the table, and a recovery that is
\* reported as refused has not, whatever was delivered twice or failed on the way (outcomeOf,
\* restrictedRecoveryOutcomeOf against saveState).
OutcomeHonest ==
    /\ \A c \in Recoveries :
          /\ restrictedRecoveryOutcomeOf(c) = "applied" /\ out[c].changed => c \in wrote
          /\ restrictedRecoveryOutcomeOf(c) = "refused" => c \notin wrote
    /\ \A c \in Signals : outcomeOf(c) = "applied" => c \in wrote

\* A recovery's final outcome is final: no late or repeated delivery rewrites what the submitter
\* has read (createRiskCommandApplyHandler, restrictedRecoveryOutcomeOf).
OutcomeStable ==
    [][\A c \in Recoveries :
          restrictedRecoveryOutcomeOf(c) \in {"applied", "refused", "failed"} =>
              /\ restrictedRecoveryOutcomeOf(c)' = restrictedRecoveryOutcomeOf(c)
              /\ out'[c].changed = out[c].changed]_vars
==============================================================================
