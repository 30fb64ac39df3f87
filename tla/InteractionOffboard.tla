------------------------- MODULE InteractionOffboard -------------------------
(***************************************************************************)
(* The binding of one account to an environment of the interaction inbox,  *)
(* its runtime controls, and the offboarding that ends a binding: the      *)
(* admission that materialises it, the cleanup the edge confirms, the      *)
(* purge in three transactions.                                            *)
(*                                                                         *)
(* Sources: src/src/interactions/interaction-store.ts,                     *)
(* offboard-admission-reconciler.ts, offboard-write-adapter.ts,            *)
(* offboarding-service.ts, offboard-cleanup-grant-ops.ts.                  *)
(*                                                                         *)
(* Abstractions.  The account itself is left out of every key; an offboard *)
(* of an environment nobody was bound to carries a placeholder account.    *)
(* The hosts that share the database each run the purge on a timer of      *)
(* their own.                                                              *)
(* Capabilities and the switches per channel are one flag each.            *)
(***************************************************************************)
EXTENDS Naturals, FiniteSets

CONSTANTS
    Envs,
    Hosts,          \* the processes that purge, on one database
    FailureLimit,   \* consecutiveFailureLimit
    MaxChanges,     \* bound: bindings, offboards and switches by people
    None

ASSUME OffboardAssumption == None \notin Envs /\ FailureLimit \in Nat \ {0} /\ MaxChanges \in Nat

VARIABLES
    auth,           \* interaction_auth_state: the environment bound and whether it is active
    controls,       \* interaction_runtime_controls
    replyConfig,    \* the environment the account's reply configuration was made for, or None
    offboards,      \* interaction_offboards, per environment
    held,           \* api: revocations waiting to be materialised
    reconciler,     \* the candidate an admission round has claimed
    purge,          \* the offboard each host's purge has picked
    receipts,       \* auth reports api has authorised, not written yet
    cleared,        \* environments the edge has cleaned
    changes,
    lost            \* history: what was purged of a live binding, "overtaken" by a late purge

offVars == <<auth, controls, replyConfig, offboards, held, reconciler, purge, receipts, cleared, changes, lost>>

NoAuth == [env |-> None, active |-> FALSE]
NoControls == [env |-> None, paused |-> FALSE, fails |-> 0]
NoOffboard == [state |-> "none", bound |-> FALSE, grant |-> "none"]
NoPurge == [env |-> None, scoped |-> FALSE, step |-> "idle", late |-> FALSE]
Receipt == [env : Envs, active : BOOLEAN]
NoClaim == [env |-> None, step |-> "idle"]

OffboardTypeOK ==
    /\ auth \in [env : Envs \cup {None}, active : BOOLEAN]
    /\ controls \in [env : Envs \cup {None}, paused : BOOLEAN, fails : 0..FailureLimit]
    /\ replyConfig \in Envs \cup {None} /\ held \subseteq Envs /\ cleared \subseteq Envs
    /\ offboards \in [Envs -> [state : {"none", "pending_edge", "dispatched", "tombstoned", "purged"},
                               bound : BOOLEAN, grant : {"none", "issued", "used"}]]
    /\ reconciler \in [env : Envs \cup {None}, step : {"idle", "claimed", "done"}]
    /\ purge \in [Hosts -> [env : Envs \cup {None}, scoped : BOOLEAN,
                            step : {"idle", "config", "flip"}, late : BOOLEAN]]
    /\ receipts \subseteq Receipt
    /\ changes \in 0..MaxChanges /\ lost \subseteq {"controls", "config", "overtaken"}

OffboardInit ==
    /\ \E e \in Envs : /\ auth = [env |-> e, active |-> TRUE] /\ replyConfig = e
                       /\ controls = [NoControls EXCEPT !.env = e]
    /\ offboards = [e \in Envs |-> NoOffboard] /\ held = {} /\ reconciler = NoClaim
    /\ purge = [h \in Hosts |-> NoPurge] /\ receipts = {} /\ cleared = {} /\ changes = 0 /\ lost = {}

Open(e) == offboards[e].state \in {"pending_edge", "dispatched", "tombstoned"}
Change == changes < MaxChanges /\ changes' = changes + 1

------------------------------------------------------------------------------
(* Bindings.                                                               *)

\* authorizeAuthStateWrite: api authorises a report of the edge, for a while and one write.
Authorize(r) ==
    /\ Change /\ r.env \notin held /\ receipts' = receipts \cup {r}
    /\ UNCHANGED <<auth, controls, replyConfig, offboards, held, reconciler, purge, cleared, lost>>

\* upsertAuthStatus, the transaction: a binding to another environment refuses, an offboard that is
\* not purged makes the report a note in the audit.  What api holds by now is not asked again.
upsertAuthStatus(r) ==
    /\ r \in receipts /\ receipts' = receipts \ {r}
    /\ auth.env \in {None, r.env}
    /\ IF Open(r.env) /\ offboards[r.env].bound THEN UNCHANGED <<auth, controls>>
       ELSE /\ auth' = r
            /\ controls' = [controls EXCEPT !.env = r.env]
    /\ UNCHANGED <<replyConfig, offboards, held, reconciler, purge, cleared, changes, lost>>
\* The binding refuses, or the receipt has run out.
AuthStatusRefused(r) ==
    /\ r \in receipts /\ receipts' = receipts \ {r}
    /\ UNCHANGED <<auth, controls, replyConfig, offboards, held, reconciler, purge, cleared, changes, lost>>

\* The customer configures replies for the binding there is.
ConfigureReplies ==
    /\ Change /\ auth.env # None /\ replyConfig' = auth.env
    /\ UNCHANGED <<auth, controls, offboards, held, reconciler, purge, receipts, cleared, lost>>

\* updateRuntimeControls: switching writes on again resets the breaker.
updateRuntimeControls(on) ==
    /\ Change /\ controls.env # None
    /\ controls' = [controls EXCEPT !.paused = ~on, !.fails = IF on /\ controls.paused THEN 0 ELSE @]
    /\ UNCHANGED <<auth, replyConfig, offboards, held, reconciler, purge, receipts, cleared, lost>>

\* noteSendOutcome: the breaker.  Failures past the limit are not told apart.
noteSendOutcome(confirmed) ==
    IF controls.env = None THEN controls
    ELSE IF confirmed THEN [controls EXCEPT !.fails = 0]
    ELSE LET n == IF controls.fails < FailureLimit THEN controls.fails + 1 ELSE FailureLimit
         IN  [controls EXCEPT !.fails = n, !.paused = @ \/ n >= FailureLimit]

------------------------------------------------------------------------------
(* Admission: api holds the environment, a round materialises the offboard. *)

Revoke(e) ==
    /\ Change /\ e \notin held /\ held' = held \cup {e}
    /\ UNCHANGED <<auth, controls, replyConfig, offboards, reconciler, purge, receipts, cleared, lost>>

claimPendingMaterializations(e) ==
    /\ reconciler = NoClaim /\ e \in held /\ reconciler' = [env |-> e, step |-> "claimed"]
    /\ UNCHANGED <<auth, controls, replyConfig, offboards, held, purge, receipts, cleared, changes, lost>>

revokeInteractionAccess(env) ==
    /\ auth' = IF auth.env # None THEN [auth EXCEPT !.active = FALSE] ELSE auth
    /\ controls' = IF controls.env # None THEN [controls EXCEPT !.paused = TRUE] ELSE controls

\* materializeEnvironmentOffboard: an open offboard of the environment is kept.
materializeEnvironmentOffboard ==
    LET e == reconciler.env
    IN  /\ reconciler.step = "claimed"
        /\ IF auth.env = e
           THEN /\ Open(e) => offboards[e].bound
                /\ offboards' = IF Open(e) THEN offboards
                                ELSE [offboards EXCEPT ![e] = [NoOffboard EXCEPT !.state = "pending_edge",
                                                                                 !.bound = TRUE]]
                /\ revokeInteractionAccess(e) /\ reconciler' = [reconciler EXCEPT !.step = "done"]
           ELSE \E unboundTerminalAllowed \in BOOLEAN :
                   IF unboundTerminalAllowed
                   THEN /\ Open(e) => ~offboards[e].bound
                        /\ offboards' = IF Open(e) THEN offboards
                                        ELSE [offboards EXCEPT ![e] = [NoOffboard EXCEPT !.state = "tombstoned"]]
                        /\ reconciler' = [reconciler EXCEPT !.step = "done"] /\ UNCHANGED <<auth, controls>>
                   ELSE /\ reconciler' = NoClaim /\ UNCHANGED offboards
                        /\ IF controls.env = e THEN revokeInteractionAccess(e) ELSE UNCHANGED <<auth, controls>>
        /\ UNCHANGED <<replyConfig, held, purge, receipts, cleared, changes, lost>>

recordMaterializationReceipt ==
    /\ reconciler.step = "done" /\ held' = held \ {reconciler.env} /\ reconciler' = NoClaim
    /\ UNCHANGED <<auth, controls, replyConfig, offboards, purge, receipts, cleared, changes, lost>>

\* A round stops half way (an error, a crash): the claim's lease runs out.
RoundStops ==
    /\ reconciler # NoClaim /\ reconciler' = NoClaim
    /\ UNCHANGED <<auth, controls, replyConfig, offboards, held, purge, receipts, cleared, changes, lost>>

------------------------------------------------------------------------------
(* The edge's cleanup.                                                     *)

pendingOffboards == {e \in Envs : offboards[e].state \in {"pending_edge", "dispatched"}}

\* dispatchPending, on welcome or from the retry.
dispatchPending(e) ==
    /\ e \in pendingOffboards
    /\ offboards' = [offboards EXCEPT ![e].state = "dispatched"]
    /\ UNCHANGED <<auth, controls, replyConfig, held, reconciler, purge, receipts, cleared, changes, lost>>

issueCleanupGrant(e) ==
    /\ Change /\ e \in pendingOffboards
    /\ offboards' = [offboards EXCEPT ![e].grant = "issued"]
    /\ UNCHANGED <<auth, controls, replyConfig, held, reconciler, purge, receipts, cleared, lost>>
consumeCleanupGrant(e) ==
    /\ e \in pendingOffboards /\ offboards[e].grant = "issued"
    /\ offboards' = [offboards EXCEPT ![e].grant = "used"]
    /\ UNCHANGED <<auth, controls, replyConfig, held, reconciler, purge, receipts, cleared, changes, lost>>

\* The edge cleans up what a dispatched or granted offboard tells it to.
EdgeCleans(e) ==
    /\ offboards[e].state = "dispatched" \/ offboards[e].grant = "used"
    /\ e \notin cleared /\ cleared' = cleared \cup {e}
    /\ UNCHANGED <<auth, controls, replyConfig, offboards, held, reconciler, purge, receipts, changes, lost>>

\* applyOffboardResult, of a cleanup that succeeded.  The reply texts go with it (ContentErased).
applyOffboardCleared(e) ==
    /\ e \in cleared /\ e \in pendingOffboards
    /\ offboards' = [offboards EXCEPT ![e].state = "tombstoned"]
    /\ auth' = IF auth.env = e THEN [auth EXCEPT !.active = FALSE] ELSE auth
    /\ UNCHANGED <<controls, replyConfig, held, reconciler, purge, receipts, cleared, changes, lost>>
\* One that failed is dispatched again.
applyOffboardFailed(e) ==
    /\ Change /\ offboards[e].state = "dispatched"
    /\ offboards' = [offboards EXCEPT ![e].state = "pending_edge"]
    /\ UNCHANGED <<auth, controls, replyConfig, held, reconciler, purge, receipts, cleared, lost>>

------------------------------------------------------------------------------
(* purgeDueOffboards: three transactions, any of which may be the last; a  *)
(* row another host has picked may be picked again between them.           *)

\* Deleting what belongs to the account, whoever it is bound to by now.
AccountDataPurged(e, what) == lost' = IF auth.env \in {None, e} THEN lost ELSE lost \cup {what}

\* A mutant: the binding goes first.
PurgeRowsUnbinds(h, e) ==
    /\ purge[h] = NoPurge /\ Open(e)
    /\ LET scoped == offboards[e].bound /\ auth.env = e
       IN  /\ purge' = [purge EXCEPT ![h] = [env |-> e, scoped |-> scoped, late |-> FALSE,
                                                 step |-> IF scoped THEN "config" ELSE "flip"]]
           /\ controls' = IF scoped THEN NoControls ELSE controls
           /\ auth' = IF scoped THEN NoAuth ELSE auth
           /\ IF scoped THEN AccountDataPurged(e, "controls") ELSE UNCHANGED lost
    /\ UNCHANGED <<replyConfig, offboards, held, reconciler, receipts, cleared, changes>>

\* Step A: the rows of the environment, and of the account when it is bound to it.
PurgeRows(h, e) ==
    /\ purge[h] = NoPurge /\ Open(e)
    /\ LET scoped == offboards[e].bound /\ auth.env = e
       IN  /\ purge' = [purge EXCEPT ![h] = [env |-> e, scoped |-> scoped, late |-> FALSE,
                                                 step |-> IF scoped THEN "config" ELSE "flip"]]
           /\ controls' = IF scoped THEN NoControls ELSE controls
           /\ IF scoped THEN AccountDataPurged(e, "controls") ELSE UNCHANGED lost
    /\ UNCHANGED <<auth, replyConfig, offboards, held, reconciler, receipts, cleared, changes>>
\* Step B, at the api's side: by account, without looking again.
PurgeReplyConfig(h) ==
    /\ purge[h].step = "config" /\ purge' = [purge EXCEPT ![h].step = "flip"]
    /\ replyConfig' = None
    /\ AccountDataPurged(purge[h].env, IF purge[h].late THEN "overtaken" ELSE "config")
    /\ UNCHANGED <<auth, controls, offboards, held, reconciler, receipts, cleared, changes>>
\* Step C: the state and the binding together; a host that comes late finds the row purged.
PurgeFlips(h) ==
    LET e == purge[h].env
    IN  /\ purge[h].step = "flip"
        /\ IF purge[h].late
           THEN purge' = [purge EXCEPT ![h] = NoPurge] /\ UNCHANGED <<offboards, auth>>
           ELSE /\ purge' = [g \in Hosts |-> IF g = h THEN NoPurge
                                             ELSE IF purge[g].env = e THEN [purge[g] EXCEPT !.late = TRUE]
                                             ELSE purge[g]]
                /\ offboards' = [offboards EXCEPT ![e].state = "purged"]
                /\ auth' = IF offboards[e].bound /\ auth.env = e THEN NoAuth ELSE auth
        /\ UNCHANGED <<controls, replyConfig, held, reconciler, receipts, cleared, changes, lost>>
PurgeStops(h) ==
    /\ purge[h] # NoPurge /\ purge' = [purge EXCEPT ![h] = NoPurge]
    /\ UNCHANGED <<auth, controls, replyConfig, offboards, held, reconciler, receipts, cleared, changes, lost>>

------------------------------------------------------------------------------
\* The steps that touch nothing of the inbox.
OffboardStep ==
    \/ ConfigureReplies \/ materializeEnvironmentOffboard
    \/ recordMaterializationReceipt \/ RoundStops
    \/ \E h \in Hosts : PurgeReplyConfig(h) \/ PurgeFlips(h) \/ PurgeStops(h)
    \/ \E r \in Receipt : Authorize(r) \/ upsertAuthStatus(r) \/ AuthStatusRefused(r)
    \/ \E on \in BOOLEAN : updateRuntimeControls(on)
    \/ \E e \in Envs : \/ Revoke(e) \/ claimPendingMaterializations(e) \/ dispatchPending(e)
                       \/ issueCleanupGrant(e) \/ consumeCleanupGrant(e) \/ EdgeCleans(e)
                       \/ applyOffboardFailed(e)

\* The purge of one environment never deletes what belongs to the account in another one, neither
\* its runtime controls nor its reply configuration: the binding row is deleted last, together with
\* the flip, so a rerun after a crash sees the same binding and no rebinding comes in between (the
\* two levels of purgeDueOffboards).  The one exception is the reply configuration, when the other
\* host has flipped the row since this one picked it: the binding is gone by then, a new one may
\* have been made, and step B deletes by account without looking again.
LiveDataKept == lost \subseteq {"overtaken"}
==============================================================================
