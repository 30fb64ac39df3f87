------------------------------- MODULE SyncReads -------------------------------
(***************************************************************************)
(* The synchronous reads between the automation process and the API: the   *)
(* facts the process owns, numbered in a generation row, announced through *)
(* the outbox and served as snapshots; and the facts it consumes, mirrored *)
(* with a checkpoint, of which the account roster is also kept in a        *)
(* projection that the processes of all targets share.                     *)
(*                                                                         *)
(* Sources: src/src/automation-composition-root.ts and, in                 *)
(* src/src/transport, automation-sync-read-source.ts,                      *)
(* automation-sync-read-generation-store.ts, sync-read-changed-outbox.ts,  *)
(* sync-read-changed-http.ts, sync-read-snapshot-http.ts,                  *)
(* automation-sync-read-checkpoint-store.ts, account-projection-store.ts,  *)
(* automation-sync-read-mirrors.ts.                                        *)
(*                                                                         *)
(* Abstractions.  One owned and two consumed streams stand for all; the    *)
(* value of a consumed stream is its version; time is left out, so that a  *)
(* mirror that was filled stays fresh until a refresh fails.               *)
(***************************************************************************)
EXTENDS ServiceLifecycle

CONSTANTS
    Values,      \* values of the owned fact
    MaxVersion   \* bound: versions of a consumed stream, generations of the owned one

ASSUME FactAssumption ==
    /\ None \notin [val : Values, gen : Nat] /\ None \notin [v : Nat, stored : BOOLEAN]
    /\ MaxVersion \in Nat

VARIABLES
    runtime,     \* the owned fact as each process sees it
    row,         \* the generation row of the target
    pub,         \* a publication in progress: the value read, then its generation
    observed,    \* observedRuntimeSnapshots of each process
    ownerReady,  \* the owner side of the readiness
    asked,       \* a snapshot request in progress: the durable generation read
    api,         \* what the API has applied of the owned fact
    told,        \* the generation up to which the relay's events are acknowledged
    source,      \* the version of each consumed stream at the API
    fetch,       \* a fetch in progress
    mirror,      \* the mirrors of each process
    checkpoint,  \* the checkpoints of the target
    projection   \* the cursor of the roster rows, shared by the targets

reads == <<runtime, row, pub, observed, ownerReady, asked, api, told, source, fetch, mirror, checkpoint, projection>>
owner == <<runtime, row, pub, observed, ownerReady, asked, api, told>>
consumer == <<source, fetch, mirror, checkpoint, projection>>

Streams == {"roster", "config"}
NoFact == [gen |-> 0, val |-> None]
Empty == [cur |-> 0, ready |-> FALSE, restored |-> FALSE]

ReadsInit ==
    /\ \E v \in Values : runtime = [p \in Procs |-> v]
    /\ row = [gen |-> 0, val |-> None, emitted |-> 0]
    /\ pub = [p \in Procs |-> None] /\ observed = [p \in Procs |-> NoFact]
    /\ ownerReady = [p \in Procs |-> FALSE]
    /\ asked = [p \in Procs |-> None] /\ api = NoFact /\ told = 0
    /\ source = [s \in Streams |-> 1]
    /\ fetch = [p \in Procs |-> [s \in Streams |-> None]]
    /\ mirror = [p \in Procs |-> [s \in Streams |-> Empty]]
    /\ checkpoint = [s \in Streams |-> 0] /\ projection = 0

-----------------------------------------------------------------------------
(* The owned fact *)

\* Edges come and go, once the process listens for them.
FactChanges(p) ==
    /\ "edge" \in parts[p]
    /\ \E v \in Values \ {runtime[p]} : runtime' = [runtime EXCEPT ![p] = v]
    /\ UNCHANGED <<row, pub, observed, ownerReady, asked, api, told, consumer, life, inputs>>

\* One publication of a stream at a time: the value is read when its turn comes.
publishChanged(p) ==
    /\ Serving(p) /\ pub[p] = None
    /\ pub' = [pub EXCEPT ![p] = [val |-> runtime[p], gen |-> 0]]
    /\ UNCHANGED <<runtime, row, observed, ownerReady, asked, api, told, consumer, life, inputs>>

\* Mutant: the generation is counted only when the row is new.
SameGeneration(v) == IF row.gen = 0 THEN 1 ELSE row.gen

\* The generation moves when the digest differs.
NextGeneration(v) == IF row.val = v THEN row.gen ELSE row.gen + 1

\* One upsert; the snapshot is remembered when it has returned, before the change is announced.
observe(p) ==
    /\ pub[p] # None /\ pub[p].gen = 0
    /\ NextGeneration(pub[p].val) <= MaxVersion
    /\ LET g == NextGeneration(pub[p].val)
       IN  /\ row' = [row EXCEPT !.gen = g, !.val = pub[p].val]
           /\ observed' = [observed EXCEPT ![p] = [gen |-> g, val |-> pub[p].val]]
           /\ pub' = [pub EXCEPT ![p].gen = g]
    /\ UNCHANGED <<runtime, ownerReady, asked, api, told, consumer, life, inputs>>

\* The claim of the row and the outbox event are one statement.
MayAnnounce(g) == row.gen = g /\ row.emitted < g

emit(p) ==
    /\ pub[p] # None /\ pub[p].gen # 0
    /\ row' = [row EXCEPT !.emitted = IF MayAnnounce(pub[p].gen) THEN row.gen ELSE @]
    /\ ownerReady' = [ownerReady EXCEPT ![p] = TRUE]
    /\ pub' = [pub EXCEPT ![p] = None]
    /\ UNCHANGED <<runtime, observed, asked, api, told, consumer, life, inputs>>

\* The database refuses one of the two statements; the next cycle publishes again.
publishFails(p) ==
    /\ pub[p] # None /\ Input
    /\ pub' = [pub EXCEPT ![p] = None]
    /\ ownerReady' = [ownerReady EXCEPT ![p] = FALSE]
    /\ UNCHANGED <<runtime, row, observed, asked, api, told, consumer, life>>

\* The relay hands over the announced generation until it is acknowledged; the request for the
\* snapshot with which the API answers first reads the durable generation.
deliver(p) ==
    /\ Serving(p) /\ asked[p] = None /\ told < row.emitted
    /\ asked' = [asked EXCEPT ![p] = [gen |-> row.gen, val |-> row.val, signal |-> row.emitted]]
    /\ UNCHANGED <<runtime, row, pub, observed, ownerReady, api, told, consumer, life, inputs>>

\* What the process observed is served if it is that generation.
Served(p) == observed[p].gen = asked[p].gen /\ observed[p].val = asked[p].val

\* The signal is acknowledged when a snapshot at least as new has been applied.
Acknowledged(p) == Served(p) /\ observed[p].gen >= asked[p].signal

\* The API applies what is newer; the acknowledgement may be lost.
currentRuntimeSnapshot(p) ==
    /\ asked[p] # None
    /\ asked' = [asked EXCEPT ![p] = None]
    /\ api' = IF Served(p) /\ observed[p].gen > api.gen THEN observed[p] ELSE api
    /\ \/ Acknowledged(p) /\ told' = Max({told, asked[p].signal}) /\ UNCHANGED inputs
       \/ ~Acknowledged(p) /\ UNCHANGED <<told, inputs>>
       \/ Input /\ UNCHANGED told
    /\ UNCHANGED <<runtime, row, pub, observed, ownerReady, consumer, life>>

-----------------------------------------------------------------------------
(* The consumed facts *)

SourceChanges(s) ==
    /\ source[s] < MaxVersion
    /\ source' = [source EXCEPT ![s] = @ + 1]
    /\ UNCHANGED <<fetch, mirror, checkpoint, projection, owner, life, inputs>>

\* The first cycle restores the checkpoints, a cursor without a value; one it cannot read is left out.
restoreCheckpoints(p) ==
    /\ Serving(p) /\ \A s \in Streams : ~mirror[p][s].restored
    /\ \E unread \in SUBSET Streams :
        /\ IF unread = {} THEN UNCHANGED inputs ELSE Input
        /\ mirror' = [mirror EXCEPT ![p] = [s \in Streams |->
              [cur |-> IF s \in unread THEN 0 ELSE checkpoint[s], ready |-> FALSE, restored |-> TRUE]]]
    /\ UNCHANGED <<source, fetch, checkpoint, projection, owner, life>>

\* Cycles of one process follow each other; the answer may be of an instant long past.
refreshConsumerStream(p, s) ==
    /\ Serving(p) /\ fetch[p][s] = None /\ mirror[p][s].restored
    /\ mirror[p][s].cur < source[s] \/ ~mirror[p][s].ready
    /\ fetch' = [fetch EXCEPT ![p][s] = [v |-> source[s], stored |-> FALSE]]
    /\ UNCHANGED <<source, mirror, checkpoint, projection, owner, life, inputs>>

\* Mutant: an older roster replaces a newer one.
AnyCursor(v) == TRUE

NotOlder(v) == v >= projection

Filled(p, s, v) == [mirror EXCEPT ![p][s].cur = v, ![p][s].ready = TRUE]
Recover(p, s) == [mirror EXCEPT ![p][s].ready = FALSE]

\* Rows, shared cursor and checkpoint of the roster in one transaction, or a refusal.
applyOwnerSnapshot(p) ==
    /\ fetch[p]["roster"] # None /\ ~fetch[p]["roster"].stored
    /\ LET v == fetch[p]["roster"].v
       IN  IF NotOlder(v)
           THEN /\ projection' = v /\ checkpoint' = [checkpoint EXCEPT !["roster"] = v]
                /\ fetch' = [fetch EXCEPT ![p]["roster"].stored = TRUE] /\ UNCHANGED mirror
           ELSE /\ mirror' = Recover(p, "roster") /\ fetch' = [fetch EXCEPT ![p]["roster"] = None]
                /\ UNCHANGED <<projection, checkpoint>>
    /\ UNCHANGED <<source, owner, life, inputs>>

\* A process of another target applies an answer, which may have been long under way.
OtherTargetApplies ==
    /\ \E v \in 1..source["roster"] : v # projection /\ NotOlder(v) /\ projection' = v
    /\ UNCHANGED <<source, fetch, mirror, checkpoint, owner, life, inputs>>

\* The mirror in memory takes the roster after the transaction.
applyRoster(p) ==
    /\ fetch[p]["roster"] # None /\ fetch[p]["roster"].stored
    /\ LET v == fetch[p]["roster"].v
       IN  mirror' = IF v >= mirror[p]["roster"].cur THEN Filled(p, "roster", v)
                     ELSE Recover(p, "roster")
    /\ fetch' = [fetch EXCEPT ![p]["roster"] = None]
    /\ UNCHANGED <<source, checkpoint, projection, owner, life, inputs>>

\* The other streams: the mirror first, then the checkpoint.
applyConfig(p) ==
    /\ fetch[p]["config"] # None /\ ~fetch[p]["config"].stored
    /\ LET v == fetch[p]["config"].v
       IN  IF v >= mirror[p]["config"].cur
           THEN /\ mirror' = Filled(p, "config", v)
                /\ fetch' = [fetch EXCEPT ![p]["config"].stored = TRUE]
           ELSE mirror' = Recover(p, "config") /\ fetch' = [fetch EXCEPT ![p]["config"] = None]
    /\ UNCHANGED <<source, checkpoint, projection, owner, life, inputs>>

\* A checkpoint that is ahead refuses the older one, and the mirror falls back.
saveCheckpoint(p) ==
    /\ fetch[p]["config"] # None /\ fetch[p]["config"].stored
    /\ LET v == fetch[p]["config"].v
       IN  IF v >= checkpoint["config"]
           THEN checkpoint' = [checkpoint EXCEPT !["config"] = v] /\ UNCHANGED mirror
           ELSE mirror' = Recover(p, "config") /\ UNCHANGED checkpoint
    /\ fetch' = [fetch EXCEPT ![p]["config"] = None]
    /\ UNCHANGED <<source, projection, owner, life, inputs>>

\* The API or the database does not answer.
refreshFails(p, s) ==
    /\ fetch[p][s] # None /\ Input
    /\ fetch' = [fetch EXCEPT ![p][s] = None]
    /\ mirror' = Recover(p, s)
    /\ UNCHANGED <<source, checkpoint, projection, owner, life>>

\* The lookups of the mirrors.  An account, its persona and its environment are known while their
\* mirror is fresh; a configuration is handed out as it was last received, with its state beside it.
deliveryState(m) == IF m.ready THEN "fresh" ELSE "unknown"
accountFor(p) ==
    LET m == mirror[p]["roster"]
    IN  [state |-> deliveryState(m), value |-> IF deliveryState(m) = "fresh" THEN m.cur ELSE None]
businessConfig(p) == [state |-> deliveryState(mirror[p]["config"]), value |-> mirror[p]["config"].cur]

\* The gate asks by the name of the configuration.
configMirrorStateOf(p, s) ==
    IF (IF s = "roster" THEN accountFor(p) ELSE businessConfig(p)).state = "fresh" THEN "fresh" ELSE "stale"

\* Every mirror and every publisher.
readiness(p) == ownerReady[p] /\ \A s \in Streams : configMirrorStateOf(p, s) = "fresh"

\* root.close waits for the cycle in progress.
Idle(p) == pub[p] = None /\ \A s \in Streams : fetch[p][s] = None

\* What a process that dies takes with it.
Forget(p) ==
    /\ pub' = [pub EXCEPT ![p] = None] /\ observed' = [observed EXCEPT ![p] = NoFact]
    /\ ownerReady' = [ownerReady EXCEPT ![p] = FALSE] /\ asked' = [asked EXCEPT ![p] = None]
    /\ fetch' = [fetch EXCEPT ![p] = [s \in Streams |-> None]]
    /\ mirror' = [mirror EXCEPT ![p] = [s \in Streams |-> Empty]]
    /\ UNCHANGED <<runtime, row, api, told, source, checkpoint, projection>>

ReadStep(p) ==
    \/ FactChanges(p) \/ publishChanged(p) \/ observe(p) \/ emit(p) \/ publishFails(p)
    \/ deliver(p) \/ currentRuntimeSnapshot(p)
    \/ applyOwnerSnapshot(p) \/ applyRoster(p) \/ applyConfig(p) \/ saveCheckpoint(p)
    \/ restoreCheckpoints(p)
    \/ \E s \in Streams : refreshConsumerStream(p, s) \/ refreshFails(p, s)

ReadEnvironment == OtherTargetApplies \/ \E s \in Streams : SourceChanges(s)

-----------------------------------------------------------------------------
(* Properties *)

GenerationNamesValue ==
    \A f, g \in {observed[p] : p \in Procs} \cup {api, [gen |-> row.gen, val |-> row.val]} :
        f.gen = g.gen => f.val = g.val

AnnouncedWhenReady ==
    \A p \in Procs : ownerReady[p] /\ pub[p] = None /\ observed[p].gen = row.gen => row.emitted = row.gen

\* An event the relay has done with is one whose generation the API has applied, also when answers
\* are lost, the process that announced it has died and its successor has observed nothing yet
\* (sync-read-changed-outbox.ts createSyncReadChangedHandler, sync-read-changed-http.ts deliver).
AcknowledgedIsApplied == told <= api.gen

\* A generation names one value, whichever process observed it and whatever the API was served; a
\* publisher that counts as ready has had its current generation announced, also when an earlier
\* announcement was lost (automation-sync-read-generation-store.ts observe,
\* automation-sync-read-source.ts observeAndPublish, sync-read-changed-outbox.ts emit); and what was
\* acknowledged has been applied.
OwnedFactHolds == GenerationNamesValue /\ AnnouncedWhenReady /\ AcknowledgedIsApplied

\* What a lookup hands out as fresh is in the durable state: the shared roster rows are not older
\* than the accounts it knows, nor is the checkpoint from which a restart goes on older than what
\* was read (account-projection-store.ts applyOwnerSnapshot, automation-composition-root.ts
\* refreshConsumerStream, automation-sync-read-mirrors.ts accountFor).
ReadyIsBacked ==
    \A p \in Procs :
        /\ accountFor(p).value # None /\ fetch[p]["roster"] = None =>
              accountFor(p).value <= checkpoint["roster"] /\ accountFor(p).value <= projection
        /\ businessConfig(p).state = "fresh" /\ fetch[p]["config"] = None =>
              businessConfig(p).value <= checkpoint["config"]

=============================================================================
