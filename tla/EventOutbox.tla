---------------------------- MODULE EventOutbox ----------------------------
(***************************************************************************)
(* The database event outbox: producers insert events into event_outbox    *)
(* inside their own transactions; named consumers poll it topic by topic,  *)
(* keep one cursor per (consumer, topic) and an aggregate "legacy" cursor  *)
(* per consumer; a pruner deletes what every required consumer has passed. *)
(*                                                                         *)
(* Sources: src/src/transport/event-outbox.ts; the LISTEN connection of    *)
(* outbox-notify-listener.ts appears as the action Wake.                   *)
(*                                                                         *)
(* Abstractions.  One execution_target (every query filters on it).  A     *)
(* transaction emits one event, so events are named by their transaction.  *)
(* PostgreSQL gives a transaction its xid at its first write and an event  *)
(* its id at the INSERT; a transaction whose first write is the INSERT     *)
(* gets both at once.  A cursor row is absent exactly while its value is   *)
(* 0: the code only ever writes positive values.  Which rows are old       *)
(* enough to be pruned is left open.  Timers fire at any time.             *)
(***************************************************************************)
EXTENDS Naturals, FiniteSets

CONSTANTS
    Txs,            \* producer transactions, each emitting one event
    Topics,
    TxTopic,        \* topic of the event of a transaction
    EarlyWriters,   \* transactions that write business rows before they emit
    Poison,         \* events whose handler always throws
    Consumers,      \* consumer names
    Workers,        \* OutboxConsumer instances
    ConsumerOf,     \* the consumer name of an instance
    Subs,           \* topics a consumer has handlers for
    Required,       \* OutboxTopicRetention.consumers of a topic
    Forced,         \* topics with an unconsumedRetentionMs
    BatchSize,      \* rows fetched per topic and round
    MaxFaults,      \* bound: failing queries and failing handlers
    MaxCrashes,     \* bound: crashes of a worker
    None

ASSUME TxAssumption ==
    /\ IsFiniteSet(Txs) /\ TxTopic \in [Txs -> Topics]
    /\ EarlyWriters \subseteq Txs /\ Poison \subseteq Txs
ASSUME WorkerAssumption ==
    /\ ConsumerOf \in [Workers -> Consumers]
    /\ Subs \in [Consumers -> SUBSET Topics]
ASSUME RetentionAssumption ==
    /\ Required \in [Topics -> SUBSET Consumers] /\ Forced \subseteq Topics
    /\ \A tp \in Topics : \A c \in Required[tp] : tp \in Subs[c]
ASSUME OutboxBounds ==
    BatchSize \in Nat \ {0} /\ MaxFaults \in Nat /\ MaxCrashes \in Nat
ASSUME NoTopic == None \notin Topics

VARIABLES
    tx,         \* idle, open (has an xid), emitted (row inserted), committed, ...
    xid, eid,   \* transaction id (xmin of the row) and event id; 0: not drawn
    xseq, seq,  \* the last transaction id and the last event id drawn
    cursor,     \* event_outbox_topic_cursor
    legacy,     \* event_outbox_cursor, the aggregate cursor
    handled,    \* history: events a handler of the consumer has completed
    pc,         \* where an instance is
    todo,       \* topics its round has not begun
    at,         \* the topic it is working on
    from,       \* the cursor it has read for that topic
    rows,       \* fetched events it has not handled yet
    done,       \* progressedTo
    count,      \* events handled in this batch
    seen,       \* cursors of the topics of this round
    failed,     \* a query of this round has failed
    full,       \* a topic of this round returned a full batch
    synced,     \* legacySyncedTo
    pending,    \* wakePending
    timer,      \* the poll timer is armed
    pr,         \* the pruner: its topic and the floor it has read
    faults, crashes

txVars == <<tx, xid, eid, xseq, seq>>
topicVars == <<at, from, rows, done, count>>
roundVars == <<todo, seen, failed, full>>
vars == <<tx, xid, eid, xseq, seq, cursor, legacy, handled, pc, todo, at, from, rows,
          done, count, seen, failed, full, synced, pending, timer, pr, faults, crashes>>

NoPrune == [topic |-> None, floor |-> 0]

Init ==
    /\ tx = [t \in Txs |-> "idle"]
    /\ xid = [t \in Txs |-> 0] /\ eid = [t \in Txs |-> 0]
    /\ xseq = 0 /\ seq = 0
    /\ cursor = [c \in Consumers |-> [tp \in Topics |-> 0]]
    /\ legacy = [c \in Consumers |-> 0]
    /\ handled = [c \in Consumers |-> {}]
    /\ pc = [w \in Workers |-> "down"]
    /\ todo = [w \in Workers |-> {}]
    /\ at = [w \in Workers |-> None]
    /\ from = [w \in Workers |-> 0]
    /\ rows = [w \in Workers |-> {}]
    /\ done = [w \in Workers |-> 0]
    /\ count = [w \in Workers |-> 0]
    /\ seen = [w \in Workers |-> [tp \in Topics |-> 0]]
    /\ failed = [w \in Workers |-> FALSE]
    /\ full = [w \in Workers |-> FALSE]
    /\ synced = [w \in Workers |-> 0]
    /\ pending = [w \in Workers |-> FALSE]
    /\ timer = [w \in Workers |-> FALSE]
    /\ pr = NoPrune
    /\ faults = 0 /\ crashes = 0

-----------------------------------------------------------------------------
(* Producers *)

\* The business write before the emit draws the transaction id.
Write(t) ==
    /\ tx[t] = "idle" /\ t \in EarlyWriters
    /\ tx' = [tx EXCEPT ![t] = "open"]
    /\ xseq' = xseq + 1
    /\ xid' = [xid EXCEPT ![t] = xseq + 1]
    /\ UNCHANGED <<eid, seq>>

\* emitOutboxEvent: the INSERT draws the event id and, as a first write, the xid.
Emit(t) ==
    /\ \/ /\ tx[t] = "open"
          /\ UNCHANGED <<xid, xseq>>
       \/ /\ tx[t] = "idle" /\ t \notin EarlyWriters
          /\ xseq' = xseq + 1
          /\ xid' = [xid EXCEPT ![t] = xseq + 1]
    /\ tx' = [tx EXCEPT ![t] = "emitted"]
    /\ seq' = seq + 1
    /\ eid' = [eid EXCEPT ![t] = seq + 1]

\* The transaction of the caller ends; a rollback takes the event with it.
Settle(t) ==
    /\ \/ tx[t] = "emitted" /\ tx' = [tx EXCEPT ![t] = "committed"]
       \/ tx[t] \in {"open", "emitted"} /\ tx' = [tx EXCEPT ![t] = "aborted"]
    /\ UNCHANGED <<xid, eid, xseq, seq>>

Produce(t) ==
    /\ Write(t) \/ Emit(t) \/ Settle(t)
    /\ UNCHANGED <<cursor, legacy, handled, pc, roundVars, topicVars, synced, pending,
                   timer, pr, faults, crashes>>

-----------------------------------------------------------------------------
(* The poll loop of an instance: tick() and runRound() *)

StartRound(w) ==
    /\ pc' = [pc EXCEPT ![w] = "topic"]
    /\ todo' = [todo EXCEPT ![w] = Subs[ConsumerOf[w]]]
    /\ seen' = [seen EXCEPT ![w] = [tp \in Topics |-> 0]]
    /\ failed' = [failed EXCEPT ![w] = FALSE]
    /\ full' = [full EXCEPT ![w] = FALSE]

EndTickUnlessFailed(w) ==
    IF pending[w]
    THEN StartRound(w) /\ pending' = [pending EXCEPT ![w] = FALSE] /\ UNCHANGED timer
    ELSE /\ pc' = [pc EXCEPT ![w] = "idle"]
         /\ timer' = [timer EXCEPT ![w] = ~failed[w]]
         /\ todo' = [todo EXCEPT ![w] = {}]
         /\ seen' = [seen EXCEPT ![w] = [tp \in Topics |-> 0]]
         /\ failed' = [failed EXCEPT ![w] = FALSE]
         /\ full' = [full EXCEPT ![w] = FALSE]
         /\ UNCHANGED pending

\* The end of tick(): a wake that came meanwhile starts over, otherwise the
\* poll timer is armed, whether or not the round has failed.
EndTick(w) ==
    IF pending[w]
    THEN StartRound(w) /\ pending' = [pending EXCEPT ![w] = FALSE] /\ UNCHANGED timer
    ELSE /\ pc' = [pc EXCEPT ![w] = "idle"]
         /\ timer' = [timer EXCEPT ![w] = TRUE]
         /\ todo' = [todo EXCEPT ![w] = {}]
         /\ seen' = [seen EXCEPT ![w] = [tp \in Topics |-> 0]]
         /\ failed' = [failed EXCEPT ![w] = FALSE]
         /\ full' = [full EXCEPT ![w] = FALSE]
         /\ UNCHANGED pending

Start(w) ==
    /\ pc[w] = "down"
    /\ StartRound(w)
    /\ UNCHANGED <<txVars, cursor, legacy, handled, topicVars, synced, pending, timer, pr,
                   faults, crashes>>

TimerFires(w) ==
    /\ pc[w] = "idle" /\ timer[w]
    /\ timer' = [timer EXCEPT ![w] = FALSE]
    /\ StartRound(w)
    /\ UNCHANGED <<txVars, cursor, legacy, handled, topicVars, synced, pending, pr,
                   faults, crashes>>

\* A notification, or a spurious wake: it starts a tick (clearing the timer),
\* or is remembered until the tick in progress ends.
Wake(w) ==
    /\ pc[w] # "down"
    /\ IF pc[w] = "idle"
       THEN StartRound(w) /\ timer' = [timer EXCEPT ![w] = FALSE] /\ UNCHANGED pending
       ELSE pending' = [pending EXCEPT ![w] = TRUE] /\ UNCHANGED <<pc, timer, roundVars>>
    /\ UNCHANGED <<txVars, cursor, legacy, handled, topicVars, synced, pr, faults, crashes>>

-----------------------------------------------------------------------------
(* One topic of a round: runTopicOnce() *)

\* The topic row, else the aggregate row, else 0.
StoredCursor(c, tp) == IF cursor[c][tp] > 0 THEN cursor[c][tp] ELSE legacy[c]

ReadCursor(w) ==
    /\ pc[w] = "topic"
    /\ \E tp \in todo[w] :
         /\ at' = [at EXCEPT ![w] = tp]
         /\ from' = [from EXCEPT ![w] = StoredCursor(ConsumerOf[w], tp)]
         /\ todo' = [todo EXCEPT ![w] = @ \ {tp}]
    /\ pc' = [pc EXCEPT ![w] = "fetch"]
    /\ UNCHANGED <<txVars, cursor, legacy, handled, rows, done, count, seen, failed, full,
                   synced, pending, timer, pr, faults, crashes>>

AnyCommitted(t) == TRUE

\* xmin < txid_snapshot_xmin(...): older than every transaction in progress.
BelowWatermark(t) == \A u \in Txs : tx[u] \in {"open", "emitted"} => xid[t] < xid[u]

\* The rows the query may return, and the first BatchSize of them by id.
Available(tp, after) ==
    {t \in Txs : tx[t] = "committed" /\ TxTopic[t] = tp /\ eid[t] > after /\ BelowWatermark(t)}
Batch(tp, after) ==
    {t \in Available(tp, after) :
        Cardinality({u \in Available(tp, after) : eid[u] < eid[t]}) < BatchSize}

\* The locals of runTopicOnce are gone when it returns or throws.
LeaveTopic(w) ==
    /\ pc' = [pc EXCEPT ![w] = "topic"]
    /\ at' = [at EXCEPT ![w] = None]
    /\ from' = [from EXCEPT ![w] = 0]
    /\ rows' = [rows EXCEPT ![w] = {}]
    /\ done' = [done EXCEPT ![w] = 0]
    /\ count' = [count EXCEPT ![w] = 0]

\* runTopicOnce returns the cursor of its topic; the round goes on.
TopicDone(w, n) ==
    /\ seen' = [seen EXCEPT ![w][at[w]] = n]
    /\ LeaveTopic(w)

Fetch(w) ==
    /\ pc[w] = "fetch"
    /\ IF Batch(at[w], from[w]) = {}
       THEN TopicDone(w, from[w])
       ELSE /\ rows' = [rows EXCEPT ![w] = Batch(at[w], from[w])]
            /\ done' = [done EXCEPT ![w] = from[w]]
            /\ pc' = [pc EXCEPT ![w] = "handle"]
            /\ UNCHANGED <<seen, at, from, count>>
    /\ UNCHANGED <<txVars, cursor, legacy, handled, todo, failed, full, synced,
                   pending, timer, pr, faults, crashes>>

FirstRow(w) == {t \in rows[w] : \A u \in rows[w] : eid[t] <= eid[u]}

HandleOk(w) ==
    /\ pc[w] = "handle"
    /\ \E t \in FirstRow(w) :
         /\ t \notin Poison
         /\ handled' = [handled EXCEPT ![ConsumerOf[w]] = @ \cup {t}]
         /\ rows' = [rows EXCEPT ![w] = @ \ {t}]
         /\ done' = [done EXCEPT ![w] = eid[t]]
         /\ count' = [count EXCEPT ![w] = @ + 1]
         /\ pc' = [pc EXCEPT ![w] = IF rows[w] = {t} THEN "advance" ELSE "handle"]
    /\ UNCHANGED <<txVars, cursor, legacy, roundVars, at, from, synced, pending, timer, pr,
                   faults, crashes>>

\* The handler throws: the topic stops before this event, what succeeded before
\* it is still written, and the other topics go on.
HandlerThrows(w) ==
    /\ IF done[w] > from[w]
       THEN /\ rows' = [rows EXCEPT ![w] = {}]
            /\ pc' = [pc EXCEPT ![w] = "advance"]
            /\ UNCHANGED <<seen, at, from, done, count>>
       ELSE TopicDone(w, done[w])
    /\ UNCHANGED <<txVars, cursor, legacy, handled, todo, failed, full, synced, pending,
                   timer, pr, crashes>>

HandlePoison(w) ==
    /\ pc[w] = "handle" /\ \E t \in FirstRow(w) : t \in Poison
    /\ HandlerThrows(w)
    /\ UNCHANGED faults

HandleErrs(w) ==
    /\ pc[w] = "handle" /\ \E t \in FirstRow(w) : t \notin Poison
    /\ faults < MaxFaults /\ faults' = faults + 1
    /\ HandlerThrows(w)

AdvancedCursorPlain(c, tp, n) == n

\* GREATEST(existing, new).
AdvancedCursor(c, tp, n) == IF cursor[c][tp] > n THEN cursor[c][tp] ELSE n

CursorWritten(w) ==
    LET c == ConsumerOf[w] IN
      cursor' = [cursor EXCEPT ![c][at[w]] = AdvancedCursor(c, at[w], done[w])]

AdvanceCursor(w) ==
    /\ pc[w] = "advance"
    /\ CursorWritten(w)
    /\ TopicDone(w, done[w])
    /\ full' = [full EXCEPT ![w] = @ \/ count[w] = BatchSize]
    /\ UNCHANGED <<txVars, legacy, handled, todo, failed, synced, pending, timer, pr,
                   faults, crashes>>

\* A query of the topic fails: the round is marked, the other topics go on.
TopicFails(w) ==
    /\ pc[w] \in {"fetch", "advance"}
    /\ faults < MaxFaults /\ faults' = faults + 1
    /\ failed' = [failed EXCEPT ![w] = TRUE]
    /\ LeaveTopic(w)
    /\ UNCHANGED <<txVars, cursor, legacy, handled, todo, seen, full, synced, pending, timer,
                   pr, crashes>>

\* The cursor is written and only the answer is lost.
AdvanceAnswerLost(w) ==
    /\ pc[w] = "advance"
    /\ faults < MaxFaults /\ faults' = faults + 1
    /\ CursorWritten(w)
    /\ failed' = [failed EXCEPT ![w] = TRUE]
    /\ LeaveTopic(w)
    /\ UNCHANGED <<txVars, legacy, handled, todo, seen, full, synced, pending, timer, pr,
                   crashes>>

-----------------------------------------------------------------------------
(* The end of a round *)

\* The minimum over the topics of the round (one value, none without topics).
LeastSeen(w) ==
    {seen[w][tp] : tp \in {s \in Subs[ConsumerOf[w]] :
                             \A u \in Subs[ConsumerOf[w]] : seen[w][s] <= seen[w][u]}}

AggregateWritten(w, n) == legacy' = [legacy EXCEPT ![ConsumerOf[w]] = IF @ > n THEN @ ELSE n]

\* syncLegacyAggregateCursor and what follows: the round is repeated while a
\* topic returned a full batch.
RoundEnds(w) ==
    /\ pc[w] = "topic" /\ todo[w] = {} /\ ~failed[w]
    /\ \/ \E n \in LeastSeen(w) :
            /\ n > synced[w]
            /\ AggregateWritten(w, n)
            /\ synced' = [synced EXCEPT ![w] = n]
       \/ /\ \A n \in LeastSeen(w) : n <= synced[w]
          /\ UNCHANGED <<legacy, synced>>
    /\ IF full[w] THEN StartRound(w) /\ UNCHANGED <<pending, timer>> ELSE EndTick(w)
    /\ UNCHANGED <<txVars, cursor, handled, topicVars, pr, faults, crashes>>

\* A failed round leaves the aggregate cursor alone.
FailedRoundEnds(w) ==
    /\ pc[w] = "topic" /\ todo[w] = {} /\ failed[w]
    /\ EndTick(w)
    /\ UNCHANGED <<txVars, cursor, legacy, handled, topicVars, synced, pr, faults, crashes>>

\* The write of the aggregate cursor fails, or only its answer is lost.
SyncFails(w) ==
    /\ pc[w] = "topic" /\ todo[w] = {} /\ ~failed[w]
    /\ \E n \in LeastSeen(w) : n > synced[w] /\ (UNCHANGED legacy \/ AggregateWritten(w, n))
    /\ faults < MaxFaults /\ faults' = faults + 1
    /\ EndTick(w)
    /\ UNCHANGED <<txVars, cursor, handled, topicVars, synced, pr, crashes>>

Crash(w) ==
    /\ pc[w] # "down" /\ crashes < MaxCrashes
    /\ crashes' = crashes + 1
    /\ pc' = [pc EXCEPT ![w] = "down"]
    /\ at' = [at EXCEPT ![w] = None]
    /\ from' = [from EXCEPT ![w] = 0]
    /\ rows' = [rows EXCEPT ![w] = {}]
    /\ done' = [done EXCEPT ![w] = 0]
    /\ count' = [count EXCEPT ![w] = 0]
    /\ todo' = [todo EXCEPT ![w] = {}]
    /\ seen' = [seen EXCEPT ![w] = [tp \in Topics |-> 0]]
    /\ failed' = [failed EXCEPT ![w] = FALSE]
    /\ full' = [full EXCEPT ![w] = FALSE]
    /\ synced' = [synced EXCEPT ![w] = 0]
    /\ pending' = [pending EXCEPT ![w] = FALSE]
    /\ timer' = [timer EXCEPT ![w] = FALSE]
    /\ UNCHANGED <<txVars, cursor, legacy, handled, pr, faults>>

-----------------------------------------------------------------------------
(* pruneEventOutbox *)

\* The least aggregate cursor of the required consumers; a consumer without a
\* cursor row makes it 0, and nothing is deleted.
Floors(tp) ==
    {legacy[c] : c \in {b \in Required[tp] : \A d \in Required[tp] : legacy[b] <= legacy[d]}}

PruneReads(tp) ==
    /\ pr = NoPrune
    /\ \/ Required[tp] = {} /\ pr' = [topic |-> tp, floor |-> 0]
       \/ \E n \in Floors(tp) : pr' = [topic |-> tp, floor |-> n]
    /\ UNCHANGED <<txVars, cursor, legacy, handled, pc, roundVars, topicVars, synced, pending,
                   timer, faults, crashes>>

DeletableByAge == {t \in Txs : tx[t] = "committed" /\ TxTopic[t] = pr.topic}

Deletable ==
    {t \in Txs : /\ tx[t] = "committed" /\ TxTopic[t] = pr.topic
                 /\ pr.topic \in Forced \/ Required[pr.topic] = {} \/ eid[t] <= pr.floor}

\* DELETE of rows that are old enough, under the floor read before.
PruneDeletes ==
    /\ pr # NoPrune
    /\ \E old \in SUBSET Deletable :
         tx' = [t \in Txs |-> IF t \in old THEN "pruned" ELSE tx[t]]
    /\ pr' = NoPrune
    /\ UNCHANGED <<xid, eid, xseq, seq, cursor, legacy, handled, pc, roundVars, topicVars,
                   synced, pending, timer, faults, crashes>>

-----------------------------------------------------------------------------
Step(w) ==
    \/ ReadCursor(w) \/ Fetch(w) \/ HandleOk(w) \/ HandlePoison(w) \/ AdvanceCursor(w)
    \/ RoundEnds(w) \/ FailedRoundEnds(w)

Next ==
    \/ \E t \in Txs : Produce(t)
    \/ \E w \in Workers :
         \/ Start(w) \/ TimerFires(w) \/ Wake(w) \/ Step(w)
         \/ HandleErrs(w) \/ TopicFails(w) \/ AdvanceAnswerLost(w) \/ SyncFails(w)
         \/ Crash(w)
    \/ \E tp \in Topics : PruneReads(tp)
    \/ PruneDeletes

Spec == Init /\ [][Next]_vars

\* Transactions end, the process manager restarts a worker, an armed timer
\* fires and every await is answered.
Fairness ==
    /\ \A t \in Txs : WF_vars(Produce(t) /\ Settle(t))
    /\ \A w \in Workers : WF_vars(Start(w)) /\ WF_vars(TimerFires(w)) /\ WF_vars(Step(w))

FairSpec == Spec /\ Fairness

-----------------------------------------------------------------------------
(* Properties *)

\* Type correctness of the tables and of the state of the poll loops.
TypeOK ==
    /\ tx \in [Txs -> {"idle", "open", "emitted", "committed", "aborted", "pruned"}]
    /\ xid \in [Txs -> Nat] /\ eid \in [Txs -> Nat] /\ xseq \in Nat /\ seq \in Nat
    /\ cursor \in [Consumers -> [Topics -> Nat]] /\ legacy \in [Consumers -> Nat]
    /\ handled \in [Consumers -> SUBSET Txs]
    /\ pc \in [Workers -> {"down", "idle", "topic", "fetch", "handle", "advance"}]
    /\ todo \in [Workers -> SUBSET Topics] /\ at \in [Workers -> Topics \cup {None}]
    /\ from \in [Workers -> Nat] /\ rows \in [Workers -> SUBSET Txs]
    /\ done \in [Workers -> Nat] /\ count \in [Workers -> Nat]
    /\ seen \in [Workers -> [Topics -> Nat]]
    /\ failed \in [Workers -> BOOLEAN] /\ full \in [Workers -> BOOLEAN]
    /\ synced \in [Workers -> Nat]
    /\ pending \in [Workers -> BOOLEAN] /\ timer \in [Workers -> BOOLEAN]
    /\ pr \in [topic : Topics \cup {None}, floor : Nat]
    /\ faults \in Nat /\ crashes \in Nat

\* Topics whose producers draw xid and id together and whose rows are never
\* deleted before they are consumed.
Orderly == {tp \in Topics \ Forced : \A t \in Txs : TxTopic[t] = tp => t \notin EarlyWriters}

\* Every event of topic tp with an id up to n is settled for consumer c: its
\* handler has completed, or its transaction was rolled back.
Passed(c, tp, n) ==
    \A t \in Txs : TxTopic[t] = tp /\ eid[t] > 0 /\ eid[t] <= n =>
                     t \in handled[c] \/ tx[t] = "aborted"

\* The orderly topics whose pruning waits for consumer c.
Guarded(c) == {tp \in Orderly : c \in Required[tp]}

\* At-least-once against commits out of id order: a stored topic cursor never
\* lies beyond an event that is unhandled and committed or may yet commit.
NoEventSkipped ==
    \A c \in Consumers : \A tp \in Guarded(c) : Passed(c, tp, cursor[c][tp])

\* The aggregate cursor, which old code would resume from after a rollback and
\* readCursor falls back to, has no unhandled event of any topic behind it.
RollbackSafe ==
    \A c \in Consumers : \A tp \in Guarded(c) : Passed(c, tp, legacy[c])

\* pruneEventOutbox deletes no event before all required consumers handled it.
PrunedWereConsumed ==
    \A t \in Txs : tx[t] = "pruned" /\ TxTopic[t] \in Orderly =>
                     \A c \in Required[TxTopic[t]] : t \in handled[c]

\* Neither a crash nor a second instance with a staler batch moves a cursor back.
CursorsOnlyAdvance ==
    [][\A c \in Consumers : /\ legacy'[c] >= legacy[c]
                            /\ \A tp \in Topics : cursor'[c][tp] >= cursor[c][tp]]_vars

Healthy(c) == {tp \in Guarded(c) : \A t \in Txs : TxTopic[t] = tp => t \notin Poison}

\* Every committed event is eventually handled by every consumer of its topic,
\* with failing queries, lost wakes, crashes and a poison event on another
\* topic of the same consumer (an event stays committed until it is pruned, and
\* handled for ever).
AtLeastOnce ==
    \A c \in Consumers, t \in Txs :
        TxTopic[t] \in Healthy(c) =>
            []<>(tx[t] \in {"committed", "pruned"} => t \in handled[c])
=============================================================================
