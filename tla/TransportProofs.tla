--------------------------- MODULE TransportProofs ---------------------------
(***************************************************************************)
(* Proofs about the two ways messages take: the event outbox for every set *)
(* of transactions, topics, consumers and instances, and the connections   *)
(* of the edges for every set of sockets, edges, searches and notes.       *)
(*                                                                         *)
(* The outbox (IInv).  Every position a worker, a cursor row or the pruner *)
(* holds has no unsettled event at or below it, and a fetched batch has no *)
(* hole.                                                                   *)
(*                                                                         *)
(* The connections (EdgeInv).  How far the hello of a socket has come says *)
(* which runtime it has and whether it is registered (SockOK), so that a   *)
(* welcome finds every connection it must replace.  A recovery lease is    *)
(* followed from grant to release (LeaseInv).  A page that is free has no  *)
(* report in work, no pause, and no alert without someone to resolve it    *)
(* (PauseOK).  What is remembered of a search was sent on this connection  *)
(* alone and is recorded nowhere (SearchInv, which needs the one driver),  *)
(* and a feed frame being stored is of a video not counted yet (Storing).  *)
(***************************************************************************)
EXTENDS EventOutbox, EdgeLink, FiniteSetTheorems, TLAPS

\* Ids and xids are drawn in order, and together unless a write came first.
IdInv ==
    /\ \A t \in Txs : eid[t] <= seq /\ xid[t] <= xseq
    /\ \A t \in Txs : tx[t] \in {"idle", "open"} => eid[t] = 0
    /\ \A t \in Txs : tx[t] \in {"emitted", "committed", "pruned"} => eid[t] > 0
    /\ \A t \in Txs : tx[t] = "open" => t \in EarlyWriters
    /\ \A t, u \in Txs : eid[t] > 0 /\ eid[t] = eid[u] => t = u
    /\ \A t, u \in Txs : t \notin EarlyWriters /\ u \notin EarlyWriters
                           /\ eid[t] > 0 /\ eid[t] < eid[u] => xid[t] < xid[u]

\* Position n is one up to which all events of topic tp are settled for c.
Good(c, tp, n) == n <= seq /\ (tp \in Guarded(c) => Passed(c, tp, n))

InTopic == {"fetch", "handle", "advance"}

\* An instance inside a topic works on a topic of its consumer.
AtInv ==
    \A w \in Workers :
        /\ pc[w] \in {"fetch", "handle", "advance"} => at[w] \in Topics
        /\ pc[w] # "handle" => rows[w] = {}

\* Every position that is stored or held in memory is such a position.
PositionInv ==
    /\ \A c \in Consumers : \A tp \in Topics :
         /\ Good(c, tp, cursor[c][tp]) /\ Good(c, tp, legacy[c])
         /\ pr.topic = tp => Good(c, tp, pr.floor)
    /\ \A w \in Workers : \A tp \in Topics :
         /\ Good(ConsumerOf[w], tp, seen[w][tp])
         /\ pc[w] \in InTopic /\ at[w] = tp => Good(ConsumerOf[w], tp, from[w])
         /\ pc[w] \in {"handle", "advance"} /\ at[w] = tp => Good(ConsumerOf[w], tp, done[w])

\* A fetched batch has no hole below any of its rows.
RowsInv ==
    \A w \in Workers : \A r \in rows[w] :
        /\ eid[r] > 0
        /\ at[w] \in Guarded(ConsumerOf[w]) =>
             \A u \in Txs : TxTopic[u] = at[w] /\ eid[u] > 0 /\ eid[u] <= eid[r] =>
                 u \in rows[w] \/ u \in handled[ConsumerOf[w]] \/ tx[u] = "aborted"

IInv == TypeOK /\ IdInv /\ AtInv /\ PositionInv /\ RowsInv /\ PrunedWereConsumed

-----------------------------------------------------------------------------
\* The variables of a round, and those of one topic, have their types.
RoundTypes ==
    /\ pc \in [Workers -> {"down", "idle", "topic", "fetch", "handle", "advance"}]
    /\ todo \in [Workers -> SUBSET Topics]
    /\ seen \in [Workers -> [Topics -> Nat]]
    /\ failed \in [Workers -> BOOLEAN] /\ full \in [Workers -> BOOLEAN]
TopicTypes ==
    /\ pc \in [Workers -> {"down", "idle", "topic", "fetch", "handle", "advance"}]
    /\ at \in [Workers -> Topics \cup {None}]
    /\ from \in [Workers -> Nat] /\ rows \in [Workers -> SUBSET Txs]
    /\ done \in [Workers -> Nat] /\ count \in [Workers -> Nat]

\* A new round keeps the types of the round.
LEMMA StartRoundTypes ==
    ASSUME TypeOK, NEW w \in Workers, StartRound(w) PROVE RoundTypes'
BY WorkerAssumption DEF TypeOK, StartRound, RoundTypes

\* The end of a tick keeps the types of the round, of the timer and of the wake.
LEMMA EndTickTypes ==
    ASSUME TypeOK, NEW w \in Workers, EndTick(w)
    PROVE  RoundTypes' /\ pending' \in [Workers -> BOOLEAN] /\ timer' \in [Workers -> BOOLEAN]
<1>1. CASE pending[w]
  BY <1>1, StartRoundTypes DEF EndTick, TypeOK
<1>2. CASE ~pending[w]
  <2>1. pending' \in [Workers -> BOOLEAN] /\ timer' \in [Workers -> BOOLEAN]
    BY <1>2 DEF EndTick, TypeOK
  <2>2. /\ pc' = [pc EXCEPT ![w] = "idle"] /\ todo' = [todo EXCEPT ![w] = {}]
        /\ seen' = [seen EXCEPT ![w] = [tp \in Topics |-> 0]]
        /\ failed' = [failed EXCEPT ![w] = FALSE] /\ full' = [full EXCEPT ![w] = FALSE]
    BY <1>2, Zenon DEF EndTick
  <2>3. /\ pc' \in [Workers -> {"down", "idle", "topic", "fetch", "handle", "advance"}]
        /\ todo' \in [Workers -> SUBSET Topics] /\ seen' \in [Workers -> [Topics -> Nat]]
    BY <2>2 DEF TypeOK
  <2>4. failed' \in [Workers -> BOOLEAN] /\ full' \in [Workers -> BOOLEAN]
    BY <2>2 DEF TypeOK
  <2> QED BY <2>1, <2>3, <2>4 DEF RoundTypes
<1> QED BY <1>1, <1>2

\* Leaving a topic keeps the types of its locals.
LEMMA LeaveTopicTypes ==
    ASSUME TypeOK, NEW w \in Workers, LeaveTopic(w) PROVE TopicTypes'
BY DEF TypeOK, LeaveTopic, TopicTypes

\* So does returning a cursor, which is noted for the round.
LEMMA TopicDoneTypes ==
    ASSUME TypeOK, NEW w \in Workers, NEW n \in Nat, at[w] \in Topics, TopicDone(w, n)
    PROVE  TopicTypes' /\ seen' \in [Workers -> [Topics -> Nat]]
BY LeaveTopicTypes DEF TypeOK, TopicDone

\* The tables and poll loops keep their types in every step.
LEMMA NextTypeOK == TypeOK /\ AtInv /\ [Next]_vars => TypeOK'
<1> SUFFICES ASSUME TypeOK, AtInv, [Next]_vars PROVE TypeOK'
  OBVIOUS
<1> USE TxAssumption, WorkerAssumption, RetentionAssumption, OutboxBounds DEF TypeOK
<1>1. ASSUME NEW t \in Txs, Produce(t) PROVE TypeOK'
  <2>1. /\ tx' \in [Txs -> {"idle", "open", "emitted", "committed", "aborted", "pruned"}]
        /\ xid' \in [Txs -> Nat] /\ eid' \in [Txs -> Nat] /\ xseq' \in Nat /\ seq' \in Nat
    <3>1. CASE Write(t)
      BY <3>1 DEF Write
    <3>2. CASE Emit(t)
      <4>1. tx' = [tx EXCEPT ![t] = "emitted"]
        BY <3>2 DEF Emit
      <4>2. seq' \in Nat /\ eid' \in [Txs -> Nat]
        BY <3>2 DEF Emit
      <4>3. \/ xid' = xid /\ xseq' = xseq
            \/ xid' = [xid EXCEPT ![t] = xseq + 1] /\ xseq' = xseq + 1
        BY <3>2 DEF Emit
      <4>4. xid' \in [Txs -> Nat] /\ xseq' \in Nat
        BY <4>3, SMTT(30)
      <4>5. tx' \in [Txs -> {"idle", "open", "emitted", "committed", "aborted", "pruned"}]
        BY <4>1
      <4> QED BY <4>2, <4>4, <4>5
    <3>3. CASE Settle(t)
      <4>1. \/ tx' = [tx EXCEPT ![t] = "committed"]
            \/ tx' = [tx EXCEPT ![t] = "aborted"]
        BY <3>3 DEF Settle
      <4>2. tx' \in [Txs -> {"idle", "open", "emitted", "committed", "aborted", "pruned"}]
        BY <4>1
      <4> QED BY <3>3, <4>2 DEF Settle
    <3> QED BY <1>1, <3>1, <3>2, <3>3 DEF Produce
  <2> QED BY <1>1, <2>1 DEF Produce, roundVars, topicVars
<1>2. ASSUME NEW w \in Workers, Start(w) PROVE TypeOK'
  BY <1>2 DEF Start, StartRound, txVars, topicVars
<1>3. ASSUME NEW w \in Workers, TimerFires(w) PROVE TypeOK'
  BY <1>3 DEF TimerFires, StartRound, txVars, topicVars
<1>4. ASSUME NEW w \in Workers, Wake(w) PROVE TypeOK'
  <2>1. CASE pc[w] = "idle"
    BY <1>4, <2>1, StartRoundTypes DEF Wake, RoundTypes, txVars, topicVars
  <2>2. CASE pc[w] # "idle"
    BY <1>4, <2>2 DEF Wake, txVars, topicVars, roundVars
  <2> QED BY <2>1, <2>2
<1>5. ASSUME NEW w \in Workers, ReadCursor(w) PROVE TypeOK'
  BY <1>5 DEF ReadCursor, StoredCursor, txVars
<1>6. ASSUME NEW w \in Workers, Fetch(w) PROVE TypeOK'
  <2>0. at[w] \in Topics /\ Batch(at[w], from[w]) \subseteq Txs
    BY <1>6 DEF Fetch, Batch, Available, AtInv
  <2>1. CASE Batch(at[w], from[w]) = {}
    BY <1>6, <2>0, <2>1, TopicDoneTypes DEF Fetch, TopicTypes, txVars
  <2>2. CASE Batch(at[w], from[w]) # {}
    <3>1. rows' = [rows EXCEPT ![w] = Batch(at[w], from[w])]
      BY <1>6, <2>2 DEF Fetch
    <3>2. rows' \in [Workers -> SUBSET Txs]
      BY <3>1, <2>0
    <3>3. /\ done' = [done EXCEPT ![w] = from[w]]
          /\ pc' = [pc EXCEPT ![w] = "handle"]
          /\ UNCHANGED <<seen, at, from, count>>
      BY <1>6, <2>2 DEF Fetch
    <3>4. UNCHANGED <<txVars, cursor, legacy, handled, todo, failed, full, synced,
                      pending, timer, pr, faults, crashes>>
      BY <1>6 DEF Fetch
    <3> QED BY <3>2, <3>3, <3>4 DEF txVars
  <2> QED BY <2>1, <2>2
<1>7. ASSUME NEW w \in Workers, HandleOk(w) PROVE TypeOK'
  BY <1>7 DEF HandleOk, FirstRow, roundVars, txVars
<1>8. ASSUME NEW w \in Workers, HandlePoison(w) \/ HandleErrs(w) PROVE TypeOK'
  <2>0. at[w] \in Topics /\ HandlerThrows(w) /\ faults' \in Nat
    BY <1>8 DEF HandlePoison, HandleErrs, AtInv
  <2>1. CASE done[w] > from[w]
    BY <2>0, <2>1 DEF HandlerThrows, txVars
  <2>2. CASE ~(done[w] > from[w])
    BY <2>0, <2>2, TopicDoneTypes DEF HandlerThrows, TopicTypes, txVars
  <2> QED BY <2>1, <2>2
<1>9. ASSUME NEW w \in Workers, AdvanceCursor(w) PROVE TypeOK'
  BY <1>9 DEF AdvanceCursor, CursorWritten, AdvancedCursor, TopicDone, LeaveTopic, txVars, AtInv
<1>10. ASSUME NEW w \in Workers, TopicFails(w) PROVE TypeOK'
  BY <1>10 DEF TopicFails, LeaveTopic, txVars
<1>17. ASSUME NEW w \in Workers, AdvanceAnswerLost(w) PROVE TypeOK'
  BY <1>17 DEF AdvanceAnswerLost, CursorWritten, AdvancedCursor, LeaveTopic, txVars, AtInv
<1>11. ASSUME NEW w \in Workers, RoundEnds(w) PROVE TypeOK'
  <2>1. legacy' \in [Consumers -> Nat] /\ synced' \in [Workers -> Nat]
    <3>1. CASE UNCHANGED <<legacy, synced>>
      BY <3>1
    <3>2. CASE \E n \in LeastSeen(w) :
                 /\ legacy' = [legacy EXCEPT ![ConsumerOf[w]] = IF @ > n THEN @ ELSE n]
                 /\ synced' = [synced EXCEPT ![w] = n]
      BY <3>2 DEF LeastSeen
    <3> QED BY <1>11, <3>1, <3>2 DEF RoundEnds, AggregateWritten
  <2>2. RoundTypes' /\ pending' \in [Workers -> BOOLEAN] /\ timer' \in [Workers -> BOOLEAN]
    BY <1>11, StartRoundTypes, EndTickTypes DEF RoundEnds
  <2> QED BY <1>11, <2>1, <2>2 DEF RoundEnds, RoundTypes, txVars, topicVars
<1>12. ASSUME NEW w \in Workers, FailedRoundEnds(w) \/ SyncFails(w) PROVE TypeOK'
  <2>1. EndTick(w) /\ faults' \in Nat
    BY <1>12 DEF FailedRoundEnds, SyncFails
  <2>2. legacy' \in [Consumers -> Nat]
    <3>1. CASE UNCHANGED legacy
      BY <3>1
    <3>2. CASE \E n \in LeastSeen(w) : AggregateWritten(w, n)
      BY <3>2 DEF LeastSeen, AggregateWritten
    <3> QED BY <1>12, <3>1, <3>2 DEF FailedRoundEnds, SyncFails
  <2> QED BY <1>12, <2>1, <2>2, EndTickTypes
          DEF FailedRoundEnds, SyncFails, RoundTypes, txVars, topicVars
<1>13. ASSUME NEW w \in Workers, Crash(w) PROVE TypeOK'
  BY <1>13 DEF Crash, txVars
<1>14. ASSUME NEW tp \in Topics, PruneReads(tp) PROVE TypeOK'
  BY <1>14 DEF PruneReads, Floors, txVars, roundVars, topicVars
<1>15. CASE PruneDeletes
  BY <1>15 DEF PruneDeletes, Deletable, NoPrune, roundVars, topicVars
<1>16. CASE UNCHANGED vars
  BY <1>16 DEF vars
<1> QED
  BY <1>1, <1>2, <1>3, <1>4, <1>5, <1>6, <1>7, <1>8, <1>9, <1>10, <1>11, <1>12, <1>13,
     <1>14, <1>15, <1>16, <1>17 DEF Next, Step

-----------------------------------------------------------------------------
\* Every step but a producer's and a deletion leaves the rows alone; every step
\* but a completed handler leaves the history alone.
LEMMA Frames ==
    ASSUME [Next]_vars
    PROVE  /\ UNCHANGED txVars \/ (\E t \in Txs : Produce(t)) \/ PruneDeletes
           /\ UNCHANGED handled \/ \E w \in Workers : HandleOk(w)
           /\ UNCHANGED pr \/ PruneDeletes \/ \E tp \in Topics : PruneReads(tp)
           /\ UNCHANGED cursor \/ \E w \in Workers : pc[w] = "advance" /\ CursorWritten(w)
           /\ UNCHANGED legacy \/ \E w \in Workers : \E n \in LeastSeen(w) : AggregateWritten(w, n)
BY DEF Next, Step, Produce, Start, TimerFires, Wake, ReadCursor, Fetch, HandleOk,
       HandlePoison, HandleErrs, HandlerThrows, AdvanceCursor, TopicFails, AdvanceAnswerLost,
       RoundEnds, FailedRoundEnds, SyncFails, Crash, PruneReads, PruneDeletes, vars, txVars

\* What a settled event stays: ids do not change, a rollback is final and a
\* completed handler is not forgotten; a new id lies above all ids drawn before.
LEMMA StepFacts ==
    ASSUME TypeOK, IdInv, [Next]_vars
    PROVE  /\ \A t \in Txs : eid'[t] = eid[t] \/ (eid[t] = 0 /\ eid'[t] > seq)
           /\ \A t \in Txs : tx[t] = "aborted" => tx'[t] = "aborted"
           /\ \A c \in Consumers : handled[c] \subseteq handled'[c]
           /\ seq' >= seq
<1>1. /\ \A t \in Txs : eid'[t] = eid[t] \/ (eid[t] = 0 /\ eid'[t] > seq)
      /\ \A t \in Txs : tx[t] = "aborted" => tx'[t] = "aborted"
      /\ seq' >= seq
  <2>1. CASE UNCHANGED txVars
    BY <2>1 DEF txVars, TypeOK
  <2>2. ASSUME NEW t \in Txs, Produce(t) PROVE <1>1!:
    <3>1. CASE Write(t)
      BY <3>1 DEF Write, TypeOK
    <3>2. CASE Emit(t)
      <4>1. eid[t] = 0 /\ tx[t] # "aborted"
        BY <3>2 DEF Emit, IdInv
      <4>2. /\ tx' = [tx EXCEPT ![t] = "emitted"] /\ seq' = seq + 1
            /\ eid' = [eid EXCEPT ![t] = seq + 1]
        BY <3>2 DEF Emit
      <4> QED BY <4>1, <4>2 DEF TypeOK
    <3>3. CASE Settle(t)
      BY <3>3 DEF Settle, TypeOK
    <3> QED BY <2>2, <3>1, <3>2, <3>3 DEF Produce
  <2>3. CASE PruneDeletes
    BY <2>3 DEF PruneDeletes, Deletable, TypeOK
  <2> QED BY <2>1, <2>2, <2>3, Frames
<1>2. \A c \in Consumers : handled[c] \subseteq handled'[c]
  <2>1. UNCHANGED handled \/ \E w \in Workers : HandleOk(w)
    BY Frames
  <2> QED BY <2>1, WorkerAssumption DEF HandleOk, TypeOK
<1> QED BY <1>1, <1>2

\* A position up to which everything is settled stays one.
LEMMA PassedStays ==
    ASSUME TypeOK, AtInv, IdInv, [Next]_vars
    PROVE  \A c \in Consumers, tp \in Topics, n \in Nat :
             n <= seq /\ Passed(c, tp, n) =>
               \A t \in Txs : TxTopic[t] = tp /\ eid'[t] > 0 /\ eid'[t] <= n =>
                                t \in handled'[c] \/ tx'[t] = "aborted"
<1> SUFFICES ASSUME NEW c \in Consumers, NEW tp \in Topics, NEW n \in Nat, NEW t \in Txs,
                    n <= seq, Passed(c, tp, n),
                    TxTopic[t] = tp, eid'[t] > 0, eid'[t] <= n
             PROVE  t \in handled'[c] \/ tx'[t] = "aborted"
  OBVIOUS
<1>1. eid[t] \in Nat /\ eid'[t] \in Nat /\ seq \in Nat
  BY NextTypeOK DEF TypeOK
<1>2. eid'[t] = eid[t]
  BY <1>1, StepFacts
<1>3. t \in handled[c] \/ tx[t] = "aborted"
  BY <1>2 DEF Passed
<1> QED BY <1>3, StepFacts

\* Ids and xids stay in order.
LEMMA NextIdInv == TypeOK /\ AtInv /\ IdInv /\ [Next]_vars => IdInv'
<1> SUFFICES ASSUME TypeOK, AtInv, IdInv, [Next]_vars PROVE IdInv'
  OBVIOUS
<1>1. CASE UNCHANGED txVars
  BY <1>1 DEF txVars, IdInv
<1>2. ASSUME NEW t \in Txs, Write(t) PROVE IdInv'
  BY <1>2 DEF Write, IdInv, TypeOK
<1>3. ASSUME NEW t \in Txs, Emit(t) PROVE IdInv'
  BY <1>3 DEF Emit, IdInv, TypeOK
<1>4. ASSUME NEW t \in Txs, Settle(t) PROVE IdInv'
  BY <1>4 DEF Settle, IdInv, TypeOK
<1>5. CASE PruneDeletes
  BY <1>5 DEF PruneDeletes, Deletable, IdInv, TypeOK
<1> QED BY <1>1, <1>2, <1>3, <1>4, <1>5, Frames DEF Produce
-----------------------------------------------------------------------------
\* Which locals an instance can change, and in which states it can be after.
LEMMA NextAtInv == TypeOK /\ AtInv /\ [Next]_vars => AtInv'
<1> SUFFICES ASSUME TypeOK, AtInv, [Next]_vars PROVE AtInv'
  OBVIOUS
<1> USE DEF AtInv, TypeOK
<1>1. CASE UNCHANGED <<pc, at, rows>>
  BY <1>1
<1>2. ASSUME NEW w \in Workers, StartRound(w), UNCHANGED <<at, rows>>, pc[w] # "handle"
      PROVE AtInv'
  BY <1>2 DEF StartRound
<1>3. ASSUME NEW w \in Workers, EndTick(w), UNCHANGED <<at, rows>>, pc[w] # "handle"
      PROVE AtInv'
  <2>1. CASE pending[w]
    BY <1>2, <1>3, <2>1 DEF EndTick
  <2>2. CASE ~pending[w]
    <3>1. pc' = [pc EXCEPT ![w] = "idle"]
      BY <1>3, <2>2 DEF EndTick
    <3> QED BY <1>3, <3>1
  <2> QED BY <2>1, <2>2
<1>4. ASSUME NEW w \in Workers, ReadCursor(w) PROVE AtInv'
  BY <1>4 DEF ReadCursor
<1>5. ASSUME NEW w \in Workers, LeaveTopic(w) PROVE AtInv'
  BY <1>5 DEF LeaveTopic
<1>6. ASSUME NEW w \in Workers, Fetch(w) PROVE AtInv'
  <2>1. CASE Batch(at[w], from[w]) = {}
    BY <1>5, <1>6, <2>1 DEF Fetch, TopicDone
  <2>2. CASE Batch(at[w], from[w]) # {}
    <3>1. /\ rows' = [rows EXCEPT ![w] = Batch(at[w], from[w])]
          /\ pc' = [pc EXCEPT ![w] = "handle"] /\ at' = at /\ at[w] \in Topics
      BY <1>6, <2>2 DEF Fetch
    <3> QED BY <3>1
  <2> QED BY <2>1, <2>2
<1>7. ASSUME NEW w \in Workers, HandleOk(w) PROVE AtInv'
  BY <1>7 DEF HandleOk, FirstRow
<1>8. ASSUME NEW w \in Workers, HandlerThrows(w), pc[w] = "handle" PROVE AtInv'
  <2>1. CASE done[w] > from[w]
    BY <1>8, <2>1 DEF HandlerThrows
  <2>2. CASE ~(done[w] > from[w])
    BY <1>5, <1>8, <2>2 DEF HandlerThrows, TopicDone
  <2> QED BY <2>1, <2>2
<1>9. ASSUME NEW w \in Workers, Crash(w) PROVE AtInv'
  BY <1>9 DEF Crash
<1>10. ASSUME NEW w \in Workers,
              Start(w) \/ TimerFires(w) \/ Wake(w) \/ Step(w) \/ HandleErrs(w)
                \/ TopicFails(w) \/ AdvanceAnswerLost(w) \/ SyncFails(w) \/ Crash(w)
       PROVE AtInv'
  <2>1. CASE Start(w) \/ TimerFires(w)
    BY <2>1, <1>2 DEF Start, TimerFires, topicVars
  <2>2. CASE Wake(w)
    BY <2>2, <1>1, <1>2 DEF Wake, topicVars
  <2>3. CASE RoundEnds(w)
    BY <2>3, <1>2, <1>3 DEF RoundEnds, topicVars
  <2>4. CASE FailedRoundEnds(w) \/ SyncFails(w)
    BY <2>4, <1>3 DEF FailedRoundEnds, SyncFails, topicVars
  <2>5. CASE AdvanceCursor(w) \/ TopicFails(w) \/ AdvanceAnswerLost(w)
    BY <2>5, <1>5 DEF AdvanceCursor, TopicFails, AdvanceAnswerLost, TopicDone
  <2>6. CASE HandlePoison(w) \/ HandleErrs(w)
    BY <2>6, <1>8 DEF HandlePoison, HandleErrs
  <2> QED BY <1>4, <1>6, <1>7, <1>9, <1>10, <2>1, <2>2, <2>3, <2>4, <2>5, <2>6 DEF Step
<1>11. CASE (\E t \in Txs : Produce(t)) \/ (\E tp \in Topics : PruneReads(tp)) \/ PruneDeletes
  BY <1>1, <1>11 DEF Produce, PruneReads, PruneDeletes, topicVars
<1>12. CASE UNCHANGED vars
  BY <1>1, <1>12 DEF vars
<1> QED BY <1>10, <1>11, <1>12 DEF Next
-----------------------------------------------------------------------------
\* How the positions and the rows an instance holds can move in one step.
SeenMoves(v) ==
    \A tp \in Topics :
        \/ seen'[v][tp] \in {seen[v][tp], 0}
        \/ at[v] = tp /\ \/ pc[v] = "fetch" /\ seen'[v][tp] = from[v]
                         \/ pc[v] \in {"handle", "advance"} /\ seen'[v][tp] = done[v]
FromMoves(v) ==
    pc'[v] \in InTopic =>
        \/ pc[v] \in InTopic /\ at'[v] = at[v] /\ from'[v] = from[v]
        \/ from'[v] = StoredCursor(ConsumerOf[v], at'[v])
DoneMoves(v) ==
    pc'[v] \in {"handle", "advance"} =>
        \/ HandleOk(v)
        \/ at'[v] = at[v] /\ \/ pc[v] = "fetch" /\ done'[v] = from[v]
                             \/ pc[v] \in {"handle", "advance"} /\ done'[v] = done[v]
RowsMove(v) ==
    \/ rows'[v] = {} \/ HandleOk(v) \/ Fetch(v)
    \/ rows'[v] = rows[v] /\ at'[v] = at[v]
Moves(v) == SeenMoves(v) /\ FromMoves(v) /\ DoneMoves(v) /\ RowsMove(v)

\* An instance that does not act keeps what it holds.
LEMMA IdleMoves ==
    ASSUME TypeOK, AtInv, NEW v \in Workers,
           pc'[v] = pc[v], at'[v] = at[v], from'[v] = from[v], rows'[v] = rows[v],
           done'[v] = done[v], seen'[v] = seen[v]
    PROVE  Moves(v)
BY DEF Moves, SeenMoves, FromMoves, DoneMoves, RowsMove, InTopic

\* Every step moves positions only in these ways.
LEMMA NextMoves == TypeOK /\ AtInv /\ [Next]_vars => \A v \in Workers : Moves(v)
<1> SUFFICES ASSUME TypeOK, AtInv, [Next]_vars, NEW v \in Workers PROVE Moves(v)
  OBVIOUS
<1> USE DEF TypeOK, Moves, SeenMoves, FromMoves, DoneMoves, RowsMove, InTopic
<1>1. CASE UNCHANGED <<pc, at, from, rows, done, seen>>
  BY <1>1, IdleMoves
<1>2. ASSUME NEW w \in Workers, StartRound(w), UNCHANGED topicVars PROVE Moves(v)
  BY <1>2 DEF StartRound, topicVars
<1>3. ASSUME NEW w \in Workers, EndTick(w), UNCHANGED topicVars PROVE Moves(v)
  <2>1. CASE pending[w]
    BY <1>2, <1>3, <2>1 DEF EndTick
  <2>2. CASE ~pending[w]
    <3>1. /\ pc' = [pc EXCEPT ![w] = "idle"]
          /\ seen' = [seen EXCEPT ![w] = [tp \in Topics |-> 0]]
      BY <1>3, <2>2 DEF EndTick
    <3> QED BY <1>3, <3>1 DEF topicVars
  <2> QED BY <2>1, <2>2
<1>4. ASSUME NEW w \in Workers, ReadCursor(w) PROVE Moves(v)
  BY <1>4 DEF ReadCursor, AtInv
<1>5. ASSUME NEW w \in Workers, LeaveTopic(w), UNCHANGED seen PROVE Moves(v)
  BY <1>5 DEF LeaveTopic
<1>6. ASSUME NEW w \in Workers, TopicDone(w, from[w]), pc[w] = "fetch" PROVE Moves(v)
  BY <1>6 DEF TopicDone, LeaveTopic
<1>7. ASSUME NEW w \in Workers, TopicDone(w, done[w]), pc[w] \in {"handle", "advance"}
      PROVE Moves(v)
  BY <1>7 DEF TopicDone, LeaveTopic
<1>8. ASSUME NEW w \in Workers, Fetch(w) PROVE Moves(v)
  <2>1. CASE Batch(at[w], from[w]) = {}
    BY <1>6, <1>8, <2>1 DEF Fetch
  <2>2. CASE Batch(at[w], from[w]) # {}
    <3>1. /\ rows' = [rows EXCEPT ![w] = Batch(at[w], from[w])]
          /\ done' = [done EXCEPT ![w] = from[w]]
          /\ pc' = [pc EXCEPT ![w] = "handle"] /\ pc[w] = "fetch"
          /\ UNCHANGED <<seen, at, from, count>>
      BY <1>8, <2>2 DEF Fetch
    <3>2. CASE v = w
      <4>1. SeenMoves(v) /\ FromMoves(v) /\ RowsMove(v)
        BY <1>8, <3>1, <3>2
      <4>2. at'[v] = at[v] /\ pc[v] = "fetch" /\ done'[v] = from[v]
        BY <3>1, <3>2
      <4> HIDE DEF TypeOK, SeenMoves, FromMoves, RowsMove
      <4>3. DoneMoves(v)
        BY <4>2
      <4> QED BY <4>1, <4>3
    <3>3. CASE v # w
      BY <3>1, <3>3, IdleMoves
    <3> QED BY <3>2, <3>3
  <2> QED BY <2>1, <2>2
<1>9. ASSUME NEW w \in Workers, HandleOk(w) PROVE Moves(v)
  <2>1. CASE v = w
    BY <1>9, <2>1 DEF HandleOk, roundVars
  <2>2. CASE v # w
    BY <1>9, <2>2, IdleMoves DEF HandleOk, roundVars
  <2> QED BY <2>1, <2>2
<1>10. ASSUME NEW w \in Workers, HandlerThrows(w), pc[w] = "handle" PROVE Moves(v)
  <2>1. CASE done[w] > from[w]
    BY <1>10, <2>1 DEF HandlerThrows
  <2>2. CASE ~(done[w] > from[w])
    BY <1>7, <1>10, <2>2 DEF HandlerThrows
  <2> QED BY <2>1, <2>2
<1>11. ASSUME NEW w \in Workers, Crash(w) PROVE Moves(v)
  BY <1>11 DEF Crash
<1>12. ASSUME NEW w \in Workers,
              Start(w) \/ TimerFires(w) \/ Wake(w) \/ Step(w) \/ HandleErrs(w)
                \/ TopicFails(w) \/ AdvanceAnswerLost(w) \/ SyncFails(w) \/ Crash(w)
       PROVE Moves(v)
  <2> USE <1>12
  <2> HIDE DEF Moves
  <2>1. CASE Start(w) \/ TimerFires(w)
    BY <2>1, <1>2 DEF Start, TimerFires
  <2>2. CASE Wake(w)
    BY <2>2, <1>1, <1>2 DEF Wake, topicVars, roundVars
  <2>3. CASE RoundEnds(w)
    BY <2>3, <1>2, <1>3 DEF RoundEnds
  <2>4. CASE FailedRoundEnds(w) \/ SyncFails(w)
    BY <2>4, <1>3 DEF FailedRoundEnds, SyncFails
  <2>5. CASE AdvanceCursor(w)
    BY <2>5, <1>7 DEF AdvanceCursor
  <2>6. CASE TopicFails(w) \/ AdvanceAnswerLost(w)
    BY <2>6, <1>5 DEF TopicFails, AdvanceAnswerLost
  <2>7. CASE HandlePoison(w) \/ HandleErrs(w)
    BY <2>7, <1>10 DEF HandlePoison, HandleErrs
  <2> QED BY <1>4, <1>8, <1>9, <1>11, <2>1, <2>2, <2>3, <2>4, <2>5, <2>6, <2>7 DEF Step
<1>13. CASE (\E t \in Txs : Produce(t)) \/ (\E tp \in Topics : PruneReads(tp)) \/ PruneDeletes
  BY <1>1, <1>13 DEF Produce, PruneReads, PruneDeletes, topicVars, roundVars
<1>14. CASE UNCHANGED vars
  BY <1>1, <1>14 DEF vars
<1> QED BY <1>12, <1>13, <1>14 DEF Next
-----------------------------------------------------------------------------
\* Good(c, tp, n) in the state after a step, for a fixed n.
GoodAfter(c, tp, n) ==
    /\ n <= seq'
    /\ tp \in Guarded(c) =>
         \A t \in Txs : TxTopic[t] = tp /\ eid'[t] > 0 /\ eid'[t] <= n =>
                          t \in handled'[c] \/ tx'[t] = "aborted"

\* A good position stays good, 0 is one, and so is what lies below one.
LEMMA GoodFacts ==
    ASSUME TypeOK, AtInv, IdInv, [Next]_vars
    PROVE  /\ \A c \in Consumers, tp \in Topics, n \in Nat : Good(c, tp, n) => GoodAfter(c, tp, n)
           /\ \A c \in Consumers, tp \in Topics : GoodAfter(c, tp, 0)
           /\ \A c \in Consumers, tp \in Topics, m, n \in Nat :
                m <= n /\ Good(c, tp, n) => Good(c, tp, m)
<1>0. seq \in Nat /\ seq' \in Nat /\ seq' >= seq /\ eid \in [Txs -> Nat] /\ eid' \in [Txs -> Nat]
  BY StepFacts, NextTypeOK DEF TypeOK
<1>1. \A c \in Consumers, tp \in Topics, n \in Nat : Good(c, tp, n) => GoodAfter(c, tp, n)
  BY <1>0, PassedStays DEF Good, GoodAfter
<1>2. \A c \in Consumers, tp \in Topics : GoodAfter(c, tp, 0)
  BY <1>0 DEF GoodAfter
<1>3. \A c \in Consumers, tp \in Topics, m, n \in Nat : m <= n /\ Good(c, tp, n) => Good(c, tp, m)
  BY <1>0 DEF Good, Passed
<1> QED BY <1>1, <1>2, <1>3

\* The batch a query returns has no hole: what lies between the cursor and a
\* returned row is returned too, settled before, or rolled back.
LEMMA BatchHasNoHole ==
    ASSUME TypeOK, IdInv, PrunedWereConsumed,
           NEW c \in Consumers, NEW tp \in Guarded(c), NEW n \in Nat, Passed(c, tp, n),
           NEW r \in Batch(tp, n), NEW u \in Txs,
           TxTopic[u] = tp, eid[u] > 0, eid[u] <= eid[r]
    PROVE  u \in Batch(tp, n) \/ u \in handled[c] \/ tx[u] = "aborted"
<1> DEFINE A == Available(tp, n)
           Below(t) == {v \in A : eid[v] < eid[t]}
<1>1. r \in Txs /\ r \in A /\ tx[r] = "committed" /\ TxTopic[r] = tp /\ BelowWatermark(r)
  BY DEF Batch, Available
<1>2. tp \in Topics /\ tp \in Orderly /\ c \in Required[tp]
  BY DEF Guarded, Orderly
<1>3. eid[u] \in Nat /\ eid[r] \in Nat /\ xid[u] \in Nat /\ xid[r] \in Nat
  BY <1>1 DEF TypeOK
<1>4. CASE u = r
  BY <1>4
<1>5. CASE eid[u] <= n
  BY <1>5 DEF Passed
<1>6. CASE u # r /\ eid[u] > n
  <2>1. eid[u] < eid[r]
    BY <1>1, <1>3, <1>6 DEF IdInv
  <2>2. u \notin EarlyWriters /\ r \notin EarlyWriters
    BY <1>1, <1>2 DEF Orderly
  <2>3. xid[u] < xid[r]
    BY <1>1, <2>1, <2>2 DEF IdInv
  <2>4. tx[u] # "emitted"
    BY <1>1, <1>3, <2>3 DEF BelowWatermark
  <2>5. tx[u] \notin {"idle", "open"}
    BY <1>3 DEF IdInv
  <2>6. CASE tx[u] = "pruned"
    BY <1>2, <2>6 DEF PrunedWereConsumed
  <2>7. CASE tx[u] = "committed"
    <3>1. BelowWatermark(u)
      BY <1>1, <1>3, <2>3 DEF BelowWatermark, TypeOK
    <3>2. u \in A
      BY <1>6, <2>7, <3>1 DEF Available
    <3>3. Below(u) \subseteq Below(r) /\ IsFiniteSet(Below(r))
      <4>1. \A v \in A : eid[v] \in Nat
        BY DEF Available, TypeOK
      <4>2. Below(u) \subseteq Below(r)
        BY <1>3, <2>1, <4>1
      <4>3. Below(r) \subseteq Txs
        BY DEF Available
      <4> QED BY <4>2, <4>3, FS_Subset, TxAssumption
    <3>4. Cardinality(Below(u)) <= Cardinality(Below(r))
      BY <3>3, FS_Subset
    <3>5. Cardinality(Below(u)) \in Nat /\ Cardinality(Below(r)) \in Nat
      BY <3>3, FS_Subset, FS_CardinalityType
    <3>6. Cardinality(Below(r)) < BatchSize
      BY DEF Batch
    <3>7. Cardinality(Below(u)) < BatchSize
      BY <3>4, <3>5, <3>6, OutboxBounds
    <3> QED BY <3>2, <3>7 DEF Batch
  <2> QED BY <2>4, <2>5, <2>6, <2>7 DEF TypeOK
<1> QED BY <1>3, <1>4, <1>5, <1>6

\* Fetched batches keep having no hole.
LEMMA NextRowsInv == IInv /\ [Next]_vars => RowsInv'
<1>a. ASSUME IInv, [Next]_vars, NEW v \in Workers, NEW r \in rows'[v]
      PROVE  r \in Txs /\ eid[r] \in Nat /\ eid[r] > 0 /\ eid'[r] = eid[r]
  <2>1. TypeOK' /\ r \in Txs /\ eid[r] \in Nat
    BY <1>a, NextTypeOK DEF IInv, TypeOK
  <2>2. RowsMove(v)
    BY <1>a, NextMoves DEF IInv, Moves
  <2>3. eid[r] > 0
    <3>1. CASE r \in rows[v]
      BY <1>a, <3>1 DEF IInv, RowsInv
    <3>2. CASE r \in Batch(at[v], from[v])
      BY <1>a, <3>2, <2>1 DEF Batch, Available, IInv, IdInv
    <3>3. CASE Fetch(v)
      <4>1. r \in Batch(at[v], from[v])
        BY <1>a, <3>3 DEF Fetch, TopicDone, LeaveTopic, IInv, TypeOK
      <4> QED BY <3>2, <4>1
    <3>4. CASE HandleOk(v)
      BY <1>a, <3>1, <3>4 DEF HandleOk, IInv, TypeOK
    <3> QED BY <1>a, <2>2, <3>1, <3>3, <3>4 DEF RowsMove
  <2> QED BY <1>a, <2>1, <2>3, StepFacts DEF IInv
<1> SUFFICES ASSUME IInv, [Next]_vars, NEW v \in Workers, NEW r \in rows'[v],
                    at'[v] \in Guarded(ConsumerOf[v]),
                    NEW u \in Txs, TxTopic[u] = at'[v], eid'[u] > 0, eid'[u] <= eid'[r]
             PROVE  \/ u \in rows'[v] \/ u \in handled'[ConsumerOf[v]] \/ tx'[u] = "aborted"
  BY <1>a DEF RowsInv
<1> DEFINE c == ConsumerOf[v]
<1>1. c \in Consumers /\ TypeOK' /\ r \in Txs
  BY WorkerAssumption, NextTypeOK DEF IInv, TypeOK
<1>2. Moves(v) /\ RowsMove(v)
  BY NextMoves DEF IInv, Moves
<1>3. \A t \in Txs : eid[t] \in Nat /\ eid'[t] \in Nat
  BY <1>1 DEF TypeOK, IInv
<1>4. eid'[r] = eid[r] /\ eid'[u] = eid[u]
  BY <1>a, <1>1, <1>3, StepFacts DEF IInv, IdInv, TypeOK
<1>5. ASSUME u \in handled[c] \/ tx[u] = "aborted"
      PROVE  u \in handled'[c] \/ tx'[u] = "aborted"
  BY <1>1, <1>5, StepFacts DEF IInv
<1>6. CASE Fetch(v)
  <2>1. UNCHANGED txVars /\ UNCHANGED handled /\ pc[v] = "fetch"
    BY <1>6 DEF Fetch
  <2>2. Batch(at[v], from[v]) # {}
    BY <1>6 DEF Fetch, TopicDone, LeaveTopic, IInv, TypeOK
  <2>3. rows'[v] = Batch(at[v], from[v]) /\ at'[v] = at[v]
    BY <1>6, <2>2 DEF Fetch, IInv, TypeOK
  <2>4. at[v] \in Topics /\ Passed(c, at[v], from[v]) /\ from[v] \in Nat
    BY <2>1, <2>3 DEF IInv, AtInv, PositionInv, Good, InTopic, TypeOK
  <2> QED BY <1>1, <2>1, <2>3, <2>4, BatchHasNoHole DEF IInv, txVars
<1>7. CASE HandleOk(v)
  <2>1. PICK t \in FirstRow(v) : /\ handled' = [handled EXCEPT ![c] = @ \cup {t}]
                                 /\ rows' = [rows EXCEPT ![v] = @ \ {t}]
                                 /\ UNCHANGED <<eid, tx, at>>
    BY <1>7 DEF HandleOk, txVars
  <2>2. rows'[v] = rows[v] \ {t} /\ handled'[c] = handled[c] \cup {t}
    BY <1>1, <2>1 DEF IInv, TypeOK
  <2>3. u \in rows[v] \/ u \in handled[c] \/ tx[u] = "aborted"
    BY <2>1, <2>2 DEF IInv, RowsInv
  <2> QED BY <2>1, <2>2, <2>3
<1>8. CASE rows'[v] = rows[v] /\ at'[v] = at[v]
  BY <1>4, <1>5, <1>8 DEF IInv, RowsInv
<1> QED BY <1>2, <1>6, <1>7, <1>8 DEF RowsMove
\* Positions stay good.
LEMMA NextPositionInv == IInv /\ [Next]_vars => PositionInv'
<1> SUFFICES ASSUME IInv, [Next]_vars PROVE PositionInv'
  OBVIOUS
<1>0. TypeOK /\ AtInv /\ IdInv /\ PositionInv /\ TypeOK'
  BY NextTypeOK DEF IInv
<1>1. \A c \in Consumers, tp \in Topics, n \in Nat : Good(c, tp, n) => GoodAfter(c, tp, n)
  BY <1>0, GoodFacts
<1>2. \A c \in Consumers, tp \in Topics : GoodAfter(c, tp, 0)
  BY <1>0, GoodFacts
<1>3. \A c \in Consumers, tp \in Topics, m, n \in Nat : m <= n /\ Good(c, tp, n) => Good(c, tp, m)
  BY <1>0, GoodFacts
<1>4. \A c \in Consumers, tp \in Topics : GoodAfter(c, tp, cursor'[c][tp])
  <2> TAKE c \in Consumers, tp \in Topics
  <2>1. \/ cursor'[c][tp] = cursor[c][tp]
        \/ \E w \in Workers : /\ pc[w] = "advance" /\ at[w] = tp /\ ConsumerOf[w] = c
                              /\ cursor'[c][tp] = done[w]
    <3>1. CASE UNCHANGED cursor
      BY <3>1
    <3>2. ASSUME NEW w \in Workers, pc[w] = "advance", CursorWritten(w) PROVE <2>1!:
      <4>1. /\ cursor' = [cursor EXCEPT ![ConsumerOf[w]][at[w]] =
                             AdvancedCursor(ConsumerOf[w], at[w], done[w])]
            /\ pc[w] = "advance"
        BY <3>2 DEF CursorWritten
      <4>2. CASE c = ConsumerOf[w] /\ tp = at[w]
        BY <1>0, <4>1, <4>2 DEF AdvancedCursor, TypeOK
      <4>3. CASE c # ConsumerOf[w] \/ tp # at[w]
        BY <1>0, <4>1, <4>3 DEF TypeOK
      <4> QED BY <4>2, <4>3
    <3> QED BY <3>1, <3>2, Frames
  <2> QED BY <1>0, <1>1, <2>1 DEF PositionInv, TypeOK
<1>5. \A c \in Consumers, tp \in Topics : GoodAfter(c, tp, legacy'[c])
  <2> TAKE c \in Consumers, tp \in Topics
  <2>1. CASE legacy'[c] = legacy[c]
    BY <1>0, <1>1, <2>1 DEF PositionInv, TypeOK
  <2>2. CASE legacy'[c] # legacy[c]
    <3>1. PICK w \in Workers : ConsumerOf[w] = c /\ \E n \in LeastSeen(w) : legacy'[c] = n
      BY <1>0, <2>2, Frames, WorkerAssumption DEF AggregateWritten, TypeOK
    <3> DEFINE n == legacy'[c]
    <3>2. PICK s \in Subs[c] : n = seen[w][s] /\ \A u \in Subs[c] : seen[w][s] <= seen[w][u]
      BY <3>1 DEF LeastSeen
    <3>3. s \in Topics /\ n \in Nat
      BY <1>0, <3>2, WorkerAssumption DEF TypeOK
    <3>4. Good(c, tp, n)
      <4>1. CASE tp \in Guarded(c)
        <5>1. tp \in Subs[c]
          BY <4>1, RetentionAssumption DEF Guarded
        <5>2. Good(c, tp, seen[w][tp]) /\ seen[w][tp] \in Nat
          BY <1>0, <3>1 DEF PositionInv, TypeOK
        <5> QED BY <1>3, <3>2, <3>3, <5>1, <5>2
      <4>2. CASE tp \notin Guarded(c)
        <5>1. Good(c, s, seen[w][s])
          BY <1>0, <3>1, <3>3 DEF PositionInv
        <5> QED BY <3>2, <4>2, <5>1 DEF Good
      <4> QED BY <4>1, <4>2
    <3> QED BY <1>1, <3>1, <3>3, <3>4
  <2> QED BY <2>1, <2>2
<1>6. \A c \in Consumers, tp \in Topics : pr'.topic = tp => GoodAfter(c, tp, pr'.floor)
  <2> SUFFICES ASSUME NEW c \in Consumers, NEW tp \in Topics, pr'.topic = tp
               PROVE  GoodAfter(c, tp, pr'.floor)
    OBVIOUS
  <2>1. CASE UNCHANGED pr
    BY <1>0, <1>1, <2>1 DEF PositionInv, TypeOK
  <2>2. CASE PruneDeletes
    BY <2>2, NoTopic DEF PruneDeletes, NoPrune
  <2>3. ASSUME NEW s \in Topics, PruneReads(s) PROVE GoodAfter(c, tp, pr'.floor)
    <3>1. CASE pr' = [topic |-> s, floor |-> 0]
      BY <1>2, <3>1
    <3>2. CASE \E n \in Floors(s) : pr' = [topic |-> s, floor |-> n]
      <4>1. PICK b \in Required[s] : /\ pr' = [topic |-> s, floor |-> legacy[b]]
                                     /\ \A d \in Required[s] : legacy[b] <= legacy[d]
        BY <3>2 DEF Floors
      <4>2. s = tp /\ b \in Consumers /\ legacy[b] \in Nat /\ legacy[c] \in Nat
        BY <1>0, <4>1, RetentionAssumption DEF TypeOK
      <4>3. Good(c, tp, legacy[b])
        <5>1. CASE tp \in Guarded(c)
          BY <1>0, <1>3, <4>1, <4>2, <5>1 DEF PositionInv, Guarded
        <5>2. CASE tp \notin Guarded(c)
          BY <1>0, <4>2, <5>2 DEF PositionInv, Good
        <5> QED BY <5>1, <5>2
      <4> QED BY <1>1, <4>1, <4>2, <4>3
    <3> QED BY <2>3, <3>1, <3>2 DEF PruneReads
  <2> QED BY <2>1, <2>2, <2>3, Frames
<1>7. ASSUME NEW w \in Workers, NEW tp \in Topics
      PROVE  /\ GoodAfter(ConsumerOf[w], tp, seen'[w][tp])
             /\ pc'[w] \in InTopic /\ at'[w] = tp => GoodAfter(ConsumerOf[w], tp, from'[w])
             /\ pc'[w] \in {"handle", "advance"} /\ at'[w] = tp =>
                  GoodAfter(ConsumerOf[w], tp, done'[w])
  <2>0. ConsumerOf[w] \in Consumers /\ SeenMoves(w) /\ FromMoves(w) /\ DoneMoves(w)
    BY <1>0, WorkerAssumption, NextMoves DEF Moves
  <2>1. GoodAfter(ConsumerOf[w], tp, seen'[w][tp])
    <3>1. seen[w][tp] \in Nat /\ from[w] \in Nat /\ done[w] \in Nat
      BY <1>0 DEF TypeOK
    <3>2. Good(ConsumerOf[w], tp, seen[w][tp])
      BY <1>0 DEF PositionInv
    <3>3. pc[w] = "fetch" /\ at[w] = tp => Good(ConsumerOf[w], tp, from[w])
      BY <1>0 DEF PositionInv, InTopic
    <3>4. pc[w] \in {"handle", "advance"} /\ at[w] = tp => Good(ConsumerOf[w], tp, done[w])
      BY <1>0 DEF PositionInv
    <3> QED BY <1>1, <1>2, <2>0, <3>1, <3>2, <3>3, <3>4 DEF SeenMoves
  <2>2. ASSUME pc'[w] \in InTopic, at'[w] = tp PROVE GoodAfter(ConsumerOf[w], tp, from'[w])
    BY <1>0, <1>1, <2>0, <2>2 DEF FromMoves, StoredCursor, PositionInv, TypeOK
  <2>3. ASSUME pc'[w] \in {"handle", "advance"}, at'[w] = tp
        PROVE  GoodAfter(ConsumerOf[w], tp, done'[w])
    <3>1. CASE ~HandleOk(w)
      BY <1>0, <1>1, <2>0, <2>3, <3>1 DEF DoneMoves, PositionInv, InTopic, TypeOK
    <3>2. CASE HandleOk(w)
      <4>1. PICK t \in FirstRow(w) :
                 /\ handled' = [handled EXCEPT ![ConsumerOf[w]] = @ \cup {t}]
                 /\ done' = [done EXCEPT ![w] = eid[t]]
                 /\ UNCHANGED <<eid, tx, at, seq>>
        BY <3>2 DEF HandleOk, txVars
      <4>2. /\ t \in rows[w] /\ t \in Txs /\ done'[w] = eid[t] /\ at[w] = tp
            /\ handled'[ConsumerOf[w]] = handled[ConsumerOf[w]] \cup {t}
            /\ \A u \in rows[w] : eid[t] <= eid[u]
        BY <1>0, <2>0, <2>3, <4>1 DEF FirstRow, TypeOK
      <4>3. eid[t] <= seq'
        BY <1>0, <4>1, <4>2 DEF IdInv
      <4>4. ASSUME tp \in Guarded(ConsumerOf[w]), NEW u \in Txs,
                   TxTopic[u] = tp, eid[u] > 0, eid[u] <= eid[t]
            PROVE  u \in handled'[ConsumerOf[w]] \/ tx[u] = "aborted"
        <5>1. u \in rows[w] \/ u \in handled[ConsumerOf[w]] \/ tx[u] = "aborted"
          BY <4>2, <4>4 DEF IInv, RowsInv
        <5>2. CASE u \in rows[w]
          <6>0. eid[u] \in Nat /\ eid[t] \in Nat
            BY <1>0, <4>2 DEF TypeOK
          <6>1. eid[u] = eid[t]
            BY <4>2, <4>4, <5>2, <6>0
          <6> QED BY <1>0, <4>2, <4>4, <6>1 DEF IdInv
        <5> QED BY <4>2, <5>1, <5>2
      <4> QED BY <4>1, <4>2, <4>3, <4>4 DEF GoodAfter
    <3> QED BY <3>1, <3>2
  <2> QED BY <2>1, <2>2, <2>3
<1> QED BY <1>4, <1>5, <1>6, <1>7 DEF PositionInv, Good, GoodAfter, Passed
\* What is deleted has been consumed.
LEMMA NextPruned == IInv /\ [Next]_vars => PrunedWereConsumed'
<1> SUFFICES ASSUME IInv, [Next]_vars, NEW t \in Txs, tx'[t] = "pruned", TxTopic[t] \in Orderly,
                    NEW c \in Required[TxTopic[t]]
             PROVE  t \in handled'[c]
  BY DEF PrunedWereConsumed
<1>0. TypeOK /\ AtInv /\ IdInv /\ PositionInv
  BY DEF IInv
<1>1. c \in Consumers /\ TxTopic[t] \in Topics /\ TxTopic[t] \in Guarded(c)
  BY RetentionAssumption, TxAssumption DEF Guarded
<1>2. handled[c] \subseteq handled'[c]
  BY <1>0, <1>1, StepFacts
<1>3. CASE tx[t] = "pruned"
  BY <1>2, <1>3 DEF IInv, PrunedWereConsumed
<1>4. CASE tx[t] # "pruned"
  <2>1. PruneDeletes
    <3>1. CASE UNCHANGED txVars
      BY <1>4, <3>1 DEF txVars
    <3>2. ASSUME NEW u \in Txs, Produce(u) PROVE FALSE
      BY <1>0, <1>4, <3>2 DEF Produce, Write, Emit, Settle, TypeOK
    <3> QED BY <3>1, <3>2, Frames
  <2>2. t \in Deletable
    BY <1>4, <2>1 DEF PruneDeletes
  <2>3. tx[t] = "committed" /\ pr.topic = TxTopic[t] /\ eid[t] <= pr.floor
    BY <2>2 DEF Deletable, Orderly
  <2>4. eid[t] > 0 /\ Passed(c, TxTopic[t], pr.floor)
    BY <1>0, <1>1, <2>3 DEF IdInv, PositionInv, Good
  <2>5. t \in handled[c]
    BY <2>3, <2>4 DEF Passed
  <2> QED BY <1>2, <2>5
<1> QED BY <1>3, <1>4

\* The empty outbox satisfies the inductive invariant.
LEMMA InitIInv == Init => IInv
<1> SUFFICES ASSUME Init PROVE IInv
  OBVIOUS
<1>1. TypeOK
  BY DEF Init, TypeOK, NoPrune
<1>2. IdInv /\ AtInv /\ RowsInv /\ PrunedWereConsumed
  BY DEF Init, IdInv, AtInv, RowsInv, PrunedWereConsumed
<1>3. PositionInv
  BY WorkerAssumption, NoTopic DEF Init, PositionInv, Good, Passed, InTopic, NoPrune
<1> QED BY <1>1, <1>2, <1>3 DEF IInv

-----------------------------------------------------------------------------
\* The inductive invariant holds in every reachable state.
THEOREM Invariance == Spec => []IInv
<1>1. IInv /\ [Next]_vars => IInv'
  BY NextTypeOK, NextIdInv, NextAtInv, NextPositionInv, NextRowsInv, NextPruned DEF IInv
<1> QED BY <1>1, InitIInv, PTL DEF Spec

\* Type correctness of the outbox tables and the poll loops.
THEOREM TypeCorrect == Spec => []TypeOK
<1>1. IInv => TypeOK
  BY DEF IInv
<1> QED BY <1>1, Invariance, PTL

\* The xmin watermark of runTopicOnce: on topics whose transactions begin with
\* the emit, no topic cursor passes an unhandled event, in whatever order the
\* transactions commit and however many instances share the cursor.
THEOREM CursorSkipsNothing == Spec => []NoEventSkipped
<1>1. IInv => NoEventSkipped
  BY DEF IInv, NoEventSkipped, PositionInv, Good, Guarded, Orderly
<1> QED BY <1>1, Invariance, PTL

\* The aggregate cursor of syncLegacyAggregateCursor skips nothing either.
THEOREM AggregateSkipsNothing == Spec => []RollbackSafe
<1>1. IInv => RollbackSafe
  BY DEF IInv, RollbackSafe, PositionInv, Good, Guarded, Orderly
<1> QED BY <1>1, Invariance, PTL

\* pruneEventOutbox, deleting under a floor it read earlier, deletes no event
\* that a required consumer has not handled.
THEOREM PruningIsSafe == Spec => []PrunedWereConsumed
<1>1. IInv => PrunedWereConsumed
  BY DEF IInv
<1> QED BY <1>1, Invariance, PTL

\* The GREATEST upserts of advanceCursor and syncLegacyAggregateCursor: no step
\* of any instance moves a stored cursor back.
THEOREM CursorsAdvance == Spec => CursorsOnlyAdvance
<1> DEFINE Advance == \A c \in Consumers : /\ legacy'[c] >= legacy[c]
                                           /\ \A tp \in Topics : cursor'[c][tp] >= cursor[c][tp]
<1>1. TypeOK /\ [Next]_vars => Advance
  <2> SUFFICES ASSUME TypeOK, [Next]_vars, NEW c \in Consumers
               PROVE  /\ legacy'[c] >= legacy[c]
                      /\ \A tp \in Topics : cursor'[c][tp] >= cursor[c][tp]
    OBVIOUS
  <2>1. legacy'[c] >= legacy[c]
    <3>1. CASE UNCHANGED legacy
      BY <3>1 DEF TypeOK
    <3>2. ASSUME NEW w \in Workers, NEW n \in LeastSeen(w), AggregateWritten(w, n)
          PROVE  legacy'[c] >= legacy[c]
      <4>1. n \in Nat /\ legacy \in [Consumers -> Nat]
        BY WorkerAssumption DEF LeastSeen, TypeOK
      <4>2. legacy'[c] = legacy[c] \/ (legacy'[c] = n /\ ~(legacy[c] > n))
        BY <3>2, <4>1 DEF AggregateWritten
      <4> QED BY <4>1, <4>2
    <3> QED BY <3>1, <3>2, Frames
  <2>2. ASSUME NEW tp \in Topics PROVE cursor'[c][tp] >= cursor[c][tp]
    <3>1. CASE UNCHANGED cursor
      BY <3>1 DEF TypeOK
    <3>2. ASSUME NEW w \in Workers, CursorWritten(w) PROVE cursor'[c][tp] >= cursor[c][tp]
      <4>1. cursor' = [cursor EXCEPT ![ConsumerOf[w]][at[w]] =
                         AdvancedCursor(ConsumerOf[w], at[w], done[w])]
        BY <3>2 DEF CursorWritten
      <4>2. CASE c = ConsumerOf[w] /\ tp = at[w]
        <5>1. cursor[c][tp] \in Nat /\ done[w] \in Nat
          BY DEF TypeOK
        <5>2. cursor'[c][tp] = AdvancedCursor(c, tp, done[w])
          BY <4>1, <4>2 DEF TypeOK
        <5> QED BY <5>1, <5>2 DEF AdvancedCursor
      <4>3. CASE c # ConsumerOf[w] \/ tp # at[w]
        <5>1. cursor'[c][tp] = cursor[c][tp] /\ cursor[c][tp] \in Nat
          BY <4>1, <4>3 DEF TypeOK
        <5> QED BY <5>1
      <4> QED BY <4>2, <4>3
    <3> QED BY <3>1, <3>2, Frames
  <2> QED BY <2>1, <2>2
<1>2. TypeOK /\ [Next]_vars => [Advance]_vars
  BY <1>1
<1> QED BY <1>2, TypeCorrect, PTL DEF Spec, CursorsOnlyAdvance


-----------------------------------------------------------------------------
(* Connections *)

LinkTypes ==
    /\ sock \in [Sockets -> SocketStates] /\ hello \in [Sockets -> HelloStates] /\ rt \in [Sockets -> RuntimeStates]
    /\ edges \subseteq Sockets /\ work \subseteq Sockets
    /\ excuse \in [orphan : SUBSET Sockets, captcha : SUBSET Edges, overlap : SUBSET (Sockets \X Notes)]

\* How far the hello of a connection has come says which runtime it has, as long as its socket is there.
SockOK(s) ==
    /\ sock[s] = "none" => hello[s] = "none"
    /\ hello[s] \in {"none", "handshake", "refused"} => rt[s] = "none" /\ s \notin edges
    /\ hello[s] = "refused" => sock[s] # "open"
    /\ hello[s] = "welcoming" => rt[s] \in {"none", "transport"} /\ s \notin edges
    /\ hello[s] = "welcoming" /\ sock[s] # "closed" => rt[s] = "transport"
    /\ hello[s] = "done" => rt[s] \in {"none", "welcomed", "active"}
    /\ hello[s] = "done" /\ sock[s] # "closed" => rt[s] # "none"
    /\ rt[s] # "none" /\ sock[s] = "closed" => s \in excuse.orphan
    /\ s \in work => hello[s] = "done" /\ sock[s] # "closed"

LinkInv == LinkTypes /\ (\A s \in Sockets : SockOK(s)) /\ \A e \in Edges : \A s, t \in Live(e) : s = t

LEMMA InitLink == LinkInit => LinkInv
BY DEF LinkInit, LinkInv, LinkTypes, SockOK, Live, SocketStates, HelloStates, RuntimeStates

\* Steps that leave the connections alone.
LEMMA LinkStays ==
    ASSUME LinkInv, UNCHANGED link, excuse'.orphan = excuse.orphan,
           excuse' \in [orphan : SUBSET Sockets, captcha : SUBSET Edges, overlap : SUBSET (Sockets \X Notes)]
    PROVE  LinkInv'
BY DEF link, LinkInv, LinkTypes, SockOK, Live

\* Nobody becomes live but by Connect.
LEMMA SocketStep ==
    ASSUME LinkInv, NEW s \in Sockets, UNCHANGED excuse,
           Connect(s) \/ Hello(s) \/ HandshakeRefused(s) \/ EndWork(s)
    PROVE  LinkInv'
<1>0. LinkTypes /\ SockOK(s) /\ \A t \in Sockets : SockOK(t)
  BY DEF LinkInv
<1>1. CASE Connect(s)
  <2>1. sock' = [sock EXCEPT ![s] = "open"] /\ sock[s] = "none" /\ UNCHANGED <<hello, edges, rt, work>>
    BY <1>1 DEF Connect
  <2>2. LinkTypes'
    BY <1>0, <2>1 DEF LinkTypes, SocketStates
  <2>3. \A t \in Sockets : SockOK(t)'
    BY <1>0, <2>1 DEF LinkTypes, SockOK
  <2>4. s \notin edges
    BY <1>0, <2>1 DEF SockOK
  <2>5. \A e \in Edges : Live(e)' = Live(e)
    BY <1>0, <2>1, <2>4 DEF Live, LinkTypes
  <2> QED BY <2>2, <2>3, <2>5 DEF LinkInv
<1>2. CASE Hello(s)
  <2>1. hello' = [hello EXCEPT ![s] = "handshake"] /\ hello[s] = "none" /\ sock[s] = "open" /\ UNCHANGED <<sock, edges, rt, work>>
    BY <1>2 DEF Hello
  <2>2. LinkTypes'
    BY <1>0, <2>1 DEF LinkTypes, HelloStates
  <2>3. \A t \in Sockets : SockOK(t)'
    BY <1>0, <2>1 DEF LinkTypes, SockOK
  <2> QED BY <2>1, <2>2, <2>3 DEF LinkInv, Live
<1>3. CASE HandshakeRefused(s)
  <2>1. /\ hello' = [hello EXCEPT ![s] = "refused"] /\ hello[s] = "handshake" /\ UNCHANGED <<edges, rt, work>>
        /\ sock' = [sock EXCEPT ![s] = IF sock[s] = "open" THEN "closing" ELSE sock[s]]
    BY <1>3 DEF HandshakeRefused
  <2>2. LinkTypes'
    BY <1>0, <2>1 DEF LinkTypes, HelloStates, SocketStates
  <2>3. \A t \in Sockets : SockOK(t)'
    BY <1>0, <2>1 DEF LinkTypes, SockOK
  <2>4. \A e \in Edges : Live(e)' \subseteq Live(e)
    BY <1>0, <2>1 DEF Live, LinkTypes
  <2> QED BY <2>2, <2>3, <2>4 DEF LinkInv
<1>4. CASE EndWork(s)
  BY <1>0, <1>4 DEF EndWork, LinkInv, LinkTypes, SockOK, Live
<1> QED BY <1>1, <1>2, <1>3, <1>4

LEMMA HandshakeStep == ASSUME LinkInv, NEW s \in Sockets, onHandshake(s) PROVE LinkInv'
<1>0. LinkTypes /\ SockOK(s) /\ \A t \in Sockets : SockOK(t)
  BY DEF LinkInv
<1>1. /\ hello[s] = "handshake" /\ hello' = [hello EXCEPT ![s] = "welcoming"] /\ rt' = [rt EXCEPT ![s] = "transport"]
      /\ UNCHANGED <<sock, edges, work>>
  BY DEF onHandshake
<1>2. PICK o \in SUBSET Sockets :
         /\ excuse' = [excuse EXCEPT !.orphan = o] /\ excuse.orphan \subseteq o /\ (sock[s] = "closed" => s \in o)
  <2>1. (IF sock[s] = "closed" THEN excuse.orphan \cup {s} ELSE excuse.orphan) \in SUBSET Sockets
    BY <1>0 DEF LinkTypes
  <2> QED BY <2>1 DEF onHandshake
<1>3. excuse' \in [orphan : SUBSET Sockets, captcha : SUBSET Edges, overlap : SUBSET (Sockets \X Notes)] /\ excuse'.orphan = o
  BY <1>0, <1>2 DEF LinkTypes
<1>4. LinkTypes'
  BY <1>0, <1>1, <1>3 DEF LinkTypes, HelloStates, RuntimeStates
<1>5. \A t \in Sockets : SockOK(t)'
  BY <1>0, <1>1, <1>2, <1>3 DEF LinkTypes, SockOK
<1> QED BY <1>1, <1>4, <1>5 DEF LinkInv, Live

\* A welcome replaces the other connections of its edge; without a runtime its own socket is gone.
LEMMA WelcomeStep == ASSUME LinkInv, NEW s \in Sockets, Welcome(s) PROVE LinkInv'
<1>0. LinkTypes /\ SockOK(s) /\ \A t \in Sockets : SockOK(t)
  BY DEF LinkInv
<1>1. /\ hello[s] = "welcoming" /\ hello' = [hello EXCEPT ![s] = "done"] /\ edges' = edges \cup {s}
      /\ UNCHANGED <<work, excuse>>
  BY DEF Welcome
<1>2. CASE rt[s] = "transport"
  <2>1. PICK st \in {"welcomed", "active"} : rt' = [rt EXCEPT ![s] = st]
    BY <1>2 DEF Welcome
  <2>2. sock' = closeEdge(Replaced(s))
    BY <1>2 DEF Welcome
  <2>3. sock' \in [Sockets -> SocketStates]
    BY <1>0, <2>2 DEF closeEdge, LinkTypes, SocketStates
  <2>4. ASSUME NEW t \in Sockets
        PROVE  /\ sock'[t] = sock[t] \/ (t \in edges /\ sock[t] = "open" /\ sock'[t] = "closing")
               /\ t \in edges /\ sock'[t] = "open" => EdgeOf[t] # EdgeOf[s]
    <3>1. sock'[t] = IF t \in Replaced(s) \cap edges /\ sock[t] = "open" THEN "closing" ELSE sock[t]
      BY <2>2 DEF closeEdge
    <3>2. ASSUME t \in edges, sock[t] = "open", EdgeOf[t] = EdgeOf[s] PROVE t \in Replaced(s)
      <4>1. SockOK(t) /\ hello[t] \in HelloStates
        BY <1>0 DEF LinkTypes
      <4>2. hello[t] = "done"
        BY <3>2, <4>1 DEF SockOK, HelloStates
      <4>3. rt[t] \in {"welcomed", "active"} /\ t # s
        BY <1>1, <3>2, <4>1, <4>2 DEF SockOK
      <4> QED BY <3>2, <4>3 DEF Replaced
    <3> QED BY <3>1, <3>2
  <2>5. LinkTypes'
    BY <1>0, <1>1, <2>1, <2>3 DEF LinkTypes, HelloStates, RuntimeStates
  <2>6. ASSUME NEW t \in Sockets PROVE SockOK(t)'
    <3>1. CASE t = s
      <4>1. hello'[s] = "done" /\ rt'[s] = st /\ s \in edges' /\ work' = work /\ excuse' = excuse
        BY <1>0, <1>1, <2>1 DEF LinkTypes
      <4>2. s \notin work /\ (sock[s] = "closed" => s \in excuse.orphan) /\ s \notin edges
        BY <1>0, <1>1, <1>2 DEF SockOK
      <4>3. sock'[s] = sock[s]
        BY <2>4, <4>2
      <4>4. sock[s] # "none"
        BY <1>0, <1>1 DEF SockOK
      <4> QED BY <3>1, <4>1, <4>2, <4>3, <4>4 DEF SockOK
    <3>2. CASE t # s
      <4>1. hello'[t] = hello[t] /\ rt'[t] = rt[t] /\ (t \in edges' <=> t \in edges) /\ (t \in work' <=> t \in work) /\ SockOK(t)
        BY <1>0, <1>1, <2>1, <3>2 DEF LinkTypes
      <4>2. sock'[t] = sock[t] \/ (sock[t] = "open" /\ sock'[t] = "closing" /\ t \in edges)
        BY <2>4
      <4> QED BY <1>1, <4>1, <4>2 DEF SockOK
    <3> QED BY <3>1, <3>2
  <2>7. \A e \in Edges : \A t, u \in Live(e)' : t = u
    <3>1. ASSUME NEW e \in Edges, NEW t \in Live(e)', t # s PROVE FALSE \/ (t \in Live(e) /\ EdgeOf[s] # e)
      BY <1>0, <1>1, <2>4, <3>1 DEF Live, LinkTypes
    <3> QED BY <3>1 DEF LinkInv, Live
  <2> QED BY <2>5, <2>6, <2>7 DEF LinkInv
<1>3. CASE rt[s] # "transport"
  <2>1. UNCHANGED <<rt, sock>> /\ sock[s] = "closed"
    BY <1>0, <1>1, <1>3 DEF Welcome, SockOK
  <2>2. LinkTypes'
    BY <1>0, <1>1, <2>1 DEF LinkTypes, HelloStates
  <2>3. \A t \in Sockets : SockOK(t)'
    BY <1>0, <1>1, <1>3, <2>1 DEF LinkTypes, SockOK
  <2>4. \A e \in Edges : Live(e)' = Live(e)
    BY <1>1, <2>1 DEF Live
  <2> QED BY <2>2, <2>3, <2>4 DEF LinkInv
<1> QED BY <1>2, <1>3

\* The work of the edge ends with any of its connections.
LEMMA CloseStep == ASSUME LinkInv, NEW s \in Sockets, PeerClose(s) \/ CloseEvent(s) PROVE LinkInv'
<1>0. LinkTypes /\ SockOK(s) /\ \A t \in Sockets : SockOK(t)
  BY DEF LinkInv
<1>1. /\ sock[s] # "none" /\ sock[s] # "closed" /\ sock' = [sock EXCEPT ![s] = "closed"] /\ edges' = edges \ {s}
      /\ rt' = [rt EXCEPT ![s] = "none"] /\ work' \subseteq work /\ (hello[s] # "none" => s \notin work')
      /\ UNCHANGED <<hello, excuse>>
  BY DEF PeerClose, CloseEvent, onClose
<1>2. LinkTypes'
  BY <1>0, <1>1 DEF LinkTypes, SocketStates, RuntimeStates
<1>3. s \notin work'
  BY <1>0, <1>1 DEF SockOK
<1>4. \A t \in Sockets : SockOK(t)'
  BY <1>0, <1>1, <1>3 DEF LinkTypes, SockOK
<1>5. \A e \in Edges : Live(e)' \subseteq Live(e)
  BY <1>0, <1>1 DEF Live, LinkTypes
<1> QED BY <1>2, <1>4, <1>5 DEF LinkInv

\* Work starts on an open connection.
LEMMA StartWorkStep == ASSUME LinkInv, NEW e \in Edges, StartWork(e) PROVE LinkInv'
<1>0. LinkTypes /\ \A t \in Sockets : SockOK(t)
  BY DEF LinkInv
<1>1. work \subseteq work' /\ work' \subseteq work \cup Live(e) /\ UNCHANGED <<sock, hello, edges, rt, excuse>>
  BY DEF StartWork, Targets
<1>2. LinkTypes'
  BY <1>0, <1>1 DEF LinkTypes, Live
<1>3. \A t \in Live(e) : hello[t] = "done" /\ sock[t] = "open"
  BY <1>0 DEF Live, LinkTypes, SockOK, HelloStates
<1>4. \A t \in Sockets : SockOK(t)'
  BY <1>0, <1>1, <1>3 DEF SockOK
<1> QED BY <1>1, <1>2, <1>4 DEF LinkInv, Live

\* What the other steps write of the excuses is not about connections.
LEMMA ExcuseForms ==
    ASSUME LinkTypes, NEW c \in SUBSET Edges, NEW o \in SUBSET (Sockets \X Notes)
    PROVE  /\ [excuse EXCEPT !.captcha = c] \in [orphan : SUBSET Sockets, captcha : SUBSET Edges, overlap : SUBSET (Sockets \X Notes)]
           /\ [excuse EXCEPT !.overlap = o] \in [orphan : SUBSET Sockets, captcha : SUBSET Edges, overlap : SUBSET (Sockets \X Notes)]
           /\ [excuse EXCEPT !.captcha = c].captcha = c /\ [excuse EXCEPT !.captcha = c].orphan = excuse.orphan
           /\ [excuse EXCEPT !.captcha = c].overlap = excuse.overlap
           /\ [excuse EXCEPT !.overlap = o].captcha = excuse.captcha /\ [excuse EXCEPT !.overlap = o].orphan = excuse.orphan
           /\ [excuse EXCEPT !.overlap = o].overlap = o
BY DEF LinkTypes

-----------------------------------------------------------------------------
(* The recovery lease *)

RecoveryRec == [shot : BOOLEAN, asking : Nat, lease : BOOLEAN, entry : BOOLEAN, freeing : BOOLEAN]
LeaseInv == recovery \in [Edges -> RecoveryRec] /\ LeaseTracked

\* An edge whose lease, entry and release are as before, or one that is lost, released or granted in good order.
LEMMA RecoveryStep ==
    ASSUME LeaseInv, NEW e \in Edges, NEW r \in RecoveryRec, r.lease => r.entry \/ r.freeing,
           recovery' = [recovery EXCEPT ![e] = r]
    PROVE  LeaseInv'
BY DEF LeaseInv, LeaseTracked

LEMMA LeaseStays == ASSUME LeaseInv, UNCHANGED recovery PROVE LeaseInv'
BY DEF LeaseInv, LeaseTracked

LEMMA ShotStep ==
    ASSUME LeaseInv, NEW e \in Edges, NEW b \in BOOLEAN, recovery' = [recovery EXCEPT ![e].shot = b]
    PROVE  LeaseInv'
<1>1. recovery[e] \in RecoveryRec /\ (recovery[e].lease => recovery[e].entry \/ recovery[e].freeing)
  BY DEF LeaseInv, LeaseTracked
<1>2. PICK r : r = [recovery[e] EXCEPT !.shot = b]
  OBVIOUS
<1>3. r \in RecoveryRec /\ r.lease = recovery[e].lease /\ r.entry = recovery[e].entry /\ r.freeing = recovery[e].freeing
  BY <1>1, <1>2 DEF RecoveryRec
<1>4. recovery' = [recovery EXCEPT ![e] = r]
  BY <1>2
<1> QED BY <1>1, <1>3, <1>4, RecoveryStep

LEMMA CloseLease == ASSUME LeaseInv, NEW s \in Sockets, EdgeOf[s] \in Edges, onClose(s) PROVE LeaseInv'
<1>1. CASE hello[s] = "none"
  BY <1>1, LeaseStays DEF onClose
<1>2. CASE hello[s] # "none"
  <2>1. recovery[EdgeOf[s]] \in RecoveryRec
    BY DEF LeaseInv
  <2>2. PICK r : r = [recovery[EdgeOf[s]] EXCEPT !.lease = FALSE]
    OBVIOUS
  <2>3. r \in RecoveryRec /\ r.lease = FALSE
    BY <2>1, <2>2 DEF RecoveryRec
  <2>4. recovery' = [recovery EXCEPT ![EdgeOf[s]] = r]
    BY <1>2, <2>2 DEF onClose
  <2> QED BY <2>3, <2>4, RecoveryStep
<1> QED BY <1>1, <1>2

LEMMA AskStep ==
    ASSUME LeaseInv, NEW e \in Edges, submitClick(e) \/ LeaseRefused(e) PROVE LeaseInv'
<1>1. recovery[e] \in RecoveryRec /\ (recovery[e].lease => recovery[e].entry \/ recovery[e].freeing)
  BY DEF LeaseInv, LeaseTracked
<1>2. PICK n \in Nat : recovery' = [recovery EXCEPT ![e].asking = n]
  <2>1. CASE submitClick(e)
    <3>1. recovery[e].asking + 1 \in Nat
      BY <1>1 DEF RecoveryRec
    <3> QED BY <2>1, <3>1 DEF submitClick
  <2>2. CASE LeaseRefused(e)
    <3>1. recovery[e].asking - 1 \in Nat
      BY <1>1, <2>2 DEF RecoveryRec, LeaseRefused
    <3> QED BY <2>2, <3>1 DEF LeaseRefused
  <2> QED BY <2>1, <2>2
<1>3. PICK r : r = [recovery[e] EXCEPT !.asking = n]
  OBVIOUS
<1>4. r \in RecoveryRec /\ r.lease = recovery[e].lease /\ r.entry = recovery[e].entry /\ r.freeing = recovery[e].freeing
  BY <1>1, <1>3 DEF RecoveryRec
<1>5. recovery' = [recovery EXCEPT ![e] = r]
  BY <1>2, <1>3
<1> QED BY <1>1, <1>4, <1>5, RecoveryStep

LEMMA GrantStep == ASSUME LeaseInv, NEW e \in Edges, LeaseGranted(e) PROVE LeaseInv'
<1>1. recovery[e] \in RecoveryRec
  BY DEF LeaseInv
<1>2. PICK sent \in BOOLEAN : /\ recovery[e].asking > 0
         /\ recovery' = [recovery EXCEPT ![e].asking = recovery[e].asking - 1, ![e].lease = TRUE,
                                         ![e].entry = recovery[e].entry \/ sent, ![e].freeing = recovery[e].freeing \/ ~sent]
  BY DEF LeaseGranted
<1>3. PICK entry \in BOOLEAN, freeing \in BOOLEAN :
         (entry <=> recovery[e].entry \/ sent) /\ (freeing <=> recovery[e].freeing \/ ~sent)
      /\ entry = (recovery[e].entry \/ sent) /\ freeing = (recovery[e].freeing \/ ~sent)
  BY Zenon
<1>4. PICK r : r = [recovery[e] EXCEPT !.asking = recovery[e].asking - 1, !.lease = TRUE, !.entry = entry, !.freeing = freeing]
  OBVIOUS
<1>5. recovery[e].asking - 1 \in Nat
  BY <1>1, <1>2 DEF RecoveryRec
<1>6. r \in RecoveryRec /\ r.entry = entry /\ r.freeing = freeing
  BY <1>1, <1>4, <1>5 DEF RecoveryRec
<1>7. recovery' = [recovery EXCEPT ![e].asking = recovery[e].asking - 1, ![e].lease = TRUE, ![e].entry = entry, ![e].freeing = freeing]
  BY <1>2, <1>3, Zenon
<1>8. recovery' = [recovery EXCEPT ![e] = r]
  BY <1>1, <1>4, <1>7 DEF LeaseInv, RecoveryRec
<1> QED BY <1>3, <1>6, <1>8, RecoveryStep

LEMMA ReleaseStep ==
    ASSUME LeaseInv, NEW e \in Edges, onClickResult(e) \/ RecoveryTimer(e) \/ LeaseReleased(e) PROVE LeaseInv'
<1>1. recovery[e] \in RecoveryRec
  BY DEF LeaseInv
<1>2. CASE LeaseReleased(e)
  <2>1. PICK r : r = [recovery[e] EXCEPT !.freeing = FALSE, !.lease = FALSE]
    OBVIOUS
  <2>2. r \in RecoveryRec /\ r.lease = FALSE
    BY <1>1, <2>1 DEF RecoveryRec
  <2>3. recovery' = [recovery EXCEPT ![e] = r]
    BY <1>1, <1>2, <2>1 DEF LeaseReleased, LeaseInv, RecoveryRec
  <2> QED BY <2>2, <2>3, RecoveryStep
<1>3. CASE onClickResult(e) \/ RecoveryTimer(e)
  <2>1. /\ recovery[e].entry
        /\ recovery' = [recovery EXCEPT ![e].entry = FALSE, ![e].freeing = recovery[e].freeing \/ recovery[e].entry]
    BY <1>3 DEF onClickResult, RecoveryTimer, releaseRecoveryLease
  <2>2. (recovery[e].freeing \/ recovery[e].entry) = TRUE
    BY <2>1, Zenon
  <2>3. recovery' = [recovery EXCEPT ![e].entry = FALSE, ![e].freeing = TRUE]
    BY <2>1, <2>2, Zenon
  <2>4. PICK r : r = [recovery[e] EXCEPT !.entry = FALSE, !.freeing = TRUE]
    OBVIOUS
  <2>5. r \in RecoveryRec /\ r.freeing = TRUE
    BY <1>1, <2>4 DEF RecoveryRec
  <2>6. recovery' = [recovery EXCEPT ![e] = r]
    BY <1>1, <2>3, <2>4 DEF LeaseInv, RecoveryRec
  <2> QED BY <2>5, <2>6, RecoveryStep
<1> QED BY <1>2, <1>3

-----------------------------------------------------------------------------
(* The pause *)

\* Where nothing overtook anything, a free page has no report in work, no pause and no alert that nobody resolves.
PauseOK(e) ==
    e \in blocked \/ e \in excuse.captcha
    \/ (detect[e] = <<>> /\ e \notin paused /\ (alerts[e] > 0 => clear[e] > 0))

PauseInv ==
    /\ detect = [e \in Edges |-> detect[e]] /\ clear \in [Edges -> Nat] /\ alerts \in [Edges -> Nat]
    /\ \A e \in Edges : PauseOK(e)

LEMMA PauseStays ==
    ASSUME PauseInv, UNCHANGED <<paused, detect, clear, alerts, blocked>>, excuse'.captcha = excuse.captcha PROVE PauseInv'
BY DEF PauseInv, PauseOK

\* A step about one edge.
LEMMA PauseStep ==
    ASSUME PauseInv, NEW e \in Edges, PauseOK(e)', excuse.captcha \subseteq excuse'.captcha,
           NEW d, detect' = [detect EXCEPT ![e] = d], NEW c \in Nat, clear' = [clear EXCEPT ![e] = c],
           NEW n \in Nat, alerts' = [alerts EXCEPT ![e] = n],
           \A x \in Edges \ {e} : (x \in blocked' <=> x \in blocked) /\ (x \in paused' => x \in paused)
    PROVE  PauseInv'
<1>1. detect' = [x \in Edges |-> detect'[x]] /\ \A x \in Edges \ {e} : detect'[x] = detect[x]
  BY DEF PauseInv
<1>2. /\ clear' \in [Edges -> Nat] /\ \A x \in Edges \ {e} : clear'[x] = clear[x]
      /\ alerts' \in [Edges -> Nat] /\ \A x \in Edges \ {e} : alerts'[x] = alerts[x]
  BY DEF PauseInv
<1>3. ASSUME NEW x \in Edges \ {e} PROVE PauseOK(x)'
  BY <1>1, <1>2 DEF PauseInv, PauseOK
<1> QED BY <1>1, <1>2, <1>3 DEF PauseInv

LEMMA SameCounts ==
    ASSUME PauseInv, NEW e \in Edges
    PROVE  /\ detect = [detect EXCEPT ![e] = detect[e]] /\ clear = [clear EXCEPT ![e] = clear[e]] /\ clear[e] \in Nat
           /\ alerts = [alerts EXCEPT ![e] = alerts[e]] /\ alerts[e] \in Nat
<1>1. detect = [detect EXCEPT ![e] = detect[e]]
  BY DEF PauseInv
<1> QED BY <1>1 DEF PauseInv

\* A report in work is one of a page that is still blocked, or was overtaken.
LEMMA DetectStep ==
    ASSUME PauseInv, LinkTypes, NEW e \in Edges, Blocked(e) \/ SampleRecorded(e) \/ SignalApplied(e) \/ AlertRaised(e)
    PROVE  PauseInv' /\ UNCHANGED <<link, session, excuse>>
<1>1. e \in blocked' \/ e \in excuse'.captcha
  BY DEF Blocked, SampleRecorded, SignalApplied, AlertRaised, PauseInv, PauseOK
<1>2. UNCHANGED excuse /\ \A x \in Edges \ {e} : (x \in blocked' <=> x \in blocked) /\ (x \in paused' => x \in paused)
  BY DEF Blocked, SampleRecorded, SignalApplied, AlertRaised, pauseEdge
<1>3. PICK d : detect' = [detect EXCEPT ![e] = d]
  BY SameCounts DEF Blocked, SampleRecorded, SignalApplied, AlertRaised, maybeAlert
<1>4. PICK c \in Nat : clear' = [clear EXCEPT ![e] = c]
  BY SameCounts DEF Blocked, SampleRecorded, SignalApplied, AlertRaised
<1>5. PICK n \in Nat : alerts' = [alerts EXCEPT ![e] = n]
  <2>1. alerts[e] \in Nat /\ alerts[e] + 1 \in Nat
    BY SameCounts
  <2> QED BY <2>1, SameCounts DEF Blocked, SampleRecorded, SignalApplied, AlertRaised
<1>6. PauseOK(e)'
  BY <1>1 DEF PauseOK
<1> QED BY <1>2, <1>3, <1>4, <1>5, <1>6, PauseStep DEF Blocked, SampleRecorded, SignalApplied, AlertRaised

LEMMA ClearStep ==
    ASSUME PauseInv, LinkTypes, NEW e \in Edges, Unblocked(e)
    PROVE  /\ PauseInv' /\ UNCHANGED <<link, session>>
           /\ \E c \in SUBSET Edges : excuse' = [excuse EXCEPT !.captcha = c]
<1>1. PICK c \in SUBSET Edges : /\ excuse' = [excuse EXCEPT !.captcha = c] /\ excuse.captcha \subseteq c
                                /\ (~Reporting(e) \/ detect[e] # <<>> => e \in c)
  <2>1. (IF ~Reporting(e) \/ detect[e] # <<>> THEN excuse.captcha \cup {e} ELSE excuse.captcha) \in SUBSET Edges
    BY DEF LinkTypes
  <2> QED BY <2>1 DEF Unblocked
<1>2. excuse'.captcha = c
  BY <1>1, ExcuseForms
<1>3. /\ UNCHANGED <<detect, alerts, link, session>> /\ blocked' = blocked \ {e}
      /\ IF Reporting(e) THEN paused' = paused \ {e} /\ clear' = [clear EXCEPT ![e] = clear[e] + 1] ELSE UNCHANGED <<paused, clear>>
  BY DEF Unblocked, resumeEdge
<1>4. PICK n \in Nat : clear' = [clear EXCEPT ![e] = n] /\ (Reporting(e) => n > 0)
  <2>1. clear[e] \in Nat /\ clear[e] + 1 \in Nat /\ clear[e] + 1 > 0
    BY SameCounts
  <2> QED BY <1>3, <2>1, SameCounts
<1>5. clear'[e] = n
  BY <1>4 DEF PauseInv
<1>6. PauseOK(e)'
  BY <1>1, <1>2, <1>3, <1>4, <1>5 DEF PauseOK
<1>7. detect' = [detect EXCEPT ![e] = detect[e]] /\ alerts' = [alerts EXCEPT ![e] = alerts[e]] /\ alerts[e] \in Nat
  BY <1>3, SameCounts
<1>8. \A x \in Edges \ {e} : (x \in blocked' <=> x \in blocked) /\ (x \in paused' => x \in paused)
  BY <1>3
<1>9. PauseInv'
  BY <1>1, <1>2, <1>4, <1>6, <1>7, <1>8, PauseStep
<1> QED BY <1>1, <1>3, <1>9

LEMMA ResolveStep ==
    ASSUME PauseInv, LinkTypes, NEW e \in Edges, AlertsResolved(e)
    PROVE  /\ PauseInv' /\ UNCHANGED <<link, session>>
           /\ \E c \in SUBSET Edges : excuse' = [excuse EXCEPT !.captcha = c]
<1>1. PICK ok \in BOOLEAN :
         /\ clear[e] > 0 /\ clear' = [clear EXCEPT ![e] = clear[e] - 1]
         /\ alerts' = [alerts EXCEPT ![e] = IF ok THEN 0 ELSE alerts[e]]
         /\ excuse' = [excuse EXCEPT !.captcha = IF ok THEN excuse.captcha ELSE excuse.captcha \cup {e}]
         /\ UNCHANGED <<link, session, paused, detect, blocked>>
  BY DEF AlertsResolved
<1>2. PICK c \in SUBSET Edges : excuse' = [excuse EXCEPT !.captcha = c] /\ excuse.captcha \subseteq c /\ (~ok => e \in c)
  <2>1. (IF ok THEN excuse.captcha ELSE excuse.captcha \cup {e}) \in SUBSET Edges
    BY DEF LinkTypes
  <2> QED BY <1>1, <2>1
<1>3. excuse'.captcha = c
  BY <1>2, ExcuseForms
<1>4. clear[e] - 1 \in Nat /\ (IF ok THEN 0 ELSE alerts[e]) \in Nat
  BY <1>1, SameCounts
<1>5. ok => alerts'[e] = 0
  BY <1>1 DEF PauseInv
<1>6. PauseOK(e)'
  BY <1>1, <1>2, <1>3, <1>5 DEF PauseOK, PauseInv
<1>7. detect' = [detect EXCEPT ![e] = detect[e]]
  BY <1>1, SameCounts
<1>8. PauseInv'
  BY <1>1, <1>2, <1>3, <1>4, <1>6, <1>7, PauseStep
<1> QED BY <1>1, <1>2, <1>8

LEMMA ResumeStep ==
    ASSUME PauseInv, NEW e \in Edges, CooldownOver(e) \/ resumeEdgesForAccount(e)
    PROVE  PauseInv' /\ UNCHANGED <<link, session, excuse>>
<1>1. UNCHANGED <<link, session, excuse, detect, clear, alerts, blocked>> /\ paused' \subseteq paused
  BY DEF CooldownOver, resumeEdgesForAccount, resumeEdge
<1> QED BY <1>1 DEF PauseInv, PauseOK

-----------------------------------------------------------------------------
(* Searches *)

In(x, q) == \E i \in DOMAIN q : q[i] = x
Once(q) == \A i, j \in DOMAIN q : q[i] = q[j] => i = j

LEMMA TailFacts ==
    ASSUME NEW S, NEW q \in Seq(S), Len(q) > 0
    PROVE  /\ Tail(q) \in Seq(S) /\ Len(Tail(q)) = Len(q) - 1 /\ \A x : In(x, Tail(q)) => In(x, q)
           /\ Once(q) => Once(Tail(q))
<1>1. Tail(q) \in Seq(S) /\ Len(Tail(q)) = Len(q) - 1 /\ \A i \in 1..(Len(q) - 1) : Tail(q)[i] = q[i + 1]
  OBVIOUS
<1>2. DOMAIN Tail(q) = 1..(Len(q) - 1) /\ DOMAIN q = 1..Len(q) /\ Len(q) \in Nat
  BY <1>1
<1>3. \A i \in DOMAIN Tail(q) : i + 1 \in DOMAIN q /\ Tail(q)[i] = q[i + 1]
  BY <1>1, <1>2
<1>4. \A x : In(x, Tail(q)) => In(x, q)
  BY <1>3 DEF In
<1>5. Once(q) => Once(Tail(q))
  BY <1>2, <1>3 DEF Once
<1> QED BY <1>1, <1>4, <1>5

LEMMA AppendFacts ==
    ASSUME NEW S, NEW q \in Seq(S), NEW x \in S
    PROVE  /\ Append(q, x) \in Seq(S) /\ \A y : In(y, Append(q, x)) <=> In(y, q) \/ y = x
           /\ Once(q) /\ ~In(x, q) => Once(Append(q, x))
<1>1. /\ Append(q, x) \in Seq(S) /\ Len(Append(q, x)) = Len(q) + 1 /\ Append(q, x)[Len(q) + 1] = x
      /\ \A i \in 1..Len(q) : Append(q, x)[i] = q[i]
  OBVIOUS
<1>2. DOMAIN Append(q, x) = 1..(Len(q) + 1) /\ DOMAIN q = 1..Len(q) /\ Len(q) \in Nat
  BY <1>1
<1>3. \A i \in DOMAIN Append(q, x) : (i \in DOMAIN q /\ Append(q, x)[i] = q[i]) \/ (i = Len(q) + 1 /\ Append(q, x)[i] = x)
  BY <1>1, <1>2
<1>4. \A y : In(y, Append(q, x)) <=> In(y, q) \/ y = x
  BY <1>1, <1>2, <1>3 DEF In
<1>5. Once(q) /\ ~In(x, q) => Once(Append(q, x))
  BY <1>3 DEF In, Once
<1> QED BY <1>1, <1>4, <1>5

LEMMA RemoveAtFacts ==
    ASSUME NEW S, NEW q \in Seq(S), NEW k \in DOMAIN q
    PROVE  /\ RemoveAt(q, k) \in Seq(S) /\ Len(RemoveAt(q, k)) = Len(q) - 1
           /\ \A i \in DOMAIN RemoveAt(q, k) :
                 i \in Nat /\ \E j \in DOMAIN q \ {k} : RemoveAt(q, k)[i] = q[j] /\ j = IF i < k THEN i ELSE i + 1
<1>1. k \in 1..Len(q) /\ Len(q) \in Nat
  OBVIOUS
<1>2. /\ SubSeq(q, 1, k - 1) \in Seq(S) /\ Len(SubSeq(q, 1, k - 1)) = k - 1
      /\ \A i \in 1..(k - 1) : SubSeq(q, 1, k - 1)[i] = q[i]
  BY <1>1
<1>3. /\ SubSeq(q, k + 1, Len(q)) \in Seq(S) /\ Len(SubSeq(q, k + 1, Len(q))) = Len(q) - k
      /\ \A i \in 1..(Len(q) - k) : SubSeq(q, k + 1, Len(q))[i] = q[k + i]
  BY <1>1
<1>4. /\ RemoveAt(q, k) \in Seq(S) /\ Len(RemoveAt(q, k)) = Len(q) - 1
      /\ \A i \in 1..(Len(q) - 1) : RemoveAt(q, k)[i] = IF i < k THEN q[i] ELSE q[i + 1]
  <2>1. PICK a : a = SubSeq(q, 1, k - 1)
    OBVIOUS
  <2>2. PICK b : b = SubSeq(q, k + 1, Len(q))
    OBVIOUS
  <2>3. a \in Seq(S) /\ Len(a) = k - 1 /\ \A i \in 1..(k - 1) : a[i] = q[i]
    BY <1>2, <2>1
  <2>4. b \in Seq(S) /\ Len(b) = Len(q) - k /\ \A i \in 1..(Len(q) - k) : b[i] = q[k + i]
    BY <1>3, <2>2
  <2>5. /\ a \o b \in Seq(S) /\ Len(a \o b) = Len(a) + Len(b)
        /\ \A i \in 1..(Len(a) + Len(b)) : (a \o b)[i] = IF i <= Len(a) THEN a[i] ELSE b[i - Len(a)]
    <3>1. a \in Seq(S) /\ b \in Seq(S)
      BY <2>3, <2>4
    <3>2. a \o b \in Seq(S) /\ Len(a \o b) = Len(a) + Len(b)
      BY <3>1
    <3>3. \A i \in 1..(Len(a) + Len(b)) : (a \o b)[i] = IF i <= Len(a) THEN a[i] ELSE b[i - Len(a)]
      BY <3>1
    <3> QED BY <3>2, <3>3
  <2>6. RemoveAt(q, k) = a \o b
    BY <2>1, <2>2 DEF RemoveAt
  <2>7. Len(a) + Len(b) = Len(q) - 1
    BY <1>1, <2>3, <2>4
  <2>8. ASSUME NEW i \in 1..(Len(q) - 1) PROVE (a \o b)[i] = IF i < k THEN q[i] ELSE q[i + 1]
    <3>1. CASE i < k
      <4>1. i \in 1..(k - 1) /\ i <= Len(a)
        BY <1>1, <2>3, <3>1
      <4>2. (a \o b)[i] = a[i]
        BY <2>5, <2>7, <4>1
      <4> QED BY <2>3, <3>1, <4>1, <4>2
    <3>2. CASE ~(i < k)
      <4>1. i - (k - 1) \in 1..(Len(q) - k) /\ ~(i <= Len(a)) /\ k + (i - (k - 1)) = i + 1
        BY <1>1, <2>3, <3>2
      <4>2. (a \o b)[i] = b[i - (k - 1)]
        BY <2>3, <2>5, <2>7, <4>1
      <4> QED BY <2>4, <3>2, <4>1, <4>2
    <3> QED BY <3>1, <3>2
  <2> QED BY <2>5, <2>6, <2>7, <2>8
<1>5. DOMAIN RemoveAt(q, k) = 1..(Len(q) - 1) /\ DOMAIN q = 1..Len(q)
  BY <1>4
<1>6. ASSUME NEW i \in DOMAIN RemoveAt(q, k)
      PROVE  \E j \in DOMAIN q \ {k} : RemoveAt(q, k)[i] = q[j] /\ j = IF i < k THEN i ELSE i + 1
  <2>1. CASE i < k
    BY <1>1, <1>4, <1>5, <2>1
  <2>2. CASE ~(i < k)
    <3>1. i + 1 \in DOMAIN q \ {k} /\ RemoveAt(q, k)[i] = q[i + 1]
      BY <1>1, <1>4, <1>5, <2>2
    <3> QED BY <2>2, <3>1
  <2> QED BY <2>1, <2>2
<1> QED BY <1>4, <1>5, <1>6

LEMMA RemoveAtThins ==
    ASSUME NEW S, NEW q \in Seq(S), NEW k \in DOMAIN q
    PROVE  /\ \A x : In(x, RemoveAt(q, k)) => In(x, q)
           /\ Once(q) => Once(RemoveAt(q, k)) /\ ~In(q[k], RemoveAt(q, k))
<1>1. \A i \in DOMAIN RemoveAt(q, k) : i \in Nat /\ \E j \in DOMAIN q \ {k} : RemoveAt(q, k)[i] = q[j] /\ j = IF i < k THEN i ELSE i + 1
  BY RemoveAtFacts
<1>2. k \in Nat
  OBVIOUS
<1>3. \A x : In(x, RemoveAt(q, k)) => In(x, q)
  BY <1>1 DEF In
<1>4. ASSUME Once(q) PROVE Once(RemoveAt(q, k))
  <2>1. SUFFICES ASSUME NEW i \in DOMAIN RemoveAt(q, k), NEW j \in DOMAIN RemoveAt(q, k), RemoveAt(q, k)[i] = RemoveAt(q, k)[j]
                 PROVE  i = j
    BY DEF Once
  <2>2. PICK m \in DOMAIN q : RemoveAt(q, k)[i] = q[m] /\ m = IF i < k THEN i ELSE i + 1
    BY <1>1
  <2>3. PICK n \in DOMAIN q : RemoveAt(q, k)[j] = q[n] /\ n = IF j < k THEN j ELSE j + 1
    BY <1>1
  <2>4. m = n
    BY <1>4, <2>1, <2>2, <2>3 DEF Once
  <2>5. i \in Nat /\ j \in Nat
    BY <1>1
  <2> QED BY <1>2, <2>2, <2>3, <2>4, <2>5
<1>5. ASSUME Once(q), In(q[k], RemoveAt(q, k)) PROVE FALSE
  BY <1>1, <1>5 DEF Once, In
<1> QED BY <1>3, <1>4, <1>5

LEMMA RememberFacts ==
    ASSUME NEW S, NEW q \in Seq(S), NEW x \in S
    PROVE  /\ Remember(q, x) \in Seq(S) /\ \A y : In(y, Remember(q, x)) => In(y, q) \/ y = x
           /\ Once(q) /\ ~In(x, q) => Once(Remember(q, x))
<1>1. CASE Len(q) >= MaxPending
  <2>1. Len(q) > 0 /\ Remember(q, x) = Append(Tail(q), x)
    BY <1>1, EdgeAssumption DEF Remember
  <2>2. PICK t : t = Tail(q)
    OBVIOUS
  <2>3. t \in Seq(S) /\ (\A y : In(y, t) => In(y, q)) /\ (Once(q) => Once(t))
    BY <2>1, <2>2, TailFacts
  <2>4. /\ Append(t, x) \in Seq(S) /\ \A y : In(y, Append(t, x)) <=> In(y, t) \/ y = x
        /\ Once(t) /\ ~In(x, t) => Once(Append(t, x))
    BY <2>3, AppendFacts
  <2> QED BY <2>1, <2>2, <2>3, <2>4
<1>2. CASE ~(Len(q) >= MaxPending)
  <2>1. Remember(q, x) = Append(q, x)
    BY <1>2 DEF Remember
  <2> QED BY <2>1, AppendFacts
<1> QED BY <1>1, <1>2

ViewFacts == [s : Sockets, v : Notes, from : {"feed", "detail", "reels"}, again : BOOLEAN]
LikeFacts == [receipt : LikeReceipts, target : Notes \cup {NoNote}]
FactTypes == facts \in [sent : SUBSET Activities, search : Seq(Activities), view : Seq(ViewFacts), like : SUBSET LikeFacts]
SearchRec == [pending : Seq(Activities), completed : Seq(Activities)]

\* What is remembered of a connection was sent on it and is recorded nowhere.
SearchInv ==
    /\ search \in [Sockets -> SearchRec] /\ Once(facts.search) /\ \A x : In(x, facts.search) => x \in facts.sent
    /\ \A s \in Sockets : /\ Once(search[s].pending)
                          /\ \A x : In(x, search[s].pending) => x \in facts.sent /\ ~In(x, facts.search)
    /\ \A s, t \in Sockets : s # t => \A x : ~(In(x, search[s].pending) /\ In(x, search[t].pending))

LEMMA FactForms ==
    ASSUME FactTypes, NEW a \in SUBSET Activities, NEW b \in Seq(Activities), NEW c \in Seq(ViewFacts), NEW d \in SUBSET LikeFacts,
           NEW f, f \in {[facts EXCEPT !.sent = a], [facts EXCEPT !.search = b], [facts EXCEPT !.view = c], [facts EXCEPT !.like = d]}
    PROVE  /\ f \in [sent : SUBSET Activities, search : Seq(Activities), view : Seq(ViewFacts), like : SUBSET LikeFacts]
           /\ f = [facts EXCEPT !.sent = a] => f.sent = a /\ f.search = facts.search /\ f.view = facts.view /\ f.like = facts.like
           /\ f = [facts EXCEPT !.search = b] => f.search = b /\ f.sent = facts.sent /\ f.view = facts.view /\ f.like = facts.like
           /\ f = [facts EXCEPT !.view = c] => f.view = c /\ f.sent = facts.sent /\ f.search = facts.search /\ f.like = facts.like
           /\ f = [facts EXCEPT !.like = d] => f.like = d /\ f.sent = facts.sent /\ f.search = facts.search /\ f.view = facts.view
BY DEF FactTypes

LEMMA SearchStays == ASSUME SearchInv, UNCHANGED search, facts'.sent = facts.sent, facts'.search = facts.search PROVE SearchInv'
BY DEF SearchInv

\* An activity goes to one connection at most: the edge has one driver.
LEMMA SendStep ==
    ASSUME SearchInv, FactTypes, LinkInv, NEW e \in Edges, NEW a \in Activities, SendSearch(e, a)
    PROVE  SearchInv' /\ FactTypes' /\ facts'.view = facts.view /\ facts'.like = facts.like /\ UNCHANGED <<link, page, view, note, excuse>>
<1>1. PICK ts \in SUBSET Live(e) :
         /\ a \notin facts.sent /\ facts' = [facts EXCEPT !.sent = facts.sent \cup {a}]
         /\ search' = [s \in Sockets |-> IF s \in ts THEN [search[s] EXCEPT !.pending = Remember(search[s].pending, a)] ELSE search[s]]
  BY DEF SendSearch, Targets
<1>2. facts.sent \cup {a} \in SUBSET Activities
  BY DEF FactTypes
<1>3. FactTypes' /\ facts'.sent = facts.sent \cup {a} /\ facts'.search = facts.search /\ facts'.view = facts.view /\ facts'.like = facts.like
  <2>1. FactTypes => {} \in SUBSET LikeFacts /\ <<>> \in Seq(ViewFacts) /\ <<>> \in Seq(Activities)
    OBVIOUS
  <2> QED BY <1>1, <1>2, <2>1, FactForms DEF FactTypes
<1>4. \A s, t \in ts : s = t
  BY DEF LinkInv
<1>5. ASSUME NEW s \in Sockets
      PROVE  /\ search'[s] \in SearchRec /\ Once(search'[s].pending)
             /\ \A x : In(x, search'[s].pending) => In(x, search[s].pending) \/ (x = a /\ s \in ts)
  <2>1. search[s] \in SearchRec /\ search[s].pending \in Seq(Activities) /\ ~In(a, search[s].pending) /\ Once(search[s].pending)
    BY <1>1 DEF SearchInv, SearchRec
  <2>2. CASE s \in ts
    <3>1. search'[s] = [search[s] EXCEPT !.pending = Remember(search[s].pending, a)]
      BY <1>1, <2>2
    <3>2. PICK q : q = Remember(search[s].pending, a)
      OBVIOUS
    <3>3. q \in Seq(Activities) /\ (\A y : In(y, q) => In(y, search[s].pending) \/ y = a) /\ Once(q)
      BY <2>1, <3>2, RememberFacts
    <3>4. search'[s] \in SearchRec /\ search'[s].pending = q
      BY <2>1, <3>1, <3>2, <3>3 DEF SearchRec
    <3> QED BY <2>2, <3>3, <3>4
  <2>3. CASE s \notin ts
    <3>1. search'[s] = search[s]
      BY <1>1, <2>3
    <3> QED BY <2>1, <3>1
  <2> QED BY <2>2, <2>3
<1>6. search' \in [Sockets -> SearchRec]
  <2>1. search' = [s \in Sockets |-> search'[s]]
    BY <1>1
  <2> QED BY <1>5, <2>1
<1>7. SearchInv'
  <2>1. \A s \in Sockets : /\ Once(search'[s].pending)
                           /\ \A x : In(x, search'[s].pending) => x \in facts'.sent /\ ~In(x, facts'.search)
    BY <1>1, <1>3, <1>5 DEF SearchInv
  <2>2. \A s, t \in Sockets : s # t => \A x : ~(In(x, search'[s].pending) /\ In(x, search'[t].pending))
    <3>1. ASSUME NEW s \in Sockets, NEW t \in Sockets, s # t, NEW x, In(x, search'[s].pending), In(x, search'[t].pending)
          PROVE  FALSE
      <4>1. (In(x, search[s].pending) \/ (x = a /\ s \in ts)) /\ (In(x, search[t].pending) \/ (x = a /\ t \in ts))
        BY <1>5, <3>1
      <4>2. ~(In(x, search[s].pending) /\ In(x, search[t].pending))
        BY <3>1 DEF SearchInv
      <4>3. ~In(a, search[s].pending) /\ ~In(a, search[t].pending)
        BY <1>1 DEF SearchInv
      <4> QED BY <1>4, <3>1, <4>1, <4>2, <4>3
    <3> QED BY <3>1
  <2>3. Once(facts'.search) /\ \A x : In(x, facts'.search) => x \in facts'.sent
    BY <1>3 DEF SearchInv
  <2> QED BY <1>6, <2>1, <2>2, <2>3 DEF SearchInv
<1> QED BY <1>3, <1>7 DEF SendSearch

\* The record takes the activity from what is remembered.
LEMMA CompletedStep ==
    ASSUME SearchInv, FactTypes, NEW s \in Sockets, NEW a \in Activities, NEW outcome, SearchCompleted(s, a, outcome)
    PROVE  SearchInv' /\ FactTypes' /\ facts'.view = facts.view /\ facts'.like = facts.like /\ UNCHANGED <<link, page, view, note, excuse>>
<1>1. PICK known \in BOOLEAN, recorded \in BOOLEAN :
         /\ known => In(a, search[s].pending) /\ outcome # "invalid"
         /\ recorded => known
         /\ search' = IF known THEN [search EXCEPT ![s] = [pending |-> Delete(search[s].pending, a),
                                                           completed |-> Remember(search[s].completed, a)]] ELSE search
         /\ facts' = IF recorded THEN [facts EXCEPT !.search = Append(facts.search, a)] ELSE facts
  <2>1. a \in Range(search[s].pending) => In(a, search[s].pending)
    BY DEF Range, In
  <2>2. PICK known \in BOOLEAN : known <=> (a \in Range(search[s].pending) /\ a \notin Range(search[s].completed))
    OBVIOUS
  <2>3. PICK used \in BOOLEAN : used <=> outcome # "invalid" /\ known
    OBVIOUS
  <2>4. search' = IF used THEN [search EXCEPT ![s] = [pending |-> Delete(search[s].pending, a),
                                                     completed |-> Remember(search[s].completed, a)]] ELSE search
    BY <2>2, <2>3 DEF SearchCompleted
  <2>5. PICK contradicts \in BOOLEAN :
           facts' = IF known /\ outcome \notin {"invalid", "not_submitted"} /\ ~contradicts
                    THEN [facts EXCEPT !.search = Append(facts.search, a)] ELSE facts
    BY <2>2 DEF SearchCompleted
  <2>6. PICK recorded \in BOOLEAN : recorded <=> known /\ outcome \notin {"invalid", "not_submitted"} /\ ~contradicts
    OBVIOUS
  <2> QED BY <2>1, <2>2, <2>3, <2>4, <2>5, <2>6
<1>2. UNCHANGED <<link, page, view, note, excuse>>
  BY DEF SearchCompleted
<1>3. CASE ~known
  BY <1>1, <1>2, <1>3, SearchStays DEF FactTypes
<1>4. CASE known
  <2>1. /\ search[s].pending \in Seq(Activities) /\ search[s].completed \in Seq(Activities) /\ Once(search[s].pending)
        /\ In(a, search[s].pending)
    BY <1>1, <1>4 DEF SearchInv, SearchRec
  <2>2. PICK q : q = Delete(search[s].pending, a)
    OBVIOUS
  <2>3. q \in Seq(Activities) /\ Once(q) /\ ~In(a, q) /\ \A x : In(x, q) => In(x, search[s].pending)
    <3>1. PICK k \in DOMAIN search[s].pending : search[s].pending[k] = a /\ q = RemoveAt(search[s].pending, k)
      BY <2>1, <2>2 DEF Delete, In
    <3> QED BY <2>1, <3>1, RemoveAtFacts, RemoveAtThins
  <2>4. PICK c \in Seq(Activities) : c = Remember(search[s].completed, a)
    BY <2>1, RememberFacts
  <2>5. search' = [search EXCEPT ![s] = [pending |-> q, completed |-> c]]
    BY <1>1, <1>4, <2>2, <2>4
  <2>6. search' \in [Sockets -> SearchRec] /\ search'[s].pending = q /\ \A t \in Sockets \ {s} : search'[t] = search[t]
    BY <2>3, <2>5 DEF SearchInv, SearchRec
  <2>7. facts.search \in Seq(Activities) /\ ~In(a, facts.search) /\ a \in facts.sent
    BY <2>1 DEF FactTypes, SearchInv
  <2>8. PICK f \in Seq(Activities) : f = IF recorded THEN Append(facts.search, a) ELSE facts.search
    BY <2>7, AppendFacts
  <2>9. Once(f) /\ \A x : In(x, f) => In(x, facts.search) \/ x = a
    BY <2>7, <2>8, AppendFacts DEF SearchInv
  <2>10. FactTypes' /\ facts'.search = f /\ facts'.sent = facts.sent /\ facts'.view = facts.view /\ facts'.like = facts.like
    <3>1. CASE recorded
      <4>1. facts' = [facts EXCEPT !.search = f] /\ {} \in SUBSET LikeFacts /\ <<>> \in Seq(ViewFacts) /\ {} \in SUBSET Activities
        BY <1>1, <2>8, <3>1
      <4> QED BY <4>1, FactForms DEF FactTypes
    <3>2. CASE ~recorded
      BY <1>1, <2>8, <3>2 DEF FactTypes
    <3> QED BY <3>1, <3>2
  <2>11. SearchInv'
    <3>1. ASSUME NEW t \in Sockets
          PROVE  /\ Once(search'[t].pending) /\ \A x : In(x, search'[t].pending) => In(x, search[t].pending) /\ x # a
      BY <2>1, <2>3, <2>6 DEF SearchInv
    <3>2. \A t \in Sockets : \A x : In(x, search'[t].pending) => x \in facts'.sent /\ ~In(x, facts'.search)
      BY <2>9, <2>10, <3>1 DEF SearchInv
    <3>3. \A t, u \in Sockets : t # u => \A x : ~(In(x, search'[t].pending) /\ In(x, search'[u].pending))
      BY <3>1 DEF SearchInv
    <3>4. Once(facts'.search) /\ \A x : In(x, facts'.search) => x \in facts'.sent
      BY <2>7, <2>9, <2>10 DEF SearchInv
    <3> QED BY <2>6, <3>1, <3>2, <3>3, <3>4 DEF SearchInv
  <2> QED BY <1>2, <2>10, <2>11
<1> QED BY <1>3, <1>4

-----------------------------------------------------------------------------
(* Views and likes *)

ViewFrames == [v : Notes, from : {"feed", "detail", "reels"}]
ViewRec == [counted : SUBSET Notes, reel : Notes \cup {NoNote}, storing : Seq(ViewFrames)]

\* A feed frame that is being stored is of a video not counted yet, and alone, unless frames overlapped (o).
Storing(s, counted, q, o) ==
    \A i \in DOMAIN q : q[i].from = "feed" =>
        /\ q[i].v \notin counted \/ <<s, q[i].v>> \in o
        /\ \A j \in DOMAIN q : q[j] = q[i] /\ j # i => <<s, q[i].v>> \in o

ViewFactOK(f, o) == f.again => f.from # "feed" \/ <<f.s, f.v>> \in o

ViewInv ==
    /\ view \in [Sockets -> ViewRec]
    /\ \A s \in Sockets : Storing(s, view[s].counted, view[s].storing, excuse.overlap)
    /\ \A f : In(f, facts.view) => ViewFactOK(f, excuse.overlap)

LEMMA ViewStays == ASSUME ViewInv, UNCHANGED view, facts'.view = facts.view, excuse'.overlap = excuse.overlap PROVE ViewInv'
BY DEF ViewInv

LEMMA StoringMore ==
    ASSUME NEW s, NEW c \in SUBSET Notes, NEW q \in Seq(ViewFrames), NEW o, NEW p, o \subseteq p, Storing(s, c, q, o),
           NEW f \in ViewFrames, f.from = "feed" => f.v \notin c, f.from = "feed" /\ In(f, q) => <<s, f.v>> \in p
    PROVE  Storing(s, c, Append(q, f), p)
<1>1. /\ Append(q, f) \in Seq(ViewFrames) /\ Len(Append(q, f)) = Len(q) + 1 /\ Append(q, f)[Len(q) + 1] = f
      /\ \A i \in 1..Len(q) : Append(q, f)[i] = q[i]
  OBVIOUS
<1>2. \A i \in DOMAIN Append(q, f) : (i \in DOMAIN q /\ Append(q, f)[i] = q[i]) \/ (i = Len(q) + 1 /\ Append(q, f)[i] = f)
  BY <1>1
<1>3. SUFFICES ASSUME NEW i \in DOMAIN Append(q, f), Append(q, f)[i].from = "feed"
               PROVE  /\ Append(q, f)[i].v \notin c \/ <<s, Append(q, f)[i].v>> \in p
                      /\ \A j \in DOMAIN Append(q, f) : Append(q, f)[j] = Append(q, f)[i] /\ j # i => <<s, Append(q, f)[i].v>> \in p
  BY DEF Storing
<1>4. CASE i \in DOMAIN q /\ Append(q, f)[i] = q[i]
  <2>1. q[i].v \notin c \/ <<s, q[i].v>> \in p
    BY <1>3, <1>4 DEF Storing
  <2>2. ASSUME NEW j \in DOMAIN Append(q, f), Append(q, f)[j] = q[i], j # i PROVE <<s, q[i].v>> \in p
    <3>1. CASE j \in DOMAIN q /\ Append(q, f)[j] = q[j]
      BY <1>3, <1>4, <2>2, <3>1 DEF Storing
    <3>2. CASE Append(q, f)[j] = f
      BY <1>3, <1>4, <2>2, <3>2 DEF In
    <3> QED BY <1>2, <3>1, <3>2
  <2> QED BY <1>4, <2>1, <2>2
<1>5. CASE i = Len(q) + 1 /\ Append(q, f)[i] = f
  <2>1. ASSUME NEW j \in DOMAIN Append(q, f), Append(q, f)[j] = f, j # i PROVE <<s, f.v>> \in p
    <3>1. j \in DOMAIN q /\ q[j] = f
      BY <1>2, <1>5, <2>1
    <3> QED BY <1>3, <1>5, <3>1 DEF In
  <2>2. f.v \notin c
    BY <1>3, <1>5
  <2> QED BY <1>5, <2>1, <2>2
<1> QED BY <1>2, <1>4, <1>5

LEMMA StoringLess ==
    ASSUME NEW s, NEW c \in SUBSET Notes, NEW q \in Seq(ViewFrames), NEW o, Storing(s, c, q, o), NEW k \in DOMAIN q,
           NEW d \in SUBSET Notes, d \subseteq c \cup (IF q[k].from = "feed" THEN {q[k].v} ELSE {})
    PROVE  Storing(s, d, RemoveAt(q, k), o)
<1>1. PICK r \in Seq(ViewFrames) : r = RemoveAt(q, k)
  BY RemoveAtFacts
<1>2. \A i \in DOMAIN r : i \in Nat /\ \E j \in DOMAIN q \ {k} : r[i] = q[j] /\ j = IF i < k THEN i ELSE i + 1
  BY <1>1, RemoveAtFacts
<1>3. SUFFICES ASSUME NEW i \in DOMAIN r, r[i].from = "feed"
               PROVE  /\ r[i].v \notin d \/ <<s, r[i].v>> \in o
                      /\ \A j \in DOMAIN r : r[j] = r[i] /\ j # i => <<s, r[i].v>> \in o
  BY <1>1 DEF Storing
<1>4. PICK m \in DOMAIN q \ {k} : r[i] = q[m] /\ m = IF i < k THEN i ELSE i + 1
  BY <1>2
<1>5. r[i].v \notin d \/ <<s, r[i].v>> \in o
  <2>1. CASE q[k].from = "feed" /\ q[k].v = q[m].v
    <3>1. q[k] \in ViewFrames /\ q[m] \in ViewFrames
      OBVIOUS
    <3>2. q[k] = q[m]
      BY <1>3, <1>4, <2>1, <3>1 DEF ViewFrames
    <3> QED BY <1>3, <1>4, <3>2 DEF Storing
  <2>2. CASE ~(q[k].from = "feed" /\ q[k].v = q[m].v)
    <3>1. q[m].v \in d => q[m].v \in c
      BY <2>2
    <3> QED BY <1>3, <1>4, <3>1 DEF Storing
  <2> QED BY <2>1, <2>2
<1>6. ASSUME NEW j \in DOMAIN r, r[j] = r[i], j # i PROVE <<s, r[i].v>> \in o
  <2>1. PICK n \in DOMAIN q : r[j] = q[n] /\ n = IF j < k THEN j ELSE j + 1
    BY <1>2
  <2>2. i \in Nat /\ j \in Nat /\ k \in Nat
    BY <1>2
  <2>3. m # n
    BY <1>4, <1>6, <2>1, <2>2
  <2> QED BY <1>3, <1>4, <1>6, <2>1, <2>3 DEF Storing
<1> QED BY <1>5, <1>6

\* The views of one connection change.
LEMMA ViewStep ==
    ASSUME ViewInv, NEW s \in Sockets, NEW r \in ViewRec, view' = [view EXCEPT ![s] = r], excuse.overlap \subseteq excuse'.overlap,
           Storing(s, r.counted, r.storing, excuse'.overlap), \A f : In(f, facts'.view) => ViewFactOK(f, excuse'.overlap)
    PROVE  ViewInv'
<1>1. view' \in [Sockets -> ViewRec] /\ view'[s] = r /\ \A t \in Sockets \ {s} : view'[t] = view[t]
  BY DEF ViewInv
<1>2. ASSUME NEW t \in Sockets \ {s} PROVE Storing(t, view'[t].counted, view'[t].storing, excuse'.overlap)
  BY <1>1 DEF ViewInv, Storing
<1> QED BY <1>1, <1>2 DEF ViewInv

\* A frame, if any, is taken up: r is the new record of its connection.
LEMMA FrameArrives ==
    ASSUME ViewInv, NEW s \in Sockets, NEW f, NEW r \in ViewRec, UNCHANGED facts,
           view' = [view EXCEPT ![s] = r], r.counted = view[s].counted, excuse.overlap \subseteq excuse'.overlap,
           \/ r.storing = view[s].storing
           \/ /\ f \in ViewFrames /\ r.storing = Append(view[s].storing, f)
              /\ f.from = "feed" => f.v \notin view[s].counted
              /\ f.from = "feed" /\ In(f, view[s].storing) => <<s, f.v>> \in excuse'.overlap
    PROVE  ViewInv'
<1>1. view[s] \in ViewRec /\ view[s].storing \in Seq(ViewFrames) /\ view[s].counted \in SUBSET Notes
  BY DEF ViewInv, ViewRec
<1>2. \A x : In(x, facts'.view) => ViewFactOK(x, excuse'.overlap)
  BY DEF ViewInv, ViewFactOK
<1>3. Storing(s, view[s].counted, view[s].storing, excuse.overlap)
  BY DEF ViewInv
<1>4. Storing(s, r.counted, r.storing, excuse'.overlap)
  <2>1. CASE r.storing = view[s].storing
    BY <1>3, <2>1 DEF Storing
  <2>2. CASE r.storing # view[s].storing
    BY <1>1, <1>3, <2>2, StoringMore
  <2> QED BY <2>1, <2>2
<1> QED BY <1>2, <1>4, ViewStep

\* The record a frame leaves behind: the Reel and the frames may change.
ViewKept(r, w, x, q) ==
    /\ r.counted = w.counted /\ r.reel = x /\ r.storing = q
    /\ r = [w EXCEPT !.reel = x, !.storing = q] /\ (x = w.reel => r = [w EXCEPT !.storing = q])

LEMMA ViewForms ==
    ASSUME NEW w \in ViewRec, NEW q \in Seq(ViewFrames), NEW x \in Notes \cup {NoNote}
    PROVE  \E r \in ViewRec : ViewKept(r, w, x, q)
<1>1. [w EXCEPT !.reel = x, !.storing = q] \in ViewRec
  BY DEF ViewRec
<1>2. ViewKept([w EXCEPT !.reel = x, !.storing = q], w, x, q)
  BY DEF ViewRec, ViewKept
<1> QED BY <1>1, <1>2

LEMMA FrameFacts ==
    ASSUME ViewInv, NEW s \in Sockets, NEW v \in Notes, NEW kind \in {"feed", "detail", "reels"},
           NEW f, f = [v |-> v, from |-> kind]
    PROVE  /\ f \in ViewFrames /\ f.v = v /\ f.from = kind
           /\ view[s] \in ViewRec /\ view[s].storing \in Seq(ViewFrames) /\ Append(view[s].storing, f) \in Seq(ViewFrames)
           /\ view[s].reel \in Notes \cup {NoNote}
<1>1. f \in ViewFrames /\ f.v = v /\ f.from = kind
  BY DEF ViewFrames
<1>2. view[s] \in ViewRec /\ view[s].storing \in Seq(ViewFrames) /\ view[s].reel \in Notes \cup {NoNote}
  BY DEF ViewInv, ViewRec
<1> QED BY <1>1, <1>2

LEMMA ReelStep ==
    ASSUME ViewInv, NEW s \in Sockets, NEW v \in Notes, PageReel(s, v)
    PROVE  ViewInv' /\ UNCHANGED <<link, page, search, note, facts, excuse>>
<1>1. PICK f : f = [v |-> v, from |-> "reels"]
  OBVIOUS
<1>2. /\ f \in ViewFrames /\ f.from = "reels" /\ view[s] \in ViewRec /\ view[s].reel \in Notes \cup {NoNote}
      /\ Append(view[s].storing, f) \in Seq(ViewFrames)
  BY <1>1, FrameFacts
<1>3. UNCHANGED <<link, page, search, note, facts, excuse>> /\ view' = [view EXCEPT ![s].storing = Append(view[s].storing, f)]
  BY <1>1 DEF PageReel
<1>4. PICK r \in ViewRec : ViewKept(r, view[s], view[s].reel, Append(view[s].storing, f))
  BY <1>2, ViewForms
<1>5. view' = [view EXCEPT ![s] = r]
  BY <1>3, <1>4 DEF ViewKept
<1>6. ViewInv'
  BY <1>2, <1>3, <1>4, <1>5, FrameArrives DEF ViewKept
<1> QED BY <1>3, <1>6

LEMMA CardsStep ==
    ASSUME ViewInv, LinkTypes, NEW s \in Sockets, NEW v \in Notes \cup {NoNote}, PageCards(s, v)
    PROVE  /\ ViewInv' /\ UNCHANGED <<link, page, search, note, facts>>
           /\ \E o \in SUBSET (Sockets \X Notes) : excuse' = [excuse EXCEPT !.overlap = o]
<1>1. PICK f : f = [v |-> v, from |-> "feed"]
  OBVIOUS
<1>2. view[s] \in ViewRec /\ view[s].storing \in Seq(ViewFrames)
  BY DEF ViewInv, ViewRec
<1>3. \A q \in Seq(ViewFrames) : In(f, q) => v \in Notes
  BY <1>1 DEF In, ViewFrames
<1>4. PICK o \in SUBSET (Sockets \X Notes) :
         /\ excuse' = [excuse EXCEPT !.overlap = o] /\ excuse.overlap \subseteq o
         /\ In(f, view[s].storing) => <<s, v>> \in o
  <2>1. (IF \E i \in DOMAIN view[s].storing : view[s].storing[i] = [v |-> v, from |-> "feed"]
         THEN excuse.overlap \cup {<<s, v>>} ELSE excuse.overlap) \in SUBSET (Sockets \X Notes)
    BY <1>1, <1>2, <1>3 DEF LinkTypes, In
  <2> QED BY <1>1, <2>1 DEF PageCards, In
<1>5. excuse'.overlap = o
  BY <1>4, ExcuseForms
<1>6. PICK q : /\ q = IF v \in view[s].counted \cup {NoNote} THEN view[s].storing ELSE Append(view[s].storing, f)
               /\ view' = [view EXCEPT ![s].reel = NoNote, ![s].storing = q]
               /\ UNCHANGED <<link, page, search, note, facts>>
  BY <1>1 DEF PageCards
<1>7. CASE v \in view[s].counted \cup {NoNote}
  <2>1. q = view[s].storing /\ q \in Seq(ViewFrames)
    BY <1>2, <1>6, <1>7
  <2>2. PICK r \in ViewRec : ViewKept(r, view[s], NoNote, q)
    BY <1>2, <2>1, ViewForms
  <2>3. view' = [view EXCEPT ![s] = r]
    BY <1>6, <2>2 DEF ViewKept
  <2>5. ViewInv'
    BY <1>4, <1>5, <1>6, <2>1, <2>2, <2>3, FrameArrives DEF ViewKept
  <2> QED BY <1>4, <1>6, <2>5
<1>8. CASE v \notin view[s].counted \cup {NoNote}
  <2>1. f \in ViewFrames /\ f.v = v /\ f.from = "feed" /\ Append(view[s].storing, f) \in Seq(ViewFrames)
    BY <1>1, <1>8, FrameFacts
  <2>2. q = Append(view[s].storing, f)
    BY <1>6, <1>8
  <2>3. PICK r \in ViewRec : ViewKept(r, view[s], NoNote, q)
    BY <1>2, <2>1, <2>2, ViewForms
  <2>4. view' = [view EXCEPT ![s] = r]
    BY <1>6, <2>3 DEF ViewKept
  <2>5. /\ f.from = "feed" => f.v \notin view[s].counted
        /\ f.from = "feed" /\ In(f, view[s].storing) => <<s, f.v>> \in excuse'.overlap
        /\ excuse.overlap \subseteq excuse'.overlap
    BY <1>4, <1>5, <1>8, <2>1
  <2>6. r.counted = view[s].counted /\ r.storing = Append(view[s].storing, f)
    BY <2>2, <2>3 DEF ViewKept
  <2>7. ViewInv'
    BY <1>6, <2>1, <2>4, <2>5, <2>6, FrameArrives
  <2> QED BY <1>4, <1>6, <2>7
<1> QED BY <1>7, <1>8

LEMMA DetailStep ==
    ASSUME ViewInv, NEW s \in Sockets, NEW v \in Notes, NoteDetail(s, v)
    PROVE  ViewInv' /\ UNCHANGED <<link, page, search, facts, excuse>>
<1>1. PICK f : f = [v |-> v, from |-> "detail"]
  OBVIOUS
<1>2. /\ f \in ViewFrames /\ f.from = "detail" /\ view[s] \in ViewRec /\ view[s].reel \in Notes \cup {NoNote}
      /\ view[s].storing \in Seq(ViewFrames) /\ Append(view[s].storing, f) \in Seq(ViewFrames)
  BY <1>1, FrameFacts
<1>3. /\ UNCHANGED <<link, page, search, facts, excuse>>
      /\ view' = IF v \in view[s].counted \cup {view[s].reel} THEN view
                 ELSE [view EXCEPT ![s].storing = Append(view[s].storing, f)]
  BY <1>1 DEF NoteDetail
<1>4. PICK r \in ViewRec : /\ r.counted = view[s].counted
                           /\ r.storing = view[s].storing \/ r.storing = Append(view[s].storing, f)
                           /\ view' = [view EXCEPT ![s] = r]
  <2>1. CASE v \in view[s].counted \cup {view[s].reel}
    <3>1. view' = [view EXCEPT ![s] = view[s]]
      BY <1>3, <2>1 DEF ViewInv
    <3> QED BY <1>2, <3>1
  <2>2. CASE v \notin view[s].counted \cup {view[s].reel}
    <3>1. PICK r \in ViewRec : ViewKept(r, view[s], view[s].reel, Append(view[s].storing, f))
      BY <1>2, ViewForms
    <3>2. view' = [view EXCEPT ![s] = r]
      BY <1>3, <2>2, <3>1 DEF ViewKept
    <3> QED BY <3>1, <3>2 DEF ViewKept
  <2> QED BY <2>1, <2>2
<1>5. ViewInv'
  BY <1>2, <1>3, <1>4, FrameArrives
<1> QED BY <1>3, <1>5

LEMMA StoredStep ==
    ASSUME ViewInv, FactTypes, NEW s \in Sockets, FactStored(s)
    PROVE  /\ ViewInv' /\ FactTypes' /\ facts'.sent = facts.sent /\ facts'.search = facts.search /\ facts'.like = facts.like
           /\ UNCHANGED <<link, page, search, note, excuse>>
<1>1. PICK i \in DOMAIN view[s].storing, ok \in BOOLEAN :
         /\ view' = [view EXCEPT ![s] =
              [counted |-> IF ok /\ view[s].storing[i].from = "feed"
                           THEN view[s].counted \cup {view[s].storing[i].v} ELSE view[s].counted,
               reel |-> IF ok /\ view[s].storing[i].from = "reels" THEN view[s].storing[i].v ELSE view[s].reel,
               storing |-> RemoveAt(view[s].storing, i)]]
         /\ facts' = IF ok THEN [facts EXCEPT !.view = Append(facts.view,
                                   [s |-> s, v |-> view[s].storing[i].v, from |-> view[s].storing[i].from,
                                    again |-> view[s].storing[i].v \in view[s].counted])]
                     ELSE facts
         /\ UNCHANGED <<link, page, search, note, excuse>>
  BY DEF FactStored
<1>2. /\ view[s] \in ViewRec /\ view[s].storing \in Seq(ViewFrames) /\ view[s].counted \in SUBSET Notes
      /\ Storing(s, view[s].counted, view[s].storing, excuse.overlap)
  BY DEF ViewInv, ViewRec
<1>3. PICK f \in ViewFrames : f = view[s].storing[i]
  BY <1>2
<1>4. PICK again \in BOOLEAN : again = (f.v \in view[s].counted) /\ (again <=> f.v \in view[s].counted)
  <2>1. CASE f.v \in view[s].counted
    <3>1. TRUE = (f.v \in view[s].counted)
      BY <2>1, Zenon
    <3> QED BY <2>1, <3>1, Zenon
  <2>2. CASE ~(f.v \in view[s].counted)
    <3>1. (f.v \in view[s].counted) = FALSE
      BY <2>2
    <3> QED BY <2>2, <3>1
  <2> QED BY <2>1, <2>2, Zenon
<1>5. PICK g \in ViewFacts : g = [s |-> s, v |-> f.v, from |-> f.from, again |-> again]
  BY DEF ViewFacts, ViewFrames
<1>6. PICK q \in Seq(ViewFrames) : q = RemoveAt(view[s].storing, i)
  BY <1>2, RemoveAtFacts
<1>7. PICK c \in SUBSET Notes :
         /\ c = IF ok /\ f.from = "feed" THEN view[s].counted \cup {f.v} ELSE view[s].counted
         /\ c \subseteq view[s].counted \cup (IF f.from = "feed" THEN {f.v} ELSE {})
  BY <1>2 DEF ViewFrames
<1>8. Storing(s, c, q, excuse.overlap)
  BY <1>2, <1>3, <1>6, <1>7, StoringLess
<1>9. PICK x \in Notes \cup {NoNote} : x = IF ok /\ f.from = "reels" THEN f.v ELSE view[s].reel
  BY <1>2 DEF ViewRec, ViewFrames
<1>10. PICK r \in ViewRec : r = [counted |-> c, reel |-> x, storing |-> q] /\ r.counted = c /\ r.storing = q
  <2>1. [counted |-> c, reel |-> x, storing |-> q] \in ViewRec
    BY DEF ViewRec
  <2> QED BY <2>1
<1>11. view' = [view EXCEPT ![s] = r]
  BY <1>1, <1>3, <1>6, <1>7, <1>9, <1>10
<1>12. ViewFactOK(g, excuse.overlap)
  <2>1. g.s = s /\ g.v = f.v /\ g.from = f.from /\ g.again = again /\ f.from \in {"feed", "detail", "reels"}
    BY <1>5 DEF ViewFrames
  <2>2. f.from = "feed" => f.v \notin view[s].counted \/ <<s, f.v>> \in excuse.overlap
    BY <1>2, <1>3 DEF Storing
  <2> QED BY <1>4, <2>1, <2>2 DEF ViewFactOK
<1>13. facts' = IF ok THEN [facts EXCEPT !.view = Append(facts.view, g)] ELSE facts
  <2>1. [s |-> s, v |-> view[s].storing[i].v, from |-> view[s].storing[i].from, again |-> view[s].storing[i].v \in view[s].counted] = g
    BY <1>3, <1>4, <1>5, Zenon
  <2> QED BY <1>1, <2>1
<1>14. facts.view \in Seq(ViewFacts)
  BY DEF FactTypes
<1>15. PICK h \in Seq(ViewFacts) : h = (IF ok THEN Append(facts.view, g) ELSE facts.view) /\ \A z : In(z, h) => In(z, facts.view) \/ z = g
  BY <1>14, AppendFacts
<1>16. FactTypes' /\ facts'.view = h /\ facts'.sent = facts.sent /\ facts'.search = facts.search /\ facts'.like = facts.like
  <2>1. CASE ok
    <3>1. facts' = [facts EXCEPT !.view = h] /\ {} \in SUBSET LikeFacts /\ <<>> \in Seq(Activities) /\ {} \in SUBSET Activities
      BY <1>13, <1>15, <2>1
    <3> QED BY <3>1, FactForms DEF FactTypes
  <2>2. CASE ~ok
    BY <1>13, <1>15, <2>2 DEF FactTypes
  <2> QED BY <2>1, <2>2
<1>17. UNCHANGED <<link, page, search, note, excuse>>
  BY <1>1
<1>18. \A z : In(z, facts'.view) => ViewFactOK(z, excuse'.overlap)
  BY <1>12, <1>15, <1>16, <1>17 DEF ViewInv
<1>19. ViewInv'
  BY <1>8, <1>10, <1>11, <1>17, <1>18, ViewStep
<1> QED BY <1>16, <1>17, <1>19

LikeOK(l) == l.target \in {NoNote, l.receipt.note} \/ l.receipt.witness = "bare" \/ (l.receipt.surface = "detail" /\ ~l.receipt.named)
LikeInv == note \in [Sockets -> Notes \cup {NoNote}] /\ \A l \in facts.like : LikeOK(l)

LEMMA LikeStays == ASSUME LikeInv, facts'.like = facts.like, note' \in [Sockets -> Notes \cup {NoNote}] PROVE LikeInv'
BY DEF LikeInv

LEMMA Attribution ==
    ASSUME LikeInv, NEW s \in Sockets, NEW r \in LikeReceipts, NEW l \in LikeFacts,
           l.receipt = r, l.target = attributeNoteScopedNoteId(s, r)
    PROVE  LikeOK(l)
<1>1. r.note \in Notes /\ r.note # NoNote /\ r.witness \in {"none", "bare", "full"} /\ r.surface \in {"inline", "detail"}
  BY EdgeAssumption DEF LikeReceipts
<1>2. CASE r.witness = "none"
  <2>1. l.target = IF (IF r.named THEN r.note ELSE NoNote) # NoNote \/ r.surface = "inline"
                   THEN (IF r.named THEN r.note ELSE NoNote) ELSE note[s]
    BY <1>2 DEF attributeNoteScopedNoteId
  <2> QED BY <1>1, <2>1 DEF LikeOK
<1>3. CASE r.witness = "full"
  <2>1. l.target = IF witnessVerdict(s, r) # "match" THEN NoNote
                   ELSE IF (IF r.named THEN r.note ELSE NoNote) # NoNote THEN (IF r.named THEN r.note ELSE NoNote) ELSE note[s]
    BY <1>3 DEF attributeNoteScopedNoteId
  <2>2. witnessVerdict(s, r) = "match" => note[s] = r.note
    BY <1>3 DEF witnessVerdict
  <2> QED BY <1>1, <2>1, <2>2 DEF LikeOK
<1>4. CASE r.witness = "bare"
  BY <1>4 DEF LikeOK
<1> QED BY <1>1, <1>2, <1>3, <1>4

LEMMA LikeStep ==
    ASSUME LikeInv, FactTypes, NEW s \in Sockets, NEW r \in LikeReceipts, LikeCompleted(s, r)
    PROVE  /\ LikeInv' /\ FactTypes' /\ facts'.sent = facts.sent /\ facts'.search = facts.search /\ facts'.view = facts.view
           /\ UNCHANGED <<link, page, search, view, excuse>>
<1>1. attributeNoteScopedNoteId(s, r) \in Notes \cup {NoNote}
  BY DEF LikeInv, attributeNoteScopedNoteId, LikeReceipts
<1>2. PICK l \in LikeFacts : l = [receipt |-> r, target |-> attributeNoteScopedNoteId(s, r)]
                             /\ l.receipt = r /\ l.target = attributeNoteScopedNoteId(s, r)
  <2>1. PICK t \in Notes \cup {NoNote} : t = attributeNoteScopedNoteId(s, r)
    BY <1>1
  <2>2. [receipt |-> r, target |-> t] \in LikeFacts /\ [receipt |-> r, target |-> t].receipt = r /\ [receipt |-> r, target |-> t].target = t
    BY DEF LikeFacts
  <2> QED BY <2>1, <2>2
<1>3. LikeOK(l)
  BY <1>2, Attribution
<1>4. facts' = [facts EXCEPT !.like = {l}] /\ UNCHANGED <<link, page, search, view, note, excuse>>
  BY <1>2 DEF LikeCompleted
<1>5. {l} \in SUBSET LikeFacts /\ <<>> \in Seq(Activities) /\ {} \in SUBSET Activities /\ <<>> \in Seq(ViewFacts)
  OBVIOUS
<1>6. FactTypes' /\ facts'.like = {l} /\ facts'.sent = facts.sent /\ facts'.search = facts.search /\ facts'.view = facts.view
  BY <1>4, <1>5, FactForms DEF FactTypes
<1>7. LikeInv'
  BY <1>3, <1>4, <1>6 DEF LikeInv
<1> QED BY <1>4, <1>6, <1>7

-----------------------------------------------------------------------------
(* The invariant *)

SessionInv == FactTypes /\ SearchInv /\ ViewInv /\ LikeInv
EdgeInv == LinkInv /\ LeaseInv /\ PauseInv /\ SessionInv

LEMMA SessionStays == ASSUME SessionInv, UNCHANGED session, excuse'.overlap = excuse.overlap PROVE SessionInv'
<1>1. UNCHANGED <<search, view, note, facts>>
  BY DEF session
<1>2. SearchInv' /\ ViewInv'
  BY <1>1, SearchStays, ViewStays DEF SessionInv
<1> QED BY <1>1, <1>2 DEF SessionInv, FactTypes, LikeInv

LEMMA LinkInitHolds == LinkInit => EdgeInv
<1> SUFFICES ASSUME LinkInit PROVE EdgeInv
  OBVIOUS
<1>1. LinkInv
  BY InitLink
<1>2. LeaseInv
  BY DEF LinkInit, LeaseInv, LeaseTracked, RecoveryRec
<1>3. PauseInv
  BY DEF LinkInit, PauseInv, PauseOK
<1>4. \A s \in Sockets : search[s] = [pending |-> <<>>, completed |-> <<>>] /\ search[s] \in SearchRec /\ search[s].pending = <<>>
  BY DEF LinkInit, SearchRec
<1>5. search \in [Sockets -> SearchRec]
  BY <1>4 DEF LinkInit
<1>6. facts.sent = {} /\ facts.search = <<>> /\ facts.view = <<>> /\ facts.like = {} /\ FactTypes
  BY DEF LinkInit, FactTypes
<1>7. \A x : ~In(x, <<>>)
  BY DEF In
<1>8. Once(<<>>)
  BY DEF Once
<1>9. SearchInv
  BY <1>4, <1>5, <1>6, <1>7, <1>8 DEF SearchInv
<1>10. \A s \in Sockets : view[s] = [counted |-> {}, reel |-> NoNote, storing |-> <<>>] /\ view[s] \in ViewRec /\ view[s].storing = <<>>
  BY DEF LinkInit, ViewRec
<1>11. view \in [Sockets -> ViewRec]
  BY <1>10 DEF LinkInit
<1>12. \A s \in Sockets : Storing(s, view[s].counted, view[s].storing, excuse.overlap)
  BY <1>10 DEF Storing
<1>13. ViewInv
  BY <1>6, <1>7, <1>11, <1>12 DEF ViewInv
<1>14. LikeInv
  BY <1>6 DEF LinkInit, LikeInv
<1> QED BY <1>1, <1>2, <1>3, <1>6, <1>9, <1>13, <1>14 DEF EdgeInv, SessionInv

\* Steps of the connections.
LEMMA LinkSteps ==
    ASSUME EdgeInv, NEW s \in Sockets, NEW e \in Edges,
           Connect(s) \/ Hello(s) \/ HandshakeRefused(s) \/ onHandshake(s) \/ Welcome(s) \/ EndWork(s) \/ StartWork(e)
    PROVE  EdgeInv'
<1>1. UNCHANGED <<page, session>>
  BY DEF Connect, Hello, HandshakeRefused, onHandshake, Welcome, EndWork, StartWork
<1>2. excuse'.captcha = excuse.captcha /\ excuse'.overlap = excuse.overlap
  <2>1. CASE onHandshake(s)
    <3>1. PICK o : excuse' = [excuse EXCEPT !.orphan = o]
      BY <2>1 DEF onHandshake
    <3> QED BY <3>1 DEF EdgeInv, LinkInv, LinkTypes
  <2>2. CASE ~onHandshake(s)
    BY <2>2 DEF Connect, Hello, HandshakeRefused, Welcome, EndWork, StartWork
  <2> QED BY <2>1, <2>2
<1>3. LinkInv'
  <2>1. CASE Connect(s) \/ Hello(s) \/ HandshakeRefused(s) \/ EndWork(s)
    <3>1. UNCHANGED excuse
      BY <2>1 DEF Connect, Hello, HandshakeRefused, EndWork
    <3> QED BY <2>1, <3>1, SocketStep DEF EdgeInv
  <2>2. CASE onHandshake(s) \/ Welcome(s) \/ StartWork(e)
    BY <2>2, HandshakeStep, WelcomeStep, StartWorkStep DEF EdgeInv
  <2> QED BY <2>1, <2>2
<1>4. UNCHANGED <<paused, detect, clear, alerts, blocked, recovery>> /\ UNCHANGED session
  BY <1>1 DEF page, pause
<1>5. LeaseInv' /\ PauseInv' /\ SessionInv'
  BY <1>2, <1>4, LeaseStays, PauseStays, SessionStays DEF EdgeInv
<1> QED BY <1>3, <1>5 DEF EdgeInv

LEMMA CloseSteps == ASSUME EdgeInv, NEW s \in Sockets, PeerClose(s) \/ CloseEvent(s) PROVE EdgeInv'
<1>1. LinkInv'
  BY CloseStep DEF EdgeInv
<1>2. onClose(s) /\ EdgeOf[s] \in Edges
  BY EdgeAssumption DEF PeerClose, CloseEvent
<1>3. LeaseInv'
  BY <1>2, CloseLease DEF EdgeInv
<1>4. UNCHANGED <<paused, detect, clear, alerts, blocked, excuse>> /\ UNCHANGED session
  BY <1>2 DEF onClose, pause
<1>5. PauseInv' /\ SessionInv'
  BY <1>4, PauseStays, SessionStays DEF EdgeInv
<1> QED BY <1>1, <1>3, <1>5 DEF EdgeInv

\* Steps that leave the connections and the sessions alone, and write at most captcha excuses.
LEMMA PageFrame ==
    ASSUME EdgeInv, UNCHANGED <<link, session>>,
           UNCHANGED excuse \/ \E c \in SUBSET Edges : excuse' = [excuse EXCEPT !.captcha = c]
    PROVE  LinkInv' /\ SessionInv'
<1>1. /\ excuse'.orphan = excuse.orphan /\ excuse'.overlap = excuse.overlap
      /\ excuse' \in [orphan : SUBSET Sockets, captcha : SUBSET Edges, overlap : SUBSET (Sockets \X Notes)]
  <2>1. LinkTypes
    BY DEF EdgeInv, LinkInv
  <2>2. CASE UNCHANGED excuse
    BY <2>1, <2>2 DEF LinkTypes
  <2>3. CASE \E c \in SUBSET Edges : excuse' = [excuse EXCEPT !.captcha = c]
    <3>1. PICK c \in SUBSET Edges : excuse' = [excuse EXCEPT !.captcha = c]
      BY <2>3
    <3>2. {} \in SUBSET (Sockets \X Notes)
      OBVIOUS
    <3> QED BY <2>1, <3>1, <3>2, ExcuseForms
  <2> QED BY <2>2, <2>3
<1> QED BY <1>1, LinkStays, SessionStays DEF EdgeInv

LEMMA PauseSteps ==
    ASSUME EdgeInv, NEW e \in Edges,
           \/ Blocked(e) \/ SampleRecorded(e) \/ SignalApplied(e) \/ AlertRaised(e)
           \/ Unblocked(e) \/ AlertsResolved(e) \/ CooldownOver(e) \/ resumeEdgesForAccount(e)
    PROVE  EdgeInv'
<1>0. LinkTypes /\ PauseInv /\ LeaseInv
  BY DEF EdgeInv, LinkInv
<1>1. /\ PauseInv' /\ UNCHANGED <<link, session>>
      /\ UNCHANGED excuse \/ \E c \in SUBSET Edges : excuse' = [excuse EXCEPT !.captcha = c]
  <2>1. CASE Blocked(e) \/ SampleRecorded(e) \/ SignalApplied(e) \/ AlertRaised(e)
    BY <1>0, <2>1, DetectStep
  <2>2. CASE Unblocked(e)
    BY <1>0, <2>2, ClearStep
  <2>3. CASE AlertsResolved(e)
    BY <1>0, <2>3, ResolveStep
  <2>4. CASE CooldownOver(e) \/ resumeEdgesForAccount(e)
    BY <1>0, <2>4, ResumeStep
  <2> QED BY <2>1, <2>2, <2>3, <2>4
<1>2. LeaseInv'
  <2>1. CASE SignalApplied(e)
    <3>1. PICK b \in BOOLEAN : recovery' = [recovery EXCEPT ![e].shot = b]
      <4>1. PICK b \in BOOLEAN : b = (recovery[e].shot /\ findActiveByEdge(e))
        BY Zenon
      <4> QED BY <2>1, <4>1, Zenon DEF SignalApplied, openIncident
    <3> QED BY <1>0, <3>1, ShotStep
  <2>2. CASE ~SignalApplied(e)
    <3>1. UNCHANGED recovery
      BY <2>2 DEF Blocked, SampleRecorded, AlertRaised, Unblocked, AlertsResolved, CooldownOver, resumeEdgesForAccount
    <3> QED BY <1>0, <3>1, LeaseStays
  <2> QED BY <2>1, <2>2
<1>3. LinkInv' /\ SessionInv'
  BY <1>1, PageFrame
<1> QED BY <1>1, <1>2, <1>3 DEF EdgeInv

LEMMA AssistSteps ==
    ASSUME EdgeInv, NEW e \in Edges,
           \/ onSnapshot(e) \/ markExpired(e) \/ submitClick(e) \/ LeaseGranted(e) \/ LeaseRefused(e)
           \/ onClickResult(e) \/ RecoveryTimer(e) \/ LeaseReleased(e)
    PROVE  EdgeInv'
<1>1. UNCHANGED Assist
  BY DEF onSnapshot, markExpired, submitClick, LeaseGranted, LeaseRefused, onClickResult, RecoveryTimer, LeaseReleased
<1>2. LeaseInv'
  <2>1. CASE onSnapshot(e)
    <3>1. recovery' = [recovery EXCEPT ![e].shot = TRUE]
      BY <2>1 DEF onSnapshot
    <3> QED BY <3>1, ShotStep DEF EdgeInv
  <2>2. CASE markExpired(e)
    BY <2>2, LeaseStays DEF markExpired, EdgeInv
  <2>3. CASE submitClick(e) \/ LeaseRefused(e)
    BY <2>3, AskStep DEF EdgeInv
  <2>4. CASE LeaseGranted(e)
    BY <2>4, GrantStep DEF EdgeInv
  <2>5. CASE onClickResult(e) \/ RecoveryTimer(e) \/ LeaseReleased(e)
    BY <2>5, ReleaseStep DEF EdgeInv
  <2> QED BY <2>1, <2>2, <2>3, <2>4, <2>5
<1>3. UNCHANGED <<link, session>> /\ UNCHANGED excuse /\ UNCHANGED <<paused, detect, clear, alerts, blocked>>
  BY <1>1 DEF Assist
<1>4. LinkInv' /\ SessionInv' /\ PauseInv'
  <2>1. PauseInv'
    BY <1>3, PauseStays DEF EdgeInv
  <2> QED BY <1>3, <2>1, PageFrame
<1> QED BY <1>2, <1>4 DEF EdgeInv

\* Steps that leave the connections and the page alone, and write at most overlap excuses.
LEMMA SessionFrame ==
    ASSUME EdgeInv, UNCHANGED <<link, page>>,
           UNCHANGED excuse \/ \E o \in SUBSET (Sockets \X Notes) : excuse' = [excuse EXCEPT !.overlap = o]
    PROVE  LinkInv' /\ LeaseInv' /\ PauseInv'
<1>1. /\ excuse'.orphan = excuse.orphan /\ excuse'.captcha = excuse.captcha
      /\ excuse' \in [orphan : SUBSET Sockets, captcha : SUBSET Edges, overlap : SUBSET (Sockets \X Notes)]
  <2>1. LinkTypes
    BY DEF EdgeInv, LinkInv
  <2>2. CASE UNCHANGED excuse
    BY <2>1, <2>2 DEF LinkTypes
  <2>3. CASE \E o \in SUBSET (Sockets \X Notes) : excuse' = [excuse EXCEPT !.overlap = o]
    <3>1. PICK o \in SUBSET (Sockets \X Notes) : excuse' = [excuse EXCEPT !.overlap = o]
      BY <2>3
    <3>2. {} \in SUBSET Edges
      OBVIOUS
    <3> QED BY <2>1, <3>1, <3>2, ExcuseForms
  <2> QED BY <2>2, <2>3
<1>2. UNCHANGED <<paused, detect, clear, alerts, blocked, recovery>>
  BY DEF page, pause
<1> QED BY <1>1, <1>2, LinkStays, LeaseStays, PauseStays DEF EdgeInv

LEMMA SearchSteps ==
    ASSUME EdgeInv, NEW a \in Activities,
           \/ \E e \in Edges : SendSearch(e, a)
           \/ \E s \in Sockets, o \in SearchOutcomes : SearchCompleted(s, a, o)
    PROVE  EdgeInv'
<1>1. SearchInv /\ FactTypes /\ LinkInv /\ ViewInv /\ LikeInv
  BY DEF EdgeInv, SessionInv
<1>2. /\ SearchInv' /\ FactTypes' /\ facts'.view = facts.view /\ facts'.like = facts.like
      /\ UNCHANGED <<link, page, view, note, excuse>>
  BY <1>1, SendStep, CompletedStep
<1>3. ViewInv'
  BY <1>1, <1>2, ViewStays
<1>4. LikeInv'
  BY <1>1, <1>2 DEF LikeInv
<1> QED BY <1>2, <1>3, <1>4, SessionFrame DEF EdgeInv, SessionInv

LEMMA ViewSteps ==
    ASSUME EdgeInv, NEW s \in Sockets,
           FactStored(s) \/ (\E n \in Notes : PageReel(s, n) \/ NoteDetail(s, n))
           \/ (\E n \in Notes \cup {NoNote} : PageCards(s, n)) \/ \E r \in LikeReceipts : LikeCompleted(s, r)
    PROVE  EdgeInv'
<1>1. SearchInv /\ FactTypes /\ LinkTypes /\ ViewInv /\ LikeInv
  BY DEF EdgeInv, SessionInv, LinkInv
<1>2. CASE FactStored(s)
  <2>1. /\ ViewInv' /\ FactTypes' /\ facts'.sent = facts.sent /\ facts'.search = facts.search /\ facts'.like = facts.like
        /\ UNCHANGED <<link, page, search, note, excuse>>
    BY <1>1, <1>2, StoredStep
  <2>2. SearchInv'
    BY <1>1, <2>1, SearchStays
  <2>3. LikeInv'
    BY <1>1, <2>1 DEF LikeInv
  <2> QED BY <2>1, <2>2, <2>3, SessionFrame DEF EdgeInv, SessionInv
<1>3. ASSUME NEW n \in Notes \cup {NoNote}, PageCards(s, n) PROVE EdgeInv'
  <2>1. /\ ViewInv' /\ UNCHANGED <<link, page, search, facts>>
        /\ \E o \in SUBSET (Sockets \X Notes) : excuse' = [excuse EXCEPT !.overlap = o]
    BY <1>1, <1>3, CardsStep
  <2>2. UNCHANGED note
    BY <1>3, CardsStep, <1>1
  <2>3. SearchInv'
    BY <1>1, <2>1, SearchStays
  <2>4. LikeInv' /\ FactTypes'
    BY <1>1, <2>1, <2>2 DEF LikeInv, FactTypes
  <2> QED BY <2>1, <2>3, <2>4, SessionFrame DEF EdgeInv, SessionInv
<1>4. ASSUME NEW n \in Notes, NoteDetail(s, n) PROVE EdgeInv'
  <2>1. ViewInv' /\ UNCHANGED <<link, page, search, facts, excuse>>
    BY <1>1, <1>4, DetailStep
  <2>2. note' \in [Sockets -> Notes \cup {NoNote}]
    BY <1>1, <1>4 DEF NoteDetail, LikeInv
  <2>3. SearchInv'
    BY <1>1, <2>1, SearchStays
  <2>4. LikeInv' /\ FactTypes'
    BY <1>1, <2>1, <2>2 DEF LikeInv, FactTypes
  <2> QED BY <2>1, <2>3, <2>4, SessionFrame DEF EdgeInv, SessionInv
<1>6. ASSUME NEW n \in Notes, PageReel(s, n) PROVE EdgeInv'
  <2>1. ViewInv' /\ UNCHANGED <<link, page, search, note, facts, excuse>>
    BY <1>1, <1>6, ReelStep
  <2>2. SearchInv'
    BY <1>1, <2>1, SearchStays
  <2>3. LikeInv' /\ FactTypes'
    BY <1>1, <2>1 DEF LikeInv, FactTypes
  <2> QED BY <2>1, <2>2, <2>3, SessionFrame DEF EdgeInv, SessionInv
<1>5. ASSUME NEW r \in LikeReceipts, LikeCompleted(s, r) PROVE EdgeInv'
  <2>1. /\ LikeInv' /\ FactTypes' /\ facts'.sent = facts.sent /\ facts'.search = facts.search /\ facts'.view = facts.view
        /\ UNCHANGED <<link, page, search, view, excuse>>
    BY <1>1, <1>5, LikeStep
  <2>2. SearchInv' /\ ViewInv'
    BY <1>1, <2>1, SearchStays, ViewStays
  <2> QED BY <2>1, <2>2, SessionFrame DEF EdgeInv, SessionInv
<1> QED BY <1>2, <1>3, <1>4, <1>5, <1>6

LEMMA LinkNextHolds == EdgeInv /\ [LinkNext]_linkVars => EdgeInv'
<1> SUFFICES ASSUME EdgeInv, [LinkNext]_linkVars PROVE EdgeInv'
  OBVIOUS
<1>1. ASSUME UNCHANGED linkVars PROVE EdgeInv'
  <2>1. UNCHANGED <<link, page, session, excuse>>
    BY <1>1 DEF linkVars, link, page, pause, session
  <2>2. UNCHANGED <<link, page>> /\ UNCHANGED session /\ UNCHANGED excuse
    BY <2>1
  <2> QED BY <2>2, SessionFrame, SessionStays DEF EdgeInv
<1>2. ASSUME NEW s \in Sockets,
             \/ Connect(s) \/ Hello(s) \/ HandshakeRefused(s) \/ onHandshake(s) \/ Welcome(s) \/ EndWork(s)
             \/ PeerClose(s) \/ CloseEvent(s)
      PROVE  EdgeInv'
  <2>1. EdgeOf[s] \in Edges
    BY EdgeAssumption
  <2> QED BY <1>2, <2>1, LinkSteps, CloseSteps
<1>3. ASSUME NEW s \in Sockets, NEW e \in Edges, StartWork(e) PROVE EdgeInv'
  BY <1>3, LinkSteps
<1>4. ASSUME NEW e \in Edges, StartWork(e) PROVE EdgeInv'
  <2>1. PICK s \in Sockets : TRUE
    BY <1>4 DEF StartWork, Targets, Live, EdgeInv, LinkInv, LinkTypes
  <2> QED BY <1>3, <1>4, <2>1
<1> QED BY <1>1, <1>2, <1>4, PauseSteps, AssistSteps, SearchSteps, ViewSteps DEF LinkNext

LEMMA EdgeHolds == LinkSpec => []EdgeInv
BY LinkInitHolds, LinkNextHolds, PTL DEF LinkSpec

\* At most one open connection drives an edge, nothing it started outlives it, and a lease it was granted
\* has someone who will release it, for any number of edges and sockets (edge access, ConnectionRuntimeRegistry).
THEOREM ConnectionOwned == LinkSpec => []ConnectionOwnsWork
<1>1. EdgeInv => ConnectionOwnsWork
  BY DEF EdgeInv, LinkInv, LinkTypes, SockOK, LeaseInv, ConnectionOwnsWork, OneDriver, WorkEndsWithConnection
<1> QED BY <1>1, EdgeHolds, PTL

\* A free page is not paused and has no open alert once its reports are handled, for any number of edges, clicks
\* and reconnections, unless a report was overtaken, not sent or not stored (CaptchaCoordinator).
THEOREM PausesSettle == LinkSpec => []PauseSettles
<1>1. EdgeInv => PauseSettles
  BY DEF EdgeInv, PauseInv, PauseOK, PauseSettles
<1> QED BY <1>1, EdgeHolds, PTL

\* Each search is recorded once, each feed video once per connection and each like for the note it was given
\* to, for any number of receipts, in any order and with any delay (the message handler).
THEOREM FactsRecorded == LinkSpec => []FactsAreTrue
<1>1. EdgeInv => FactsAreTrue
  <2>1. SUFFICES ASSUME EdgeInv PROVE FactsAreTrue
    OBVIOUS
  <2>2. \A i, j \in DOMAIN facts.search : facts.search[i] = facts.search[j] => i = j
    BY <2>1 DEF EdgeInv, SessionInv, SearchInv, Once
  <2>3. ASSUME NEW i \in DOMAIN facts.view PROVE ViewFactOK(facts.view[i], excuse.overlap)
    BY <2>1 DEF EdgeInv, SessionInv, ViewInv, In
  <2>4. \A l \in facts.like : LikeOK(l)
    BY <2>1 DEF EdgeInv, SessionInv, LikeInv
  <2> QED BY <2>2, <2>3, <2>4 DEF FactsAreTrue, ViewFactOK, LikeOK
<1> QED BY <1>1, EdgeHolds, PTL

-----------------------------------------------------------------------------
(* Types and caps *)

PageTypes ==
    /\ paused \subseteq Edges /\ alerted \subseteq Edges /\ blocked \subseteq Edges /\ incident \in [Edges -> IncidentStates]

Capped(r) == Len(r.pending) <= MaxPending /\ Len(r.completed) <= MaxPending
CapInv == \A s \in Sockets : Capped(search[s])

LEMMA RememberCaps ==
    ASSUME NEW S, NEW q \in Seq(S), NEW x \in S, Len(q) <= MaxPending PROVE Len(Remember(q, x)) <= MaxPending
<1>1. Len(q) \in Nat /\ MaxPending \in Nat \ {0}
  BY EdgeAssumption
<1>2. CASE Len(q) >= MaxPending
  <2>1. Len(q) > 0 /\ Remember(q, x) = Append(Tail(q), x)
    BY <1>1, <1>2 DEF Remember
  <2>2. PICK t : t = Tail(q)
    OBVIOUS
  <2>3. t \in Seq(S) /\ Len(t) = Len(q) - 1
    BY <2>1, <2>2, TailFacts
  <2>4. Len(Append(t, x)) = Len(q)
    BY <1>1, <2>3
  <2> QED BY <2>1, <2>2, <2>4
<1>3. CASE ~(Len(q) >= MaxPending)
  <2>1. Remember(q, x) = Append(q, x) /\ Len(Append(q, x)) = Len(q) + 1
    BY <1>3 DEF Remember
  <2> QED BY <1>1, <1>3, <2>1
<1> QED BY <1>2, <1>3

LEMMA SendCaps == ASSUME EdgeInv, CapInv, NEW e \in Edges, NEW a \in Activities, SendSearch(e, a) PROVE CapInv'
<1>1. SUFFICES ASSUME NEW s \in Sockets PROVE Capped(search'[s])
  BY DEF CapInv
<1>2. search[s] \in SearchRec /\ search[s].pending \in Seq(Activities) /\ Capped(search[s])
  BY DEF EdgeInv, SessionInv, SearchInv, SearchRec, CapInv
<1>3. search'[s] = search[s] \/ search'[s] = [search[s] EXCEPT !.pending = Remember(search[s].pending, a)]
  BY DEF SendSearch
<1>4. PICK q : q = Remember(search[s].pending, a)
  OBVIOUS
<1>5. Len(q) <= MaxPending
  BY <1>2, <1>4, RememberCaps DEF Capped
<1>6. search'[s] = search[s] \/ (search'[s].pending = q /\ search'[s].completed = search[s].completed)
  BY <1>2, <1>3, <1>4 DEF SearchRec
<1> QED BY <1>2, <1>5, <1>6 DEF Capped

LEMMA CompletedCaps ==
    ASSUME EdgeInv, CapInv, NEW s \in Sockets, NEW a \in Activities, NEW o, SearchCompleted(s, a, o) PROVE CapInv'
<1>1. search \in [Sockets -> SearchRec] /\ search[s].pending \in Seq(Activities) /\ search[s].completed \in Seq(Activities)
      /\ Capped(search[s])
  BY DEF EdgeInv, SessionInv, SearchInv, SearchRec, CapInv
<1>2. CASE UNCHANGED search
  BY <1>2 DEF CapInv
<1>3. CASE ~UNCHANGED search
  <2>1. PICK q, c : /\ search' = [search EXCEPT ![s] = [pending |-> q, completed |-> c]]
                    /\ q = Delete(search[s].pending, a) /\ c = Remember(search[s].completed, a) /\ a \in Range(search[s].pending)
    BY <1>3 DEF SearchCompleted
  <2>2. PICK k \in DOMAIN search[s].pending : q = RemoveAt(search[s].pending, k)
    <3>1. \E k \in DOMAIN search[s].pending : search[s].pending[k] = a
      BY <2>1 DEF Range
    <3> QED BY <2>1, <3>1 DEF Delete
  <2>3. Len(q) = Len(search[s].pending) - 1 /\ Len(search[s].pending) \in Nat
    BY <1>1, <2>2, RemoveAtFacts
  <2>4. Len(q) <= MaxPending /\ Len(c) <= MaxPending
    BY <1>1, <2>1, <2>3, RememberCaps, EdgeAssumption DEF Capped
  <2>5. \A t \in Sockets : Capped(search'[t])
    BY <1>1, <2>1, <2>4 DEF Capped, CapInv
  <2> QED BY <2>5 DEF CapInv
<1> QED BY <1>2, <1>3

LEMMA CapsStay ==
    ASSUME EdgeInv, CapInv, [LinkNext]_linkVars PROVE CapInv'
<1>1. CASE UNCHANGED search
  BY <1>1 DEF CapInv
<1>2. CASE ~UNCHANGED search
  <2>1. \/ \E e \in Edges, a \in Activities : SendSearch(e, a)
        \/ \E s \in Sockets, a \in Activities, o \in SearchOutcomes : SearchCompleted(s, a, o)
    <3>1. ASSUME NEW s \in Sockets,
                 \/ Connect(s) \/ Hello(s) \/ HandshakeRefused(s) \/ onHandshake(s) \/ Welcome(s) \/ EndWork(s)
                 \/ PeerClose(s) \/ CloseEvent(s) \/ FactStored(s)
                 \/ \E n \in Notes : PageReel(s, n) \/ NoteDetail(s, n)
                 \/ \E n \in Notes \cup {NoNote} : PageCards(s, n)
                 \/ \E r \in LikeReceipts : LikeCompleted(s, r)
          PROVE  UNCHANGED search
      BY <3>1 DEF session, Connect, Hello, HandshakeRefused, onHandshake, Welcome, PeerClose, CloseEvent,
                  onClose, EndWork, FactStored, PageReel, PageCards, NoteDetail, LikeCompleted
    <3>2. ASSUME NEW e \in Edges,
                 \/ StartWork(e) \/ Blocked(e) \/ SampleRecorded(e) \/ SignalApplied(e) \/ AlertRaised(e)
                 \/ Unblocked(e) \/ AlertsResolved(e) \/ CooldownOver(e) \/ resumeEdgesForAccount(e)
          PROVE  UNCHANGED search
      BY <3>2 DEF session, StartWork, Blocked, SampleRecorded, SignalApplied, AlertRaised, Unblocked, AlertsResolved,
                  CooldownOver, resumeEdgesForAccount
    <3>3. ASSUME NEW e \in Edges,
                 \/ onSnapshot(e) \/ markExpired(e) \/ submitClick(e) \/ LeaseGranted(e) \/ LeaseRefused(e)
                 \/ onClickResult(e) \/ RecoveryTimer(e) \/ LeaseReleased(e)
          PROVE  UNCHANGED search
      <4>1. UNCHANGED Assist
        BY <3>3 DEF onSnapshot, markExpired, submitClick, LeaseGranted, LeaseRefused, onClickResult, RecoveryTimer, LeaseReleased
      <4> QED BY <4>1 DEF Assist, session
    <3>4. UNCHANGED linkVars => UNCHANGED search
      BY DEF linkVars
    <3> QED BY <1>2, <3>1, <3>2, <3>3, <3>4 DEF LinkNext
  <2> QED BY <2>1, SendCaps, CompletedCaps
<1> QED BY <1>1, <1>2

LEMMA PageTypesStay == ASSUME PageTypes, [LinkNext]_linkVars PROVE PageTypes'
<1>1. ASSUME NEW e \in Edges,
             \/ Blocked(e) \/ SampleRecorded(e) \/ SignalApplied(e) \/ AlertRaised(e)
             \/ Unblocked(e) \/ AlertsResolved(e) \/ CooldownOver(e) \/ resumeEdgesForAccount(e)
      PROVE  PageTypes'
  <2>1. CASE SignalApplied(e)
    BY <2>1 DEF SignalApplied, PageTypes, IncidentStates, openIncident, requestCapture, pauseEdge, maybeAlert
  <2>2. CASE Unblocked(e)
    BY <2>2 DEF Unblocked, PageTypes, IncidentStates, resumeEdge
  <2>3. CASE ~SignalApplied(e) /\ ~Unblocked(e)
    BY <1>1, <2>3 DEF PageTypes, Blocked, SampleRecorded, AlertRaised, AlertsResolved, CooldownOver, resumeEdgesForAccount, resumeEdge
  <2> QED BY <2>1, <2>2, <2>3
<1>2. ASSUME NEW e \in Edges,
             \/ onSnapshot(e) \/ markExpired(e) \/ submitClick(e) \/ LeaseGranted(e) \/ LeaseRefused(e)
             \/ onClickResult(e) \/ RecoveryTimer(e) \/ LeaseReleased(e)
      PROVE  PageTypes'
  <2>1. UNCHANGED Assist /\ (UNCHANGED incident \/ \E i \in IncidentStates : incident' = [incident EXCEPT ![e] = i])
    BY <1>2 DEF onSnapshot, markExpired, submitClick, LeaseGranted, LeaseRefused, onClickResult, RecoveryTimer, LeaseReleased,
                IncidentStates, ClickResults
  <2> QED BY <2>1 DEF Assist, PageTypes
<1>3. ASSUME UNCHANGED pause PROVE PageTypes'
  BY <1>3 DEF pause, PageTypes
<1>4. ASSUME NEW s \in Sockets,
             \/ Connect(s) \/ Hello(s) \/ HandshakeRefused(s) \/ onHandshake(s) \/ Welcome(s) \/ EndWork(s)
             \/ PeerClose(s) \/ CloseEvent(s) \/ FactStored(s)
             \/ \E a \in Activities, o \in SearchOutcomes : SearchCompleted(s, a, o)
             \/ \E n \in Notes : PageReel(s, n) \/ NoteDetail(s, n)
             \/ \E n \in Notes \cup {NoNote} : PageCards(s, n)
             \/ \E r \in LikeReceipts : LikeCompleted(s, r)
      PROVE  UNCHANGED pause
  BY <1>4 DEF page, Connect, Hello, HandshakeRefused, onHandshake, Welcome, PeerClose, CloseEvent,
              onClose, EndWork, FactStored, PageReel, PageCards, NoteDetail, LikeCompleted, SearchCompleted
<1>5. ASSUME NEW e \in Edges, StartWork(e) \/ \E a \in Activities : SendSearch(e, a) PROVE UNCHANGED pause
  BY <1>5 DEF StartWork, SendSearch, page
<1>6. UNCHANGED linkVars => UNCHANGED pause
  BY DEF linkVars, pause
<1> QED BY <1>1, <1>2, <1>3, <1>4, <1>5, <1>6 DEF LinkNext

\* Connections, pauses, incidents and what is remembered of searches stay in their types, and never more than
\* MaxPending searches are remembered for a connection (the 256 of handler.ts).
THEOREM LinkTypeCorrect == LinkSpec => []LinkTypeOK
<1>1. LinkInit => EdgeInv /\ PageTypes /\ CapInv
  <2>1. LinkInit => PageTypes
    BY DEF LinkInit, PageTypes, IncidentStates
  <2>2. LinkInit => CapInv
    BY EdgeAssumption DEF LinkInit, CapInv, Capped
  <2> QED BY <2>1, <2>2, LinkInitHolds
<1>2. EdgeInv /\ PageTypes /\ CapInv /\ [LinkNext]_linkVars => (EdgeInv /\ PageTypes /\ CapInv)'
  BY LinkNextHolds, PageTypesStay, CapsStay
<1>3. EdgeInv /\ PageTypes /\ CapInv => LinkTypeOK
  BY DEF EdgeInv, LinkInv, LinkTypes, PageTypes, CapInv, Capped, LinkTypeOK
<1> QED BY <1>1, <1>2, <1>3, PTL DEF LinkSpec
==============================================================================
