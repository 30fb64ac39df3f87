------------------------ MODULE RiskAccountingProofs ------------------------
(***************************************************************************)
(* For every set of processes, keys and accounts and every bound: the      *)
(* funnel is type correct, applies a fact exactly once and never counts in *)
(* memory what the ledger does not hold.                                   *)
(***************************************************************************)
EXTENDS RiskAccounting, FiniteSetTheorems, TLAPS

\* A round that has committed a row works on a real key, which is in the
\* ledger, and has not yet counted it more often than a load would.
RoundInv ==
    \A p \in Procs :
        /\ pc[p] \in {"failing", "committed", "resolved"} => cur[p].key \in Keys
        /\ pc[p] \in {"committed", "resolved"} =>
              ledger[cur[p].key] = 1 /\ cnt[p][cur[p].key] <= 1

\* A snapshot the reconciler holds is never ahead of the ledger.
SnapshotInv == \A p \in Procs, k \in Keys : rec[p].snap[k] <= ledger[k]

IInv == TypeOK /\ ExactlyOnce /\ MemoryBackedByLedger /\ RoundInv /\ SnapshotInv

\* The groups of UNCHANGED variables.
USE DEF dbVars, runVars, memVars, boundVars

\* The id a new row gets is a natural number.
LEMMA NewIdIsNat == 1 + Cardinality({j \in Keys : row[j].status # "none"}) \in Nat
<1>1. {j \in Keys : row[j].status # "none"} \subseteq Keys
  OBVIOUS
<1>2. IsFiniteSet({j \in Keys : row[j].status # "none"})
  BY <1>1, KeysFinite, FS_Subset
<1>3. Cardinality({j \in Keys : row[j].status # "none"}) \in Nat
  BY <1>2, FS_CardinalityType
<1> QED
  BY <1>3

\* The record updates of the SQL statements keep a row well typed.
LEMMA ClaimUpdate ==
    ASSUME NEW r \in RowRec, NEW h \in Procs \cup {None}
    PROVE  [r EXCEPT !.holder = h, !.expired = FALSE] \in RowRec
  BY DEF RowRec

\* So does a lease that runs out.
LEMMA ExpiryUpdate ==
    ASSUME NEW r \in RowRec
    PROVE  [r EXCEPT !.expired = TRUE] \in RowRec
  BY DEF RowRec

\* So does the UPDATE of applyClaimed.
LEMMA AppliedUpdate ==
    ASSUME NEW r \in RowRec
    PROVE  [r EXCEPT !.status = "applied", !.holder = None, !.expired = FALSE] \in RowRec
  BY DEF RowRec, RowStatus

\* The initial state: nothing enqueued, nothing counted.
LEMMA InitIInv == Init => IInv
<1> SUFFICES ASSUME Init PROVE IInv
  OBVIOUS
<1>1. NoRow \in RowRec
  BY DEF NoRow, RowRec, RowStatus
<1>2. NoRec \in RecRec
  BY DEF NoRec, RecRec
<1>3. TypeOK
  BY <1>1, <1>2 DEF Init, TypeOK
<1>4. ExactlyOnce /\ MemoryBackedByLedger /\ RoundInv
  BY DEF Init, ExactlyOnce, MemoryBackedByLedger, RoundInv, NoRow
<1>5. SnapshotInv
  BY DEF Init, SnapshotInv, NoRec
<1> QED
  BY <1>3, <1>4, <1>5 DEF IInv

\* Every step keeps the inductive invariant: one case per action.
LEMMA NextIInv == IInv /\ [Next]_vars => IInv'
<1> SUFFICES ASSUME IInv, [Next]_vars PROVE IInv'
  OBVIOUS
<1>0. TypeOK /\ ExactlyOnce /\ MemoryBackedByLedger /\ RoundInv /\ SnapshotInv
  BY DEF IInv
<1>1. ASSUME NEW p \in Procs, NEW k \in Keys, Enqueue(p, k) PROVE IInv'
  <2>1. TypeOK'
    BY <1>0, <1>1, NewIdIsNat, KeyAssumption, ProcAssumption DEF TypeOK, RoundInv, Enqueue, EnqueueSucceeds, InsertedRow, NoRow, RowStatus, RowRec
  <2>2. ExactlyOnce' /\ MemoryBackedByLedger'
    BY <1>0, <1>1, KeyAssumption, NoneAssumption DEF TypeOK, ExactlyOnce, MemoryBackedByLedger, RoundInv, SnapshotInv, Enqueue, EnqueueSucceeds, InsertedRow, NoRow
  <2>3. RoundInv'
    BY <1>0, <1>1, KeyAssumption, NoneAssumption DEF TypeOK, ExactlyOnce, MemoryBackedByLedger, RoundInv, SnapshotInv, Enqueue, EnqueueSucceeds, InsertedRow, NoRow
  <2>4. SnapshotInv'
    BY <1>0, <1>1 DEF SnapshotInv, Enqueue, EnqueueSucceeds
  <2> QED
    BY <2>1, <2>2, <2>3, <2>4 DEF IInv
<1>2. ASSUME NEW p \in Procs, NEW k \in Keys, RecordEnqueues(p, k) PROVE IInv'
  <2>1. TypeOK'
    BY <1>0, <1>2, NewIdIsNat, KeyAssumption, ProcAssumption DEF TypeOK, RoundInv, RecordEnqueues, EnqueueSucceeds, InsertedRow, NoRow, RowStatus, RowRec
  <2>2. ExactlyOnce' /\ MemoryBackedByLedger'
    BY <1>0, <1>2, KeyAssumption, NoneAssumption DEF TypeOK, ExactlyOnce, MemoryBackedByLedger, RoundInv, SnapshotInv, RecordEnqueues, EnqueueSucceeds, InsertedRow, NoRow
  <2>3. RoundInv'
    BY <1>0, <1>2, KeyAssumption, NoneAssumption DEF TypeOK, ExactlyOnce, MemoryBackedByLedger, RoundInv, SnapshotInv, RecordEnqueues, EnqueueSucceeds, InsertedRow, NoRow
  <2>4. SnapshotInv'
    BY <1>0, <1>2 DEF SnapshotInv, RecordEnqueues, EnqueueSucceeds
  <2> QED
    BY <2>1, <2>2, <2>3, <2>4 DEF IInv
<1>3. ASSUME NEW p \in Procs, NEW k \in Keys, EnqueueFails(p, k) PROVE IInv'
  <2>1. TypeOK'
    BY <1>0, <1>3, KeyAssumption, ProcAssumption DEF TypeOK, RoundInv, EnqueueFails
  <2>2. ExactlyOnce' /\ MemoryBackedByLedger'
    BY <1>0, <1>3 DEF ExactlyOnce, MemoryBackedByLedger, EnqueueFails
  <2>3. RoundInv'
    BY <1>0, <1>3, KeyAssumption, NoneAssumption DEF TypeOK, ExactlyOnce, MemoryBackedByLedger, RoundInv, SnapshotInv, EnqueueFails
  <2>4. SnapshotInv'
    BY <1>0, <1>3 DEF SnapshotInv, EnqueueFails
  <2> QED
    BY <2>1, <2>2, <2>3, <2>4 DEF IInv
<1>4. ASSUME NEW p \in Procs, NEW k \in Keys, RecordApplies(p, k) PROVE IInv'
  <2>1. TypeOK'
    BY <1>0, <1>4, KeyAssumption, ProcAssumption DEF TypeOK, RoundInv, RecordApplies, ApplyNow, JoinedRound
  <2>2. ExactlyOnce' /\ MemoryBackedByLedger'
    BY <1>0, <1>4 DEF ExactlyOnce, MemoryBackedByLedger, RecordApplies
  <2>3. RoundInv'
    BY <1>0, <1>4, KeyAssumption, NoneAssumption DEF TypeOK, ExactlyOnce, MemoryBackedByLedger, RoundInv, SnapshotInv, RecordApplies, ApplyNow
  <2>4. SnapshotInv'
    BY <1>0, <1>4 DEF SnapshotInv, RecordApplies
  <2> QED
    BY <2>1, <2>2, <2>3, <2>4 DEF IInv
<1>5. ASSUME NEW p \in Procs, NEW a \in Accounts, ClearBlock(p, a) PROVE IInv'
  <2>1. TypeOK'
    BY <1>0, <1>5, KeyAssumption, ProcAssumption DEF TypeOK, RoundInv, ClearBlock
  <2>2. ExactlyOnce' /\ MemoryBackedByLedger'
    BY <1>0, <1>5 DEF ExactlyOnce, MemoryBackedByLedger, ClearBlock
  <2>3. RoundInv'
    BY <1>0, <1>5, KeyAssumption, NoneAssumption DEF TypeOK, ExactlyOnce, MemoryBackedByLedger, RoundInv, SnapshotInv, ClearBlock
  <2>4. SnapshotInv'
    BY <1>0, <1>5 DEF SnapshotInv, ClearBlock
  <2> QED
    BY <2>1, <2>2, <2>3, <2>4 DEF IInv
<1>6. ASSUME NEW p \in Procs, Poll(p) PROVE IInv'
  <2>1. TypeOK'
    BY <1>0, <1>6, KeyAssumption, ProcAssumption DEF TypeOK, RoundInv, Poll, ApplyNow
  <2>2. ExactlyOnce' /\ MemoryBackedByLedger'
    BY <1>0, <1>6 DEF ExactlyOnce, MemoryBackedByLedger, Poll
  <2>3. RoundInv'
    BY <1>0, <1>6, KeyAssumption, NoneAssumption DEF TypeOK, ExactlyOnce, MemoryBackedByLedger, RoundInv, SnapshotInv, Poll, ApplyNow
  <2>4. SnapshotInv'
    BY <1>0, <1>6 DEF SnapshotInv, Poll
  <2> QED
    BY <2>1, <2>2, <2>3, <2>4 DEF IInv
<1>7. ASSUME NEW p \in Procs, ClaimBatch(p) PROVE IInv'
  <2>1. TypeOK'
    <3>1. \A k \in Keys : [row[k] EXCEPT !.holder = p, !.expired = FALSE] \in RowRec
      BY <1>0, ClaimUpdate DEF TypeOK
    <3>2. row' \in [Keys -> RowRec]
      BY <1>0, <1>7, <3>1 DEF TypeOK, ClaimBatch, ClaimedRows
    <3>3. Candidates(p) \subseteq Keys
      BY DEF Candidates, ClaimableBy
    <3>4. \A k \in Keys : [key |-> k, attempts |-> row[k].attempts] \in Claim
      BY <1>0 DEF TypeOK, RowRec, Claim
    <3>5. {[key |-> k, attempts |-> row[k].attempts] : k \in Candidates(p)} \subseteq Claim
      BY <3>3, <3>4
    <3>6. batch' \in [Procs -> SUBSET Claim]
      BY <1>0, <1>7, <3>5 DEF TypeOK, ClaimBatch
    <3> QED
      BY <1>0, <1>7, <3>2, <3>6 DEF TypeOK, ClaimBatch
  <2>2. ExactlyOnce' /\ MemoryBackedByLedger'
    <3>1. \A k \in Keys :
            [row[k] EXCEPT !.holder = p, !.expired = FALSE].status = row[k].status
      BY <1>0 DEF TypeOK, RowRec
    <3>2. \A k \in Keys : row'[k].status = row[k].status
      BY <1>7, <3>1 DEF ClaimBatch, ClaimedRows
    <3> QED
      BY <1>0, <1>7, <3>2 DEF ExactlyOnce, MemoryBackedByLedger, ClaimBatch
  <2>3. RoundInv'
    BY <1>0, <1>7, KeyAssumption, NoneAssumption DEF TypeOK, ExactlyOnce, MemoryBackedByLedger, RoundInv, SnapshotInv, ClaimBatch, ClaimedRows, Candidates, ClaimableBy
  <2>4. SnapshotInv'
    BY <1>0, <1>7 DEF SnapshotInv, ClaimBatch
  <2> QED
    BY <2>1, <2>2, <2>3, <2>4 DEF IInv
<1>8. ASSUME NEW p \in Procs, BatchDone(p) PROVE IInv'
  <2>1. TypeOK'
    BY <1>0, <1>8, KeyAssumption, ProcAssumption DEF TypeOK, RoundInv, BatchDone, EndRun
  <2>2. ExactlyOnce' /\ MemoryBackedByLedger'
    BY <1>0, <1>8 DEF ExactlyOnce, MemoryBackedByLedger, BatchDone
  <2>3. RoundInv'
    BY <1>0, <1>8, KeyAssumption, NoneAssumption DEF TypeOK, ExactlyOnce, MemoryBackedByLedger, RoundInv, SnapshotInv, BatchDone, EndRun
  <2>4. SnapshotInv'
    BY <1>0, <1>8 DEF SnapshotInv, BatchDone
  <2> QED
    BY <2>1, <2>2, <2>3, <2>4 DEF IInv
<1>9. ASSUME NEW p \in Procs, QueuedContinues(p) PROVE IInv'
  <2>1. TypeOK'
    <3>1. caller' \in [Procs -> [Keys -> {"idle", "enqueued", "run", "queue"}]]
      <4>1. [k \in Keys |-> IF caller[p][k] = "queue" THEN "run" ELSE caller[p][k]]
               \in [Keys -> {"idle", "enqueued", "run", "queue"}]
        BY <1>0 DEF TypeOK
      <4>2. \/ UNCHANGED caller
            \/ caller' = [caller EXCEPT ![p] =
                 [k \in Keys |-> IF caller[p][k] = "queue" THEN "run" ELSE caller[p][k]]]
        BY <1>0, <1>9 DEF TypeOK, QueuedContinues
      <4> QED
        BY <1>0, <4>1, <4>2 DEF TypeOK
    <3>2. pc' \in [Procs -> {"idle", "claiming", "row", "failing", "committed", "resolved"}]
      BY <1>0, <1>9 DEF TypeOK, QueuedContinues
    <3>3. q' \in [Procs -> {"none", "waiting", "ready"}]
      BY <1>0, <1>9 DEF TypeOK, QueuedContinues
    <3> QED
      BY <1>0, <1>9, <3>1, <3>2, <3>3 DEF TypeOK, QueuedContinues
  <2>2. ExactlyOnce' /\ MemoryBackedByLedger'
    BY <1>0, <1>9 DEF ExactlyOnce, MemoryBackedByLedger, QueuedContinues
  <2>3. RoundInv'
    BY <1>0, <1>9, KeyAssumption, NoneAssumption DEF TypeOK, ExactlyOnce, MemoryBackedByLedger, RoundInv, SnapshotInv, QueuedContinues
  <2>4. SnapshotInv'
    BY <1>0, <1>9 DEF SnapshotInv, QueuedContinues
  <2> QED
    BY <2>1, <2>2, <2>3, <2>4 DEF IInv
<1>10. ASSUME NEW p \in Procs, ClaimFails(p) PROVE IInv'
  <2>1. TypeOK'
    BY <1>0, <1>10, KeyAssumption, ProcAssumption DEF TypeOK, RoundInv, ClaimFails, EndRun
  <2>2. ExactlyOnce' /\ MemoryBackedByLedger'
    BY <1>0, <1>10 DEF ExactlyOnce, MemoryBackedByLedger, ClaimFails
  <2>3. RoundInv'
    BY <1>0, <1>10, KeyAssumption, NoneAssumption DEF TypeOK, ExactlyOnce, MemoryBackedByLedger, RoundInv, SnapshotInv, ClaimFails, EndRun
  <2>4. SnapshotInv'
    BY <1>0, <1>10 DEF SnapshotInv, ClaimFails
  <2> QED
    BY <2>1, <2>2, <2>3, <2>4 DEF IInv
<1>11. ASSUME NEW p \in Procs, NEW c \in batch[p], ApplyCommits(p, c) PROVE IInv'
  <2>1. TypeOK'
    <3>1. c \in Claim /\ c.key \in Keys
      BY <1>0, <1>11 DEF TypeOK, Claim
    <3>2. AppliedRow(c.key) \in RowRec
      BY <1>0, <3>1, AppliedUpdate DEF TypeOK, AppliedRow
    <3>3. row' \in [Keys -> RowRec] /\ ledger' \in [Keys -> Nat]
      BY <1>0, <1>11, <3>1, <3>2 DEF TypeOK, ApplyCommits
    <3>4. cur' \in [Procs -> Claim \cup {NoClaim}] /\ batch' \in [Procs -> SUBSET Claim]
      BY <1>0, <1>11, <3>1 DEF TypeOK, ApplyCommits
    <3>5. pc' \in [Procs -> {"idle", "claiming", "row", "failing", "committed", "resolved"}]
      BY <1>0, <1>11 DEF TypeOK, ApplyCommits
    <3> QED
      BY <1>0, <1>11, <3>3, <3>4, <3>5 DEF TypeOK, ApplyCommits
  <2>2. ExactlyOnce' /\ MemoryBackedByLedger'
    BY <1>0, <1>11, KeyAssumption, NoneAssumption DEF TypeOK, ExactlyOnce, MemoryBackedByLedger, RoundInv, SnapshotInv, ApplyCommits, AppliedRow, StillClaimed, Claim
  <2>3. RoundInv'
    BY <1>0, <1>11, KeyAssumption, NoneAssumption DEF TypeOK, ExactlyOnce, MemoryBackedByLedger, RoundInv, SnapshotInv, ApplyCommits, AppliedRow, StillClaimed, Claim
  <2>4. SnapshotInv'
    BY <1>0, <1>11 DEF TypeOK, ExactlyOnce, RecRec, Claim, SnapshotInv, ApplyCommits
  <2> QED
    BY <2>1, <2>2, <2>3, <2>4 DEF IInv
<1>12. ASSUME NEW p \in Procs, NEW c \in batch[p], ApplyRollsBack(p, c) PROVE IInv'
  <2>1. TypeOK'
    BY <1>0, <1>12, KeyAssumption, ProcAssumption DEF TypeOK, RoundInv, ApplyRollsBack
  <2>2. ExactlyOnce' /\ MemoryBackedByLedger'
    BY <1>0, <1>12 DEF ExactlyOnce, MemoryBackedByLedger, ApplyRollsBack
  <2>3. RoundInv'
    BY <1>0, <1>12, KeyAssumption, NoneAssumption DEF TypeOK, ExactlyOnce, MemoryBackedByLedger, RoundInv, SnapshotInv, ApplyRollsBack
  <2>4. SnapshotInv'
    BY <1>0, <1>12 DEF SnapshotInv, ApplyRollsBack
  <2> QED
    BY <2>1, <2>2, <2>3, <2>4 DEF IInv
<1>13. ASSUME NEW p \in Procs, NEW c \in batch[p], ApplyErrs(p, c) PROVE IInv'
  <2>1. TypeOK'
    BY <1>0, <1>13, KeyAssumption, ProcAssumption DEF TypeOK, RoundInv, ApplyErrs
  <2>2. ExactlyOnce' /\ MemoryBackedByLedger'
    BY <1>0, <1>13 DEF ExactlyOnce, MemoryBackedByLedger, ApplyErrs
  <2>3. RoundInv'
    BY <1>0, <1>13, KeyAssumption, NoneAssumption DEF TypeOK, ExactlyOnce, MemoryBackedByLedger, RoundInv, SnapshotInv, ApplyErrs, Claim
  <2>4. SnapshotInv'
    BY <1>0, <1>13 DEF SnapshotInv, ApplyErrs
  <2> QED
    BY <2>1, <2>2, <2>3, <2>4 DEF IInv
<1>14. ASSUME NEW p \in Procs, FailClaimed(p) PROVE IInv'
  <2>1. TypeOK'
    <3>1. cur[p].key \in Keys /\ cur[p].attempts \in Nat
      BY <1>0, <1>14 DEF TypeOK, RoundInv, FailClaimed, Claim, NoClaim
    <3>2. FailedRow(cur[p].key, cur[p].attempts) \in RowRec
      <4>1. row[cur[p].key] \in RowRec /\ cur[p].attempts + 1 \in Nat
        BY <1>0, <3>1 DEF TypeOK
      <4>2. (IF cur[p].attempts + 1 >= MaxAttempts THEN "dead" ELSE "pending") \in RowStatus
        BY DEF RowStatus
      <4> QED
        BY <4>1, <4>2 DEF FailedRow, RowRec
    <3>3. row' \in [Keys -> RowRec]
      BY <1>0, <1>14, <3>1, <3>2 DEF TypeOK, FailClaimed
    <3> QED
      BY <1>0, <1>14, <3>3 DEF TypeOK, FailClaimed, NextRow
  <2>2. ExactlyOnce' /\ MemoryBackedByLedger'
    BY <1>0, <1>14, KeyAssumption, NoneAssumption DEF TypeOK, ExactlyOnce, MemoryBackedByLedger, RoundInv, SnapshotInv, FailClaimed, FailedRow, NextRow
  <2>3. RoundInv'
    BY <1>0, <1>14, KeyAssumption, NoneAssumption DEF TypeOK, ExactlyOnce, MemoryBackedByLedger, RoundInv, SnapshotInv, FailClaimed, FailedRow, NextRow
  <2>4. SnapshotInv'
    BY <1>0, <1>14 DEF SnapshotInv, FailClaimed
  <2> QED
    BY <2>1, <2>2, <2>3, <2>4 DEF IInv
<1>15. ASSUME NEW p \in Procs, FailClaimedErrs(p) PROVE IInv'
  <2>1. TypeOK'
    BY <1>0, <1>15, KeyAssumption, ProcAssumption DEF TypeOK, RoundInv, FailClaimedErrs, NextRow, NoClaim
  <2>2. ExactlyOnce' /\ MemoryBackedByLedger'
    BY <1>0, <1>15 DEF ExactlyOnce, MemoryBackedByLedger, FailClaimedErrs
  <2>3. RoundInv'
    BY <1>0, <1>15, KeyAssumption, NoneAssumption DEF TypeOK, ExactlyOnce, MemoryBackedByLedger, RoundInv, SnapshotInv, FailClaimedErrs, NextRow
  <2>4. SnapshotInv'
    BY <1>0, <1>15 DEF SnapshotInv, FailClaimedErrs
  <2> QED
    BY <2>1, <2>2, <2>3, <2>4 DEF IInv
<1>16. ASSUME NEW p \in Procs, ResolveController(p) PROVE IInv'
  <2>1. TypeOK'
    BY <1>0, <1>16, KeyAssumption, ProcAssumption DEF TypeOK, RoundInv, ResolveController, LoadedCounts
  <2>2. ExactlyOnce' /\ MemoryBackedByLedger'
    BY <1>0, <1>16, KeyAssumption, NoneAssumption DEF TypeOK, ExactlyOnce, MemoryBackedByLedger, RoundInv, SnapshotInv, ResolveController, LoadedCounts
  <2>3. RoundInv'
    BY <1>0, <1>16, KeyAssumption, NoneAssumption DEF TypeOK, ExactlyOnce, MemoryBackedByLedger, RoundInv, SnapshotInv, ResolveController, LoadedCounts
  <2>4. SnapshotInv'
    BY <1>0, <1>16 DEF SnapshotInv, ResolveController
  <2> QED
    BY <2>1, <2>2, <2>3, <2>4 DEF IInv
<1>17. ASSUME NEW p \in Procs, ResolveFails(p) PROVE IInv'
  <2>1. TypeOK'
    BY <1>0, <1>17, KeyAssumption, ProcAssumption DEF TypeOK, RoundInv, ResolveFails, NextRow, NoClaim
  <2>2. ExactlyOnce' /\ MemoryBackedByLedger'
    BY <1>0, <1>17 DEF ExactlyOnce, MemoryBackedByLedger, ResolveFails
  <2>3. RoundInv'
    BY <1>0, <1>17, KeyAssumption, NoneAssumption DEF TypeOK, ExactlyOnce, MemoryBackedByLedger, RoundInv, SnapshotInv, ResolveFails, NextRow
  <2>4. SnapshotInv'
    BY <1>0, <1>17 DEF SnapshotInv, ResolveFails
  <2> QED
    BY <2>1, <2>2, <2>3, <2>4 DEF IInv
<1>18. ASSUME NEW p \in Procs, RecordFact(p) PROVE IInv'
  <2>1. TypeOK'
    BY <1>0, <1>18, KeyAssumption, ProcAssumption DEF TypeOK, RoundInv, RecordFact, NextRow, NoClaim
  <2>2. ExactlyOnce' /\ MemoryBackedByLedger'
    BY <1>0, <1>18, KeyAssumption, NoneAssumption DEF TypeOK, ExactlyOnce, MemoryBackedByLedger, RoundInv, SnapshotInv, RecordFact, NextRow
  <2>3. RoundInv'
    BY <1>0, <1>18, KeyAssumption, NoneAssumption DEF TypeOK, ExactlyOnce, MemoryBackedByLedger, RoundInv, SnapshotInv, RecordFact, NextRow
  <2>4. SnapshotInv'
    BY <1>0, <1>18 DEF SnapshotInv, RecordFact
  <2> QED
    BY <2>1, <2>2, <2>3, <2>4 DEF IInv
<1>19. ASSUME NEW p \in Procs, NEW a \in Accounts, Materialize(p, a) PROVE IInv'
  <2>1. TypeOK'
    BY <1>0, <1>19, KeyAssumption, ProcAssumption DEF TypeOK, RoundInv, Materialize, LoadedCounts
  <2>2. ExactlyOnce' /\ MemoryBackedByLedger'
    BY <1>0, <1>19, KeyAssumption, NoneAssumption DEF TypeOK, ExactlyOnce, MemoryBackedByLedger, RoundInv, SnapshotInv, Materialize, LoadedCounts
  <2>3. RoundInv'
    BY <1>0, <1>19, KeyAssumption, NoneAssumption DEF TypeOK, ExactlyOnce, MemoryBackedByLedger, RoundInv, SnapshotInv, Materialize, LoadedCounts
  <2>4. SnapshotInv'
    BY <1>0, <1>19 DEF SnapshotInv, Materialize
  <2> QED
    BY <2>1, <2>2, <2>3, <2>4 DEF IInv
<1>20. ASSUME NEW p \in Procs, NEW a \in Accounts, Evict(p, a) PROVE IInv'
  <2>1. TypeOK'
    <3>1. rec' \in [Procs -> RecRec]
      BY <1>0, <1>20 DEF TypeOK, Evict, DropController, NoRec, RecRec
    <3>2. mat' \in [Procs -> SUBSET Accounts] /\ cnt' \in [Procs -> [Keys -> Nat]]
      BY <1>0, <1>20 DEF TypeOK, Evict, DropController
    <3>3. /\ pc' \in [Procs -> {"idle", "claiming", "row", "failing", "committed", "resolved"}]
          /\ cur' \in [Procs -> Claim \cup {NoClaim}]
      BY <1>0, <1>20 DEF TypeOK, Evict, DropController, NextRow
    <3> QED
      BY <1>0, <1>20, <3>1, <3>2, <3>3, BoundAssumption DEF TypeOK, Evict
  <2>2. ExactlyOnce' /\ MemoryBackedByLedger'
    BY <1>0, <1>20, KeyAssumption, NoneAssumption DEF TypeOK, ExactlyOnce, MemoryBackedByLedger, RoundInv, SnapshotInv, Evict, DropController, NextRow, NoRec, NoClaim
  <2>3. RoundInv'
    BY <1>0, <1>20, KeyAssumption, NoneAssumption DEF TypeOK, ExactlyOnce, MemoryBackedByLedger, RoundInv, SnapshotInv, Evict, DropController, NextRow, NoRec, NoClaim
  <2>4. SnapshotInv'
    BY <1>0, <1>20 DEF TypeOK, ExactlyOnce, SnapshotInv, Evict, DropController, NextRow, NoRec, NoClaim
  <2> QED
    BY <2>1, <2>2, <2>3, <2>4 DEF IInv
<1>21. ASSUME NEW p \in Procs, NEW a \in Accounts, Handshake(p, a) PROVE IInv'
  <2>1. TypeOK'
    <3>1. rec' \in [Procs -> RecRec]
      BY <1>0, <1>21 DEF TypeOK, Handshake, DropController, NoRec, RecRec
    <3>2. mat' \in [Procs -> SUBSET Accounts] /\ cnt' \in [Procs -> [Keys -> Nat]]
      BY <1>0, <1>21 DEF TypeOK, Handshake, DropController
    <3>3. /\ pc' \in [Procs -> {"idle", "claiming", "row", "failing", "committed", "resolved"}]
          /\ cur' \in [Procs -> Claim \cup {NoClaim}]
      BY <1>0, <1>21 DEF TypeOK, Handshake, DropController, NextRow
    <3>4. owner' \in [Accounts -> Targets]
      BY <1>0, <1>21, ProcAssumption DEF TypeOK, Handshake
    <3> QED
      BY <1>0, <1>21, <3>1, <3>2, <3>3, <3>4, BoundAssumption DEF TypeOK, Handshake
  <2>2. ExactlyOnce' /\ MemoryBackedByLedger'
    BY <1>0, <1>21, KeyAssumption, NoneAssumption DEF TypeOK, ExactlyOnce, MemoryBackedByLedger, RoundInv, SnapshotInv, Handshake, DropController, NextRow, NoRec, NoClaim
  <2>3. RoundInv'
    BY <1>0, <1>21, KeyAssumption, NoneAssumption DEF TypeOK, ExactlyOnce, MemoryBackedByLedger, RoundInv, SnapshotInv, Handshake, DropController, NextRow, NoRec, NoClaim
  <2>4. SnapshotInv'
    BY <1>0, <1>21 DEF TypeOK, ExactlyOnce, SnapshotInv, Handshake, DropController, NextRow, NoRec, NoClaim
  <2> QED
    BY <2>1, <2>2, <2>3, <2>4 DEF IInv
<1>22. ASSUME NEW p \in Procs, NEW a \in Accounts, ReconcileStarts(p, a) PROVE IInv'
  <2>1. TypeOK'
    BY <1>0, <1>22, KeyAssumption, ProcAssumption DEF TypeOK, RoundInv, ReconcileStarts, RecRec
  <2>2. ExactlyOnce' /\ MemoryBackedByLedger'
    BY <1>0, <1>22 DEF ExactlyOnce, MemoryBackedByLedger, ReconcileStarts
  <2>3. RoundInv'
    BY <1>0, <1>22, KeyAssumption, NoneAssumption DEF TypeOK, ExactlyOnce, MemoryBackedByLedger, RoundInv, SnapshotInv, ReconcileStarts
  <2>4. SnapshotInv'
    BY <1>0, <1>22 DEF TypeOK, ExactlyOnce, SnapshotInv, ReconcileStarts
  <2> QED
    BY <2>1, <2>2, <2>3, <2>4 DEF IInv
<1>23. ASSUME NEW p \in Procs, ReconcileCompares(p) PROVE IInv'
  <2>1. TypeOK'
    BY <1>0, <1>23, KeyAssumption, ProcAssumption, ZenonT(30) DEF TypeOK, RoundInv, ReconcileCompares, NoRec, RecRec
  <2>2. ExactlyOnce' /\ MemoryBackedByLedger'
    BY <1>0, <1>23 DEF ExactlyOnce, MemoryBackedByLedger, ReconcileCompares
  <2>3. RoundInv'
    BY <1>0, <1>23, KeyAssumption, NoneAssumption DEF TypeOK, ExactlyOnce, MemoryBackedByLedger, RoundInv, SnapshotInv, ReconcileCompares, NoRec
  <2>4. SnapshotInv'
    BY <1>0, <1>23 DEF TypeOK, ExactlyOnce, SnapshotInv, ReconcileCompares, NoRec
  <2> QED
    BY <2>1, <2>2, <2>3, <2>4 DEF IInv
<1>24. ASSUME NEW p \in Procs, ReloadReads(p) PROVE IInv'
  <2>1. TypeOK'
    <3>1. [rec[p] EXCEPT !.pc = "snap", !.snap = ledger] \in RecRec
      BY <1>0, ZenonT(30) DEF TypeOK, RecRec
    <3>2. rec' = [rec EXCEPT ![p] = [rec[p] EXCEPT !.pc = "snap", !.snap = ledger]]
      BY <1>0, <1>24 DEF TypeOK, RecRec, ReloadReads
    <3>3. rec' \in [Procs -> RecRec]
      BY <1>0, <3>1, <3>2 DEF TypeOK
    <3> QED
      BY <1>0, <1>24, <3>3 DEF TypeOK, ReloadReads
  <2>2. ExactlyOnce' /\ MemoryBackedByLedger'
    BY <1>0, <1>24 DEF ExactlyOnce, MemoryBackedByLedger, ReloadReads
  <2>3. RoundInv'
    BY <1>0, <1>24, KeyAssumption, NoneAssumption DEF TypeOK, ExactlyOnce, MemoryBackedByLedger, RoundInv, SnapshotInv, ReloadReads
  <2>4. SnapshotInv'
    BY <1>0, <1>24 DEF TypeOK, ExactlyOnce, SnapshotInv, ReloadReads
  <2> QED
    BY <2>1, <2>2, <2>3, <2>4 DEF IInv
<1>25. ASSUME NEW p \in Procs, ReconcileFails(p) PROVE IInv'
  <2>1. TypeOK'
    BY <1>0, <1>25, KeyAssumption, ProcAssumption DEF TypeOK, RoundInv, ReconcileFails, NoRec, RecRec
  <2>2. ExactlyOnce' /\ MemoryBackedByLedger'
    BY <1>0, <1>25 DEF ExactlyOnce, MemoryBackedByLedger, ReconcileFails
  <2>3. RoundInv'
    BY <1>0, <1>25, KeyAssumption, NoneAssumption DEF TypeOK, ExactlyOnce, MemoryBackedByLedger, RoundInv, SnapshotInv, ReconcileFails, NoRec
  <2>4. SnapshotInv'
    BY <1>0, <1>25 DEF TypeOK, ExactlyOnce, SnapshotInv, ReconcileFails, NoRec
  <2> QED
    BY <2>1, <2>2, <2>3, <2>4 DEF IInv
<1>26. ASSUME NEW p \in Procs, ReloadResets(p) PROVE IInv'
  <2>1. TypeOK'
    BY <1>0, <1>26, KeyAssumption, ProcAssumption DEF TypeOK, RoundInv, ReloadResets, ReloadedCounts, NoRec, RecRec
  <2>2. ExactlyOnce' /\ MemoryBackedByLedger'
    <3>1. \A k \in Keys : rec[p].snap[k] \in Nat /\ rec[p].snap[k] <= ledger[k] /\ ledger[k] \in {0, 1}
      BY <1>0 DEF TypeOK, RecRec, SnapshotInv, ExactlyOnce
    <3>2. \A k \in Keys : cnt'[p][k] \in {cnt[p][k], rec[p].snap[k]}
      BY <1>0, <1>26 DEF TypeOK, ReloadResets, ReloadedCounts
    <3>3. \A o \in Procs \ {p} : cnt'[o] = cnt[o]
      BY <1>0, <1>26 DEF TypeOK, ReloadResets
    <3> QED
      BY <1>0, <1>26, <3>1, <3>2, <3>3 DEF ExactlyOnce, MemoryBackedByLedger, ReloadResets
  <2>3. RoundInv'
    BY <1>0, <1>26, KeyAssumption, NoneAssumption DEF TypeOK, ExactlyOnce, MemoryBackedByLedger, RoundInv, SnapshotInv, ReloadResets, ReloadedCounts, NoRec
  <2>4. SnapshotInv'
    BY <1>0, <1>26 DEF TypeOK, ExactlyOnce, SnapshotInv, ReloadResets, ReloadedCounts, NoRec
  <2> QED
    BY <2>1, <2>2, <2>3, <2>4 DEF IInv
<1>27. ASSUME NEW p \in Procs, Crash(p) PROVE IInv'
  <2>1. TypeOK'
    BY <1>0, <1>27, KeyAssumption, ProcAssumption DEF TypeOK, RoundInv, Crash, NoClaim, NoRec, RecRec
  <2>2. ExactlyOnce' /\ MemoryBackedByLedger'
    BY <1>0, <1>27, KeyAssumption, NoneAssumption DEF TypeOK, ExactlyOnce, MemoryBackedByLedger, RoundInv, SnapshotInv, Crash, NoRec
  <2>3. RoundInv'
    BY <1>0, <1>27, KeyAssumption, NoneAssumption DEF TypeOK, ExactlyOnce, MemoryBackedByLedger, RoundInv, SnapshotInv, Crash, NoRec
  <2>4. SnapshotInv'
    BY <1>0, <1>27 DEF TypeOK, ExactlyOnce, SnapshotInv, Crash, NoRec
  <2> QED
    BY <2>1, <2>2, <2>3, <2>4 DEF IInv
<1>28. ASSUME NEW p \in Procs, Restart(p) PROVE IInv'
  <2>1. TypeOK'
    <3>1. \A k \in Keys : [row[k] EXCEPT !.holder = None, !.expired = FALSE] \in RowRec
      BY <1>0, ClaimUpdate DEF TypeOK
    <3>2. row' \in [Keys -> RowRec]
      BY <1>0, <1>28, <3>1 DEF TypeOK, Restart
    <3> QED
      BY <1>0, <1>28, <3>2 DEF TypeOK, Restart
  <2>2. ExactlyOnce' /\ MemoryBackedByLedger'
    <3>1. \A k \in Keys :
            [row[k] EXCEPT !.holder = None, !.expired = FALSE].status = row[k].status
      BY <1>0 DEF TypeOK, RowRec
    <3>2. \A k \in Keys : row'[k].status = row[k].status
      BY <1>28, <3>1 DEF Restart
    <3> QED
      BY <1>0, <1>28, <3>2 DEF ExactlyOnce, MemoryBackedByLedger, Restart
  <2>3. RoundInv'
    BY <1>0, <1>28, KeyAssumption, NoneAssumption DEF TypeOK, ExactlyOnce, MemoryBackedByLedger, RoundInv, SnapshotInv, Restart
  <2>4. SnapshotInv'
    BY <1>0, <1>28 DEF SnapshotInv, Restart
  <2> QED
    BY <2>1, <2>2, <2>3, <2>4 DEF IInv
<1>29. ASSUME NEW k \in Keys, LeaseExpires(k) PROVE IInv'
  <2>1. TypeOK'
    <3>1. [row[k] EXCEPT !.expired = TRUE] \in RowRec
      BY <1>0, <1>29, ExpiryUpdate DEF TypeOK
    <3>2. row' \in [Keys -> RowRec]
      BY <1>0, <1>29, <3>1 DEF TypeOK, LeaseExpires
    <3> QED
      BY <1>0, <1>29, <3>2 DEF TypeOK, LeaseExpires
  <2>2. ExactlyOnce' /\ MemoryBackedByLedger'
    BY <1>0, <1>29, KeyAssumption, NoneAssumption DEF TypeOK, ExactlyOnce, MemoryBackedByLedger, RoundInv, SnapshotInv, LeaseExpires
  <2>3. RoundInv'
    BY <1>0, <1>29, KeyAssumption, NoneAssumption DEF TypeOK, ExactlyOnce, MemoryBackedByLedger, RoundInv, SnapshotInv, LeaseExpires
  <2>4. SnapshotInv'
    BY <1>0, <1>29 DEF SnapshotInv, LeaseExpires
  <2> QED
    BY <2>1, <2>2, <2>3, <2>4 DEF IInv
<1>31. ASSUME NEW p \in Procs, NEW k \in Keys, EnqueueAnswerLost(p, k) PROVE IInv'
  <2>1. TypeOK'
    <3>1. InsertedRow(k) \in RowRec
      BY <1>0, NewIdIsNat DEF TypeOK, InsertedRow, NoRow, RowStatus, RowRec
    <3>2. row' \in [Keys -> RowRec] /\ blocked' \in [Procs -> SUBSET Accounts]
      BY <1>0, <1>31, <3>1, KeyAssumption DEF TypeOK, EnqueueAnswerLost
    <3> QED
      BY <1>0, <1>31, <3>2 DEF TypeOK, EnqueueAnswerLost
  <2>2. ExactlyOnce' /\ MemoryBackedByLedger'
    BY <1>0, <1>31 DEF TypeOK, ExactlyOnce, MemoryBackedByLedger, EnqueueAnswerLost, InsertedRow, NoRow
  <2>3. RoundInv'
    BY <1>0, <1>31 DEF RoundInv, EnqueueAnswerLost
  <2>4. SnapshotInv'
    BY <1>0, <1>31 DEF SnapshotInv, EnqueueAnswerLost
  <2> QED
    BY <2>1, <2>2, <2>3, <2>4 DEF IInv
<1>32. ASSUME NEW p \in Procs, ClaimAnswerLost(p) PROVE IInv'
  <2>1. TypeOK'
    <3>1. \A k \in Keys : [row[k] EXCEPT !.holder = p, !.expired = FALSE] \in RowRec
      BY <1>0, ClaimUpdate DEF TypeOK
    <3>2. row' \in [Keys -> RowRec]
      BY <1>0, <1>32, <3>1 DEF TypeOK, ClaimAnswerLost, ClaimedRows
    <3> QED
      BY <1>0, <1>32, <3>2 DEF TypeOK, ClaimAnswerLost, EndRun
  <2>2. ExactlyOnce' /\ MemoryBackedByLedger'
    <3>1. \A k \in Keys :
            [row[k] EXCEPT !.holder = p, !.expired = FALSE].status = row[k].status
      BY <1>0 DEF TypeOK, RowRec
    <3>2. \A k \in Keys : row'[k].status = row[k].status
      BY <1>32, <3>1 DEF ClaimAnswerLost, ClaimedRows
    <3> QED
      BY <1>0, <1>32, <3>2 DEF ExactlyOnce, MemoryBackedByLedger, ClaimAnswerLost
  <2>3. RoundInv'
    BY <1>0, <1>32 DEF TypeOK, RoundInv, ClaimAnswerLost, EndRun
  <2>4. SnapshotInv'
    BY <1>0, <1>32 DEF SnapshotInv, ClaimAnswerLost
  <2> QED
    BY <2>1, <2>2, <2>3, <2>4 DEF IInv
<1>33. ASSUME NEW p \in Procs, RestartUnrecovered(p) PROVE IInv'
  <2>1. TypeOK'
    BY <1>0, <1>33 DEF TypeOK, RestartUnrecovered
  <2>2. ExactlyOnce' /\ MemoryBackedByLedger' /\ RoundInv' /\ SnapshotInv'
    BY <1>0, <1>33 DEF ExactlyOnce, MemoryBackedByLedger, RoundInv, SnapshotInv, RestartUnrecovered
  <2> QED
    BY <2>1, <2>2 DEF IInv
<1>30. CASE UNCHANGED vars
  BY <1>0, <1>30 DEF IInv, TypeOK, ExactlyOnce, MemoryBackedByLedger, RoundInv, SnapshotInv, vars
<1> QED
  BY <1>1, <1>2, <1>3, <1>4, <1>5, <1>6, <1>7, <1>8, <1>9, <1>10, <1>11,
     <1>12, <1>13, <1>14, <1>15, <1>16, <1>17, <1>18, <1>19, <1>20, <1>21,
     <1>22, <1>23, <1>24, <1>25, <1>26, <1>27, <1>28, <1>29, <1>30,
     <1>31, <1>32, <1>33
     DEF Next, Round, Row, Reconcile, Controllers

\* The strengthened invariant holds in every reachable state.
THEOREM Invariance == Spec => []IInv
<1>1. Init => IInv
  BY InitIInv
<1>2. IInv /\ [Next]_vars => IInv'
  BY NextIInv
<1> QED
  BY <1>1, <1>2, PTL DEF Spec

\* Type correctness of the funnel.
THEOREM TypeCorrect == Spec => []TypeOK
<1>1. IInv => TypeOK
  BY DEF IInv
<1> QED
  BY <1>1, Invariance, PTL

\* applyClaimed and failClaimed account every fact exactly once, for any number
\* of processes that share the outbox and any pattern of expiring claims.
THEOREM AccountedExactlyOnce == Spec => []ExactlyOnce
<1>1. IInv => ExactlyOnce
  BY DEF IInv
<1> QED
  BY <1>1, Invariance, PTL

\* Memory never counts a fact that is not in the ledger, and over-counts a
\* fact by at most one.
THEOREM MemoryIsBacked == Spec => []MemoryBackedByLedger
<1>1. IInv => MemoryBackedByLedger
  BY DEF IInv
<1> QED
  BY <1>1, Invariance, PTL

\* A row that is applied or dead is never written again.
THEOREM TerminalRowsAreStable == Spec => TerminalStable
<1> DEFINE Stable == \A k \in Keys : row[k].status \in {"applied", "dead"} => row'[k] = row[k]
<1>1. ASSUME IInv, [Next]_vars PROVE Stable
  <2>0. TypeOK /\ RoundInv
    BY <1>1 DEF IInv
  <2>1. ASSUME NEW p \in Procs, NEW k \in Keys, EnqueueSucceeds(p, k) \/ EnqueueAnswerLost(p, k)
        PROVE Stable
    BY <2>0, <2>1 DEF TypeOK, EnqueueSucceeds, EnqueueAnswerLost, InsertedRow
  <2>2. ASSUME NEW p \in Procs, ClaimBatch(p) \/ ClaimAnswerLost(p) PROVE Stable
    BY <2>0, <2>2 DEF TypeOK, ClaimBatch, ClaimAnswerLost, ClaimedRows, Candidates, ClaimableBy, Claimable
  <2>3. ASSUME NEW p \in Procs, NEW c \in batch[p], ApplyCommits(p, c) PROVE Stable
    BY <2>0, <2>3 DEF TypeOK, ApplyCommits, StillClaimed, Claim
  <2>4. ASSUME NEW p \in Procs, FailClaimed(p) PROVE Stable
    BY <2>0, <2>4 DEF TypeOK, RoundInv, FailClaimed, FailedRow
  <2>5. ASSUME NEW p \in Procs, Restart(p) PROVE Stable
    BY <2>0, <2>5 DEF TypeOK, Restart
  <2>6. ASSUME NEW k \in Keys, LeaseExpires(k) PROVE Stable
    BY <2>0, <2>6 DEF TypeOK, LeaseExpires
  <2>7. CASE UNCHANGED row
    BY <2>7
  <2>8. ASSUME NEW p \in Procs, NEW k \in Keys,
               EnqueueFails(p, k) \/ RecordApplies(p, k)
        PROVE UNCHANGED row
    BY <2>8 DEF EnqueueFails, RecordApplies
  <2>9. ASSUME NEW p \in Procs, NEW a \in Accounts,
               ClearBlock(p, a) \/ Materialize(p, a) \/ Evict(p, a) \/ Handshake(p, a)
               \/ ReconcileStarts(p, a)
        PROVE UNCHANGED row
    BY <2>9 DEF ClearBlock, Materialize, Evict, Handshake, ReconcileStarts
  <2>10. ASSUME NEW p \in Procs,
                Poll(p) \/ BatchDone(p) \/ QueuedContinues(p) \/ ClaimFails(p)
                \/ FailClaimedErrs(p) \/ ResolveController(p) \/ ResolveFails(p)
                \/ RecordFact(p)
         PROVE UNCHANGED row
    BY <2>10 DEF Poll, BatchDone, QueuedContinues, ClaimFails, FailClaimedErrs,
                 ResolveController, ResolveFails, RecordFact
  <2>11. ASSUME NEW p \in Procs,
                ReconcileCompares(p) \/ ReloadReads(p) \/ ReloadResets(p)
                \/ ReconcileFails(p) \/ Crash(p) \/ RestartUnrecovered(p)
         PROVE UNCHANGED row
    BY <2>11 DEF ReconcileCompares, ReloadReads, ReloadResets, ReconcileFails, Crash,
                 RestartUnrecovered
  <2>12. ASSUME NEW p \in Procs, NEW c \in batch[p],
                ApplyRollsBack(p, c) \/ ApplyErrs(p, c)
         PROVE UNCHANGED row
    BY <2>12 DEF ApplyRollsBack, ApplyErrs
  <2>13. CASE UNCHANGED vars
    BY <2>13 DEF vars
  <2> QED
    BY <1>1, <2>1, <2>2, <2>3, <2>4, <2>5, <2>6, <2>7, <2>8, <2>9, <2>10, <2>11,
       <2>12, <2>13
       DEF Next, Round, Row, Reconcile, Controllers, Enqueue, RecordEnqueues
<1>2. IInv /\ [Next]_vars => [Stable]_vars
  BY <1>1
<1> QED
  BY <1>2, Invariance, PTL DEF Spec, TerminalStable
=============================================================================
