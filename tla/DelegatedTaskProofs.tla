------------------------- MODULE DelegatedTaskProofs -------------------------
(***************************************************************************)
(* Proofs about DelegatedTask for every set of tasks, ticks and requests   *)
(* and every goal and budget.  The inductive invariant says what a tick    *)
(* may rely on between two awaits: while it has the admission turn nobody  *)
(* else plans, starts or withdraws an attempt; from the start of its       *)
(* attempt to the answer of the executor the attempt is its own; and the   *)
(* unique index on the target key keeps the attempts within the budget.    *)
(* From it follow the safety properties of the module and that it          *)
(* implements TaskContract.                                                *)
(***************************************************************************)
EXTENDS DelegatedTask, FiniteSetTheorems, TLAPS

TaskRec == [status : Status, paused : BOOLEAN, cancel : BOOLEAN,
            holder : Slots \cup {None}, expired : BOOLEAN,
            reconcile : BOOLEAN, succ : Nat, count : Nat]

\* Where a tick may be between two awaits.
Places == {"idle", "expire", "expiring", "claimed", "plan", "start", "dispatch", "mark", "exec",
           "approval", "waiting", "finish", "settled", "complete", "completing", "release", "releasing"}
Endings == {"partially_completed", "cancelled", "failed", "completed", "waiting_approval"}
Settlements == Results \cup {"recovered", "refused", "cancelled"}
Outcomes == Settlements \cup Status \cup {"still_waiting", None}
Progress == [succ : Nat, count : Nat]
SlotRec == [pc : Places, t : Tasks \cup {None}, n : Nat, res : Outcomes,
            list : SUBSET [t : Tasks, succ : Nat], seen : Progress]
OpRec == [kind : {"pause", "resume", "cancel", "complete", None}, t : Tasks \cup {None},
          st : Status \cup {None}, reconcile : BOOLEAN]

\* Beyond its type, a tick at work has a task, and carries the result its place calls for.
SlotOK(r) ==
    /\ r.pc \notin {"idle", "expire"} => r.t \in Tasks
    /\ r.pc = "expiring" => r.res \in {"partially_completed", "failed"}
    /\ r.pc = "finish" => r.res \in Settlements
    /\ r.pc = "settled" => r.res \in {"success", "closed", "fatal"}
    /\ r.pc \in {"complete", "completing"} => r.res \in Endings
    /\ r.pc \in {"release", "releasing"} => r.res \in {"deferred", "queued"}

\* A request carries a status its write may give the task; none makes it completed.
OpOK(r) ==
    r # NoOp =>
      /\ r.t \in Tasks /\ r.kind \in {"pause", "resume", "cancel", "complete"}
      /\ r.kind = "pause" => r.st \in Status \ Terminal
      /\ r.kind = "complete" => r.st \in {"partially_completed", "cancelled"}

TypeInv ==
    /\ task \in [Tasks -> TaskRec]
    /\ att = [t \in Tasks |-> att[t]] /\ key = [t \in Tasks |-> key[t]]
    /\ \A t \in Tasks : att[t] \in [Ordinals(t) -> AttemptStatus] /\ key[t] \in [Ordinals(t) -> Nat]
    /\ due \subseteq Tasks /\ buried \subseteq Tasks /\ fixed \subseteq Tasks
    /\ up \in BOOLEAN /\ adm \in Slots \cup {None}
    /\ slot \in [Slots -> SlotRec] /\ \A s \in Slots : SlotOK(slot[s])
    /\ op \in [Operators -> OpRec] /\ \A o \in Operators : OpOK(op[o])
    /\ ops \in Nat /\ crashes \in Nat

\* The admission turn: from the list of what is overdue to the start of the executor, and
\* while an attempt left over is withdrawn, a tick is alone.
InTurn(r) ==
    \/ r.pc \in {"expire", "expiring", "claimed", "plan", "start", "dispatch", "mark"}
    \/ r.pc = "finish" /\ r.res = "recovered"
TurnInv == \A s \in Slots : InTurn(slot[s]) => adm = s

\* An attempt belongs to one tick from its start until its executor has answered that it has
\* started nothing; meanwhile nobody else withdraws it.
Owns(r) == r.pc \in {"dispatch", "mark", "exec"} \/ (r.pc = "finish" /\ r.res = "not_started")
OwnerInv ==
    /\ \A s \in Slots : Owns(slot[s]) =>
          /\ slot[s].n \in Ordinals(slot[s].t)
          /\ att[slot[s].t][slot[s].n] # "none"
          /\ slot[s].pc # "dispatch" => att[slot[s].t][slot[s].n] # "prepared"
    /\ \A s, q \in Slots : s # q /\ Owns(slot[s]) /\ Owns(slot[q]) =>
          slot[s].t # slot[q].t \/ slot[s].n # slot[q].n

\* What a tick has made sure of in its turn stays so while the turn lasts.
PlanInv ==
    \A s \in Slots :
        /\ slot[s].pc = "start" => /\ Unsettled(slot[s].t) = {}
                                   /\ slot[s].seen.count < MaxAttempts[slot[s].t]
        /\ slot[s].pc = "finish" /\ slot[s].res = "recovered" =>
              slot[s].n \in Ordinals(slot[s].t) /\ att[slot[s].t][slot[s].n] # "dispatched"

\* The unique index keeps the attempts of a task within its budget: their target keys are
\* distinct, and drawn from no more values than the budget has attempts.
Keys(t) == IF t \in fixed THEN {0} ELSE 1..MaxAttempts[t]
KeyInv ==
    \A t \in Tasks : \A n \in Ordinals(t) : att[t][n] # "none" =>
        /\ key[t][n] \in Keys(t)
        /\ \A m \in Ordinals(t) : m # n /\ att[t][m] # "none" => key[t][m] # key[t][n]

OneInAir == \A t \in Tasks : \A m, n \in Unsettled(t) : m = n

\* Goals are reached before they are reported.
EarnedInv ==
    /\ CompletedIsEarned
    /\ \A s \in Slots : slot[s].pc \in {"complete", "completing"} /\ slot[s].res = "completed" =>
          task[slot[s].t].succ >= Target[slot[s].t]

AttInv == OwnerInv /\ PlanInv /\ KeyInv /\ OneInAir
IInv == TypeInv /\ TurnInv /\ AttInv /\ CountersMatchAttempts /\ EarnedInv

\* The ordinals of a task are finitely many.
LEMMA OrdinalsFinite ==
    ASSUME NEW t \in Tasks PROVE IsFiniteSet(Ordinals(t)) /\ Ordinals(t) \subseteq Nat
<1>1. MaxAttempts[t] + 1 \in Int /\ 1 \in Int
  BY TaskAssumption
<1>2. IsFiniteSet(1..(MaxAttempts[t] + 1))
  BY <1>1, FS_Interval
<1> QED BY <1>1, <1>2 DEF Ordinals

-----------------------------------------------------------------------------
(* The initial state *)

LEMMA InitIInv == Init => IInv
<1> SUFFICES ASSUME Init PROVE IInv
  OBVIOUS
<1> USE TaskAssumption DEF Init
<1>1. TypeInv
  <2>1. task \in [Tasks -> TaskRec]
    BY DEF NewTask, TaskRec, Status
  <2>2. /\ att = [t \in Tasks |-> att[t]] /\ key = [t \in Tasks |-> key[t]]
        /\ \A t \in Tasks : att[t] \in [Ordinals(t) -> AttemptStatus] /\ key[t] \in [Ordinals(t) -> Nat]
    BY DEF AttemptStatus
  <2>3. slot \in [Slots -> SlotRec] /\ \A s \in Slots : SlotOK(slot[s])
    BY DEF IdleSlot, NothingSeen, SlotRec, SlotOK, Places, Outcomes, Progress
  <2>4. op \in [Operators -> OpRec] /\ \A o \in Operators : OpOK(op[o])
    BY DEF NoOp, OpRec, OpOK
  <2> QED BY <2>1, <2>2, <2>3, <2>4 DEF TypeInv
<1>2. \A s \in Slots : slot[s].pc = "idle"
  BY DEF IdleSlot
<1>3. \A t \in Tasks : \A n \in Ordinals(t) : att[t][n] = "none"
  OBVIOUS
<1>4. TurnInv /\ AttInv /\ EarnedInv
  BY <1>2, <1>3 DEF TurnInv, InTurn, AttInv, OwnerInv, Owns, PlanInv, KeyInv, OneInAir, Unsettled,
                    EarnedInv, CompletedIsEarned, NewTask
<1>5. CountersMatchAttempts
  <2> SUFFICES ASSUME NEW t \in Tasks
               PROVE  /\ task[t].succ = Cardinality({n \in Ordinals(t) : att[t][n] = "succeeded"})
                      /\ task[t].count <= Cardinality({n \in Ordinals(t) : att[t][n] \notin {"none", "prepared"}})
    BY DEF CountersMatchAttempts
  <2>1. /\ {n \in Ordinals(t) : att[t][n] = "succeeded"} = {}
        /\ {n \in Ordinals(t) : att[t][n] \notin {"none", "prepared"}} = {}
    BY <1>3
  <2>2. task[t].succ = 0 /\ task[t].count = 0
    BY DEF NewTask
  <2>3. /\ Cardinality({n \in Ordinals(t) : att[t][n] = "succeeded"}) = 0
        /\ Cardinality({n \in Ordinals(t) : att[t][n] \notin {"none", "prepared"}}) = 0
    BY <2>1, FS_EmptySet, Zenon
  <2> HIDE DEF Init
  <2> QED BY <2>2, <2>3
<1> QED BY <1>1, <1>4, <1>5 DEF IInv

-----------------------------------------------------------------------------
(* Steps that leave the attempts alone *)

\* The step moves the tick of s alone.
Moved(s) ==
    /\ slot' \in [Slots -> SlotRec] /\ SlotOK(slot'[s])
    /\ \A q \in Slots \ {s} : slot'[q] = slot[q]

\* The rows keep their progress, and none becomes completed before its goal.
RowsKept ==
    /\ task' \in [Tasks -> TaskRec]
    /\ \A t \in Tasks :
         /\ task'[t].succ = task[t].succ /\ task'[t].count = task[t].count
         /\ task'[t].status = "completed" =>
              task[t].status = "completed" \/ task[t].succ >= Target[t]

\* What a step of the tick s must respect when it does not touch the attempts: it may take or give
\* back the turn, it starts and owns nothing new, and what it goes on to has been made sure of.
Calm(s) ==
    /\ Moved(s) /\ UNCHANGED <<att, key>>
    /\ adm' = adm \/ (adm = None /\ adm' = s) \/ (adm = s /\ adm' = None)
    /\ InTurn(slot'[s]) => adm' = s
    /\ Owns(slot'[s]) => /\ Owns(slot[s]) /\ slot[s].pc # "dispatch"
                         /\ slot'[s].t = slot[s].t /\ slot'[s].n = slot[s].n
    /\ slot'[s].pc = "start" => /\ Unsettled(slot'[s].t) = {}
                                /\ slot'[s].seen.count < MaxAttempts[slot'[s].t]
    /\ slot'[s].pc = "finish" /\ slot'[s].res = "recovered" =>
          slot'[s].n \in Ordinals(slot'[s].t) /\ att[slot'[s].t][slot'[s].n] # "dispatched"
    /\ slot'[s].pc \in {"complete", "completing"} /\ slot'[s].res = "completed" =>
          task[slot'[s].t].succ >= Target[slot'[s].t]

\* Such a step keeps what a tick may rely on.
LEMMA CalmKeeps ==
    ASSUME TypeInv, TurnInv, AttInv, NEW s \in Slots, Calm(s), UNCHANGED fixed
    PROVE  TurnInv' /\ AttInv'
<1> USE TaskAssumption
<1>1. att' = att /\ key' = key /\ \A q \in Slots : q # s => slot'[q] = slot[q]
  BY DEF Calm, Moved
<1>2. TurnInv'
  BY <1>1 DEF Calm, TurnInv
<1>3. OwnerInv'
  BY <1>1 DEF Calm, AttInv, OwnerInv, Ordinals, Owns
<1>4. PlanInv'
  BY <1>1 DEF Calm, AttInv, PlanInv, Unsettled, Ordinals
<1>5. KeyInv' /\ OneInAir'
  BY <1>1 DEF AttInv, KeyInv, OneInAir, Unsettled, Ordinals, Keys
<1> QED BY <1>2, <1>3, <1>4, <1>5 DEF AttInv

\* A goal that was reached stays reached.
LEMMA CalmEarned ==
    ASSUME TypeInv, EarnedInv, CountersMatchAttempts, NEW s \in Slots, Calm(s), RowsKept
    PROVE  EarnedInv' /\ CountersMatchAttempts'
<1>1. att' = att /\ \A q \in Slots : q # s => slot'[q] = slot[q]
  BY DEF Calm, Moved
<1>2. \A q \in Slots : slot'[q].pc \in {"complete", "completing"} => slot'[q].t \in Tasks
  BY <1>1 DEF Calm, Moved, TypeInv, SlotOK
<1>3. CompletedIsEarned'
  BY DEF RowsKept, EarnedInv, CompletedIsEarned
<1>4. ASSUME NEW q \in Slots, slot'[q].pc \in {"complete", "completing"}, slot'[q].res = "completed"
      PROVE  task'[slot'[q].t].succ >= Target[slot'[q].t]
  <2>1. task[slot'[q].t].succ >= Target[slot'[q].t]
    BY <1>1, <1>4 DEF Calm, EarnedInv
  <2> QED BY <1>2, <1>4, <2>1 DEF RowsKept
<1>5. CountersMatchAttempts'
  BY <1>1 DEF RowsKept, CountersMatchAttempts, Ordinals
<1> QED BY <1>3, <1>4, <1>5 DEF EarnedInv

\* When the process dies only the tables are left.
LEMMA DeathKeeps ==
    ASSUME IInv, ProcessDies, UNCHANGED <<task, att, key, due, buried, fixed, ops>>, crashes' \in Nat
    PROVE  IInv'
<1> USE TaskAssumption
<1>1. slot' \in [Slots -> SlotRec] /\ op' \in [Operators -> OpRec]
  BY DEF ProcessDies, IdleSlot, NothingSeen, SlotRec, Places, Outcomes, Progress, NoOp, OpRec
<1>2. \A s \in Slots : slot'[s].pc = "idle"
  BY DEF ProcessDies, IdleSlot
<1>3. TypeInv'
  <2>1. \A s \in Slots : SlotOK(slot'[s])
    BY <1>2 DEF SlotOK
  <2>2. \A o \in Operators : OpOK(op'[o])
    BY DEF ProcessDies, OpOK
  <2> QED BY <1>1, <2>1, <2>2 DEF IInv, TypeInv, ProcessDies, Ordinals
<1>4. TurnInv' /\ AttInv' /\ EarnedInv'
  BY <1>2 DEF IInv, TurnInv, InTurn, AttInv, OwnerInv, Owns, PlanInv, KeyInv, Keys, OneInAir, Unsettled,
              Ordinals, EarnedInv, CompletedIsEarned
<1>5. CountersMatchAttempts'
  BY DEF IInv, CountersMatchAttempts, Ordinals
<1> QED BY <1>3, <1>4, <1>5 DEF IInv

\* On to the next await.
LEMMA GotoFacts ==
    ASSUME TypeInv, NEW s \in Slots, NEW p \in Places, NEW n \in Nat, NEW r \in Outcomes,
           NEW w \in Progress, GotoSeeing(s, p, n, r, w)
    PROVE  /\ slot' \in [Slots -> SlotRec] /\ \A q \in Slots \ {s} : slot'[q] = slot[q]
           /\ slot'[s].pc = p /\ slot'[s].t = slot[s].t /\ slot'[s].n = n /\ slot'[s].res = r
           /\ slot'[s].seen = w
<1>1. slot[s] \in SlotRec
  BY DEF TypeInv
<1>2. slot' = [slot EXCEPT ![s] = [slot[s] EXCEPT !.pc = p, !.n = n, !.res = r, !.seen = w]]
  BY DEF GotoSeeing, TypeInv
<1>3. [slot[s] EXCEPT !.pc = p, !.n = n, !.res = r, !.seen = w] \in SlotRec
  BY <1>1 DEF SlotRec
<1> QED BY <1>1, <1>2, <1>3 DEF TypeInv, SlotRec

LEMMA GotoForgets ==
    ASSUME TypeInv, NEW s \in Slots, NEW p \in Places, NEW n \in Nat, NEW r \in Outcomes, Goto(s, p, n, r)
    PROVE  /\ slot' \in [Slots -> SlotRec] /\ \A q \in Slots \ {s} : slot'[q] = slot[q]
           /\ slot'[s].pc = p /\ slot'[s].t = slot[s].t /\ slot'[s].n = n /\ slot'[s].res = r
<1>1. NothingSeen \in Progress
  BY DEF NothingSeen, Progress
<1>2. slot[s] \in SlotRec
  BY DEF TypeInv
<1>3. slot' = [slot EXCEPT ![s] = [slot[s] EXCEPT !.pc = p, !.n = n, !.res = r, !.seen = NothingSeen]]
  BY DEF Goto, GotoSeeing, TypeInv
<1>4. [slot[s] EXCEPT !.pc = p, !.n = n, !.res = r, !.seen = NothingSeen] \in SlotRec
  BY <1>1, <1>2 DEF SlotRec
<1> QED BY <1>2, <1>3, <1>4 DEF TypeInv, SlotRec

\* The end of a tick owns nothing and gives the turn back.
LEMMA LeaveCalm ==
    ASSUME TypeInv, NEW s \in Slots, Leave(s), UNCHANGED <<att, key>>
    PROVE  Calm(s) /\ adm' \in Slots \cup {None} /\ slot'[s].pc = "idle"
<1>1. IdleSlot \in SlotRec /\ SlotOK(IdleSlot) /\ IdleSlot.pc = "idle"
  BY DEF IdleSlot, NothingSeen, SlotRec, Places, Outcomes, Progress, SlotOK
<1>2. slot' \in [Slots -> SlotRec] /\ slot'[s] = IdleSlot /\ \A q \in Slots \ {s} : slot'[q] = slot[q]
  BY <1>1 DEF Leave, TypeInv
<1> QED BY <1>1, <1>2 DEF Calm, Moved, Leave, InTurn, Owns, TypeInv

\* An ended or released row: its status is the one given, its progress stays.
LEMMA CompletedRow ==
    ASSUME NEW r \in TaskRec, NEW st \in Status
    PROVE  /\ CompletedTask(r, st) \in TaskRec /\ CompletedTask(r, st).status = st
           /\ CompletedTask(r, st).succ = r.succ /\ CompletedTask(r, st).count = r.count
BY DEF CompletedTask, TaskRec

\* Writing one row that keeps its progress.
LEMMA RowStep ==
    ASSUME TypeInv, NEW t \in Tasks, NEW r \in TaskRec, task' = [task EXCEPT ![t] = r],
           r.succ = task[t].succ, r.count = task[t].count,
           r.status = "completed" => task[t].status = "completed" \/ task[t].succ >= Target[t]
    PROVE  RowsKept
BY DEF RowsKept, TypeInv

LEMMA CalmIInv ==
    ASSUME IInv, NEW s \in Slots, Calm(s), RowsKept, UNCHANGED <<due, buried, fixed, up, op, ops, crashes>>
    PROVE  IInv'
<1>1. TurnInv' /\ AttInv' /\ EarnedInv' /\ CountersMatchAttempts'
  BY CalmKeeps, CalmEarned DEF IInv
<1>2. \A q \in Slots : SlotOK(slot'[q])
  BY DEF IInv, TypeInv, Calm, Moved
<1>3. TypeInv'
  BY <1>2, TaskAssumption DEF IInv, TypeInv, Calm, Moved, RowsKept, Ordinals
<1> QED BY <1>1, <1>3 DEF IInv

\* What follows a finished attempt: its slot goes on, owns nothing more and is in no turn.
LEMMA AfterFinishFacts ==
    ASSUME TypeInv, NEW s \in Slots, slot[s].pc = "finish", NEW succ \in Nat, AfterFinish(s, succ)
    PROVE  /\ Moved(s) /\ slot'[s].pc \in {"settled", "release", "complete"}
           /\ slot'[s].pc = "complete" => slot'[s].res # "completed"
<1>1. slot[s].res \in Settlements /\ slot[s].n \in Nat /\ slot[s].t \in Tasks
  BY DEF TypeInv, SlotOK, SlotRec
<1>2. Honest(succ, "cancelled") \in {"partially_completed", "cancelled"}
      /\ Honest(succ, "failed") \in {"partially_completed", "failed"}
  BY DEF Honest
<1> USE DEF Outcomes, Status, Terminal, Settlements, Results, Places
<1>3. CASE slot[s].res \in {"success", "closed", "fatal"}
  <2>1. Goto(s, "settled", slot[s].n, slot[s].res)
    BY <1>3 DEF AfterFinish
  <2> QED BY <1>1, <1>3, <2>1, GotoForgets DEF Moved, SlotOK
<1>4. CASE slot[s].res \in {"deferred", "not_started"}
  <2>1. Goto(s, "release", 0, "deferred")
    BY <1>4 DEF AfterFinish
  <2> QED BY <1>1, <2>1, GotoForgets DEF Moved, SlotOK
<1>5. CASE slot[s].res = "recovered"
  <2>1. Goto(s, "release", 0, "queued")
    BY <1>5 DEF AfterFinish
  <2> QED BY <1>1, <2>1, GotoForgets DEF Moved, SlotOK
<1>6. CASE slot[s].res = "waiting"
  <2>1. Goto(s, "complete", 0, "waiting_approval")
    BY <1>6 DEF AfterFinish
  <2> QED BY <1>1, <2>1, GotoForgets DEF Moved, SlotOK, Endings
<1>7. CASE slot[s].res \in {"cancelled", "unknown", "refused"}
  <2>1. \/ Goto(s, "complete", 0, "cancelled") \/ Goto(s, "complete", 0, "failed")
        \/ Goto(s, "complete", 0, "partially_completed")
    BY <1>2, <1>7 DEF AfterFinish
  <2>2. CASE Goto(s, "complete", 0, "cancelled")
    BY <1>1, <2>2, GotoForgets DEF Moved, SlotOK, Endings
  <2>3. CASE Goto(s, "complete", 0, "failed")
    BY <1>1, <2>3, GotoForgets DEF Moved, SlotOK, Endings
  <2>4. CASE Goto(s, "complete", 0, "partially_completed")
    BY <1>1, <2>4, GotoForgets DEF Moved, SlotOK, Endings
  <2> QED BY <2>1, <2>2, <2>3, <2>4
<1> QED BY <1>1, <1>3, <1>4, <1>5, <1>6, <1>7

-----------------------------------------------------------------------------
(* A tick that begins, ends, or looks for a task *)

\* Listing, ending and claiming: the attempts stay, the turn is the tick's.
LEMMA TickCalm ==
    ASSUME IInv, NEW s \in Slots, Tick(s)
    PROVE  Calm(s) /\ RowsKept
<1> USE TaskAssumption
<1>0. TypeInv /\ slot[s] \in SlotRec /\ SlotOK(slot[s]) /\ TurnInv
  BY DEF IInv, TypeInv
<1>1. CASE TickBegins(s)
  <2> DEFINE l == {[t |-> t, succ |-> task[t].succ] : t \in {u \in Tasks : Listed(u) /\ Overdue(u)}}
             r == [IdleSlot EXCEPT !.pc = "expire", !.list = l]
  <2>1. l \in SUBSET [t : Tasks, succ : Nat]
    BY <1>0 DEF TypeInv, TaskRec
  <2>2. r.pc = "expire" /\ r \in SlotRec
    BY <2>1 DEF IdleSlot, NothingSeen, SlotRec, Places, Outcomes, Progress
  <2>3. slot' = [slot EXCEPT ![s] = r] /\ adm' = s /\ adm = None /\ UNCHANGED <<task, att, key>>
    BY <1>1 DEF TickBegins
  <2> HIDE DEF r
  <2>4. slot' \in [Slots -> SlotRec] /\ slot'[s] = r /\ \A q \in Slots \ {s} : slot'[q] = slot[q]
    BY <1>0, <2>2, <2>3 DEF TypeInv
  <2>5. RowsKept
    BY <1>0, <2>3 DEF RowsKept, TypeInv
  <2> QED BY <2>2, <2>3, <2>4, <2>5 DEF Calm, Moved, SlotOK, InTurn, Owns
<1>2. CASE ExpireReads(s)
  <2>1. PICK d \in slot[s].list :
          slot' = [slot EXCEPT ![s] = [slot[s] EXCEPT
                     !.list = @ \ {d},
                     !.pc = IF task[d.t].status \in Terminal THEN "expire" ELSE "expiring",
                     !.t = IF task[d.t].status \in Terminal THEN None ELSE d.t,
                     !.res = IF task[d.t].status \in Terminal THEN None ELSE Honest(d.succ, "failed")]]
    <3>1. PICK d \in slot[s].list :
            slot' = [slot EXCEPT ![s].list = @ \ {d},
                                 ![s].pc = IF task[d.t].status \in Terminal THEN "expire" ELSE "expiring",
                                 ![s].t = IF task[d.t].status \in Terminal THEN None ELSE d.t,
                                 ![s].res = IF task[d.t].status \in Terminal THEN None ELSE Honest(d.succ, "failed")]
      BY <1>2, ZenonT(30) DEF ExpireReads
    <3>2. slot \in [Slots -> SlotRec]
      BY <1>0 DEF TypeInv
    <3> QED BY ONLY s \in Slots, <3>1, <3>2, ZenonT(30)
  <2>2. d.t \in Tasks /\ slot[s].list \ {d} \in SUBSET [t : Tasks, succ : Nat]
    BY <1>0 DEF SlotRec
  <2>3. Honest(d.succ, "failed") \in {"partially_completed", "failed"}
    BY DEF Honest
  <2>4. slot'[s] = [slot[s] EXCEPT
                     !.list = @ \ {d},
                     !.pc = IF task[d.t].status \in Terminal THEN "expire" ELSE "expiring",
                     !.t = IF task[d.t].status \in Terminal THEN None ELSE d.t,
                     !.res = IF task[d.t].status \in Terminal THEN None ELSE Honest(d.succ, "failed")]
        /\ \A q \in Slots \ {s} : slot'[q] = slot[q]
    BY <1>0, <2>1 DEF TypeInv
  <2>5. slot'[s] \in SlotRec
    BY <1>0, <2>2, <2>3, <2>4 DEF SlotRec, Places, Outcomes, Status, Terminal
  <2>6. slot'[s].pc \in {"expire", "expiring"} /\ SlotOK(slot'[s])
    BY <1>0, <2>2, <2>3, <2>4 DEF SlotRec, SlotOK
  <2>7. slot' \in [Slots -> SlotRec]
    BY <1>0, <2>1, <2>4, <2>5 DEF TypeInv
  <2>8. adm' = s
    BY <1>0, <1>2 DEF ExpireReads, TurnInv, InTurn
  <2>9. RowsKept /\ UNCHANGED <<att, key, adm>>
    BY <1>0, <1>2 DEF RowsKept, TypeInv, ExpireReads
  <2> QED BY <2>4, <2>6, <2>7, <2>8, <2>9 DEF Calm, Moved, InTurn, Owns
<1>3. CASE ExpireWrites(s)
  <2>1. /\ slot[s].t \in Tasks /\ slot[s].res \in {"partially_completed", "failed"} /\ adm = s
        /\ task' = [task EXCEPT ![slot[s].t] = CompletedTask(task[slot[s].t], slot[s].res)]
        /\ slot' = [slot EXCEPT ![s] = [slot[s] EXCEPT !.pc = "expire", !.t = None, !.res = None]]
        /\ UNCHANGED <<att, key, adm>>
    BY <1>0, <1>3 DEF ExpireWrites, SlotOK, TurnInv, InTurn, TypeInv
  <2>2. task[slot[s].t] \in TaskRec /\ slot[s].res \in Status
    BY <1>0, <2>1 DEF TypeInv, Status, Terminal
  <2>3. RowsKept
    BY <1>0, <2>1, <2>2, CompletedRow, RowStep
  <2>4. [slot[s] EXCEPT !.pc = "expire", !.t = None, !.res = None] \in SlotRec
    BY <1>0 DEF SlotRec, Places, Outcomes
  <2>5. slot' \in [Slots -> SlotRec] /\ slot'[s].pc = "expire" /\ \A q \in Slots \ {s} : slot'[q] = slot[q]
    BY <1>0, <2>1, <2>4 DEF TypeInv, SlotRec
  <2> QED BY <2>1, <2>3, <2>5 DEF Calm, Moved, SlotOK, InTurn, Owns
<1>4. CASE ClaimNext(s)
  <2> DEFINE ClaimedRow(t) == [task[t] EXCEPT !.holder = s, !.expired = FALSE,
                                 !.reconcile = task[t].status = "waiting_approval",
                                 !.status = IF task[t].status = "waiting_approval" THEN @ ELSE "planning"]
  <2>1. PICK t \in Tasks :
          /\ Claimable(t)
          /\ task' = [task EXCEPT ![t] = ClaimedRow(t)]
          /\ slot' = [slot EXCEPT ![s] = [IdleSlot EXCEPT !.pc = "claimed", !.t = t]]
    BY <1>0, <1>4, ZenonT(30) DEF ClaimNext, TypeInv
  <2>2. adm = s /\ UNCHANGED <<att, key, adm>>
    BY <1>0, <1>4 DEF ClaimNext, TurnInv, InTurn
  <2>3. /\ ClaimedRow(t) \in TaskRec
        /\ ClaimedRow(t).succ = task[t].succ /\ ClaimedRow(t).count = task[t].count
        /\ ClaimedRow(t).status # "completed"
    <3>1. task[t] \in TaskRec
      BY <1>0 DEF TypeInv
    <3>2. CASE task[t].status = "waiting_approval"
      BY <3>1, <3>2 DEF TaskRec, Status, Claimed
    <3>3. CASE task[t].status # "waiting_approval"
      BY <3>1, <3>3 DEF TaskRec, Status, Claimed
    <3> QED BY <3>2, <3>3
  <2> HIDE DEF ClaimedRow
  <2>4. RowsKept
    BY <1>0, <2>1, <2>3, RowStep
  <2>5. [IdleSlot EXCEPT !.pc = "claimed", !.t = t] \in SlotRec
    BY DEF IdleSlot, NothingSeen, SlotRec, Places, Outcomes, Progress
  <2>6. slot' \in [Slots -> SlotRec] /\ slot'[s].pc = "claimed" /\ slot'[s].t = t
        /\ \A q \in Slots \ {s} : slot'[q] = slot[q]
    BY <1>0, <2>1, <2>5 DEF TypeInv, IdleSlot
  <2> QED BY <2>2, <2>4, <2>6 DEF Calm, Moved, SlotOK, InTurn, Owns
<1>5. CASE TickEnds(s)
  BY <1>0, <1>5, LeaveCalm DEF TickEnds, RowsKept, TypeInv
<1> QED BY <1>1, <1>2, <1>3, <1>4, <1>5 DEF Tick

-----------------------------------------------------------------------------
(* A claimed task up to the executor, and its answer *)

\* A step to the next await that leaves the rows alone is calm where the place it goes to
\* asks for nothing, and it keeps the turn or gives it back as that place allows.
LEMMA GotoCalm ==
    ASSUME IInv, NEW s \in Slots, Moved(s), UNCHANGED <<task, att, key>>,
           adm' = adm \/ ReleaseAdmission(s), InTurn(slot'[s]) => adm' = adm /\ InTurn(slot[s]),
           ~Owns(slot'[s]), slot'[s].pc # "start",
           ~(slot'[s].pc = "finish" /\ slot'[s].res = "recovered"),
           slot'[s].pc \in {"complete", "completing"} => slot'[s].res # "completed"
    PROVE  Calm(s) /\ RowsKept
BY DEF Calm, RowsKept, IInv, TypeInv, TurnInv, ReleaseAdmission

LEMMA FreshCalm ==
    ASSUME IInv, NEW s \in Slots, ReadsFresh(s)
    PROVE  Calm(s) /\ RowsKept
<1> USE DEF Outcomes, Status, Terminal, Settlements, Results, Places
<1>0. /\ TypeInv /\ slot[s].pc = "claimed" /\ slot[s].t \in Tasks /\ task[slot[s].t] \in TaskRec
      /\ InTurn(slot[s]) /\ UNCHANGED <<task, att, key>>
  BY DEF IInv, TypeInv, SlotOK, ReadsFresh, InTurn
<1> DEFINE r == task[slot[s].t]
<1>1. r.succ \in Nat /\ r.count \in Nat /\ [succ |-> r.succ, count |-> r.count] \in Progress
      /\ Honest(r.succ, "cancelled") \in {"partially_completed", "cancelled"}
  BY <1>0 DEF TaskRec, Progress, Honest
<1>2. \/ Leave(s)
      \/ Goto(s, "complete", 0, Honest(r.succ, "cancelled")) /\ UNCHANGED adm
      \/ Goto(s, "release", 0, "deferred") /\ UNCHANGED adm
      \/ Goto(s, "complete", 0, "failed") /\ UNCHANGED adm
      \/ GotoSeeing(s, "approval", 0, None, [succ |-> r.succ, count |-> r.count]) /\ ReleaseAdmission(s)
      \/ GotoSeeing(s, "plan", 0, None, [succ |-> r.succ, count |-> r.count]) /\ UNCHANGED adm
  BY DEF ReadsFresh
<1>9. {"approval", "plan"} \subseteq Places /\ None \in Outcomes /\ 0 \in Nat
  OBVIOUS
<1> HIDE DEF r, Outcomes, Places
<1>3. CASE Leave(s)
  BY <1>0, <1>3, LeaveCalm DEF RowsKept, TypeInv
<1>4. CASE Goto(s, "complete", 0, Honest(r.succ, "cancelled")) /\ UNCHANGED adm
  BY <1>0, <1>1, <1>4, GotoForgets, GotoCalm DEF Moved, SlotOK, Outcomes, Places, Endings, InTurn, Owns
<1>5. CASE Goto(s, "release", 0, "deferred") /\ UNCHANGED adm
  BY <1>0, <1>5, GotoForgets, GotoCalm DEF Moved, SlotOK, Outcomes, Places, InTurn, Owns
<1>6. CASE Goto(s, "complete", 0, "failed") /\ UNCHANGED adm
  BY <1>0, <1>6, GotoForgets, GotoCalm DEF Moved, SlotOK, Outcomes, Places, Endings, InTurn, Owns
<1>7. CASE GotoSeeing(s, "approval", 0, None, [succ |-> r.succ, count |-> r.count]) /\ ReleaseAdmission(s)
  <2>1. /\ slot' \in [Slots -> SlotRec] /\ \A q \in Slots \ {s} : slot'[q] = slot[q]
        /\ slot'[s].pc = "approval" /\ slot'[s].t = slot[s].t
    BY <1>0, <1>1, <1>7, <1>9, GotoFacts, SMTT(30)
  <2> QED BY <1>0, <1>7, <2>1, GotoCalm DEF Moved, SlotOK, InTurn, Owns
<1>8. CASE GotoSeeing(s, "plan", 0, None, [succ |-> r.succ, count |-> r.count]) /\ UNCHANGED adm
  <2>1. /\ slot' \in [Slots -> SlotRec] /\ \A q \in Slots \ {s} : slot'[q] = slot[q]
        /\ slot'[s].pc = "plan" /\ slot'[s].t = slot[s].t
    BY <1>0, <1>1, <1>8, <1>9, GotoFacts, SMTT(30)
  <2> QED BY <1>0, <1>8, <2>1, GotoCalm DEF Moved, SlotOK, InTurn, Owns
<1> QED BY <1>2, <1>3, <1>4, <1>5, <1>6, <1>7, <1>8

\* Planning: an attempt left over is looked at first; a new one needs the lane, the budget and
\* nothing in the air.
LEMMA PlanCalm ==
    ASSUME IInv, NEW s \in Slots, DiscardPrepared(s) \/ ReconcileDispatched(s) \/ PlanAttempt(s)
    PROVE  Calm(s) /\ RowsKept
<1> USE DEF Outcomes, Status, Terminal, Settlements, Results, Places
<1>0. /\ TypeInv /\ slot[s].pc = "plan" /\ slot[s].t \in Tasks /\ InTurn(slot[s]) /\ adm = s
      /\ UNCHANGED <<task, att, key>>
  BY DEF IInv, TypeInv, SlotOK, DiscardPrepared, ReconcileDispatched, PlanAttempt, InTurn, TurnInv
<1>1. FirstUnsettled(slot[s].t) \subseteq Ordinals(slot[s].t) /\ Ordinals(slot[s].t) \subseteq Nat
  BY <1>0, OrdinalsFinite DEF FirstUnsettled, Unsettled
<1>2. slot[s].seen \in Progress /\ slot[s].seen.count \in Nat /\ slot[s].seen.succ \in Nat
  BY <1>0 DEF TypeInv, SlotRec, Progress
<1>3. RowsKept
  BY <1>0 DEF RowsKept, TypeInv
<1>4. CASE DiscardPrepared(s)
  <2>1. PICK n \in FirstUnsettled(slot[s].t) : att[slot[s].t][n] = "prepared" /\ Goto(s, "finish", n, "recovered")
    BY <1>4 DEF DiscardPrepared
  <2>2. /\ slot' \in [Slots -> SlotRec] /\ \A q \in Slots \ {s} : slot'[q] = slot[q]
        /\ slot'[s].pc = "finish" /\ slot'[s].t = slot[s].t /\ slot'[s].n = n /\ slot'[s].res = "recovered"
    BY <1>0, <1>1, <2>1, GotoForgets
  <2>3. adm' = adm
    BY <1>4 DEF DiscardPrepared
  <2> QED BY <1>0, <1>1, <1>3, <2>1, <2>2, <2>3 DEF Calm, Moved, SlotOK, InTurn, Owns
<1>5. CASE ReconcileDispatched(s)
  <2>1. PICK n \in FirstUnsettled(slot[s].t) : Goto(s, "finish", n, "unknown")
    BY <1>5 DEF ReconcileDispatched
  <2>2. /\ slot' \in [Slots -> SlotRec] /\ \A q \in Slots \ {s} : slot'[q] = slot[q]
        /\ slot'[s].pc = "finish" /\ slot'[s].t = slot[s].t /\ slot'[s].n = n /\ slot'[s].res = "unknown"
    BY <1>0, <1>1, <2>1, GotoForgets
  <2>3. ReleaseAdmission(s)
    BY <1>5 DEF ReconcileDispatched
  <2> QED BY <1>0, <2>2, <2>3, GotoCalm DEF Moved, SlotOK, InTurn, Owns
<1>6. CASE PlanAttempt(s)
  <2> DEFINE seen == slot[s].seen
  <2>1. Honest(seen.succ, "failed") \in {"partially_completed", "failed"}
    BY DEF Honest
  <2>2. \/ Goto(s, "release", 0, "deferred")
        \/ Goto(s, "complete", 0, Honest(seen.succ, "failed"))
        \/ BudgetLeft(slot[s].t, seen.count) /\ GotoSeeing(s, "start", 0, None, seen)
    BY <1>6 DEF PlanAttempt
  <2>3. adm' = adm /\ Unsettled(slot[s].t) = {}
    BY <1>6 DEF PlanAttempt, NothingUnsettled
  <2>4. CASE Goto(s, "release", 0, "deferred")
    BY <1>0, <2>3, <2>4, GotoForgets, GotoCalm DEF Moved, SlotOK, InTurn, Owns
  <2>5. CASE Goto(s, "complete", 0, Honest(seen.succ, "failed"))
    BY <1>0, <2>1, <2>3, <2>5, GotoForgets, GotoCalm DEF Moved, SlotOK, Endings, InTurn, Owns
  <2>6. CASE BudgetLeft(slot[s].t, seen.count) /\ GotoSeeing(s, "start", 0, None, seen)
    <3>1. /\ slot' \in [Slots -> SlotRec] /\ \A q \in Slots \ {s} : slot'[q] = slot[q]
          /\ slot'[s].pc = "start" /\ slot'[s].t = slot[s].t /\ slot'[s].seen = slot[s].seen
      <4>1. "start" \in Places /\ None \in Outcomes /\ 0 \in Nat
        OBVIOUS
      <4> HIDE DEF Outcomes, Places
      <4> QED BY <1>0, <1>2, <2>6, <4>1, GotoFacts, SMTT(30)
    <3>2. slot[s].seen.count < MaxAttempts[slot[s].t]
      BY <2>6 DEF BudgetLeft
    <3> QED BY <1>0, <1>3, <2>3, <3>1, <3>2 DEF Calm, Moved, SlotOK, InTurn, Owns
  <2> QED BY <2>2, <2>4, <2>5, <2>6
<1> QED BY <1>4, <1>5, <1>6

LEMMA ExecCalm ==
    ASSUME IInv, NEW s \in Slots, MarkExecuting(s) \/ ExecReturns(s)
    PROVE  Calm(s) /\ RowsKept
<1> USE DEF Outcomes, Status, Terminal, Settlements, Results, Places
<1>0. /\ TypeInv /\ slot[s].t \in Tasks /\ slot[s].n \in Nat /\ task[slot[s].t] \in TaskRec
  BY DEF IInv, TypeInv, SlotOK, SlotRec, MarkExecuting, ExecReturns
<1>1. CASE MarkExecuting(s)
  <2> DEFINE t == slot[s].t
  <2>1. slot[s].pc = "mark" /\ adm = s /\ UNCHANGED <<att, key>>
    BY <1>1 DEF MarkExecuting, IInv, TurnInv, InTurn
  <2>2. CASE task[t].holder = s
    <3> DEFINE row == IF task[t].status = "planning"
                      THEN [task[t] EXCEPT !.status = "executing", !.reconcile = FALSE] ELSE task[t]
    <3>1. task' = [task EXCEPT ![t] = row] /\ Goto(s, "exec", slot[s].n, None) /\ ReleaseAdmission(s)
      BY <1>1, <2>2 DEF MarkExecuting
    <3>2. row \in TaskRec /\ row.succ = task[t].succ /\ row.count = task[t].count
          /\ (row.status = "completed" => task[t].status = "completed")
      BY <1>0 DEF TaskRec, Claimed
    <3> HIDE DEF row
    <3>3. RowsKept
      BY <1>0, <3>1, <3>2, RowStep
    <3>4. /\ slot' \in [Slots -> SlotRec] /\ \A q \in Slots \ {s} : slot'[q] = slot[q]
          /\ slot'[s].pc = "exec" /\ slot'[s].t = slot[s].t /\ slot'[s].n = slot[s].n
      <4>1. "exec" \in Places /\ None \in Outcomes
        OBVIOUS
      <4> HIDE DEF Outcomes, Places
      <4> QED BY <1>0, <3>1, <4>1, GotoForgets, Zenon
    <3>5. Moved(s) /\ ~InTurn(slot'[s])
      BY <1>0, <3>4 DEF Moved, SlotOK, InTurn
    <3>6. adm' = adm \/ (adm = s /\ adm' = None)
      BY <3>1 DEF ReleaseAdmission
    <3>7. Owns(slot'[s]) /\ Owns(slot[s])
      BY <2>1, <3>4 DEF Owns
    <3> QED BY <2>1, <3>3, <3>4, <3>5, <3>6, <3>7 DEF Calm
  <2>3. CASE task[t].holder # s
    BY <1>0, <1>1, <2>1, <2>3, LeaveCalm DEF MarkExecuting, RowsKept, TypeInv
  <2> QED BY <2>2, <2>3
<1>2. CASE ExecReturns(s)
  <2>1. PICK r \in Results : Goto(s, "finish", slot[s].n, r)
    BY <1>2 DEF ExecReturns
  <2>2. slot[s].pc = "exec" /\ UNCHANGED <<task, att, key, adm>>
    BY <1>2 DEF ExecReturns
  <2> QED BY <1>0, <2>1, <2>2, GotoForgets DEF Calm, Moved, SlotOK, InTurn, Owns, RowsKept, TypeInv
<1> QED BY <1>1, <1>2

LEMMA AnswerCalm ==
    ASSUME IInv, NEW s \in Slots, ApprovalReads(s) \/ ReleaseWaiting(s) \/ FinishWithoutAttempt(s)
    PROVE  Calm(s) /\ RowsKept
<1>0. TypeInv /\ slot[s].t \in Tasks /\ slot[s].seen \in Progress /\ slot[s].n \in Nat /\ task[slot[s].t] \in TaskRec
  BY DEF IInv, TypeInv, SlotOK, SlotRec, ApprovalReads, ReleaseWaiting, FinishWithoutAttempt
<1>1. CASE ApprovalReads(s)
  <2> DEFINE answers == {"still_waiting", "success", "unknown", "refused", "cancelled"}
             about == IF Unsettled(slot[s].t) = {} THEN {0} ELSE FirstUnsettled(slot[s].t)
  <2>1. PICK r \in answers, n \in about :
          GotoSeeing(s, IF r = "still_waiting" THEN "waiting" ELSE "finish", n, r,
                     IF n = 0 THEN slot[s].seen ELSE NothingSeen)
    BY <1>1 DEF ApprovalReads
  <2>2. FirstUnsettled(slot[s].t) \subseteq Nat
    BY <1>0, TaskAssumption DEF FirstUnsettled, Unsettled, Ordinals
  <2> DEFINE p == IF r = "still_waiting" THEN "waiting" ELSE "finish"
             w == IF n = 0 THEN slot[s].seen ELSE NothingSeen
  <2>3. n \in Nat /\ r \in Outcomes /\ p \in Places /\ w \in Progress /\ GotoSeeing(s, p, n, r, w)
    BY <1>0, <2>1, <2>2 DEF Outcomes, Settlements, Results, Places, Progress, NothingSeen
  <2>7. p = IF r = "still_waiting" THEN "waiting" ELSE "finish"
    OBVIOUS
  <2> HIDE DEF p, w
  <2>4. /\ slot' \in [Slots -> SlotRec] /\ \A q \in Slots \ {s} : slot'[q] = slot[q]
        /\ slot'[s].pc = p /\ slot'[s].t = slot[s].t /\ slot'[s].res = r
    BY <1>0, <2>3, GotoFacts, SMTT(30)
  <2>5. UNCHANGED <<task, att, key, adm>>
    BY <1>1 DEF ApprovalReads
  <2>6. Moved(s) /\ ~InTurn(slot'[s]) /\ ~Owns(slot'[s]) /\ slot'[s].pc \in {"waiting", "finish"}
        /\ slot'[s].res # "recovered"
    BY <1>0, <2>4, <2>7 DEF Moved, SlotOK, InTurn, Owns, Settlements, Results
  <2> QED BY <2>5, <2>6, GotoCalm
<1>2. CASE ReleaseWaiting(s)
  <2> DEFINE t == slot[s].t
             row == IF task[t].holder = s /\ task[t].status = "waiting_approval"
                    THEN [task[t] EXCEPT !.holder = None, !.expired = FALSE, !.reconcile = FALSE]
                    ELSE task[t]
  <2>1. task' = [task EXCEPT ![t] = row]
    BY <1>0, <1>2 DEF ReleaseWaiting, TypeInv
  <2>2. row \in TaskRec /\ row.succ = task[t].succ /\ row.count = task[t].count /\ row.status = task[t].status
    BY <1>0 DEF TaskRec
  <2> HIDE DEF row
  <2>3. RowsKept
    BY <1>0, <2>1, <2>2, RowStep
  <2> QED BY <1>0, <1>2, <2>3, LeaveCalm DEF ReleaseWaiting
<1>3. CASE FinishWithoutAttempt(s)
  <2>1. slot[s].seen.succ \in Nat
    BY <1>0 DEF Progress
  <2>2. /\ slot[s].pc = "finish" /\ AfterFinish(s, slot[s].seen.succ) /\ UNCHANGED <<task, att, key, adm>>
    BY <1>3 DEF FinishWithoutAttempt
  <2>3. /\ Moved(s) /\ slot'[s].pc \in {"settled", "release", "complete"}
        /\ slot'[s].pc = "complete" => slot'[s].res # "completed"
    BY <1>0, <2>1, <2>2, AfterFinishFacts
  <2> QED BY <2>2, <2>3, GotoCalm DEF InTurn, Owns
<1> QED BY <1>1, <1>2, <1>3

\* The look at the task after an attempt: completed is said of a goal that is reached.
LEMMA SettledCalm ==
    ASSUME IInv, NEW s \in Slots, AfterSettled(s)
    PROVE  Calm(s) /\ RowsKept
<1> USE DEF Outcomes, Status, Terminal, Settlements, Results, Places
<1> DEFINE t == slot[s].t
           r == task[t]
<1>0. /\ TypeInv /\ t \in Tasks /\ slot[s].pc = "settled" /\ UNCHANGED <<task, att, key, adm>>
      /\ r.succ \in Nat
  BY DEF IInv, TypeInv, SlotOK, TaskRec, AfterSettled
<1>1. Honest(r.succ, "cancelled") \in {"partially_completed", "cancelled"}
      /\ Honest(r.succ, "failed") \in {"partially_completed", "failed"}
  BY DEF Honest
<1>2. \/ \E e \in {"partially_completed", "cancelled", "failed"} : Goto(s, "complete", 0, e)
      \/ \E e \in {"deferred", "queued"} : Goto(s, "release", 0, e)
      \/ GoalReached(t) /\ Goto(s, "complete", 0, "completed")
  <2> HIDE DEF t
  <2>1. \/ Goto(s, "complete", 0, Honest(r.succ, "cancelled")) \/ Goto(s, "complete", 0, Honest(r.succ, "failed"))
        \/ Goto(s, "release", 0, "deferred") \/ Goto(s, "release", 0, "queued")
        \/ GoalReached(t) /\ Goto(s, "complete", 0, "completed")
    BY Zenon DEF AfterSettled, t
  <2> QED BY <1>1, <2>1
<1>3. CASE \E e \in {"partially_completed", "cancelled", "failed"} : Goto(s, "complete", 0, e)
  <2>1. PICK e \in {"partially_completed", "cancelled", "failed"} : Goto(s, "complete", 0, e)
    BY <1>3
  <2>2. Moved(s) /\ slot'[s].pc = "complete" /\ slot'[s].res # "completed"
    BY <1>0, <2>1, GotoForgets DEF Moved, SlotOK, Endings
  <2> QED BY <1>0, <2>2, GotoCalm DEF InTurn, Owns
<1>4. CASE \E e \in {"deferred", "queued"} : Goto(s, "release", 0, e)
  <2>1. PICK e \in {"deferred", "queued"} : Goto(s, "release", 0, e)
    BY <1>4
  <2>2. Moved(s) /\ slot'[s].pc = "release"
    BY <1>0, <2>1, GotoForgets DEF Moved, SlotOK
  <2> QED BY <1>0, <2>2, GotoCalm DEF InTurn, Owns
<1>5. CASE GoalReached(t) /\ Goto(s, "complete", 0, "completed")
  <2>1. Moved(s) /\ slot'[s].pc = "complete" /\ slot'[s].t = t
    BY <1>0, <1>5, GotoForgets DEF Moved, SlotOK, Endings
  <2>2. task[t].succ >= Target[t]
    BY <1>5 DEF GoalReached
  <2>3. RowsKept
    BY <1>0 DEF RowsKept, TypeInv
  <2> QED BY <1>0, <2>1, <2>2, <2>3 DEF Calm, InTurn, Owns
<1> QED BY <1>2, <1>3, <1>4, <1>5

\* The two phases of an end and of a release, when they do not throw.
LEMMA EndCalm ==
    ASSUME IInv, NEW s \in Slots,
           \/ (CompleteReads(s) /\ ~ProcessDies) \/ CompleteWrites(s)
           \/ (ReleaseReads(s) /\ ~ProcessDies) \/ ReleaseWrites(s)
    PROVE  Calm(s) /\ RowsKept
<1>0. /\ TypeInv /\ slot[s].t \in Tasks /\ slot[s].res \in Status /\ UNCHANGED <<att, key>>
      /\ task[slot[s].t] \in TaskRec
  BY DEF IInv, TypeInv, SlotOK, Status, Terminal, Endings, CompleteReads, CompleteWrites, ReleaseReads, ReleaseWrites
<1>1. CASE CompleteReads(s) /\ ~ProcessDies
  <2>1. UNCHANGED task /\ slot[s].pc = "complete" /\ slot[s].res \in Endings
    BY <1>0, <1>1 DEF CompleteReads, TypeInv, SlotOK
  <2>2. RowsKept
    BY <1>0, <2>1 DEF RowsKept, TypeInv
  <2>3. CASE Leave(s)
    BY <1>0, <2>2, <2>3, LeaveCalm
  <2>4. CASE Goto(s, "completing", 0, slot[s].res) /\ adm' = adm
    <3>1. "completing" \in Places /\ slot[s].res \in Outcomes
      BY <1>0 DEF Places, Outcomes
    <3>2. /\ slot' \in [Slots -> SlotRec] /\ \A q \in Slots \ {s} : slot'[q] = slot[q]
          /\ slot'[s].pc = "completing" /\ slot'[s].t = slot[s].t /\ slot'[s].res = slot[s].res
      BY <1>0, <2>4, <3>1, GotoForgets
    <3>3. slot[s].res = "completed" => task[slot[s].t].succ >= Target[slot[s].t]
      BY <2>1 DEF IInv, EarnedInv
    <3> QED BY <1>0, <2>1, <2>2, <2>4, <3>2, <3>3 DEF Calm, Moved, SlotOK, InTurn, Owns
  <2> QED BY <1>1, <2>3, <2>4 DEF CompleteReads
<1>2. CASE CompleteWrites(s)
  <2>1. /\ task' = [task EXCEPT ![slot[s].t] = CompletedTask(task[slot[s].t], slot[s].res)]
        /\ slot[s].pc = "completing" /\ Leave(s)
    BY <1>2 DEF CompleteWrites
  <2>2. slot[s].res = "completed" => task[slot[s].t].succ >= Target[slot[s].t]
    BY <2>1 DEF IInv, EarnedInv
  <2>3. RowsKept
    BY <1>0, <2>1, <2>2, CompletedRow, RowStep
  <2> QED BY <1>0, <2>1, <2>3, LeaveCalm
<1>3. CASE ReleaseReads(s) /\ ~ProcessDies
  <2>1. UNCHANGED task /\ slot[s].pc = "release" /\ slot[s].res \in {"deferred", "queued"}
    BY <1>0, <1>3 DEF ReleaseReads, TypeInv, SlotOK
  <2>2. RowsKept
    BY <1>0, <2>1 DEF RowsKept, TypeInv
  <2>3. CASE Leave(s)
    BY <1>0, <2>2, <2>3, LeaveCalm
  <2>4. CASE Goto(s, "releasing", 0, slot[s].res) /\ adm' = adm
    <3>1. "releasing" \in Places /\ slot[s].res \in Outcomes
      BY <1>0 DEF Places, Outcomes
    <3>2. /\ slot' \in [Slots -> SlotRec] /\ \A q \in Slots \ {s} : slot'[q] = slot[q]
          /\ slot'[s].pc = "releasing" /\ slot'[s].t = slot[s].t /\ slot'[s].res = slot[s].res
      BY <1>0, <2>4, <3>1, GotoForgets
    <3> QED BY <1>0, <2>1, <2>2, <2>4, <3>2 DEF Calm, Moved, SlotOK, InTurn, Owns
  <2> QED BY <1>3, <2>3, <2>4 DEF ReleaseReads
<1>4. CASE ReleaseWrites(s)
  <2> DEFINE t == slot[s].t
  <2>1. slot[s].res \in {"deferred", "queued"} /\ Leave(s)
    BY <1>0, <1>4 DEF ReleaseWrites, TypeInv, SlotOK
  <2>2. CASE task[t].holder = s
    <3>1. task' = [task EXCEPT ![t] = CompletedTask(task[t], slot[s].res)]
      BY <1>4, <2>2 DEF ReleaseWrites
    <3> QED BY <1>0, <2>1, <3>1, CompletedRow, RowStep, LeaveCalm
  <2>3. CASE task[t].holder # s
    BY <1>0, <1>4, <2>1, <2>3, LeaveCalm DEF ReleaseWrites, RowsKept, TypeInv
  <2> QED BY <2>2, <2>3
<1> QED BY <1>1, <1>2, <1>3, <1>4

-----------------------------------------------------------------------------
(* The steps of an attempt *)

\* An attempt starts when nothing of its task is in the air, under a key of its own.
LEMMA StartKeeps ==
    ASSUME IInv, NEW s \in Slots, StartAttempt(s)
    PROVE  IInv'
<1> USE TaskAssumption
<1> DEFINE t == slot[s].t
           k == TargetKey(t, slot[s].seen.count)
<1>0. /\ TypeInv /\ t \in Tasks /\ slot[s].pc = "start" /\ adm = s /\ Unsettled(t) = {}
      /\ slot[s].seen.count \in Nat /\ slot[s].seen.count < MaxAttempts[t]
      /\ UNCHANGED <<task, due, buried, fixed, up, adm, op, ops, crashes>>
  BY DEF IInv, TypeInv, SlotOK, SlotRec, Progress, StartAttempt, TurnInv, InTurn, AttInv, PlanInv
<1>1. PICK n \in NextOrdinal(t) :
        /\ att' = [att EXCEPT ![t][n] = "prepared"]
        /\ key' = [key EXCEPT ![t][n] = k]
        /\ Goto(s, "dispatch", n, None)
  BY DEF StartAttempt
<1>2. ~DuplicateTarget(t, k)
  BY DEF StartAttempt
<1>3. n \in Ordinals(t) /\ n \in Nat /\ att[t][n] = "none"
  BY <1>0, OrdinalsFinite DEF NextOrdinal
<1>4. k \in Nat /\ k \in Keys(t)
  BY <1>0 DEF TargetKey, Keys
<1> HIDE DEF t, k
<1>5. /\ slot' \in [Slots -> SlotRec] /\ \A q \in Slots \ {s} : slot'[q] = slot[q]
      /\ slot'[s].pc = "dispatch" /\ slot'[s].t = t /\ slot'[s].n = n
  <2>1. "dispatch" \in Places /\ None \in Outcomes
    BY DEF Places, Outcomes
  <2> QED BY <1>0, <1>1, <1>3, <2>1, GotoForgets, Zenon DEF t
<1>6. /\ \A u \in Tasks : u # t => att'[u] = att[u] /\ key'[u] = key[u]
      /\ \A m \in Ordinals(t) : m # n => att'[t][m] = att[t][m] /\ key'[t][m] = key[t][m]
      /\ att'[t][n] = "prepared" /\ key'[t][n] = k
  BY <1>0, <1>1, <1>3 DEF TypeInv
<1>7. TypeInv'
  <2>1. att' = [u \in Tasks |-> att'[u]] /\ key' = [u \in Tasks |-> key'[u]]
    BY <1>0, <1>1 DEF TypeInv
  <2>2. \A u \in Tasks : att'[u] \in [Ordinals(u) -> AttemptStatus] /\ key'[u] \in [Ordinals(u) -> Nat]
    BY <1>0, <1>1, <1>3, <1>4 DEF TypeInv, AttemptStatus
  <2>3. \A q \in Slots : SlotOK(slot'[q])
    BY <1>0, <1>5 DEF TypeInv, SlotOK
  <2> QED BY <1>0, <1>5, <2>1, <2>2, <2>3 DEF TypeInv, Ordinals
<1>8. \A q \in Slots \ {s} : ~InTurn(slot[q])
  BY <1>0 DEF IInv, TurnInv
<1>9. TurnInv'
  BY <1>0, <1>5, <1>8 DEF TurnInv
<1>10. OwnerInv'
  <2>1. ASSUME NEW q \in Slots, Owns(slot'[q])
        PROVE  /\ slot'[q].n \in Ordinals(slot'[q].t) /\ att'[slot'[q].t][slot'[q].n] # "none"
               /\ slot'[q].pc # "dispatch" => att'[slot'[q].t][slot'[q].n] # "prepared"
    <3>1. CASE q = s
      BY <1>3, <1>5, <1>6, <3>1 DEF Ordinals
    <3>2. CASE q # s
      <4>1. slot'[q] = slot[q] /\ Owns(slot[q]) /\ slot[q].t \in Tasks
        BY <1>0, <1>5, <2>1, <3>2 DEF TypeInv, SlotOK, Owns
      <4>2. /\ slot[q].n \in Ordinals(slot[q].t) /\ att[slot[q].t][slot[q].n] # "none"
            /\ slot[q].pc # "dispatch" => att[slot[q].t][slot[q].n] # "prepared"
        BY <4>1 DEF IInv, AttInv, OwnerInv
      <4>3. att'[slot[q].t][slot[q].n] = att[slot[q].t][slot[q].n]
        BY <1>3, <1>6, <4>1, <4>2
      <4> QED BY <4>1, <4>2, <4>3 DEF Ordinals
    <3> QED BY <3>1, <3>2
  <2>2. ASSUME NEW q \in Slots, NEW r \in Slots, q # r, Owns(slot'[q]), Owns(slot'[r]), r # s
        PROVE  slot'[q].t # slot'[r].t \/ slot'[q].n # slot'[r].n
    <3>1. slot'[r] = slot[r] /\ Owns(slot[r]) /\ att[slot[r].t][slot[r].n] # "none"
      BY <1>5, <2>2 DEF IInv, AttInv, OwnerInv
    <3>2. CASE q = s
      BY <1>3, <1>5, <3>1, <3>2
    <3>3. CASE q # s
      BY <1>5, <2>2, <3>1, <3>3 DEF IInv, AttInv, OwnerInv
    <3> QED BY <3>2, <3>3
  <2>3. \A q, r \in Slots : q # r /\ Owns(slot'[q]) /\ Owns(slot'[r]) =>
          slot'[q].t # slot'[r].t \/ slot'[q].n # slot'[r].n
    BY <2>2
  <2> QED BY <2>1, <2>3 DEF OwnerInv, Ordinals
<1>11. PlanInv'
  BY <1>5, <1>8 DEF PlanInv, InTurn
<1>12. KeyInv'
  <2> SUFFICES ASSUME NEW u \in Tasks, NEW m \in Ordinals(u), att'[u][m] # "none"
               PROVE  /\ key'[u][m] \in Keys(u)
                      /\ \A l \in Ordinals(u) : l # m /\ att'[u][l] # "none" => key'[u][l] # key'[u][m]
    BY <1>0 DEF KeyInv, Ordinals, Keys
  <2>1. CASE u # t
    BY <1>6, <2>1 DEF IInv, AttInv, KeyInv
  <2>2. CASE u = t
    <3>1. \A l \in Ordinals(t) : att[t][l] # "none" => key[t][l] # k
      BY <1>2 DEF DuplicateTarget
    <3>2. CASE m = n
      BY <1>4, <1>6, <2>2, <3>1, <3>2
    <3>3. CASE m # n
      <4>1. key[u][m] \in Keys(u) /\ att[u][m] # "none" /\ key'[u][m] = key[u][m]
            /\ \A l \in Ordinals(u) : l # m /\ att[u][l] # "none" => key[u][l] # key[u][m]
        BY <1>6, <2>2, <3>3 DEF IInv, AttInv, KeyInv
      <4> QED BY <1>6, <2>2, <3>1, <3>3, <4>1
    <3> QED BY <3>2, <3>3
  <2> QED BY <2>1, <2>2
<1>13. OneInAir'
  <2>1. \A m \in Ordinals(t) : m # n => att'[t][m] \notin {"prepared", "dispatched"}
    BY <1>0, <1>6 DEF Unsettled, t
  <2>2. \A u \in Tasks : u # t => Unsettled(u)' = Unsettled(u)
    BY <1>6 DEF Unsettled, Ordinals
  <2>3. \A u \in Tasks : u = t => Unsettled(u)' \subseteq {n}
    BY <2>1 DEF Unsettled, Ordinals
  <2> QED BY <2>2, <2>3 DEF OneInAir, IInv, AttInv
<1>14. CountersMatchAttempts'
  <2> SUFFICES ASSUME NEW u \in Tasks
               PROVE  /\ {m \in Ordinals(u) : att'[u][m] = "succeeded"}
                           = {m \in Ordinals(u) : att[u][m] = "succeeded"}
                      /\ {m \in Ordinals(u) : att'[u][m] \notin {"none", "prepared"}}
                           = {m \in Ordinals(u) : att[u][m] \notin {"none", "prepared"}}
    BY <1>0 DEF CountersMatchAttempts, IInv, Ordinals
  <2>1. \A m \in Ordinals(u) : att'[u][m] = att[u][m] \/ (att[u][m] = "none" /\ att'[u][m] = "prepared")
    BY <1>3, <1>6
  <2> QED BY <2>1
<1>15. EarnedInv'
  BY <1>0, <1>5 DEF IInv, EarnedInv, CompletedIsEarned
<1> QED BY <1>7, <1>9, <1>10, <1>11, <1>12, <1>13, <1>14, <1>15 DEF IInv, AttInv

\* What the two counters of a row count.
Verified(t) == {n \in Ordinals(t) : att[t][n] = "succeeded"}
Dispatched(t) == {n \in Ordinals(t) : att[t][n] \notin {"none", "prepared"}}

LEMMA CountersForm ==
    CountersMatchAttempts <=> \A t \in Tasks : /\ task[t].succ = Cardinality(Verified(t))
                                               /\ task[t].count <= Cardinality(Dispatched(t))
BY DEF CountersMatchAttempts, Verified, Dispatched

LEMMA CountedFinite ==
    ASSUME NEW t \in Tasks
    PROVE  /\ IsFiniteSet(Verified(t)) /\ Cardinality(Verified(t)) \in Nat
           /\ IsFiniteSet(Dispatched(t)) /\ Cardinality(Dispatched(t)) \in Nat
<1>1. Verified(t) \subseteq Ordinals(t) /\ Dispatched(t) \subseteq Ordinals(t)
  BY DEF Verified, Dispatched
<1> QED BY <1>1, OrdinalsFinite, FS_Subset, FS_CardinalityType

\* An attempt becomes dispatched under the turn of its tick, and is counted.
LEMMA DispatchKeeps ==
    ASSUME IInv, NEW s \in Slots, MarkDispatched(s), NEW t \in Tasks, NEW n \in Nat,
           t = slot[s].t, n = slot[s].n
    PROVE  IInv'
<1> USE TaskAssumption
<1>0. /\ TypeInv /\ slot[s].pc = "dispatch" /\ adm = s
      /\ n \in Ordinals(t) /\ att[t][n] # "none"
      /\ UNCHANGED <<key, due, buried, fixed, up, adm, op, ops, crashes>>
  BY DEF IInv, MarkDispatched, TurnInv, InTurn, AttInv, OwnerInv, Owns
<1>1. /\ slot' \in [Slots -> SlotRec] /\ \A q \in Slots \ {s} : slot'[q] = slot[q]
      /\ slot'[s].pc = "mark" /\ slot'[s].t = t /\ slot'[s].n = n
  <2>1. "mark" \in Places /\ None \in Outcomes /\ Goto(s, "mark", n, None)
    BY DEF Places, Outcomes, MarkDispatched
  <2> QED BY <1>0, <2>1, GotoForgets, SMTT(30)
<1>2. \A q \in Slots \ {s} : ~InTurn(slot[q])
  BY <1>0 DEF IInv, TurnInv
<1>3. \A q \in Slots : SlotOK(slot'[q])
  BY <1>0, <1>1 DEF TypeInv, SlotOK
<1>4. TurnInv'
  BY <1>0, <1>1, <1>2 DEF TurnInv
<1>5. CASE att[t][n] # "prepared"
  <2>1. att' = att /\ task' = task
    BY <1>5 DEF MarkDispatched
  <2>2. TypeInv'
    BY <1>0, <1>1, <1>3, <2>1 DEF TypeInv, Ordinals
  <2>3. OwnerInv'
    BY <1>0, <1>1, <1>5, <2>1 DEF IInv, AttInv, OwnerInv, Owns, Ordinals
  <2>4. PlanInv' /\ KeyInv' /\ OneInAir'
    BY <1>0, <1>1, <1>2, <2>1 DEF IInv, AttInv, PlanInv, InTurn, KeyInv, Keys, OneInAir, Unsettled, Ordinals
  <2>5. CountersMatchAttempts' /\ EarnedInv'
    BY <1>1, <2>1 DEF IInv, CountersMatchAttempts, Ordinals, EarnedInv, CompletedIsEarned
  <2> QED BY <1>4, <2>2, <2>3, <2>4, <2>5 DEF IInv, AttInv
<1>6. CASE att[t][n] = "prepared"
  <2> DEFINE row == [task[t] EXCEPT !.count = @ + 1]
  <2>1. att' = [att EXCEPT ![t][n] = "dispatched"] /\ task' = [task EXCEPT ![t] = row]
    BY <1>0, <1>6 DEF MarkDispatched, TypeInv
  <2>2. row \in TaskRec /\ row.succ = task[t].succ /\ row.count = task[t].count + 1 /\ row.status = task[t].status
    <3>1. task[t] \in TaskRec
      BY <1>0 DEF TypeInv
    <3> QED BY <3>1 DEF TaskRec
  <2> HIDE DEF row
  <2>3. /\ \A u \in Tasks : u # t => att'[u] = att[u] /\ task'[u] = task[u]
        /\ \A m \in Ordinals(t) : m # n => att'[t][m] = att[t][m]
        /\ att'[t][n] = "dispatched" /\ task'[t] = row
    BY <1>0, <2>1 DEF TypeInv
  <2>4. TypeInv'
    <3>1. att' = [u \in Tasks |-> att'[u]]
      BY <1>0, <2>1 DEF TypeInv
    <3>2. \A u \in Tasks : att'[u] \in [Ordinals(u) -> AttemptStatus]
      BY <1>0, <2>1 DEF TypeInv, AttemptStatus
    <3>3. task' \in [Tasks -> TaskRec]
      BY <1>0, <2>1, <2>2 DEF TypeInv
    <3> QED BY <1>0, <1>1, <1>3, <3>1, <3>2, <3>3 DEF TypeInv, Ordinals
  <2>5. OwnerInv'
    <3>1. ASSUME NEW q \in Slots, Owns(slot'[q])
          PROVE  /\ Owns(slot[q]) /\ slot'[q].t = slot[q].t /\ slot'[q].n = slot[q].n
                 /\ slot'[q].n \in Ordinals(slot'[q].t) /\ att'[slot'[q].t][slot'[q].n] # "none"
                 /\ slot'[q].pc # "dispatch" => att'[slot'[q].t][slot'[q].n] # "prepared"
      <4>1. CASE q = s
        BY <1>0, <1>1, <2>3, <4>1 DEF Owns
      <4>2. CASE q # s
        <5>1. slot'[q] = slot[q] /\ Owns(slot[q]) /\ slot[q].t \in Tasks
          BY <1>0, <1>1, <3>1, <4>2 DEF TypeInv, SlotOK, Owns
        <5>2. /\ slot[q].n \in Ordinals(slot[q].t) /\ att[slot[q].t][slot[q].n] # "none"
              /\ slot[q].pc # "dispatch" => att[slot[q].t][slot[q].n] # "prepared"
          BY <5>1 DEF IInv, AttInv, OwnerInv
        <5> QED BY <2>3, <5>1, <5>2
      <4> QED BY <4>1, <4>2
    <3>2. \A q, r \in Slots : q # r /\ Owns(slot'[q]) /\ Owns(slot'[r]) =>
            slot'[q].t # slot'[r].t \/ slot'[q].n # slot'[r].n
      BY <3>1, SMTT(30) DEF OwnerInv, IInv, AttInv
    <3> QED BY <3>1, <3>2 DEF OwnerInv, Ordinals
  <2>6. PlanInv'
    BY <1>1, <1>2 DEF PlanInv, InTurn
  <2>7. \A u \in Tasks : \A m \in Ordinals(u) :
          /\ att'[u][m] = "none" <=> att[u][m] = "none"
          /\ att'[u][m] = "succeeded" <=> att[u][m] = "succeeded"
          /\ att'[u][m] \in {"prepared", "dispatched"} <=> att[u][m] \in {"prepared", "dispatched"}
    BY <1>6, <2>3
  <2>8. KeyInv' /\ OneInAir'
    <3>1. \A u \in Tasks : Unsettled(u)' = Unsettled(u)
      BY <2>7 DEF Unsettled, Ordinals
    <3>2. OneInAir'
      BY <3>1 DEF OneInAir, IInv, AttInv
    <3>3. KeyInv'
      <4>1. key' = key
        BY <1>0
      <4> SUFFICES ASSUME NEW u \in Tasks, NEW m \in Ordinals(u), att'[u][m] # "none"
                   PROVE  /\ key[u][m] \in Keys(u)
                          /\ \A l \in Ordinals(u) : l # m /\ att'[u][l] # "none" => key[u][l] # key[u][m]
        BY <1>0, <4>1 DEF KeyInv, Keys, Ordinals
      <4> QED BY <2>7 DEF IInv, AttInv, KeyInv
    <3> QED BY <3>2, <3>3
  <2>9. CountersMatchAttempts'
    <3> SUFFICES ASSUME NEW u \in Tasks
                 PROVE  task'[u].succ = Cardinality(Verified(u)') /\ task'[u].count <= Cardinality(Dispatched(u)')
      BY DEF CountersMatchAttempts, Verified, Dispatched, Ordinals
    <3>1. Verified(u)' = Verified(u)
      BY <2>7 DEF Verified, Ordinals
    <3>2. task[u].succ = Cardinality(Verified(u)) /\ task[u].count <= Cardinality(Dispatched(u))
      BY CountersForm DEF IInv
    <3>3. CASE u # t
      <4>1. Dispatched(u)' = Dispatched(u)
        BY <2>3, <3>3 DEF Dispatched, Ordinals
      <4> QED BY <2>3, <3>1, <3>2, <3>3, <4>1
    <3>4. CASE u = t
      <4>1. Dispatched(u)' = Dispatched(u) \cup {n} /\ n \notin Dispatched(u)
        BY <1>0, <1>6, <2>3, <3>4 DEF Dispatched, Ordinals
      <4>2. Cardinality(Dispatched(u)') = Cardinality(Dispatched(u)) + 1
        BY <4>1, CountedFinite, FS_AddElement
      <4>3. task[t].count \in Nat /\ Cardinality(Dispatched(u)) \in Nat
        BY <1>0, CountedFinite DEF TypeInv, TaskRec
      <4> QED BY <2>2, <2>3, <3>1, <3>2, <3>4, <4>2, <4>3
    <3> QED BY <3>3, <3>4
  <2>10. EarnedInv'
    <3>1. \A u \in Tasks : task'[u].succ = task[u].succ /\ task'[u].status = task[u].status
      BY <2>2, <2>3
    <3>2. \A q \in Slots : slot'[q].pc \in {"complete", "completing"} => slot'[q] = slot[q] /\ slot'[q].t \in Tasks
      BY <1>1, <1>3 DEF SlotOK
    <3> QED BY <3>1, <3>2 DEF IInv, EarnedInv, CompletedIsEarned
  <2> QED BY <1>4, <2>4, <2>5, <2>6, <2>8, <2>9, <2>10 DEF IInv, AttInv
<1> QED BY <1>5, <1>6

\* An attempt is settled, or withdrawn by the one tick that may.
LEMMA FinishKeeps ==
    ASSUME IInv, NEW s \in Slots, FinishAttempt(s), NEW t \in Tasks, NEW n \in Nat,
           t = slot[s].t, n = slot[s].n
    PROVE  IInv'
<1> USE TaskAssumption
<1> DEFINE res == slot[s].res
           new == AttemptAfter(res)
           row == FinishedTask(task[t], res, att[t][n] = "dispatched")
<1>0. /\ TypeInv /\ slot[s].pc = "finish" /\ res \in Settlements \ {"waiting"} /\ task[t] \in TaskRec
      /\ n \in Ordinals(t) /\ att[t][n] \in {"prepared", "dispatched"}
      /\ att' = [att EXCEPT ![t][n] = new]
      /\ key' = [key EXCEPT ![t][n] = IF new = "none" THEN 0 ELSE @]
      /\ task' = [task EXCEPT ![t] = row] /\ AfterFinish(s, row.succ)
      /\ UNCHANGED <<due, buried, fixed, up, adm, op, ops, crashes>>
  BY DEF IInv, TypeInv, SlotOK, FinishAttempt, Settleable, Unsettled
<1>1. /\ new \in {"none", "succeeded", "closed", "unknown"}
      /\ new = "succeeded" <=> res = "success"
      /\ new = "none" => res \in {"recovered", "not_started"}
  BY <1>0 DEF AttemptAfter, Settlements, Results
<1>2. /\ row \in TaskRec /\ row.status = task[t].status
      /\ row.succ = task[t].succ + IF new = "succeeded" THEN 1 ELSE 0
      /\ row.count = IF new = "none" /\ att[t][n] = "dispatched" /\ task[t].count > 0
                     THEN task[t].count - 1 ELSE task[t].count
  <2>1. FinishedTask(task[t], res, att[t][n] = "dispatched") =
          [task[t] EXCEPT !.succ = task[t].succ + IF res = "success" THEN 1 ELSE 0,
                          !.count = IF new = "none" /\ att[t][n] = "dispatched" /\ task[t].count > 0
                                    THEN task[t].count - 1 ELSE task[t].count]
    BY <1>0 DEF FinishedTask, TaskRec
  <2> HIDE DEF new, res
  <2>2. task[t].succ \in Nat /\ task[t].count \in Nat
    BY <1>0 DEF TaskRec
  <2>3. /\ (task[t].succ + IF res = "success" THEN 1 ELSE 0) \in Nat
        /\ (IF new = "none" /\ att[t][n] = "dispatched" /\ task[t].count > 0
                                    THEN task[t].count - 1 ELSE task[t].count) \in Nat
    BY <2>2
  <2> QED BY <1>0, <1>1, <2>1, <2>3, ZenonT(30) DEF TaskRec
<1> HIDE DEF new, row, res
<1>3. /\ Moved(s) /\ slot'[s].pc \in {"settled", "release", "complete"}
      /\ slot'[s].pc = "complete" => slot'[s].res # "completed"
  <2>1. row.succ \in Nat
    BY <1>2 DEF TaskRec
  <2> QED BY <1>0, <2>1, AfterFinishFacts
<1>4. /\ slot' \in [Slots -> SlotRec] /\ \A q \in Slots \ {s} : slot'[q] = slot[q]
      /\ \A q \in Slots : SlotOK(slot'[q])
  BY <1>0, <1>3 DEF Moved, TypeInv
<1>5. ~InTurn(slot'[s]) /\ ~Owns(slot'[s]) /\ slot'[s].pc \notin {"start", "finish"}
  BY <1>3 DEF InTurn, Owns
<1>6. /\ \A u \in Tasks : u # t => att'[u] = att[u] /\ key'[u] = key[u] /\ task'[u] = task[u]
      /\ \A m \in Ordinals(t) : m # n => att'[t][m] = att[t][m] /\ key'[t][m] = key[t][m]
      /\ att'[t][n] = new /\ task'[t] = row /\ (new # "none" => key'[t][n] = key[t][n])
  BY <1>0 DEF TypeInv
<1>7. TypeInv'
  <2>1. att' = [u \in Tasks |-> att'[u]] /\ key' = [u \in Tasks |-> key'[u]]
    BY <1>0 DEF TypeInv
  <2>2. \A u \in Tasks : att'[u] \in [Ordinals(u) -> AttemptStatus]
    BY <1>0, <1>1 DEF TypeInv, AttemptStatus
  <2>3. \A u \in Tasks : key'[u] \in [Ordinals(u) -> Nat]
    BY <1>0 DEF TypeInv
  <2>4. task' \in [Tasks -> TaskRec]
    BY <1>0, <1>2 DEF TypeInv
  <2> QED BY <1>0, <1>4, <2>1, <2>2, <2>3, <2>4 DEF TypeInv, Ordinals
<1>8. TurnInv'
  BY <1>0, <1>4, <1>5 DEF IInv, TurnInv
<1>9. OwnerInv'
  <2>1. ASSUME NEW q \in Slots, Owns(slot'[q])
        PROVE  /\ q # s /\ slot'[q].n \in Ordinals(slot'[q].t) /\ att'[slot'[q].t][slot'[q].n] # "none"
               /\ slot'[q].pc # "dispatch" => att'[slot'[q].t][slot'[q].n] # "prepared"
    <3>1. q # s /\ slot'[q] = slot[q] /\ Owns(slot[q]) /\ slot[q].t \in Tasks
      BY <1>0, <1>4, <1>5, <2>1 DEF TypeInv, SlotOK, Owns
    <3>2. /\ slot[q].n \in Ordinals(slot[q].t) /\ att[slot[q].t][slot[q].n] # "none"
          /\ slot[q].pc # "dispatch" => att[slot[q].t][slot[q].n] # "prepared"
      BY <3>1 DEF IInv, AttInv, OwnerInv
    <3>3. CASE slot[q].t # t \/ slot[q].n # n
      BY <1>6, <3>1, <3>2, <3>3
    <3>4. CASE slot[q].t = t /\ slot[q].n = n
      <4>1. new # "none"
        <5>1. res # "not_started"
          BY <1>0, <3>1, <3>4 DEF IInv, AttInv, OwnerInv, Owns, res
        <5>2. CASE res = "recovered"
          <6>1. adm = s /\ att[t][n] # "dispatched"
            BY <1>0, <5>2 DEF IInv, TurnInv, InTurn, AttInv, PlanInv, res
          <6>2. slot[q].pc \notin {"dispatch", "mark"}
            BY <3>1, <6>1 DEF IInv, TurnInv, InTurn
          <6> QED BY <1>0, <3>1, <3>2, <3>4, <6>1, <6>2 DEF Owns
        <5> QED BY <1>1, <5>1, <5>2
      <4> QED BY <1>1, <1>6, <3>1, <3>2, <3>4, <4>1
    <3> QED BY <3>3, <3>4
  <2>2. \A q, r \in Slots : q # r /\ Owns(slot'[q]) /\ Owns(slot'[r]) =>
          slot'[q].t # slot'[r].t \/ slot'[q].n # slot'[r].n
    BY <1>4, <2>1 DEF IInv, AttInv, OwnerInv
  <2> QED BY <2>1, <2>2 DEF OwnerInv, Ordinals
<1>10. \A u \in Tasks : \A m \in Ordinals(u) :
         \/ att'[u][m] = att[u][m] /\ key'[u][m] = key[u][m]
         \/ u = t /\ m = n /\ att'[u][m] = new
  BY <1>6
<1>11. PlanInv'
  <2>1. \A u \in Tasks : Unsettled(u)' \subseteq Unsettled(u)
    BY <1>1, <1>10 DEF Unsettled, Ordinals
  <2>2. ASSUME NEW q \in Slots, slot'[q].pc = "start"
        PROVE  /\ {m \in Ordinals(slot'[q].t) : att'[slot'[q].t][m] \in {"prepared", "dispatched"}} = {}
               /\ slot'[q].seen.count < MaxAttempts[slot'[q].t]
    <3>1. slot'[q] = slot[q] /\ slot[q].t \in Tasks /\ slot[q].pc = "start"
      BY <1>0, <1>4, <1>5, <2>2 DEF TypeInv, SlotOK
    <3>2. Unsettled(slot[q].t) = {} /\ slot[q].seen.count < MaxAttempts[slot[q].t]
      BY <3>1 DEF IInv, AttInv, PlanInv
    <3> QED BY <1>1, <1>10, <3>1, <3>2 DEF Unsettled
  <2>3. ASSUME NEW q \in Slots, slot'[q].pc = "finish", slot'[q].res = "recovered"
        PROVE  slot'[q].n \in Ordinals(slot'[q].t) /\ att'[slot'[q].t][slot'[q].n] # "dispatched"
    <3>1. slot'[q] = slot[q] /\ slot[q].t \in Tasks /\ slot[q].pc = "finish" /\ slot[q].res = "recovered"
      BY <1>0, <1>4, <1>5, <2>3 DEF TypeInv, SlotOK
    <3>2. slot[q].n \in Ordinals(slot[q].t) /\ att[slot[q].t][slot[q].n] # "dispatched"
      BY <3>1 DEF IInv, AttInv, PlanInv
    <3> QED BY <1>1, <1>10, <3>1, <3>2
  <2> QED BY <2>2, <2>3 DEF PlanInv, Unsettled, Ordinals
<1>12. KeyInv'
  <2>1. \A u \in Tasks : \A m \in Ordinals(u) : att'[u][m] # "none" =>
          att[u][m] # "none" /\ key'[u][m] = key[u][m]
    BY <1>0, <1>6
  <2> SUFFICES ASSUME NEW u \in Tasks, NEW m \in Ordinals(u), att'[u][m] # "none"
               PROVE  /\ key'[u][m] \in Keys(u)
                      /\ \A l \in Ordinals(u) : l # m /\ att'[u][l] # "none" => key'[u][l] # key'[u][m]
    BY <1>0 DEF KeyInv, Ordinals, Keys
  <2> QED BY <2>1 DEF IInv, AttInv, KeyInv
<1>13. OneInAir'
  <2>1. \A u \in Tasks : Unsettled(u)' \subseteq Unsettled(u)
    BY <1>1, <1>10 DEF Unsettled, Ordinals
  <2> QED BY <2>1 DEF IInv, AttInv, OneInAir
<1>14. CountersMatchAttempts'
  <2> SUFFICES ASSUME NEW u \in Tasks
               PROVE  task'[u].succ = Cardinality(Verified(u)') /\ task'[u].count <= Cardinality(Dispatched(u)')
    BY DEF CountersMatchAttempts, Verified, Dispatched, Ordinals
  <2>1. task[u].succ = Cardinality(Verified(u)) /\ task[u].count <= Cardinality(Dispatched(u))
    BY CountersForm DEF IInv
  <2>2. /\ IsFiniteSet(Verified(u)) /\ Cardinality(Verified(u)) \in Nat
        /\ IsFiniteSet(Dispatched(u)) /\ Cardinality(Dispatched(u)) \in Nat /\ task[u].count \in Nat
    BY <1>0, CountedFinite DEF TypeInv, TaskRec
  <2>3. CASE u # t
    <3>1. Verified(u)' = Verified(u) /\ Dispatched(u)' = Dispatched(u)
      BY <1>6, <2>3 DEF Verified, Dispatched, Ordinals
    <3> QED BY <1>6, <2>1, <2>3, <3>1
  <2>4. CASE u = t
    <3>1. task'[u].succ = Cardinality(Verified(u)')
      <4>1. CASE new = "succeeded"
        <5>1. Verified(u)' = Verified(u) \cup {n} /\ n \notin Verified(u)
          BY <1>0, <1>6, <2>4, <4>1 DEF Verified, Ordinals
        <5>2. Cardinality(Verified(u)') = Cardinality(Verified(u)) + 1
          BY <2>2, <5>1, FS_AddElement
        <5> QED BY <1>2, <1>6, <2>1, <2>4, <4>1, <5>2
      <4>2. CASE new # "succeeded"
        <5>1. Verified(u)' = Verified(u)
          BY <1>0, <1>6, <2>4, <4>2 DEF Verified, Ordinals
        <5> QED BY <1>2, <1>6, <2>1, <2>2, <2>4, <4>2, <5>1
      <4> QED BY <4>1, <4>2
    <3>2. task'[u].count <= Cardinality(Dispatched(u)')
      <4>1. CASE new # "none"
        <5>1. Dispatched(u)' = Dispatched(u) \cup {n}
          BY <1>0, <1>1, <1>6, <2>4, <4>1 DEF Dispatched, Ordinals
        <5>2. Cardinality(Dispatched(u)') \in Nat /\ Cardinality(Dispatched(u)') >= Cardinality(Dispatched(u))
          <6>1. Cardinality(Dispatched(u) \cup {n}) = IF n \in Dispatched(u) THEN Cardinality(Dispatched(u))
                                                      ELSE Cardinality(Dispatched(u)) + 1
            BY <2>2, FS_AddElement
          <6> QED BY <2>2, <5>1, <6>1
        <5>3. task'[u].count = task[u].count
          BY <1>2, <1>6, <2>4, <4>1
        <5> QED BY <2>1, <2>2, <5>2, <5>3
      <4>2. CASE new = "none" /\ att[t][n] = "prepared"
        <5>1. Dispatched(u)' = Dispatched(u)
          BY <1>0, <1>6, <2>4, <4>2 DEF Dispatched, Ordinals
        <5>2. task'[u].count = task[u].count
          BY <1>2, <1>6, <2>4, <4>2
        <5> QED BY <2>1, <5>1, <5>2
      <4>3. CASE new = "none" /\ att[t][n] = "dispatched"
        <5>1. Dispatched(u)' = Dispatched(u) \ {n} /\ n \in Dispatched(u)
          BY <1>0, <1>6, <2>4, <4>3 DEF Dispatched, Ordinals
        <5>2. Cardinality(Dispatched(u)') = Cardinality(Dispatched(u)) - 1
          <6>1. Cardinality(Dispatched(u) \ {n}) = IF n \in Dispatched(u) THEN Cardinality(Dispatched(u)) - 1
                                                   ELSE Cardinality(Dispatched(u))
            BY <2>2, FS_RemoveElement
          <6> QED BY <5>1, <6>1
        <5>3. Cardinality(Dispatched(u)') \in Nat
          BY <2>2, <5>1, FS_RemoveElement, FS_CardinalityType
        <5>4. task'[u].count = IF task[u].count > 0 THEN task[u].count - 1 ELSE task[u].count
          BY <1>2, <1>6, <2>4, <4>3
        <5> QED BY <2>1, <2>2, <5>2, <5>3, <5>4
      <4> QED BY <1>0, <4>1, <4>2, <4>3
    <3> QED BY <3>1, <3>2
  <2> QED BY <2>3, <2>4
<1>15. EarnedInv'
  <2>1. \A u \in Tasks : /\ task[u].succ \in Nat /\ task'[u].succ \in Nat /\ Target[u] \in Nat
                         /\ task'[u].succ >= task[u].succ /\ task'[u].status = task[u].status
    <3>1. \A u \in Tasks : task[u].succ \in Nat /\ Target[u] \in Nat
      BY <1>0 DEF TypeInv, TaskRec
    <3>2. row.succ \in Nat /\ row.succ >= task[t].succ /\ row.status = task[t].status
      BY <1>2, <3>1
    <3> QED BY <1>6, <3>1, <3>2
  <2>2. CompletedIsEarned'
    BY <2>1 DEF IInv, EarnedInv, CompletedIsEarned
  <2>3. ASSUME NEW q \in Slots, slot'[q].pc \in {"complete", "completing"}, slot'[q].res = "completed"
        PROVE  task'[slot'[q].t].succ >= Target[slot'[q].t]
    <3>1. slot'[q] = slot[q] /\ slot[q].t \in Tasks
      BY <1>0, <1>3, <1>4, <2>3 DEF TypeInv, SlotOK
    <3>2. task[slot[q].t].succ >= Target[slot[q].t]
      BY <2>3, <3>1 DEF IInv, EarnedInv
    <3> QED BY <2>1, <3>1, <3>2
  <2> QED BY <2>2, <2>3 DEF EarnedInv
<1> QED BY <1>7, <1>8, <1>9, <1>11, <1>12, <1>13, <1>14, <1>15 DEF IInv, AttInv

-----------------------------------------------------------------------------
(* The steps of operators and of time *)

\* Steps that leave the ticks and the attempts alone.
LEMMA OutsideKeeps ==
    ASSUME IInv, RowsKept, UNCHANGED <<att, key, fixed, adm, slot>>, due' \subseteq Tasks, buried' \subseteq Tasks, up' \in BOOLEAN,
           op' \in [Operators -> OpRec], \A o \in Operators : OpOK(op'[o]), ops' \in Nat, crashes' \in Nat
    PROVE  IInv'
<1> USE TaskAssumption
<1>1. TypeInv'
  BY DEF IInv, TypeInv, RowsKept, Ordinals
<1>2. TurnInv' /\ AttInv'
  BY DEF IInv, TurnInv, AttInv, OwnerInv, PlanInv, KeyInv, Keys, OneInAir, Unsettled, Ordinals
<1>3. CountersMatchAttempts'
  BY ZenonT(30) DEF IInv, CountersMatchAttempts, RowsKept, Ordinals
<1>4. EarnedInv'
  <2>1. \A s \in Slots : slot[s].pc \in {"complete", "completing"} => slot[s].t \in Tasks
    BY DEF IInv, TypeInv, SlotOK
  <2> QED BY <2>1 DEF IInv, EarnedInv, CompletedIsEarned, RowsKept
<1> QED BY <1>1, <1>2, <1>3, <1>4 DEF IInv

\* What a request writes is a row with the progress it found, and not a completed one.
LEMMA OperatorRow ==
    ASSUME TypeInv, NEW o \in Operators, OperatorWrites(o)
    PROVE  \E r \in TaskRec : /\ op[o].t \in Tasks /\ task' = [task EXCEPT ![op[o].t] = r]
                              /\ r.succ = task[op[o].t].succ /\ r.count = task[op[o].t].count
                              /\ r.status \in {task[op[o].t].status} \cup (Status \ {"completed"})
<1> USE DEF Status, Terminal, Claimed
<1> DEFINE t == op[o].t
<1>1. /\ t \in Tasks /\ op[o].kind \in {"pause", "resume", "cancel", "complete"} /\ op[o].reconcile \in BOOLEAN
      /\ op[o].kind = "pause" => op[o].st \in Status \ Terminal
      /\ op[o].kind = "complete" => op[o].st \in {"partially_completed", "cancelled"}
      /\ task[t] \in TaskRec
  BY DEF TypeInv, OpRec, OpOK, OperatorWrites
<1>2. task' = [task EXCEPT ![t] =
                  CASE op[o].kind = "pause" -> PausedTask(task[t], op[o].st, op[o].reconcile)
                    [] op[o].kind = "resume" -> [task[t] EXCEPT !.paused = FALSE, !.status = "queued",
                                                          !.reconcile = FALSE]
                    [] op[o].kind = "cancel" -> [task[t] EXCEPT !.cancel = TRUE]
                    [] op[o].kind = "complete" -> CompletedTask(task[t], op[o].st)]
  BY <1>1 DEF OperatorWrites, TypeInv
<1> HIDE DEF t
<1>3. CASE op[o].kind = "pause"
  <2>1. task' = [task EXCEPT ![t] = PausedTask(task[t], op[o].st, op[o].reconcile)]
    BY <1>2, <1>3
  <2>2. /\ PausedTask(task[t], op[o].st, op[o].reconcile) \in TaskRec
        /\ PausedTask(task[t], op[o].st, op[o].reconcile).succ = task[t].succ
        /\ PausedTask(task[t], op[o].st, op[o].reconcile).count = task[t].count
        /\ PausedTask(task[t], op[o].st, op[o].reconcile).status \in Status \ {"completed"}
    <3>1. CASE op[o].st \in {"queued", "deferred", "awaiting_confirmation"}
      BY <1>1, <3>1 DEF PausedTask, TaskRec
    <3>2. CASE op[o].st \notin {"queued", "deferred", "awaiting_confirmation"}
      BY <1>1, <1>3, <3>2 DEF PausedTask, TaskRec
    <3> QED BY <3>1, <3>2
  <2> QED BY <1>1, <2>1, <2>2 DEF t
<1>4. CASE op[o].kind = "resume"
  <2> DEFINE r == [task[t] EXCEPT !.paused = FALSE, !.status = "queued", !.reconcile = FALSE]
  <2>1. task' = [task EXCEPT ![t] = r]
    BY <1>2, <1>4
  <2>2. r \in TaskRec /\ r.succ = task[t].succ /\ r.count = task[t].count /\ r.status = "queued"
    BY <1>1 DEF TaskRec
  <2> HIDE DEF r
  <2> QED BY <1>1, <2>1, <2>2 DEF t
<1>5. CASE op[o].kind = "cancel"
  <2> DEFINE r == [task[t] EXCEPT !.cancel = TRUE]
  <2>1. task' = [task EXCEPT ![t] = r]
    BY <1>2, <1>5
  <2>2. r \in TaskRec /\ r.succ = task[t].succ /\ r.count = task[t].count /\ r.status = task[t].status
    BY <1>1 DEF TaskRec
  <2> HIDE DEF r
  <2> QED BY <1>1, <2>1, <2>2 DEF t
<1>6. CASE op[o].kind = "complete"
  <2>1. task' = [task EXCEPT ![t] = CompletedTask(task[t], op[o].st)] /\ op[o].st \in Status \ {"completed"}
    BY <1>1, <1>2, <1>6
  <2> HIDE DEF Status
  <2>2. /\ CompletedTask(task[t], op[o].st) \in TaskRec
        /\ CompletedTask(task[t], op[o].st).status = op[o].st
        /\ CompletedTask(task[t], op[o].st).succ = task[t].succ
        /\ CompletedTask(task[t], op[o].st).count = task[t].count
    BY <1>1, <2>1, CompletedRow
  <2> QED BY <1>1, <2>1, <2>2 DEF t
<1> QED BY <1>1, <1>3, <1>4, <1>5, <1>6

\* A recovered row keeps its progress, and recovery completes nothing.
LEMMA RecoveredRow ==
    ASSUME NEW r \in TaskRec
    PROVE  /\ RecoveredTask(r) \in TaskRec /\ RecoveredTask(r).succ = r.succ /\ RecoveredTask(r).count = r.count
           /\ RecoveredTask(r).status = "completed" <=> r.status = "completed"
<1> USE DEF TaskRec, Status, Claimed, Terminal, Honest
<1>1. CASE r.status \notin Claimed
  BY <1>1 DEF RecoveredTask
<1>2. CASE r.status \in Claimed
  <2> DEFINE st == IF r.cancel THEN Honest(r.succ, "cancelled") ELSE IF r.paused THEN "deferred" ELSE "queued"
  <2>1. st \in {"partially_completed", "cancelled", "deferred", "queued"}
    OBVIOUS
  <2>2. RecoveredTask(r) = [r EXCEPT !.status = st, !.holder = None, !.expired = FALSE, !.reconcile = FALSE]
    BY <1>2 DEF RecoveredTask
  <2> HIDE DEF st
  <2> QED BY <1>2, <2>1, <2>2
<1> QED BY <1>1, <1>2

\* One row changed by an operator, a timer or a deadline.
LEMMA RowKeeps ==
    ASSUME IInv, NEW t \in Tasks, NEW r \in TaskRec, task' = [task EXCEPT ![t] = r],
           r.succ = task[t].succ, r.count = task[t].count,
           r.status \in {task[t].status} \cup (Status \ {"completed"}),
           UNCHANGED <<att, key, due, buried, fixed, up, adm, slot, op, ops, crashes>>
    PROVE  IInv'
<1>1. RowsKept
  BY RowStep DEF IInv
<1>2. /\ due' \subseteq Tasks /\ buried' \subseteq Tasks /\ up' \in BOOLEAN /\ op' \in [Operators -> OpRec]
      /\ ops' \in Nat /\ crashes' \in Nat /\ \A o \in Operators : OpOK(op'[o])
  BY DEF IInv, TypeInv
<1> QED BY <1>1, <1>2, OutsideKeeps

LEMMA RequestKeeps ==
    ASSUME IInv, NEW o \in Operators, NEW t \in Tasks, NEW kind \in {"pause", "resume", "cancel", "complete"},
           NEW st \in Status \cup {None}, Requests(o, t, kind, st),
           kind = "pause" => st \in Status \ Terminal,
           kind = "complete" => st \in {"partially_completed", "cancelled"}
    PROVE  IInv'
<1> DEFINE r == [kind |-> kind, t |-> t, st |-> st, reconcile |-> task[t].reconcile]
<1>1. TypeInv /\ task[t] \in TaskRec
  BY DEF IInv, TypeInv
<1>2. r \in OpRec /\ OpOK(r)
  BY <1>1 DEF OpRec, OpOK, TaskRec
<1>3. op' = [op EXCEPT ![o] = r] /\ ops' = ops + 1 /\ UNCHANGED <<task, att, key, due, buried, fixed, up, adm, slot, crashes>>
  BY DEF Requests
<1> HIDE DEF r
<1>4. op' \in [Operators -> OpRec] /\ \A q \in Operators : OpOK(op'[q])
  BY <1>1, <1>2, <1>3 DEF TypeInv
<1>5. RowsKept
  BY <1>1, <1>3 DEF RowsKept, TypeInv
<1> QED BY <1>1, <1>3, <1>4, <1>5, OutsideKeeps DEF TypeInv

LEMMA OutsideStep ==
    ASSUME IInv,
           \/ \E t \in Tasks : Create(t) \/ Confirm(t) \/ LeaseExpires(t) \/ DeadlinePasses(t) \/ RowsInserted(t)
           \/ \E o \in Operators :
                \/ \E t \in Tasks : PauseReads(o, t) \/ ResumeReads(o, t) \/ CancelReads(o, t)
                \/ OperatorWrites(o)
           \/ Restart
    PROVE  IInv'
<1> USE DEF Status, Terminal, Claimed
<1>0. TypeInv /\ \A t \in Tasks : task[t] \in TaskRec
  BY DEF IInv, TypeInv
<1>1. ASSUME NEW t \in Tasks, Create(t) \/ Confirm(t) PROVE IInv'
  <2>1. \E st \in {"awaiting_confirmation", "queued"} : task' = [task EXCEPT ![t] = [task[t] EXCEPT !.status = st]]
    BY <1>0, <1>1 DEF Create, Confirm, TypeInv
  <2>2. PICK st \in {"awaiting_confirmation", "queued"} : task' = [task EXCEPT ![t] = [task[t] EXCEPT !.status = st]]
    BY <2>1
  <2> DEFINE r == [task[t] EXCEPT !.status = st]
  <2>3. r \in TaskRec /\ r.succ = task[t].succ /\ r.count = task[t].count /\ r.status = st
    BY <1>0 DEF TaskRec
  <2>4. UNCHANGED <<att, key, due, buried, fixed, up, adm, slot, op, ops, crashes>>
    BY <1>1 DEF Create, Confirm
  <2> HIDE DEF r
  <2>5. task' = [task EXCEPT ![t] = r]
    BY <2>2 DEF r
  <2> QED BY <2>3, <2>4, <2>5, RowKeeps
<1>2. ASSUME NEW t \in Tasks, LeaseExpires(t) PROVE IInv'
  <2> DEFINE r == [task[t] EXCEPT !.expired = TRUE]
  <2>1. r \in TaskRec /\ r.succ = task[t].succ /\ r.count = task[t].count /\ r.status = task[t].status
    BY <1>0 DEF TaskRec
  <2>2. task' = [task EXCEPT ![t] = r]
    BY <1>0, <1>2 DEF LeaseExpires, TypeInv
  <2>4. UNCHANGED <<att, key, due, buried, fixed, up, adm, slot, op, ops, crashes>>
    BY <1>2 DEF LeaseExpires
  <2> HIDE DEF r
  <2> QED BY <2>1, <2>2, <2>4, RowKeeps
<1>3. ASSUME NEW t \in Tasks, DeadlinePasses(t) \/ RowsInserted(t) PROVE IInv'
  <2>1. RowsKept
    BY <1>0, <1>3 DEF DeadlinePasses, RowsInserted, RowsKept, TypeInv
  <2> QED BY <1>0, <1>3, <2>1, OutsideKeeps DEF DeadlinePasses, RowsInserted, TypeInv
<1>4. ASSUME NEW o \in Operators, NEW t \in Tasks, PauseReads(o, t) PROVE IInv'
  <2> DEFINE st == task[t].status
  <2>1. Requests(o, t, "pause", st)
    BY <1>4 DEF PauseReads
  <2>2. st \in Status \ Terminal
    BY <1>0, <2>1 DEF Requests, TaskRec
  <2> HIDE DEF st, Status, Terminal
  <2> QED BY <2>1, <2>2, RequestKeeps
<1>5. ASSUME NEW o \in Operators, NEW t \in Tasks, ResumeReads(o, t) PROVE IInv'
  <2>1. Requests(o, t, "resume", None)
    BY <1>5 DEF ResumeReads
  <2> QED BY <2>1, RequestKeeps
<1>6. ASSUME NEW o \in Operators, NEW t \in Tasks, CancelReads(o, t) PROVE IInv'
  <2>1. CASE Requests(o, t, "cancel", None)
    BY <2>1, RequestKeeps
  <2>2. CASE Requests(o, t, "complete", Honest(task[t].succ, "cancelled"))
    <3>1. Honest(task[t].succ, "cancelled") \in {"partially_completed", "cancelled"}
      BY DEF Honest
    <3> QED BY <2>2, <3>1, RequestKeeps
  <2> QED BY <1>6, <2>1, <2>2 DEF CancelReads
<1>7. ASSUME NEW o \in Operators, OperatorWrites(o) PROVE IInv'
  <2>1. PICK r \in TaskRec : /\ op[o].t \in Tasks /\ task' = [task EXCEPT ![op[o].t] = r]
                             /\ r.succ = task[op[o].t].succ /\ r.count = task[op[o].t].count
                             /\ r.status \in {task[op[o].t].status} \cup (Status \ {"completed"})
    BY <1>0, <1>7, OperatorRow
  <2>2. RowsKept
    BY <1>0, <2>1, RowStep
  <2>3. op' = [op EXCEPT ![o] = NoOp] /\ UNCHANGED <<att, key, due, buried, fixed, up, adm, slot, ops, crashes>>
    BY <1>7 DEF OperatorWrites
  <2>4. NoOp \in OpRec /\ OpOK(NoOp)
    BY DEF NoOp, OpRec, OpOK
  <2>5. op' \in [Operators -> OpRec] /\ \A q \in Operators : OpOK(op'[q])
    BY <1>0, <2>3, <2>4 DEF TypeInv
  <2> QED BY <1>0, <2>2, <2>3, <2>5, OutsideKeeps DEF TypeInv
<1>8. CASE Restart
  <2>1. task' = [t \in Tasks |-> RecoveredTask(task[t])] /\ up' = TRUE
        /\ UNCHANGED <<att, key, due, buried, fixed, adm, slot, op, ops, crashes>>
    BY <1>8 DEF Restart
  <2>2. \A t \in Tasks : /\ RecoveredTask(task[t]) \in TaskRec /\ RecoveredTask(task[t]).succ = task[t].succ
                         /\ RecoveredTask(task[t]).count = task[t].count
                         /\ RecoveredTask(task[t]).status = "completed" <=> task[t].status = "completed"
    BY <1>0, RecoveredRow
  <2>3. RowsKept
    BY <2>1, <2>2 DEF RowsKept
  <2> QED BY <1>0, <2>1, <2>3, OutsideKeeps DEF TypeInv
<1> QED BY <1>1, <1>2, <1>3, <1>4, <1>5, <1>6, <1>7, <1>8

-----------------------------------------------------------------------------
(* The invariant *)

LEMMA ProcessStep ==
    ASSUME IInv, NEW s \in Slots, Process(s)
    PROVE  IInv'
<1>1. CASE ReadsFresh(s)
  BY <1>1, FreshCalm, CalmIInv DEF ReadsFresh
<1>2. CASE DiscardPrepared(s) \/ ReconcileDispatched(s) \/ PlanAttempt(s)
  BY <1>2, PlanCalm, CalmIInv DEF DiscardPrepared, ReconcileDispatched, PlanAttempt
<1>3. CASE StartAttempt(s)
  BY <1>3, StartKeeps
<1>4. CASE StartThrows(s) \/ FinishThrows(s)
  BY <1>4, DeathKeeps DEF StartThrows, FinishThrows, IInv, TypeInv
<1>5. slot[s].n \in Nat
  BY DEF IInv, TypeInv, SlotRec
<1>6. CASE MarkDispatched(s)
  <2>1. slot[s].t \in Tasks
    BY <1>6 DEF IInv, TypeInv, SlotOK, MarkDispatched
  <2> QED BY <1>5, <1>6, <2>1, DispatchKeeps
<1>7. CASE MarkExecuting(s) \/ ExecReturns(s)
  BY <1>7, ExecCalm, CalmIInv DEF MarkExecuting, ExecReturns
<1>8. CASE ApprovalReads(s) \/ ReleaseWaiting(s) \/ FinishWithoutAttempt(s)
  BY <1>8, AnswerCalm, CalmIInv DEF ApprovalReads, ReleaseWaiting, FinishWithoutAttempt
<1>9. CASE FinishAttempt(s)
  <2>1. slot[s].t \in Tasks
    BY <1>9 DEF IInv, TypeInv, SlotOK, FinishAttempt
  <2> QED BY <1>5, <1>9, <2>1, FinishKeeps
<1>10. CASE AfterSettled(s)
  BY <1>10, SettledCalm, CalmIInv DEF AfterSettled
<1>11. CASE CompleteReads(s) \/ ReleaseReads(s)
  <2>1. CASE ProcessDies
    BY <1>11, <2>1, DeathKeeps DEF CompleteReads, ReleaseReads, IInv, TypeInv
  <2>2. CASE ~ProcessDies
    <3>1. UNCHANGED <<due, buried, fixed, up, op, ops, crashes>>
      BY <1>11, <2>2 DEF CompleteReads, ReleaseReads
    <3> QED BY <1>11, <2>2, <3>1, EndCalm, CalmIInv
  <2> QED BY <2>1, <2>2
<1>12. CASE CompleteWrites(s) \/ ReleaseWrites(s)
  BY <1>12, EndCalm, CalmIInv DEF CompleteWrites, ReleaseWrites
<1> QED BY <1>1, <1>2, <1>3, <1>4, <1>6, <1>7, <1>8, <1>9, <1>10, <1>11, <1>12 DEF Process

LEMMA NextIInv == IInv /\ [Next]_vars => IInv'
<1> SUFFICES ASSUME IInv, [Next]_vars PROVE IInv'
  OBVIOUS
<1>1. ASSUME NEW s \in Slots, Tick(s) PROVE IInv'
  <2>1. UNCHANGED <<due, buried, fixed, up, op, ops, crashes>>
    BY <1>1 DEF Tick, TickBegins, ExpireReads, ExpireWrites, ClaimNext, TickEnds
  <2> QED BY <1>1, <2>1, TickCalm, CalmIInv
<1>2. CASE Crash
  BY <1>2, DeathKeeps DEF Crash, IInv, TypeInv
<1>3. CASE UNCHANGED vars
  <2>1. RowsKept
    BY <1>3 DEF vars, RowsKept, IInv, TypeInv
  <2> QED BY <1>3, <2>1, OutsideKeeps DEF vars, IInv, TypeInv
<1> QED BY <1>1, <1>2, <1>3, OutsideStep, ProcessStep DEF Next

LEMMA Invariance == Spec => []IInv
BY InitIInv, NextIInv, PTL DEF Spec

-----------------------------------------------------------------------------
(* What follows from it *)

\* The tables and ticks keep their types.
THEOREM TypeCorrect == Spec => []TypeOK
<1>1. IInv => TypeOK
  BY DEF IInv, TypeInv, TypeOK, TaskRec, SlotRec, OpRec
<1> QED BY <1>1, Invariance, PTL

\* success_count is the number of verified attempts, attempt_count covers real dispatches only.
THEOREM CountersMatch == Spec => []CountersMatchAttempts
<1>1. IInv => CountersMatchAttempts
  BY DEF IInv
<1> QED BY <1>1, Invariance, PTL

\* A task has never two attempts in the air.
THEOREM OneInTheAir == Spec => []OneUnsettled
<1>1. ASSUME IInv, NEW t \in Tasks PROVE Cardinality(Unsettled(t)) <= 1
  <2>1. \A m, n \in Unsettled(t) : m = n
    BY <1>1 DEF IInv, AttInv, OneInAir
  <2>2. CASE Unsettled(t) = {}
    <3>1. Cardinality(Unsettled(t)) = 0
      BY <2>2, FS_EmptySet, Zenon
    <3> QED BY <3>1
  <2>3. CASE Unsettled(t) # {}
    <3>1. PICK n \in Unsettled(t) : Unsettled(t) = {n}
      BY <2>1, <2>3
    <3>2. Cardinality({n}) = 1
      BY FS_Singleton
    <3> QED BY <3>1, <3>2
  <2> QED BY <2>2, <2>3
<1>2. IInv => OneUnsettled
  BY <1>1 DEF OneUnsettled
<1> QED BY <1>2, Invariance, PTL

\* While an executor runs its attempt is on record as dispatched.
THEOREM WrittenAhead == Spec => []WriteAhead
<1>1. IInv => WriteAhead
  BY DEF IInv, AttInv, OwnerInv, Owns, WriteAhead
<1> QED BY <1>1, Invariance, PTL

\* The distinct target keys bound the attempts of a task, those not yet dispatched included.
LEMMA AttemptsBounded ==
    ASSUME IInv, NEW t \in Tasks
    PROVE  LET Started == {n \in Ordinals(t) : att[t][n] # "none"} IN
             /\ IsFiniteSet(Started) /\ Cardinality(Started) \in Nat
             /\ Cardinality(Started) <= MaxAttempts[t]
<1> USE TaskAssumption
<1> DEFINE Started == {n \in Ordinals(t) : att[t][n] # "none"}
           f == [n \in Started |-> key[t][n]]
<1>1. IsFiniteSet(Started) /\ Cardinality(Started) \in Nat
  <2>1. Started \subseteq Ordinals(t)
    OBVIOUS
  <2> QED BY <2>1, OrdinalsFinite, FS_Subset, FS_CardinalityType
<1>2. f \in Injection(Started, Keys(t))
  <2>1. \A n \in Started : key[t][n] \in Keys(t)
    BY DEF IInv, AttInv, KeyInv
  <2>2. f \in [Started -> Keys(t)]
    BY <2>1
  <2>3. \A m, n \in Started : f[m] = f[n] => m = n
    BY DEF IInv, AttInv, KeyInv
  <2> QED BY <2>2, <2>3 DEF Injection, IsInjective
<1>3. IsFiniteSet(Keys(t)) /\ Cardinality(Keys(t)) <= MaxAttempts[t] /\ Cardinality(Keys(t)) \in Nat
  <2>1. CASE t \in fixed
    <3>1. Keys(t) = {0} /\ MaxAttempts[t] >= 1
      BY <2>1 DEF Keys
    <3>2. IsFiniteSet({0}) /\ Cardinality({0}) = 1
      BY FS_Singleton
    <3> QED BY <3>1, <3>2
  <2>2. CASE t \notin fixed
    <3>1. Keys(t) = 1..MaxAttempts[t] /\ MaxAttempts[t] \in Nat
      BY <2>2 DEF Keys
    <3>2. IsFiniteSet(1..MaxAttempts[t]) /\ Cardinality(1..MaxAttempts[t]) = MaxAttempts[t]
      <4>1. 1 \in Int /\ MaxAttempts[t] \in Int
        BY <3>1
      <4>2. IsFiniteSet(1..MaxAttempts[t])
            /\ Cardinality(1..MaxAttempts[t]) = IF 1 > MaxAttempts[t] THEN 0 ELSE MaxAttempts[t] - 1 + 1
        BY <4>1, FS_Interval
      <4> QED BY <3>1, <4>2
    <3> QED BY <3>1, <3>2
  <2> QED BY <2>1, <2>2
<1>4. Cardinality(Started) <= Cardinality(Keys(t))
  BY <1>2, <1>3, FS_Injection
<1>5. Cardinality(Started) <= MaxAttempts[t]
  <2>1. MaxAttempts[t] \in Nat
    OBVIOUS
  <2> HIDE DEF Started
  <2> QED BY <1>1, <1>3, <1>4, <2>1
<1> QED BY <1>1, <1>5

\* The dispatched attempts of a task stay within max_attempts, although nothing compares the two
\* when an attempt is dispatched: the unique index does.
THEOREM BudgetHolds == Spec => []BudgetRespected
<1>1. ASSUME IInv, NEW t \in Tasks PROVE task[t].count <= MaxAttempts[t]
  <2> DEFINE Started == {n \in Ordinals(t) : att[t][n] # "none"}
  <2>1. IsFiniteSet(Started) /\ Cardinality(Started) \in Nat /\ Cardinality(Started) <= MaxAttempts[t]
    BY <1>1, AttemptsBounded
  <2>2. task[t].count <= Cardinality(Dispatched(t)) /\ task[t].count \in Nat
    BY <1>1, CountersForm DEF IInv, TypeInv, TaskRec
  <2>3. Dispatched(t) \subseteq Started
    BY DEF Dispatched
  <2>4. Cardinality(Dispatched(t)) <= Cardinality(Started) /\ Cardinality(Dispatched(t)) \in Nat
    BY <2>1, <2>3, FS_Subset, CountedFinite
  <2>5. MaxAttempts[t] \in Nat
    BY TaskAssumption
  <2> HIDE DEF Started
  <2> QED BY <2>1, <2>2, <2>4, <2>5
<1>2. IInv => BudgetRespected
  BY <1>1 DEF BudgetRespected
<1> QED BY <1>2, Invariance, PTL

\* A task says completed only when its goal has been verified.
THEOREM CompletionEarned == Spec => []CompletedIsEarned
<1>1. IInv => CompletedIsEarned
  BY DEF IInv, EarnedInv
<1> QED BY <1>1, Invariance, PTL

-----------------------------------------------------------------------------
(* The contract *)

\* The values TaskContract sees.
Running == {<<slot[s].t, slot[s].n>> : s \in {r \in Slots : slot[r].pc = "exec"}}
Succs == [t \in Tasks |-> task[t].succ]
Counts == [t \in Tasks |-> task[t].count]
Completed == {t \in Tasks : task[t].status = "completed"}

\* The steps of the contract, in those values.
LEMMA StopStep ==
    ASSUME Running' \subseteq Running, UNCHANGED <<att, Succs, Counts, Completed>>
    PROVE  Contract!Next
BY Zenon DEF Contract!Next, Contract!Stop, Running, Succs, Counts, Completed

LEMMA CompleteStep ==
    ASSUME NEW t \in Tasks, UNCHANGED <<att, Running, Succs, Counts>>,
           \/ task[t].succ >= Target[t] /\ Completed' = Completed \cup {t}
           \/ Completed' = Completed \ {t}
    PROVE  Contract!Next
<1>1. Succs[t] = task[t].succ
  BY DEF Succs
<1>2. CASE task[t].succ >= Target[t] /\ Completed' = Completed \cup {t}
  <2>1. Succs[t] >= Target[t]
    BY <1>1, <1>2
  <2>2. Contract!Complete(t)
    BY <1>2, <2>1, Zenon DEF Contract!Complete, Running, Succs, Counts, Completed
  <2> QED BY <2>2, Zenon DEF Contract!Next
<1>3. CASE Completed' = Completed \ {t}
  <2>1. Contract!Reopen(t)
    BY <1>3, Zenon DEF Contract!Reopen, Running, Succs, Counts, Completed
  <2> QED BY <2>1, Zenon DEF Contract!Next
<1> QED BY <1>2, <1>3

\* An attempt of the contract is an ordinal of the task.
LEMMA AttemptStep ==
    ASSUME NEW t \in Tasks, NEW n \in Ordinals(t),
           \/ Contract!Prepare(t, n) \/ Contract!Dispatch(t, n) \/ Contract!Run(t, n) \/ Contract!Withdraw(t, n)
           \/ \E result \in {"succeeded", "closed", "unknown"} : Contract!Settle(t, n, result)
    PROVE  Contract!Next
<1>1. n \in [u \in Tasks |-> Ordinals(u)][t]
  OBVIOUS
<1> QED BY <1>1, Zenon DEF Contract!Next

LEMMA AirIsUnsettled ==
    ASSUME NEW t \in Tasks PROVE Contract!InAir(t) = Unsettled(t)
BY DEF Contract!InAir, Unsettled

LEMMA PrepareStep ==
    ASSUME NEW t \in Tasks, NEW n \in Ordinals(t), Unsettled(t) = {}, att[t][n] = "none",
           att' = [att EXCEPT ![t][n] = "prepared"], UNCHANGED <<Running, Succs, Counts, Completed>>
    PROVE  Contract!Next
<1>1. Contract!Prepare(t, n)
  BY AirIsUnsettled, Zenon DEF Contract!Prepare, Running, Succs, Counts, Completed
<1> QED BY <1>1, AttemptStep

LEMMA DispatchStep ==
    ASSUME NEW t \in Tasks, NEW n \in Ordinals(t), att[t][n] = "prepared", task[t].count < MaxAttempts[t],
           att' = [att EXCEPT ![t][n] = "dispatched"],
           \A u \in Tasks : task'[u].count = IF u = t THEN task[u].count + 1 ELSE task[u].count,
           UNCHANGED <<Running, Succs, Completed>>
    PROVE  Contract!Next
<1>1. Counts[t] < MaxAttempts[t]
  BY DEF Counts
<1>2. Counts' = [Counts EXCEPT ![t] = @ + 1]
  BY DEF Counts
<1>3. Contract!Dispatch(t, n)
  BY <1>1, <1>2, Zenon DEF Contract!Dispatch, Running, Succs, Counts, Completed
<1> QED BY <1>3, AttemptStep

LEMMA RunStep ==
    ASSUME NEW t \in Tasks, NEW n \in Ordinals(t), att[t][n] \notin {"none", "prepared"},
           Running' = Running \cup {<<t, n>>}, UNCHANGED <<att, Succs, Counts, Completed>>
    PROVE  Contract!Next
<1>1. Contract!Run(t, n)
  BY Zenon DEF Contract!Run, Running, Succs, Counts, Completed
<1> QED BY <1>1, AttemptStep

LEMMA WithdrawStep ==
    ASSUME NEW t \in Tasks, NEW n \in Unsettled(t), <<t, n>> \notin Running,
           att' = [att EXCEPT ![t][n] = "none"],
           \A u \in Tasks : task'[u].count = IF u = t /\ att[t][n] = "dispatched" /\ task[u].count > 0
                                             THEN task[u].count - 1 ELSE task[u].count,
           UNCHANGED <<Running, Succs, Completed>>
    PROVE  Contract!Next
<1>1. n \in Ordinals(t) /\ n \in Contract!InAir(t)
  BY AirIsUnsettled DEF Unsettled
<1>2. Counts' = IF att[t][n] = "dispatched" /\ Counts[t] > 0
                THEN [Counts EXCEPT ![t] = @ - 1] ELSE Counts
  <2>1. Counts[t] = task[t].count
    BY DEF Counts
  <2>2. CASE att[t][n] = "dispatched" /\ task[t].count > 0
    BY <2>1, <2>2 DEF Counts
  <2>3. CASE ~(att[t][n] = "dispatched" /\ task[t].count > 0)
    BY <2>1, <2>3 DEF Counts
  <2> QED BY <2>2, <2>3
<1>3. Contract!Withdraw(t, n)
  BY <1>1, <1>2, Zenon DEF Contract!Withdraw, Running, Succs, Counts, Completed
<1> QED BY <1>1, <1>3, AttemptStep

LEMMA SettleStep ==
    ASSUME NEW t \in Tasks, NEW n \in Unsettled(t), NEW result \in {"succeeded", "closed", "unknown"},
           att' = [att EXCEPT ![t][n] = result],
           \A u \in Tasks : task'[u].succ = IF u = t /\ result = "succeeded"
                                            THEN task[u].succ + 1 ELSE task[u].succ,
           UNCHANGED <<Running, Counts, Completed>>
    PROVE  Contract!Next
<1>1. n \in Ordinals(t) /\ n \in Contract!InAir(t)
  BY AirIsUnsettled DEF Unsettled
<1>2. Succs' = IF result = "succeeded" THEN [Succs EXCEPT ![t] = @ + 1] ELSE Succs
  <2>1. CASE result = "succeeded"
    BY <2>1 DEF Succs
  <2>2. CASE result # "succeeded"
    BY <2>2 DEF Succs
  <2> QED BY <2>1, <2>2
<1>3. Contract!Settle(t, n, result)
  BY <1>1, <1>2, Zenon DEF Contract!Settle, Running, Succs, Counts, Completed
<1> QED BY <1>1, <1>3, AttemptStep

\* Rows that keep their progress: what the contract counts stays.
LEMMA CountsKept == ASSUME RowsKept PROVE UNCHANGED <<Succs, Counts>>
BY DEF RowsKept, Succs, Counts

\* A tick that does not get to its executor, nor leaves it.
LEMMA RunningKept ==
    ASSUME TypeInv, NEW s \in Slots, Moved(s), slot[s].pc # "exec", slot'[s].pc # "exec"
    PROVE  Running' = Running
<1>1. {r \in Slots : slot'[r].pc = "exec"} = {r \in Slots : slot[r].pc = "exec"}
  BY DEF Moved
<1>2. \A r \in {q \in Slots : slot[q].pc = "exec"} : slot'[r] = slot[r]
  BY DEF Moved
<1> QED BY <1>1, <1>2 DEF Running

\* Where one row changes at most, it is reported complete, taken back, or neither.
LEMMA RowMaps ==
    ASSUME TypeInv, RowsKept, UNCHANGED <<att, Running>>, NEW t \in Tasks,
           \A u \in Tasks : u # t => task'[u].status = task[u].status
    PROVE  Contract!Next
<1>1. UNCHANGED <<Succs, Counts>>
  BY CountsKept
<1>2. CASE task'[t].status = "completed" /\ task[t].status # "completed"
  <2>1. Completed' = Completed \cup {t} /\ task[t].succ >= Target[t]
    BY <1>2 DEF Completed, RowsKept
  <2> QED BY <1>1, <2>1, CompleteStep
<1>3. CASE task'[t].status # "completed"
  <2>1. Completed' = Completed \ {t}
    BY <1>3 DEF Completed
  <2> QED BY <1>1, <2>1, CompleteStep
<1>4. CASE task'[t].status = "completed" /\ task[t].status = "completed"
  <2>1. Completed' = Completed
    BY <1>4 DEF Completed
  <2> QED BY <1>1, <2>1, StopStep
<1> QED BY <1>2, <1>3, <1>4

\* A calm step of a tick that is not about to execute changes one row at most.
LEMMA CalmMaps ==
    ASSUME IInv, NEW s \in Slots, Calm(s), RowsKept, slot[s].pc \notin {"mark", "exec", "finish"},
           \/ UNCHANGED task
           \/ \E t \in Tasks : \A u \in Tasks : u # t => task'[u].status = task[u].status
    PROVE  Contract!Next
<1>1. Running' = Running /\ UNCHANGED att
  BY RunningKept DEF Calm, IInv, Owns
<1>2. CASE UNCHANGED task
  BY <1>1, <1>2, StopStep DEF Succs, Counts, Completed
<1> QED BY <1>1, <1>2, RowMaps DEF IInv

LEMMA DeathMaps ==
    ASSUME IInv, ProcessDies, UNCHANGED <<task, att>>
    PROVE  Contract!Next
<1>1. Running' = {}
  BY DEF ProcessDies, IdleSlot, Running
<1> QED BY <1>1, StopStep DEF Succs, Counts, Completed

LEMMA OutsideMaps ==
    ASSUME IInv,
           \/ \E t \in Tasks : Create(t) \/ Confirm(t) \/ LeaseExpires(t) \/ DeadlinePasses(t) \/ RowsInserted(t)
           \/ \E o \in Operators :
                \/ \E t \in Tasks : PauseReads(o, t) \/ ResumeReads(o, t) \/ CancelReads(o, t)
                \/ OperatorWrites(o)
           \/ Restart
    PROVE  Contract!Next
<1>0. TypeInv /\ \A t \in Tasks : task[t] \in TaskRec
  BY DEF IInv, TypeInv
<1>1. UNCHANGED <<att, slot>> => UNCHANGED Running
  BY DEF Running
<1>2. ASSUME NEW t \in Tasks, Create(t) \/ Confirm(t) \/ LeaseExpires(t) PROVE Contract!Next
  <2> DEFINE r == task'[t]
  <2>1. /\ task'[t].succ = task[t].succ /\ task'[t].count = task[t].count
        /\ task'[t].status = "completed" => task[t].status = "completed"
        /\ \A u \in Tasks : u # t => task'[u] = task[u]
        /\ UNCHANGED <<att, slot>>
    BY <1>0, <1>2 DEF Create, Confirm, LeaseExpires, TypeInv, TaskRec
  <2>2. Succs' = Succs /\ Counts' = Counts
    BY <2>1 DEF Succs, Counts
  <2>3. Completed' = Completed \ {t} \/ Completed' = Completed
    BY <2>1 DEF Completed
  <2> QED BY <1>1, <2>1, <2>2, <2>3, StopStep, CompleteStep
<1>3. CASE \/ \E t \in Tasks : DeadlinePasses(t) \/ RowsInserted(t)
           \/ \E o \in Operators, t \in Tasks : PauseReads(o, t) \/ ResumeReads(o, t) \/ CancelReads(o, t)
  <2>1. UNCHANGED <<task, att, slot>>
    BY <1>3 DEF DeadlinePasses, RowsInserted, PauseReads, ResumeReads, CancelReads, Requests
  <2> QED BY <1>1, <2>1, StopStep DEF Succs, Counts, Completed
<1>4. ASSUME NEW o \in Operators, OperatorWrites(o) PROVE Contract!Next
  <2>1. PICK r \in TaskRec : /\ op[o].t \in Tasks /\ task' = [task EXCEPT ![op[o].t] = r]
                             /\ r.succ = task[op[o].t].succ /\ r.count = task[op[o].t].count
                             /\ r.status \in {task[op[o].t].status} \cup (Status \ {"completed"})
    BY <1>0, <1>4, OperatorRow
  <2>2. RowsKept
    BY <1>0, <2>1, RowStep
  <2>3. UNCHANGED <<att, slot>>
    BY <1>4 DEF OperatorWrites
  <2>4. \A u \in Tasks : u # op[o].t => task'[u].status = task[u].status
    BY <1>0, <2>1 DEF TypeInv
  <2> QED BY <1>0, <1>1, <2>1, <2>2, <2>3, <2>4, RowMaps
<1>5. CASE Restart
  <2>1. task' = [t \in Tasks |-> RecoveredTask(task[t])] /\ UNCHANGED <<att, slot>>
    BY <1>5 DEF Restart
  <2>2. \A t \in Tasks : /\ task'[t].succ = task[t].succ /\ task'[t].count = task[t].count
                         /\ task'[t].status = "completed" <=> task[t].status = "completed"
    BY <1>0, <2>1, RecoveredRow
  <2> QED BY <1>1, <2>1, <2>2, StopStep DEF Succs, Counts, Completed
<1> QED BY <1>2, <1>3, <1>4, <1>5

LEMMA TickMaps ==
    ASSUME IInv, NEW s \in Slots, Tick(s)
    PROVE  Contract!Next
<1>0. Calm(s) /\ RowsKept /\ TypeInv
  BY TickCalm DEF IInv
<1>1. slot[s].pc \in {"idle", "expire", "expiring"}
  BY DEF Tick, TickBegins, ExpireReads, ExpireWrites, ClaimNext, TickEnds
<1>2. \/ UNCHANGED task
      \/ \E t \in Tasks : \A u \in Tasks : u # t => task'[u].status = task[u].status
  <2>1. CASE ExpireWrites(s)
    <3>1. slot[s].t \in Tasks /\ \A u \in Tasks : u # slot[s].t => task'[u] = task[u]
      BY <1>0, <2>1 DEF ExpireWrites, TypeInv, SlotOK
    <3> QED BY <3>1
  <2>2. CASE ClaimNext(s)
    BY <1>0, <2>2 DEF ClaimNext, TypeInv
  <2> QED BY <2>1, <2>2 DEF Tick, TickBegins, ExpireReads, TickEnds
<1> QED BY <1>0, <1>1, <1>2, CalmMaps

LEMMA StartMaps ==
    ASSUME IInv, NEW s \in Slots, StartAttempt(s)
    PROVE  Contract!Next
<1>1. slot[s].pc = "start" /\ slot[s].t \in Tasks /\ Unsettled(slot[s].t) = {} /\ UNCHANGED task
  BY DEF StartAttempt, IInv, TypeInv, SlotOK, AttInv, PlanInv
<1>2. PICK n \in NextOrdinal(slot[s].t) :
        att' = [att EXCEPT ![slot[s].t][n] = "prepared"] /\ Goto(s, "dispatch", n, None)
  BY DEF StartAttempt
<1>3. n \in Ordinals(slot[s].t) /\ att[slot[s].t][n] = "none" /\ n \in Nat
  BY <1>1, OrdinalsFinite DEF NextOrdinal
<1>4. /\ slot' \in [Slots -> SlotRec] /\ \A q \in Slots \ {s} : slot'[q] = slot[q]
      /\ slot'[s].pc = "dispatch" /\ slot'[s].t = slot[s].t
  <2>1. "dispatch" \in Places /\ None \in Outcomes
    BY DEF Places, Outcomes
  <2> QED BY <1>2, <1>3, <2>1, GotoForgets, Zenon DEF IInv
<1>5. Running' = Running
  BY <1>1, <1>4, RunningKept DEF IInv, Moved, SlotOK
<1> QED BY <1>1, <1>2, <1>3, <1>5, PrepareStep DEF Succs, Counts, Completed

\* The attempt that is dispatched was started and not yet counted: there is budget for it.
LEMMA DispatchMaps ==
    ASSUME IInv, NEW s \in Slots, MarkDispatched(s), NEW t \in Tasks, NEW n \in Nat,
           t = slot[s].t, n = slot[s].n
    PROVE  Contract!Next
<1>0. /\ TypeInv /\ slot[s].pc = "dispatch" /\ n \in Ordinals(t) /\ task[t] \in TaskRec
  BY DEF IInv, TypeInv, MarkDispatched, AttInv, OwnerInv, Owns
<1>1. /\ slot' \in [Slots -> SlotRec] /\ \A q \in Slots \ {s} : slot'[q] = slot[q]
      /\ slot'[s].pc = "mark" /\ slot'[s].t = t
  <2>1. "mark" \in Places /\ None \in Outcomes /\ Goto(s, "mark", n, None)
    BY DEF Places, Outcomes, MarkDispatched
  <2> QED BY <1>0, <2>1, GotoForgets, Zenon
<1>2. Running' = Running
  BY <1>0, <1>1, RunningKept DEF Moved, SlotOK
<1>3. CASE att[t][n] # "prepared"
  BY <1>2, <1>3, StopStep DEF MarkDispatched, Succs, Counts, Completed
<1>4. CASE att[t][n] = "prepared"
  <2>1. att' = [att EXCEPT ![t][n] = "dispatched"]
        /\ task' = [task EXCEPT ![t] = [task[t] EXCEPT !.count = task[t].count + 1]]
    BY <1>0, <1>4 DEF MarkDispatched, TypeInv
  <2>2. /\ \A u \in Tasks : task'[u].count = IF u = t THEN task[u].count + 1 ELSE task[u].count
        /\ \A u \in Tasks : task'[u].succ = task[u].succ /\ task'[u].status = task[u].status
    BY <1>0, <2>1 DEF TypeInv, TaskRec
  <2>3. UNCHANGED <<Succs, Completed>>
    BY <2>2 DEF Succs, Completed
  <2>4. task[t].count < MaxAttempts[t]
    <3> DEFINE Started == {m \in Ordinals(t) : att[t][m] # "none"}
    <3>1. IsFiniteSet(Started) /\ Cardinality(Started) \in Nat /\ Cardinality(Started) <= MaxAttempts[t]
      BY AttemptsBounded
    <3>2. Dispatched(t) \cup {n} \subseteq Started /\ n \notin Dispatched(t)
      BY <1>0, <1>4 DEF Dispatched
    <3>3. Cardinality(Dispatched(t) \cup {n}) = Cardinality(Dispatched(t)) + 1
      BY <3>2, CountedFinite, FS_AddElement
    <3>4. Cardinality(Dispatched(t) \cup {n}) <= Cardinality(Started)
      BY <3>1, <3>2, FS_Subset
    <3>5. task[t].count <= Cardinality(Dispatched(t)) /\ task[t].count \in Nat /\ Cardinality(Dispatched(t)) \in Nat
      BY <1>0, CountersForm, CountedFinite DEF IInv, TaskRec
    <3>6. MaxAttempts[t] \in Nat
      BY TaskAssumption
    <3> HIDE DEF Started
    <3> QED BY <3>1, <3>3, <3>4, <3>5, <3>6
  <2> QED BY <1>0, <1>2, <1>4, <2>1, <2>2, <2>3, <2>4, DispatchStep
<1> QED BY <1>3, <1>4

\* Nobody runs an attempt that is withdrawn.
LEMMA WithdrawnIsNotRun ==
    ASSUME IInv, NEW s \in Slots, slot[s].pc = "finish", slot[s].res \in {"recovered", "not_started"},
           att[slot[s].t][slot[s].n] \in {"prepared", "dispatched"}
    PROVE  <<slot[s].t, slot[s].n>> \notin Running
<1> SUFFICES ASSUME NEW q \in Slots, slot[q].pc = "exec", slot[q].t = slot[s].t, slot[q].n = slot[s].n
             PROVE  FALSE
  BY DEF Running
<1>1. att[slot[s].t][slot[s].n] = "dispatched" /\ q # s
  BY DEF IInv, AttInv, OwnerInv, Owns
<1>2. slot[s].res # "recovered"
  BY <1>1 DEF IInv, AttInv, PlanInv
<1> QED BY <1>1, <1>2 DEF IInv, AttInv, OwnerInv, Owns

LEMMA FinishMaps ==
    ASSUME IInv, NEW s \in Slots, FinishAttempt(s), NEW t \in Tasks, NEW n \in Nat,
           t = slot[s].t, n = slot[s].n
    PROVE  Contract!Next
<1> DEFINE res == slot[s].res
           new == AttemptAfter(res)
           row == FinishedTask(task[t], res, att[t][n] = "dispatched")
<1>0. /\ TypeInv /\ slot[s].pc = "finish" /\ res \in Settlements \ {"waiting"} /\ task[t] \in TaskRec
      /\ n \in Unsettled(t) /\ att[t][n] \in {"prepared", "dispatched"}
      /\ att' = [att EXCEPT ![t][n] = new]
      /\ task' = [task EXCEPT ![t] = row] /\ AfterFinish(s, row.succ)
  BY DEF IInv, TypeInv, SlotOK, FinishAttempt, Settleable, Unsettled
<1>1. /\ new \in {"none", "succeeded", "closed", "unknown"}
      /\ new = "succeeded" <=> res = "success"
      /\ new = "none" => res \in {"recovered", "not_started"}
  BY <1>0 DEF AttemptAfter, Settlements, Results
<1>2. /\ row.succ \in Nat /\ row.status = task[t].status
      /\ row.succ = task[t].succ + IF res = "success" THEN 1 ELSE 0
      /\ row.count = IF new = "none" /\ att[t][n] = "dispatched" /\ task[t].count > 0
                     THEN task[t].count - 1 ELSE task[t].count
  <2> HIDE DEF res, new
  <2> QED BY <1>0 DEF FinishedTask, TaskRec, new
<1> HIDE DEF new, row
<1>3. Running' = Running
  <2>1. Moved(s) /\ slot'[s].pc \in {"settled", "release", "complete"}
    BY <1>0, <1>2, AfterFinishFacts
  <2> QED BY <1>0, <2>1, RunningKept
<1>4. /\ \A u \in Tasks : u # t => task'[u] = task[u]
      /\ task'[t] = row
  BY <1>0 DEF TypeInv
<1>5. UNCHANGED Completed
  BY <1>2, <1>4 DEF Completed
<1>6. CASE new = "none"
  <2>1. <<t, n>> \notin Running
    BY <1>0, <1>1, <1>6, WithdrawnIsNotRun
  <2>2. \A u \in Tasks : task'[u].count = IF u = t /\ att[t][n] = "dispatched" /\ task[u].count > 0
                                          THEN task[u].count - 1 ELSE task[u].count
    BY <1>2, <1>4, <1>6
  <2>3. UNCHANGED Succs
    <3>1. task[t].succ \in Nat
      BY <1>0 DEF TaskRec
    <3>2. \A u \in Tasks : task'[u].succ = task[u].succ
      BY <1>1, <1>2, <1>4, <1>6, <3>1
    <3> QED BY <3>2 DEF Succs
  <2> QED BY <1>0, <1>3, <1>5, <1>6, <2>1, <2>2, <2>3, WithdrawStep
<1>7. CASE new # "none"
  <2>1. \A u \in Tasks : task'[u].succ = IF u = t /\ new = "succeeded" THEN task[u].succ + 1 ELSE task[u].succ
    <3>1. task[t].succ \in Nat
      BY <1>0 DEF TaskRec
    <3> QED BY <1>1, <1>2, <1>4, <3>1
  <2>2. UNCHANGED Counts
    BY <1>2, <1>4, <1>7 DEF Counts
  <2>3. PICK result \in {"succeeded", "closed", "unknown"} : result = new
    BY <1>1, <1>7
  <2>4. att' = [att EXCEPT ![t][n] = result]
    BY <1>0, <2>3
  <2>5. \A u \in Tasks : task'[u].succ = IF u = t /\ result = "succeeded" THEN task[u].succ + 1 ELSE task[u].succ
    BY <2>1, <2>3
  <2>6. n \in Unsettled(t) /\ UNCHANGED <<Running, Counts, Completed>>
    BY <1>0, <1>3, <1>5, <2>2
  <2> QED BY <2>4, <2>5, <2>6, SettleStep, Zenon
<1> QED BY <1>6, <1>7

\* The executor runs what is on record as dispatched.
LEMMA ExecMaps ==
    ASSUME IInv, NEW s \in Slots, MarkExecuting(s) \/ ExecReturns(s)
    PROVE  Contract!Next
<1>0. Calm(s) /\ RowsKept /\ TypeInv /\ slot[s].t \in Tasks /\ slot[s].n \in Nat /\ UNCHANGED att
      /\ Moved(s) /\ \A q \in Slots \ {s} : slot'[q] = slot[q]
  BY ExecCalm DEF IInv, TypeInv, SlotOK, SlotRec, MarkExecuting, ExecReturns, Calm, Moved
<1>1. UNCHANGED <<Succs, Counts>>
  BY <1>0, CountsKept
<1>2. CASE MarkExecuting(s)
  <2>1. slot[s].pc = "mark"
    BY <1>2 DEF MarkExecuting
  <2>2. UNCHANGED Completed
    <3>1. CASE UNCHANGED task
      BY <3>1 DEF Completed
    <3>2. CASE ~UNCHANGED task
      <4>0. task \in [Tasks -> TaskRec]
        BY <1>0 DEF TypeInv
      <4>1. task' = [task EXCEPT ![slot[s].t] = [@ EXCEPT !.status = "executing", !.reconcile = FALSE]]
            /\ task[slot[s].t].status = "planning"
        BY <1>0, <1>2, <3>2, <4>0 DEF MarkExecuting
      <4>2. \A u \in Tasks : task'[u].status = "completed" <=> task[u].status = "completed"
        BY <1>0, <4>0, <4>1 DEF TaskRec
      <4> QED BY <4>2 DEF Completed
    <3> QED BY <3>1, <3>2
  <2>3. CASE slot'[s].pc # "exec"
    BY <1>0, <1>1, <2>1, <2>2, <2>3, RunningKept, StopStep
  <2>4. CASE slot'[s].pc = "exec"
    <3>1. slot'[s].t = slot[s].t /\ slot'[s].n = slot[s].n
      BY <1>0, <2>4 DEF Calm, Owns
    <3>2. {r \in Slots : slot'[r].pc = "exec"} = {r \in Slots : slot[r].pc = "exec"} \cup {s}
      BY <1>0, <2>4
    <3>3. Running' = Running \cup {<<slot[s].t, slot[s].n>>}
      BY <1>0, <2>1, <3>1, <3>2 DEF Running
    <3>4. slot[s].n \in Ordinals(slot[s].t) /\ att[slot[s].t][slot[s].n] \notin {"none", "prepared"}
      BY <2>1 DEF IInv, AttInv, OwnerInv, Owns
    <3> QED BY <1>0, <1>1, <2>2, <3>3, <3>4, RunStep
  <2> QED BY <2>3, <2>4
<1>3. CASE ExecReturns(s)
  <2>1. UNCHANGED task /\ slot'[s].pc # "exec"
    <3>1. PICK r \in Results : Goto(s, "finish", slot[s].n, r)
      BY <1>3 DEF ExecReturns
    <3>2. "finish" \in Places /\ r \in Outcomes
      BY DEF Places, Outcomes, Settlements
    <3>3. slot'[s].pc = "finish"
      BY <1>0, <3>1, <3>2, GotoForgets, Zenon
    <3> QED BY <1>3, <3>3 DEF ExecReturns
  <2>2. Running' \subseteq Running
    BY <1>0, <2>1 DEF Running
  <2> QED BY <1>0, <1>1, <2>1, <2>2, StopStep DEF Completed
<1> QED BY <1>2, <1>3

LEMMA ProcessMaps ==
    ASSUME IInv, NEW s \in Slots, Process(s)
    PROVE  Contract!Next
<1>0. TypeInv /\ slot[s].n \in Nat /\ (slot[s].pc \notin {"idle", "expire"} => slot[s].t \in Tasks)
  BY DEF IInv, TypeInv, SlotRec, SlotOK
<1>1. CASE ReadsFresh(s)
  BY <1>1, FreshCalm, CalmMaps DEF ReadsFresh
<1>2. CASE DiscardPrepared(s) \/ ReconcileDispatched(s) \/ PlanAttempt(s)
  BY <1>2, PlanCalm, CalmMaps DEF DiscardPrepared, ReconcileDispatched, PlanAttempt
<1>3. CASE StartAttempt(s)
  BY <1>3, StartMaps
<1>4. CASE StartThrows(s) \/ FinishThrows(s)
  BY <1>4, DeathMaps DEF StartThrows, FinishThrows
<1>5. CASE MarkDispatched(s)
  BY <1>0, <1>5, DispatchMaps DEF MarkDispatched
<1>6. CASE MarkExecuting(s) \/ ExecReturns(s)
  BY <1>6, ExecMaps
<1>7. CASE ApprovalReads(s)
  BY <1>7, AnswerCalm, CalmMaps DEF ApprovalReads
<1>8. CASE ReleaseWaiting(s)
  <2>1. slot[s].pc = "waiting" /\ slot[s].t \in Tasks /\ \A u \in Tasks : u # slot[s].t => task'[u] = task[u]
    BY <1>0, <1>8 DEF ReleaseWaiting, TypeInv
  <2> QED BY <1>8, <2>1, AnswerCalm, CalmMaps
<1>9. CASE FinishWithoutAttempt(s)
  <2>1. slot[s].pc = "finish" /\ slot[s].seen.succ \in Nat /\ AfterFinish(s, slot[s].seen.succ)
        /\ UNCHANGED <<task, att>>
    BY <1>0, <1>9 DEF FinishWithoutAttempt, TypeInv, SlotRec, Progress
  <2>2. Moved(s) /\ slot'[s].pc \in {"settled", "release", "complete"}
    BY <1>0, <2>1, AfterFinishFacts
  <2>3. Running' = Running
    BY <1>0, <2>1, <2>2, RunningKept
  <2> QED BY <2>1, <2>3, StopStep DEF Succs, Counts, Completed
<1>10. CASE FinishAttempt(s)
  BY <1>0, <1>10, FinishMaps DEF FinishAttempt
<1>11. CASE AfterSettled(s)
  BY <1>11, SettledCalm, CalmMaps DEF AfterSettled
<1>12. CASE CompleteReads(s) \/ ReleaseReads(s)
  <2>1. CASE ProcessDies
    BY <1>12, <2>1, DeathMaps DEF CompleteReads, ReleaseReads
  <2>2. CASE ~ProcessDies
    BY <1>12, <2>2, EndCalm, CalmMaps DEF CompleteReads, ReleaseReads
  <2> QED BY <2>1, <2>2
<1>13. CASE CompleteWrites(s) \/ ReleaseWrites(s)
  <2>1. slot[s].pc \in {"completing", "releasing"} /\ slot[s].t \in Tasks
        /\ \A u \in Tasks : u # slot[s].t => task'[u] = task[u]
    BY <1>0, <1>13 DEF CompleteWrites, ReleaseWrites, TypeInv
  <2> QED BY <1>13, <2>1, EndCalm, CalmMaps
<1> QED BY <1>1, <1>2, <1>3, <1>4, <1>5, <1>6, <1>7, <1>8, <1>9, <1>10, <1>11, <1>12, <1>13 DEF Process

LEMMA InitMaps == Init => Contract!Init
BY DEF Init, Contract!Init, NewTask, IdleSlot

LEMMA NextMaps == IInv /\ [Next]_vars => [Contract!Next]_(Contract!contract)
<1> SUFFICES ASSUME IInv, [Next]_vars PROVE Contract!Next
  OBVIOUS
<1>1. CASE Crash
  BY <1>1, DeathMaps DEF Crash
<1>2. CASE UNCHANGED vars
  BY <1>2, StopStep DEF vars, Running, Succs, Counts, Completed
<1> QED BY <1>1, <1>2, OutsideMaps, TickMaps, ProcessMaps DEF Next

\* What the operator was promised is kept by the claims, leases, ticks and crashes: every step of
\* the module is a step of TaskContract, or leaves its variables alone.
THEOREM ContractKept == Spec => ImplementsContract
BY InitMaps, NextMaps, Invariance, PTL DEF Spec, ImplementsContract, Contract!Spec

\* A settled attempt is settled for good: only what is in the air is written.
THEOREM SettledForGood == Spec => SettledStays
<1> DEFINE A == \A t \in Tasks : \A n \in Ordinals(t) :
                   att[t][n] \in {"succeeded", "closed", "unknown"} => att'[t][n] = att[t][n]
<1>1. ASSUME IInv, NEW s \in Slots, StartAttempt(s) PROVE A
  <2>1. slot[s].t \in Tasks
    BY <1>1 DEF StartAttempt, IInv, TypeInv, SlotOK
  <2>2. PICK n \in NextOrdinal(slot[s].t) : att' = [att EXCEPT ![slot[s].t][n] = "prepared"]
    BY <1>1 DEF StartAttempt
  <2>3. n \in Ordinals(slot[s].t) /\ att[slot[s].t][n] = "none"
    BY <2>1, OrdinalsFinite DEF NextOrdinal
  <2> QED BY <1>1, <2>2, <2>3 DEF IInv, TypeInv
<1>2. ASSUME IInv, NEW s \in Slots, MarkDispatched(s) PROVE A
  BY <1>2 DEF MarkDispatched, IInv, TypeInv
<1>3. ASSUME IInv, NEW s \in Slots, FinishAttempt(s) PROVE A
  BY <1>3 DEF FinishAttempt, Settleable, Unsettled, IInv, TypeInv
<1>4. ASSUME IInv, [Next]_vars, ~\E s \in Slots : StartAttempt(s) \/ MarkDispatched(s) \/ FinishAttempt(s)
      PROVE  UNCHANGED att
  <2>1. ASSUME NEW s \in Slots, Process(s) PROVE UNCHANGED att
    BY <1>4, <2>1 DEF Process, ReadsFresh, DiscardPrepared, ReconcileDispatched, PlanAttempt, StartThrows,
         MarkExecuting, ExecReturns, ApprovalReads, ReleaseWaiting, FinishWithoutAttempt, FinishThrows,
         AfterSettled, CompleteReads, CompleteWrites, ReleaseReads, ReleaseWrites
  <2>2. ASSUME NEW s \in Slots, Tick(s) PROVE UNCHANGED att
    BY <2>2 DEF Tick, TickBegins, ExpireReads, ExpireWrites, ClaimNext, TickEnds
  <2>3. CASE UNCHANGED vars \/ Crash \/ Restart
    BY <2>3 DEF vars, Crash, Restart
  <2>4. ASSUME NEW t \in Tasks, Create(t) \/ Confirm(t) \/ LeaseExpires(t) \/ DeadlinePasses(t) \/ RowsInserted(t) PROVE UNCHANGED att
    BY <2>4 DEF Create, Confirm, LeaseExpires, DeadlinePasses, RowsInserted
  <2>5. ASSUME NEW o \in Operators,
               OperatorWrites(o) \/ \E t \in Tasks : PauseReads(o, t) \/ ResumeReads(o, t) \/ CancelReads(o, t)
        PROVE  UNCHANGED att
    BY <2>5 DEF OperatorWrites, PauseReads, ResumeReads, CancelReads, Requests
  <2> QED BY <1>4, <2>1, <2>2, <2>3, <2>4, <2>5 DEF Next
<1>5. IInv /\ [Next]_vars => [A]_vars
  BY <1>1, <1>2, <1>3, <1>4
<1> QED BY <1>5, Invariance, PTL DEF Spec, SettledStays
=============================================================================
