---------------------------- MODULE PublishProofs ----------------------------
(***************************************************************************)
(* Proofs about publishing for one account, for any number of drafts and   *)
(* any limits, without the bounds of the run.                              *)
(*                                                                         *)
(* An approval is dispatched while it is pending and becomes pending again *)
(* only when the edge has certainly not pressed the button (SpentInv).  A  *)
(* run writes the status of its draft unless it says so in doubt (DoubtInv)*)
(* and what is charged has used an approval up (ChargeInv).                *)
(***************************************************************************)
EXTENDS Publish, FiniteSetTheorems, TLAPS

Pcs == {"idle", "read", "gates", "lease", "mark", "prepare", "submit", "capture", "after"}
Outs == {"none", "published", "submitted", "scheduled", "preempted", "deferred", "exhausted",
         "structural", "unknown", "exception"}
Tasks == {"settle", "status", "charge", "consume", "release", "retry", "trip"}
DraftRec == [st : Statuses, ver : Nat, att : Nat]
ApprRec == [st : {"none", "pending", "dispatching", "consumed", "void"}, rev : Nat, cv : Nat]
RunRec == [pc : Pcs, r : Records \cup {None}, rev : Nat, ver : Nat, out : Outs, todo : Seq(Tasks), pushed : BOOLEAN]

\* What is left to do of the plan of the run's outcome.
Has(t, s) == \E i \in 1..Len(t) : t[i] = s
Owed(s) == run.pc = "after" /\ Has(run.todo, s)
GoodTodo(t, out) ==
    /\ t \in Seq(Tasks) /\ t # <<>>
    /\ \A i, j \in 1..Len(t) : (t[i] = t[j] => i = j) /\ (t[i] = "charge" /\ t[j] = "status" => j < i)
    /\ Has(t, "release") => out \in {"preempted", "deferred"}
    /\ Has(t, "charge") => out \in {"published", "submitted"}
    /\ Has(t, "status") => out \notin {"preempted", "deferred"}
TodoOK == run.pc = "after" => run.out # "none" /\ GoodTodo(run.todo, run.out)

Types ==
    /\ draft \in [Records -> DraftRec] /\ appr \in [Records -> ApprRec] /\ run \in RunRec
    /\ claims \subseteq Records /\ inFlight \subseteq Records /\ doubt \subseteq Records
    /\ calls \subseteq [r : Records, rev : Nat, human : BOOLEAN]
    /\ queue \in Seq([r : Records, rev : Nat])
    /\ media \in [Records -> {"reserved", "free", "used", "quarantine"}] /\ charged \in [Records -> Nat]
    /\ open \in BOOLEAN /\ fails \in Nat
    /\ edge # None => edge \in [r : Records, rev : Nat, ver : Nat]
    /\ \A p \in posts : p \in [r : Records, rev : Nat, ver : Nat, k : Nat]
    /\ run.pc # "idle" => run.r \in Records /\ queue # <<>>
    /\ run.pushed => run.pc # "idle"
TypeInv == Types /\ TodoOK

\* An approval names what a human saw, and so does what came of it.
GrantInv ==
    /\ \A r \in Records : Approved(r) => appr[r].rev >= 1 /\ <<r, appr[r].rev, appr[r].cv>> \in granted
    /\ run.pc \notin {"idle", "read"} => /\ <<run.r, run.rev, run.ver>> \in granted
                                         /\ run.rev >= 1 /\ run.rev <= appr[run.r].rev
    /\ edge # None => <<edge.r, edge.rev, edge.ver>> \in granted
    /\ PostedAsApproved

\* A draft is not touched by others while a run is on its way to write its status.
Early == {"read", "gates", "lease", "mark", "prepare"}
Unwritten == run.pc \in Early \cup {"submit", "capture"} \/ Owed("status")
DraftInv ==
    /\ \A r \in claims : draft[r].st = "none"
    /\ Unwritten => draft[run.r].st \in {"pending", "rejected"}

\* The button was pressed for an approval, or may be.
PostOf(r, rev) == \E p \in posts : p.r = r /\ p.rev = rev
Spent(r, rev) == PostOf(r, rev) \/ (edge # None /\ edge.r = r /\ edge.rev = rev)
Refused == run.pc = "submit" /\ answer # None /\ answer = "preempted"
SpentInv ==
    /\ edge # None => answer = None /\ ~PostOf(edge.r, edge.rev)
    /\ run.pc \in {"mark", "prepare"} => edge = None /\ answer = None
    /\ run.pc = "submit" /\ edge # None => edge.r = run.r /\ edge.rev = run.rev
    /\ \A p, q \in posts : p.k = 1 /\ (p.r = q.r /\ p.rev = q.rev => p = q)
    /\ \A r \in Records, rev \in Nat :
          Spent(r, rev) => rev >= 1 /\ rev <= appr[r].rev /\ ~Held(r, rev, "pending")
    /\ run.pc = "prepare" => ~Held(run.r, run.rev, "pending")
    /\ run.pc = "prepare" \/ Refused \/ Owed("release") => ~Spent(run.r, run.rev)

\* A draft that was posted is no longer pending, once its run is over, unless it is in doubt.
Done(r) == draft[r].st \notin {"none", "pending"}
Used(r) == (\E p \in posts : p.r = r) \/ (edge # None /\ edge.r = r)
Owing(r) == run.r = r /\ (run.pc \in {"submit", "capture"} \/ Owed("status"))
Unpushed == run.pc \in Early \/ (run.pc = "after" /\ ~run.pushed)
DoubtInv ==
    /\ edge # None /\ edge.r \notin doubt => \A p \in posts : p.r # edge.r
    /\ \A p, q \in posts : p.r = q.r /\ p.r \notin doubt => p = q
    /\ \A r \in Records \ doubt : Used(r) => Done(r) \/ Owing(r)
    /\ Unpushed \/ Refused => run.r \in doubt \/ ~Used(run.r)
    /\ run.pc \in {"submit", "capture"} => run.pushed

\* What the budget was charged for, and what it may still be charged for.
Token(b) == IF b THEN 1 ELSE 0
MayCharge(r) ==
    /\ run.r = r
    /\ \/ run.pc \in {"prepare", "submit", "capture"} \/ Owed("charge") \/ Owed("release")
       \/ Owed("status") /\ run.out = "scheduled"
Bound(r) == charged[r] + Token(MayCharge(r)) + Token(draft[r].st = "scheduled")
ChargeInv ==
    /\ \A r \in Records : Bound(r) + Token(appr[r].st = "pending") <= appr[r].rev
    /\ \A r \in Records \ doubt : Bound(r) <= 1 /\ (charged[r] >= 1 => Done(r))
    /\ run.pc \in Early /\ run.r \notin doubt => charged[run.r] = 0
    /\ run.pc = "after" /\ run.out \in {"published", "submitted"} /\ run.r \notin doubt => Owed("status") \/ Done(run.r)

IInv == TypeInv /\ GrantInv /\ DraftInv /\ SpentInv /\ DoubtInv /\ ChargeInv /\ BreakerStops

-----------------------------------------------------------------------------
(* Plans, and how a run goes on *)

LEMMA PlanFacts ==
    ASSUME NEW o \in Outs \ {"none"}
    PROVE  GoodTodo(Plan(o), o) /\ (o \notin {"preempted", "deferred"} => Has(Plan(o), "status"))
<1>1. CASE o \in {"published", "submitted"}
  <2>1. PICK t : t = <<"settle", "status", "charge", "consume">>
    OBVIOUS
  <2>2. Plan(o) = t
    BY <1>1, <2>1 DEF Plan
  <2>3. t \in Seq(Tasks) /\ Len(t) = 4 /\ t[1] = "settle" /\ t[2] = "status" /\ t[3] = "charge" /\ t[4] = "consume"
    BY <2>1 DEF Tasks
  <2>4. \A i \in 1..Len(t) : i \in {1, 2, 3, 4}
    BY <2>3
  <2>5. \A i, j \in 1..Len(t) : (t[i] = t[j] => i = j) /\ (t[i] = "charge" /\ t[j] = "status" => j < i)
    BY <2>3, <2>4
  <2>6. Has(t, "status") /\ ~Has(t, "release") /\ t # <<>>
    BY <2>3, <2>4 DEF Has
  <2> QED BY <1>1, <2>2, <2>3, <2>5, <2>6 DEF GoodTodo
<1>2. CASE o = "scheduled"
  <2>1. PICK t : t = <<"consume", "status">>
    OBVIOUS
  <2>2. Plan(o) = t
    BY <1>2, <2>1 DEF Plan
  <2>3. t \in Seq(Tasks) /\ Len(t) = 2 /\ t[1] = "consume" /\ t[2] = "status"
    BY <2>1 DEF Tasks
  <2>4. \A i \in 1..Len(t) : i \in {1, 2}
    BY <2>3
  <2>5. \A i, j \in 1..Len(t) : (t[i] = t[j] => i = j) /\ (t[i] = "charge" /\ t[j] = "status" => j < i)
    BY <2>3, <2>4
  <2>6. Has(t, "status") /\ ~Has(t, "release") /\ ~Has(t, "charge") /\ t # <<>>
    <3>0. Len(t) # 0 /\ 2 \in 1..Len(t)
      BY <2>3
    <3>1. t # <<>>
      BY <3>0
    <3>2. Has(t, "status")
      BY <2>3, <3>0 DEF Has
    <3>3. ~Has(t, "release") /\ ~Has(t, "charge")
      BY <2>3, <2>4 DEF Has
    <3> QED BY <3>1, <3>2, <3>3
  <2> QED BY <1>2, <2>2, <2>3, <2>5, <2>6 DEF GoodTodo
<1>3. CASE o \in {"preempted", "deferred"}
  <2>1. PICK t : t = <<"settle", "release", "retry">>
    OBVIOUS
  <2>2. Plan(o) = t
    BY <1>3, <2>1 DEF Plan
  <2>3. t \in Seq(Tasks) /\ Len(t) = 3 /\ t[1] = "settle" /\ t[2] = "release" /\ t[3] = "retry"
    BY <2>1 DEF Tasks
  <2>4. \A i \in 1..Len(t) : i \in {1, 2, 3}
    BY <2>3
  <2>5. \A i, j \in 1..Len(t) : (t[i] = t[j] => i = j) /\ (t[i] = "charge" /\ t[j] = "status" => j < i)
    BY <2>3, <2>4
  <2>6. ~Has(t, "status") /\ ~Has(t, "charge") /\ t # <<>>
    BY <2>3, <2>4 DEF Has
  <2> QED BY <1>3, <2>2, <2>3, <2>5, <2>6 DEF GoodTodo
<1>4. CASE o \in {"exhausted", "structural"}
  <2>1. PICK t : t = <<"settle", "status", "consume">>
    OBVIOUS
  <2>2. Plan(o) = t
    BY <1>4, <2>1 DEF Plan
  <2>3. t \in Seq(Tasks) /\ Len(t) = 3 /\ t[1] = "settle" /\ t[2] = "status" /\ t[3] = "consume"
    BY <2>1 DEF Tasks
  <2>4. \A i \in 1..Len(t) : i \in {1, 2, 3}
    BY <2>3
  <2>5. \A i, j \in 1..Len(t) : (t[i] = t[j] => i = j) /\ (t[i] = "charge" /\ t[j] = "status" => j < i)
    BY <2>3, <2>4
  <2>6. Has(t, "status") /\ ~Has(t, "release") /\ ~Has(t, "charge") /\ t # <<>>
    <3>0. Len(t) # 0 /\ 2 \in 1..Len(t)
      BY <2>3
    <3>1. t # <<>>
      BY <3>0
    <3>2. Has(t, "status")
      BY <2>3, <3>0 DEF Has
    <3>3. ~Has(t, "release") /\ ~Has(t, "charge")
      BY <2>3, <2>4 DEF Has
    <3> QED BY <3>1, <3>2, <3>3
  <2> QED BY <1>4, <2>2, <2>3, <2>5, <2>6 DEF GoodTodo
<1>5. CASE o \in {"unknown", "exception"}
  <2>1. PICK t : t = <<"settle", "status", "consume", "trip">>
    OBVIOUS
  <2>2. Plan(o) = t
    BY <1>5, <2>1 DEF Plan
  <2>3. t \in Seq(Tasks) /\ Len(t) = 4 /\ t[1] = "settle" /\ t[2] = "status" /\ t[3] = "consume" /\ t[4] = "trip"
    BY <2>1 DEF Tasks
  <2>4. \A i \in 1..Len(t) : i \in {1, 2, 3, 4}
    BY <2>3
  <2>5. \A i, j \in 1..Len(t) : (t[i] = t[j] => i = j) /\ (t[i] = "charge" /\ t[j] = "status" => j < i)
    BY <2>3, <2>4
  <2>6. Has(t, "status") /\ ~Has(t, "release") /\ ~Has(t, "charge") /\ t # <<>>
    <3>0. Len(t) # 0 /\ 2 \in 1..Len(t)
      BY <2>3
    <3>1. t # <<>>
      BY <3>0
    <3>2. Has(t, "status")
      BY <2>3, <3>0 DEF Has
    <3>3. ~Has(t, "release") /\ ~Has(t, "charge")
      BY <2>3, <2>4 DEF Has
    <3> QED BY <3>1, <3>2, <3>3
  <2> QED BY <1>5, <2>2, <2>3, <2>5, <2>6 DEF GoodTodo
<1> QED BY <1>1, <1>2, <1>3, <1>4, <1>5 DEF Outs

\* What is left of a plan after its head.
LEMMA TailFacts ==
    ASSUME NEW t, NEW o, GoodTodo(t, o)
    PROVE  /\ \A s : Has(Tail(t), s) <=> Has(t, s) /\ s # Head(t)
           /\ Tail(t) # <<>> => GoodTodo(Tail(t), o)
           /\ Has(t, Head(t)) /\ Head(t) = t[1]
<1>1. t \in Seq(Tasks) /\ t # <<>> /\ Len(t) \in Nat /\ Len(t) >= 1
  BY DEF GoodTodo
<1>2. /\ Tail(t) \in Seq(Tasks) /\ Len(Tail(t)) = Len(t) - 1 /\ Head(t) = t[1]
      /\ \A i \in 1..Len(Tail(t)) : i + 1 \in 1..Len(t) /\ Tail(t)[i] = t[i + 1]
  BY <1>1
<1>3. ASSUME NEW s PROVE Has(Tail(t), s) <=> Has(t, s) /\ s # Head(t)
  <2>1. ASSUME Has(Tail(t), s) PROVE Has(t, s) /\ s # Head(t)
    <3>1. PICK i \in 1..Len(Tail(t)) : Tail(t)[i] = s
      BY <2>1 DEF Has
    <3>2. i + 1 \in 1..Len(t) /\ t[i + 1] = s /\ i + 1 # 1 /\ 1 \in 1..Len(t)
      BY <1>1, <1>2, <3>1
    <3> QED BY <1>2, <3>2 DEF Has, GoodTodo
  <2>2. ASSUME Has(t, s), s # Head(t) PROVE Has(Tail(t), s)
    <3>1. PICK i \in 1..Len(t) : t[i] = s
      BY <2>2 DEF Has
    <3>2. i # 1
      BY <1>2, <2>2, <3>1
    <3>3. i - 1 \in 1..Len(Tail(t)) /\ (i - 1) + 1 = i
      BY <1>1, <1>2, <3>2
    <3> QED BY <1>2, <3>1, <3>3 DEF Has
  <2> QED BY <2>1, <2>2
<1>4. ASSUME Tail(t) # <<>> PROVE GoodTodo(Tail(t), o)
  <2>1. ASSUME NEW i \in 1..Len(Tail(t)), NEW j \in 1..Len(Tail(t))
        PROVE  /\ Tail(t)[i] = Tail(t)[j] => i = j
               /\ Tail(t)[i] = "charge" /\ Tail(t)[j] = "status" => j < i
    <3>1. i + 1 \in 1..Len(t) /\ j + 1 \in 1..Len(t) /\ Tail(t)[i] = t[i + 1] /\ Tail(t)[j] = t[j + 1]
      BY <1>2
    <3>2. /\ t[i + 1] = t[j + 1] => i + 1 = j + 1
          /\ t[i + 1] = "charge" /\ t[j + 1] = "status" => j + 1 < i + 1
      BY <3>1 DEF GoodTodo
    <3> QED BY <1>1, <1>2, <3>1, <3>2
  <2> QED BY <1>2, <1>3, <1>4, <2>1 DEF GoodTodo
<1>5. Has(t, Head(t))
  BY <1>1, <1>2 DEF Has
<1> QED BY <1>2, <1>3, <1>4, <1>5

LEMMA HeadIn == ASSUME NEW S, NEW q \in Seq(S), q # <<>> PROVE Head(q) \in S
OBVIOUS

LEMMA NoRunFacts == NoRun \in RunRec /\ NoRun.pc = "idle" /\ NoRun.pushed = FALSE
BY DEF NoRun, RunRec, Pcs, Outs, Tasks

\* The types of the parts of a run that is replaced.
RunTypes == /\ run \in RunRec /\ queue \in Seq([r : Records, rev : Nat]) /\ inFlight \subseteq Records
            /\ run.pc # "idle" => run.r \in Records /\ queue # <<>>
            /\ run.pushed => run.pc # "idle"

LEMMA EndFacts ==
    ASSUME Types, queue # <<>>, EndRun
    PROVE  RunTypes' /\ run' = NoRun /\ run'.pc = "idle" /\ TodoOK' /\ \A s : ~Owed(s)'
<1>1. queue' \in Seq([r : Records, rev : Nat]) /\ inFlight' \subseteq Records
  BY DEF EndRun, Types
<1> QED BY <1>1, NoRunFacts DEF EndRun, RunTypes, TodoOK, Owed

LEMMA StepFacts ==
    ASSUME Types, run.pc # "idle", NEW pc \in Pcs \ {"idle", "after"}, Step(pc)
    PROVE  /\ RunTypes' /\ run'.pc = pc /\ run'.r = run.r /\ run'.rev = run.rev /\ run'.ver = run.ver
           /\ run'.pushed = run.pushed /\ TodoOK' /\ \A s : ~Owed(s)'
<1>1. PICK n : n = [run EXCEPT !.pc = pc]
  OBVIOUS
<1>2. /\ n \in RunRec /\ n.pc = pc /\ n.r = run.r /\ n.rev = run.rev /\ n.ver = run.ver /\ n.pushed = run.pushed
  BY <1>1 DEF Types, RunRec
<1> QED BY <1>1, <1>2 DEF Step, RunTypes, Types, TodoOK, Owed

LEMMA OutcomeFacts ==
    ASSUME Types, run.pc # "idle", NEW out \in Outs \ {"none"}, Outcome(out)
    PROVE  /\ RunTypes' /\ run'.pc = "after" /\ run'.r = run.r /\ run'.rev = run.rev /\ run'.ver = run.ver
           /\ run'.pushed = run.pushed /\ TodoOK' /\ UNCHANGED <<calls, open>> /\ fails' \in Nat
           /\ run'.out = out \/ (out = "deferred" /\ run'.out = "exhausted")
           /\ Owed("status")' <=> run'.out \notin {"preempted", "deferred"}
           /\ Owed("release")' => out \in {"preempted", "deferred"}
           /\ Owed("charge")' => out \in {"published", "submitted"}
<1>1. PICK o \in Outs \ {"none"} : /\ o = (IF out = "deferred" /\ defers[run.r] + 1 > DeferMax THEN "exhausted" ELSE out)
                                  /\ (o = out \/ (out = "deferred" /\ o = "exhausted"))
  BY DEF Outs
<1>2. GoodTodo(Plan(o), o) /\ (o \notin {"preempted", "deferred"} => Has(Plan(o), "status"))
  BY PlanFacts
<1>3. PICK n : n = [run EXCEPT !.pc = "after", !.out = o, !.todo = Plan(o)]
  OBVIOUS
<1>4. /\ n \in RunRec /\ n.pc = "after" /\ n.r = run.r /\ n.rev = run.rev /\ n.ver = run.ver /\ n.pushed = run.pushed
      /\ n.out = o /\ n.todo = Plan(o)
  BY <1>2, <1>3 DEF Types, RunRec, GoodTodo, Pcs
<1>5. run' = n /\ UNCHANGED <<queue, inFlight, open, calls>> /\ fails' \in Nat
  <2>1. run' = n
    BY <1>1, <1>3 DEF Outcome
  <2>2. UNCHANGED <<queue, inFlight, open, calls>>
    BY DEF Outcome
  <2>3. fails' = 0 \/ fails' = fails
    BY DEF Outcome
  <2> QED BY <2>1, <2>2, <2>3 DEF Types
<1> QED BY <1>1, <1>2, <1>4, <1>5 DEF RunTypes, Types, TodoOK, Owed, GoodTodo

LEMMA ThenFacts ==
    ASSUME TypeInv, NEW s, Todo(s), Then
    PROVE  /\ RunTypes' /\ TodoOK' /\ run'.pc \in {"idle", "after"} /\ run.pc = "after" /\ Owed(s) /\ run.r \in Records
           /\ run'.pc = "after" => /\ run'.r = run.r /\ run'.rev = run.rev /\ run'.ver = run.ver /\ run'.out = run.out
                                /\ run'.pushed = run.pushed
           /\ \A u : Owed(u)' <=> Owed(u) /\ u # s
<1>1. run.pc = "after" /\ GoodTodo(run.todo, run.out) /\ Head(run.todo) = s /\ run.out # "none" /\ run.r \in Records /\ queue # <<>>
  BY DEF TypeInv, Types, TodoOK, Todo
<1>2. /\ \A u : Has(Tail(run.todo), u) <=> Has(run.todo, u) /\ u # s
      /\ Tail(run.todo) # <<>> => GoodTodo(Tail(run.todo), run.out)
      /\ Has(run.todo, s)
  BY <1>1, TailFacts
<1>3. CASE Tail(run.todo) = <<>>
  <2>1. EndRun
    BY <1>3 DEF Then
  <2>2. \A u : ~Has(Tail(run.todo), u)
    <3>1. \A u : ~Has(<<>>, u)
      BY DEF Has
    <3> QED BY <1>3, <3>1
  <2> QED BY <1>1, <1>2, <2>1, <2>2, EndFacts DEF TypeInv, Owed
<1>4. CASE Tail(run.todo) # <<>>
  <2>1. PICK n : n = [run EXCEPT !.todo = Tail(run.todo)]
    OBVIOUS
  <2>2. /\ n \in RunRec /\ n.pc = "after" /\ n.r = run.r /\ n.rev = run.rev /\ n.ver = run.ver /\ n.out = run.out
        /\ n.todo = Tail(run.todo) /\ n.pushed = run.pushed
    BY <1>1, <1>2, <1>4, <2>1 DEF TypeInv, Types, RunRec, GoodTodo
  <2>3. run' = n /\ UNCHANGED <<queue, inFlight>>
    BY <1>4, <2>1 DEF Then
  <2> QED BY <1>1, <1>2, <1>4, <2>2, <2>3 DEF RunTypes, TypeInv, Types, TodoOK, Owed
<1> QED BY <1>3, <1>4

-----------------------------------------------------------------------------
(* What each part of the invariant asks of a step *)

\* The types that no run is part of.
LEMMA TypesKept ==
    ASSUME TypeInv, RunTypes', TodoOK', draft' \in [Records -> DraftRec], appr' \in [Records -> ApprRec],
           claims' \subseteq Records, doubt' \subseteq Records, calls' \subseteq [r : Records, rev : Nat, human : BOOLEAN],
           media' \in [Records -> {"reserved", "free", "used", "quarantine"}], charged' \in [Records -> Nat],
           open' \in BOOLEAN, fails' \in Nat, UNCHANGED <<edge, posts>>
    PROVE  TypeInv'
BY DEF TypeInv, Types, RunTypes

LEMMA GrantStep ==
    ASSUME Types, GrantInv, Types', granted \subseteq granted',
           \A r \in Records : appr'[r].rev >= appr[r].rev,
           \A r \in Records : Approved(r)' =>
               \/ Approved(r) /\ appr'[r].rev = appr[r].rev /\ appr'[r].cv = appr[r].cv
               \/ appr'[r].rev >= 1 /\ <<r, appr'[r].rev, appr'[r].cv>> \in granted',
           \/ run'.pc \in {"idle", "read"}
           \/ run.pc \notin {"idle", "read"} /\ run'.r = run.r /\ run'.rev = run.rev /\ run'.ver = run.ver,
           edge' \in {edge, None},
           \A p \in posts' : p \in posts \/ (edge # None /\ p.r = edge.r /\ p.rev = edge.rev /\ p.ver = edge.ver)
    PROVE  GrantInv'
<1>1. \A r \in Records : Approved(r)' => appr'[r].rev >= 1 /\ <<r, appr'[r].rev, appr'[r].cv>> \in granted'
  BY DEF GrantInv
<1>2. run'.pc \notin {"idle", "read"} => /\ <<run'.r, run'.rev, run'.ver>> \in granted'
                                         /\ run'.rev >= 1 /\ run'.rev <= appr'[run'.r].rev
  <2> SUFFICES ASSUME run'.pc \notin {"idle", "read"}
               PROVE  <<run'.r, run'.rev, run'.ver>> \in granted' /\ run'.rev >= 1 /\ run'.rev <= appr'[run'.r].rev
    OBVIOUS
  <2>1. run.pc \notin {"idle", "read"} /\ run'.r = run.r /\ run'.rev = run.rev /\ run'.ver = run.ver
    OBVIOUS
  <2>2. run.r \in Records /\ run.rev \in Nat /\ appr[run.r].rev \in Nat /\ appr'[run.r].rev \in Nat
    BY <2>1 DEF Types, RunRec, ApprRec
  <2> QED BY <2>1, <2>2 DEF GrantInv
<1>3. edge' # None => <<edge'.r, edge'.rev, edge'.ver>> \in granted'
  BY DEF GrantInv
<1>4. PostedAsApproved'
  BY DEF GrantInv, PostedAsApproved
<1> QED BY <1>1, <1>2, <1>3, <1>4 DEF GrantInv

LEMMA DraftStep ==
    ASSUME DraftInv, \A r \in claims' : draft'[r].st = "none",
           Unwritten' => Unwritten /\ run'.r = run.r /\ draft'[run.r].st \in {draft[run.r].st, "rejected"}
    PROVE  DraftInv'
BY DEF DraftInv

LEMMA SpentStep ==
    ASSUME SpentInv, Types, Types', UNCHANGED <<edge, posts>>, answer' \in {answer, None},
           run'.pc \in {"mark", "prepare"} => edge = None /\ answer = None,
           run'.pc = "submit" => run.pc = "submit" /\ run'.r = run.r /\ run'.rev = run.rev,
           \A r \in Records : appr'[r].rev >= appr[r].rev,
           \A r \in Records, rev \in Nat : Spent(r, rev) => Held(r, rev, "pending") \/ ~Held(r, rev, "pending")',
           run'.pc = "prepare" => ~(appr'[run'.r].rev = run'.rev /\ appr'[run'.r].st = "pending") /\ ~Spent(run'.r, run'.rev),
           Owed("release")' => ~Spent(run'.r, run'.rev)
    PROVE  SpentInv'
<1>1. \A r, rev : PostOf(r, rev)' <=> PostOf(r, rev)
  BY DEF PostOf
<1>2. \A r, rev : Spent(r, rev)' <=> Spent(r, rev)
  BY <1>1 DEF Spent
<1>3. (edge # None => answer = None /\ ~PostOf(edge.r, edge.rev))'
  BY DEF SpentInv, PostOf
<1>4. run'.pc \in {"mark", "prepare"} => edge' = None /\ answer' = None
  OBVIOUS
<1>5. run'.pc = "submit" /\ edge' # None => edge'.r = run'.r /\ edge'.rev = run'.rev
  BY DEF SpentInv
<1>6. \A p, q \in posts' : p.k = 1 /\ (p.r = q.r /\ p.rev = q.rev => p = q)
  BY DEF SpentInv
<1>7. ASSUME NEW r \in Records, NEW rev \in Nat, Spent(r, rev)
      PROVE  rev >= 1 /\ rev <= appr'[r].rev /\ ~Held(r, rev, "pending")'
  <2>1. rev >= 1 /\ rev <= appr[r].rev /\ ~Held(r, rev, "pending")
    BY <1>7 DEF SpentInv
  <2>2. appr[r].rev \in Nat /\ appr'[r].rev \in Nat
    BY DEF Types, ApprRec
  <2> QED BY <1>7, <2>1, <2>2
<1>8. Refused' => Refused /\ run'.r = run.r /\ run'.rev = run.rev
  BY DEF Refused
<1>9. (run.pc = "prepare" \/ Refused \/ Owed("release") => ~Spent(run.r, run.rev))'
  <2>1. run'.pc = "prepare" \/ Refused' \/ Owed("release")' => ~Spent(run'.r, run'.rev)
    BY <1>8 DEF SpentInv
  <2> QED BY <2>1 DEF Spent, PostOf
<1>10. (run.pc = "prepare" => ~Held(run.r, run.rev, "pending"))'
  BY DEF Held
<1>11. (\A r \in Records, rev \in Nat : Spent(r, rev) => rev >= 1 /\ rev <= appr[r].rev /\ ~Held(r, rev, "pending"))'
  BY <1>2, <1>7
<1> QED BY <1>3, <1>4, <1>5, <1>6, <1>9, <1>10, <1>11 DEF SpentInv

LEMMA DoubtStep ==
    ASSUME DoubtInv, UNCHANGED <<edge, posts>>, answer' \in {answer, None}, doubt \subseteq doubt',
           \A r \in Records : Done(r) => Done(r)',
           \A r \in Records \ doubt' : Used(r) /\ Owing(r) => Owing(r)' \/ Done(r)',
           Unpushed' => run'.r \in doubt' \/ ~Used(run'.r),
           run'.pc \in {"submit", "capture"} => run'.pushed,
           run'.pc = "submit" => run.pc = "submit" /\ run'.r = run.r
    PROVE  DoubtInv'
<1>1. \A r : Used(r)' <=> Used(r)
  BY DEF Used
<1>2. Refused' => Refused /\ run'.r = run.r
  BY DEF Refused
<1>3. (Unpushed \/ Refused => run.r \in doubt \/ ~Used(run.r))'
  <2>1. Unpushed' \/ Refused' => run'.r \in doubt' \/ ~Used(run'.r)
    BY <1>2 DEF DoubtInv
  <2> QED BY <2>1 DEF Used
<1>4. \A r \in Records \ doubt' : Used(r)' => Done(r)' \/ Owing(r)'
  BY <1>1 DEF DoubtInv
<1>5. edge' # None /\ edge'.r \notin doubt' => \A p \in posts' : p.r # edge'.r
  BY DEF DoubtInv
<1>6. \A p, q \in posts' : p.r = q.r /\ p.r \notin doubt' => p = q
  BY DEF DoubtInv
<1> QED BY <1>3, <1>4, <1>5, <1>6 DEF DoubtInv

\* The tokens of one draft.
LEMMA BoundType ==
    ASSUME Types, NEW r \in Records
    PROVE  charged[r] \in Nat /\ appr[r].rev \in Nat /\ Bound(r) \in Nat /\ \A b \in BOOLEAN : Token(b) \in {0, 1}
BY DEF Types, ApprRec, Bound, Token

LEMMA ChargeStep ==
    ASSUME ChargeInv, Types, Types', doubt \subseteq doubt', UNCHANGED charged,
           \A r \in Records : /\ appr'[r].rev = appr[r].rev /\ (appr'[r].st = "pending" => appr[r].st = "pending")
                              /\ (MayCharge(r)' => MayCharge(r)) /\ (draft'[r].st = "scheduled" => draft[r].st = "scheduled")
                              /\ (Done(r) => Done(r)'),
           run'.pc \in Early /\ run'.r \notin doubt' => charged[run'.r] = 0,
           run'.pc = "after" /\ run'.out \in {"published", "submitted"} /\ run'.r \notin doubt' =>
               Owed("status")' \/ draft'[run'.r].st \notin {"none", "pending"}
    PROVE  ChargeInv'
<1>1. ASSUME NEW r \in Records
      PROVE  /\ Bound(r)' + Token(appr[r].st = "pending")' <= appr'[r].rev
             /\ r \notin doubt' => Bound(r)' <= 1 /\ (charged'[r] >= 1 => Done(r)')
  <2>1. charged'[r] = charged[r] /\ charged[r] \in Nat /\ appr[r].rev \in Nat
    BY DEF Types, ApprRec
  <2>2. /\ Token(MayCharge(r)') <= Token(MayCharge(r)) /\ Token(draft'[r].st = "scheduled") <= Token(draft[r].st = "scheduled")
        /\ Token(appr'[r].st = "pending") <= Token(appr[r].st = "pending")
        /\ Token(MayCharge(r)') \in {0, 1} /\ Token(MayCharge(r)) \in {0, 1} /\ Token(draft'[r].st = "scheduled") \in {0, 1}
        /\ Token(draft[r].st = "scheduled") \in {0, 1} /\ Token(appr'[r].st = "pending") \in {0, 1}
        /\ Token(appr[r].st = "pending") \in {0, 1}
    BY DEF Token
  <2>3. /\ Bound(r) = charged[r] + Token(MayCharge(r)) + Token(draft[r].st = "scheduled")
        /\ Bound(r)' = charged[r] + Token(MayCharge(r)') + Token(draft'[r].st = "scheduled")
        /\ Token(appr[r].st = "pending")' = Token(appr'[r].st = "pending")
    BY <2>1 DEF Bound, Token
  <2>4. Bound(r) + Token(appr[r].st = "pending") <= appr[r].rev /\ (r \notin doubt' => Bound(r) <= 1 /\ (charged[r] >= 1 => Done(r)))
    BY DEF ChargeInv
  <2> QED BY <2>1, <2>2, <2>3, <2>4
<1>2. (run.pc \in Early /\ run.r \notin doubt => charged[run.r] = 0)'
  OBVIOUS
<1>3. (run.pc = "after" /\ run.out \in {"published", "submitted"} /\ run.r \notin doubt => Owed("status") \/ Done(run.r))'
  BY DEF Done
<1> QED BY <1>1, <1>2, <1>3 DEF ChargeInv

-----------------------------------------------------------------------------
(* Steps that leave the run alone *)

\* The run, the edge and the platform stay; drafts leave pending or never had a run.
LEMMA OutsideStep ==
    ASSUME IInv, UNCHANGED <<run, edge, posts, doubt>>, answer' \in {answer, None}, Types', granted \subseteq granted',
           \A r \in Records : appr'[r].rev >= appr[r].rev,
           \A r \in Records : Approved(r)' =>
               \/ Approved(r) /\ appr'[r].rev = appr[r].rev /\ appr'[r].cv = appr[r].cv
               \/ appr'[r].rev >= 1 /\ <<r, appr'[r].rev, appr'[r].cv>> \in granted',
           \A r \in Records, rev \in Nat : Held(r, rev, "pending")' => Held(r, rev, "pending") \/ rev > appr[r].rev,
           \A r \in claims' : draft'[r].st = "none", \A r \in Records : Done(r) => Done(r)',
           Unwritten => draft'[run.r].st \in {draft[run.r].st, "rejected"}, ChargeInv', open' => open
    PROVE  IInv'
<1>1. TypeInv' /\ (\A s : Owed(s)' <=> Owed(s)) /\ (Unwritten' <=> Unwritten)
  BY DEF IInv, TypeInv, TodoOK, Owed, Unwritten
<1>2. GrantInv'
  <2>1. run'.pc \in {"idle", "read"} \/ (run.pc \notin {"idle", "read"} /\ run'.r = run.r /\ run'.rev = run.rev /\ run'.ver = run.ver)
    OBVIOUS
  <2> QED BY <2>1, GrantStep DEF IInv, TypeInv
<1>3. DraftInv'
  BY <1>1, DraftStep DEF IInv
<1>4. \A r \in Records, rev \in Nat : Spent(r, rev) => ~Held(r, rev, "pending") /\ ~Held(r, rev, "pending")'
  <2> SUFFICES ASSUME NEW r \in Records, NEW rev \in Nat, Spent(r, rev), ~Held(r, rev, "pending"), Held(r, rev, "pending")'
               PROVE  FALSE
    BY DEF IInv, SpentInv
  <2>1. rev <= appr[r].rev /\ rev > appr[r].rev /\ appr[r].rev \in Nat
    BY DEF IInv, SpentInv, TypeInv, Types, ApprRec
  <2> QED BY <2>1
<1>5. SpentInv'
  <2>1. run'.pc = "prepare" => ~(appr'[run'.r].rev = run'.rev /\ appr'[run'.r].st = "pending")
    <3> SUFFICES ASSUME run.pc = "prepare", Held(run.r, run.rev, "pending")' PROVE FALSE
      BY DEF Held
    <3>1. run.r \in Records /\ run.rev \in Nat /\ ~Held(run.r, run.rev, "pending") /\ run.rev <= appr[run.r].rev
          /\ appr[run.r].rev \in Nat
      BY DEF IInv, SpentInv, TypeInv, Types, RunRec, GrantInv, ApprRec
    <3>2. PICK x \in Records, y \in Nat : x = run.r /\ y = run.rev
      BY <3>1
    <3>3. Held(x, y, "pending")'
      BY <3>2 DEF Held
    <3> QED BY <3>1, <3>2, <3>3
  <2>2. (run.pc = "prepare" \/ Owed("release")) => ~Spent(run.r, run.rev)
    BY DEF IInv, SpentInv
  <2>3. run.pc \in {"mark", "prepare"} => edge = None /\ answer = None
    BY DEF IInv, SpentInv
  <2> QED BY <1>1, <1>4, <2>1, <2>2, <2>3, SpentStep DEF IInv, TypeInv
<1>6. DoubtInv'
  <2>1. \A r : Owing(r)' <=> Owing(r)
    BY <1>1 DEF Owing
  <2>2. Unpushed' => run'.r \in doubt' \/ ~Used(run'.r)
    BY DEF IInv, DoubtInv, Unpushed
  <2>3. run.pc \in {"submit", "capture"} => run.pushed
    BY DEF IInv, DoubtInv
  <2> QED BY <2>1, <2>2, <2>3, DoubtStep DEF IInv
<1>7. BreakerStops'
  BY DEF IInv, BreakerStops
<1> QED BY <1>1, <1>2, <1>3, <1>5, <1>6, <1>7 DEF IInv

\* Nor is a draft, an approval or a charge touched.
LEMMA QuietStep ==
    ASSUME IInv, UNCHANGED <<run, edge, posts, appr, granted, charged, doubt>>, answer' \in {answer, None}, Types', \A r \in Records : draft'[r].st = draft[r].st,
           \A r \in claims' : draft'[r].st = "none", open' => open
    PROVE  IInv'
<1>1. \A r : /\ Approved(r)' <=> Approved(r)
             /\ MayCharge(r)' <=> MayCharge(r)
             /\ \A rev : Held(r, rev, "pending")' <=> Held(r, rev, "pending")
  BY DEF Approved, MayCharge, Owed, Held
<1>2. \A r \in Records : (Done(r) => Done(r)') /\ appr[r].rev \in Nat
  BY DEF Done, IInv, TypeInv, Types, ApprRec
<1>3. run.r \notin Records => run.pc = "idle" /\ ~Unwritten
  BY DEF IInv, TypeInv, Types, Unwritten, Early, Owed
<1>4. ChargeInv'
  <2>1. run'.pc \in Early /\ run'.r \notin doubt' => charged[run'.r] = 0
    BY DEF IInv, ChargeInv
  <2>2. run'.pc = "after" /\ run'.out \in {"published", "submitted"} /\ run'.r \notin doubt' =>
            Owed("status")' \/ draft'[run'.r].st \notin {"none", "pending"}
    BY <1>3 DEF IInv, ChargeInv, Owed, Done
  <2> QED BY <1>1, <1>2, <2>1, <2>2, ChargeStep DEF IInv, TypeInv
<1> QED BY <1>1, <1>2, <1>3, <1>4, OutsideStep

LEMMA KeepsTrigger ==
    ASSUME IInv, NEW r \in Records, Trigger(r) PROVE IInv'
<1>1. claims' = claims \cup {r} /\ draft[r].st = "none" /\ UNCHANGED <<draft, appr, memory, edge, answer, media, faults, history>>
  BY DEF Trigger, tryClaim
<1>2. \A q \in claims' : draft'[q].st = "none"
  BY <1>1 DEF IInv, DraftInv
<1>3. Types'
  BY <1>1 DEF IInv, TypeInv, Types, memory, history
<1> QED BY <1>1, <1>2, <1>3, QuietStep DEF memory, history

LEMMA KeepsEdit ==
    ASSUME IInv, NEW r \in Records, Edit(r) PROVE IInv'
<1>1. draft' = [draft EXCEPT ![r].ver = @ + 1] /\ UNCHANGED <<claims, appr, memory, edge, answer, media, faults, history>>
  BY DEF Edit
<1>2. PICK d : d = [draft[r] EXCEPT !.ver = @ + 1]
  OBVIOUS
<1>3. d \in DraftRec /\ d.st = draft[r].st
  <2>1. draft[r] \in DraftRec
    BY DEF IInv, TypeInv, Types
  <2> QED BY <1>2, <2>1 DEF DraftRec
<1>4. draft' = [draft EXCEPT ![r] = d]
  BY <1>1, <1>2 DEF IInv, TypeInv, Types
<1>5. draft' \in [Records -> DraftRec] /\ \A q \in Records : draft'[q].st = draft[q].st
  BY <1>3, <1>4 DEF IInv, TypeInv, Types
<1>6. Types'
  BY <1>1, <1>5 DEF IInv, TypeInv, Types, memory, history
<1>7. \A q \in claims' : draft'[q].st = "none"
  BY <1>1, <1>5 DEF IInv, DraftInv, TypeInv, Types
<1> QED BY <1>1, <1>5, <1>6, <1>7, QuietStep DEF memory, history

\* The calls of humans and of the scan.
LEMMA KeepsCalls ==
    ASSUME IInv, NEW r \in Records, triggerApproved(r) \/ scanAndDispatchApproved(r) PROVE IInv'
<1>1. /\ calls' \subseteq [r : Records, rev : Nat, human : BOOLEAN]
      /\ UNCHANGED <<draft, claims, appr, inFlight, queue, run, fails, open, preempts, defers, edge, answer, media, faults, history>>
  <2>1. appr[r].rev \in Nat /\ 0 \in Nat
    BY DEF IInv, TypeInv, Types, ApprRec
  <2>2. PICK c \in [r : Records, rev : Nat, human : BOOLEAN] : calls' = calls \cup {c}
    <3>1. \A h \in BOOLEAN, v \in Nat : [r |-> r, rev |-> v, human |-> h] \in [r : Records, rev : Nat, human : BOOLEAN]
      OBVIOUS
    <3> QED BY <2>1, <3>1 DEF triggerApproved, scanAndDispatchApproved, Call
  <2>3. UNCHANGED <<draft, claims, appr, inFlight, queue, run, fails, open, preempts, defers, edge, answer, media, faults, history>>
    BY DEF triggerApproved, scanAndDispatchApproved
  <2> QED BY <2>2, <2>3 DEF IInv, TypeInv, Types
<1>2. Types'
  BY <1>1 DEF IInv, TypeInv, Types, history
<1>3. \A q \in claims' : draft'[q].st = "none"
  BY <1>1 DEF IInv, DraftInv
<1> QED BY <1>1, <1>2, <1>3, QuietStep DEF history

LEMMA Keepsdispatch ==
    ASSUME IInv, NEW c \in calls, dispatch(c) PROVE IInv'
<1>1. /\ calls' = calls \ {c} /\ open' = (open /\ ~c.human) /\ fails' \in {0, fails}
      /\ \/ UNCHANGED <<inFlight, queue>>
         \/ inFlight' = inFlight \cup {c.r} /\ queue' = Append(queue, [r |-> c.r, rev |-> c.rev])
      /\ UNCHANGED <<draft, claims, appr, run, preempts, defers, edge, answer, media, faults, history>>
  BY DEF dispatch
<1>2. c.r \in Records /\ c.rev \in Nat /\ c.human \in BOOLEAN /\ open \in BOOLEAN /\ fails \in Nat
  BY DEF IInv, TypeInv, Types
<1>3. RunTypes'
  <2>1. CASE UNCHANGED <<inFlight, queue>>
    BY <1>1, <2>1 DEF IInv, TypeInv, Types, RunTypes
  <2>2. CASE inFlight' = inFlight \cup {c.r} /\ queue' = Append(queue, [r |-> c.r, rev |-> c.rev])
    <3>1. [r |-> c.r, rev |-> c.rev] \in [r : Records, rev : Nat]
      BY <1>2
    <3>2. queue' \in Seq([r : Records, rev : Nat]) /\ Len(queue') = Len(queue) + 1 /\ Len(queue) \in Nat
      BY <2>2, <3>1 DEF IInv, TypeInv, Types
    <3>3. queue' # <<>>
      <4>1. Len(queue') # 0
        BY <3>2
      <4> QED BY <4>1
    <3> QED BY <1>1, <1>2, <2>2, <3>2, <3>3 DEF IInv, TypeInv, Types, RunTypes
  <2> QED BY <1>1, <2>1, <2>2
<1>4. Types'
  BY <1>1, <1>2, <1>3 DEF IInv, TypeInv, Types, RunTypes, history
<1>5. \A q \in claims' : draft'[q].st = "none"
  BY <1>1 DEF IInv, DraftInv
<1> QED BY <1>1, <1>2, <1>4, <1>5, QuietStep DEF history

\* A draft's status changes, to one that no run waits for and that cannot be charged.
LEMMA DraftMoves ==
    ASSUME IInv, NEW r \in Records, NEW d \in DraftRec, draft' = [draft EXCEPT ![r] = d],
           d.st = "none" => draft[r].st = "none", Done(r) => d.st \notin {"none", "pending"},
           d.st = "scheduled" => draft[r].st = "scheduled",
           Unwritten /\ run.r = r => d.st \in {draft[r].st, "rejected"},
           UNCHANGED <<run, edge, answer, posts, granted, charged, doubt>>, Types', \A q \in claims' : draft'[q].st = "none",
           \A q \in Records : /\ appr'[q].rev = appr[q].rev /\ appr'[q].cv = appr[q].cv
                              /\ appr'[q].st = appr[q].st \/ appr'[q].st = "void",
           open' => open
    PROVE  IInv'
<1>1. draft'[r] = d /\ \A q \in Records \ {r} : draft'[q] = draft[q]
  BY DEF IInv, TypeInv, Types
<1>2. \A q \in Records : /\ Done(q) => Done(q)'
                         /\ draft'[q].st = "scheduled" => draft[q].st = "scheduled"
  BY <1>1 DEF Done
<1>3. \A q \in Records : /\ Approved(q)' => Approved(q) /\ appr'[q].rev = appr[q].rev /\ appr'[q].cv = appr[q].cv
                         /\ appr'[q].st = "pending" => appr[q].st = "pending"
                         /\ appr[q].rev \in Nat
                         /\ \A rev \in Nat : Held(q, rev, "pending")' => Held(q, rev, "pending")
  BY DEF Approved, Held, IInv, TypeInv, Types, ApprRec
<1>4. \A q : MayCharge(q)' <=> MayCharge(q)
  BY DEF MayCharge, Owed
<1>5. run.pc # "idle" => run.r \in Records
  BY DEF IInv, TypeInv, Types
<1>6. ChargeInv'
  <2>1. run'.pc \in Early /\ run'.r \notin doubt' => charged[run'.r] = 0
    BY DEF IInv, ChargeInv
  <2>2. run'.pc = "after" /\ run'.out \in {"published", "submitted"} /\ run'.r \notin doubt' =>
            Owed("status")' \/ draft'[run'.r].st \notin {"none", "pending"}
    BY <1>2, <1>5 DEF IInv, ChargeInv, Owed, Done
  <2> QED BY <1>2, <1>3, <1>4, <2>1, <2>2, ChargeStep DEF IInv, TypeInv
<1>7. Unwritten => draft'[run.r].st \in {draft[run.r].st, "rejected"}
  BY <1>1, <1>5 DEF Unwritten, Early, Owed
<1> QED BY <1>2, <1>3, <1>6, <1>7, OutsideStep

\* A draft record with another status.
\* The status is all that changes of draft r.
Restatused(r, st) == draft' = [draft EXCEPT ![r].st = st]

LEMMA StatusForm ==
    ASSUME Types, NEW r \in Records, NEW st \in Statuses, Restatused(r, st)
    PROVE  \E d \in DraftRec : draft' = [draft EXCEPT ![r] = d] /\ d.st = st /\ draft'[r] = d
                               /\ (\A q \in Records \ {r} : draft'[q] = draft[q]) /\ draft' \in [Records -> DraftRec]
<1>1. PICK d : d = [draft[r] EXCEPT !.st = st]
  OBVIOUS
<1>2. d \in DraftRec /\ d.st = st
  <2>1. draft[r] \in DraftRec
    BY DEF Types
  <2> QED BY <1>1, <2>1 DEF DraftRec
<1>3. draft' = [draft EXCEPT ![r] = d]
  BY <1>1 DEF Types, Restatused
<1> QED BY <1>2, <1>3, ZenonT(30) DEF Types

LEMMA ApprForm ==
    ASSUME Types, NEW r \in Records, NEW st \in {"none", "pending", "dispatching", "consumed", "void"},
           appr' = [appr EXCEPT ![r].st = st]
    PROVE  /\ appr' \in [Records -> ApprRec] /\ appr'[r].st = st /\ appr'[r].rev = appr[r].rev /\ appr'[r].cv = appr[r].cv
           /\ \A q \in Records \ {r} : appr'[q] = appr[q]
<1>1. PICK d : d = [appr[r] EXCEPT !.st = st]
  OBVIOUS
<1>2. d \in ApprRec /\ d.st = st /\ d.rev = appr[r].rev /\ d.cv = appr[r].cv
  BY <1>1 DEF Types, ApprRec
<1>3. appr' = [appr EXCEPT ![r] = d]
  BY <1>1 DEF Types
<1> QED BY <1>2, <1>3, ZenonT(30) DEF Types

LEMMA KeepsrunClaimed ==
    ASSUME IInv, NEW r \in Records, runClaimed(r) PROVE IInv'
<1>1. /\ r \in claims /\ claims' = claims \ {r} /\ draft[r].st = "none" /\ Types
      /\ draft' = [draft EXCEPT ![r].st = "pending"] \/ draft' = draft
      /\ UNCHANGED <<appr, memory, edge, answer, media, faults, history>>
  BY DEF runClaimed, IInv, DraftInv, TypeInv
<1>2. CASE draft' = draft
  <2>1. Types'
    BY <1>1, <1>2 DEF IInv, TypeInv, Types, memory, history
  <2>2. \A q \in claims' : draft'[q].st = "none"
    BY <1>1, <1>2 DEF IInv, DraftInv
  <2> QED BY <1>1, <1>2, <2>1, <2>2, QuietStep DEF memory, history
<1>3. CASE draft' = [draft EXCEPT ![r].st = "pending"]
  <2>1. PICK d \in DraftRec : /\ draft' = [draft EXCEPT ![r] = d] /\ d.st = "pending" /\ draft'[r] = d
                              /\ \A q \in Records \ {r} : draft'[q] = draft[q]
                              /\ draft' \in [Records -> DraftRec]
    <3>1. "pending" \in Statuses
      BY DEF Statuses
    <3>2. Restatused(r, "pending")
      BY <1>3 DEF Restatused
    <3>3. Types
      BY <1>1
    <3> QED BY <3>1, <3>2, <3>3, StatusForm
  <2>2. Types'
    BY <1>1, <2>1 DEF Types, memory, history
  <2>3. \A q \in claims' : draft'[q].st = "none"
    BY <1>1, <2>1 DEF IInv, DraftInv, Types
  <2>4. ~Done(r) /\ ~(Unwritten /\ run.r = r)
    BY <1>1 DEF Done, IInv, DraftInv
  <2>5. UNCHANGED <<run, open>>
    BY <1>1 DEF memory
  <2> QED BY <1>1, <2>1, <2>2, <2>3, <2>4, <2>5, DraftMoves DEF history
<1> QED BY <1>1, <1>2, <1>3

\* A rejection takes no approval that stands, and the draft goes where no run looks for it again.
LEMMA KeepsrejectCandidate ==
    ASSUME IInv, NEW r \in Records, rejectCandidate(r) PROVE IInv'
<1>1. /\ appr' = [appr EXCEPT ![r].st = "void"] /\ UNCHANGED <<draft, claims, memory, edge, answer, media, faults, history>> /\ Types
  BY DEF rejectCandidate, IInv, TypeInv
<1>2. /\ appr' \in [Records -> ApprRec] /\ appr'[r].st = "void" /\ appr'[r].rev = appr[r].rev /\ appr'[r].cv = appr[r].cv
      /\ \A q \in Records \ {r} : appr'[q] = appr[q]
  BY <1>1, ApprForm
<1>3. PICK d \in DraftRec : d = draft[r]
  BY <1>1 DEF Types
<1>4. draft' = [draft EXCEPT ![r] = d]
  BY <1>1, <1>3 DEF Types
<1>5. Types'
  BY <1>1, <1>2 DEF Types, memory, history
<1>6. \A q \in claims' : draft'[q].st = "none"
  BY <1>1 DEF IInv, DraftInv
<1>7. UNCHANGED <<run, open>>
  BY <1>1 DEF memory
<1>8. \A q \in Records : /\ appr'[q].rev = appr[q].rev /\ appr'[q].cv = appr[q].cv
                         /\ appr'[q].st = appr[q].st \/ appr'[q].st = "void"
  BY <1>2
<1>9. Done(r) => d.st \notin {"none", "pending"}
  BY <1>3 DEF Done
<1> QED BY <1>1, <1>3, <1>4, <1>5, <1>6, <1>7, <1>8, <1>9, DraftMoves DEF history

LEMMA KeepsrejectPendingApproval ==
    ASSUME IInv, NEW r \in Records, rejectPendingApproval(r) PROVE IInv'
<1>1. /\ draft[r].st = "pending" /\ draft' = [draft EXCEPT ![r].st = "rejected"]
      /\ UNCHANGED <<claims, appr, memory, edge, answer, media, faults, history>> /\ Types
  BY DEF rejectPendingApproval, IInv, TypeInv
<1>2. PICK d \in DraftRec : /\ draft' = [draft EXCEPT ![r] = d] /\ d.st = "rejected" /\ draft'[r] = d
                            /\ \A q \in Records \ {r} : draft'[q] = draft[q]
                            /\ draft' \in [Records -> DraftRec]
  <2>1. "rejected" \in Statuses
    BY DEF Statuses
  <2>2. Restatused(r, "rejected")
    BY <1>1 DEF Restatused
  <2>3. Types
    BY <1>1
  <2> QED BY <2>1, <2>2, <2>3, StatusForm
<1>3. Types'
  BY <1>1, <1>2 DEF Types, memory, history
<1>4. \A q \in claims' : draft'[q].st = "none"
  BY <1>1, <1>2 DEF IInv, DraftInv, Types
<1>5. UNCHANGED <<run, open>>
  BY <1>1 DEF memory
<1> QED BY <1>1, <1>2, <1>3, <1>4, <1>5, DraftMoves DEF history

\* The reconciler charges what the schedule of a run still owed.
LEMMA KeepsreconcileOne ==
    ASSUME IInv, NEW r \in Records, reconcileOne(r) PROVE IInv'
<1>1. /\ draft[r].st = "scheduled" /\ Types /\ draft[r] \in DraftRec
      /\ UNCHANGED <<claims, appr, edge, answer, media, faults, granted, posts, doubt>>
      /\ UNCHANGED <<calls, inFlight, queue, run, fails, open, preempts, defers>>
  BY DEF reconcileOne, IInv, TypeInv, Types, memory
<1>2. Done(r) /\ r \notin claims /\ ~(Unwritten /\ run.r = r) /\ (run.pc \in Early => run.r # r)
  BY <1>1 DEF Done, IInv, DraftInv, Unwritten
<1>3. \A q : MayCharge(q)' <=> MayCharge(q)
  BY <1>1 DEF MayCharge, Owed
<1>4. CASE draft' = [draft EXCEPT ![r].st = "published"] /\ charged' = [charged EXCEPT ![r] = @ + 1]
  <2>1. PICK d \in DraftRec : /\ draft' = [draft EXCEPT ![r] = d] /\ d.st = "published" /\ draft'[r] = d
                              /\ \A q \in Records \ {r} : draft'[q] = draft[q]
                              /\ draft' \in [Records -> DraftRec]
    <3>1. "published" \in Statuses
      BY DEF Statuses
    <3>2. Restatused(r, "published")
      BY <1>4 DEF Restatused
    <3>3. Types
      BY <1>1
    <3> QED BY <3>1, <3>2, <3>3, StatusForm
  <2>2. charged' \in [Records -> Nat] /\ charged'[r] = charged[r] + 1 /\ \A q \in Records \ {r} : charged'[q] = charged[q]
    BY <1>1, <1>4 DEF Types
  <2>3. Types'
    BY <1>1, <2>1, <2>2 DEF Types
  <2>4. \A q \in Records : Done(q) => Done(q)'
    BY <2>1 DEF Done
  <2>5. ASSUME NEW q \in Records
        PROVE  Bound(q)' <= Bound(q) /\ Bound(q)' \in Nat /\ Bound(q) \in Nat /\ (q # r => charged'[q] = charged[q])
    <3>1. CASE q = r
      <4>1. Token(draft[q].st = "scheduled") = 1 /\ Token(draft'[q].st = "scheduled") = 0 /\ charged'[q] = charged[q] + 1
        BY <1>1, <2>1, <2>2, <3>1 DEF Token
      <4>2. Token(MayCharge(q)') = Token(MayCharge(q)) /\ Token(MayCharge(q)) \in {0, 1} /\ charged[q] \in Nat
        BY <1>1, <1>3 DEF Token, Types
      <4>3. Bound(q) = charged[q] + Token(MayCharge(q)) + 1
        BY <4>1 DEF Bound
      <4>4. Bound(q)' = charged'[q] + Token(MayCharge(q)') + Token(draft'[q].st = "scheduled")
        BY DEF Bound, Token
      <4> QED BY <3>1, <4>1, <4>2, <4>3, <4>4
    <3>2. CASE q # r
      BY <1>1, <1>3, <2>1, <2>2, <3>2 DEF Bound, Token, Types
    <3> QED BY <3>1, <3>2
  <2>6. ChargeInv'
    <3>1. (\A q \in Records : Bound(q) + Token(appr[q].st = "pending") <= appr[q].rev)'
      <4> SUFFICES ASSUME NEW q \in Records PROVE Bound(q)' + Token(appr[q].st = "pending") <= appr[q].rev
        BY <1>1 DEF Token
      <4>1. Bound(q) + Token(appr[q].st = "pending") <= appr[q].rev /\ appr[q].rev \in Nat /\ Token(appr[q].st = "pending") \in {0, 1}
        BY <1>1 DEF IInv, ChargeInv, Token, Types, ApprRec
      <4> QED BY <2>5, <4>1
    <3>2. (\A q \in Records \ doubt : Bound(q) <= 1 /\ (charged[q] >= 1 => Done(q)))'
      <4> SUFFICES ASSUME NEW q \in Records, q \notin doubt PROVE Bound(q)' <= 1 /\ (charged'[q] >= 1 => Done(q)')
        BY <1>1
      <4>1. Bound(q) <= 1 /\ (charged[q] >= 1 => Done(q))
        BY DEF IInv, ChargeInv
      <4> QED BY <1>2, <2>4, <2>5, <4>1
    <3>3. (run.pc \in Early /\ run.r \notin doubt => charged[run.r] = 0)'
      <4> SUFFICES ASSUME run.pc \in Early, run.r \notin doubt PROVE charged'[run.r] = 0
        BY <1>1
      <4>1. run.r \in Records /\ run.r # r /\ charged[run.r] = 0
        BY <1>1, <1>2 DEF Types, Early, IInv, ChargeInv
      <4> QED BY <2>2, <4>1
    <3>4. (run.pc = "after" /\ run.out \in {"published", "submitted"} /\ run.r \notin doubt => Owed("status") \/ Done(run.r))'
      <4> SUFFICES ASSUME run.pc = "after", run.out \in {"published", "submitted"}, run.r \notin doubt, ~Owed("status")
                   PROVE  draft'[run.r].st \notin {"none", "pending"}
        BY <1>1 DEF Owed, Done
      <4>1. run.r \in Records /\ Done(run.r)
        BY <1>1 DEF Types, IInv, ChargeInv
      <4> QED BY <2>4, <4>1 DEF Done
    <3> QED BY <3>1, <3>2, <3>3, <3>4 DEF ChargeInv
  <2>7. /\ \A q \in Records : appr'[q].rev >= appr[q].rev /\ (Approved(q)' <=> Approved(q))
        /\ \A q \in Records, rev \in Nat : Held(q, rev, "pending")' => Held(q, rev, "pending")
    BY <1>1 DEF Approved, Held, Types, ApprRec
  <2>8. (\A q \in claims' : draft'[q].st = "none") /\ (Unwritten => draft'[run.r].st \in {draft[run.r].st, "rejected"})
    BY <1>1, <1>2, <2>1 DEF IInv, DraftInv, Types, Unwritten, Early, Owed
  <2> QED BY <1>1, <2>3, <2>4, <2>6, <2>7, <2>8, OutsideStep
<1>5. CASE UNCHANGED charged /\ draft' = [draft EXCEPT ![r].att = @ + 1, ![r].st = IF draft[r].att + 1 >= MaxAttempts THEN "review" ELSE @]
  <2>1. PICK d : d = [draft[r] EXCEPT !.att = @ + 1, !.st = IF draft[r].att + 1 >= MaxAttempts THEN "review" ELSE @]
    OBVIOUS
  <2>2. d \in DraftRec /\ d.st \in {"scheduled", "review"}
    <3>1. PICK x \in {"scheduled", "review"} : x = IF draft[r].att + 1 >= MaxAttempts THEN "review" ELSE draft[r].st
      BY <1>1
    <3>2. d = [draft[r] EXCEPT !.att = draft[r].att + 1, !.st = x]
      BY <2>1, <3>1
    <3>3. x \in Statuses /\ draft[r].att + 1 \in Nat
      BY <1>1, <3>1 DEF DraftRec, Statuses
    <3> QED BY <1>1, <3>1, <3>2, <3>3 DEF DraftRec
  <2>3. draft' = [draft EXCEPT ![r] = d]
    BY <1>1, <1>5, <2>1 DEF Types
  <2>4. draft' \in [Records -> DraftRec] /\ \A q \in Records \ {r} : draft'[q] = draft[q]
    BY <1>1, <2>2, <2>3 DEF Types
  <2>5. Types'
    BY <1>1, <1>5, <2>4 DEF Types
  <2>6. \A q \in claims' : draft'[q].st = "none"
    BY <1>1, <1>2, <2>4 DEF IInv, DraftInv, Types
  <2> QED BY <1>1, <1>2, <1>5, <2>2, <2>3, <2>5, <2>6, DraftMoves
<1> QED BY <1>4, <1>5 DEF reconcileOne

\* Another approval is of another revision: what the button was pressed for stays behind.
LEMMA KeepsApprove ==
    ASSUME IInv, NEW r \in Records, Approve(r) PROVE IInv'
<1>1. PICK a : a = [st |-> "pending", rev |-> appr[r].rev + 1, cv |-> draft[r].ver]
  OBVIOUS
<1>2. /\ draft[r].st = "pending" /\ appr' = [appr EXCEPT ![r] = a] /\ granted' = granted \cup {<<r, a.rev, a.cv>>} /\ Types
      /\ calls' = calls \/ calls' = calls \cup {[Call(r) EXCEPT !.rev = a.rev]}
      /\ UNCHANGED <<draft, claims, inFlight, queue, run, fails, open, preempts, defers, edge, answer, media, faults, posts, charged, doubt>>
  BY <1>1 DEF Approve, IInv, TypeInv
<1>3. a \in ApprRec /\ a.st = "pending" /\ a.rev = appr[r].rev + 1 /\ appr[r].rev \in Nat
  BY <1>1, <1>2, SMTT(30) DEF Types, ApprRec, DraftRec
<1>4. appr' \in [Records -> ApprRec] /\ appr'[r] = a /\ \A q \in Records \ {r} : appr'[q] = appr[q]
  BY <1>2, <1>3 DEF Types
<1>5. calls' \subseteq [r : Records, rev : Nat, human : BOOLEAN]
  <2>1. PICK c : c = [Call(r) EXCEPT !.rev = a.rev]
    OBVIOUS
  <2>2. c \in [r : Records, rev : Nat, human : BOOLEAN]
    <3>1. Call(r) \in [r : Records, rev : Nat, human : BOOLEAN] /\ a.rev \in Nat
      BY <1>3 DEF Call
    <3> QED BY <2>1, <3>1
  <2> QED BY <1>2, <2>1, <2>2 DEF Types
<1>6. Types'
  BY <1>2, <1>4, <1>5 DEF Types
<1>7. \A q \in Records : appr'[q].rev >= appr[q].rev
  <2>1. appr'[r].rev = appr[r].rev + 1
    BY <1>3, <1>4
  <2>2. \A q \in Records : appr[q].rev \in Nat
    BY <1>2 DEF Types, ApprRec
  <2> QED BY <1>4, <2>1, <2>2
<1>8. \A q \in Records : Approved(q)' =>
               \/ Approved(q) /\ appr'[q].rev = appr[q].rev /\ appr'[q].cv = appr[q].cv
               \/ appr'[q].rev >= 1 /\ <<q, appr'[q].rev, appr'[q].cv>> \in granted'
  BY <1>2, <1>3, <1>4 DEF Approved
<1>9. \A q \in Records, rev \in Nat : Held(q, rev, "pending")' => Held(q, rev, "pending") \/ rev > appr[q].rev
  BY <1>3, <1>4 DEF Held
<1>10. \A q : (MayCharge(q)' <=> MayCharge(q)) /\ (Done(q) <=> Done(q)') /\ (Owed("status")' <=> Owed("status"))
  BY <1>2 DEF MayCharge, Owed, Done
<1>11. ChargeInv'
  <2>1. \A q \in Records : Bound(q)' = Bound(q)
    BY <1>2, <1>10 DEF Bound, Token
  <2>2. ASSUME NEW q \in Records PROVE Bound(q) + Token(appr'[q].st = "pending") <= appr'[q].rev
    <3>1. /\ Bound(q) + Token(appr[q].st = "pending") <= appr[q].rev /\ Bound(q) \in Nat /\ appr[q].rev \in Nat
          /\ Token(appr[q].st = "pending") \in {0, 1} /\ Token(appr'[q].st = "pending") \in {0, 1}
      BY <1>2, BoundType DEF IInv, ChargeInv, Token
    <3>2. CASE q = r
      BY <1>3, <1>4, <3>1, <3>2
    <3>3. CASE q # r
      BY <1>4, <3>1, <3>3
    <3> QED BY <3>2, <3>3
  <2>3. (\A q \in Records : Bound(q) + Token(appr[q].st = "pending") <= appr[q].rev)'
    BY <2>1, <2>2 DEF Token
  <2>4. (\A q \in Records \ doubt : Bound(q) <= 1 /\ (charged[q] >= 1 => Done(q)))'
    BY <1>2, <1>10, <2>1 DEF IInv, ChargeInv
  <2>5. (run.pc \in Early /\ run.r \notin doubt => charged[run.r] = 0)'
    BY <1>2 DEF IInv, ChargeInv
  <2>6. (run.pc = "after" /\ run.out \in {"published", "submitted"} /\ run.r \notin doubt => Owed("status") \/ Done(run.r))'
    BY <1>2 DEF IInv, ChargeInv, Owed, Done
  <2> QED BY <2>3, <2>4, <2>5, <2>6 DEF ChargeInv
<1>12. (\A q \in claims' : draft'[q].st = "none") /\ (Unwritten => draft'[run.r].st \in {draft[run.r].st, "rejected"})
  BY <1>2 DEF IInv, DraftInv
<1> QED BY <1>2, <1>6, <1>7, <1>8, <1>9, <1>10, <1>11, <1>12, OutsideStep

-----------------------------------------------------------------------------
(* The dispatch up to the edge *)

\* The run ends or goes on without a push, a write of a status or a charge.
LEMMA RunStep ==
    ASSUME IInv, UNCHANGED <<edge, posts, granted, charged>>, answer' \in {answer, None}, doubt \subseteq doubt', Types', TodoOK',
           \A r \in Records : /\ appr'[r].rev = appr[r].rev /\ appr'[r].cv = appr[r].cv
                              /\ appr'[r].st = appr[r].st \/ appr'[r].st \in {"dispatching", "consumed", "void"},
           GrantInv', \A r \in claims' : draft'[r].st = "none",
           Unwritten' => Unwritten /\ run'.r = run.r /\ draft'[run.r].st \in {draft[run.r].st, "rejected"},
           run'.pc = "mark" => edge = None /\ answer = None, run'.pc \notin {"prepare", "submit", "capture"},
           \A r \in Records : /\ Done(r) => Done(r)'
                              /\ draft'[r].st = "scheduled" => draft[r].st = "scheduled"
                              /\ MayCharge(r)' => MayCharge(r)
                              /\ r \notin doubt' /\ Used(r) => (Owing(r) => Owing(r)' \/ Done(r)'),
           run'.pc \in Early => run.pc \in Early /\ run'.r = run.r,
           run'.pc = "after" => /\ run.pc = "after" /\ run'.r = run.r /\ run'.rev = run.rev /\ run'.out = run.out /\ run'.pushed = run.pushed
                                /\ Owed("release")' => Owed("release")
                                /\ run.r \notin doubt' /\ Owed("status") /\ ~Owed("status")' => Done(run.r)',
           open' => open \/ run'.pc \in {"idle", "after"}
    PROVE  IInv'
<1>1. TypeInv' /\ DraftInv'
  BY DraftStep DEF IInv, TypeInv
<1>2. \A r \in Records : /\ appr[r].rev \in Nat /\ (appr'[r].st = "pending" => appr[r].st = "pending")
                         /\ \A rev \in Nat : Held(r, rev, "pending")' => Held(r, rev, "pending")
  BY DEF IInv, TypeInv, Types, ApprRec, Held
<1>3. SpentInv'
  <2>1. Owed("release")' => ~Spent(run'.r, run'.rev)
    <3>1. Owed("release")' => run'.pc = "after"
      BY DEF Owed
    <3> QED BY <3>1 DEF IInv, SpentInv
  <2>2. \A r \in Records, rev \in Nat : Spent(r, rev) => Held(r, rev, "pending") \/ ~Held(r, rev, "pending")'
    BY <1>2
  <2>3. run'.pc \in {"mark", "prepare"} => edge = None /\ answer = None
    OBVIOUS
  <2> QED BY <1>2, <2>1, <2>2, <2>3, SpentStep DEF IInv, TypeInv
<1>4. DoubtInv'
  <2>1. Unpushed' => run'.r \in doubt' \/ ~Used(run'.r)
    <3>1. Unpushed' => Unpushed /\ run'.r = run.r
      BY DEF Unpushed
    <3> QED BY <3>1 DEF IInv, DoubtInv
  <2> QED BY <2>1, DoubtStep DEF IInv
<1>5. ChargeInv'
  <2>1. run'.pc \in Early /\ run'.r \notin doubt' => charged[run'.r] = 0
    BY DEF IInv, ChargeInv
  <2>2. run'.pc = "after" /\ run'.out \in {"published", "submitted"} /\ run'.r \notin doubt' =>
            Owed("status")' \/ draft'[run'.r].st \notin {"none", "pending"}
    <3> SUFFICES ASSUME run'.pc = "after", run'.out \in {"published", "submitted"}, run'.r \notin doubt', ~Owed("status")'
                 PROVE  draft'[run.r].st \notin {"none", "pending"}
      OBVIOUS
    <3>1. run.r \in Records /\ (Owed("status") \/ Done(run.r))
      BY DEF IInv, ChargeInv, TypeInv, Types
    <3> QED BY <3>1 DEF Done
  <2> QED BY <1>2, <2>1, <2>2, ChargeStep DEF IInv, TypeInv
<1>6. BreakerStops'
  <2> SUFFICES ASSUME open', run'.pc \notin {"idle", "after"} PROVE FALSE
    BY DEF BreakerStops
  <2>1. run'.pc \in Pcs
    BY DEF Types, RunRec
  <2>2. run'.pc \in Early
    BY <2>1 DEF Pcs, Early
  <2> QED BY <2>2 DEF IInv, BreakerStops, Early
<1> QED BY <1>1, <1>3, <1>4, <1>5, <1>6 DEF IInv

\* A run that ends early: nothing was pushed for it.
LEMMA EarlyEnd ==
    ASSUME IInv, run.pc \in Early, EndRun, UNCHANGED <<edge, answer, posts, granted, charged, doubt>>, Types',
           \A r \in Records : /\ appr'[r].rev = appr[r].rev /\ appr'[r].cv = appr[r].cv
                              /\ \/ appr'[r].st = appr[r].st \/ appr'[r].st = "void"
                                 \/ Approved(r) /\ appr'[r].st = "dispatching",
           UNCHANGED <<claims, open>>, \A r \in Records \ {run.r} : draft'[r].st = draft[r].st,
           draft'[run.r].st \in {draft[run.r].st, "failed"}
    PROVE  IInv'
<1>1. Types /\ run.pc # "idle" /\ queue # <<>> /\ run.r \in Records
  BY DEF Early, IInv, TypeInv, Types
<1>2. TodoOK' /\ run'.pc = "idle" /\ \A s : ~Owed(s)'
  BY <1>1, EndFacts
<1>3. ~Unwritten' /\ \A r \in Records : ~MayCharge(r)'
  BY <1>2 DEF Unwritten, Early, MayCharge
<1>4. \A r \in Records : ~Owing(r)
  BY DEF Owing, Early, Owed
<1>5. draft[run.r].st \in {"pending", "rejected"}
  BY DEF IInv, DraftInv, Unwritten
<1>6. ASSUME NEW r \in claims' PROVE draft'[r].st = "none"
  <2>1. r \in Records /\ draft[r].st = "none"
    BY <1>1 DEF IInv, DraftInv, Types
  <2> QED BY <1>5, <2>1
<1>7. \A r \in Records : (Done(r) => Done(r)') /\ (draft'[r].st = "scheduled" => draft[r].st = "scheduled")
  BY <1>1 DEF Done
<1>8. ASSUME NEW r \in Records PROVE appr'[r].rev >= appr[r].rev /\ (Approved(r)' => Approved(r))
  <2>1. appr[r].rev \in Nat /\ appr'[r].rev = appr[r].rev
    BY <1>1 DEF Types, ApprRec
  <2> QED BY <2>1 DEF Approved
<1>9. GrantInv'
  BY <1>1, <1>2, <1>8, GrantStep DEF IInv
<1> QED BY <1>2, <1>3, <1>4, <1>6, <1>7, <1>9, RunStep DEF Early

\* A run goes from one early step to the next.
LEMMA EarlyOn ==
    ASSUME IInv, run.pc \in {"gates", "lease"}, NEW pc \in {"lease", "mark"}, Step(pc),
           UNCHANGED <<edge, answer, posts, granted, charged, doubt, draft, claims, appr, open, calls, media, fails>>,
           pc = "mark" => edge = None /\ answer = None
    PROVE  IInv'
<1>1. Types /\ run.pc # "idle" /\ run.r \in Records /\ pc \in Pcs \ {"idle", "after"}
  BY DEF Pcs, IInv, TypeInv, Types
<1>2. /\ RunTypes' /\ run'.pc = pc /\ run'.r = run.r /\ run'.rev = run.rev /\ run'.ver = run.ver
      /\ TodoOK' /\ \A s : ~Owed(s)'
  BY <1>1, StepFacts
<1>3. Types'
  BY <1>1, <1>2 DEF Types, RunTypes
<1>4. Unwritten /\ run.pc \in Early
  BY DEF Unwritten, Early
<1>5. \A r \in Records : ~Owing(r) /\ ~MayCharge(r)' /\ (Approved(r)' <=> Approved(r)) /\ (Done(r)' <=> Done(r)) /\ appr[r].rev \in Nat
  BY <1>1, <1>2, <1>4 DEF Owing, Early, Owed, MayCharge, Approved, Done, Types, ApprRec
<1>6. GrantInv'
  <2>1. run.pc \notin {"idle", "read"} /\ run'.r = run.r /\ run'.rev = run.rev /\ run'.ver = run.ver
    BY <1>2
  <2> QED BY <1>1, <1>3, <1>5, <2>1, GrantStep DEF IInv
<1>7. \A r \in claims' : draft'[r].st = "none"
  BY DEF IInv, DraftInv
<1> QED BY <1>2, <1>3, <1>4, <1>5, <1>6, <1>7, RunStep

LEMMA KeepsLoadDraft ==
    ASSUME IInv, LoadDraft PROVE IInv'
<1>1. /\ queue # <<>> /\ run.pc = "idle" /\ Types
      /\ UNCHANGED <<draft, claims, appr, calls, fails, open, preempts, defers, edge, answer, media, faults, history>>
  BY DEF LoadDraft, IInv, TypeInv
<1>2. UNCHANGED <<granted, posts, charged, doubt>>
  BY <1>1 DEF history
<1>3. PICK c \in [r : Records, rev : Nat] : c = Head(queue)
  <2>1. Head(queue) \in [r : Records, rev : Nat]
    BY <1>1, HeadIn DEF Types
  <2> QED BY <2>1
<1>4. \A r \in Records : /\ ~Owing(r) /\ (Approved(r)' <=> Approved(r)) /\ (Done(r)' <=> Done(r)) /\ appr[r].rev \in Nat
                         /\ \A rev : Held(r, rev, "pending")' <=> Held(r, rev, "pending")
  BY <1>1 DEF Owing, Owed, Approved, Done, Types, ApprRec, Held
<1>5. \A r \in claims' : draft'[r].st = "none"
  BY <1>1 DEF IInv, DraftInv
<1>6. CASE EndRun
  <2>1. RunTypes' /\ TodoOK' /\ run'.pc = "idle" /\ \A s : ~Owed(s)'
    BY <1>1, <1>6, EndFacts
  <2>2. Types'
    BY <1>1, <1>2, <2>1 DEF Types, RunTypes
  <2>3. ~Unwritten' /\ \A r \in Records : ~MayCharge(r)'
    BY <2>1 DEF Unwritten, Early, MayCharge
  <2>4. GrantInv'
    BY <1>1, <1>2, <1>4, <2>1, <2>2, GrantStep DEF IInv
  <2> QED BY <1>1, <1>2, <1>4, <1>5, <2>1, <2>2, <2>3, <2>4, RunStep DEF Early
<1>7. CASE /\ ~Skipped /\ draft[c.r].st = "pending" /\ UNCHANGED <<queue, inFlight>>
           /\ run' = [NoRun EXCEPT !.pc = "read", !.r = c.r, !.ver = draft[c.r].ver]
  <2>1. draft[c.r].ver \in Nat
    BY <1>1 DEF Types, DraftRec
  <2>2. run' \in RunRec /\ run'.pc = "read" /\ run'.r = c.r
    BY <1>3, <1>7, <2>1, NoRunFacts DEF RunRec, Pcs, NoRun
  <2>3. Types' /\ TodoOK' /\ \A s : ~Owed(s)'
    BY <1>1, <1>2, <1>3, <1>7, <2>2 DEF Types, TodoOK, Owed
  <2>4. GrantInv'
    BY <1>1, <1>2, <1>4, <2>2, <2>3, GrantStep DEF IInv
  <2>5. DraftInv'
    BY <1>1, <1>5, <1>7, <2>2 DEF DraftInv
  <2>6. ~Done(c.r) /\ c.r \in Records
    BY <1>3, <1>7 DEF Done
  <2>7. c.r \in doubt \/ ~Used(c.r)
    BY <1>4, <2>6 DEF IInv, DoubtInv
  <2>8. SpentInv'
    <3>1. ~Owed("release")'
      BY <2>3
    <3> QED BY <1>1, <1>2, <1>4, <2>2, <2>3, <3>1, SpentStep DEF IInv
  <2>9. DoubtInv'
    <3>1. Unpushed' => run'.r \in doubt' \/ ~Used(run'.r)
      BY <1>2, <2>2, <2>7
    <3> QED BY <1>1, <1>2, <1>4, <2>2, <3>1, DoubtStep DEF IInv
  <2>10. ChargeInv'
    <3>1. c.r \notin doubt => charged[c.r] = 0
      <4>1. c.r \notin doubt => ~(charged[c.r] >= 1) /\ charged[c.r] \in Nat
        BY <1>1, <2>6 DEF IInv, ChargeInv, Types
      <4> QED BY <4>1
    <3>2. \A r \in Records : ~MayCharge(r)'
      BY <2>2, <2>3 DEF MayCharge
    <3> QED BY <1>1, <1>2, <1>4, <2>2, <2>3, <3>1, <3>2, ChargeStep DEF IInv
  <2>11. BreakerStops' /\ TypeInv'
    BY <1>1, <1>7, <2>2, <2>3 DEF BreakerStops, Skipped, TypeInv
  <2> QED BY <2>4, <2>5, <2>8, <2>9, <2>10, <2>11 DEF IInv
<1> QED BY <1>3, <1>6, <1>7 DEF LoadDraft

LEMMA KeepsReadApproval ==
    ASSUME IInv, ReadApproval PROVE IInv'
<1>1. /\ run.pc = "read" /\ run.pc \in Early /\ Types /\ run.r \in Records /\ queue # <<>>
      /\ UNCHANGED <<draft, claims, calls, fails, open, preempts, defers, edge, answer, media, faults, history>>
  BY DEF ReadApproval, IInv, TypeInv, Types, Early
<1>2. UNCHANGED <<granted, posts, charged, doubt>>
  BY <1>1 DEF history
<1>3. CASE EndRun /\ UNCHANGED appr
  <2>1. RunTypes'
    BY <1>1, <1>3, EndFacts
  <2>2. Types'
    BY <1>1, <1>2, <1>3, <2>1 DEF Types, RunTypes
  <2> QED BY <1>1, <1>2, <1>3, <2>2, EarlyEnd
<1>4. CASE Approved(run.r) /\ EndRun /\ appr' = [appr EXCEPT ![run.r].st = "void"]
  <2>1. RunTypes'
    BY <1>1, <1>4, EndFacts
  <2>2. /\ appr' \in [Records -> ApprRec] /\ appr'[run.r].st = "void" /\ appr'[run.r].rev = appr[run.r].rev
        /\ appr'[run.r].cv = appr[run.r].cv /\ \A q \in Records \ {run.r} : appr'[q] = appr[q]
    BY <1>1, <1>4, ApprForm
  <2>3. Types'
    BY <1>1, <1>2, <2>1, <2>2 DEF Types, RunTypes
  <2>4. \A r \in Records : /\ appr'[r].rev = appr[r].rev /\ appr'[r].cv = appr[r].cv
                           /\ appr'[r].st = appr[r].st \/ appr'[r].st = "void"
    BY <1>4, <2>2 DEF Approved
  <2> QED BY <1>1, <1>2, <1>4, <2>3, <2>4, EarlyEnd
<1>5. CASE /\ Approved(run.r) /\ SameVersion /\ UNCHANGED <<appr, queue, inFlight>>
           /\ run' = [run EXCEPT !.pc = "gates", !.rev = appr[run.r].rev]
  <2>1. appr[run.r].rev \in Nat /\ appr[run.r].cv = run.ver /\ run \in RunRec
    BY <1>1, <1>5 DEF Types, ApprRec, SameVersion
  <2>2. /\ run' \in RunRec /\ run'.pc = "gates" /\ run'.r = run.r /\ run'.rev = appr[run.r].rev /\ run'.ver = run.ver
    BY <1>5, <2>1 DEF RunRec, Pcs
  <2>3. Types' /\ TodoOK' /\ \A s : ~Owed(s)'
    BY <1>1, <1>2, <1>5, <2>2 DEF Types, TodoOK, Owed
  <2>4. <<run.r, appr[run.r].rev, appr[run.r].cv>> \in granted /\ appr[run.r].rev >= 1
    BY <1>1, <1>5 DEF IInv, GrantInv
  <2>5. GrantInv'
    <3>1. (\A r \in Records : Approved(r) => appr[r].rev >= 1 /\ <<r, appr[r].rev, appr[r].cv>> \in granted)'
      BY <1>2, <1>5 DEF Approved, IInv, GrantInv
    <3>2. <<run'.r, run'.rev, run'.ver>> \in granted' /\ run'.rev >= 1 /\ run'.rev <= appr'[run'.r].rev
      BY <1>2, <1>5, <2>1, <2>2, <2>4
    <3>3. (edge # None => <<edge.r, edge.rev, edge.ver>> \in granted)' /\ PostedAsApproved'
      BY <1>1, <1>2 DEF IInv, GrantInv, PostedAsApproved
    <3> QED BY <3>1, <3>2, <3>3 DEF GrantInv
  <2>6. \A r \in Records : ~Owing(r) /\ ~MayCharge(r)' /\ (Done(r)' <=> Done(r))
    BY <1>1, <2>2, <2>3 DEF Owing, Owed, MayCharge, Done
  <2>7. (\A r \in claims' : draft'[r].st = "none") /\ Unwritten
    BY <1>1 DEF IInv, DraftInv, Unwritten
  <2> QED BY <1>1, <1>2, <1>5, <2>2, <2>3, <2>5, <2>6, <2>7, RunStep
<1> QED BY <1>3, <1>4, <1>5 DEF ReadApproval

LEMMA KeepsGates ==
    ASSUME IInv, Gates PROVE IInv'
<1>1. /\ run.pc = "gates" /\ run.pc \in Early /\ Types /\ run.r \in Records /\ queue # <<>>
      /\ UNCHANGED <<claims, appr, calls, fails, open, preempts, defers, edge, answer, faults, history>>
  BY DEF Gates, IInv, TypeInv, Types, Early
<1>2. UNCHANGED <<granted, posts, charged, doubt>>
  BY <1>1 DEF history
<1>3. CASE Step("lease") /\ UNCHANGED <<draft, media>>
  BY <1>1, <1>2, <1>3, EarlyOn
<1>4. CASE EndRun /\ UNCHANGED <<draft, media>>
  <2>1. RunTypes'
    BY <1>1, <1>4, EndFacts
  <2>2. Types'
    BY <1>1, <1>2, <1>4, <2>1 DEF Types, RunTypes
  <2> QED BY <1>1, <1>2, <1>4, <2>2, EarlyEnd
<1>5. CASE EndRun /\ draft' = [draft EXCEPT ![run.r].st = "failed"] /\ media' = [media EXCEPT ![run.r] = "free"]
  <2>1. RunTypes'
    BY <1>1, <1>5, EndFacts
  <2>0. PICK r \in Records, st \in Statuses : r = run.r /\ st = "failed"
    BY <1>1 DEF Statuses
  <2>2. PICK d \in DraftRec : /\ draft' = [draft EXCEPT ![r] = d] /\ d.st = st /\ draft'[r] = d
                              /\ \A q \in Records \ {r} : draft'[q] = draft[q]
                              /\ draft' \in [Records -> DraftRec]
    <3>2. Restatused(r, st)
      BY <1>5, <2>0 DEF Restatused
    <3> QED BY <1>1, <3>2, StatusForm
  <2>3. media' \in [Records -> {"reserved", "free", "used", "quarantine"}]
    BY <1>1, <1>5 DEF Types
  <2>4. Types'
    BY <1>1, <1>2, <2>1, <2>2, <2>3 DEF Types, RunTypes
  <2> QED BY <1>1, <1>2, <1>5, <2>0, <2>2, <2>4, EarlyEnd
<1> QED BY <1>3, <1>4, <1>5 DEF Gates

\* The run ends and its approval is void, unless a later one has replaced it.
LEMMA KeepsUnconfirmed ==
    ASSUME IInv, run.pc \in Early, Unconfirmed,
           UNCHANGED <<draft, claims, calls, fails, open, preempts, defers, edge, answer, media, faults, history>>
    PROVE  IInv'
<1>1. /\ Types /\ run.r \in Records /\ queue # <<>> /\ EndRun
  BY DEF Unconfirmed, IInv, TypeInv, Types, Early
<1>2. UNCHANGED <<granted, posts, charged, doubt>>
  BY DEF history
<1>3. RunTypes'
  BY <1>1, EndFacts
<1>4. CASE appr' = appr
  <2>1. Types'
    BY <1>1, <1>2, <1>3, <1>4 DEF Types, RunTypes
  <2> QED BY <1>1, <1>2, <1>4, <2>1, EarlyEnd
<1>5. CASE appr[run.r].rev = run.rev /\ appr' = [appr EXCEPT ![run.r].st = "void"]
  <2>1. /\ appr' \in [Records -> ApprRec] /\ appr'[run.r].st = "void" /\ appr'[run.r].rev = appr[run.r].rev
        /\ appr'[run.r].cv = appr[run.r].cv /\ \A q \in Records \ {run.r} : appr'[q] = appr[q]
    BY <1>1, <1>5, ApprForm
  <2>2. Types'
    BY <1>1, <1>2, <1>3, <2>1 DEF Types, RunTypes
  <2>3. \A r \in Records : /\ appr'[r].rev = appr[r].rev /\ appr'[r].cv = appr[r].cv
                           /\ appr'[r].st = appr[r].st \/ appr'[r].st = "void"
    BY <2>1
  <2> QED BY <1>1, <1>2, <1>5, <2>2, <2>3, EarlyEnd
<1> QED BY <1>4, <1>5 DEF Unconfirmed

LEMMA KeepsLease ==
    ASSUME IInv, Lease PROVE IInv'
<1>1. /\ run.pc = "lease" /\ run.pc \in Early /\ Types /\ run.r \in Records /\ queue # <<>>
      /\ UNCHANGED <<draft, claims, calls, fails, open, preempts, defers, edge, answer, media, faults, history>>
  BY DEF Lease, IInv, TypeInv, Types, Early
<1>2. UNCHANGED <<granted, posts, charged, doubt>>
  BY <1>1 DEF history
<1>3. CASE edge = None /\ answer = None /\ Step("mark") /\ UNCHANGED appr
  BY <1>1, <1>2, <1>3, EarlyOn
<1>4. CASE EndRun /\ UNCHANGED appr
  <2>1. RunTypes'
    BY <1>1, <1>4, EndFacts
  <2>2. Types'
    BY <1>1, <1>2, <1>4, <2>1 DEF Types, RunTypes
  <2> QED BY <1>1, <1>2, <1>4, <2>2, EarlyEnd
<1>5. CASE Unconfirmed
  BY <1>1, <1>5, KeepsUnconfirmed
<1> QED BY <1>1, <1>3, <1>4, <1>5 DEF Lease

\* The revision is marked before the first command leaves: what was pending may now be charged.
LEMMA KeepsmarkDispatching ==
    ASSUME IInv, markDispatching PROVE IInv'
<1>1. /\ run.pc = "mark" /\ run.pc \in Early /\ Types /\ run.r \in Records /\ run.rev \in Nat /\ queue # <<>>
      /\ UNCHANGED <<draft, claims, calls, fails, open, preempts, defers, edge, answer, media, history>>
  BY DEF markDispatching, IInv, TypeInv, Types, RunRec, Early
<1>2. UNCHANGED <<granted, posts, charged, doubt>>
  BY <1>1 DEF history
<1>3. CASE EndRun /\ UNCHANGED appr
  <2>1. RunTypes'
    BY <1>1, <1>3, EndFacts
  <2>2. Types'
    BY <1>1, <1>2, <1>3, <2>1 DEF Types, RunTypes
  <2> QED BY <1>1, <1>2, <1>3, <2>2, EarlyEnd
<1>4. CASE MayDispatch /\ appr' = [appr EXCEPT ![run.r].st = "dispatching"] /\ EndRun
  <2>1. RunTypes'
    BY <1>1, <1>4, EndFacts
  <2>2. /\ appr' \in [Records -> ApprRec] /\ appr'[run.r].st = "dispatching" /\ appr'[run.r].rev = appr[run.r].rev
        /\ appr'[run.r].cv = appr[run.r].cv /\ \A q \in Records \ {run.r} : appr'[q] = appr[q]
    BY <1>1, <1>4, ApprForm
  <2>3. Types'
    BY <1>1, <1>2, <2>1, <2>2 DEF Types, RunTypes
  <2>4. \A r \in Records : /\ appr'[r].rev = appr[r].rev /\ appr'[r].cv = appr[r].cv
                           /\ \/ appr'[r].st = appr[r].st \/ appr'[r].st = "void"
                              \/ Approved(r) /\ appr'[r].st = "dispatching"
    BY <1>4, <2>2 DEF MayDispatch, Held, Approved
  <2> QED BY <1>1, <1>2, <1>4, <2>3, <2>4, EarlyEnd
<1>5. CASE MayDispatch /\ appr' = [appr EXCEPT ![run.r].st = "dispatching"] /\ Step("prepare")
  <2>1. /\ RunTypes' /\ run'.pc = "prepare" /\ run'.r = run.r /\ run'.rev = run.rev /\ run'.ver = run.ver
        /\ run'.pushed = run.pushed /\ TodoOK' /\ \A s : ~Owed(s)'
    <3>1. "prepare" \in Pcs \ {"idle", "after"} /\ run.pc # "idle"
      BY <1>1 DEF Pcs
    <3> QED BY <1>1, <1>5, <3>1, StepFacts
  <2>2. /\ appr' \in [Records -> ApprRec] /\ appr'[run.r].st = "dispatching" /\ appr'[run.r].rev = appr[run.r].rev
        /\ appr'[run.r].cv = appr[run.r].cv /\ \A q \in Records \ {run.r} : appr'[q] = appr[q]
    BY <1>1, <1>5, ApprForm
  <2>3. Types'
    BY <1>1, <1>2, <2>1, <2>2 DEF Types, RunTypes
  <2>4. /\ Held(run.r, run.rev, "pending") /\ Approved(run.r) /\ appr[run.r].st = "pending" /\ appr[run.r].rev = run.rev
    BY <1>5 DEF MayDispatch, Held, Approved
  <2>5. ASSUME NEW r \in Records
        PROVE  /\ appr[r].rev \in Nat /\ appr'[r].rev = appr[r].rev /\ appr'[r].cv = appr[r].cv
               /\ Approved(r)' => Approved(r)
               /\ appr'[r].st = "pending" => appr[r].st = "pending"
               /\ Done(r)' <=> Done(r)
               /\ ~Owing(r)
    BY <1>1, <2>2, <2>4 DEF Types, ApprRec, Approved, Done, Owing, Owed
  <2>6. GrantInv'
    <3>1. run.pc \notin {"idle", "read"} /\ run'.r = run.r /\ run'.rev = run.rev /\ run'.ver = run.ver
      BY <1>1, <2>1
    <3> QED BY <1>1, <1>2, <2>3, <2>5, <3>1, GrantStep DEF IInv
  <2>7. DraftInv' /\ draft[run.r].st \in {"pending", "rejected"}
    BY <1>1, <2>1, DraftStep DEF IInv, DraftInv, Unwritten
  <2>8. SpentInv'
    <3>1. edge = None /\ answer = None
      BY <1>1 DEF IInv, SpentInv
    <3>2. ~Spent(run.r, run.rev)
      BY <1>1, <2>4 DEF IInv, SpentInv
    <3>3. ~(appr'[run'.r].rev = run'.rev /\ appr'[run'.r].st = "pending")
      BY <2>1, <2>2
    <3>4. \A r \in Records, rev \in Nat : Spent(r, rev) => Held(r, rev, "pending") \/ ~Held(r, rev, "pending")'
      BY <2>5 DEF Held
    <3> QED BY <1>1, <1>2, <2>1, <2>3, <2>5, <3>1, <3>2, <3>3, <3>4, SpentStep DEF IInv
  <2>9. DoubtInv'
    <3>1. Unpushed' => run'.r \in doubt' \/ ~Used(run'.r)
      BY <1>1, <1>2, <2>1 DEF IInv, DoubtInv, Unpushed
    <3> QED BY <1>1, <1>2, <2>1, <2>5, <3>1, DoubtStep DEF IInv
  <2>10. ChargeInv'
    <3>1. ASSUME NEW r \in Records
          PROVE  /\ Bound(r)' + Token(appr'[r].st = "pending") <= appr'[r].rev
                 /\ r \notin doubt => Bound(r)' <= 1 /\ (charged[r] >= 1 => Done(r))
      <4>1. /\ Bound(r) + Token(appr[r].st = "pending") <= appr[r].rev /\ charged[r] \in Nat /\ appr[r].rev \in Nat
            /\ r \notin doubt => Bound(r) <= 1 /\ (charged[r] >= 1 => Done(r))
        BY <1>1 DEF IInv, ChargeInv, Types, ApprRec
      <4>2. /\ Bound(r) = charged[r] + Token(MayCharge(r)) + Token(draft[r].st = "scheduled")
            /\ Bound(r)' = charged[r] + Token(MayCharge(r)') + Token(draft[r].st = "scheduled")
        BY <1>1, <1>2 DEF Bound, Token
      <4>3. CASE r = run.r
        <5>1. Token(MayCharge(r)) = 0 /\ Token(MayCharge(r)') = 1 /\ Token(draft[r].st = "scheduled") = 0
          BY <1>1, <2>1, <2>7, <4>3 DEF MayCharge, Owed, Token
        <5>2. Token(appr[r].st = "pending") = 1 /\ Token(appr'[r].st = "pending") = 0
          BY <2>2, <2>4, <4>3 DEF Token
        <5>3. r \notin doubt => charged[r] = 0
          BY <1>1, <4>3 DEF IInv, ChargeInv
        <5> QED BY <2>2, <4>1, <4>2, <4>3, <5>1, <5>2, <5>3
      <4>4. CASE r # run.r
        <5>1. ~MayCharge(r) /\ ~MayCharge(r)' /\ appr'[r] = appr[r]
          BY <2>1, <2>2, <4>4 DEF MayCharge
        <5> QED BY <4>1, <4>2, <5>1 DEF Token
      <4> QED BY <4>3, <4>4
    <3>2. (run.pc \in Early /\ run.r \notin doubt => charged[run.r] = 0)'
      BY <1>1, <1>2, <2>1 DEF IInv, ChargeInv
    <3>3. (run.pc = "after" /\ run.out \in {"published", "submitted"} /\ run.r \notin doubt => Owed("status") \/ Done(run.r))'
      BY <2>1
    <3>4. (\A r \in Records : Bound(r) + Token(appr[r].st = "pending") <= appr[r].rev)'
      BY <3>1 DEF Token
    <3>5. (\A r \in Records \ doubt : Bound(r) <= 1 /\ (charged[r] >= 1 => Done(r)))'
      BY <1>1, <1>2, <2>5, <3>1
    <3> QED BY <3>2, <3>3, <3>4, <3>5 DEF ChargeInv
  <2>11. BreakerStops' /\ TypeInv'
    BY <1>1, <2>1, <2>3 DEF IInv, BreakerStops, TypeInv
  <2> QED BY <2>6, <2>7, <2>8, <2>9, <2>10, <2>11 DEF IInv
<1> QED BY <1>3, <1>4, <1>5 DEF markDispatching

-----------------------------------------------------------------------------
(* The edge and the outcomes *)

\* The edge keeps its command, or presses the button or gives the command up.
Platform == \/ UNCHANGED <<edge, posts>>
            \/ edge # None /\ edge' = None /\ posts' = posts \cup {Pressed}
            \/ edge' = None /\ UNCHANGED posts

LEMMA PressFacts ==
    ASSUME IInv, Platform
    PROVE  /\ \A p \in posts' : /\ p \in [r : Records, rev : Nat, ver : Nat, k : Nat] /\ p.k = 1
                                /\ p \in posts \/ (edge # None /\ p.r = edge.r /\ p.rev = edge.rev /\ p.ver = edge.ver)
           /\ \A p, q \in posts' : /\ p.r = q.r /\ p.rev = q.rev => p = q
                                   /\ p.r = q.r /\ p.r \notin doubt => p = q
           /\ edge' \in {edge, None} /\ (edge' # None => UNCHANGED posts)
           /\ \A r, rev : (Spent(r, rev)' => Spent(r, rev)) /\ (Used(r)' => Used(r))
<1>1. /\ \A p \in posts : p \in [r : Records, rev : Nat, ver : Nat, k : Nat] /\ p.k = 1
      /\ \A p, q \in posts : /\ p.r = q.r /\ p.rev = q.rev => p = q
                             /\ p.r = q.r /\ p.r \notin doubt => p = q
  BY DEF IInv, TypeInv, Types, SpentInv, DoubtInv
<1>2. CASE edge # None /\ edge' = None /\ posts' = posts \cup {Pressed}
  <2>1. /\ edge \in [r : Records, rev : Nat, ver : Nat]
        /\ \A p \in posts : ~(p.r = edge.r /\ p.rev = edge.rev)
        /\ edge.r \notin doubt => \A p \in posts : p.r # edge.r
    BY <1>2 DEF IInv, TypeInv, Types, SpentInv, DoubtInv, PostOf
  <2>2. Cardinality({p \in posts : p.r = edge.r /\ p.rev = edge.rev}) = 0
    <3>1. {p \in posts : p.r = edge.r /\ p.rev = edge.rev} = {}
      BY <2>1
    <3> QED BY <3>1, FS_EmptySet
  <2>3. Pressed = [r |-> edge.r, rev |-> edge.rev, ver |-> edge.ver, k |-> 1]
    BY <2>2 DEF Pressed
  <2>4. /\ Pressed \in [r : Records, rev : Nat, ver : Nat, k : Nat] /\ Pressed.k = 1
        /\ Pressed.r = edge.r /\ Pressed.rev = edge.rev /\ Pressed.ver = edge.ver
    BY <2>1, <2>3
  <2>5. ASSUME NEW p \in posts', NEW q \in posts'
        PROVE  /\ p.r = q.r /\ p.rev = q.rev => p = q
               /\ p.r = q.r /\ p.r \notin doubt => p = q
    <3>1. (p \in posts \/ p = Pressed) /\ (q \in posts \/ q = Pressed)
      BY <1>2
    <3> QED BY <1>1, <2>1, <2>4, <3>1
  <2>6. \A r, rev : (Spent(r, rev)' => Spent(r, rev)) /\ (Used(r)' => Used(r))
    BY <1>2, <2>4 DEF Spent, PostOf, Used
  <2> QED BY <1>1, <1>2, <2>4, <2>5, <2>6
<1>3. CASE edge' \in {edge, None} /\ UNCHANGED posts
  BY <1>1, <1>3 DEF Spent, PostOf, Used
<1> QED BY <1>2, <1>3 DEF Platform

\* An outcome after which the draft is released is one with nothing pressed.
LEMMA OutcomeStep ==
    ASSUME IInv, run.pc \in {"prepare", "submit", "capture"}, NEW out \in Outs \ {"none"}, Outcome(out), Platform,
           out \in {"preempted", "deferred"} => run.pc = "prepare" \/ Refused,
           UNCHANGED <<draft, claims, appr, media, granted, charged, doubt>>, answer' \in {answer, None}
    PROVE  IInv'
<1>1. Types /\ run.pc # "idle" /\ run.r \in Records /\ Unwritten
  BY DEF IInv, TypeInv, Types, Unwritten, Early
<1>2. /\ RunTypes' /\ run'.pc = "after" /\ run'.r = run.r /\ run'.rev = run.rev /\ run'.ver = run.ver
      /\ run'.pushed = run.pushed /\ TodoOK' /\ UNCHANGED <<calls, open>> /\ fails' \in Nat
      /\ run'.out = out \/ (out = "deferred" /\ run'.out = "exhausted")
      /\ Owed("status")' <=> run'.out \notin {"preempted", "deferred"}
      /\ Owed("release")' => out \in {"preempted", "deferred"}
  BY <1>1, OutcomeFacts
<1>3. /\ \A p \in posts' : /\ p \in [r : Records, rev : Nat, ver : Nat, k : Nat] /\ p.k = 1
                           /\ p \in posts \/ (edge # None /\ p.r = edge.r /\ p.rev = edge.rev /\ p.ver = edge.ver)
      /\ \A p, q \in posts' : /\ p.r = q.r /\ p.rev = q.rev => p = q
                              /\ p.r = q.r /\ p.r \notin doubt => p = q
      /\ edge' \in {edge, None} /\ (edge' # None => UNCHANGED posts)
      /\ \A r, rev : (Spent(r, rev)' => Spent(r, rev)) /\ (Used(r)' => Used(r))
  BY PressFacts
<1>4. TypeInv'
  BY <1>1, <1>2, <1>3 DEF TypeInv, Types, RunTypes
<1>5. \A r \in Records : /\ (Approved(r)' <=> Approved(r)) /\ (Done(r)' <=> Done(r)) /\ appr[r].rev \in Nat
                         /\ \A rev : Held(r, rev, "pending")' <=> Held(r, rev, "pending")
  BY <1>1 DEF Approved, Done, Types, ApprRec, Held
<1>6. GrantInv'
  <2>1. run.pc \notin {"idle", "read"} /\ run'.r = run.r /\ run'.rev = run.rev /\ run'.ver = run.ver
    BY <1>2
  <2> QED BY <1>1, <1>3, <1>4, <1>5, <2>1, GrantStep DEF IInv, TypeInv
<1>7. DraftInv'
  BY <1>1, <1>2, DraftStep DEF IInv, DraftInv
<1>8. SpentInv'
  <2>1. (edge # None => answer = None /\ ~PostOf(edge.r, edge.rev))'
    BY <1>3 DEF IInv, SpentInv, PostOf
  <2>2. (\A r \in Records, rev \in Nat : Spent(r, rev) => rev >= 1 /\ rev <= appr[r].rev /\ ~Held(r, rev, "pending"))'
    BY <1>3, <1>5 DEF IInv, SpentInv
  <2>3. (run.pc = "prepare" \/ Refused \/ Owed("release") => ~Spent(run.r, run.rev))'
    <3>1. run'.pc = "prepare" \/ Refused' \/ Owed("release")' => ~Spent(run.r, run.rev)
      BY <1>2 DEF Refused, IInv, SpentInv
    <3>2. (Spent(run.r, run.rev))' => Spent(run.r, run.rev)
      BY <1>2, <1>3 DEF Spent, PostOf
    <3> QED BY <3>1, <3>2
  <2> QED BY <1>2, <1>3, <2>1, <2>2, <2>3 DEF SpentInv
<1>9. DoubtInv'
  <2>1. (edge # None /\ edge.r \notin doubt => \A p \in posts : p.r # edge.r)'
    BY <1>3 DEF IInv, DoubtInv
  <2>2. ASSUME NEW r \in Records, r \notin doubt, Used(r) PROVE Done(r) \/ Owing(r)'
    <3>1. Done(r) \/ Owing(r)
      BY <2>2 DEF IInv, DoubtInv
    <3>2. CASE Owing(r)
      <4>1. run.r = r
        BY <3>2 DEF Owing
      <4>2. CASE run'.out \in {"preempted", "deferred"}
        <5>1. Unpushed \/ Refused
          BY <1>2, <4>2 DEF Unpushed, Early
        <5> QED BY <2>2, <4>1, <5>1 DEF IInv, DoubtInv
      <4>3. CASE run'.out \notin {"preempted", "deferred"}
        BY <1>2, <4>1, <4>3 DEF Owing
      <4> QED BY <4>2, <4>3
    <3> QED BY <3>1, <3>2
  <2>3. (\A r \in Records \ doubt : Used(r) => Done(r) \/ Owing(r))'
    BY <1>3, <1>5, <2>2
  <2>4. (Unpushed \/ Refused => run.r \in doubt \/ ~Used(run.r))'
    <3>1. Unpushed' => Unpushed
      BY <1>2 DEF Unpushed, Early, IInv, DoubtInv
    <3>2. ~Refused' /\ run'.r = run.r
      BY <1>2 DEF Refused
    <3>3. Unpushed => run.r \in doubt \/ ~Used(run.r)
      BY DEF IInv, DoubtInv
    <3>4. (Used(run.r))' => Used(run.r)
      BY <1>2, <1>3 DEF Used
    <3> QED BY <3>1, <3>2, <3>3, <3>4
  <2> QED BY <1>2, <1>3, <2>1, <2>3, <2>4 DEF DoubtInv
<1>10. ChargeInv'
  <2>1. \A r \in Records : MayCharge(r)' => MayCharge(r)
    BY <1>2 DEF MayCharge
  <2>2. run'.pc = "after" /\ run'.out \in {"published", "submitted"} /\ run'.r \notin doubt' =>
            Owed("status")' \/ draft'[run'.r].st \notin {"none", "pending"}
    BY <1>2
  <2>3. ~(run'.pc \in Early)
    BY <1>2 DEF Early
  <2> QED BY <1>1, <1>4, <1>5, <2>1, <2>2, <2>3, ChargeStep DEF IInv, TypeInv
<1>11. BreakerStops'
  BY <1>2 DEF BreakerStops
<1> QED BY <1>4, <1>6, <1>7, <1>8, <1>9, <1>10, <1>11 DEF IInv

LEMMA KeepsSubmitTimeout ==
    ASSUME IInv, SubmitTimeout PROVE IInv'
<1>1. PICK out \in {"unknown", "exception"} : Outcome(out)
  BY DEF SubmitTimeout
<1>2. out \in Outs \ {"none"}
  BY <1>1 DEF Outs
<1>3. /\ UNCHANGED <<draft, claims, appr, edge, answer, media, granted, posts, charged, doubt>>
      /\ run.pc \in {"prepare", "submit", "capture"}
  BY DEF SubmitTimeout, history
<1> QED BY <1>1, <1>2, <1>3, OutcomeStep DEF Platform

LEMMA SubmittedFact == Submitted \in {"scheduled", "submitted"}
BY DEF Submitted

LEMMA KeepsCapture ==
    ASSUME IInv, Capture PROVE IInv'
<1>1. PICK out \in {"scheduled", "submitted", "published"} : Outcome(out)
  BY SubmittedFact DEF Capture
<1>2. out \in Outs \ {"none"}
  BY <1>1 DEF Outs
<1>3. /\ UNCHANGED <<draft, claims, appr, edge, answer, media, granted, posts, charged, doubt>>
      /\ run.pc \in {"prepare", "submit", "capture"}
  BY DEF Capture, history
<1> QED BY <1>1, <1>2, <1>3, OutcomeStep DEF Platform

LEMMA KeepsDisconnect ==
    ASSUME IInv, Disconnect PROVE IInv'
<1>1. PICK out \in {"deferred", "unknown", "scheduled", "submitted"} :
          Outcome(out) /\ (out = "deferred" => run.pc = "prepare")
  BY SubmittedFact DEF Disconnect
<1>2. out \in Outs \ {"none"}
  BY <1>1 DEF Outs
<1>3. /\ UNCHANGED <<draft, claims, appr, media, granted, charged, doubt>> /\ answer' = None
      /\ run.pc \in {"prepare", "submit", "capture"} /\ Platform
  BY DEF Disconnect, Platform
<1> QED BY <1>1, <1>2, <1>3, OutcomeStep

\* The command goes out: the button may be pressed for the revision from here on.
LEMMA KeepsPush ==
    ASSUME IInv, run.pc = "prepare", run' = [run EXCEPT !.pc = "submit", !.pushed = TRUE],
           edge' = [r |-> run.r, rev |-> run.rev, ver |-> run.ver],
           UNCHANGED <<queue, inFlight, calls, fails, open, draft, claims, appr, answer, media, granted, posts, charged, doubt>>
    PROVE  IInv'
<1>1. Types /\ run.r \in Records /\ run.rev \in Nat /\ run.ver \in Nat /\ queue # <<>> /\ Unwritten /\ run.pc \in Early
  BY DEF IInv, TypeInv, Types, RunRec, Unwritten, Early
<1>2. /\ run' \in RunRec /\ run'.pc = "submit" /\ run'.r = run.r /\ run'.rev = run.rev /\ run'.ver = run.ver /\ run'.pushed
  BY <1>1 DEF Types, RunRec, Pcs
<1>3. edge' \in [r : Records, rev : Nat, ver : Nat] /\ edge'.r = run.r /\ edge'.rev = run.rev /\ edge'.ver = run.ver
  BY <1>1
<1>4. TypeInv' /\ \A s : ~Owed(s)'
  BY <1>1, <1>2, <1>3 DEF TypeInv, Types, TodoOK, Owed
<1>5. /\ edge = None /\ answer = None /\ ~Spent(run.r, run.rev) /\ ~Held(run.r, run.rev, "pending")
      /\ <<run.r, run.rev, run.ver>> \in granted /\ run.rev >= 1 /\ run.rev <= appr[run.r].rev
      /\ run.r \in doubt \/ ~Used(run.r)
  BY <1>1 DEF IInv, SpentInv, GrantInv, DoubtInv, Unpushed
<1>6. \A r \in Records : (Approved(r)' <=> Approved(r)) /\ (Done(r)' <=> Done(r)) /\ ~Owing(r) /\ appr[r].rev \in Nat
  BY <1>1 DEF Approved, Done, Owing, Owed, Types, ApprRec
<1>7. GrantInv'
  <2>1. (\A r \in Records : Approved(r) => appr[r].rev >= 1 /\ <<r, appr[r].rev, appr[r].cv>> \in granted)'
    BY <1>6 DEF IInv, GrantInv
  <2>2. PostedAsApproved'
    BY DEF IInv, GrantInv, PostedAsApproved
  <2> QED BY <1>2, <1>3, <1>5, <2>1, <2>2 DEF GrantInv
<1>8. DraftInv'
  BY <1>1, <1>2, DraftStep DEF IInv, DraftInv
<1>9. SpentInv'
  <2>1. (edge # None => answer = None /\ ~PostOf(edge.r, edge.rev))'
    BY <1>3, <1>5 DEF Spent, PostOf
  <2>2. (\A r \in Records, rev \in Nat : Spent(r, rev) => rev >= 1 /\ rev <= appr[r].rev /\ ~Held(r, rev, "pending"))'
    <3> SUFFICES ASSUME NEW r \in Records, NEW rev \in Nat, Spent(r, rev)'
                 PROVE  rev >= 1 /\ rev <= appr[r].rev /\ ~Held(r, rev, "pending")
      BY DEF Held
    <3>1. Spent(r, rev) \/ (r = run.r /\ rev = run.rev)
      BY <1>3 DEF Spent, PostOf
    <3> QED BY <1>5, <3>1 DEF IInv, SpentInv
  <2>3. (\A p, q \in posts : p.k = 1 /\ (p.r = q.r /\ p.rev = q.rev => p = q))'
    BY DEF IInv, SpentInv
  <2>4. ~Refused'
    BY <1>5 DEF Refused
  <2> QED BY <1>2, <1>3, <1>4, <2>1, <2>2, <2>3, <2>4 DEF SpentInv
<1>10. DoubtInv'
  <2>1. (edge # None /\ edge.r \notin doubt => \A p \in posts : p.r # edge.r)'
    BY <1>3, <1>5 DEF Used
  <2>2. (\A p, q \in posts : p.r = q.r /\ p.r \notin doubt => p = q)'
    BY DEF IInv, DoubtInv
  <2>3. ASSUME NEW r \in Records, r \notin doubt, Used(r)' PROVE Done(r)' \/ Owing(r)'
    <3>1. CASE r = run.r
      BY <1>2, <3>1 DEF Owing
    <3>2. CASE r # run.r
      <4>1. Used(r)
        BY <1>3, <2>3, <3>2 DEF Used
      <4>2. Done(r) \/ Owing(r)
        BY <2>3, <4>1 DEF IInv, DoubtInv
      <4> QED BY <1>6, <4>2
    <3> QED BY <3>1, <3>2
  <2>4. (\A r \in Records \ doubt : Used(r) => Done(r) \/ Owing(r))'
    BY <2>3
  <2>5. ~Refused' /\ ~Unpushed'
    BY <1>2, <1>5 DEF Refused, Unpushed, Early
  <2> QED BY <1>2, <2>1, <2>2, <2>4, <2>5 DEF DoubtInv
<1>11. ChargeInv'
  <2>1. \A r \in Records : MayCharge(r)' => MayCharge(r)
    BY <1>2, <1>4 DEF MayCharge
  <2>2. ~(run'.pc \in Early) /\ run'.pc # "after"
    BY <1>2 DEF Early
  <2> QED BY <1>1, <1>4, <1>6, <2>1, <2>2, ChargeStep DEF IInv, TypeInv
<1>12. BreakerStops'
  BY DEF IInv, BreakerStops
<1> QED BY <1>4, <1>7, <1>8, <1>9, <1>10, <1>11, <1>12 DEF IInv

LEMMA KeepsPrepare ==
    ASSUME IInv, Prepare PROVE IInv'
<1>1. run.pc = "prepare" /\ UNCHANGED <<draft, claims, answer, media, granted, posts, charged, doubt>>
  BY DEF Prepare, history
<1>2. CASE /\ run' = [run EXCEPT !.pc = "submit", !.pushed = TRUE]
           /\ edge' = [r |-> run.r, rev |-> run.rev, ver |-> run.ver]
           /\ UNCHANGED <<queue, inFlight, calls, preempts, defers, fails, open>>
           /\ UNCHANGED appr
  BY <1>1, <1>2, KeepsPush
<1>3. ASSUME NEW out \in {"structural", "deferred", "preempted", "scheduled", "submitted"}, Outcome(out), UNCHANGED <<edge, appr>>
      PROVE  IInv'
  <2>1. out \in Outs \ {"none"}
    BY <1>3 DEF Outs
  <2> QED BY <1>1, <1>3, <2>1, OutcomeStep DEF Platform
<1>4. CASE Unconfirmed /\ UNCHANGED <<edge, calls, preempts, defers, fails, open>>
  <2>1. run.pc \in Early
    BY <1>1 DEF Early
  <2>2. UNCHANGED <<faults, history>>
    BY DEF Prepare
  <2> QED BY <1>1, <1>4, <2>1, <2>2, KeepsUnconfirmed
<1> QED BY <1>2, <1>3, <1>4, SubmittedFact DEF Prepare

LEMMA KeepsonResult ==
    ASSUME IInv, onResult PROVE IInv'
<1>1. /\ answer # None /\ answer' = None /\ Types
      /\ UNCHANGED <<draft, claims, appr, edge, media, granted, posts, charged, doubt>>
  BY DEF onResult, history, IInv, TypeInv
<1>2. CASE UNCHANGED memory
  <2>1. Types'
    BY <1>1, <1>2 DEF Types, memory
  <2>2. \A r \in claims' : draft'[r].st = "none"
    BY <1>1 DEF IInv, DraftInv
  <2> QED BY <1>1, <1>2, <2>1, <2>2, QuietStep DEF memory
<1>3. CASE /\ run.pc = "submit" /\ run' = [run EXCEPT !.pc = "capture"]
           /\ UNCHANGED <<queue, inFlight, calls, preempts, defers, fails, open>>
  <2>1. run.r \in Records /\ Unwritten /\ queue # <<>> /\ run.pushed
    BY <1>1, <1>3 DEF Types, Unwritten, IInv, DoubtInv
  <2>2. /\ run' \in RunRec /\ run'.pc = "capture" /\ run'.r = run.r /\ run'.rev = run.rev /\ run'.ver = run.ver
        /\ run'.pushed = run.pushed
    BY <1>1, <1>3 DEF Types, RunRec, Pcs
  <2>3. TypeInv' /\ \A s : ~Owed(s)'
    BY <1>1, <1>3, <2>1, <2>2 DEF TypeInv, Types, TodoOK, Owed
  <2>4. \A r \in Records : /\ (Approved(r)' <=> Approved(r)) /\ (Done(r)' <=> Done(r)) /\ appr[r].rev \in Nat
                           /\ \A rev : Held(r, rev, "pending")' <=> Held(r, rev, "pending")
    BY <1>1 DEF Approved, Done, Types, ApprRec, Held
  <2>5. GrantInv'
    <3>1. run.pc \notin {"idle", "read"} /\ run'.r = run.r /\ run'.rev = run.rev /\ run'.ver = run.ver
      BY <1>3, <2>2
    <3> QED BY <1>1, <2>3, <2>4, <3>1, GrantStep DEF IInv, TypeInv
  <2>6. DraftInv'
    BY <1>1, <2>1, <2>2, DraftStep DEF IInv, DraftInv
  <2>7. SpentInv'
    BY <1>1, <2>2, <2>3, <2>4, SpentStep DEF IInv, TypeInv
  <2>8. DoubtInv'
    <3>1. ~Unpushed'
      BY <2>2 DEF Unpushed, Early
    <3>2. \A r : Owing(r) => Owing(r)'
      BY <1>3, <2>2 DEF Owing, Owed
    <3> QED BY <1>1, <2>1, <2>2, <2>4, <3>1, <3>2, DoubtStep DEF IInv
  <2>9. ChargeInv'
    <3>1. \A r \in Records : MayCharge(r)' => MayCharge(r)
      BY <1>3, <2>2, <2>3 DEF MayCharge
    <3>2. ~(run'.pc \in Early) /\ run'.pc # "after"
      BY <2>2 DEF Early
    <3> QED BY <1>1, <2>3, <2>4, <3>1, <3>2, ChargeStep DEF IInv, TypeInv
  <2>10. BreakerStops'
    BY <1>3 DEF IInv, BreakerStops
  <2> QED BY <2>3, <2>5, <2>6, <2>7, <2>8, <2>9, <2>10 DEF IInv
<1>4. CASE run.pc = "submit" /\ Outcome(classifyFailureOutcome(answer))
  <2>1. PICK out \in {"scheduled", "submitted", "preempted", "unknown"} :
            Outcome(out) /\ (out = "preempted" => answer = "preempted")
    <3>1. /\ classifyFailureOutcome(answer) \in {"scheduled", "submitted", "preempted", "unknown"}
          /\ classifyFailureOutcome(answer) = "preempted" => answer = "preempted"
      BY SubmittedFact DEF classifyFailureOutcome
    <3> QED BY <1>4, <3>1
  <2>2. out \in Outs \ {"none"}
    BY <2>1 DEF Outs
  <2>3. out \in {"preempted", "deferred"} => Refused
    BY <1>1, <1>4, <2>1 DEF Refused
  <2>4. Platform
    BY <1>1 DEF Platform
  <2> QED BY <1>1, <1>4, <2>1, <2>2, <2>3, <2>4, OutcomeStep
<1> QED BY <1>2, <1>3, <1>4 DEF onResult

\* What the edge answers "preempted" to it has not pressed.
LEMMA KeepsEdgeSubmits ==
    ASSUME IInv, EdgeSubmits PROVE IInv'
<1>1. /\ edge # None /\ edge' = None /\ Types /\ Platform
      /\ UNCHANGED posts \/ answer' # "preempted"
      /\ UNCHANGED <<draft, claims, appr, memory, media, faults, granted, charged, doubt>>
  BY DEF EdgeSubmits, Platform, IInv, TypeInv
<1>2. UNCHANGED <<calls, inFlight, queue, run, fails, open, preempts, defers>>
  BY <1>1 DEF memory
<1>3. /\ \A p \in posts' : /\ p \in [r : Records, rev : Nat, ver : Nat, k : Nat] /\ p.k = 1
                           /\ p \in posts \/ (edge # None /\ p.r = edge.r /\ p.rev = edge.rev /\ p.ver = edge.ver)
      /\ \A p, q \in posts' : /\ p.r = q.r /\ p.rev = q.rev => p = q
                              /\ p.r = q.r /\ p.r \notin doubt => p = q
      /\ \A r, rev : (Spent(r, rev)' => Spent(r, rev)) /\ (Used(r)' => Used(r))
  BY <1>1, PressFacts
<1>4. TypeInv' /\ (\A s : Owed(s)' <=> Owed(s)) /\ (Unwritten' <=> Unwritten) /\ (\A r : Owing(r)' <=> Owing(r))
  BY <1>1, <1>2, <1>3 DEF IInv, TypeInv, Types, TodoOK, Owed, Unwritten, Owing
<1>5. \A r \in Records : /\ (Approved(r)' <=> Approved(r)) /\ (Done(r)' <=> Done(r)) /\ appr[r].rev \in Nat
                         /\ MayCharge(r)' <=> MayCharge(r)
                         /\ \A rev : Held(r, rev, "pending")' <=> Held(r, rev, "pending")
  BY <1>1, <1>2, <1>4 DEF Approved, Done, Types, ApprRec, Held, MayCharge
<1>6. GrantInv'
  <2>1. run'.pc \in {"idle", "read"} \/ (run.pc \notin {"idle", "read"} /\ run'.r = run.r /\ run'.rev = run.rev /\ run'.ver = run.ver)
    BY <1>2
  <2> QED BY <1>1, <1>3, <1>4, <1>5, <2>1, GrantStep DEF IInv, TypeInv
<1>7. DraftInv'
  BY <1>1, <1>2, <1>4, DraftStep DEF IInv, DraftInv
<1>8. run.pc \notin {"mark", "prepare"}
  BY <1>1 DEF IInv, SpentInv
<1>9. ASSUME Refused' PROVE ~(Spent(run.r, run.rev))' /\ (run.r \in doubt \/ ~(Used(run.r))')
  <2>1. UNCHANGED posts /\ run.pc = "submit" /\ edge.r = run.r /\ edge.rev = run.rev
    BY <1>1, <1>2, <1>9 DEF Refused, IInv, SpentInv
  <2>2. ~PostOf(run.r, run.rev) /\ (run.r \in doubt \/ \A p \in posts : p.r # run.r)
    BY <1>1, <2>1 DEF IInv, SpentInv, DoubtInv
  <2> QED BY <1>1, <1>2, <2>1, <2>2 DEF Spent, PostOf, Used
<1>10. SpentInv'
  <2>1. (\A r \in Records, rev \in Nat : Spent(r, rev) => rev >= 1 /\ rev <= appr[r].rev /\ ~Held(r, rev, "pending"))'
    BY <1>1, <1>3, <1>5 DEF IInv, SpentInv
  <2>2. (Owed("release") => ~Spent(run.r, run.rev))'
    <3>1. Owed("release") => ~Spent(run.r, run.rev)
      BY DEF IInv, SpentInv
    <3>2. (Spent(run.r, run.rev))' => Spent(run.r, run.rev)
      BY <1>2, <1>3 DEF Spent, PostOf
    <3> QED BY <1>4, <3>1, <3>2
  <2> QED BY <1>1, <1>2, <1>3, <1>8, <1>9, <2>1, <2>2 DEF SpentInv
<1>11. DoubtInv'
  <2>1. (\A r \in Records \ doubt : Used(r) => Done(r) \/ Owing(r))'
    BY <1>1, <1>3, <1>4, <1>5 DEF IInv, DoubtInv
  <2>2. (Unpushed => run.r \in doubt \/ ~Used(run.r))'
    <3>1. Unpushed' <=> Unpushed
      BY <1>2 DEF Unpushed
    <3>2. Unpushed => run.r \in doubt \/ ~Used(run.r)
      BY DEF IInv, DoubtInv
    <3>3. (Used(run.r))' => Used(run.r)
      BY <1>2, <1>3 DEF Used
    <3> QED BY <1>1, <1>2, <3>1, <3>2, <3>3
  <2>3. (run.pc \in {"submit", "capture"} => run.pushed)'
    BY <1>2 DEF IInv, DoubtInv
  <2> QED BY <1>1, <1>2, <1>3, <1>9, <2>1, <2>2, <2>3 DEF DoubtInv
<1>12. ChargeInv'
  <2>1. run'.pc \in Early /\ run'.r \notin doubt' => charged[run'.r] = 0
    BY <1>1, <1>2 DEF IInv, ChargeInv
  <2>2. run'.pc = "after" /\ run'.out \in {"published", "submitted"} /\ run'.r \notin doubt' =>
            Owed("status")' \/ draft'[run'.r].st \notin {"none", "pending"}
    BY <1>1, <1>2, <1>4 DEF IInv, ChargeInv, Done
  <2> QED BY <1>1, <1>4, <1>5, <2>1, <2>2, ChargeStep DEF IInv, TypeInv
<1>13. BreakerStops'
  BY <1>2 DEF IInv, BreakerStops
<1> QED BY <1>4, <1>6, <1>7, <1>10, <1>11, <1>12, <1>13 DEF IInv

-----------------------------------------------------------------------------
(* What follows an outcome *)

\* A step that leaves drafts and charges alone; one that gives a status up says so in doubt.
LEMMA AfterStep ==
    ASSUME IInv, NEW s, Todo(s), Then, s = "status" => run.r \in doubt',
           UNCHANGED <<draft, claims, edge, answer, posts, granted, charged>>, doubt \subseteq doubt', doubt' \subseteq Records,
           media' \in [Records -> {"reserved", "free", "used", "quarantine"}],
           calls' \subseteq [r : Records, rev : Nat, human : BOOLEAN], fails' \in Nat, open' \in BOOLEAN,
           appr' \in [Records -> ApprRec],
           \A r \in Records : /\ appr'[r].rev = appr[r].rev /\ appr'[r].cv = appr[r].cv
                              /\ appr'[r].st = appr[r].st \/ appr'[r].st = "void" \/ (Approved(r) /\ appr'[r].st = "consumed")
    PROVE  IInv'
<1>1. /\ RunTypes' /\ TodoOK' /\ run'.pc \in {"idle", "after"} /\ run.pc = "after" /\ Owed(s) /\ run.r \in Records
      /\ run'.pc = "after" => /\ run'.r = run.r /\ run'.rev = run.rev /\ run'.ver = run.ver /\ run'.out = run.out
                              /\ run'.pushed = run.pushed
      /\ \A u : Owed(u)' <=> Owed(u) /\ u # s
  BY ThenFacts DEF IInv
<1>2. Types /\ Types'
  BY <1>1 DEF IInv, TypeInv, Types, RunTypes
<1>3. \A u : Owed(u)' => Owed(u) /\ run'.pc = "after"
  BY <1>1 DEF Owed
<1>4. \A r \in Records : MayCharge(r)' => MayCharge(r)
  BY <1>1, <1>3 DEF MayCharge
<1>5. Unwritten' => Unwritten /\ run'.r = run.r /\ draft'[run.r].st \in {draft[run.r].st, "rejected"}
  BY <1>1, <1>3 DEF Unwritten, Early
<1>6. ASSUME NEW r \in Records
      PROVE  /\ Done(r) <=> Done(r)'
             /\ Approved(r)' => Approved(r)
             /\ appr'[r].rev >= appr[r].rev
             /\ r \notin doubt' => (Owing(r) => Owing(r)' \/ Done(r)')
  <2>1. appr[r].rev \in Nat
    BY <1>2 DEF Types, ApprRec
  <2>2. ASSUME r \notin doubt', Owing(r) PROVE Owing(r)'
    <3>1. run.r = r /\ Owed("status") /\ s # "status"
      BY <1>1, <2>2 DEF Owing
    <3> QED BY <1>1, <1>3, <3>1 DEF Owing
  <2> QED BY <2>1, <2>2 DEF Approved, Done
<1>7. GrantInv'
  <2>1. run'.pc \in {"idle", "read"} \/ (run.pc \notin {"idle", "read"} /\ run'.r = run.r /\ run'.rev = run.rev /\ run'.ver = run.ver)
    BY <1>1
  <2> QED BY <1>2, <1>6, <2>1, GrantStep DEF IInv
<1>8. \A r \in claims' : draft'[r].st = "none"
  BY DEF IInv, DraftInv
<1>9. run'.pc = "after" => /\ run.pc = "after" /\ run'.r = run.r /\ run'.rev = run.rev /\ run'.out = run.out /\ run'.pushed = run.pushed
                           /\ Owed("release")' => Owed("release")
                           /\ run.r \notin doubt' /\ Owed("status") /\ ~Owed("status")' => Done(run.r)'
  BY <1>1
<1>10. run'.pc \notin Early /\ run'.pc # "mark" /\ run'.pc \notin {"prepare", "submit", "capture"}
  BY <1>1 DEF Early
<1> QED BY <1>1, <1>2, <1>4, <1>5, <1>6, <1>7, <1>8, <1>9, <1>10, RunStep

LEMMA KeepssettleFacebookMedia ==
    ASSUME IInv, settleFacebookMedia PROVE IInv'
<1>1. /\ Todo("settle") /\ Then /\ media' = [media EXCEPT ![run.r] = MediaOf(run.out)] /\ Types
      /\ UNCHANGED <<draft, claims, appr, calls, fails, open, edge, answer, granted, posts, charged, doubt>>
  BY DEF settleFacebookMedia, others, IInv, TypeInv
<1>2. MediaOf(run.out) \in {"reserved", "free", "used", "quarantine"}
  BY DEF MediaOf
<1>3. media' \in [Records -> {"reserved", "free", "used", "quarantine"}]
  BY <1>1, <1>2 DEF Types
<1> QED BY <1>1, <1>3, AfterStep DEF Types

LEMMA KeepsrecordSeqFailure ==
    ASSUME IInv, recordSeqFailure PROVE IInv'
<1>1. /\ Todo("trip") /\ Then /\ Types
      /\ fails' = (IF fails < Threshold THEN fails + 1 ELSE fails) /\ open' = (open \/ fails + 1 >= Threshold)
      /\ UNCHANGED <<draft, claims, appr, calls, media, edge, answer, granted, posts, charged, doubt>>
  BY DEF recordSeqFailure, others, IInv, TypeInv
<1>2. fails' \in Nat /\ open' \in BOOLEAN
  BY <1>1 DEF Types
<1> QED BY <1>1, <1>2, AfterStep DEF Types

LEMMA KeepsmarkConsumed ==
    ASSUME IInv, markConsumed PROVE IInv'
<1>1. /\ Todo("consume") /\ Then /\ Types /\ run.r \in Records
      /\ UNCHANGED <<draft, claims, calls, fails, open, media, edge, answer, granted, posts, charged, doubt>>
  BY DEF markConsumed, others, IInv, TypeInv, Types, Todo
<1>2. CASE appr' = appr
  BY <1>1, <1>2, AfterStep DEF Types
<1>3. CASE Held(run.r, run.rev, "dispatching") /\ appr' = [appr EXCEPT ![run.r].st = "consumed"]
  <2>1. /\ appr' \in [Records -> ApprRec] /\ appr'[run.r].st = "consumed" /\ appr'[run.r].rev = appr[run.r].rev
        /\ appr'[run.r].cv = appr[run.r].cv /\ \A q \in Records \ {run.r} : appr'[q] = appr[q]
    BY <1>1, <1>3, ApprForm
  <2>2. \A r \in Records : /\ appr'[r].rev = appr[r].rev /\ appr'[r].cv = appr[r].cv
                           /\ appr'[r].st = appr[r].st \/ appr'[r].st = "void" \/ (Approved(r) /\ appr'[r].st = "consumed")
    BY <1>3, <2>1 DEF Held, Approved
  <2> QED BY <1>1, <2>1, <2>2, AfterStep DEF Types
<1> QED BY <1>2, <1>3 DEF markConsumed

LEMMA KeepsRetry ==
    ASSUME IInv, Retry PROVE IInv'
<1>1. /\ Todo("retry") /\ Then /\ Types /\ run.r \in Records
      /\ appr' = appr \/ appr' = [appr EXCEPT ![run.r].st = "void"]
      /\ calls' = calls \/ calls' = calls \cup {Call(run.r)}
      /\ UNCHANGED <<draft, claims, fails, open, media, edge, answer, granted, posts, charged, doubt>>
  BY DEF Retry, others, IInv, TypeInv, Types, Todo
<1>2. calls' \subseteq [r : Records, rev : Nat, human : BOOLEAN]
  <2>1. PICK c : c = Call(run.r)
    OBVIOUS
  <2>2. c \in [r : Records, rev : Nat, human : BOOLEAN]
    BY <1>1, <2>1 DEF Call
  <2> QED BY <1>1, <2>1, <2>2 DEF Types
<1>3. CASE appr' = appr
  BY <1>1, <1>2, <1>3, AfterStep DEF Types
<1>4. CASE appr' = [appr EXCEPT ![run.r].st = "void"]
  <2>1. /\ appr' \in [Records -> ApprRec] /\ appr'[run.r].st = "void" /\ appr'[run.r].rev = appr[run.r].rev
        /\ appr'[run.r].cv = appr[run.r].cv /\ \A q \in Records \ {run.r} : appr'[q] = appr[q]
    BY <1>1, <1>4, ApprForm
  <2>2. \A r \in Records : /\ appr'[r].rev = appr[r].rev /\ appr'[r].cv = appr[r].cv
                           /\ appr'[r].st = appr[r].st \/ appr'[r].st = "void" \/ (Approved(r) /\ appr'[r].st = "consumed")
    BY <2>1
  <2> QED BY <1>1, <1>2, <2>1, <2>2, AfterStep DEF Types
<1> QED BY <1>1, <1>3, <1>4

\* A step that touches a draft, a charge or an approval, once what is charged is accounted for.
LEMMA WrittenStep ==
    ASSUME IInv, NEW s, Todo(s), Then, Types', ChargeInv',
           UNCHANGED <<claims, edge, answer, posts, granted, doubt, open>>,
           \A r \in Records : appr'[r].rev = appr[r].rev /\ appr'[r].cv = appr[r].cv /\ (Approved(r)' => Approved(r)),
           \A r \in Records, rev \in Nat : Spent(r, rev) => Held(r, rev, "pending") \/ ~Held(r, rev, "pending")',
           \A r \in claims : draft'[r].st = "none", \A r \in Records : Done(r) => Done(r)',
           s = "status" => draft'[run.r].st \notin {"none", "pending"}, s # "status" => UNCHANGED draft
    PROVE  IInv'
<1>1. /\ TodoOK' /\ run'.pc \in {"idle", "after"} /\ run.pc = "after" /\ Owed(s) /\ run.r \in Records
      /\ run'.pc = "after" => /\ run'.r = run.r /\ run'.rev = run.rev /\ run'.ver = run.ver /\ run'.out = run.out
                              /\ run'.pushed = run.pushed
      /\ \A u : Owed(u)' <=> Owed(u) /\ u # s
  BY ThenFacts DEF IInv
<1>2. TypeInv' /\ Types
  BY <1>1 DEF IInv, TypeInv
<1>3. \A u : Owed(u)' => Owed(u) /\ run'.pc = "after"
  BY <1>1 DEF Owed
<1>4. \A r \in Records : appr[r].rev \in Nat /\ appr'[r].rev >= appr[r].rev
  BY <1>2 DEF Types, ApprRec
<1>5. GrantInv'
  <2>1. run'.pc \in {"idle", "read"} \/ (run.pc \notin {"idle", "read"} /\ run'.r = run.r /\ run'.rev = run.rev /\ run'.ver = run.ver)
    BY <1>1
  <2> QED BY <1>2, <1>4, <2>1, GrantStep DEF IInv
<1>6. DraftInv'
  <2>1. Unwritten' => Unwritten /\ run'.r = run.r /\ draft'[run.r].st \in {draft[run.r].st, "rejected"}
    BY <1>1, <1>3 DEF Unwritten, Early
  <2> QED BY <2>1, DraftStep DEF IInv
<1>7. SpentInv'
  <2>1. Owed("release")' => ~Spent(run'.r, run'.rev)
    BY <1>1, <1>3 DEF IInv, SpentInv
  <2> QED BY <1>1, <1>2, <1>4, <2>1, SpentStep DEF IInv, TypeInv
<1>8. DoubtInv'
  <2>1. Unpushed' => Unpushed /\ run'.r = run.r
    BY <1>1 DEF Unpushed, Early
  <2>2. Unpushed' => run'.r \in doubt' \/ ~Used(run'.r)
    BY <2>1 DEF IInv, DoubtInv
  <2>3. ASSUME NEW r \in Records, Owing(r) PROVE Owing(r)' \/ Done(r)'
    <3>1. run.r = r /\ Owed("status")
      BY <1>1, <2>3 DEF Owing
    <3> QED BY <1>1, <1>3, <3>1 DEF Owing, Done
  <2> QED BY <1>1, <2>2, <2>3, DoubtStep DEF IInv
<1>9. BreakerStops'
  BY <1>1 DEF BreakerStops
<1> QED BY <1>2, <1>5, <1>6, <1>7, <1>8, <1>9 DEF IInv

\* The charge of a post that was confirmed takes the place of what the run might still charge.
LEMMA KeepsrecordActuatedPublish ==
    ASSUME IInv, recordActuatedPublish PROVE IInv'
<1>1. /\ Todo("charge") /\ Then /\ Types
      /\ charged' = charged \/ charged' = [charged EXCEPT ![run.r] = @ + 1]
      /\ UNCHANGED <<draft, claims, appr, calls, fails, open, media, edge, answer, granted, posts, doubt>>
  BY DEF recordActuatedPublish, others, IInv, TypeInv
<1>2. /\ RunTypes' /\ run'.pc \in {"idle", "after"} /\ run.pc = "after" /\ Owed("charge") /\ run.r \in Records
      /\ run'.pc = "after" => run'.r = run.r /\ run'.out = run.out
      /\ \A u : Owed(u)' <=> Owed(u) /\ u # "charge"
  BY <1>1, ThenFacts DEF IInv
<1>3. /\ run.out \in {"published", "submitted"} /\ ~Owed("status") /\ ~Owed("release")
  <2>1. GoodTodo(run.todo, run.out) /\ run.todo[1] = "charge"
    BY <1>1, <1>2, TailFacts DEF IInv, TypeInv, TodoOK, Todo
  <2>2. run.out \in {"published", "submitted"} /\ ~Has(run.todo, "release")
    BY <1>2, <2>1 DEF GoodTodo, Owed
  <2>3. ASSUME Has(run.todo, "status") PROVE FALSE
    <3>1. PICK j \in 1..Len(run.todo) : run.todo[j] = "status"
      BY <2>3 DEF Has
    <3>2. Len(run.todo) \in Nat /\ 1 \in 1..Len(run.todo)
      BY <2>1, <3>1 DEF GoodTodo
    <3>3. j < 1
      BY <2>1, <3>1, <3>2 DEF GoodTodo
    <3> QED BY <3>1, <3>3
  <2> QED BY <2>2, <2>3 DEF Owed
<1>4. CASE charged' = charged
  BY <1>1, <1>4, AfterStep DEF Types
<1>5. CASE charged' = [charged EXCEPT ![run.r] = @ + 1]
  <2>1. charged' \in [Records -> Nat] /\ charged'[run.r] = charged[run.r] + 1 /\ \A q \in Records \ {run.r} : charged'[q] = charged[q]
    BY <1>1, <1>2, <1>5 DEF Types
  <2>2. Types'
    BY <1>1, <1>2, <2>1 DEF Types, RunTypes
  <2>3. MayCharge(run.r) /\ ~MayCharge(run.r)'
    BY <1>2, <1>3 DEF MayCharge
  <2>4. ASSUME NEW r \in Records
        PROVE  /\ Bound(r)' = Bound(r)
               /\ r \notin doubt => (charged'[r] >= 1 => Done(r))
    <3>1. /\ Bound(r) = charged[r] + Token(MayCharge(r)) + Token(draft[r].st = "scheduled")
          /\ Bound(r)' = charged'[r] + Token(MayCharge(r)') + Token(draft[r].st = "scheduled")
          /\ charged[r] \in Nat /\ Token(draft[r].st = "scheduled") \in {0, 1}
          /\ r \notin doubt => (charged[r] >= 1 => Done(r))
      BY <1>1 DEF Bound, Token, Types, IInv, ChargeInv
    <3>2. CASE r = run.r
      <4>1. Token(MayCharge(r)) = 1 /\ Token(MayCharge(r)') = 0
        BY <2>3, <3>2 DEF Token, MayCharge
      <4>2. r \notin doubt => Done(r)
        BY <1>2, <1>3, <3>2 DEF IInv, ChargeInv
      <4> QED BY <2>1, <3>1, <3>2, <4>1, <4>2
    <3>3. CASE r # run.r
      <4>1. ~MayCharge(r) /\ ~MayCharge(r)' /\ charged'[r] = charged[r]
        BY <1>2, <2>1, <3>3 DEF MayCharge, Owed
      <4> QED BY <3>1, <4>1 DEF Token
    <3> QED BY <3>2, <3>3
  <2>5. ChargeInv'
    <3>1. (\A r \in Records : Bound(r) + Token(appr[r].st = "pending") <= appr[r].rev)'
      BY <1>1, <2>4 DEF IInv, ChargeInv, Token
    <3>2. (\A r \in Records \ doubt : Bound(r) <= 1 /\ (charged[r] >= 1 => Done(r)))'
      BY <1>1, <2>4 DEF IInv, ChargeInv, Done
    <3>3. run'.pc \notin Early
      BY <1>2 DEF Early
    <3>4. (run.pc = "after" /\ run.out \in {"published", "submitted"} /\ run.r \notin doubt => Owed("status") \/ Done(run.r))'
      BY <1>1, <1>2, <1>3 DEF IInv, ChargeInv, Done
    <3> QED BY <3>1, <3>2, <3>3, <3>4 DEF ChargeInv
  <2>6. /\ \A r \in Records : appr'[r].rev = appr[r].rev /\ appr'[r].cv = appr[r].cv /\ (Approved(r)' => Approved(r)) /\ (Done(r) => Done(r)')
        /\ \A r \in Records, rev \in Nat : Spent(r, rev) => Held(r, rev, "pending") \/ ~Held(r, rev, "pending")'
    BY <1>1 DEF Approved, Held, Done
  <2>7. \A r \in claims : draft'[r].st = "none"
    BY <1>1 DEF IInv, DraftInv
  <2> QED BY <1>1, <2>2, <2>5, <2>6, <2>7, WrittenStep
<1> QED BY <1>1, <1>4, <1>5

\* Only an approval whose button was certainly not pressed goes back to pending.
LEMMA KeepsreleaseToPending ==
    ASSUME IInv, releaseToPending PROVE IInv'
<1>1. /\ Todo("release") /\ Then /\ Types
      /\ UNCHANGED <<draft, claims, calls, fails, open, media, edge, answer, granted, posts, charged, doubt>>
  BY DEF releaseToPending, others, IInv, TypeInv
<1>2. /\ RunTypes' /\ run'.pc \in {"idle", "after"} /\ run.pc = "after" /\ Owed("release") /\ run.r \in Records
      /\ run'.pc = "after" => run'.r = run.r /\ run'.out = run.out
      /\ \A u : Owed(u)' <=> Owed(u) /\ u # "release"
  BY <1>1, ThenFacts DEF IInv
<1>3. run.out \in {"preempted", "deferred"} /\ ~Owed("status") /\ ~Owed("charge")
  <2>1. GoodTodo(run.todo, run.out)
    BY <1>2 DEF IInv, TypeInv, TodoOK
  <2> QED BY <1>2, <2>1 DEF GoodTodo, Owed
<1>4. CASE appr' = appr
  BY <1>1, <1>4, AfterStep DEF Types
<1>5. CASE Held(run.r, run.rev, "dispatching") /\ appr' = [appr EXCEPT ![run.r].st = "pending"]
  <2>1. /\ appr' \in [Records -> ApprRec] /\ appr'[run.r].st = "pending" /\ appr'[run.r].rev = appr[run.r].rev
        /\ appr'[run.r].cv = appr[run.r].cv /\ \A q \in Records \ {run.r} : appr'[q] = appr[q]
    BY <1>1, <1>2, <1>5, ApprForm
  <2>2. Types'
    BY <1>1, <1>2, <2>1 DEF Types, RunTypes
  <2>3. MayCharge(run.r) /\ ~MayCharge(run.r)'
    BY <1>2, <1>3 DEF MayCharge
  <2>4. ASSUME NEW r \in Records
        PROVE  Bound(r)' + Token(appr'[r].st = "pending") = Bound(r) + Token(appr[r].st = "pending") /\ Bound(r)' <= Bound(r)
    <3>1. /\ Bound(r) = charged[r] + Token(MayCharge(r)) + Token(draft[r].st = "scheduled")
          /\ Bound(r)' = charged[r] + Token(MayCharge(r)') + Token(draft[r].st = "scheduled")
          /\ charged[r] \in Nat /\ Token(draft[r].st = "scheduled") \in {0, 1}
      BY <1>1 DEF Bound, Token, Types
    <3>2. CASE r = run.r
      <4>1. Token(MayCharge(r)) = 1 /\ Token(MayCharge(r)') = 0
        BY <2>3, <3>2 DEF Token, MayCharge
      <4>2. Token(appr[r].st = "pending") = 0 /\ Token(appr'[r].st = "pending") = 1
        BY <1>5, <2>1, <3>2 DEF Held, Token
      <4> QED BY <3>1, <4>1, <4>2
    <3>3. CASE r # run.r
      <4>1. ~MayCharge(r) /\ ~MayCharge(r)' /\ appr'[r] = appr[r]
        BY <1>2, <2>1, <3>3 DEF MayCharge, Owed
      <4> QED BY <3>1, <4>1 DEF Token
    <3> QED BY <3>2, <3>3
  <2>5. ChargeInv'
    <3>1. (\A r \in Records : Bound(r) + Token(appr[r].st = "pending") <= appr[r].rev)'
      <4> SUFFICES ASSUME NEW r \in Records PROVE Bound(r)' + Token(appr'[r].st = "pending") <= appr'[r].rev
        BY DEF Token
      <4>1. appr'[r].rev = appr[r].rev
        BY <2>1
      <4>2. Bound(r) + Token(appr[r].st = "pending") <= appr[r].rev
        BY DEF IInv, ChargeInv
      <4> QED BY <2>4, <4>1, <4>2
    <3>2. (\A r \in Records \ doubt : Bound(r) <= 1 /\ (charged[r] >= 1 => Done(r)))'
      <4> SUFFICES ASSUME NEW r \in Records, r \notin doubt PROVE Bound(r)' <= 1 /\ (charged[r] >= 1 => Done(r))
        BY <1>1 DEF Done
      <4>1. Bound(r) <= 1 /\ (charged[r] >= 1 => Done(r)) /\ Bound(r) \in Nat /\ Bound(r)' \in Nat
        BY <1>1, <2>2 DEF IInv, ChargeInv, Bound, Token, Types
      <4> QED BY <2>4, <4>1
    <3>3. run'.pc \notin Early
      BY <1>2 DEF Early
    <3>4. (run.pc = "after" /\ run.out \in {"published", "submitted"} /\ run.r \notin doubt => Owed("status") \/ Done(run.r))'
      BY <1>2, <1>3
    <3> QED BY <3>1, <3>2, <3>3, <3>4 DEF ChargeInv
  <2>6. \A r \in Records : appr'[r].rev = appr[r].rev /\ appr'[r].cv = appr[r].cv /\ (Approved(r)' => Approved(r)) /\ (Done(r) => Done(r)')
    BY <1>1, <1>5, <2>1 DEF Approved, Held, Done
  <2>7. ASSUME NEW r \in Records, NEW rev \in Nat, Spent(r, rev), Held(r, rev, "pending")' PROVE Held(r, rev, "pending")
    <3>1. ~Spent(run.r, run.rev) /\ appr[run.r].rev = run.rev
      BY <1>2, <1>5 DEF IInv, SpentInv, Held
    <3>2. CASE r = run.r
      BY <2>1, <2>7, <3>1, <3>2 DEF Held
    <3>3. CASE r # run.r
      BY <2>1, <2>7, <3>3 DEF Held
    <3> QED BY <3>2, <3>3
  <2>8. \A r \in claims : draft'[r].st = "none"
    BY <1>1 DEF IInv, DraftInv
  <2> QED BY <1>1, <2>2, <2>5, <2>6, <2>7, <2>8, WrittenStep
<1> QED BY <1>1, <1>4, <1>5 DEF releaseToPending

\* The status is written, and a schedule the reconciler will charge for takes the place of the run's.
LEMMA KeepsWriteStatus ==
    ASSUME IInv, WriteStatus PROVE IInv'
<1>1. /\ Todo("status") /\ Then /\ Types
      /\ UNCHANGED <<claims, appr, calls, fails, open, media, edge, answer, granted, posts, charged>>
  BY DEF WriteStatus, others, IInv, TypeInv
<1>2. /\ RunTypes' /\ run'.pc \in {"idle", "after"} /\ run.pc = "after" /\ Owed("status") /\ run.r \in Records
      /\ run'.pc = "after" => run'.r = run.r /\ run'.out = run.out
      /\ \A u : Owed(u)' <=> Owed(u) /\ u # "status"
  BY <1>1, ThenFacts DEF IInv
<1>3. CASE UNCHANGED draft /\ doubt' = doubt \cup {run.r}
  BY <1>1, <1>2, <1>3, AfterStep DEF Types
<1>4. ASSUME NEW st \in {"published", "submitted", "scheduled", "failed", "review"}, st = "scheduled" => run.out = "scheduled",
             draft' = [draft EXCEPT ![run.r].st = st], UNCHANGED doubt
      PROVE  IInv'
  <2>0. PICK r0 \in Records, s0 \in Statuses : r0 = run.r /\ s0 = st
    BY <1>2, <1>4 DEF Statuses
  <2>1. PICK d \in DraftRec : /\ draft' = [draft EXCEPT ![r0] = d] /\ d.st = s0 /\ draft'[r0] = d
                              /\ \A q \in Records \ {r0} : draft'[q] = draft[q]
                              /\ draft' \in [Records -> DraftRec]
    <3>1. Restatused(r0, s0)
      BY <1>4, <2>0 DEF Restatused
    <3> QED BY <1>1, <3>1, StatusForm
  <2>2. Types'
    BY <1>1, <1>2, <1>4, <2>1 DEF Types, RunTypes
  <2>3. draft[r0].st \in {"pending", "rejected"} /\ r0 \notin claims
    BY <1>2, <2>0 DEF IInv, DraftInv, Unwritten
  <2>4. \A r \in Records : Done(r) => Done(r)'
    BY <1>4, <2>0, <2>1 DEF Done
  <2>5. Done(r0)' /\ draft'[r0].st = st
    BY <1>4, <2>0, <2>1 DEF Done
  <2>6. ASSUME NEW r \in Records PROVE Bound(r)' <= Bound(r) /\ Bound(r) \in Nat /\ Bound(r)' \in Nat
    <3>1. /\ Bound(r) = charged[r] + Token(MayCharge(r)) + Token(draft[r].st = "scheduled")
          /\ Bound(r)' = charged[r] + Token(MayCharge(r)') + Token(draft'[r].st = "scheduled")
          /\ charged[r] \in Nat /\ Token(MayCharge(r)) \in {0, 1} /\ Token(MayCharge(r)') \in {0, 1}
      BY <1>1 DEF Bound, Token, Types
    <3>2. MayCharge(r)' => MayCharge(r)
      BY <1>2 DEF MayCharge, Owed
    <3>3. CASE r = r0
      <4>1. Token(draft[r].st = "scheduled") = 0
        BY <2>3, <3>3 DEF Token
      <4>2. CASE st = "scheduled"
        <5>1. run.out = "scheduled"
          BY <1>4, <4>2
        <5>2. ~Owed("charge") /\ ~Owed("release")
          <6>1. GoodTodo(run.todo, run.out)
            BY <1>2 DEF IInv, TypeInv, TodoOK
          <6> QED BY <5>1, <6>1 DEF GoodTodo, Owed
        <5>3. MayCharge(r) /\ ~MayCharge(r)'
          BY <1>2, <2>0, <3>3, <5>1, <5>2 DEF MayCharge
        <5>4. Token(MayCharge(r)) = 1 /\ Token(MayCharge(r)') = 0 /\ Token(draft'[r].st = "scheduled") = 1
          BY <2>5, <3>3, <4>2, <5>3 DEF Token
        <5> QED BY <3>1, <4>1, <5>4
      <4>3. CASE st # "scheduled"
        <5>1. Token(draft'[r].st = "scheduled") = 0
          BY <2>5, <3>3, <4>3 DEF Token
        <5>2. Token(MayCharge(r)') <= Token(MayCharge(r))
          BY <3>2 DEF Token
        <5> QED BY <3>1, <4>1, <5>1, <5>2
      <4> QED BY <4>2, <4>3
    <3>4. CASE r # r0
      <4>1. draft'[r] = draft[r] /\ ~MayCharge(r) /\ ~MayCharge(r)'
        BY <1>2, <2>0, <2>1, <3>4 DEF MayCharge, Owed
      <4> QED BY <3>1, <4>1 DEF Token
    <3> QED BY <3>3, <3>4
  <2>7. ChargeInv'
    <3>1. (\A r \in Records : Bound(r) + Token(appr[r].st = "pending") <= appr[r].rev)'
      <4> SUFFICES ASSUME NEW r \in Records PROVE Bound(r)' + Token(appr[r].st = "pending") <= appr[r].rev
        BY <1>1 DEF Token
      <4>1. Bound(r) + Token(appr[r].st = "pending") <= appr[r].rev /\ appr[r].rev \in Nat /\ Token(appr[r].st = "pending") \in {0, 1}
        BY <1>1 DEF IInv, ChargeInv, Token, Types, ApprRec
      <4> QED BY <2>6, <4>1
    <3>2. (\A r \in Records \ doubt : Bound(r) <= 1 /\ (charged[r] >= 1 => Done(r)))'
      <4> SUFFICES ASSUME NEW r \in Records, r \notin doubt PROVE Bound(r)' <= 1 /\ (charged[r] >= 1 => Done(r)')
        BY <1>1, <1>4
      <4>1. Bound(r) <= 1 /\ (charged[r] >= 1 => Done(r))
        BY DEF IInv, ChargeInv
      <4> QED BY <2>4, <2>6, <4>1
    <3>3. run'.pc \notin Early
      BY <1>2 DEF Early
    <3>4. (run.pc = "after" /\ run.out \in {"published", "submitted"} /\ run.r \notin doubt => Owed("status") \/ Done(run.r))'
      <4>1. run'.pc = "after" => draft'[run'.r].st \notin {"none", "pending"}
        BY <1>2, <2>0, <2>5 DEF Done
      <4> QED BY <4>1 DEF Done
    <3> QED BY <3>1, <3>2, <3>3, <3>4 DEF ChargeInv
  <2>8. /\ \A r \in Records : appr'[r].rev = appr[r].rev /\ appr'[r].cv = appr[r].cv /\ (Approved(r)' => Approved(r))
        /\ \A r \in Records, rev \in Nat : Spent(r, rev) => Held(r, rev, "pending") \/ ~Held(r, rev, "pending")'
    BY <1>1 DEF Approved, Held
  <2>9. \A r \in claims : draft'[r].st = "none"
    BY <1>1, <2>1, <2>3 DEF IInv, DraftInv, Types
  <2>10. draft'[run.r].st \notin {"none", "pending"}
    BY <1>4, <2>0, <2>5
  <2> QED BY <1>1, <1>4, <2>2, <2>4, <2>7, <2>8, <2>9, <2>10, WrittenStep
<1>5. StatusOf(run.out) \in {"published", "submitted", "scheduled", "failed"} /\ (StatusOf(run.out) = "scheduled" => run.out = "scheduled")
  BY DEF StatusOf
<1> QED BY <1>3, <1>4, <1>5 DEF WriteStatus

\* A restart forgets the run; one that had pushed its command leaves the draft in doubt.
LEMMA KeepsCrash ==
    ASSUME IInv, Crash PROVE IInv'
<1>1. /\ calls' = {} /\ inFlight' = {} /\ queue' = <<>> /\ run' = NoRun /\ fails' = 0 /\ open' = FALSE
      /\ answer' = None /\ claims' = {} /\ Types
      /\ doubt' = (IF run.pushed THEN doubt \cup {run.r} ELSE doubt)
      /\ UNCHANGED <<draft, appr, edge, media, granted, posts, charged>>
  BY DEF Crash, IInv, TypeInv
<1>2. run' \in RunRec /\ run'.pc = "idle" /\ \A s : ~Owed(s)'
  BY <1>1, NoRunFacts DEF Owed
<1>3. run.pushed => run.r \in Records /\ run.pc # "idle"
  BY <1>1 DEF Types
<1>4. Types' /\ TodoOK'
  <2>1. queue' \in Seq([r : Records, rev : Nat]) /\ ~run'.pushed /\ fails' \in Nat /\ doubt' \subseteq Records
    BY <1>1, <1>3, NoRunFacts DEF Types
  <2>2. Types'
    BY <1>1, <1>2, <2>1 DEF Types
  <2> QED BY <1>2, <2>2 DEF TodoOK
<1>5. \A r \in Records : /\ (Approved(r)' <=> Approved(r)) /\ (Done(r)' <=> Done(r)) /\ appr[r].rev \in Nat /\ ~MayCharge(r)'
  BY <1>1, <1>2 DEF Approved, Done, Types, ApprRec, MayCharge
<1>6. GrantInv'
  BY <1>1, <1>2, <1>4, <1>5, GrantStep DEF IInv
<1>7. ~Unwritten'
  BY <1>2 DEF Unwritten, Early
<1>8. ASSUME NEW r \in Records, r \notin doubt', Used(r), Owing(r) PROVE FALSE
  <2>1. run.r = r /\ (run.pc \in {"submit", "capture"} \/ run.pc = "after")
    BY <1>8 DEF Owing, Owed
  <2>2. ~run.pushed /\ r \notin doubt
    BY <1>1, <1>8, <2>1
  <2>3. Unpushed
    BY <2>1, <2>2 DEF Unpushed, IInv, DoubtInv
  <2> QED BY <1>8, <2>1, <2>2, <2>3 DEF IInv, DoubtInv
<1>9. run'.pc \notin Early /\ run'.pc \notin {"mark", "prepare", "submit", "capture", "after"} /\ doubt \subseteq doubt'
  BY <1>1, <1>2 DEF Early
<1> QED BY <1>1, <1>2, <1>4, <1>5, <1>6, <1>7, <1>8, <1>9, RunStep

-----------------------------------------------------------------------------
(* The invariant and what follows from it *)

LEMMA InitIInv == Init => IInv
<1> SUFFICES ASSUME Init PROVE IInv
  OBVIOUS
<1>1. /\ claims = {} /\ calls = {} /\ inFlight = {} /\ queue = <<>> /\ run = NoRun /\ fails = 0 /\ open = FALSE
      /\ edge = None /\ answer = None /\ granted = {} /\ posts = {} /\ doubt = {}
      /\ charged = [r \in Records |-> 0] /\ media = [r \in Records |-> "reserved"]
      /\ appr = [r \in Records |-> [st |-> "none", rev |-> 0, cv |-> 0]]
      /\ draft = [r \in Records |-> [st |-> IF r \in Drafted THEN "pending" ELSE "none", ver |-> 1, att |-> 0]]
  BY DEF Init
<1>2. run \in RunRec /\ run.pc = "idle" /\ ~run.pushed
  BY <1>1, NoRunFacts
<1>3. draft \in [Records -> DraftRec] /\ \A r \in Records : draft[r].st \in {"pending", "none"}
  BY <1>1 DEF DraftRec, Statuses
<1>4. appr \in [Records -> ApprRec] /\ \A r \in Records : appr[r].st = "none" /\ appr[r].rev = 0
  BY <1>1 DEF ApprRec
<1>5. TypeInv
  <2>1. /\ queue \in Seq([r : Records, rev : Nat]) /\ fails \in Nat
        /\ charged \in [Records -> Nat] /\ media \in [Records -> {"reserved", "free", "used", "quarantine"}]
    BY <1>1
  <2>2. Types
    BY <1>1, <1>2, <1>3, <1>4, <2>1 DEF Types
  <2> QED BY <1>2, <2>2 DEF TypeInv, TodoOK
<1>6. GrantInv
  BY <1>1, <1>2, <1>4 DEF GrantInv, Approved, PostedAsApproved
<1>7. ~Unwritten /\ ~Unpushed /\ (\A s : ~Owed(s)) /\ ~Refused /\ run.pc \notin Early
  BY <1>2 DEF Unwritten, Unpushed, Owed, Refused, Early
<1>8. DraftInv
  BY <1>1, <1>7 DEF DraftInv
<1>9. SpentInv
  BY <1>1, <1>2, <1>7 DEF SpentInv, Spent, PostOf
<1>10. DoubtInv
  BY <1>1, <1>2, <1>7 DEF DoubtInv, Used
<1>11. ChargeInv
  <2>1. ASSUME NEW r \in Records PROVE Bound(r) = 0 /\ Token(appr[r].st = "pending") = 0 /\ charged[r] = 0
    <3>1. ~MayCharge(r) /\ charged[r] = 0 /\ draft[r].st # "scheduled"
      BY <1>1, <1>2, <1>3, <1>7 DEF MayCharge
    <3>2. Token(MayCharge(r)) = 0 /\ Token(draft[r].st = "scheduled") = 0
      BY <3>1 DEF Token
    <3> QED BY <1>4, <3>1, <3>2 DEF Bound, Token
  <2> QED BY <1>2, <1>4, <1>7, <2>1 DEF ChargeInv
<1>12. BreakerStops
  BY <1>1 DEF BreakerStops
<1> QED BY <1>5, <1>6, <1>8, <1>9, <1>10, <1>11, <1>12 DEF IInv

LEMMA NextIInv == IInv /\ [Next]_vars => IInv'
<1> SUFFICES ASSUME IInv, [Next]_vars PROVE IInv'
  OBVIOUS
<1>1. ASSUME NEW r \in Records, Trigger(r) \/ runClaimed(r) \/ Approve(r) \/ Edit(r) \/ rejectCandidate(r)
                            \/ rejectPendingApproval(r) PROVE IInv'
  BY <1>1, KeepsTrigger, KeepsrunClaimed, KeepsApprove, KeepsEdit, KeepsrejectCandidate, KeepsrejectPendingApproval
<1>2. ASSUME NEW r \in Records, triggerApproved(r) \/ scanAndDispatchApproved(r) PROVE IInv'
  BY <1>2, KeepsCalls
<1>3. ASSUME NEW c \in calls, dispatch(c) PROVE IInv'
  BY <1>3, Keepsdispatch
<1>4. CASE LoadDraft \/ ReadApproval \/ Gates \/ Lease \/ markDispatching \/ Prepare \/ Capture \/ SubmitTimeout
  BY <1>4, KeepsLoadDraft, KeepsReadApproval, KeepsGates, KeepsLease, KeepsmarkDispatching, KeepsPrepare, KeepsCapture,
     KeepsSubmitTimeout
<1>5. CASE \/ settleFacebookMedia \/ WriteStatus \/ recordActuatedPublish \/ markConsumed \/ releaseToPending
           \/ Retry \/ recordSeqFailure
  BY <1>5, KeepssettleFacebookMedia, KeepsWriteStatus, KeepsrecordActuatedPublish, KeepsmarkConsumed, KeepsreleaseToPending,
     KeepsRetry, KeepsrecordSeqFailure
<1>6. CASE onResult \/ EdgeSubmits \/ Disconnect \/ Crash
  BY <1>6, KeepsonResult, KeepsEdgeSubmits, KeepsDisconnect, KeepsCrash
<1>7. ASSUME NEW r \in Records, reconcileOne(r) PROVE IInv'
  BY <1>7, KeepsreconcileOne
<1>8. CASE UNCHANGED vars
  <2>1. UNCHANGED <<draft, claims, appr, calls, inFlight, queue, run, fails, open, edge, answer, media, granted, posts, charged, doubt>>
    BY <1>8 DEF vars
  <2>2. Types' /\ \A r \in claims' : draft'[r].st = "none"
    BY <2>1 DEF IInv, TypeInv, Types, DraftInv
  <2> QED BY <2>1, <2>2, QuietStep
<1> QED BY <1>1, <1>2, <1>3, <1>4, <1>5, <1>6, <1>7, <1>8 DEF Next, Dispatcher

LEMMA Invariance == Spec => []IInv
BY InitIInv, NextIInv, PTL DEF Spec

\* Two revisions of a draft that was approved once are the same one.
LEMMA OnceOfOne ==
    ASSUME IInv PROVE PostedOnce
<1>1. \A p \in posts : p.k = 1 /\ p \in [r : Records, rev : Nat, ver : Nat, k : Nat]
  BY DEF IInv, SpentInv, TypeInv, Types
<1>2. ASSUME NEW S, \A p, q \in S : p = q PROVE Cardinality(S) \in {0, 1}
  <2>1. CASE S = {}
    BY <2>1, FS_EmptySet
  <2>2. CASE S # {}
    <3>1. PICK x : S = {x}
      BY <1>2, <2>2
    <3> QED BY <3>1, FS_Singleton
  <2> QED BY <2>1, <2>2
<1>3. ASSUME NEW r \in Records, Cardinality({p \in posts : p.r = r}) > 1 PROVE r \in doubt /\ appr[r].rev > 1
  <2>1. \E p, q \in {x \in posts : x.r = r} : p # q
    BY <1>2, <1>3
  <2>2. PICK p \in posts, q \in posts : p.r = r /\ q.r = r /\ p # q
    BY <2>1
  <2>3. r \in doubt
    BY <2>2 DEF IInv, DoubtInv
  <2>4. p.rev # q.rev
    BY <2>2 DEF IInv, SpentInv
  <2>5. /\ p.rev \in Nat /\ q.rev \in Nat /\ appr[r].rev \in Nat
        /\ p.rev >= 1 /\ p.rev <= appr[r].rev /\ q.rev >= 1 /\ q.rev <= appr[r].rev
    <3>1. p.rev \in Nat /\ q.rev \in Nat /\ Spent(r, p.rev) /\ Spent(r, q.rev)
      BY <1>1, <2>2 DEF Spent, PostOf
    <3> QED BY <3>1 DEF IInv, SpentInv, TypeInv, Types, ApprRec
  <2> QED BY <2>3, <2>4, <2>5
<1>4. ASSUME NEW r \in Records, charged[r] > 1 PROVE r \in doubt /\ appr[r].rev > 1
  <2>1. /\ Bound(r) = charged[r] + Token(MayCharge(r)) + Token(draft[r].st = "scheduled")
        /\ Bound(r) + Token(appr[r].st = "pending") <= appr[r].rev /\ (r \notin doubt => Bound(r) <= 1)
        /\ charged[r] \in Nat /\ appr[r].rev \in Nat
        /\ Token(MayCharge(r)) \in {0, 1} /\ Token(draft[r].st = "scheduled") \in {0, 1} /\ Token(appr[r].st = "pending") \in {0, 1}
    BY DEF IInv, ChargeInv, TypeInv, Types, ApprRec, Bound, Token
  <2> QED BY <1>4, <2>1
<1> QED BY <1>1, <1>3, <1>4 DEF PostedOnce

(***************************************************************************)
(* The types of publishing's state.                                        *)
(***************************************************************************)
THEOREM TypeCorrect == Spec => []TypeOK
<1>1. IInv => TypeOK
  BY DEF IInv, TypeInv, Types, TypeOK, DraftRec, ApprRec
<1> QED BY <1>1, Invariance, PTL

(***************************************************************************)
(* However calls are lost, repeated or cut off, an approval is worth one   *)
(* post, and a draft is posted or charged twice only in doubt and approved *)
(* again (markDispatching before the first command, releaseToPending only  *)
(* after a certain refusal).                                               *)
(***************************************************************************)
THEOREM OnePostPerApproval == Spec => []PostedOnce
<1>1. IInv => PostedOnce
  BY OnceOfOne
<1> QED BY <1>1, Invariance, PTL

(***************************************************************************)
(* What is posted is what a human approved (the version check of           *)
(* runDispatch and the revision carried to the edge).                      *)
(***************************************************************************)
THEOREM PostsAreApproved == Spec => []PostedAsApproved
<1>1. IInv => PostedAsApproved
  BY DEF IInv, GrantInv
<1> QED BY <1>1, Invariance, PTL

(***************************************************************************)
(* An open breaker holds every draft of the account back, queued ones too  *)
(* (the breaker is looked at again when the call's turn comes).            *)
(***************************************************************************)
THEOREM BreakerHolds == Spec => []BreakerStops
<1>1. IInv => BreakerStops
  BY DEF IInv
<1> QED BY <1>1, Invariance, PTL
==============================================================================
