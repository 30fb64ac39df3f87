--------------------------- MODULE CommentAgentProofs ---------------------------
(***************************************************************************)
(* Proofs about the two components of src/src/comment-agent that drive an  *)
(* edge: the comment tasks of one account and the joining of groups, each  *)
(* for any number of tasks, notes, accounts and groups and without the     *)
(* bounds of the runs.                                                     *)
(*                                                                         *)
(* The lease (LInv).  What the cloud believes of a lease follows from what *)
(* is on the two channels: for each lease the messages that are on their   *)
(* way say which state of the edge the cloud will have heard of (LeaseOK), *)
(* and the grants and releases on the way back alternate (Ordered), so     *)
(* that a second grant is never heard before the release of the first.     *)
(*                                                                         *)
(* The comments (CInv).  A note that is not in doubt is counted: either no *)
(* comment on it is under way, or exactly one is (as a command, as a       *)
(* receipt or as a record still to be written) and it is that of the one   *)
(* task that runs (Counted, Alone).  The browsing session is kept off by   *)
(* the lease under which the ledger was looked at.                         *)
(*                                                                         *)
(* The groups (JoinInv).  A group that nobody forgot stays with the        *)
(* account that may be in it: the row of a group that was clicked names    *)
(* its account and counts an attempt (DispatchOK), which a run that is     *)
(* taken back in onBeforeDispatch does not take away because it counted    *)
(* one of its own first (JobOK).  What a run writes without a status       *)
(* predicate is right because the row it owns is still open: only the run  *)
(* of its account can close it.                                            *)
(***************************************************************************)
EXTENDS CommentTasks, GroupJoin, TLAPS

-----------------------------------------------------------------------------
(* The lease of the edge *)


Acq(l) == [t |-> "acquired", l |-> l]
Rel(l) == [t |-> "released", l |-> l]
Ask(l) == [t |-> "acquire", l |-> l]
Give(l) == [t |-> "release", l |-> l]

DownMsgs == [t : {"acquire", "release"}, l : LeaseIds] \cup [t : {"comment"}, l : LeaseIds, n : Notes]
BackMsgs == [t : {"acquired", "released"}, l : LeaseIds]
            \cup [t : {"receipt"}, r : {"confirmed", "unconfirmed", "failed", "preempted", "browsed"}, n : Notes]

\* A grant the client has (at 0) or will hear.
Grant(q, A, i, l) == (i = 0 /\ l \in A) \/ (i \in 1..Len(q) /\ q[i] = Acq(l))

\* Every grant but that of the lease held is followed by its release, and comes after the release of others.
Ordered(q, A, h) ==
    /\ \A i \in 0..Len(q), l \in LeaseIds : l # h /\ Grant(q, A, i, l) => \E k \in (i+1)..Len(q) : q[k] = Rel(l)
    /\ \A i, j \in 0..Len(q), l, m \in LeaseIds :
          i <= j /\ l # m /\ Grant(q, A, i, l) /\ Grant(q, A, j, m) => \E k \in (i+1)..(j-1) : q[k] = Rel(l)

LEMMA AppendFacts ==
    ASSUME NEW S, NEW q \in Seq(S), NEW x \in S
    PROVE  /\ Append(q, x) \in Seq(S) /\ Len(Append(q, x)) = Len(q) + 1 /\ Len(q) \in Nat
           /\ \A i \in 1..Len(q) : Append(q, x)[i] = q[i] /\ q[i] \in S
           /\ Append(q, x)[Len(q) + 1] = x
OBVIOUS

LEMMA TailFacts ==
    ASSUME NEW S, NEW q \in Seq(S), q # <<>>
    PROVE  /\ Tail(q) \in Seq(S) /\ Len(q) \in Nat \ {0} /\ Len(Tail(q)) = Len(q) - 1 /\ Head(q) = q[1]
           /\ \A i \in 1..Len(Tail(q)) : Tail(q)[i] = q[i + 1] /\ Tail(q)[i] \in S
           /\ q[1] \in S
OBVIOUS

LEMMA OrderedAppend ==
    ASSUME NEW q \in Seq(BackMsgs), NEW A, NEW h, NEW x \in BackMsgs, NEW g,
           Ordered(q, A, h),
           \/ g = h /\ \A l \in LeaseIds : x # Acq(l)
           \/ g = None /\ None \notin LeaseIds /\ x = Rel(h)
           \/ g \in LeaseIds /\ h = None /\ None \notin LeaseIds /\ x = Acq(g)
    PROVE  Ordered(Append(q, x), A, g)
<1> DEFINE p == Append(q, x)
           n == Len(q)
<1>1. /\ p \in Seq(BackMsgs) /\ Len(p) = n + 1 /\ n \in Nat
      /\ \A i \in 1..n : p[i] = q[i] 
      /\ p[n + 1] = x
  BY AppendFacts
<1> HIDE DEF p
<1>0. \A l, m : Acq(l) # Rel(m)
  BY DEF Acq, Rel
<1>6. \A l, m : Acq(l) = Acq(m) => l = m
  BY DEF Acq
<1>2. \A i \in 0..n : \A l : Grant(p, A, i, l) <=> Grant(q, A, i, l)
  BY <1>1 DEF Grant
<1>3. \A l : Grant(p, A, n + 1, l) <=> x = Acq(l)
  BY <1>1 DEF Grant
<1>4. ASSUME NEW i \in 0..Len(p), NEW l \in LeaseIds, l # g, Grant(p, A, i, l)
      PROVE  \E k \in (i+1)..Len(p) : p[k] = Rel(l)
  <2>1. CASE i = n + 1
    <3>1. x = Acq(l)
      BY <2>1, <1>3, <1>4
    <3> QED BY <3>1, <1>4, <1>0, <1>6
  <2>2. CASE i \in 0..n /\ l # h
    <3>1. PICK k \in (i+1)..n : q[k] = Rel(l)
      BY <2>2, <1>2, <1>4 DEF Ordered
    <3> QED BY <3>1, <2>2, <1>1
  <2>3. CASE i \in 0..n /\ l = h
    <3>1. x = Rel(l)
      BY <2>3, <1>4
    <3> QED BY <3>1, <2>3, <1>1
  <2> QED BY <2>1, <2>2, <2>3, <1>1
<1>5. ASSUME NEW i \in 0..Len(p), NEW j \in 0..Len(p), NEW l \in LeaseIds, NEW m \in LeaseIds,
             i <= j, l # m, Grant(p, A, i, l), Grant(p, A, j, m)
      PROVE  \E k \in (i+1)..(j-1) : p[k] = Rel(l)
  <2>1. CASE j \in 0..n
    <3>0. Grant(q, A, i, l) /\ Grant(q, A, j, m) /\ i \in 0..n
      BY <2>1, <1>2, <1>5, <1>1
    <3>1. PICK k \in (i+1)..(j-1) : q[k] = Rel(l)
      BY <3>0, <2>1, <1>5 DEF Ordered
    <3> QED BY <3>1, <2>1, <1>1
  <2>2. CASE j = n + 1
    <3>1. x = Acq(m)
      BY <2>2, <1>3, <1>5
    <3>2. h = None /\ None \notin LeaseIds
      BY <3>1, <1>0
    <3>3. i \in 0..n
      <4>1. CASE i = n + 1
        BY <4>1, <1>3, <1>5, <3>1, <1>6
      <4> QED BY <4>1, <1>1
    <3>4. PICK k \in (i+1)..n : q[k] = Rel(l)
      BY <3>2, <3>3, <1>2, <1>5 DEF Ordered
    <3> QED BY <3>4, <2>2, <1>1, <3>3
  <2> QED BY <2>1, <2>2, <1>1
<1> QED BY <1>4, <1>5 DEF Ordered, p

LEMMA OrderedTail ==
    ASSUME NEW q \in Seq(BackMsgs), NEW A, NEW B, NEW h, Ordered(q, A, h), q # <<>>,
           \A l \in B : l \in A \/ q[1] = Acq(l),
           \A l \in B : q[1] # Rel(l)
    PROVE  Ordered(Tail(q), B, h)
<1> DEFINE p == Tail(q)
           n == Len(q)
<1>1. /\ p \in Seq(BackMsgs) /\ n \in Nat \ {0} /\ Len(p) = n - 1
      /\ \A i \in 1..Len(p) : p[i] = q[i + 1]
  BY TailFacts
<1> HIDE DEF p
<1>2. ASSUME NEW i \in 0..Len(p), NEW l, Grant(p, B, i, l)
      PROVE  \/ Grant(q, A, i + 1, l)
             \/ i = 0 /\ Grant(q, A, 0, l) /\ q[1] # Rel(l)
  BY <1>1, <1>2 DEF Grant
<1>3. ASSUME NEW i \in 0..Len(p), NEW l \in LeaseIds, l # h, Grant(p, B, i, l)
      PROVE  \E k \in (i+1)..Len(p) : p[k] = Rel(l)
  <2>1. CASE Grant(q, A, i + 1, l)
    <3>1. PICK k \in (i+2)..n : q[k] = Rel(l)
      BY <2>1, <1>1, <1>3 DEF Ordered
    <3>2. k - 1 \in (i+1)..Len(p) /\ p[k - 1] = q[k]
      BY <1>1
    <3> QED BY <3>1, <3>2
  <2>2. CASE i = 0 /\ Grant(q, A, 0, l) /\ q[1] # Rel(l)
    <3>1. PICK k \in 1..n : q[k] = Rel(l)
      BY <2>2, <1>1, <1>3 DEF Ordered
    <3>2. k # 1
      BY <3>1, <2>2
    <3>3. k - 1 \in 1..Len(p) /\ p[k - 1] = q[k]
      BY <1>1, <3>2
    <3> QED BY <3>1, <3>3, <2>2
  <2> QED BY <2>1, <2>2, <1>2, <1>3
<1>4. ASSUME NEW i \in 0..Len(p), NEW j \in 0..Len(p), NEW l \in LeaseIds, NEW m \in LeaseIds,
             i <= j, l # m, Grant(p, B, i, l), Grant(p, B, j, m)
      PROVE  \E k \in (i+1)..(j-1) : p[k] = Rel(l)
  <2>1. CASE Grant(q, A, i + 1, l) /\ Grant(q, A, j + 1, m)
    <3>0. i + 1 \in 0..n /\ j + 1 \in 0..n /\ i + 1 <= j + 1
      BY <1>1, <1>4
    <3>1. PICK k \in (i+2)..j : q[k] = Rel(l)
      <4>1. \E k \in ((i+1)+1)..((j+1)-1) : q[k] = Rel(l)
        BY <3>0, <2>1, <1>4 DEF Ordered
      <4> QED BY <4>1
    <3>2. k - 1 \in (i+1)..(j-1) /\ p[k - 1] = q[k]
      BY <1>1
    <3> QED BY <3>1, <3>2
  <2>2. CASE i = 0 /\ Grant(q, A, 0, l) /\ q[1] # Rel(l) /\ Grant(q, A, j + 1, m)
    <3>1. PICK k \in 1..j : q[k] = Rel(l)
      BY <2>2, <1>1, <1>4 DEF Ordered
    <3>2. k # 1
      BY <3>1, <2>2
    <3>3. k - 1 \in 1..(j-1) /\ p[k - 1] = q[k]
      BY <1>1, <3>2
    <3> QED BY <3>1, <3>3, <2>2
  <2>3. CASE j = 0 /\ Grant(q, A, 0, m)
    <3>1. i = 0
      BY <2>3, <1>4
    <3>2. CASE Grant(q, A, 0, l)
      BY <3>2, <2>3, <1>4, <1>1 DEF Ordered
    <3>3. CASE Grant(q, A, 1, l)
      <4>1. \E k \in 1..0 : q[k] = Rel(m)
        BY <3>3, <2>3, <1>4, <1>1 DEF Ordered
      <4> QED BY <4>1
    <3> QED BY <3>1, <3>2, <3>3, <1>2, <1>4
  <2> QED BY <2>1, <2>2, <2>3, <1>2, <1>4
<1> QED BY <1>3, <1>4 DEF Ordered, p

-----------------------------------------------------------------------------
(* What is on the channels *)

Has(q, x) == \E i \in 1..Len(q) : q[i] = x

\* A lease is asked for once, before it is given up, and an acquire that was cancelled is followed by its release.
Pending(q, l, cancelled) ==
    \A i \in 1..Len(q) : q[i] = Ask(l) =>
        /\ \A j \in 1..Len(q) : (q[j] = Ask(l) => j = i) /\ (j < i => q[j] # Give(l))
        /\ cancelled => \E j \in (i+1)..Len(q) : q[j] = Give(l)

LEMMA HasAppend ==
    ASSUME NEW S, NEW q \in Seq(S), NEW x \in S
    PROVE  \A y : Has(Append(q, x), y) <=> Has(q, y) \/ y = x
BY AppendFacts DEF Has

LEMMA HasTail ==
    ASSUME NEW S, NEW q \in Seq(S), q # <<>>
    PROVE  \A y : Has(q, y) <=> q[1] = y \/ Has(Tail(q), y)
<1> SUFFICES ASSUME NEW y PROVE Has(q, y) <=> q[1] = y \/ Has(Tail(q), y)
  OBVIOUS
<1> DEFINE p == Tail(q)
<1>1. /\ Len(q) \in Nat \ {0} /\ Len(p) = Len(q) - 1 /\ \A i \in 1..Len(p) : p[i] = q[i + 1]
  BY TailFacts
<1> HIDE DEF p
<1>2. ASSUME Has(q, y) PROVE q[1] = y \/ Has(p, y)
  <2>1. PICK i \in 1..Len(q) : q[i] = y
    BY <1>2 DEF Has
  <2>2. CASE i # 1
    <3>1. i - 1 \in 1..Len(p) /\ p[i - 1] = q[i]
      BY <1>1, <2>2
    <3> QED BY <3>1, <2>1 DEF Has
  <2> QED BY <2>1, <2>2
<1>3. ASSUME q[1] = y \/ Has(p, y) PROVE Has(q, y)
  BY <1>1, <1>3 DEF Has
<1> QED BY <1>2, <1>3 DEF p

LEMMA PendingAppend ==
    ASSUME NEW q \in Seq(DownMsgs), NEW x \in DownMsgs, NEW l, NEW c, NEW d, Pending(q, l, c),
           x = Ask(l) => ~Has(q, Ask(l)) /\ ~Has(q, Give(l)) /\ ~d,
           d => c \/ x = Give(l)
    PROVE  Pending(Append(q, x), l, d)
<1> DEFINE p == Append(q, x)
           n == Len(q)
<1>1. Len(p) = n + 1 /\ n \in Nat /\ (\A i \in 1..n : p[i] = q[i]) /\ p[n + 1] = x
  BY AppendFacts
<1> HIDE DEF p
<1>0. Ask(l) # Give(l)
  BY DEF Ask, Give
<1> SUFFICES ASSUME NEW i \in 1..Len(p), p[i] = Ask(l)
             PROVE  /\ \A j \in 1..Len(p) : (p[j] = Ask(l) => j = i) /\ (j < i => p[j] # Give(l))
                    /\ d => \E j \in (i+1)..Len(p) : p[j] = Give(l)
  BY DEF Pending, p
<1>2. CASE i = n + 1
  BY <1>1, <1>2 DEF Has
<1>3. CASE i \in 1..n
  <2>1. /\ \A j \in 1..n : (q[j] = Ask(l) => j = i) /\ (j < i => q[j] # Give(l))
        /\ c => \E j \in (i+1)..n : q[j] = Give(l)
    BY <1>1, <1>3 DEF Pending
  <2>2. x # Ask(l)
    BY <1>1, <1>3 DEF Has
  <2>3. ASSUME d PROVE \E j \in (i+1)..Len(p) : p[j] = Give(l)
    <3>1. CASE x = Give(l)
      BY <3>1, <1>1, <1>3
    <3>2. CASE c
      <4>1. PICK j \in (i+1)..n : q[j] = Give(l)
        BY <2>1, <3>2
      <4> QED BY <4>1, <1>1, <1>3
    <3> QED BY <3>1, <3>2, <2>3
  <2> QED BY <2>1, <2>2, <2>3, <1>1
<1> QED BY <1>1, <1>2, <1>3

LEMMA PendingTail ==
    ASSUME NEW q \in Seq(DownMsgs), NEW l, NEW c, Pending(q, l, c), q # <<>>
    PROVE  /\ Pending(Tail(q), l, c)
           /\ q[1] = Ask(l) => ~Has(Tail(q), Ask(l)) /\ (c => Has(Tail(q), Give(l)))
           /\ q[1] = Give(l) => ~Has(Tail(q), Ask(l))
<1> DEFINE p == Tail(q)
           n == Len(q)
<1>1. n \in Nat \ {0} /\ Len(p) = n - 1 /\ \A i \in 1..Len(p) : p[i] = q[i + 1]
  BY TailFacts
<1> HIDE DEF p
<1>2. ASSUME NEW i \in 1..Len(p), p[i] = Ask(l)
      PROVE  /\ \A j \in 1..Len(p) : (p[j] = Ask(l) => j = i) /\ (j < i => p[j] # Give(l))
             /\ c => \E j \in (i+1)..Len(p) : p[j] = Give(l)
  <2>1. q[i + 1] = Ask(l) /\ i + 1 \in 1..n
    BY <1>1, <1>2
  <2>2. ASSUME NEW j \in 1..Len(p), p[j] = Ask(l) PROVE j = i
    <3>1. q[j + 1] = Ask(l) /\ j + 1 \in 1..n
      BY <1>1, <2>2
    <3>2. j + 1 = i + 1
      BY <3>1, <2>1 DEF Pending
    <3> QED BY <3>2
  <2>3. ASSUME c PROVE \E j \in (i+1)..Len(p) : p[j] = Give(l)
    <3>1. PICK k \in ((i+1)+1)..n : q[k] = Give(l)
      BY <2>1, <2>3 DEF Pending
    <3>2. k - 1 \in (i+1)..Len(p) /\ p[k - 1] = q[k]
      BY <1>1
    <3> QED BY <3>1, <3>2
  <2>4. ASSUME NEW j \in 1..Len(p), j < i PROVE p[j] # Give(l)
    <3>1. p[j] = q[j + 1] /\ j + 1 \in 1..n /\ j + 1 < i + 1
      BY <1>1, <2>4
    <3> QED BY <3>1, <2>1 DEF Pending
  <2> QED BY <2>2, <2>3, <2>4
<1>4. ASSUME q[1] = Give(l), NEW i \in 1..Len(p), p[i] = Ask(l) PROVE FALSE
  <2>1. q[i + 1] = Ask(l) /\ i + 1 \in 1..n /\ 1 \in 1..n /\ 1 < i + 1
    BY <1>1, <1>4
  <2> QED BY <2>1, <1>4 DEF Pending
<1>3. ASSUME q[1] = Ask(l) PROVE ~Has(p, Ask(l)) /\ (c => Has(p, Give(l)))
  <2>0. 1 \in 1..n
    BY <1>1
  <2>1. ASSUME NEW i \in 1..Len(p), p[i] = Ask(l) PROVE FALSE
    <3>1. q[i + 1] = Ask(l) /\ i + 1 \in 1..n
      BY <1>1, <2>1
    <3>2. i + 1 = 1
      BY <3>1, <2>0, <1>3 DEF Pending
    <3> QED BY <3>2
  <2>2. ASSUME c PROVE Has(p, Give(l))
    <3>1. PICK k \in (1+1)..n : q[k] = Give(l)
      BY <2>0, <1>3, <2>2 DEF Pending
    <3>2. k - 1 \in 1..Len(p) /\ p[k - 1] = q[k]
      BY <1>1
    <3> QED BY <3>1, <3>2 DEF Has
  <2> QED BY <2>1, <2>2 DEF Has
<1>5. q[1] = Give(l) => ~Has(p, Ask(l))
  BY <1>4 DEF Has
<1> QED BY <1>2, <1>3, <1>5 DEF Pending, p

LEMMA MsgFacts ==
    /\ \A l, m : /\ Acq(l) = Acq(m) <=> l = m
                 /\ Rel(l) = Rel(m) <=> l = m
                 /\ Ask(l) = Ask(m) <=> l = m
                 /\ Give(l) = Give(m) <=> l = m
                 /\ Acq(l) # Rel(m) /\ Ask(l) # Give(m)
    /\ \A l \in LeaseIds : Acq(l) \in BackMsgs /\ Rel(l) \in BackMsgs /\ Ask(l) \in DownMsgs /\ Give(l) \in DownMsgs
    /\ \A l : /\ Acq(l).t = "acquired" /\ Rel(l).t = "released" /\ Ask(l).t = "acquire" /\ Give(l).t = "release"
             /\ Acq(l).l = l /\ Rel(l).l = l /\ Ask(l).l = l /\ Give(l).l = l
             /\ Lease!Msg("acquired", l) = Acq(l) /\ Lease!Msg("released", l) = Rel(l)
             /\ Lease!Msg("acquire", l) = Ask(l) /\ Lease!Msg("release", l) = Give(l)
    /\ \A x \in BackMsgs : /\ x.t = "acquired" => x = Acq(x.l) /\ x.l \in LeaseIds
                           /\ x.t = "released" => x = Rel(x.l) /\ x.l \in LeaseIds
    /\ \A x \in DownMsgs : /\ x.t = "acquire" => x = Ask(x.l) /\ x.l \in LeaseIds
                           /\ x.t = "release" => x = Give(x.l) /\ x.l \in LeaseIds
BY DEF Acq, Rel, Ask, Give, BackMsgs, DownMsgs, Lease!Msg

-----------------------------------------------------------------------------
(* The lease *)

Active(f) == {l \in LeaseIds : f[l] = "active"}
Silent(l) == ~Has(back, Acq(l)) /\ ~Has(back, Rel(l))
Gone == {"new", "over"}

LTypes ==
    /\ up \in BOOLEAN /\ cl \in [LeaseIds -> Lease!ClientStates] /\ waiting \subseteq LeaseIds
    /\ down \in Seq(DownMsgs) /\ back \in Seq(BackMsgs) /\ held \in LeaseIds \cup {None}

\* Nothing is under way without a connection.
Hangup == ~up => down = <<>> /\ back = <<>> /\ waiting = {} /\ \A l \in LeaseIds : cl[l] \in Gone

LeaseOK(l) ==
    /\ cl[l] = "new" => l \notin waiting /\ l # held /\ ~Has(down, Ask(l)) /\ ~Has(down, Give(l)) /\ Silent(l)
    /\ Has(down, Ask(l)) => l \notin waiting
    /\ Has(down, Ask(l)) \/ l \in waiting => l # held /\ cl[l] \in {"acquiring", "cancelled"} /\ Silent(l)
    /\ Pending(down, l, cl[l] = "cancelled")
    /\ l \in waiting /\ cl[l] = "cancelled" => Has(down, Give(l))
    /\ l = held => /\ ~Has(back, Rel(l))
                   /\ cl[l] \in {"acquiring", "active"} \/ l \in kept \/ Has(down, Give(l))

LInv == LTypes /\ Hangup /\ Ordered(back, Active(cl), held) /\ \A l \in LeaseIds : LeaseOK(l)

LEMMA LInvHolds == ASSUME LInv, Parameters PROVE LeaseHolds
<1>1. Lease!OneActiveLease
  <2> SUFFICES ASSUME NEW l \in LeaseIds, NEW m \in LeaseIds, cl[l] = "active", cl[m] = "active", l # m
               PROVE  FALSE
    BY DEF Lease!OneActiveLease
  <2>1. Grant(back, Active(cl), 0, l) /\ Grant(back, Active(cl), 0, m)
    BY DEF Grant, Active
  <2>2. 0 \in 0..Len(back)
    BY DEF LInv, LTypes
  <2>3. \E k \in (0+1)..(0-1) : back[k] = Rel(l)
    BY <2>1, <2>2 DEF LInv, Ordered
  <2> QED BY <2>3
<1>2. Lease!HeldIsKnown
  <2> SUFFICES ASSUME held # None
               PROVE  \/ cl[held] \in {"acquiring", "active"} \/ held \in kept
                      \/ \E i \in 1..Len(down) : down[i] = Lease!Msg("release", held)
    BY DEF Lease!HeldIsKnown
  <2>1. held \in LeaseIds /\ LeaseOK(held)
    BY DEF LInv, LTypes
  <2> QED BY <2>1, MsgFacts DEF LeaseOK, Has
<1> QED BY <1>1, <1>2 DEF LeaseHolds

LEMMA OrderedFewer ==
    ASSUME NEW q \in Seq(BackMsgs), NEW A, NEW B, NEW h, Ordered(q, A, h), B \subseteq A PROVE Ordered(q, B, h)
<1>1. \A i, l : Grant(q, B, i, l) => Grant(q, A, i, l)
  BY DEF Grant
<1> QED BY <1>1 DEF Ordered

LEMMA EmptyFacts ==
    /\ \A l, c : ~Has(<<>>, l) /\ Pending(<<>>, l, c)
    /\ \A h : Ordered(<<>>, {}, h) /\ <<>> \in Seq(DownMsgs) /\ <<>> \in Seq(BackMsgs)
BY DEF Has, Pending, Ordered, Grant

LEMMA LInit == Parameters /\ Lease!LeaseInit => LInv
<1> SUFFICES ASSUME Parameters, Lease!LeaseInit PROVE LInv
  OBVIOUS
<1>1. Active(cl) = {}
  BY DEF Lease!LeaseInit, Active
<1>2. LTypes /\ Hangup
  BY DEF Lease!LeaseInit, LTypes, Hangup, Lease!ClientStates
<1>3. ASSUME NEW l \in LeaseIds PROVE LeaseOK(l)
  BY EmptyFacts DEF Lease!LeaseInit, LeaseOK, Silent, Parameters
<1> QED BY <1>1, <1>2, <1>3, EmptyFacts DEF LInv, Lease!LeaseInit

\* What a step that only moves other messages keeps.
LEMMA Keeps ==
    ASSUME LInv, NEW l \in LeaseIds, cl'[l] = cl[l], l \in waiting' <=> l \in waiting, l = held' => l = held,
           kept \subseteq kept',
           Has(down, Ask(l))' => Has(down, Ask(l)), Has(down, Give(l))' <=> Has(down, Give(l)),
           Pending(down, l, cl[l] = "cancelled")',
           Has(back, Acq(l))' => Has(back, Acq(l)), Has(back, Rel(l))' => Has(back, Rel(l))
    PROVE  LeaseOK(l)'
BY DEF LInv, LeaseOK, Silent

\* Sending a message to the edge.
LEMMA Sending ==
    ASSUME LInv, NEW x \in DownMsgs, down' = Append(down, x)
    PROVE  /\ down' \in Seq(DownMsgs)
           /\ \A y : Has(down, y)' <=> Has(down, y) \/ y = x
           /\ \A l : (x # Ask(l) \/ (~Has(down, Ask(l)) /\ ~Has(down, Give(l)))) =>
                 \A c, d : Pending(down, l, c) /\ (x = Ask(l) => ~d) /\ (d => c \/ x = Give(l)) => Pending(Append(down, x), l, d)
<1>1. down \in Seq(DownMsgs)
  BY DEF LInv, LTypes
<1>2. down' \in Seq(DownMsgs) /\ \A y : Has(down, y)' <=> Has(down, y) \/ y = x
  BY <1>1, AppendFacts, HasAppend
<1>3. ASSUME NEW l, x # Ask(l) \/ (~Has(down, Ask(l)) /\ ~Has(down, Give(l))), NEW c, NEW d,
             Pending(down, l, c), x = Ask(l) => ~d, d => c \/ x = Give(l)
      PROVE  Pending(Append(down, x), l, d)
  BY <1>1, <1>3, PendingAppend
<1> QED BY <1>2, <1>3

LEMMA AcquireKeeps == ASSUME Parameters, LInv, NEW l \in LeaseIds, Lease!acquire(l) PROVE LInv'
<1>0. cl[l] = "new" /\ cl' = [cl EXCEPT ![l] = IF up THEN "acquiring" ELSE "over"]
      /\ down' = (IF up THEN Append(down, Ask(l)) ELSE down)
      /\ UNCHANGED <<up, back, held, waiting, kept>>
  BY MsgFacts DEF Lease!acquire, Lease!Set, Lease!Push
<1>1. Active(cl') = Active(cl)
  BY <1>0 DEF Active, LInv, LTypes
<1>2. LeaseOK(l) /\ LTypes /\ Hangup
  BY DEF LInv
<1>3. CASE up
  <2>1. /\ down' \in Seq(DownMsgs)
        /\ \A y : Has(down, y)' <=> Has(down, y) \/ y = Ask(l)
    BY <1>0, <1>3, Sending, MsgFacts
  <2>2. ASSUME NEW m \in LeaseIds \ {l} PROVE LeaseOK(m)'
    <3>1. Pending(down, m, cl[m] = "cancelled")'
      <4>1. Pending(down, m, cl[m] = "cancelled") /\ Ask(l) # Ask(m) /\ Ask(l) # Give(m) /\ Ask(l) \in DownMsgs
        BY <2>2, MsgFacts DEF LInv, LeaseOK
      <4>2. cl'[m] = cl[m]
        BY <1>0, <2>2, <1>2 DEF LTypes
      <4> QED BY <4>1, <4>2, <1>0, <1>3, Sending
    <3> QED BY <3>1, <2>1, <2>2, <1>0, <1>2, MsgFacts, Keeps DEF LTypes
  <2>3. LeaseOK(l)'
    <3>1. Pending(down, l, cl[l] = "cancelled")'
      <4>1. cl'[l] # "cancelled" /\ ~Has(down, Ask(l)) /\ ~Has(down, Give(l)) /\ Ask(l) \in DownMsgs /\ Pending(down, l, FALSE)
        BY <1>0, <1>2, <1>3, MsgFacts DEF LTypes, LeaseOK, Pending
      <4> QED BY <4>1, <1>0, <1>3, Sending
    <3> QED BY <3>1, <2>1, <1>0, <1>2, <1>3, MsgFacts DEF LeaseOK, LTypes, Silent, Lease!ClientStates
  <2>4. LTypes' /\ Hangup'
    BY <1>0, <1>2, <1>3, <2>1 DEF LTypes, Hangup, Lease!ClientStates
  <2> QED BY <2>2, <2>3, <2>4, <1>0, <1>1 DEF LInv
<1>4. CASE ~up
  <2>1. LTypes' /\ Hangup'
    BY <1>0, <1>2, <1>4 DEF LTypes, Hangup, Lease!ClientStates, Gone
  <2>2. ASSUME NEW m \in LeaseIds PROVE LeaseOK(m)'
    BY <1>0, <1>2, <1>4, EmptyFacts DEF LInv, LTypes, Hangup, LeaseOK, Silent, Gone
  <2> QED BY <2>1, <2>2, <1>0, <1>1 DEF LInv
<1> QED BY <1>3, <1>4

\* A lease that is given up tells the edge.
LEMMA GivenUp ==
    ASSUME Parameters, LInv, up, NEW l \in LeaseIds, NEW st \in {"cancelled", "releasing"},
           st = "cancelled" <=> cl[l] = "acquiring", cl[l] \in {"acquiring", "active"},
           cl' = [cl EXCEPT ![l] = st], down' = Append(down, Give(l)), UNCHANGED <<up, back, held, waiting, kept>>
    PROVE  LInv'
<1>2. LeaseOK(l) /\ LTypes /\ Hangup
  BY DEF LInv
<1>1. Active(cl') \subseteq Active(cl)
  BY <1>2 DEF Active, LTypes
<1>3. /\ down' \in Seq(DownMsgs)
      /\ \A y : Has(down, y)' <=> Has(down, y) \/ y = Give(l)
  BY Sending, MsgFacts
<1>4. ASSUME NEW m \in LeaseIds \ {l} PROVE LeaseOK(m)'
  <2>1. Pending(down, m, cl[m] = "cancelled") /\ Give(l) # Ask(m) /\ Give(l) # Give(m) /\ Give(l) \in DownMsgs /\ cl'[m] = cl[m]
    BY <1>2, MsgFacts DEF LInv, LeaseOK, LTypes
  <2>2. Pending(down, m, cl[m] = "cancelled")'
    BY <2>1, Sending
  <2> QED BY <2>1, <2>2, <1>3, MsgFacts, Keeps
<1>5. LeaseOK(l)'
  <2>1. Pending(down, l, cl[l] = "cancelled")'
    <3>1. Pending(down, l, cl[l] = "cancelled") /\ Give(l) # Ask(l) /\ Give(l) \in DownMsgs
      BY <1>2, MsgFacts DEF LeaseOK
    <3> QED BY <3>1, Sending
  <2>2. cl'[l] = st /\ Has(down, Give(l))'
    BY <1>2, <1>3 DEF LTypes
  <2> QED BY <2>1, <2>2, <1>2, <1>3, MsgFacts DEF LeaseOK, Silent
<1>6. LTypes' /\ Hangup'
  BY <1>2, <1>3 DEF LTypes, Hangup, Lease!ClientStates
<1>7. Ordered(back, Active(cl), held)'
  BY <1>1, <1>2, OrderedFewer DEF LInv, LTypes
<1> QED BY <1>4, <1>5, <1>6, <1>7 DEF LInv

\* What is asked for or active needs a connection.
LEMMA Connected == ASSUME LInv, NEW l \in LeaseIds, cl[l] \notin Gone PROVE up
BY DEF LInv, Hangup, Gone

LEMMA AcquireTimeoutKeeps == ASSUME Parameters, LInv, NEW l \in LeaseIds, Lease!acquireTimeout(l) PROVE LInv'
<1>1. up
  BY Connected DEF Lease!acquireTimeout, Gone
<1>2. cl[l] = "acquiring" /\ cl' = [cl EXCEPT ![l] = "cancelled"] /\ down' = Append(down, Give(l))
      /\ UNCHANGED <<up, back, held, waiting, kept>>
  BY <1>1, MsgFacts DEF Lease!acquireTimeout, Lease!Set, Lease!Push
<1> QED BY <1>1, <1>2, GivenUp

LEMMA ReleaseKeeps == ASSUME Parameters, LInv, NEW l \in LeaseIds, Lease!release(l) PROVE LInv'
<1>1. up
  BY Connected DEF Lease!release, Gone
<1>2. cl[l] = "active" /\ cl' = [cl EXCEPT ![l] = "releasing"] /\ down' = Append(down, Give(l))
      /\ UNCHANGED <<up, back, held, waiting, kept>>
  BY <1>1, MsgFacts DEF Lease!release, Lease!Set, Lease!Push
<1> QED BY <1>1, <1>2, GivenUp

LEMMA ReleaseTimeoutKeeps == ASSUME Parameters, LInv, NEW l \in LeaseIds, Lease!releaseTimeout(l) PROVE LInv'
<1>0. cl[l] = "releasing" /\ cl' = [cl EXCEPT ![l] = "over"] /\ UNCHANGED <<up, down, back, held, waiting, kept>>
  BY DEF Lease!releaseTimeout, Lease!Set
<1>2. LeaseOK(l) /\ LTypes /\ Hangup
  BY DEF LInv
<1>1. Active(cl') = Active(cl)
  BY <1>0, <1>2 DEF Active, LTypes
<1>4. ASSUME NEW m \in LeaseIds \ {l} PROVE LeaseOK(m)'
  <2>1. Pending(down, m, cl[m] = "cancelled") /\ cl'[m] = cl[m]
    BY <1>0, <1>2 DEF LInv, LeaseOK, LTypes
  <2> QED BY <2>1, <1>0, Keeps
<1>5. LeaseOK(l)'
  BY <1>0, <1>2 DEF LeaseOK, LTypes, Silent, Pending
<1>6. LTypes' /\ Hangup'
  BY <1>0, <1>2 DEF LTypes, Hangup, Lease!ClientStates, Gone
<1> QED BY <1>0, <1>1, <1>4, <1>5, <1>6 DEF LInv

\* Hearing a message from the edge.
LEMMA Heard ==
    ASSUME LInv, back # <<>>, back' = Tail(back)
    PROVE  /\ back' \in Seq(BackMsgs) /\ up /\ back[1] \in BackMsgs /\ Head(back) = back[1]
           /\ \A y : Has(back, y) <=> back[1] = y \/ Has(back, y)'
BY TailFacts, HasTail DEF LInv, LTypes, Hangup

LEMMA ClientHearsKeeps == ASSUME Parameters, LInv, Lease!ClientHears PROVE LInv'
<1>1. /\ back # <<>> /\ back' = Tail(back) /\ UNCHANGED <<up, held, waiting, kept>>
      /\ Head(back).t \in {"acquired", "released"}
  BY DEF Lease!ClientHears
<1>2. /\ back' \in Seq(BackMsgs) /\ up /\ back[1] \in BackMsgs /\ Head(back) = back[1]
      /\ \A y : Has(back, y) <=> back[1] = y \/ Has(back, y)'
  BY <1>1, Heard
<1>3. LTypes /\ Hangup
  BY DEF LInv
<1>4. CASE back[1].t = "acquired"
  <2>1. PICK l \in LeaseIds : back[1] = Acq(l)
    BY <1>2, <1>4, MsgFacts
  <2>2. /\ cl' = [cl EXCEPT ![l] = IF @ = "acquiring" THEN "active" ELSE @]
        /\ down' = IF cl[l] = "cancelled" THEN Append(down, Give(l)) ELSE down
    BY <1>2, <1>4, <2>1, MsgFacts DEF Lease!ClientHears, Lease!onAcquired, Lease!Push
  <2>3. LeaseOK(l) /\ Has(back, Acq(l)) /\ ~Has(down, Ask(l)) /\ l \notin waiting /\ cl[l] # "new"
    BY <1>2, <2>1 DEF LInv, LeaseOK, Silent
  <2>4. /\ down' \in Seq(DownMsgs)
        /\ \A y : Has(down, y)' <=> Has(down, y) \/ (y = Give(l) /\ cl[l] = "cancelled")
    <3>1. CASE cl[l] = "cancelled"
      BY <3>1, <2>1, <2>2, Sending, MsgFacts
    <3> QED BY <3>1, <2>2, <1>3 DEF LTypes
  <2>5. \A m \in LeaseIds : Pending(down, m, cl[m] = "cancelled")'
    <3> SUFFICES ASSUME NEW m \in LeaseIds PROVE Pending(down, m, cl[m] = "cancelled")'
      OBVIOUS
    <3>1. Pending(down, m, cl[m] = "cancelled") /\ Give(l) # Ask(m) /\ Give(l) \in DownMsgs
          /\ (cl'[m] = "cancelled" <=> cl[m] = "cancelled")
      BY <2>1, <2>2, <1>3, MsgFacts DEF LInv, LeaseOK, LTypes
    <3>2. CASE cl[l] = "cancelled"
      BY <3>1, <3>2, <2>2, Sending
    <3>3. CASE cl[l] # "cancelled"
      BY <3>1, <3>3, <2>2 DEF Pending
    <3> QED BY <3>2, <3>3
  <2>6. ASSUME NEW m \in LeaseIds \ {l} PROVE LeaseOK(m)'
    <3>1. cl'[m] = cl[m] /\ Give(l) # Give(m) /\ Give(l) # Ask(m)
      BY <2>1, <2>2, <1>3, MsgFacts DEF LTypes
    <3> QED BY <3>1, <2>4, <2>5, <1>1, <1>2, Keeps
  <2>7. LeaseOK(l)'
    <3>1. cl'[l] = IF cl[l] = "acquiring" THEN "active" ELSE cl[l]
      BY <2>1, <2>2, <1>3 DEF LTypes
    <3> QED BY <3>1, <2>1, <2>3, <2>4, <2>5, <1>1, <1>2, MsgFacts DEF LeaseOK, Silent
  <2>8. LTypes' /\ Hangup'
    BY <1>1, <1>2, <1>3, <2>1, <2>2, <2>4 DEF LTypes, Hangup, Lease!ClientStates
  <2>9. Ordered(back, Active(cl), held)'
    <3>1. \A m \in Active(cl') : m \in Active(cl) \/ back[1] = Acq(m)
      BY <2>1, <2>2, <1>3 DEF Active, LTypes
    <3>2. \A m \in Active(cl') : back[1] # Rel(m)
      BY <2>1, MsgFacts
    <3>3. Ordered(Tail(back), Active(cl'), held)
      BY <3>1, <3>2, <1>1, <1>3, OrderedTail DEF LInv, LTypes
    <3> QED BY <3>3, <1>1
  <2> QED BY <2>6, <2>7, <2>8, <2>9 DEF LInv
<1>5. CASE back[1].t = "released"
  <2>1. PICK l \in LeaseIds : back[1] = Rel(l)
    BY <1>2, <1>5, MsgFacts
  <2>2. /\ cl' = [cl EXCEPT ![l] = IF @ \in {"acquiring", "active", "releasing", "cancelled"} THEN "over" ELSE @]
        /\ down' = down
    BY <1>2, <1>5, <2>1, MsgFacts DEF Lease!ClientHears, Lease!onReleased
  <2>3. LeaseOK(l) /\ Has(back, Rel(l)) /\ ~Has(down, Ask(l)) /\ l \notin waiting /\ cl[l] # "new" /\ l # held
    BY <1>2, <2>1 DEF LInv, LeaseOK, Silent
  <2>4. cl'[l] = "over" /\ \A m \in LeaseIds \ {l} : cl'[m] = cl[m]
    BY <2>1, <2>2, <2>3, <1>3 DEF LTypes, Lease!ClientStates
  <2>6. ASSUME NEW m \in LeaseIds \ {l} PROVE LeaseOK(m)'
    <3>1. cl'[m] = cl[m] /\ Pending(down, m, cl[m] = "cancelled")'
      BY <2>2, <2>4 DEF LInv, LeaseOK
    <3> QED BY <3>1, <2>2, <1>1, <1>2, Keeps
  <2>7. LeaseOK(l)'
    BY <2>2, <2>3, <2>4, <1>1 DEF LeaseOK, Pending
  <2>8. LTypes' /\ Hangup'
    BY <1>1, <1>2, <1>3, <2>1, <2>2 DEF LTypes, Hangup, Lease!ClientStates
  <2>9. Ordered(back, Active(cl), held)'
    <3>1. \A m \in Active(cl') : m \in Active(cl) /\ back[1] # Rel(m)
      BY <2>1, <2>4, MsgFacts DEF Active
    <3>3. Ordered(Tail(back), Active(cl'), held)
      BY <3>1, <1>1, <1>3, OrderedTail DEF LInv, LTypes
    <3> QED BY <3>3, <1>1
  <2> QED BY <2>6, <2>7, <2>8, <2>9 DEF LInv
<1> QED BY <1>1, <1>2, <1>4, <1>5

\* A lease that is over on the edge.
LEMMA Ended ==
    ASSUME LInv, NEW l \in LeaseIds, cl'[l] = cl[l], cl[l] # "new", ~Has(down, Ask(l))', l \notin waiting', l # held',
           Pending(down, l, cl[l] = "cancelled")'
    PROVE  LeaseOK(l)'
BY DEF LeaseOK

\* The edge answers.
LEMMA Told ==
    ASSUME LInv, NEW x \in BackMsgs, back' = Append(back, x)
    PROVE  back' \in Seq(BackMsgs) /\ \A y : Has(back, y)' <=> Has(back, y) \/ y = x
BY AppendFacts, HasAppend DEF LInv, LTypes

\* The edge takes a message.
LEMMA Taken ==
    ASSUME LInv, down # <<>>, down' = Tail(down)
    PROVE  /\ down' \in Seq(DownMsgs) /\ up /\ down[1] \in DownMsgs /\ Head(down) = down[1]
           /\ \A y : Has(down, y) <=> down[1] = y \/ Has(down, y)'
           /\ \A l \in LeaseIds : /\ Pending(down', l, cl[l] = "cancelled")
                                  /\ down[1] = Ask(l) => ~Has(down, Ask(l))' /\ (cl[l] = "cancelled" => Has(down, Give(l))')
                                  /\ down[1] = Give(l) => ~Has(down, Ask(l))'
<1>1. down \in Seq(DownMsgs) /\ up
  BY DEF LInv, LTypes, Hangup
<1>2. down' \in Seq(DownMsgs) /\ down[1] \in DownMsgs /\ Head(down) = down[1]
  BY <1>1, TailFacts
<1>3. \A y : Has(down, y) <=> down[1] = y \/ Has(down, y)'
  BY <1>1, HasTail
<1>4. ASSUME NEW l \in LeaseIds
      PROVE  /\ Pending(down', l, cl[l] = "cancelled")
             /\ down[1] = Ask(l) => ~Has(down, Ask(l))' /\ (cl[l] = "cancelled" => Has(down, Give(l))')
             /\ down[1] = Give(l) => ~Has(down, Ask(l))'
  <2>1. Pending(down, l, cl[l] = "cancelled")
    BY DEF LInv, LeaseOK
  <2> QED BY <2>1, <1>1, PendingTail
<1> QED BY <1>1, <1>2, <1>3, <1>4

LEMMA EdgeHearsAcquireKeeps == ASSUME Parameters, LInv, Lease!EdgeHearsAcquire PROVE LInv'
<1>1. /\ down # <<>> /\ down' = Tail(down) /\ Head(down).t = "acquire" /\ UNCHANGED <<up, cl, kept>>
  BY DEF Lease!EdgeHearsAcquire
<1>2. /\ down' \in Seq(DownMsgs) /\ up /\ down[1] \in DownMsgs /\ Head(down) = down[1]
      /\ \A y : Has(down, y) <=> down[1] = y \/ Has(down, y)'
      /\ \A l \in LeaseIds : /\ Pending(down', l, cl[l] = "cancelled")
                             /\ down[1] = Ask(l) => ~Has(down, Ask(l))' /\ (cl[l] = "cancelled" => Has(down, Give(l))')
  BY <1>1, Taken
<1>3. PICK l \in LeaseIds : down[1] = Ask(l)
  BY <1>1, <1>2, MsgFacts
<1>4. LTypes /\ Hangup /\ LeaseOK(l) /\ Has(down, Ask(l)) /\ back \in Seq(BackMsgs)
  BY <1>2, <1>3 DEF LInv, LTypes
<1>5. /\ l # held /\ cl[l] \in {"acquiring", "cancelled"} /\ Silent(l) /\ l \notin waiting
      /\ ~Has(down, Ask(l))' /\ (cl[l] = "cancelled" => Has(down, Give(l))')
  BY <1>2, <1>3, <1>4 DEF LeaseOK
<1>6. Head(down).l = l
  BY <1>2, <1>3, MsgFacts
<1>7. \A m \in LeaseIds : Pending(down, m, cl[m] = "cancelled")'
  BY <1>1, <1>2
<1>8. \A m \in LeaseIds \ {l} : /\ Has(down, Ask(m))' => Has(down, Ask(m))
                                /\ Has(down, Give(m))' <=> Has(down, Give(m))
  BY <1>2, <1>3, MsgFacts
<1>9. Hangup' /\ Active(cl') = Active(cl) /\ None \notin LeaseIds
  BY <1>1, <1>2 DEF Hangup, Parameters
\* The lease is held from here on, and the grant is on its way.
<1>10. ASSUME held' = l, waiting' = waiting, ~Has(back, Rel(l))' PROVE LeaseOK(l)'
  BY <1>10, <1>1, <1>5, <1>7 DEF LeaseOK
<1>11. CASE held = None /\ held' = l /\ back' = Append(back, Acq(l)) /\ UNCHANGED waiting
  <2>1. back' \in Seq(BackMsgs) /\ \A y : Has(back, y)' <=> Has(back, y) \/ y = Acq(l)
    BY <1>11, Told, MsgFacts
  <2>2. ASSUME NEW m \in LeaseIds \ {l} PROVE LeaseOK(m)'
    BY <2>1, <1>1, <1>7, <1>8, <1>11, MsgFacts, Keeps
  <2>3. LeaseOK(l)'
    BY <2>1, <1>5, <1>10, <1>11, MsgFacts DEF Silent
  <2>4. Ordered(Append(back, Acq(l)), Active(cl), l)
    BY <1>4, <1>9, <1>11, MsgFacts, OrderedAppend DEF LInv
  <2>5. LTypes'
    BY <1>1, <1>2, <1>4, <1>11, <2>1 DEF LTypes
  <2> QED BY <2>2, <2>3, <2>4, <2>5, <1>9, <1>11 DEF LInv
<1>12. CASE held # None /\ held' = l /\ back' = Append(Append(back, Rel(held)), Acq(l)) /\ UNCHANGED waiting
  <2>0. PICK h \in LeaseIds : h = held
    BY <1>12, <1>4 DEF LTypes
  <2>1. /\ Append(back, Rel(h)) \in Seq(BackMsgs) /\ back' \in Seq(BackMsgs)
        /\ \A y : Has(back, y)' <=> Has(back, y) \/ y = Rel(h) \/ y = Acq(l)
    <3>1. Append(back, Rel(h)) \in Seq(BackMsgs) /\ \A y : Has(Append(back, Rel(h)), y) <=> Has(back, y) \/ y = Rel(h)
      BY <1>4, <2>0, MsgFacts, AppendFacts, HasAppend
    <3>2. /\ Append(Append(back, Rel(h)), Acq(l)) \in Seq(BackMsgs)
          /\ \A y : Has(Append(Append(back, Rel(h)), Acq(l)), y) <=> Has(Append(back, Rel(h)), y) \/ y = Acq(l)
      <4> DEFINE p == Append(back, Rel(h))
      <4>1. p \in Seq(BackMsgs) /\ Acq(l) \in BackMsgs
        BY <3>1, MsgFacts
      <4> HIDE DEF p
      <4>2. Append(p, Acq(l)) \in Seq(BackMsgs)
        BY <4>1, AppendFacts
      <4>3. \A y : Has(Append(p, Acq(l)), y) <=> Has(p, y) \/ y = Acq(l)
        BY <4>1, HasAppend
      <4> QED BY <4>2, <4>3 DEF p
    <3> QED BY <3>1, <3>2, <2>0, <1>12
  <2>2. ASSUME NEW m \in LeaseIds \ {l, h} PROVE LeaseOK(m)'
    BY <2>0, <2>1, <1>1, <1>7, <1>8, <1>12, MsgFacts, Keeps
  <2>3. LeaseOK(l)'
    BY <2>0, <2>1, <1>5, <1>10, <1>12, MsgFacts DEF Silent
  <2>4. h # l /\ LeaseOK(h)
    BY <2>0, <1>5 DEF LInv
  <2>5. LeaseOK(h)'
    <3>1. cl[h] # "new" /\ ~Has(down, Ask(h)) /\ h \notin waiting
      BY <2>0, <2>4 DEF LeaseOK
    <3> QED BY <3>1, <2>0, <2>4, <1>1, <1>7, <1>8, <1>12, Ended
  <2>6. Ordered(back', Active(cl), l)
    <3>1. Ordered(Append(back, Rel(h)), Active(cl), None)
      BY <2>0, <1>4, <1>9, MsgFacts, OrderedAppend DEF LInv
    <3>2. Ordered(Append(Append(back, Rel(h)), Acq(l)), Active(cl), l)
      BY <3>1, <2>1, <1>9, MsgFacts, OrderedAppend
    <3> QED BY <3>2, <2>0, <1>12
  <2>7. LTypes'
    BY <1>1, <1>2, <1>4, <1>12, <2>1 DEF LTypes
  <2> QED BY <2>2, <2>3, <2>5, <2>6, <2>7, <1>9, <1>12 DEF LInv
<1>13. CASE waiting' = waiting \cup {l} /\ UNCHANGED <<held, back>>
  <2>2. ASSUME NEW m \in LeaseIds \ {l} PROVE LeaseOK(m)'
    BY <1>1, <1>7, <1>8, <1>13, Keeps
  <2>3. LeaseOK(l)'
    BY <1>1, <1>5, <1>7, <1>13 DEF LeaseOK, Silent
  <2>5. LTypes'
    BY <1>1, <1>2, <1>4, <1>13 DEF LTypes
  <2> QED BY <2>2, <2>3, <2>5, <1>9, <1>13 DEF LInv
<1>14. CASE back' = Append(back, Rel(l)) /\ UNCHANGED <<held, waiting>>
  <2>1. back' \in Seq(BackMsgs) /\ \A y : Has(back, y)' <=> Has(back, y) \/ y = Rel(l)
    BY <1>14, Told, MsgFacts
  <2>2. ASSUME NEW m \in LeaseIds \ {l} PROVE LeaseOK(m)'
    BY <2>1, <1>1, <1>7, <1>8, <1>14, MsgFacts, Keeps
  <2>3. LeaseOK(l)'
    BY <1>1, <1>5, <1>7, <1>14, Ended
  <2>4. Ordered(Append(back, Rel(l)), Active(cl), held)
    BY <1>4, MsgFacts, OrderedAppend DEF LInv
  <2>5. LTypes'
    BY <1>1, <1>2, <1>4, <1>14, <2>1 DEF LTypes
  <2> QED BY <2>2, <2>3, <2>4, <2>5, <1>9, <1>14 DEF LInv
<1>15. /\ \A x : back \o <<x>> = Append(back, x)
       /\ \A x, y : back \o <<x, y>> = Append(Append(back, x), y)
  BY <1>4
<1> QED BY <1>6, <1>11, <1>12, <1>13, <1>14, <1>15, MsgFacts DEF Lease!EdgeHearsAcquire, Lease!Reply

LEMMA EdgeHearsReleaseKeeps == ASSUME Parameters, LInv, Lease!EdgeHearsRelease PROVE LInv'
<1>1. /\ down # <<>> /\ down' = Tail(down) /\ Head(down).t = "release" /\ UNCHANGED <<up, cl, kept>>
  BY DEF Lease!EdgeHearsRelease
<1>2. /\ down' \in Seq(DownMsgs) /\ up /\ down[1] \in DownMsgs /\ Head(down) = down[1]
      /\ \A y : Has(down, y) <=> down[1] = y \/ Has(down, y)'
      /\ \A l \in LeaseIds : /\ Pending(down', l, cl[l] = "cancelled")
                             /\ down[1] = Give(l) => ~Has(down, Ask(l))'
  BY <1>1, Taken
<1>3. PICK l \in LeaseIds : down[1] = Give(l)
  BY <1>1, <1>2, MsgFacts
<1>4. LTypes /\ Hangup /\ LeaseOK(l) /\ Has(down, Give(l)) /\ back \in Seq(BackMsgs)
  BY <1>2, <1>3 DEF LInv, LTypes
<1>5. cl[l] # "new" /\ ~Has(down, Ask(l))'
  BY <1>2, <1>3, <1>4 DEF LeaseOK
<1>6. held' = (IF held = l THEN None ELSE held) /\ waiting' = waiting \ {l} /\ back' = Append(back, Rel(l))
  BY <1>2, <1>3, <1>4, MsgFacts DEF Lease!EdgeHearsRelease, Lease!Reply
<1>7. \A m \in LeaseIds : Pending(down, m, cl[m] = "cancelled")'
  BY <1>1, <1>2
<1>8. \A m \in LeaseIds \ {l} : /\ Has(down, Ask(m))' => Has(down, Ask(m))
                                /\ Has(down, Give(m))' <=> Has(down, Give(m))
  BY <1>2, <1>3, MsgFacts
<1>9. Hangup' /\ Active(cl') = Active(cl) /\ None \notin LeaseIds
  BY <1>1, <1>2 DEF Hangup, Parameters
<1>10. back' \in Seq(BackMsgs) /\ \A y : Has(back, y)' <=> Has(back, y) \/ y = Rel(l)
  BY <1>6, Told, MsgFacts
<1>11. ASSUME NEW m \in LeaseIds \ {l} PROVE LeaseOK(m)'
  BY <1>1, <1>6, <1>7, <1>8, <1>9, <1>10, MsgFacts, Keeps
<1>12. LeaseOK(l)'
  BY <1>1, <1>5, <1>6, <1>7, <1>9, Ended
<1>13. Ordered(Append(back, Rel(l)), Active(cl), held')
  BY <1>4, <1>6, <1>9, MsgFacts, OrderedAppend DEF LInv
<1>14. LTypes'
  BY <1>1, <1>2, <1>4, <1>6, <1>10 DEF LTypes
<1> QED BY <1>6, <1>9, <1>11, <1>12, <1>13, <1>14 DEF LInv

LEMMA EdgeGrantsKeeps == ASSUME Parameters, LInv, Lease!EdgeGrants PROVE LInv'
<1>1. up /\ held = None /\ UNCHANGED <<up, cl, down, kept>>
  BY DEF Lease!EdgeGrants
<1>2. PICK l \in waiting : held' = l /\ waiting' = waiting \ {l} /\ Lease!Reply(<<Lease!Msg("acquired", l)>>)
  BY DEF Lease!EdgeGrants
<1>3. LTypes /\ Hangup /\ l \in LeaseIds /\ back \in Seq(BackMsgs) /\ LeaseOK(l) /\ None \notin LeaseIds
  BY DEF LInv, LTypes, Parameters
<1>4. back' = Append(back, Acq(l))
  BY <1>2, <1>3, MsgFacts DEF Lease!Reply
<1>5. back' \in Seq(BackMsgs) /\ \A y : Has(back, y)' <=> Has(back, y) \/ y = Acq(l)
  BY <1>3, <1>4, Told, MsgFacts
<1>6. ASSUME NEW m \in LeaseIds \ {l} PROVE LeaseOK(m)'
  <2>1. Pending(down, m, cl[m] = "cancelled")'
    BY <1>1 DEF LInv, LeaseOK
  <2> QED BY <2>1, <1>1, <1>2, <1>5, MsgFacts, Keeps
<1>7. LeaseOK(l)'
  BY <1>1, <1>2, <1>3, <1>5, MsgFacts DEF LeaseOK, Silent
<1>8. Ordered(Append(back, Acq(l)), Active(cl), l)
  BY <1>1, <1>3, MsgFacts, OrderedAppend DEF LInv
<1>9. LTypes' /\ Hangup'
  BY <1>1, <1>2, <1>3, <1>5 DEF LTypes, Hangup
<1> QED BY <1>1, <1>2, <1>4, <1>6, <1>7, <1>8, <1>9 DEF LInv

LEMMA EdgeExpiresKeeps == ASSUME Parameters, LInv, Lease!EdgeExpires PROVE LInv'
<1>1. held # None /\ held' = None /\ UNCHANGED <<up, cl, down, waiting, kept>>
  BY DEF Lease!EdgeExpires
<1>2. PICK h \in LeaseIds : h = held
  BY <1>1 DEF LInv, LTypes
<1>3. LTypes /\ Hangup /\ back \in Seq(BackMsgs) /\ LeaseOK(h) /\ None \notin LeaseIds
  BY DEF LInv, LTypes, Parameters
<1>4. back' = IF up THEN Append(back, Rel(h)) ELSE back
  BY <1>2, MsgFacts DEF Lease!EdgeExpires
<1>5. back' \in Seq(BackMsgs) /\ \A y : Has(back, y)' => Has(back, y) \/ y = Rel(h)
  BY <1>3, <1>4, Told, MsgFacts
<1>6. ASSUME NEW m \in LeaseIds PROVE Pending(down, m, cl[m] = "cancelled")'
  BY <1>1 DEF LInv, LeaseOK
<1>7. ASSUME NEW m \in LeaseIds \ {h} PROVE LeaseOK(m)'
  BY <1>1, <1>3, <1>5, <1>6, MsgFacts, Keeps
<1>8. LeaseOK(h)'
  <2>1. cl[h] # "new" /\ ~Has(down, Ask(h)) /\ h \notin waiting
    BY <1>2, <1>3 DEF LeaseOK
  <2> QED BY <2>1, <1>1, <1>3, <1>6, Ended
<1>9. LTypes' /\ Hangup'
  BY <1>1, <1>3, <1>4, <1>5 DEF LTypes, Hangup
<1>10. Ordered(back', Active(cl), None)
  <2>1. CASE up
    BY <2>1, <1>2, <1>3, <1>4, MsgFacts, OrderedAppend DEF LInv
  <2>2. CASE ~up
    <3>1. back' = <<>> /\ Active(cl) = {}
      BY <2>2, <1>3, <1>4 DEF Hangup, Active, Gone
    <3> QED BY <3>1, EmptyFacts
  <2> QED BY <2>1, <2>2
<1> QED BY <1>1, <1>7, <1>8, <1>9, <1>10 DEF LInv

LEMMA DisconnectKeeps == ASSUME Parameters, LInv, Lease!Disconnect PROVE LInv'
<1>1. /\ up' = FALSE /\ down' = <<>> /\ back' = <<>> /\ waiting' = {} /\ held' \in {held, None}
      /\ cl' = [l \in LeaseIds |-> IF cl[l] = "new" THEN "new" ELSE "over"]
      /\ kept' = kept \cup ({held'} \ {None})
  BY DEF Lease!Disconnect
<1>2. LTypes /\ None \notin LeaseIds
  BY DEF LInv, Parameters
<1>3. LTypes' /\ Hangup'
  BY <1>1, <1>2, EmptyFacts DEF LTypes, Hangup, Lease!ClientStates, Gone
<1>4. Active(cl') = {}
  BY <1>1 DEF Active
<1>5. ASSUME NEW l \in LeaseIds PROVE LeaseOK(l)'
  BY <1>1, <1>2, EmptyFacts DEF LInv, LeaseOK, Silent
<1> QED BY <1>1, <1>3, <1>4, <1>5, EmptyFacts DEF LInv

LEMMA ReconnectKeeps == ASSUME Parameters, LInv, Lease!Reconnect PROVE LInv'
<1>1. up' = TRUE /\ UNCHANGED <<cl, down, back, held, waiting, kept>>
  BY DEF Lease!Reconnect
<1>2. LTypes' /\ Hangup' /\ \A l \in LeaseIds : LeaseOK(l)'
  BY <1>1 DEF LInv, LTypes, Hangup, LeaseOK, Silent
<1> QED BY <1>1, <1>2 DEF LInv, Active

LEMMA LeaseNextKeeps == ASSUME Parameters, LInv, Lease!LeaseNext PROVE LInv'
BY ClientHearsKeeps, DisconnectKeeps, ReconnectKeeps, EdgeHearsAcquireKeeps, EdgeHearsReleaseKeeps, EdgeGrantsKeeps,
   EdgeExpiresKeeps, AcquireTimeoutKeeps, ReleaseTimeoutKeeps DEF Lease!LeaseNext

-----------------------------------------------------------------------------
(* Comments and the ledger *)

Busy == Running
TaskRec == [pc : Running \cup {"idle", "preflight", "done"}, kind : Kinds, n : Notes \cup {None}, k : 1..2,
            ok : BOOLEAN, rec : BOOLEAN]
Com(l, n) == [t |-> "comment", l |-> l, n |-> n]
Comments(n) == {x \in DownMsgs : x.t = "comment" /\ x.n = n}
Receipts(n) == {x \in BackMsgs : x.t = "receipt" /\ x.n = n /\ x.r # "browsed"}
Posts(n) == {x \in Receipts(n) : x.r \in {"confirmed", "unconfirmed"}}

In(q, M) == \E i \in 1..Len(q) : q[i] \in M
AtMostOne(q, M) == \A i, j \in 1..Len(q) : q[i] \in M /\ q[j] \in M => i = j

TTypes ==
    /\ task \in [Tasks -> TaskRec] /\ running \in BOOLEAN /\ dedup \subseteq Notes /\ doubt \subseteq Notes
    /\ posted \in [Notes -> Nat]

\* A task that has chosen a note names it, and one past its grant does not ask for the lease again.
TaskOK(t) ==
    /\ task[t].pc \in {"approve", "commit", "posting", "record"} \/ task[t].rec => task[t].n \in Notes
    /\ task[t].kind = "targeted" /\ task[t].pc \notin {"idle", "done"} => task[t].n \in Notes
    /\ (task[t].kind = "targeted" /\ task[t].pc \in {"commit", "posting", "record"}) \/ task[t].rec => task[t].k = 2
    /\ task[t].rec => task[t].kind = "targeted" /\ task[t].pc \in {"release", "released", "record"}
    /\ task[t].pc \in {"work", "commit", "posting"} \/ (task[t].pc = "approve" /\ task[t].kind # "targeted") =>
          cl[LeaseOf(t)] \in {"active", "over"}

\* Two tasks at once leave every note in doubt.
Alone == \A t, u \in Tasks : t # u /\ task[t].pc \in Running /\ task[u].pc \in Running => Notes \subseteq doubt

ToRecord(x) == x.pc = "record" \/ (x.rec /\ x.pc \in {"release", "released"})
OnItsWay(t, n) ==
    task[t].n = n /\ (ToRecord(task[t]) \/ (task[t].pc = "posting" /\ In(back, Posts(n))))

\* What is true of a note whose comments the cloud has not lost count of.
Counted(n) ==
    /\ posted[n] <= 1
    /\ AtMostOne(down, Comments(n)) /\ AtMostOne(back, Receipts(n))
    /\ ~(In(down, Comments(n)) /\ In(back, Receipts(n)))
    /\ \A t \in Tasks, k \in 1..2 : Has(down, Com(<<t, k>>, n)) =>
          task[t].pc = "posting" /\ task[t].n = n /\ task[t].k = k /\ (held = <<t, k>> => posted[n] = 0)
    /\ In(back, Receipts(n)) => \E t \in Tasks : task[t].pc = "posting" /\ task[t].n = n
    /\ posted[n] # 0 => n \in dedup \/ \E t \in Tasks : OnItsWay(t, n)
    /\ \A t \in Tasks : task[t].pc \in {"approve", "commit"} /\ task[t].kind # "targeted" /\ task[t].n = n
                        /\ held = LeaseOf(t) => n \notin dedup

CInv == TTypes /\ LInv /\ (\A t \in Tasks : TaskOK(t)) /\ Alone /\ \A n \in Notes : n \notin doubt => Counted(n)

-----------------------------------------------------------------------------
(* Sets of messages on a channel *)

LEMMA InAppend ==
    ASSUME NEW S, NEW q \in Seq(S), NEW x \in S, NEW M
    PROVE  /\ In(Append(q, x), M) <=> In(q, M) \/ x \in M
           /\ AtMostOne(q, M) /\ (x \in M => ~In(q, M)) => AtMostOne(Append(q, x), M)
<1> DEFINE p == Append(q, x)
           n == Len(q)
<1>1. Len(p) = n + 1 /\ n \in Nat /\ (\A i \in 1..n : p[i] = q[i]) /\ p[n + 1] = x
  BY AppendFacts
<1> HIDE DEF p
<1>2. In(p, M) <=> In(q, M) \/ x \in M
  <2>1. ASSUME In(q, M) PROVE In(p, M)
    BY <1>1, <2>1 DEF In
  <2>2. ASSUME x \in M PROVE In(p, M)
    BY <1>1, <2>2 DEF In
  <2>3. ASSUME In(p, M), x \notin M PROVE In(q, M)
    BY <1>1, <2>3 DEF In
  <2> QED BY <2>1, <2>2, <2>3
<1>3. ASSUME AtMostOne(q, M), x \in M => ~In(q, M) PROVE AtMostOne(p, M)
  <2> SUFFICES ASSUME NEW i \in 1..Len(p), NEW j \in 1..Len(p), p[i] \in M, p[j] \in M PROVE i = j
    BY DEF AtMostOne
  <2>1. CASE i \in 1..n /\ j \in 1..n
    BY <2>1, <1>1, <1>3 DEF AtMostOne
  <2>2. CASE i = n + 1 \/ j = n + 1
    BY <2>2, <1>1, <1>3 DEF In
  <2> QED BY <2>1, <2>2, <1>1
<1> QED BY <1>2, <1>3 DEF p

LEMMA InTail ==
    ASSUME NEW S, NEW q \in Seq(S), q # <<>>, NEW M
    PROVE  /\ In(q, M) <=> q[1] \in M \/ In(Tail(q), M)
           /\ AtMostOne(q, M) => AtMostOne(Tail(q), M) /\ (q[1] \in M => ~In(Tail(q), M))
<1> DEFINE p == Tail(q)
           n == Len(q)
<1>1. n \in Nat \ {0} /\ Len(p) = n - 1 /\ \A i \in 1..Len(p) : p[i] = q[i + 1]
  BY TailFacts
<1> HIDE DEF p
<1>2. ASSUME In(q, M) PROVE q[1] \in M \/ In(p, M)
  <2>1. PICK i \in 1..n : q[i] \in M
    BY <1>2 DEF In
  <2>2. CASE i # 1
    <3>1. i - 1 \in 1..Len(p) /\ p[i - 1] = q[i]
      BY <1>1, <2>2
    <3> QED BY <3>1, <2>1 DEF In
  <2> QED BY <2>1, <2>2
<1>3. ASSUME q[1] \in M \/ In(p, M) PROVE In(q, M)
  BY <1>1, <1>3 DEF In
<1>4. ASSUME AtMostOne(q, M), NEW i \in 1..Len(p), NEW j \in 1..Len(p), p[i] \in M, p[j] \in M PROVE i = j
  <2>1. i + 1 \in 1..n /\ j + 1 \in 1..n /\ q[i + 1] \in M /\ q[j + 1] \in M
    BY <1>1, <1>4
  <2>2. i + 1 = j + 1
    BY <2>1, <1>4 DEF AtMostOne
  <2> QED BY <2>2
<1>5. ASSUME AtMostOne(q, M), q[1] \in M, NEW i \in 1..Len(p), p[i] \in M PROVE FALSE
  <2>1. i + 1 \in 1..n /\ 1 \in 1..n /\ q[i + 1] \in M
    BY <1>1, <1>5
  <2>2. i + 1 = 1
    BY <2>1, <1>5 DEF AtMostOne
  <2> QED BY <2>2
<1>6. AtMostOne(q, M) => AtMostOne(p, M)
  BY <1>4 DEF AtMostOne
<1>7. AtMostOne(q, M) /\ q[1] \in M => ~In(p, M)
  BY <1>5 DEF In
<1> QED BY <1>2, <1>3, <1>6, <1>7 DEF p

\* What a channel that moved messages of the lease only keeps of the others.
Same(p, q) == \A M : (\A l \in LeaseIds : {Acq(l), Rel(l), Ask(l), Give(l)} \cap M = {}) =>
                 (In(p, M) <=> In(q, M)) /\ (AtMostOne(q, M) => AtMostOne(p, M))

LEMMA SameMoves ==
    ASSUME NEW S, NEW q \in Seq(S)
    PROVE  /\ Same(q, q)
           /\ \A l \in LeaseIds : \A x \in S : x \in {Acq(l), Rel(l), Ask(l), Give(l)} => Same(Append(q, x), q)
           /\ \A l \in LeaseIds : q # <<>> /\ q[1] \in {Acq(l), Rel(l), Ask(l), Give(l)} => Same(Tail(q), q)
<1>1. Same(q, q)
  BY DEF Same
<1>2. ASSUME NEW l \in LeaseIds, NEW x \in S, x \in {Acq(l), Rel(l), Ask(l), Give(l)} PROVE Same(Append(q, x), q)
  <2> SUFFICES ASSUME NEW M, \A m \in LeaseIds : {Acq(m), Rel(m), Ask(m), Give(m)} \cap M = {}
               PROVE  (In(Append(q, x), M) <=> In(q, M)) /\ (AtMostOne(q, M) => AtMostOne(Append(q, x), M))
    BY DEF Same
  <2>1. x \notin M
    BY <1>2
  <2> QED BY <2>1, InAppend
<1>3. ASSUME NEW l \in LeaseIds, q # <<>>, q[1] \in {Acq(l), Rel(l), Ask(l), Give(l)} PROVE Same(Tail(q), q)
  <2> SUFFICES ASSUME NEW M, \A m \in LeaseIds : {Acq(m), Rel(m), Ask(m), Give(m)} \cap M = {}
               PROVE  (In(Tail(q), M) <=> In(q, M)) /\ (AtMostOne(q, M) => AtMostOne(Tail(q), M))
    BY DEF Same
  <2>1. q[1] \notin M
    BY <1>3
  <2> QED BY <2>1, <1>3, InTail
<1> QED BY <1>1, <1>2, <1>3

LEMMA OthersAreNotLease ==
    ASSUME NEW n
    PROVE  \A l \in LeaseIds : /\ {Acq(l), Rel(l), Ask(l), Give(l)} \cap Comments(n) = {}
                               /\ {Acq(l), Rel(l), Ask(l), Give(l)} \cap Receipts(n) = {}
                               /\ {Acq(l), Rel(l), Ask(l), Give(l)} \cap Posts(n) = {}
BY MsgFacts DEF Comments, Receipts, Posts

-----------------------------------------------------------------------------
(* What steps of the lease leave alone *)

Settled(l) == cl[l] \in {"active", "over"}
LeaseMoves == Lease!LeaseNext \/ \E l \in LeaseIds : Lease!acquire(l) \/ Lease!release(l)

LEMMA PushMoves ==
    ASSUME Parameters, LInv, NEW l \in LeaseIds, NEW m \in {"acquire", "release"}, down' \in {down, Lease!Push(m, l)}
    PROVE  Same(down', down)
<1>1. down \in Seq(DownMsgs) /\ Lease!Msg(m, l) \in DownMsgs /\ Lease!Msg(m, l) \in {Acq(l), Rel(l), Ask(l), Give(l)}
  BY MsgFacts DEF LInv, LTypes
<1>2. Same(down, down) /\ Same(Append(down, Lease!Msg(m, l)), down)
  BY <1>1, SameMoves
<1> QED BY <1>2 DEF Lease!Push

LEMMA SameTwice == ASSUME NEW p, NEW q, NEW r, Same(p, q), Same(q, r) PROVE Same(p, r)
BY DEF Same

\* Messages that are not about the lease stay on the channels, unless the connection is lost.
LEMMA MovesLeaseOnly ==
    ASSUME Parameters, LInv, LeaseMoves
    PROVE  \/ Same(down', down) /\ Same(back', back) /\ (up => up')
           \/ up /\ ~up' /\ down' = <<>> /\ back' = <<>>
<1>0. down \in Seq(DownMsgs) /\ back \in Seq(BackMsgs) /\ Same(down, down) /\ Same(back, back) /\ up \in BOOLEAN
  BY SameMoves DEF LInv, LTypes
<1>1. ASSUME NEW l \in LeaseIds, Lease!acquire(l) \/ Lease!acquireTimeout(l) \/ Lease!release(l) \/ Lease!releaseTimeout(l)
      PROVE  Same(down', down) /\ Same(back', back) /\ (up => up')
  <2>1. back' = back /\ up' = up /\ \E m \in {"acquire", "release"} : down' \in {down, Lease!Push(m, l)}
    BY <1>1 DEF Lease!acquire, Lease!acquireTimeout, Lease!release, Lease!releaseTimeout
  <2> QED BY <1>0, <2>1, PushMoves
<1>2. ASSUME Lease!ClientHears PROVE Same(down', down) /\ Same(back', back) /\ (up => up')
  <2>1. back # <<>> /\ back' = Tail(back) /\ up' = up /\ Head(back).t \in {"acquired", "released"}
    BY <1>2 DEF Lease!ClientHears
  <2>2. PICK l \in LeaseIds : back[1] \in {Acq(l), Rel(l)} /\ Head(back).l = l
    BY <2>1, Heard, MsgFacts
  <2>3. Same(back', back)
    BY <1>0, <2>1, <2>2, SameMoves
  <2>4. down' \in {down, Lease!Push("release", l)}
    BY <1>2, <2>2 DEF Lease!ClientHears, Lease!onAcquired, Lease!onReleased
  <2> QED BY <2>1, <2>3, <2>4, PushMoves
<1>3. ASSUME Lease!Disconnect PROVE up /\ ~up' /\ down' = <<>> /\ back' = <<>>
  BY <1>3 DEF Lease!Disconnect
<1>4. ASSUME Lease!Reconnect PROVE Same(down', down) /\ Same(back', back) /\ (up => up')
  BY <1>0, <1>4 DEF Lease!Reconnect
<1>5. ASSUME NEW l \in LeaseIds, NEW m \in LeaseIds
      PROVE  /\ Same(back \o <<Acq(l)>>, back) /\ Same(back \o <<Rel(l)>>, back)
             /\ Same(back \o <<Rel(m), Acq(l)>>, back)
  <2>1. /\ back \o <<Acq(l)>> = Append(back, Acq(l)) /\ back \o <<Rel(l)>> = Append(back, Rel(l))
        /\ back \o <<Rel(m), Acq(l)>> = Append(Append(back, Rel(m)), Acq(l))
    BY <1>0
  <2>2. Same(Append(back, Acq(l)), back) /\ Same(Append(back, Rel(l)), back) /\ Same(Append(back, Rel(m)), back)
    BY <1>0, SameMoves, MsgFacts
  <2>3. Append(back, Rel(m)) \in Seq(BackMsgs)
    BY <1>0, AppendFacts, MsgFacts
  <2>4. Same(Append(Append(back, Rel(m)), Acq(l)), Append(back, Rel(m)))
    BY <2>3, SameMoves, MsgFacts
  <2> QED BY <2>1, <2>2, <2>4, SameTwice
<1>6. ASSUME Lease!EdgeHearsAcquire \/ Lease!EdgeHearsRelease PROVE Same(down', down) /\ Same(back', back) /\ (up => up')
  <2>1. down # <<>> /\ down' = Tail(down) /\ up' = up /\ Head(down).t \in {"acquire", "release"}
    BY <1>6 DEF Lease!EdgeHearsAcquire, Lease!EdgeHearsRelease
  <2>2. PICK l \in LeaseIds : down[1] \in {Ask(l), Give(l)} /\ Head(down).l = l
    BY <2>1, Taken, MsgFacts
  <2>3. Same(down', down)
    BY <1>0, <2>1, <2>2, SameMoves
  <2>4. \/ back' = back \/ back' = back \o <<Acq(l)>> \/ back' = back \o <<Rel(l)>>
        \/ held \in LeaseIds /\ back' = back \o <<Rel(held), Acq(l)>>
    BY <1>6, <2>2, MsgFacts DEF Lease!EdgeHearsAcquire, Lease!EdgeHearsRelease, Lease!Reply, LInv, LTypes
  <2> QED BY <1>0, <1>5, <2>1, <2>3, <2>4
<1>7. ASSUME Lease!EdgeGrants \/ Lease!EdgeExpires PROVE Same(down', down) /\ Same(back', back) /\ (up => up')
  <2>1. down' = down /\ up' = up
    BY <1>7 DEF Lease!EdgeGrants, Lease!EdgeExpires
  <2>2. \/ back' = back \/ \E l \in LeaseIds : back' \in {back \o <<Acq(l)>>, Append(back, Rel(l))}
    <3>1. CASE Lease!EdgeGrants
      <4>1. PICK l \in waiting : back' = back \o <<Lease!Msg("acquired", l)>>
        BY <3>1 DEF Lease!EdgeGrants, Lease!Reply
      <4> QED BY <4>1, MsgFacts DEF LInv, LTypes
    <3>2. CASE Lease!EdgeExpires
      <4>1. held \in LeaseIds /\ back' \in {back, Append(back, Lease!Msg("released", held))}
        BY <3>2 DEF Lease!EdgeExpires, LInv, LTypes
      <4> QED BY <4>1, MsgFacts
    <3> QED BY <1>7, <3>1, <3>2
  <2>3. \A l \in LeaseIds : Same(Append(back, Rel(l)), back)
    BY <1>0, SameMoves, MsgFacts
  <2> QED BY <1>0, <1>5, <2>1, <2>2, <2>3
<1> QED BY <1>1, <1>2, <1>3, <1>4, <1>6, <1>7 DEF LeaseMoves, Lease!LeaseNext

\* A grant is not made again, and what was granted is active until it is over.
LEMMA GrantIsOnce ==
    ASSUME Parameters, LInv, Lease!LeaseNext, NEW l \in LeaseIds, Settled(l)
    PROVE  (held' = l => held = l) /\ Settled(l)'
<1>0. LTypes /\ ~Has(down, Ask(l)) /\ l \notin waiting /\ None \notin LeaseIds /\ l # None
  BY DEF LInv, LeaseOK, Settled, Parameters
<1>1. ASSUME NEW m \in LeaseIds, Lease!acquireTimeout(m) \/ Lease!releaseTimeout(m) PROVE held' = held /\ Settled(l)'
  <2>1. held' = held
    BY <1>1 DEF Lease!acquireTimeout, Lease!releaseTimeout
  <2>2. m # l
    BY <1>1 DEF Lease!acquireTimeout, Lease!releaseTimeout, Settled
  <2>3. cl'[l] = cl[l]
    BY <1>0, <1>1, <2>2 DEF LTypes, Lease!acquireTimeout, Lease!releaseTimeout, Lease!Set
  <2> QED BY <2>1, <2>3 DEF Settled
<1>2. ASSUME Lease!ClientHears PROVE held' = held /\ Settled(l)'
  <2>1. \/ cl' = [cl EXCEPT ![Head(back).l] = IF @ = "acquiring" THEN "active" ELSE @]
        \/ cl' = [cl EXCEPT ![Head(back).l] = IF @ \in {"acquiring", "active", "releasing", "cancelled"} THEN "over" ELSE @]
    BY <1>2 DEF Lease!ClientHears, Lease!onAcquired, Lease!onReleased
  <2>2. held' = held
    BY <1>2 DEF Lease!ClientHears
  <2> QED BY <1>0, <2>1, <2>2 DEF Settled, LTypes
<1>3. ASSUME Lease!Disconnect PROVE (held' = l => held = l) /\ Settled(l)'
  BY <1>0, <1>3 DEF Lease!Disconnect, Settled
<1>4. ASSUME Lease!Reconnect PROVE held' = held /\ Settled(l)'
  BY <1>4 DEF Lease!Reconnect, Settled
<1>5. ASSUME Lease!EdgeHearsAcquire PROVE (held' = l => held = l) /\ Settled(l)'
  <2>1. down # <<>> /\ down' = Tail(down) /\ Head(down).t = "acquire" /\ cl' = cl /\ held' \in {held, Head(down).l}
    BY <1>5 DEF Lease!EdgeHearsAcquire
  <2>2. Head(down) = Ask(Head(down).l) /\ Has(down, Head(down))
    BY <2>1, Taken, MsgFacts
  <2>3. Head(down).l # l
    BY <1>0, <2>2
  <2> QED BY <2>1, <2>3 DEF Settled
<1>6. ASSUME Lease!EdgeHearsRelease PROVE (held' = l => held = l) /\ Settled(l)'
  <2>1. held' \in {held, None} /\ cl' = cl
    BY <1>6 DEF Lease!EdgeHearsRelease
  <2> QED BY <1>0, <2>1 DEF Settled
<1>7. ASSUME Lease!EdgeGrants \/ Lease!EdgeExpires PROVE (held' = l => held = l) /\ Settled(l)'
  <2>1. held' \in waiting \cup {None} /\ cl' = cl
    BY <1>7 DEF Lease!EdgeGrants, Lease!EdgeExpires
  <2> QED BY <1>0, <2>1 DEF Settled
<1> QED BY <1>1, <1>2, <1>3, <1>4, <1>5, <1>6, <1>7 DEF Lease!LeaseNext

-----------------------------------------------------------------------------
(* Comments and receipts do not touch the lease *)

LEMMA SendKeepsLease ==
    ASSUME Parameters, LInv, up, NEW l \in LeaseIds, NEW n \in Notes,
           down' = Append(down, Com(l, n)), UNCHANGED <<up, cl, back, held, waiting, kept>>
    PROVE  LInv'
<1>1. Com(l, n) \in DownMsgs /\ \A m : Com(l, n) # Ask(m) /\ Com(l, n) # Give(m)
  BY DEF Com, Ask, Give, DownMsgs
<1>2. down' \in Seq(DownMsgs) /\ \A y : Has(down, y)' <=> Has(down, y) \/ y = Com(l, n)
  BY <1>1, Sending
<1>3. ASSUME NEW m \in LeaseIds PROVE LeaseOK(m)'
  <2>1. Pending(down, m, cl[m] = "cancelled")
    BY DEF LInv, LeaseOK
  <2>2. Pending(Append(down, Com(l, n)), m, cl[m] = "cancelled")
    BY <1>1, <2>1, Sending
  <2> QED BY <1>1, <1>2, <2>2, Keeps
<1>4. LTypes' /\ Hangup'
  BY <1>2 DEF LInv, LTypes, Hangup
<1> QED BY <1>3, <1>4 DEF LInv, Active

LEMMA EdgeCommentsKeepsLease ==
    ASSUME Parameters, LInv, down # <<>>, NEW l \in LeaseIds, NEW n \in Notes, down[1] = Com(l, n), down' = Tail(down),
           NEW x \in Receipts(n), back' = Append(back, x), UNCHANGED <<up, cl, held, waiting, kept>>
    PROVE  LInv'
<1>1. \A m : Com(l, n) # Ask(m) /\ Com(l, n) # Give(m)
  BY DEF Com, Ask, Give
<1>2. x \in BackMsgs /\ \A m : x # Acq(m) /\ x # Rel(m)
  BY DEF Receipts, Acq, Rel
<1>3. back' \in Seq(BackMsgs) /\ \A y : Has(back, y)' <=> Has(back, y) \/ y = x
  BY <1>2, Told
<1>4. /\ down' \in Seq(DownMsgs) /\ up /\ \A y : Has(down, y) <=> down[1] = y \/ Has(down, y)'
      /\ \A m \in LeaseIds : Pending(down', m, cl[m] = "cancelled")
  BY Taken
<1>5. ASSUME NEW m \in LeaseIds PROVE LeaseOK(m)'
  <2>1. Has(down, Ask(m))' <=> Has(down, Ask(m))
    BY <1>1, <1>4
  <2>2. Has(down, Give(m))' <=> Has(down, Give(m))
    BY <1>1, <1>4
  <2>3. (Has(back, Acq(m))' <=> Has(back, Acq(m))) /\ (Has(back, Rel(m))' <=> Has(back, Rel(m)))
    BY <1>2, <1>3
  <2> QED BY <1>4, <2>1, <2>2, <2>3, Keeps
<1>6. LTypes' /\ Hangup'
  BY <1>3, <1>4 DEF LInv, LTypes, Hangup
<1>7. Ordered(Append(back, x), Active(cl), held)
  BY <1>2, OrderedAppend DEF LInv, LTypes
<1> QED BY <1>5, <1>6, <1>7 DEF LInv, Active

LEMMA BrowsedKeepsLease ==
    ASSUME Parameters, LInv, up, NEW x \in BackMsgs, x.t = "receipt", back' = Append(back, x),
           UNCHANGED <<up, cl, down, held, waiting, kept>>
    PROVE  LInv'
<1>1. \A m : x # Acq(m) /\ x # Rel(m)
  BY MsgFacts
<1>2. back' \in Seq(BackMsgs) /\ \A y : Has(back, y)' <=> Has(back, y) \/ y = x
  BY Told
<1>3. ASSUME NEW m \in LeaseIds PROVE LeaseOK(m)'
  <2>1. Pending(down, m, cl[m] = "cancelled")'
    BY DEF LInv, LeaseOK
  <2> QED BY <1>1, <1>2, <2>1, Keeps
<1>4. LTypes' /\ Hangup'
  BY <1>2 DEF LInv, LTypes, Hangup
<1>5. Ordered(Append(back, x), Active(cl), held)
  BY <1>1, OrderedAppend DEF LInv, LTypes
<1> QED BY <1>3, <1>4, <1>5 DEF LInv, Active

LEMMA ReceiptKeepsLease ==
    ASSUME Parameters, LInv, back # <<>>, back[1].t = "receipt", back' = Tail(back),
           UNCHANGED <<up, cl, down, held, waiting, kept>>
    PROVE  LInv'
<1>1. /\ back' \in Seq(BackMsgs) /\ up
      /\ \A y : Has(back, y) <=> back[1] = y \/ Has(back, y)'
  BY Heard
<1>2. \A m : back[1] # Acq(m) /\ back[1] # Rel(m)
  BY MsgFacts
<1>3. ASSUME NEW m \in LeaseIds PROVE LeaseOK(m)'
  <2>1. Pending(down, m, cl[m] = "cancelled")'
    BY DEF LInv, LeaseOK
  <2> QED BY <1>1, <1>2, <2>1, Keeps
<1>4. LTypes' /\ Hangup'
  BY <1>1 DEF LInv, LTypes, Hangup
<1>5. Ordered(Tail(back), Active(cl), held)
  BY <1>2, OrderedTail DEF LInv, LTypes
<1> QED BY <1>3, <1>4, <1>5 DEF LInv, Active

-----------------------------------------------------------------------------
(* Steps that move no comment *)

\* The comments on a note and their receipts stay where they are.
Still(n) ==
    /\ In(down, Comments(n))' <=> In(down, Comments(n))
    /\ In(back, Receipts(n))' <=> In(back, Receipts(n))
    /\ In(back, Posts(n))' <=> In(back, Posts(n))
    /\ AtMostOne(down, Comments(n)) => AtMostOne(down, Comments(n))'
    /\ AtMostOne(back, Receipts(n)) => AtMostOne(back, Receipts(n))'
    /\ \A l : Has(down, Com(l, n))' <=> Has(down, Com(l, n))

LEMMA HasIn == \A q, y : Has(q, y) <=> In(q, {y})
BY DEF Has, In

LEMMA SameStill == ASSUME NEW n, Same(down', down), Same(back', back) PROVE Still(n)
<1>1. \A l, m : {Acq(m), Rel(m), Ask(m), Give(m)} \cap {Com(l, n)} = {}
  BY DEF Acq, Rel, Ask, Give, Com
<1>2. \A l : In(down', {Com(l, n)}) <=> In(down, {Com(l, n)})
  BY <1>1 DEF Same
<1>3. \A l : Has(down, Com(l, n))' <=> Has(down, Com(l, n))
  BY <1>2, HasIn
<1> QED BY <1>3, OthersAreNotLease DEF Same, Still

\* A note keeps its count while its comments stay where they are.
LEMMA CountedKept ==
    ASSUME CInv, NEW n \in Notes, Counted(n), posted'[n] = posted[n], n \in dedup => n \in dedup', Still(n),
           \A t \in Tasks : task[t].pc = "posting" /\ task[t].n = n =>
              task'[t] = task[t] /\ (held' = LeaseOf(t) => held = LeaseOf(t)),
           \A t \in Tasks : ToRecord(task[t]) /\ task[t].n = n => n \in dedup' \/ (ToRecord(task'[t]) /\ task'[t].n = n),
           \A t \in Tasks : task'[t].pc \in {"approve", "commit"} /\ task'[t].kind # "targeted" /\ task'[t].n = n
                            /\ held' = LeaseOf(t)' => n \notin dedup'
    PROVE  Counted(n)'
<1>1. /\ In(down, Comments(n))' <=> In(down, Comments(n))
      /\ In(back, Receipts(n))' <=> In(back, Receipts(n))
      /\ In(back, Posts(n))' <=> In(back, Posts(n))
      /\ AtMostOne(down, Comments(n)) => AtMostOne(down, Comments(n))'
      /\ AtMostOne(back, Receipts(n)) => AtMostOne(back, Receipts(n))'
  BY DEF Still
<1>2. \A l : Has(down, Com(l, n))' <=> Has(down, Com(l, n))
  BY DEF Still
<1>3. ASSUME NEW t \in Tasks, NEW k \in 1..2, Has(down, Com(<<t, k>>, n))'
      PROVE  task'[t].pc = "posting" /\ task'[t].n = n /\ task'[t].k = k /\ (held' = <<t, k>> => posted'[n] = 0)
  <2>1. task[t].pc = "posting" /\ task[t].n = n /\ task[t].k = k /\ (held = <<t, k>> => posted[n] = 0)
    BY <1>2, <1>3 DEF Counted
  <2> QED BY <2>1 DEF LeaseOf
<1>4. ASSUME posted'[n] # 0 PROVE n \in dedup' \/ \E t \in Tasks : OnItsWay(t, n)'
  <2>1. n \in dedup \/ \E t \in Tasks : OnItsWay(t, n)
    BY <1>4 DEF Counted
  <2>2. ASSUME NEW t \in Tasks, OnItsWay(t, n) PROVE n \in dedup' \/ OnItsWay(t, n)'
    BY <1>1, <2>2 DEF OnItsWay
  <2> QED BY <2>1, <2>2
<1>5. In(back, Receipts(n))' => \E t \in Tasks : task'[t].pc = "posting" /\ task'[t].n = n
  BY <1>1 DEF Counted
<1>6. posted'[n] <= 1 /\ AtMostOne(down, Comments(n))' /\ AtMostOne(back, Receipts(n))'
      /\ ~(In(down, Comments(n))' /\ In(back, Receipts(n))')
  BY <1>1 DEF Counted
<1> QED BY <1>3, <1>4, <1>5, <1>6 DEF Counted

\* A lost connection takes the comments with it, and the count of those that were under way.
LEMMA CountedCut ==
    ASSUME CInv, NEW n \in Notes, Counted(n), UNCHANGED <<posted, dedup, task>>, down' = <<>>, back' = <<>>,
           \A t \in Tasks : task[t].pc = "posting" => task[t].n # n,
           \A t \in Tasks : Settled(LeaseOf(t)) /\ held' = LeaseOf(t) => held = LeaseOf(t)
    PROVE  Counted(n)'
<1>1. \A M : ~In(<<>>, M) /\ AtMostOne(<<>>, M)
  BY DEF In, AtMostOne
<1>2. \A y : ~Has(<<>>, y)
  BY DEF Has
<1>3. ASSUME posted'[n] # 0 PROVE n \in dedup' \/ \E t \in Tasks : OnItsWay(t, n)'
  BY <1>3 DEF Counted, OnItsWay
<1>4. ASSUME NEW t \in Tasks, task'[t].pc \in {"approve", "commit"}, task'[t].kind # "targeted", task'[t].n = n, held' = LeaseOf(t)'
      PROVE  n \notin dedup'
  <2>1. Settled(LeaseOf(t)) /\ LeaseOf(t)' = LeaseOf(t)
    BY <1>4 DEF CInv, TaskOK, Settled, LeaseOf
  <2> QED BY <1>4, <2>1 DEF Counted
<1>5. posted'[n] <= 1
  BY DEF Counted
<1> QED BY <1>1, <1>2, <1>3, <1>4, <1>5 DEF Counted

-----------------------------------------------------------------------------
(* Steps of one task *)

\* What a step of t may do to its record and to the ledger, for the notes that are not in doubt after it.
MayBecome(t, r) ==
    /\ task' = [task EXCEPT ![t] = r] /\ posted' = posted /\ running' \in BOOLEAN
    /\ doubt \subseteq doubt' /\ doubt' \subseteq Notes
    /\ r.pc \in Running => task[t].pc \in Running \/ Notes \subseteq doubt' \/ \A u \in Tasks \ {t} : task[u].pc \notin Running
    /\ task[t].pc = "posting" => task[t].n \in doubt'
    /\ dedup' = dedup \/ (task[t].pc \in Running /\ task[t].n \in Notes /\ dedup' = dedup \cup {task[t].n})
    /\ \A n \in Notes \ doubt' : ToRecord(task[t]) /\ task[t].n = n => n \in dedup' \/ (ToRecord(r) /\ r.n = n)
    /\ \A n \in Notes \ doubt' :
          r.pc \in {"approve", "commit"} /\ r.kind # "targeted" /\ r.n = n /\ held' = <<t, r.k>> => n \notin dedup'

LEMMA OneTask ==
    ASSUME CInv, LInv', NEW t \in Tasks, NEW r \in TaskRec, MayBecome(t, r), TaskOK(t)',
           Same(down', down), Same(back', back),
           \A l \in LeaseIds : Settled(l) => (held' = l => held = l) /\ (Settled(l)' \/ l = LeaseOf(t))
    PROVE  CInv'
<1>0. TTypes /\ Alone /\ task' \in [Tasks -> TaskRec] /\ task'[t] = r /\ \A u \in Tasks \ {t} : task'[u] = task[u]
  BY DEF CInv, TTypes, MayBecome
<1>1. TTypes'
  BY <1>0 DEF TTypes, MayBecome
<1>2. \A u \in Tasks : LeaseOf(u) \in LeaseIds
  BY <1>0 DEF TTypes, TaskRec, LeaseOf, LeaseIds
<1>3. ASSUME NEW u \in Tasks \ {t} PROVE TaskOK(u)'
  <2>1. TaskOK(u) /\ task'[u] = task[u] /\ LeaseOf(u)' = LeaseOf(u) /\ LeaseOf(u) # LeaseOf(t)
    BY <1>0 DEF CInv, LeaseOf
  <2>2. Settled(LeaseOf(u)) => cl'[LeaseOf(u)] \in {"active", "over"}
    BY <2>1, <1>2 DEF Settled
  <2> HIDE DEF LeaseOf
  <2> QED BY <2>1, <2>2 DEF TaskOK, Settled
<1>4. Alone'
  BY <1>0 DEF Alone, MayBecome
<1>5. ASSUME NEW n \in Notes, n \notin doubt' PROVE Counted(n)'
  <2>1. n \notin doubt /\ Counted(n) /\ dedup \subseteq dedup' /\ posted' = posted /\ Still(n)
    BY <1>5, SameStill DEF CInv, MayBecome
  <2>2. ASSUME NEW u \in Tasks, task[u].pc = "posting", task[u].n = n
        PROVE  task'[u] = task[u] /\ (held' = LeaseOf(u) => held = LeaseOf(u))
    <3>1. u # t
      BY <1>5, <2>2 DEF MayBecome
    <3>2. Settled(LeaseOf(u))
      BY <2>2 DEF CInv, TaskOK, Settled
    <3> QED BY <1>0, <1>2, <3>1, <3>2
  <2>3. ASSUME NEW u \in Tasks, ToRecord(task[u]), task[u].n = n
        PROVE  n \in dedup' \/ (ToRecord(task'[u]) /\ task'[u].n = n)
    BY <1>0, <1>5, <2>3 DEF MayBecome
  <2>4. ASSUME NEW u \in Tasks, task'[u].pc \in {"approve", "commit"}, task'[u].kind # "targeted", task'[u].n = n,
               held' = LeaseOf(u)'
        PROVE  n \notin dedup'
    <3>1. CASE u = t
      BY <1>0, <1>5, <2>4, <3>1 DEF MayBecome, LeaseOf
    <3>2. CASE u # t
      <4>1. task'[u] = task[u] /\ LeaseOf(u)' = LeaseOf(u)
        BY <1>0, <3>2 DEF LeaseOf
      <4>2. Settled(LeaseOf(u))
        BY <2>4, <4>1 DEF CInv, TaskOK, Settled
      <4>3. held = LeaseOf(u)
        BY <1>2, <2>4, <4>1, <4>2
      <4>4. n \notin dedup
        BY <2>1, <2>4, <4>1, <4>3 DEF Counted
      <4>5. task[u].pc \in Running
        BY <2>4, <4>1 DEF Running
      <4>6. ~(task[t].pc \in Running)
        BY <2>1, <1>5, <3>2, <4>5, <1>0 DEF Alone
      <4> QED BY <4>4, <4>6 DEF MayBecome
    <3> QED BY <3>1, <3>2
  <2> HIDE DEF Counted, ToRecord, LeaseOf, Still
  <2> QED BY <2>1, <2>2, <2>3, <2>4, CountedKept
<1>6. \A u \in Tasks : TaskOK(u)'
  BY <1>3
<1> HIDE DEF TaskOK, Counted, Alone, TTypes, LInv
<1> QED BY <1>1, <1>4, <1>5, <1>6 DEF CInv

LEMMA LeaseStill == ASSUME LInv, UNCHANGED leaseVars PROVE LInv'
BY DEF leaseVars, LInv, LTypes, Hangup, LeaseOK, Silent, Active

\* A step of a task that leaves the lease alone.
LEMMA LocalStep ==
    ASSUME CInv, NEW t \in Tasks, NEW r \in TaskRec, MayBecome(t, r), TaskOK(t)', UNCHANGED leaseVars PROVE CInv'
<1>1. LInv'
  BY LeaseStill DEF CInv
<1>2. Same(down', down) /\ Same(back', back)
  BY SameMoves DEF leaseVars, CInv, LInv, LTypes
<1>3. \A l \in LeaseIds : Settled(l) => (held' = l => held = l) /\ Settled(l)'
  BY DEF leaseVars, Settled
<1> QED BY <1>1, <1>2, <1>3, OneTask

LEMMA TaskForms ==
    ASSUME NEW x \in TaskRec
    PROVE  /\ \A pc \in Running \cup {"idle", "preflight", "done"} :
                 /\ [x EXCEPT !.pc = pc] \in TaskRec
                 /\ [x EXCEPT !.pc = pc].pc = pc /\ [x EXCEPT !.pc = pc].n = x.n /\ [x EXCEPT !.pc = pc].k = x.k
                 /\ [x EXCEPT !.pc = pc].kind = x.kind /\ [x EXCEPT !.pc = pc].rec = x.rec
           /\ [Fresh EXCEPT !.pc = "done"] \in TaskRec /\ [Fresh EXCEPT !.pc = "done"].pc = "done"
           /\ [Fresh EXCEPT !.pc = "done"].rec = FALSE
<1>1. ASSUME NEW pc \in Running \cup {"idle", "preflight", "done"}
      PROVE  /\ [x EXCEPT !.pc = pc] \in TaskRec
             /\ [x EXCEPT !.pc = pc].pc = pc /\ [x EXCEPT !.pc = pc].n = x.n /\ [x EXCEPT !.pc = pc].k = x.k
             /\ [x EXCEPT !.pc = pc].kind = x.kind /\ [x EXCEPT !.pc = pc].rec = x.rec
  BY <1>1 DEF TaskRec
<1>2. Fresh \in TaskRec /\ Fresh.rec = FALSE
  BY DEF TaskRec, Fresh, Kinds
<1>3. [Fresh EXCEPT !.pc = "done"] \in TaskRec /\ [Fresh EXCEPT !.pc = "done"].pc = "done" /\ [Fresh EXCEPT !.pc = "done"].rec = FALSE
  BY <1>2 DEF TaskRec
<1> QED BY <1>1, <1>3

LEMMA TaskFacts ==
    ASSUME CInv, NEW t \in Tasks
    PROVE  /\ task[t] \in TaskRec /\ TaskOK(t) /\ task[t].pc \in Running \cup {"idle", "preflight", "done"}
           /\ task[t].kind \in Kinds /\ task[t].n \in Notes \cup {None} /\ task[t].k \in 1..2 /\ task[t].rec \in BOOLEAN
           /\ dedup \subseteq Notes /\ doubt \subseteq Notes /\ running \in BOOLEAN /\ LeaseOf(t) \in LeaseIds
BY DEF CInv, TTypes, TaskRec, LeaseOf, LeaseIds

\* A running task goes on with the note it has.
LEMMA GotoKeeps ==
    ASSUME CInv, NEW t \in Tasks, task[t].pc \in Running, NEW pc \in {"work", "commit", "release", "released", "record"},
           Goto(t, pc), UNCHANGED <<leaseVars, running, posted>>,
           doubt \subseteq doubt', doubt' \subseteq Notes, task[t].pc = "posting" => task[t].n \in doubt',
           dedup' = dedup \/ (task[t].n \in Notes /\ dedup' = dedup \cup {task[t].n}),
           pc \in {"commit", "record"} => task[t].n \in Notes /\ (task[t].kind = "targeted" => task[t].k = 2),
           pc \in {"work", "commit"} => Settled(LeaseOf(t)) /\ ~ToRecord(task[t]),
           \A n \in Notes \ doubt' : ToRecord(task[t]) /\ task[t].n = n =>
              n \in dedup' \/ pc = "record" \/ (task[t].rec /\ pc \in {"release", "released"}),
           task[t].rec => pc \in {"release", "released", "record"},
           \A n \in Notes \ doubt' : pc = "commit" /\ task[t].kind # "targeted" /\ task[t].n = n /\ held = LeaseOf(t) => n \notin dedup'
    PROVE  CInv'
<1>0. /\ task[t] \in TaskRec /\ TaskOK(t) /\ running \in BOOLEAN
      /\ pc \in Running \cup {"idle", "preflight", "done"} /\ pc \in Running
  BY TaskFacts DEF Running
<1>1. PICK r \in TaskRec : /\ task' = [task EXCEPT ![t] = r] /\ r.pc = pc /\ r.n = task[t].n /\ r.k = task[t].k
                           /\ r.kind = task[t].kind /\ r.rec = task[t].rec
  <2>1. PICK r : r = [task[t] EXCEPT !.pc = pc]
    OBVIOUS
  <2>2. task' = [task EXCEPT ![t] = r]
    BY <2>1 DEF Goto, CInv, TTypes
  <2>3. r \in TaskRec /\ r.pc = pc /\ r.n = task[t].n /\ r.k = task[t].k /\ r.kind = task[t].kind /\ r.rec = task[t].rec
    BY <1>0, <2>1, TaskForms
  <2> QED BY <2>2, <2>3
<1>2. MayBecome(t, r)
  BY <1>0, <1>1 DEF MayBecome, ToRecord, LeaseOf, leaseVars
<1>3. TaskOK(t)'
  <2>1. task'[t] = r /\ LeaseOf(t)' = LeaseOf(t) /\ cl' = cl
    BY <1>1 DEF CInv, TTypes, LeaseOf, leaseVars
  <2> QED BY <1>0, <1>1, <2>1 DEF TaskOK, Settled, ToRecord, Running
<1> QED BY <1>1, <1>2, <1>3, LocalStep

\* A task ends.
LEMMA FinishKeeps ==
    ASSUME CInv, NEW t \in Tasks, task[t].pc \in Running, task[t].pc # "posting", Finish(t), UNCHANGED <<leaseVars, posted>>,
           doubt \subseteq doubt', doubt' \subseteq Notes,
           dedup' = dedup \/ (task[t].n \in Notes /\ dedup' = dedup \cup {task[t].n}),
           \A n \in Notes \ doubt' : ToRecord(task[t]) /\ task[t].n = n => n \in dedup'
    PROVE  CInv'
<1>1. PICK r \in TaskRec : task' = [task EXCEPT ![t] = r] /\ r.pc = "done" /\ r.rec = FALSE
  BY TaskFacts, TaskForms DEF Finish
<1>2. MayBecome(t, r)
  BY <1>1 DEF MayBecome, Finish, Running
<1>3. TaskOK(t)'
  <2>1. task'[t] = r
    BY <1>1 DEF CInv, TTypes
  <2> QED BY <1>1, <2>1 DEF TaskOK
<1> QED BY <1>1, <1>2, <1>3, LocalStep

\* A task starts.
LEMMA StartKeeps ==
    ASSUME CInv, NEW t \in Tasks, task[t].pc \in {"idle", "preflight"}, NEW kind \in Kinds, NEW n \in Notes \cup {None},
           kind = "targeted" => n \in Notes, Start(t, kind, n)
    PROVE  CInv'
<1>1. PICK r : r = [Fresh EXCEPT !.pc = "acquire", !.kind = kind, !.n = n]
  OBVIOUS
<1>2. r \in TaskRec /\ r.pc = "acquire" /\ r.kind = kind /\ r.n = n /\ r.rec = FALSE /\ task' = [task EXCEPT ![t] = r]
  <2>1. r = [pc |-> "acquire", kind |-> kind, n |-> n, k |-> 1, ok |-> FALSE, rec |-> FALSE]
    BY <1>1 DEF Fresh
  <2>2. r \in TaskRec
    BY <2>1 DEF TaskRec, Running
  <2>3. task' = [task EXCEPT ![t] = r]
    BY <1>1 DEF Start
  <2> QED BY <2>1, <2>2, <2>3
<1>3. doubt \subseteq Notes /\ ~ToRecord(task[t]) /\ task[t].pc # "posting"
  BY TaskFacts DEF ToRecord
<1>4. MayBecome(t, r)
  BY <1>2, <1>3 DEF MayBecome, Start
<1>5. TaskOK(t)'
  <2>1. task'[t] = r
    BY <1>2 DEF CInv, TTypes
  <2> QED BY <1>2, <2>1 DEF TaskOK
<1> QED BY <1>2, <1>4, <1>5, LocalStep DEF Start

LEMMA TriggerKeeps ==
    ASSUME Parameters, CInv, NEW t \in Tasks,
           triggerForMode(t) \/ triggerManual(t) \/ triggerTargeted(t) \/ StartAfterPreflight(t)
    PROVE  CInv'
<1>0. task[t] \in TaskRec /\ TaskOK(t) /\ task[t].kind \in Kinds /\ task[t].n \in Notes \cup {None} /\ KindsOf[t] \subseteq Kinds
      /\ doubt \subseteq Notes /\ running \in BOOLEAN
  BY TaskFacts DEF Parameters
<1>1. CASE triggerForMode(t)
  BY <1>1, StartKeeps DEF triggerForMode, Kinds
<1>2. CASE StartAfterPreflight(t)
  BY <1>0, <1>2, StartKeeps DEF StartAfterPreflight, TaskOK
<1>3. CASE triggerManual(t)
  <2>0. PICK kind \in Kinds \ {"targeted"} : task' = [task EXCEPT ![t].pc = "preflight", ![t].kind = kind]
    BY <1>0, <1>3 DEF triggerManual
  <2>2. PICK r : r = [task[t] EXCEPT !.pc = "preflight", !.kind = kind]
    OBVIOUS
  <2>1. task' = [task EXCEPT ![t] = r]
    BY <2>0, <2>2 DEF CInv, TTypes
  <2>3. r \in TaskRec /\ r.pc = "preflight" /\ r.kind = kind /\ r.rec = FALSE /\ ~ToRecord(task[t])
    BY <1>0, <1>3, <2>2 DEF TaskRec, TaskOK, ToRecord, triggerManual
  <2>4. MayBecome(t, r)
    BY <1>0, <1>3, <2>1, <2>2, <2>3 DEF MayBecome, triggerManual, Running
  <2>5. TaskOK(t)'
    <3>1. task'[t] = r
      BY <2>1, <2>2 DEF CInv, TTypes
    <3> QED BY <2>3, <3>1 DEF TaskOK
  <2> QED BY <1>3, <2>3, <2>4, <2>5, LocalStep DEF triggerManual
<1>4. CASE triggerTargeted(t)
  <2>0. PICK n \in Notes : task' = [task EXCEPT ![t].pc = "preflight", ![t].kind = "targeted", ![t].n = n]
    BY <1>4 DEF triggerTargeted
  <2>2. PICK r : r = [task[t] EXCEPT !.pc = "preflight", !.kind = "targeted", !.n = n]
    OBVIOUS
  <2>1. task' = [task EXCEPT ![t] = r]
    BY <2>0, <2>2 DEF CInv, TTypes
  <2>3. r \in TaskRec /\ r.pc = "preflight" /\ r.n = n /\ r.rec = FALSE /\ ~ToRecord(task[t])
    BY <1>0, <1>4, <2>2 DEF TaskRec, TaskOK, ToRecord, triggerTargeted, Kinds
  <2>4. MayBecome(t, r)
    BY <1>0, <1>4, <2>1, <2>2, <2>3 DEF MayBecome, triggerTargeted, Running
  <2>5. TaskOK(t)'
    <3>1. task'[t] = r
      BY <2>1, <2>2 DEF CInv, TTypes
    <3> QED BY <2>3, <3>1 DEF TaskOK
  <2> QED BY <1>4, <2>3, <2>4, <2>5, LocalStep DEF triggerTargeted
<1> QED BY <1>1, <1>2, <1>3, <1>4

\* A task under its lease: granted or refused, it finds a note, prepares its target or gives up.
LEMMA WorkKeeps ==
    ASSUME CInv, NEW t \in Tasks, Granted(t) \/ SearchAndRead(t) \/ OpenPost(t) \/ PrepareTarget(t) PROVE CInv'
<1>0. task[t] \in TaskRec /\ TaskOK(t) /\ doubt \subseteq Notes /\ running \in BOOLEAN /\ dedup \subseteq Notes
  BY TaskFacts
<1>1. CASE Granted(t)
  <2>0. task[t].pc = "wait" /\ ~ToRecord(task[t]) /\ ~task[t].rec /\ UNCHANGED <<leaseVars, running, dedup, posted, doubt>>
    BY <1>0, <1>1 DEF Granted, TaskOK, ToRecord
  <2>1. CASE cl[LeaseOf(t)] = "active" /\ Goto(t, "commit") /\ task[t].kind = "targeted" /\ task[t].k = 2
    BY <1>0, <2>0, <2>1, GotoKeeps DEF Running, TaskOK, Settled
  <2>2. CASE cl[LeaseOf(t)] = "active" /\ Goto(t, "work")
    BY <1>0, <2>0, <2>2, GotoKeeps DEF Running, Settled
  <2>3. CASE Goto(t, "released")
    BY <1>0, <2>0, <2>3, GotoKeeps DEF Running
  <2> QED BY <1>1, <2>1, <2>2, <2>3 DEF Granted
<1>2. ASSUME task[t].pc = "work", GiveUp(t), UNCHANGED <<leaseVars, running, dedup, posted>> PROVE CInv'
  BY <1>0, <1>2, GotoKeeps DEF GiveUp, Running, TaskOK, ToRecord
<1>3. ASSUME task[t].pc = "work", task[t].kind # "targeted", NEW n \in Notes, Choose(t, n),
             UNCHANGED <<leaseVars, running, dedup, posted>>
      PROVE  CInv'
  <2>1. PICK r : r = [task[t] EXCEPT !.pc = "approve", !.n = n]
    OBVIOUS
  <2>2. /\ r \in TaskRec /\ r.pc = "approve" /\ r.n = n /\ r.kind = task[t].kind /\ r.k = task[t].k
        /\ r.rec = task[t].rec
    BY <1>0, <2>1 DEF TaskRec, Running
  <2>3. task' = [task EXCEPT ![t] = r]
    BY <1>3, <2>1 DEF Choose, CInv, TTypes
  <2>4. ~task[t].rec /\ ~ToRecord(task[t]) /\ Settled(LeaseOf(t))
    BY <1>0, <1>3 DEF TaskOK, ToRecord, Settled
  <2>5. doubt' = IF n \in dedup THEN doubt \cup {n} ELSE doubt
    BY <1>3 DEF Choose
  <2>6. MayBecome(t, r)
    BY <1>0, <1>3, <2>2, <2>3, <2>4, <2>5 DEF MayBecome, Running
  <2>7. TaskOK(t)'
    <3>1. task'[t] = r /\ LeaseOf(t)' = LeaseOf(t) /\ cl' = cl
      BY <1>3, <2>2, <2>3 DEF CInv, TTypes, LeaseOf, leaseVars
    <3> QED BY <1>3, <2>2, <2>4, <3>1 DEF TaskOK, Settled
  <2> QED BY <1>3, <2>2, <2>6, <2>7, LocalStep
<1>4. CASE SearchAndRead(t)
  BY <1>2, <1>3, <1>4 DEF SearchAndRead, Unseen
<1>5. CASE OpenPost(t)
  BY <1>2, <1>3, <1>5 DEF OpenPost
<1>6. CASE PrepareTarget(t)
  <2>0. task[t].pc = "work" /\ ~task[t].rec /\ ~ToRecord(task[t]) /\ UNCHANGED <<leaseVars, running, dedup, posted, doubt>>
    BY <1>0, <1>6 DEF PrepareTarget, TaskOK, ToRecord
  <2>1. CASE Goto(t, "release")
    BY <1>2, <2>0, <2>1 DEF GiveUp
  <2>2. CASE task' = [task EXCEPT ![t].pc = "release", ![t].ok = TRUE]
    <3>1. PICK r : r = [task[t] EXCEPT !.pc = "release", !.ok = TRUE]
      OBVIOUS
    <3>2. /\ r \in TaskRec /\ r.pc = "release" /\ r.n = task[t].n /\ r.kind = task[t].kind /\ r.k = task[t].k
          /\ r.rec = task[t].rec
      BY <1>0, <3>1 DEF TaskRec, Running
    <3>3. task' = [task EXCEPT ![t] = r]
      BY <2>2, <3>1 DEF CInv, TTypes
    <3>4. MayBecome(t, r)
      BY <1>0, <2>0, <3>2, <3>3 DEF MayBecome, Running
    <3>5. TaskOK(t)'
      <4>1. task'[t] = r
        BY <3>3 DEF CInv, TTypes
      <4> QED BY <1>0, <2>0, <3>2, <4>1 DEF TaskOK
    <3> QED BY <2>0, <3>2, <3>4, <3>5, LocalStep
  <2> QED BY <1>6, <2>1, <2>2 DEF PrepareTarget
<1> QED BY <1>1, <1>4, <1>5, <1>6

\* Approval, with the lease or, of a targeted task, without it.
LEMMA ApprovalKeeps ==
    ASSUME CInv, NEW t \in Tasks, ComposeAndApprove(t) \/ approveFacebookComment(t) PROVE CInv'
<1>0. /\ task[t] \in TaskRec /\ TaskOK(t) /\ doubt \subseteq Notes /\ running \in BOOLEAN /\ dedup \subseteq Notes
      /\ task[t].pc = "approve" /\ UNCHANGED <<leaseVars, dedup, posted, doubt>>
  BY TaskFacts DEF ComposeAndApprove, approveFacebookComment
<1>1. ~task[t].rec /\ ~ToRecord(task[t]) /\ task[t].n \in Notes /\ (task[t].kind # "targeted" => Settled(LeaseOf(t)))
  BY <1>0 DEF TaskOK, ToRecord, Settled
<1>2. CASE Goto(t, "release") /\ UNCHANGED running
  BY <1>0, <1>1, <1>2, GotoKeeps DEF Running
<1>3. CASE task[t].kind # "targeted" /\ Goto(t, "commit") /\ UNCHANGED running
  <2>1. ASSUME NEW n \in Notes \ doubt', task[t].n = n, held = LeaseOf(t) PROVE n \notin dedup'
    BY <1>0, <1>3, <2>1 DEF CInv, Counted
  <2> QED BY <1>0, <1>1, <1>3, <2>1, GotoKeeps DEF Running
<1>4. CASE Finish(t)
  BY <1>0, <1>1, <1>4, FinishKeeps DEF Running
<1>5. CASE task[t].kind = "targeted" /\ task' = [task EXCEPT ![t].pc = "acquire", ![t].k = 2] /\ UNCHANGED running
  <2>1. PICK r : r = [task[t] EXCEPT !.pc = "acquire", !.k = 2]
    OBVIOUS
  <2>2. r \in TaskRec /\ r.pc = "acquire" /\ r.n = task[t].n /\ r.kind = task[t].kind /\ r.rec = task[t].rec
    <3>1. 2 \in 1..2 /\ "acquire" \in Running
      BY DEF Running
    <3> QED BY ONLY <3>1, <1>0, <2>1 DEF TaskRec
  <2>3. task' = [task EXCEPT ![t] = r]
    BY <1>5, <2>1 DEF CInv, TTypes
  <2>4. MayBecome(t, r)
    BY <1>0, <1>1, <1>5, <2>2, <2>3 DEF MayBecome, Running
  <2>5. TaskOK(t)'
    <3>1. task'[t] = r
      BY <2>3 DEF CInv, TTypes
    <3> QED BY <1>1, <2>2, <3>1 DEF TaskOK
  <2> QED BY <1>0, <2>2, <2>4, <2>5, LocalStep
<1> QED BY <1>2, <1>3, <1>4, <1>5 DEF ComposeAndApprove, approveFacebookComment

\* A task that waits for the receipt no longer, records its comment, or has released its lease.
LEMMA EndKeeps ==
    ASSUME CInv, NEW t \in Tasks, PostTimeout(t) \/ Record(t) \/ Released(t) \/ EndsBeforeLease(t) PROVE CInv'
<1>0. /\ task[t] \in TaskRec /\ TaskOK(t) /\ doubt \subseteq Notes /\ running \in BOOLEAN /\ dedup \subseteq Notes
      /\ UNCHANGED <<leaseVars, posted>>
  BY TaskFacts DEF PostTimeout, Record, Released, EndsBeforeLease
<1>1. CASE PostTimeout(t)
  <2>1. task[t].pc = "posting" /\ ~task[t].rec /\ ~ToRecord(task[t]) /\ task[t].n \in Notes /\ doubt' = doubt \cup {task[t].n}
        /\ Goto(t, "release") /\ UNCHANGED <<running, dedup>>
    BY <1>0, <1>1 DEF TaskOK, ToRecord, PostTimeout
  <2> QED BY <1>0, <2>1, GotoKeeps DEF Running
<1>2. CASE EndsBeforeLease(t)
  <2>1. task[t].pc = "acquire" /\ ~task[t].rec /\ ~ToRecord(task[t]) /\ Finish(t) /\ UNCHANGED <<dedup, doubt>>
    BY <1>0, <1>2 DEF TaskOK, ToRecord, EndsBeforeLease
  <2> QED BY <1>0, <2>1, FinishKeeps DEF Running
<1>3. CASE Record(t)
  <2>1. /\ task[t].pc = "record" /\ task[t].n \in Notes
        /\ \/ dedup' = dedup \cup {task[t].n} /\ UNCHANGED doubt
           \/ UNCHANGED dedup /\ doubt' = doubt \cup {task[t].n}
    BY <1>0, <1>3 DEF TaskOK, Record
  <2>2. doubt \subseteq doubt' /\ doubt' \subseteq Notes /\ \A n \in Notes \ doubt' : task[t].n = n => n \in dedup'
    BY <1>0, <2>1
  <2>3. CASE Finish(t)
    BY <1>0, <2>1, <2>2, <2>3, FinishKeeps DEF Running
  <2>4. CASE Goto(t, "release") /\ UNCHANGED running
    BY <1>0, <2>1, <2>2, <2>4, GotoKeeps DEF Running
  <2> QED BY <1>3, <2>3, <2>4 DEF Record
<1>4. CASE Released(t)
  <2>1. task[t].pc = "released" /\ UNCHANGED <<dedup, doubt>>
    BY <1>4 DEF Released
  <2>2. CASE task[t].rec /\ Goto(t, "record") /\ UNCHANGED running
    <3>1. task[t].kind = "targeted" /\ task[t].k = 2 /\ task[t].n \in Notes
      BY <1>0, <2>2 DEF TaskOK
    <3> QED BY <1>0, <2>1, <2>2, <3>1, GotoKeeps DEF Running
  <2>3. CASE ~task[t].rec /\ Finish(t)
    BY <1>0, <2>1, <2>3, FinishKeeps DEF Running, ToRecord
  <2>4. CASE task[t].kind = "targeted" /\ task[t].k = 1 /\ task' = [task EXCEPT ![t].pc = "approve"] /\ UNCHANGED running
    <3>0. ~task[t].rec /\ ~ToRecord(task[t]) /\ task[t].n \in Notes
      BY <1>0, <2>1, <2>4 DEF TaskOK, ToRecord
    <3>1. PICK r : r = [task[t] EXCEPT !.pc = "approve"]
      OBVIOUS
    <3>2. r \in TaskRec /\ r.pc = "approve" /\ r.n = task[t].n /\ r.kind = "targeted" /\ ~r.rec
      <4>1. "approve" \in Running
        BY DEF Running
      <4> QED BY <1>0, <2>4, <3>0, <3>1, <4>1, TaskForms
    <3>3. task' = [task EXCEPT ![t] = r]
      BY <2>4, <3>1 DEF CInv, TTypes
    <3>4. MayBecome(t, r)
      BY <1>0, <2>1, <2>4, <3>0, <3>2, <3>3 DEF MayBecome, Running
    <3>5. TaskOK(t)'
      <4>1. task'[t] = r
        BY <3>3 DEF CInv, TTypes
      <4> QED BY <3>0, <3>2, <4>1 DEF TaskOK
    <3> QED BY <1>0, <3>2, <3>4, <3>5, LocalStep
  <2> QED BY <1>4, <2>2, <2>3, <2>4 DEF Released
<1> QED BY <1>1, <1>2, <1>3, <1>4

-----------------------------------------------------------------------------
(* Steps of the lease *)

\* A task asks for its lease.
LEMMA AcquireStep == ASSUME Parameters, CInv, NEW t \in Tasks, Acquire(t) PROVE CInv'
<1>0. /\ task[t] \in TaskRec /\ TaskOK(t) /\ doubt \subseteq Notes /\ running \in BOOLEAN /\ LeaseOf(t) \in LeaseIds
      /\ task[t].pc = "acquire" /\ Lease!acquire(LeaseOf(t)) /\ Goto(t, "wait") /\ UNCHANGED <<running, dedup, posted, doubt>>
  BY TaskFacts DEF Acquire
<1>1. ~task[t].rec /\ ~ToRecord(task[t])
  BY <1>0 DEF TaskOK, ToRecord
<1>2. PICK r : r = [task[t] EXCEPT !.pc = "wait"]
  OBVIOUS
<1>3. r \in TaskRec /\ r.pc = "wait" /\ r.n = task[t].n /\ r.kind = task[t].kind /\ ~r.rec
  <2>1. "wait" \in Running
    BY DEF Running
  <2> QED BY <1>0, <1>1, <1>2, <2>1, TaskForms
<1>4. task' = [task EXCEPT ![t] = r]
  BY <1>0, <1>2 DEF Goto, CInv, TTypes
<1>5. MayBecome(t, r)
  BY <1>0, <1>1, <1>3, <1>4 DEF MayBecome, Running
<1>6. TaskOK(t)'
  <2>1. task'[t] = r
    BY <1>4 DEF CInv, TTypes
  <2> QED BY <1>0, <1>3, <2>1 DEF TaskOK
<1>7. LInv'
  BY <1>0, AcquireKeeps DEF CInv
<1>8. Same(down', down) /\ Same(back', back)
  <2>1. up' = up
    BY <1>0 DEF Lease!acquire
  <2> QED BY <1>0, <2>1, MovesLeaseOnly DEF CInv, LeaseMoves
<1>9. ASSUME NEW l \in LeaseIds, Settled(l) PROVE (held' = l => held = l) /\ Settled(l)'
  <2>1. held' = held /\ l # LeaseOf(t) /\ cl' = [cl EXCEPT ![LeaseOf(t)] = cl'[LeaseOf(t)]]
    BY <1>0, <1>9 DEF Lease!acquire, Lease!Set, Settled, CInv, LInv, LTypes
  <2> QED BY <1>9, <2>1 DEF Settled, CInv, LInv, LTypes
<1> QED BY <1>3, <1>5, <1>6, <1>7, <1>8, <1>9, OneTask

\* A task gives its lease back, if it has it still.
LEMMA ReleaseStep == ASSUME Parameters, CInv, NEW t \in Tasks, Release(t) PROVE CInv'
<1>0. /\ task[t] \in TaskRec /\ TaskOK(t) /\ doubt \subseteq Notes /\ running \in BOOLEAN /\ LeaseOf(t) \in LeaseIds
      /\ task[t].pc = "release" /\ Goto(t, "released") /\ UNCHANGED <<running, dedup, posted, doubt>>
  BY TaskFacts DEF Release
<1>1. CASE UNCHANGED leaseVars
  BY <1>0, <1>1, GotoKeeps DEF Running, ToRecord
<1>2. CASE Lease!release(LeaseOf(t))
  <2>2. PICK r : r = [task[t] EXCEPT !.pc = "released"]
    OBVIOUS
  <2>3. r \in TaskRec /\ r.pc = "released" /\ r.n = task[t].n /\ r.kind = task[t].kind /\ r.k = task[t].k /\ r.rec = task[t].rec
    <3>1. "released" \in Running
      BY DEF Running
    <3> QED BY <1>0, <2>2, <3>1, TaskForms
  <2>4. task' = [task EXCEPT ![t] = r]
    BY <1>0, <2>2 DEF Goto, CInv, TTypes
  <2>5. MayBecome(t, r)
    BY <1>0, <2>3, <2>4 DEF MayBecome, Running, ToRecord
  <2>6. TaskOK(t)'
    <3>1. task'[t] = r
      BY <2>4 DEF CInv, TTypes
    <3> QED BY <1>0, <2>3, <3>1 DEF TaskOK
  <2>7. LInv'
    BY <1>0, <1>2, ReleaseKeeps DEF CInv
  <2>8. Same(down', down) /\ Same(back', back)
    <3>1. up' = up
      BY <1>2 DEF Lease!release
    <3> QED BY <1>0, <1>2, <3>1, MovesLeaseOnly DEF CInv, LeaseMoves
  <2>9. ASSUME NEW l \in LeaseIds, Settled(l) PROVE (held' = l => held = l) /\ (Settled(l)' \/ l = LeaseOf(t))
    <3>1. held' = held /\ (l # LeaseOf(t) => cl'[l] = cl[l])
      BY <1>0, <1>2 DEF Lease!release, Lease!Set, CInv, LInv, LTypes
    <3> QED BY <2>9, <3>1 DEF Settled
  <2> QED BY <2>3, <2>5, <2>6, <2>7, <2>8, <2>9, OneTask
<1> QED BY <1>0, <1>1, <1>2 DEF Release

\* The edge and its connection.
LEMMA ConnectionKeeps == ASSUME Parameters, CInv, Connection PROVE CInv'
<1>0. /\ TTypes /\ LInv /\ LInv' /\ Lease!LeaseNext /\ UNCHANGED <<task, running, dedup, posted>>
      /\ doubt' = IF up /\ ~up' THEN doubt \cup {task[t].n : t \in {u \in Tasks : task[u].pc = "posting"}} ELSE doubt
  BY LeaseNextKeeps DEF CInv, Connection
<1>1. \A t \in Tasks : task[t].pc = "posting" => task[t].n \in Notes
  BY DEF CInv, TaskOK
<1>2. TTypes' /\ doubt \subseteq doubt'
  BY <1>0, <1>1 DEF TTypes
<1>3. ASSUME NEW l \in LeaseIds, Settled(l) PROVE (held' = l => held = l) /\ Settled(l)'
  BY <1>0, <1>3, GrantIsOnce
<1>4. ASSUME NEW t \in Tasks PROVE LeaseOf(t)' = LeaseOf(t) /\ LeaseOf(t) \in LeaseIds
  BY <1>0, TaskFacts DEF LeaseOf
<1>5. ASSUME NEW t \in Tasks PROVE TaskOK(t)'
  <2>1. TaskOK(t) /\ task'[t] = task[t] /\ (Settled(LeaseOf(t)) => cl'[LeaseOf(t)] \in {"active", "over"})
    BY <1>0, <1>3, <1>4 DEF CInv, Settled
  <2> HIDE DEF LeaseOf
  <2> QED BY <1>4, <2>1 DEF TaskOK, Settled
<1>6. Alone'
  BY <1>0, <1>2 DEF CInv, Alone
<1>7. ASSUME NEW n \in Notes, n \notin doubt' PROVE Counted(n)'
  <2>0. n \notin doubt /\ Counted(n)
    BY <1>2, <1>7 DEF CInv
  <2>1. CASE up /\ ~up' /\ down' = <<>> /\ back' = <<>>
    <3>1. \A t \in Tasks : task[t].pc = "posting" => task[t].n # n
      BY <1>0, <1>7, <2>1
    <3>2. \A t \in Tasks : Settled(LeaseOf(t)) /\ held' = LeaseOf(t) => held = LeaseOf(t)
      BY <1>3, <1>4
    <3> QED BY <1>0, <2>0, <2>1, <3>1, <3>2, CountedCut
  <2>2. CASE Same(down', down) /\ Same(back', back)
    <3>1. Still(n)
      BY <2>2, SameStill
    <3>2. \A t \in Tasks : task[t].pc = "posting" => (held' = LeaseOf(t) => held = LeaseOf(t))
      BY <1>3, <1>4 DEF CInv, TaskOK, Settled
    <3>3. ASSUME NEW t \in Tasks, task'[t].pc \in {"approve", "commit"}, task'[t].kind # "targeted", task'[t].n = n,
                 held' = LeaseOf(t)'
          PROVE  n \notin dedup'
      <4>1. Settled(LeaseOf(t))
        BY <1>0, <3>3 DEF CInv, TaskOK, Settled
      <4>2. held = LeaseOf(t)
        BY <1>3, <1>4, <3>3, <4>1
      <4> QED BY <1>0, <2>0, <3>3, <4>2 DEF Counted
    <3> HIDE DEF Still, Counted, ToRecord, LeaseOf
    <3> QED BY <1>0, <2>0, <3>1, <3>2, <3>3, CountedKept
  <2> QED BY <1>0, <2>1, <2>2, MovesLeaseOnly DEF LeaseMoves
<1> HIDE DEF TaskOK, Counted, Alone, TTypes, LInv
<1> QED BY <1>0, <1>2, <1>5, <1>6, <1>7 DEF CInv

-----------------------------------------------------------------------------
(* Comments and their receipts *)

LEMMA CommentIn ==
    ASSUME NEW q, NEW n, In(q, Comments(n)) PROVE \E t \in Tasks, k \in 1..2 : Has(q, Com(<<t, k>>, n))
<1>1. \A x \in Comments(n) : \E l \in LeaseIds : x = Com(l, n)
  BY DEF Comments, DownMsgs, Com
<1>2. \A l \in LeaseIds : \E t \in Tasks, k \in 1..2 : l = <<t, k>>
  BY DEF LeaseIds
<1>3. PICK i \in 1..Len(q) : q[i] \in Comments(n)
  BY DEF In
<1> QED BY <1>1, <1>2, <1>3 DEF Has

\* A note nobody but t is at work for, and t has not sent its comment.
LEMMA NothingUnderWay ==
    ASSUME CInv, NEW n \in Notes, Counted(n), \A t \in Tasks : task[t].n = n => task[t].pc # "posting" /\ ~ToRecord(task[t])
    PROVE  ~In(down, Comments(n)) /\ ~In(back, Receipts(n)) /\ (posted[n] # 0 => n \in dedup)
<1>1. ~In(down, Comments(n))
  BY CommentIn DEF Counted
<1>2. ~In(back, Receipts(n))
  BY DEF Counted
<1>3. posted[n] # 0 => n \in dedup
  BY DEF Counted, OnItsWay
<1> QED BY <1>1, <1>2, <1>3

\* The comment of t leaves for the edge.
LEMMA SendKeeps ==
    ASSUME Parameters, CInv, NEW t \in Tasks, task[t].pc = "commit", Send(t),
           UNCHANGED <<up, cl, back, held, waiting, kept, drops, running, dedup, posted>>,
           doubt \subseteq doubt', doubt' \subseteq Notes,
           task[t].n \notin doubt' /\ held = LeaseOf(t) => task[t].n \notin dedup
    PROVE  CInv'
<1>0. /\ task[t] \in TaskRec /\ TaskOK(t) /\ running \in BOOLEAN /\ LeaseOf(t) \in LeaseIds /\ TTypes /\ LInv /\ Alone
  BY TaskFacts DEF CInv
<1>1. task[t].n \in Notes /\ ~task[t].rec /\ ~ToRecord(task[t]) /\ Settled(LeaseOf(t)) /\ (task[t].kind = "targeted" => task[t].k = 2)
  BY <1>0 DEF TaskOK, ToRecord, Settled
<1>2. PICK r : r = [task[t] EXCEPT !.pc = "posting"]
  OBVIOUS
<1>3. r \in TaskRec /\ r.pc = "posting" /\ r.n = task[t].n /\ r.kind = task[t].kind /\ r.k = task[t].k /\ ~r.rec
  <2>1. "posting" \in Running
    BY DEF Running
  <2> QED BY <1>0, <1>1, <1>2, <2>1, TaskForms
<1>4. task' = [task EXCEPT ![t] = r] /\ task' \in [Tasks -> TaskRec] /\ task'[t] = r /\ \A u \in Tasks \ {t} : task'[u] = task[u]
  BY <1>0, <1>2, <1>3 DEF Send, Goto, TTypes
<1>5. up /\ down' = Append(down, Com(LeaseOf(t), task[t].n))
  BY DEF Send, Com
<1>6. PICK l \in LeaseIds : l = LeaseOf(t)
  BY <1>0
<1>7. LInv'
  BY <1>0, <1>1, <1>5, <1>6, SendKeepsLease
<1>8. TTypes'
  BY <1>0, <1>4 DEF TTypes
<1>9. ASSUME NEW u \in Tasks PROVE TaskOK(u)'
  <2>1. CASE u = t
    <3>1. LeaseOf(u)' = LeaseOf(t) /\ task'[u] = r
      BY <1>3, <1>4, <2>1 DEF LeaseOf
    <3> HIDE DEF LeaseOf
    <3> QED BY <1>1, <1>3, <3>1 DEF TaskOK, Settled
  <2>2. CASE u # t
    <3>1. TaskOK(u) /\ LeaseOf(u)' = LeaseOf(u) /\ task'[u] = task[u]
      BY <1>4, <2>2 DEF CInv, LeaseOf
    <3> HIDE DEF LeaseOf
    <3> QED BY <3>1 DEF TaskOK
  <2> QED BY <2>1, <2>2
<1>10. Alone'
  BY <1>0, <1>3, <1>4 DEF Alone, Running
<1>11. /\ down \in Seq(DownMsgs) /\ Com(l, task[t].n) \in DownMsgs /\ down' = Append(down, Com(l, task[t].n))
  BY <1>0, <1>1, <1>5, <1>6 DEF LInv, LTypes, Com, DownMsgs
<1>12. ASSUME NEW n \in Notes, n \notin doubt', n # task[t].n PROVE Counted(n)'
  <2>0. n \notin doubt /\ Counted(n)
    BY <1>12 DEF CInv
  <2>1. Com(l, task[t].n) \notin Comments(n) /\ \A m : Com(m, n) # Com(l, task[t].n)
    BY <1>12 DEF Comments, Com
  <2>2. Still(n)
    <3>1. (In(down, Comments(n))' <=> In(down, Comments(n))) /\ (AtMostOne(down, Comments(n)) => AtMostOne(down, Comments(n))')
      BY <1>11, <2>1, InAppend
    <3>2. \A m : Has(down, Com(m, n))' <=> Has(down, Com(m, n))
      BY <1>11, <2>1, HasAppend
    <3> QED BY <3>1, <3>2 DEF Still
  <2>3. ASSUME NEW u \in Tasks, task'[u].pc \in {"approve", "commit"}, task'[u].kind # "targeted", task'[u].n = n,
               held' = LeaseOf(u)'
        PROVE  n \notin dedup'
    <3>1. u # t /\ task'[u] = task[u] /\ LeaseOf(u)' = LeaseOf(u)
      BY <1>3, <1>4, <2>3 DEF LeaseOf
    <3> QED BY <2>0, <2>3, <3>1 DEF Counted
  <2>4. \A u \in Tasks : task[u].n = n => u # t /\ task'[u] = task[u]
    BY <1>4, <1>12
  <2> HIDE DEF Still, Counted, ToRecord, LeaseOf
  <2> QED BY <2>0, <2>2, <2>3, <2>4, CountedKept
<1>13. ASSUME NEW n \in Notes, n \notin doubt', n = task[t].n PROVE Counted(n)'
  <2>0. n \notin doubt /\ Counted(n)
    BY <1>13 DEF CInv
  <2>1. \A u \in Tasks \ {t} : task[u].pc \notin Running
    BY <1>0, <1>13, <2>0 DEF Alone, Running
  <2>2. ~In(down, Comments(n)) /\ ~In(back, Receipts(n)) /\ (posted[n] # 0 => n \in dedup)
    <3>1. \A u \in Tasks : task[u].n = n => task[u].pc # "posting" /\ ~ToRecord(task[u])
      BY <1>1, <2>1 DEF ToRecord, Running
    <3> QED BY <2>0, <3>1, NothingUnderWay
  <2>3. posted'[n] = posted[n] /\ dedup' = dedup /\ posted[n] <= 1 /\ (held = l => posted[n] = 0)
    BY <1>0, <1>6, <1>13, <2>0, <2>2 DEF Counted, TTypes
  <2>4. AtMostOne(down, Comments(n))' /\ AtMostOne(back, Receipts(n))' /\ ~In(back, Receipts(n))'
    BY <1>11, <2>0, <2>2, InAppend DEF Counted
  <2>5. ASSUME NEW u \in Tasks, NEW k \in 1..2, Has(down, Com(<<u, k>>, n))'
        PROVE  task'[u].pc = "posting" /\ task'[u].n = n /\ task'[u].k = k /\ (held' = <<u, k>> => posted'[n] = 0)
    <3>1. ~Has(down, Com(<<u, k>>, n))
      <4>1. Com(<<u, k>>, n) \in Comments(n)
        BY DEF Com, Comments, DownMsgs, LeaseIds
      <4> QED BY <2>2, <4>1 DEF In, Has
    <3>2. Com(<<u, k>>, n) = Com(l, n)
      BY <1>11, <1>13, <2>5, <3>1, HasAppend
    <3>3. <<u, k>> = LeaseOf(t)
      BY <1>6, <3>2 DEF Com
    <3>4. u = t /\ k = task[t].k
      BY <3>3 DEF LeaseOf
    <3> QED BY <1>3, <1>4, <1>6, <1>13, <2>3, <3>3, <3>4
  <2>6. \A u \in Tasks : task'[u].pc \notin {"approve", "commit"}
    BY <1>3, <1>4, <2>1 DEF Running
  <2> QED BY <2>2, <2>3, <2>4, <2>5, <2>6 DEF Counted
<1> HIDE DEF TaskOK, Counted, Alone, TTypes, LInv
<1> QED BY <1>7, <1>8, <1>9, <1>10, <1>12, <1>13 DEF CInv

LEMMA PostKeeps == ASSUME Parameters, CInv, NEW t \in Tasks, Post(t) \/ SubmitComment(t) PROVE CInv'
<1>0. /\ task[t] \in TaskRec /\ TaskOK(t) /\ doubt \subseteq Notes /\ running \in BOOLEAN /\ dedup \subseteq Notes
      /\ task[t].pc = "commit" /\ UNCHANGED <<up, cl, back, held, waiting, kept, drops, running, dedup, posted>>
  BY TaskFacts DEF Post, SubmitComment
<1>1. task[t].n \in Notes /\ ~task[t].rec /\ ~ToRecord(task[t])
  BY <1>0 DEF TaskOK, ToRecord
<1>2. CASE Send(t)
  <2>1. doubt' = doubt \/ doubt' = doubt \cup {task[t].n}
    BY <1>2 DEF Post, SubmitComment, GiveUp
  <2>2. ASSUME task[t].n \notin doubt', held = LeaseOf(t) PROVE task[t].n \notin dedup
    <3>1. CASE task[t].kind # "targeted"
      BY <1>0, <1>1, <2>1, <2>2, <3>1 DEF CInv, Counted
    <3>2. CASE task[t].kind = "targeted"
      BY <1>0, <1>2, <2>2, <3>2 DEF Post, SubmitComment, SeenBeforeCommit, GiveUp, Goto, Send
    <3> QED BY <3>1, <3>2
  <2> QED BY <1>0, <1>1, <1>2, <2>1, <2>2, SendKeeps
<1>3. CASE Goto(t, "release") /\ UNCHANGED <<doubt, down>>
  BY <1>0, <1>1, <1>3, GotoKeeps DEF Running, leaseVars
<1> QED BY <1>2, <1>3 DEF Post, SubmitComment, GiveUp

\* The edge comments, or refuses to.
LEMMA EdgeCommentsKeeps == ASSUME Parameters, CInv, EdgeComments PROVE CInv'
<1> DEFINE m == Head(down)
<1>0. /\ down # <<>> /\ m.t = "comment" /\ down' = Tail(down) /\ m = down[1] /\ m \in DownMsgs
      /\ UNCHANGED <<up, cl, held, waiting, kept, drops, task, running, dedup, doubt>>
      /\ TTypes /\ LInv /\ Alone /\ down \in Seq(DownMsgs) /\ back \in Seq(BackMsgs)
  BY TailFacts DEF EdgeComments, CInv, LInv, LTypes
<1>1. PICK t \in Tasks, k \in 1..2, n \in Notes : m = Com(<<t, k>>, n)
  <2>1. PICK l \in LeaseIds, n \in Notes : m = Com(l, n)
    BY <1>0 DEF DownMsgs, Com
  <2>2. PICK t \in Tasks, k \in 1..2 : l = <<t, k>>
    BY <2>1 DEF LeaseIds
  <2> QED BY <2>1, <2>2
<1>2. PICK r \in {"confirmed", "unconfirmed", "failed", "preempted"} :
         /\ r \in {"confirmed", "unconfirmed"} => held = <<t, k>>
         /\ posted' = IF r \in {"confirmed", "unconfirmed"} THEN OneMore(n) ELSE posted
         /\ back' = Append(back, [t |-> "receipt", r |-> r, n |-> n])
  BY <1>1 DEF EdgeComments, Com
<1>3. PICK x : x = [t |-> "receipt", r |-> r, n |-> n]
  OBVIOUS
<1>4. x \in BackMsgs /\ x \in Receipts(n) /\ (x \in Posts(n) <=> r \in {"confirmed", "unconfirmed"}) /\ back' = Append(back, x)
      /\ \A p : p # n => x \notin Receipts(p) /\ x \notin Posts(p)
  BY <1>2, <1>3 DEF BackMsgs, Receipts, Posts
<1> HIDE DEF m
<1>5. LInv'
  <2>1. <<t, k>> \in LeaseIds /\ down[1] = Com(<<t, k>>, n)
    BY <1>0, <1>1 DEF LeaseIds
  <2> QED BY <1>0, <1>4, <2>1, EdgeCommentsKeepsLease
<1>6. posted' \in [Notes -> Nat] /\ \A p \in Notes : p # n => posted'[p] = posted[p]
  BY <1>0, <1>2 DEF OneMore, TTypes
<1>7. TTypes' /\ Alone' /\ \A u \in Tasks : TaskOK(u)' /\ LeaseOf(u)' = LeaseOf(u)
  BY <1>0, <1>6 DEF TTypes, Alone, CInv, TaskOK, LeaseOf
<1>8. /\ \A p : In(down, Comments(p)) <=> m \in Comments(p) \/ In(down, Comments(p))'
      /\ \A p : AtMostOne(down, Comments(p)) => AtMostOne(down, Comments(p))' /\ (m \in Comments(p) => ~In(down, Comments(p))')
      /\ \A y : Has(down, y) <=> m = y \/ Has(down, y)'
  BY <1>0, InTail, HasTail
<1>9. \A M : /\ In(back', M) <=> In(back, M) \/ x \in M
             /\ AtMostOne(back, M) /\ (x \in M => ~In(back, M)) => AtMostOne(back', M)
  BY <1>0, <1>4, InAppend
<1>10. \A p : (m \in Comments(p) <=> p = n) /\ \A l : m = Com(l, p) => p = n
  BY <1>0, <1>1 DEF Comments, Com
<1>11. ASSUME NEW p \in Notes, p \notin doubt', p # n PROVE Counted(p)'
  <2>0. Counted(p)
    BY <1>0, <1>11 DEF CInv
  <2>1. Still(p)
    BY <1>4, <1>8, <1>9, <1>10, <1>11 DEF Still
  <2>2. \A u \in Tasks : task'[u].pc \in {"approve", "commit"} /\ task'[u].kind # "targeted" /\ task'[u].n = p
                         /\ held' = LeaseOf(u)' => p \notin dedup'
    BY <1>0, <1>7, <2>0 DEF Counted
  <2> HIDE DEF Still, Counted, ToRecord, LeaseOf
  <2> QED BY <1>0, <1>6, <1>11, <2>0, <2>1, <2>2, CountedKept
<1>12. ASSUME n \notin doubt' PROVE Counted(n)'
  <2>0. Counted(n)
    BY <1>0, <1>12 DEF CInv
  <2>1. Has(down, Com(<<t, k>>, n)) /\ In(down, Comments(n))
    BY <1>1, <1>8, <1>10
  <2>2. task[t].pc = "posting" /\ task[t].n = n /\ task[t].k = k /\ (held = <<t, k>> => posted[n] = 0)
    BY <2>0, <2>1 DEF Counted
  <2>3. ~In(back, Receipts(n)) /\ ~In(down', Comments(n)) /\ AtMostOne(down', Comments(n))
    BY <1>8, <1>10, <2>0, <2>1 DEF Counted
  <2>4. AtMostOne(back', Receipts(n)) /\ In(back', Receipts(n))
    BY <1>4, <1>9, <2>0, <2>3 DEF Counted
  <2>5. CASE r \in {"confirmed", "unconfirmed"}
    <3>1. posted[n] = 0 /\ posted'[n] = 1
      BY <1>0, <1>2, <1>12, <2>2, <2>5 DEF OneMore, TTypes
    <3>2. OnItsWay(t, n)'
      BY <1>0, <1>4, <1>9, <2>2, <2>5 DEF OnItsWay
    <3>3. \A u \in Tasks, j \in 1..2 : ~Has(down', Com(<<u, j>>, n))
      BY <2>3 DEF Has, In, Com, Comments, DownMsgs, LeaseIds
    <3> QED BY <1>0, <1>7, <2>0, <2>2, <2>3, <2>4, <3>1, <3>2, <3>3 DEF Counted
  <2>6. CASE r \notin {"confirmed", "unconfirmed"}
    <3>1. posted' = posted
      BY <1>2, <2>6
    <3>2. posted[n] # 0 => n \in dedup \/ \E u \in Tasks : OnItsWay(u, n)'
      <4>1. ~In(back, Posts(n))
        BY <2>3 DEF In, Posts
      <4> QED BY <1>0, <2>0, <4>1 DEF Counted, OnItsWay
    <3>3. \A u \in Tasks, j \in 1..2 : ~Has(down', Com(<<u, j>>, n))
      BY <2>3 DEF Has, In, Com, Comments, DownMsgs, LeaseIds
    <3> QED BY <1>0, <1>7, <2>0, <2>2, <2>3, <2>4, <3>1, <3>2, <3>3 DEF Counted
  <2> QED BY <2>5, <2>6
<1> HIDE DEF TaskOK, Counted, Alone, TTypes, LInv
<1> QED BY <1>5, <1>7, <1>11, <1>12 DEF CInv

\* A receipt is heard.
LEMMA CommentReceiptKeeps == ASSUME Parameters, CInv, CommentReceipt PROVE CInv'
<1>16. /\ back # <<>> /\ Head(back).t = "receipt" /\ back' = Tail(back)
       /\ UNCHANGED <<up, cl, down, held, waiting, kept, drops, running, dedup, posted>>
  BY ZenonT(30) DEF CommentReceipt
<1>17. PICK m : m = Head(back)
  OBVIOUS
<1>18. PICK n : n = m.n
  OBVIOUS
<1> DEFINE sub == m.r \in {"confirmed", "unconfirmed", "browsed"}
<1>20. PICK W : W = {t \in Tasks : task[t].pc = "posting"}
  OBVIOUS
<1> DEFINE Waits(t) == t \in W
<1>0. /\ back # <<>> /\ m.t = "receipt" /\ back' = Tail(back) /\ m = back[1] /\ m \in BackMsgs
      /\ UNCHANGED <<up, cl, down, held, waiting, kept, drops, running, dedup, posted>>
      /\ TTypes /\ LInv /\ Alone /\ down \in Seq(DownMsgs) /\ back \in Seq(BackMsgs)
  BY <1>16, <1>17, TailFacts DEF CInv, LInv, LTypes
<1> HIDE DEF sub
<1>1. /\ n \in Notes /\ \A p : p # n \/ m.r = "browsed" => m \notin Receipts(p) /\ m \notin Posts(p)
      /\ m.r # "browsed" => m \in Receipts(n) /\ (m \in Posts(n) <=> sub)
  BY <1>0, <1>18 DEF sub, BackMsgs, Receipts, Posts
<1>2. task' = [t \in Tasks |-> IF t \in W
                               THEN [task[t] EXCEPT !.pc = IF sub /\ task[t].kind # "targeted" THEN "record" ELSE "release",
                                                    !.ok = (m.r \in {"confirmed", "browsed"}), !.rec = sub /\ task[t].kind = "targeted"]
                               ELSE task[t]]
  <2>1. Head(back) = m /\ {t \in Tasks : task[t].pc = "posting"} = W
    BY <1>17, <1>20
  <2> QED BY <2>1, ZenonT(30) DEF CommentReceipt, sub
<1>3. doubt' = doubt \cup {task[t].n : t \in {u \in W : m.r = "browsed" \/ task[u].n # n}}
                     \cup (IF m.r \in {"confirmed", "unconfirmed"} /\ n \notin {task[t].n : t \in W} THEN {n} ELSE {})
  <2>1. Head(back) = m /\ {t \in Tasks : task[t].pc = "posting"} = W /\ m.n = n
    BY <1>17, <1>18, <1>20
  <2> QED BY <2>1, ZenonT(30) DEF CommentReceipt, sub
<1>21. \A t \in Tasks : Waits(t) <=> task[t].pc = "posting"
  BY <1>20
<1> HIDE DEF Waits
<1>4. ASSUME NEW t \in Tasks
      PROVE  /\ ~Waits(t) => task'[t] = task[t]
             /\ Waits(t) => /\ task'[t] \in TaskRec /\ task'[t].n = task[t].n /\ task'[t].kind = task[t].kind /\ task'[t].k = task[t].k
                            /\ task'[t].pc = IF sub /\ task[t].kind # "targeted" THEN "record" ELSE "release"
                            /\ task'[t].rec <=> sub /\ task[t].kind = "targeted"
  <2>1. task[t] \in TaskRec
    BY <1>0 DEF TTypes
  <2>2. CASE Waits(t)
    <3>1. PICK pc : pc = IF sub /\ task[t].kind # "targeted" THEN "record" ELSE "release"
      OBVIOUS
    <3>2. PICK ok \in BOOLEAN : ok <=> m.r \in {"confirmed", "browsed"}
      BY Zenon
    <3>3. PICK rec \in BOOLEAN : rec <=> sub /\ task[t].kind = "targeted"
      BY Zenon
    <3>4. task'[t] = [task[t] EXCEPT !.pc = pc, !.ok = ok, !.rec = rec]
      <4>1. task'[t] = [task[t] EXCEPT !.pc = IF sub /\ task[t].kind # "targeted" THEN "record" ELSE "release",
                                       !.ok = (m.r \in {"confirmed", "browsed"}), !.rec = sub /\ task[t].kind = "targeted"]
        BY <1>2, <2>2, ZenonT(30) DEF Waits
      <4>2. ok = (m.r \in {"confirmed", "browsed"}) /\ rec = (sub /\ task[t].kind = "targeted")
        BY <3>2, <3>3
      <4> HIDE DEF sub
      <4> QED BY <3>1, <4>1, <4>2, ZenonT(30)
    <3>5. pc \in Running
      BY <3>1 DEF Running
    <3>6. task'[t] \in TaskRec /\ task'[t].n = task[t].n /\ task'[t].kind = task[t].kind /\ task'[t].k = task[t].k
          /\ task'[t].pc = pc /\ (task'[t].rec <=> rec)
      BY <2>1, <3>4, <3>5 DEF TaskRec
    <3> QED BY <2>2, <3>1, <3>3, <3>6
  <2>3. CASE ~Waits(t)
    <3>1. task'[t] = task[t]
      BY <1>2, <2>3, ZenonT(30) DEF Waits
    <3> QED BY <2>3, <3>1
  <2> QED BY <2>2, <2>3
<1>5. \A t \in Tasks : Waits(t) => task[t].n \in Notes /\ (task[t].kind = "targeted" => task[t].k = 2)
  BY <1>21 DEF CInv, TaskOK
<1>6. doubt \subseteq doubt' /\ doubt' \subseteq Notes
  BY <1>0, <1>1, <1>3, <1>5, <1>20 DEF TTypes, Waits
<1>7. TTypes'
  <2>1. task' \in [Tasks -> TaskRec]
    <3>1. \A t \in Tasks : task'[t] \in TaskRec
      <4>1. \A t \in Tasks : task[t] \in TaskRec
        BY <1>0 DEF TTypes
      <4> QED BY <1>4, <4>1
    <3>2. \E f : task' = [t \in Tasks |-> f[t]]
      <4> DEFINE Then(t) == IF t \in W
                            THEN [task[t] EXCEPT !.pc = IF sub /\ task[t].kind # "targeted" THEN "record" ELSE "release",
                                                 !.ok = (m.r \in {"confirmed", "browsed"}), !.rec = sub /\ task[t].kind = "targeted"]
                            ELSE task[t]
      <4>1. task' = [t \in Tasks |-> Then(t)]
        BY <1>2, Zenon
      <4> HIDE DEF Then
      <4>2. \A t \in Tasks : task'[t] = Then(t)
        BY <4>1
      <4>3. task' = [t \in Tasks |-> task'[t]]
        BY <4>1, <4>2
      <4> QED BY <4>3
    <3> QED BY <3>1, <3>2
  <2> QED BY <1>0, <1>6, <2>1 DEF TTypes
<1>8. LInv'
  BY <1>0, ReceiptKeepsLease
<1>9. ASSUME NEW t \in Tasks PROVE TaskOK(t)'
  <2>1. CASE Waits(t)
    BY <1>4, <1>5, <2>1 DEF TaskOK
  <2>2. CASE ~Waits(t)
    <3>1. TaskOK(t) /\ task'[t] = task[t] /\ LeaseOf(t)' = LeaseOf(t) /\ cl' = cl
      BY <1>0, <1>4, <2>2 DEF CInv, LeaseOf
    <3> HIDE DEF LeaseOf
    <3> QED BY <3>1 DEF TaskOK
  <2> QED BY <2>1, <2>2
<1>10. Alone'
  <2>1. \A t \in Tasks : task'[t].pc \in Running => task[t].pc \in Running
    BY <1>4, <1>21 DEF Running
  <2> QED BY <1>0, <1>6, <2>1 DEF Alone
<1>11. /\ \A p : In(back, Receipts(p)) <=> m \in Receipts(p) \/ In(back, Receipts(p))'
       /\ \A p : In(back, Posts(p)) <=> m \in Posts(p) \/ In(back, Posts(p))'
       /\ \A p : AtMostOne(back, Receipts(p)) => AtMostOne(back, Receipts(p))' /\ (m \in Receipts(p) => ~In(back, Receipts(p))')
  BY <1>0, InTail
<1>12. \A t \in Tasks : task'[t].pc \in {"approve", "commit"} => task'[t] = task[t] /\ LeaseOf(t)' = LeaseOf(t)
  <2>1. \A t \in Tasks : task'[t].pc \in {"approve", "commit"} => task'[t] = task[t]
    BY <1>4
  <2> QED BY <2>1 DEF LeaseOf
<1>13. \A t \in Tasks : ToRecord(task[t]) => task'[t] = task[t]
  BY <1>4, <1>21 DEF CInv, TaskOK, ToRecord
<1>14. ASSUME NEW p \in Notes, p \notin doubt', p # n \/ m.r = "browsed" PROVE Counted(p)'
  <2>0. Counted(p)
    BY <1>6, <1>14 DEF CInv
  <2>1. Still(p)
    BY <1>0, <1>1, <1>11, <1>14 DEF Still
  <2>2. \A t \in Tasks : task[t].pc = "posting" => task[t].n # p
    BY <1>3, <1>14, <1>20
  <2>3. ASSUME NEW t \in Tasks, task'[t].pc \in {"approve", "commit"}, task'[t].kind # "targeted", task'[t].n = p,
               held' = LeaseOf(t)'
        PROVE  p \notin dedup'
    BY <1>0, <1>12, <2>0, <2>3 DEF Counted
  <2> HIDE DEF Still, Counted, ToRecord, LeaseOf
  <2> QED BY <1>0, <1>13, <2>0, <2>1, <2>2, <2>3, CountedKept
<1>15. ASSUME n \notin doubt', m.r # "browsed" PROVE Counted(n)'
  <2>0. Counted(n)
    BY <1>1, <1>6, <1>15 DEF CInv
  <2>1. PICK t \in Tasks : Waits(t) /\ task[t].n = n
    BY <1>1, <1>11, <1>15, <1>21, <2>0 DEF Counted
  <2>2. ~In(back', Receipts(n)) /\ ~In(down, Comments(n)) /\ AtMostOne(back', Receipts(n))
    BY <1>1, <1>11, <1>15, <2>0 DEF Counted
  <2>3. \A u \in Tasks, j \in 1..2 : ~Has(down', Com(<<u, j>>, n))
    <3>1. ~In(down', Comments(n))
      BY <1>0, <2>2
    <3>2. n \in Notes
      BY <1>1
    <3> QED BY <3>1, <3>2 DEF Has, In, Com, Comments, DownMsgs, LeaseIds
  <2>4. ASSUME posted[n] # 0 PROVE n \in dedup' \/ \E u \in Tasks : OnItsWay(u, n)'
    <3>1. CASE sub
      <4>1. ToRecord(task'[t]) /\ task'[t].n = n
        BY <1>4, <2>1, <3>1 DEF ToRecord
      <4> QED BY <1>0, <4>1 DEF OnItsWay
    <3>2. CASE ~sub
      <4>1. ~In(back, Posts(n))
        <5>1. \A q : In(q, Posts(n)) => In(q, Receipts(n))
          BY DEF In, Posts
        <5> QED BY <1>1, <1>11, <1>15, <2>2, <3>2, <5>1
      <4>2. n \in dedup \/ \E u \in Tasks : ToRecord(task[u]) /\ task[u].n = n
        BY <2>0, <2>4, <4>1 DEF Counted, OnItsWay
      <4> QED BY <1>0, <1>13, <4>2 DEF OnItsWay
    <3> QED BY <3>1, <3>2
  <2>5. \A u \in Tasks : task'[u].pc \in {"approve", "commit"} /\ task'[u].kind # "targeted" /\ task'[u].n = n
                         /\ held' = LeaseOf(u)' => n \notin dedup'
    BY <1>0, <1>12, <2>0 DEF Counted
  <2>6. posted'[n] <= 1 /\ AtMostOne(down', Comments(n)) /\ posted' = posted /\ ~In(down', Comments(n))
    BY <1>0, <2>0, <2>2 DEF Counted
  <2> QED BY <2>2, <2>3, <2>4, <2>5, <2>6 DEF Counted
<1>22. \A p \in Notes : p \notin doubt' => Counted(p)'
  BY <1>14, <1>15
<1> HIDE DEF TaskOK, Counted, Alone, TTypes, LInv
<1> QED BY <1>7, <1>8, <1>9, <1>10, <1>22 DEF CInv

\* The browsing session comments.
LEMMA BrowseKeeps == ASSUME Parameters, CInv, BrowseComments PROVE CInv'
<1>0. /\ up /\ UNCHANGED <<up, cl, down, held, waiting, kept, drops, task, running, dedup, posted, doubt>>
      /\ TTypes /\ LInv /\ down \in Seq(DownMsgs) /\ back \in Seq(BackMsgs)
  BY DEF BrowseComments, CInv, LInv, LTypes
<1>1. PICK n \in Notes : back' = Append(back, [t |-> "receipt", r |-> "browsed", n |-> n])
  BY DEF BrowseComments
<1>2. PICK x : x = [t |-> "receipt", r |-> "browsed", n |-> n]
  OBVIOUS
<1>3. x \in BackMsgs /\ x.t = "receipt" /\ \A p : x \notin Receipts(p) /\ x \notin Posts(p)
  BY <1>2 DEF BackMsgs, Receipts, Posts
<1>4. back' = Append(back, x)
  BY <1>1, <1>2
<1>5. LInv'
  BY <1>0, <1>3, <1>4, BrowsedKeepsLease
<1>6. TTypes' /\ Alone' /\ \A u \in Tasks : TaskOK(u)' /\ LeaseOf(u)' = LeaseOf(u)
  BY <1>0 DEF TTypes, Alone, CInv, TaskOK, LeaseOf
<1>7. ASSUME NEW p \in Notes, p \notin doubt' PROVE Counted(p)'
  <2>0. Counted(p)
    BY <1>0, <1>7 DEF CInv
  <2>1. \A M : x \notin M => (In(back, M)' <=> In(back, M)) /\ (AtMostOne(back, M) => AtMostOne(back, M)')
    <3>1. ASSUME NEW M, x \notin M
          PROVE  (In(Append(back, x), M) <=> In(back, M)) /\ (AtMostOne(back, M) => AtMostOne(Append(back, x), M))
      BY <1>0, <1>3, <3>1, InAppend
    <3> QED BY <1>4, <3>1 DEF In, AtMostOne
  <2>2. Still(p)
    BY <1>0, <1>3, <2>1 DEF Still, In, AtMostOne, Has
  <2>3. \A u \in Tasks : task'[u].pc \in {"approve", "commit"} /\ task'[u].kind # "targeted" /\ task'[u].n = p
                         /\ held' = LeaseOf(u)' => p \notin dedup'
    BY <1>0, <1>6, <2>0 DEF Counted
  <2> HIDE DEF Still, Counted, ToRecord, LeaseOf
  <2> QED BY <1>0, <1>6, <1>7, <2>0, <2>2, <2>3, CountedKept
<1> HIDE DEF TaskOK, Counted, Alone, TTypes, LInv
<1> QED BY <1>0, <1>5, <1>6, <1>7 DEF CInv

-----------------------------------------------------------------------------
(* The steps together *)

\* Nothing changes.
LEMMA StutterKeeps == ASSUME CInv, UNCHANGED vars PROVE CInv'
<1>1. UNCHANGED <<leaseVars, up, cl, down, back, held, waiting, kept, drops, task, running, dedup, posted, doubt>>
  BY DEF vars, leaseVars
<1>2. TTypes' /\ LInv' /\ Alone' /\ \A t \in Tasks : TaskOK(t)'
  BY <1>1, LeaseStill DEF CInv, TTypes, Alone, TaskOK, LeaseOf
<1>3. \A n \in Notes : n \notin doubt' => Counted(n)'
  BY <1>1 DEF CInv, Counted, AtMostOne, In, Has, OnItsWay, LeaseOf
<1> HIDE DEF TTypes, LInv, TaskOK, Alone, Counted
<1> QED BY <1>2, <1>3 DEF CInv

LEMMA StepKeeps == ASSUME Parameters, CInv, NEW t \in Tasks, Step(t) PROVE CInv'
<1> USE DEF Step, Continue
<1>1. CASE Granted(t) \/ SearchAndRead(t) \/ OpenPost(t) \/ PrepareTarget(t)
  BY <1>1, WorkKeeps
<1>2. CASE PostTimeout(t) \/ Record(t) \/ Released(t) \/ EndsBeforeLease(t)
  BY <1>2, EndKeeps
<1>3. CASE ComposeAndApprove(t) \/ approveFacebookComment(t)
  BY <1>3, ApprovalKeeps
<1>4. CASE Post(t) \/ SubmitComment(t)
  BY <1>4, PostKeeps
<1>5. CASE StartAfterPreflight(t)
  BY <1>5, TriggerKeeps
<1>6. CASE Acquire(t)
  BY <1>6, AcquireStep
<1>7. CASE Release(t)
  BY <1>7, ReleaseStep
<1> HIDE DEF CInv
<1> QED BY <1>1, <1>2, <1>3, <1>4, <1>5, <1>6, <1>7

LEMMA NextKeeps == ASSUME Parameters, CInv, [Next]_vars PROVE CInv'
<1>1. CASE \E t \in Tasks : Step(t) \/ triggerForMode(t) \/ triggerManual(t) \/ triggerTargeted(t)
  BY <1>1, StepKeeps, TriggerKeeps
<1>2. CASE EdgeComments \/ CommentReceipt \/ BrowseComments \/ Connection
  BY <1>2, EdgeCommentsKeeps, CommentReceiptKeeps, BrowseKeeps, ConnectionKeeps
<1>3. CASE UNCHANGED vars
  BY <1>3, StutterKeeps
<1> QED BY <1>1, <1>2, <1>3 DEF Next

LEMMA InitHolds == ASSUME Parameters, Init PROVE CInv
<1>1. LInv /\ down = <<>> /\ back = <<>>
  BY LInit DEF Init, Lease!LeaseInit
<1>2. TTypes
  <2>1. Fresh \in TaskRec
    <3>1. "idle" \in Running \cup {"idle", "preflight", "done"} /\ "task" \in Kinds /\ None \in Notes \cup {None} /\ 1 \in 1..2
      BY DEF Kinds
    <3> QED BY <3>1 DEF Fresh, TaskRec
  <2>2. posted \in [Notes -> Nat]
    BY DEF Init
  <2> QED BY <2>1, <2>2 DEF Init, TTypes
<1>3. \A t \in Tasks : task[t] = Fresh
  BY DEF Init
<1>4. Alone /\ \A t \in Tasks : TaskOK(t)
  BY <1>3 DEF Alone, TaskOK, Running, Fresh
<1>5. \A n \in Notes : Counted(n)
  BY <1>1, <1>3 DEF Counted, In, AtMostOne, Has, Init, Fresh
<1> QED BY <1>1, <1>2, <1>4, <1>5 DEF CInv

LEMMA CInvHolds == ASSUME Parameters, CInv PROVE TypeOK /\ LeaseHolds /\ NoSecondComment
<1>1. TypeOK
  BY DEF CInv, TTypes, TaskRec, LInv, LTypes, TypeOK
<1>2. LeaseHolds
  BY LInvHolds DEF CInv
<1>3. NoSecondComment
  <2>1. ASSUME NEW n \in Notes, posted[n] > 1, n \notin doubt PROVE FALSE
    <3>1. posted[n] <= 1 /\ posted[n] \in Nat
      BY <2>1 DEF CInv, Counted, TTypes
    <3> QED BY <2>1, <3>1
  <2> QED BY <2>1 DEF NoSecondComment
<1> QED BY <1>1, <1>2, <1>3

\* Every reachable state of the tasks and of the lease is one of the declared ones.
THEOREM TypeCorrect == Spec => []TypeOK
<1>1. Init => CInv
  BY TaskAssumption, InitHolds
<1>2. CInv /\ [Next]_vars => CInv'
  BY TaskAssumption, NextKeeps
<1>3. CInv => TypeOK
  BY TaskAssumption, CInvHolds
<1> QED BY <1>1, <1>2, <1>3, PTL DEF Spec

\* For any number of tasks, whichever connections are lost and whatever times out: at most one task
\* believes it may drive the edge, and the edge works for no lease its task has given up (edge-lease-client.ts).
THEOREM LeaseIsExclusive == Spec => []LeaseHolds
<1>1. Init => CInv
  BY TaskAssumption, InitHolds
<1>2. CInv /\ [Next]_vars => CInv'
  BY TaskAssumption, NextKeeps
<1>3. CInv => LeaseHolds
  BY TaskAssumption, CInvHolds
<1> QED BY <1>1, <1>2, <1>3, PTL DEF Spec

\* For any number of tasks and notes, and next to a browsing session whose receipts the tasks may take for
\* their own: a note whose comments the cloud has not lost count of is commented on by the tasks once (the
\* looks at the ledger in comment-scheduler.ts).
THEOREM NoteCommentedOnce == Spec => []NoSecondComment
<1>1. Init => CInv
  BY TaskAssumption, InitHolds
<1>2. CInv /\ [Next]_vars => CInv'
  BY TaskAssumption, NextKeeps
<1>3. CInv => NoSecondComment
  BY TaskAssumption, CInvHolds
<1> QED BY <1>1, <1>2, <1>3, PTL DEF Spec

-----------------------------------------------------------------------------
(* Joining groups *)


Pcs == {"idle", "claim", "specific", "reset", "revalidate", "mark", "hook", "send", "observing", "click", "clicking"}
GroupRunning == {"mark", "hook", "send", "observing", "click", "clicking"}
GroupCounted == GroupRunning \ {"mark"}
RowRec == [acct : Accounts \cup {Nil}, st : Statuses \cup {"none"}, tries : Nat, cool : BOOLEAN, left : Nat]
JobRec == [pc : Pcs, kind : RunKinds, g : Groups \cup {Nil}, again : BOOLEAN]
Requests == [g : Groups, click : BOOLEAN]

Types ==
    /\ row \in [Groups -> RowRec] /\ job \in [Accounts -> JobRec] /\ edge \in [Accounts -> Seq(Requests)]
    /\ cover \in [Accounts -> Groups \cup {Nil}] /\ fresh \in BOOLEAN

\* An account may be in a group, now or once its edge has answered.
Clicked(a, g) == \E i \in 1..Len(edge[a]) : edge[a][i].g = g /\ edge[a][i].click
Dispatched(a, g) == <<a, g>> \in member \/ Clicked(a, g)

DispatchOK(a, g) == Dispatched(a, g) /\ g \notin forgotten => Owns(a, g) /\ row[g].tries > 0

\* A run that may write has an open row if it has one, and has counted its attempt.
JobOK(a) ==
    /\ job[a].pc \notin {"idle", "claim"} => job[a].g \in Groups
    /\ job[a].kind = "reconcile" => job[a].pc \in {"idle", "send", "observing"}
    /\ job[a].kind # "reconcile" =>
          \A g \in Groups : g = job[a].g =>
             /\ job[a].pc \in GroupRunning /\ Owns(a, g) => row[g].st \in Open
             /\ job[a].pc = "reset" /\ Owns(a, g) => row[g].st # "joined"
             /\ job[a].pc \in GroupCounted => (g \notin forgotten => Owns(a, g)) /\ (Owns(a, g) => row[g].tries > 0)
             /\ job[a].pc = "hook" /\ Dispatched(a, g) /\ g \notin forgotten => row[g].tries > 1

JoinInv ==
    /\ JoinParameters /\ Types /\ JoinedIsMember
    /\ \A a \in Accounts : JobOK(a) /\ \A g \in Groups : DispatchOK(a, g)

JoinedRowsStay ==
    \A g \in Groups : row[g].st = "joined" => row'[g].acct = row[g].acct /\ row'[g].st \in {"joined", "left"}

-----------------------------------------------------------------------------
(* What every step of an account leaves to the others *)

LEMMA StatusFacts ==
    /\ "joined" \notin Open /\ Open \subseteq Statuses /\ "joined" \in Statuses
    /\ {"assigned", "joining"} = Open /\ "none" \notin Open
    /\ {"pending", "no_button", "failed", "gated", "left"} \subseteq Statuses \ (Open \cup {"joined"})
BY DEF Statuses, Open

\* Rows of other accounts are not touched, so that what the others rely on stays.
LEMMA GroupStepKeeps ==
    ASSUME JoinInv, NEW a \in Accounts, Types',
           forgotten \subseteq forgotten', member \subseteq member', crossed \subseteq crossed',
           \A b \in Accounts \ {a} : job'[b] = job[b],
           \A b \in Accounts \ {a}, h \in Groups : Dispatched(b, h)' => Dispatched(b, h),
           \A h \in Groups : row'[h] = row[h] \/ (row[h].acct \in {a, Nil} /\ row'[h].acct \in {a, Nil}),
           \A h \in Groups : row'[h].st = "joined" =>
                \/ row[h].st = "joined" /\ row'[h].acct = row[h].acct
                \/ <<row'[h].acct, h>> \in member' \cup crossed',
           JobOK(a)', \A h \in Groups : DispatchOK(a, h)'
    PROVE  JoinInv'
<1>1. JoinedIsMember'
  BY DEF JoinInv, JoinedIsMember
<1>2. ASSUME NEW b \in Accounts \ {a}, NEW h \in Groups PROVE DispatchOK(b, h)'
  <2>1. DispatchOK(b, h) /\ b # Nil
    BY DEF JoinInv, JoinParameters
  <2> QED BY <2>1 DEF DispatchOK, Owns
<1>3. ASSUME NEW b \in Accounts \ {a} PROVE JobOK(b)'
  <2>1. JobOK(b) /\ b # Nil /\ job'[b] = job[b]
    BY DEF JoinInv, JoinParameters
  <2>2. \A h \in Groups : Owns(b, h) \/ Owns(b, h)' => row'[h] = row[h] /\ Owns(b, h) /\ Owns(b, h)'
    BY <2>1 DEF Owns
  <2>3. "hook" \in GroupRunning /\ "hook" \in GroupCounted /\ GroupCounted \subseteq GroupRunning
    BY DEF GroupRunning, GroupCounted
  <2> QED BY <2>1, <2>2, <2>3 DEF JobOK
<1> QED BY <1>1, <1>2, <1>3 DEF JoinInv, JoinParameters

\* An account with no run under way owes nothing.
LEMMA IdleOK ==
    ASSUME NEW a \in Accounts, job' = End(a), Types PROVE JobOK(a)' /\ job' \in [Accounts -> JobRec]
BY DEF End, Idle, JobOK, GroupRunning, GroupCounted, Types, JobRec, Pcs, RunKinds

\* Steps that write no row.
LEMMA NoWriteKeeps ==
    ASSUME JoinInv, NEW a \in Accounts, UNCHANGED <<row, forgotten>>, member \subseteq member', crossed \subseteq crossed',
           job' \in [Accounts -> JobRec], edge' \in [Accounts -> Seq(Requests)], fresh' \in BOOLEAN,
           cover' \in [Accounts -> Groups \cup {Nil}],
           \A b \in Accounts \ {a} : job'[b] = job[b],
           \A b \in Accounts, h \in Groups : Dispatched(b, h)' => Dispatched(b, h), JobOK(a)'
    PROVE  JoinInv' /\ JoinedRowsStay
<1>1. Types'
  BY DEF JoinInv, Types
<1>2. \A h \in Groups : DispatchOK(a, h)'
  BY DEF JoinInv, DispatchOK, Owns
<1>3. JoinInv'
  BY <1>1, <1>2, GroupStepKeeps
<1> QED BY <1>3 DEF JoinedRowsStay

LEMMA DispatchStill ==
    ASSUME UNCHANGED <<edge, member>> PROVE \A b \in Accounts, h \in Groups : Dispatched(b, h)' <=> Dispatched(b, h)
BY DEF Dispatched, Clicked

-----------------------------------------------------------------------------
(* Verdicts *)

\* What a verdict may write: the row of the run's account and no other field but its status.
Judged(a, g, joins) ==
    /\ row' \in [Groups -> RowRec] /\ \A h \in Groups \ {g} : row'[h] = row[h]
    /\ ~Owns(a, g) => row'[g] = row[g]
    /\ Owns(a, g) => /\ row'[g].acct = a /\ row'[g].tries = row[g].tries
                     /\ (row'[g].st = "joined" <=> joins)

LEMMA WriteRow ==
    ASSUME Types, NEW a \in Accounts, NEW g \in Groups, NEW r \in RowRec
    PROVE  /\ Write(a, g, r) \in [Groups -> RowRec] /\ \A h \in Groups \ {g} : Write(a, g, r)[h] = row[h]
           /\ Write(a, g, r)[g] = IF Owns(a, g) THEN r ELSE row[g]
BY DEF Types, Write

LEMMA RowForms ==
    ASSUME NEW r \in RowRec, NEW s \in Statuses
    PROVE  /\ [r EXCEPT !.st = s] \in RowRec /\ [r EXCEPT !.st = s].st = s
           /\ [r EXCEPT !.st = s].acct = r.acct /\ [r EXCEPT !.st = s].tries = r.tries
           /\ \A c \in BOOLEAN : /\ [r EXCEPT !.st = s, !.cool = c] \in RowRec /\ [r EXCEPT !.st = s, !.cool = c].st = s
                               /\ [r EXCEPT !.st = s, !.cool = c].acct = r.acct
                               /\ [r EXCEPT !.st = s, !.cool = c].tries = r.tries
BY DEF RowRec

LEMMA JoinedJudges == ASSUME Types, NEW a \in Accounts, NEW g \in Groups, row' = markJoined(a, g) PROVE Judged(a, g, TRUE)
<1>1. row[g] \in RowRec
  BY DEF Types
<1>2. [row[g] EXCEPT !.st = "joined"] \in RowRec /\ [row[g] EXCEPT !.st = "joined"].st = "joined"
      /\ [row[g] EXCEPT !.st = "joined"].acct = row[g].acct /\ [row[g] EXCEPT !.st = "joined"].tries = row[g].tries
  BY <1>1, RowForms, StatusFacts
<1> DEFINE r == [row[g] EXCEPT !.st = "joined"]
<1>3. row' = Write(a, g, r) /\ r \in RowRec /\ r.st = "joined" /\ r.acct = row[g].acct /\ r.tries = row[g].tries
  BY <1>2 DEF markJoined
<1> HIDE DEF r
<1> QED BY <1>3, WriteRow DEF Judged, Owns

LEMMA OutcomeJudges ==
    ASSUME Types, NEW a \in Accounts, NEW g \in Groups, NEW s \in Statuses \ {"joined"}, row' = markOutcome(a, g, s)
    PROVE  Judged(a, g, FALSE)
<1> DEFINE r == [row[g] EXCEPT !.st = s, !.cool = FALSE]
<1>1. row[g] \in RowRec
  BY DEF Types
<1>2. r \in RowRec /\ r.st = s /\ r.acct = row[g].acct /\ r.tries = row[g].tries
  BY <1>1, RowForms
<1>3. row' = Write(a, g, r)
  BY DEF markOutcome
<1> HIDE DEF r
<1> QED BY <1>2, <1>3, WriteRow DEF Judged, Owns

LEMMA FailureJudges ==
    ASSUME Types, NEW a \in Accounts, NEW g \in Groups, NEW why, markEdgeFailure(a, g, why)
    PROVE  Judged(a, g, FALSE)
<1>1. CASE why = "login"
  <2>1. row[g] \in RowRec /\ row' = markRetryableFailure(a, g)
    BY <1>1 DEF Types, markEdgeFailure
  <2>2. PICK r \in RowRec : r.st # "joined" /\ r.acct = row[g].acct /\ r.tries = row[g].tries /\ row' = Write(a, g, r)
    <3>1. CASE row[g].tries >= MaxAttempts
      <4>1. row' = Write(a, g, [row[g] EXCEPT !.st = "failed"])
        BY <2>1, <3>1 DEF markRetryableFailure
      <4> QED BY <2>1, <4>1, RowForms, StatusFacts
    <3>2. CASE ~(row[g].tries >= MaxAttempts)
      <4>1. row' = Write(a, g, [row[g] EXCEPT !.st = "assigned", !.cool = TRUE])
        BY <2>1, <3>2 DEF markRetryableFailure
      <4> QED BY <2>1, <4>1, RowForms, StatusFacts
    <3> QED BY <3>1, <3>2
  <2> QED BY <2>2, WriteRow DEF Judged, Owns
<1>2. CASE why # "login"
  <2>1. PICK s \in {"pending", "no_button", "failed"} : row' = markOutcome(a, g, s)
    BY <1>2 DEF markEdgeFailure
  <2> QED BY <2>1, OutcomeJudges, StatusFacts
<1> QED BY <1>1, <1>2

\* A verdict ends the run.  A row that is joined is not judged again, except as joined.
LEMMA VerdictKeeps ==
    ASSUME JoinInv, NEW a \in Accounts, NEW g \in Groups, g = job[a].g, job[a].pc \in GroupRunning,
           NEW joins \in BOOLEAN, Judged(a, g, joins), job' = End(a),
           joins => <<a, g>> \in member' \cup crossed', ~joins => job[a].kind # "reconcile",
           forgotten' = forgotten, member \subseteq member', crossed \subseteq crossed', UNCHANGED <<cover, fresh>>,
           edge' \in [Accounts -> Seq(Requests)],
           \A b \in Accounts, h \in Groups : Dispatched(b, h)' => Dispatched(b, h)
    PROVE  JoinInv' /\ JoinedRowsStay
<1>1. JobOK(a)' /\ job' \in [Accounts -> JobRec]
  BY IdleOK DEF JoinInv
<1>2. Types'
  BY <1>1 DEF JoinInv, Types, Judged
<1>3. \A h \in Groups : DispatchOK(a, h)'
  BY DEF JoinInv, DispatchOK, Judged, Owns
<1>4. \A b \in Accounts \ {a} : job'[b] = job[b]
  BY DEF JoinInv, Types, End
<1>5. \A h \in Groups : row'[h] = row[h] \/ (row[h].acct \in {a, Nil} /\ row'[h].acct \in {a, Nil})
  BY DEF Judged, Owns
<1>6. \A h \in Groups : row'[h].st = "joined" =>
          \/ row[h].st = "joined" /\ row'[h].acct = row[h].acct
          \/ <<row'[h].acct, h>> \in member' \cup crossed'
  BY DEF Judged
<1>7. JoinInv'
  BY <1>1, <1>2, <1>3, <1>4, <1>5, <1>6, GroupStepKeeps
<1>8. ~joins /\ Owns(a, g) => row[g].st # "joined"
  BY StatusFacts DEF JoinInv, JobOK
<1>9. JoinedRowsStay
  BY <1>8 DEF JoinedRowsStay, Judged, Owns
<1> QED BY <1>7, <1>9

-----------------------------------------------------------------------------
(* The steps of a run *)

LEMMA JobStill ==
    ASSUME NEW a \in Accounts, JobOK(a), job'[a] = job[a], UNCHANGED <<row, forgotten>>,
           \A h \in Groups : Dispatched(a, h)' => Dispatched(a, h)
    PROVE  JobOK(a)'
BY DEF JobOK, Owns

\* The run goes on to a point where what it relies on is the same.
LEMMA JobMoves ==
    ASSUME JoinInv, NEW a \in Accounts, NEW pc \in GroupCounted \ {"hook"}, job[a].pc \in GroupCounted,
           job'[a].pc = pc, job'[a].kind = job[a].kind, job'[a].g = job[a].g,
           job[a].kind = "reconcile" => pc \in {"send", "observing"}, UNCHANGED <<row, forgotten>>
    PROVE  JobOK(a)'
<1>1. JobOK(a) /\ GroupCounted \subseteq GroupRunning /\ {"idle", "claim", "reset"} \cap GroupCounted = {}
  BY DEF JoinInv, GroupCounted, GroupRunning
<1> QED BY <1>1 DEF JobOK, Owns

LEMMA GotoJob ==
    ASSUME Types, NEW a \in Accounts, NEW pc \in Pcs, job' = RunAt(a, pc)
    PROVE  /\ job' \in [Accounts -> JobRec] /\ \A b \in Accounts \ {a} : job'[b] = job[b]
           /\ job'[a].pc = pc /\ job'[a].kind = job[a].kind /\ job'[a].g = job[a].g
<1>1. job[a] \in JobRec
  BY DEF Types
<1>2. [job[a] EXCEPT !.pc = pc] \in JobRec
  BY <1>1 DEF JobRec
<1>3. job' = [job EXCEPT ![a] = [job[a] EXCEPT !.pc = pc]]
  BY DEF RunAt
<1> QED BY <1>1, <1>2, <1>3 DEF Types, JobRec

LEMMA EndJob ==
    ASSUME JoinInv, NEW a \in Accounts, job' = End(a)
    PROVE  job' \in [Accounts -> JobRec] /\ JobOK(a)' /\ \A b \in Accounts \ {a} : job'[b] = job[b]
BY IdleOK DEF JoinInv, Types, End

\* A run that ends without a write.
LEMMA GroupEndKeeps ==
    ASSUME JoinInv, NEW a \in Accounts, job' = End(a), UNCHANGED <<row, forgotten, fresh, cover>>,
           member \subseteq member', crossed \subseteq crossed', edge' \in [Accounts -> Seq(Requests)],
           \A b \in Accounts, h \in Groups : Dispatched(b, h)' => Dispatched(b, h)
    PROVE  JoinInv' /\ JoinedRowsStay
<1>1. fresh' \in BOOLEAN /\ cover' \in [Accounts -> Groups \cup {Nil}]
  BY DEF JoinInv, Types
<1> QED BY <1>1, EndJob, NoWriteKeeps

LEMMA BeginKeeps ==
    ASSUME JoinInv, NEW a \in Accounts, NEW kind \in RunKinds, NEW pc \in {"claim", "specific", "send"},
           NEW g \in Groups \cup {Nil}, pc # "claim" => g \in Groups, kind = "reconcile" <=> pc = "send",
           Begin(a, kind, pc, g), UNCHANGED <<row, fresh, cover, edge, member, forgotten, crossed>>
    PROVE  JoinInv' /\ JoinedRowsStay
<1> DEFINE r == [pc |-> pc, kind |-> kind, g |-> g, again |-> FALSE]
<1>1. job' = [job EXCEPT ![a] = r] /\ r \in JobRec
  BY DEF Begin, JobRec, Pcs
<1>2. job' \in [Accounts -> JobRec] /\ job'[a] = r /\ \A b \in Accounts \ {a} : job'[b] = job[b]
  BY <1>1 DEF JoinInv, Types
<1>3. JobOK(a)'
  BY <1>2 DEF JobOK, GroupRunning, GroupCounted
<1>4. fresh' \in BOOLEAN /\ cover' \in [Accounts -> Groups \cup {Nil}] /\ edge' \in [Accounts -> Seq(Requests)]
  BY DEF JoinInv, Types
<1> QED BY <1>2, <1>3, <1>4, DispatchStill, NoWriteKeeps

\* A step that writes the row of its own group, and sends nothing.
LEMMA OwnWriteKeeps ==
    ASSUME JoinInv, NEW a \in Accounts, NEW g \in Groups, NEW r \in RowRec, row' = [row EXCEPT ![g] = r],
           forgotten \subseteq forgotten', UNCHANGED <<fresh, cover, edge, member, crossed>>,
           job' \in [Accounts -> JobRec], \A b \in Accounts \ {a} : job'[b] = job[b],
           r = row[g] \/ (row[g].acct \in {a, Nil} /\ r.acct \in {a, Nil} /\ r.st # "joined" /\ row[g].st # "joined"),
           JobOK(a)', DispatchOK(a, g)'
    PROVE  JoinInv' /\ JoinedRowsStay
<1>1. Types' /\ row'[g] = r /\ \A h \in Groups \ {g} : row'[h] = row[h]
  BY DEF JoinInv, Types
<1>2. ASSUME NEW h \in Groups PROVE DispatchOK(a, h)'
  <2>1. DispatchOK(a, h) /\ (Dispatched(a, h)' => Dispatched(a, h))
    BY DispatchStill DEF JoinInv
  <2> QED BY <1>1, <2>1 DEF DispatchOK, Owns
<1>3. \A b \in Accounts \ {a}, h \in Groups : Dispatched(b, h)' => Dispatched(b, h)
  BY DispatchStill
<1>4. \A h \in Groups : row'[h] = row[h] \/ (row[h].acct \in {a, Nil} /\ row'[h].acct \in {a, Nil})
  BY <1>1
<1>5. \A h \in Groups : row'[h].st = "joined" =>
          \/ row[h].st = "joined" /\ row'[h].acct = row[h].acct
          \/ <<row'[h].acct, h>> \in member' \cup crossed'
  BY <1>1
<1>6. JoinInv'
  BY <1>1, <1>2, <1>3, <1>4, <1>5, GroupStepKeeps
<1> QED BY <1>1, <1>6 DEF JoinedRowsStay

LEMMA NewRowFacts ==
    ASSUME JoinInv, NEW a \in Accounts
    PROVE  /\ NewRow(a) \in RowRec /\ NewRow(a).acct = a /\ NewRow(a).st = "assigned" /\ NewRow(a).tries = 0
           /\ NoRow \in RowRec /\ NoRow.acct = Nil /\ NoRow.st = "none" /\ Nil \notin Accounts
BY DEF JoinInv, JoinParameters, NewRow, NoRow, RowRec, Statuses, Open

\* The row at the three turns of an attempt: opened again, counted, taken back.
LEMMA OpenAgain ==
    ASSUME NEW r \in RowRec, NEW s, s = [r EXCEPT !.st = "assigned", !.cool = FALSE]
    PROVE  s \in RowRec /\ s.st = "assigned" /\ s.acct = r.acct /\ s.tries = r.tries
BY DEF RowRec, Statuses, Open

LEMMA CountedOnce ==
    ASSUME NEW r \in RowRec, NEW s, s = [r EXCEPT !.st = "joining", !.tries = @ + 1]
    PROVE  s \in RowRec /\ s.st = "joining" /\ s.acct = r.acct /\ s.tries = r.tries + 1 /\ r.tries \in Nat
<1>1. r.tries \in Nat /\ r.tries + 1 \in Nat /\ "joining" \in Statuses /\ FALSE \in BOOLEAN
  BY DEF RowRec, Statuses, Open
<1> DEFINE n == r.tries + 1
<1>2. s = [r EXCEPT !.st = "joining", !.tries = n]
  OBVIOUS
<1>3. n \in Nat
  BY <1>1
<1>4. s \in RowRec /\ s.st = "joining" /\ s.acct = r.acct /\ s.tries = n
  <2> HIDE DEF n
  <2> QED BY <1>1, <1>2, <1>3 DEF RowRec
<1> QED BY <1>1, <1>4

LEMMA TakenBack ==
    ASSUME NEW r \in RowRec, r.tries > 0, NEW s, s = [r EXCEPT !.st = "assigned", !.tries = @ - 1, !.cool = FALSE]
    PROVE  s \in RowRec /\ s.st = "assigned" /\ s.acct = r.acct /\ s.tries = r.tries - 1 /\ r.tries \in Nat
<1>1. r.tries \in Nat /\ r.tries - 1 \in Nat /\ "assigned" \in Statuses /\ FALSE \in BOOLEAN
  BY DEF RowRec, Statuses, Open
<1> DEFINE n == r.tries - 1
<1>2. s = [r EXCEPT !.st = "assigned", !.tries = n, !.cool = FALSE]
  OBVIOUS
<1>3. n \in Nat
  BY <1>1
<1>4. s \in RowRec /\ s.st = "assigned" /\ s.acct = r.acct /\ s.tries = n
  <2> HIDE DEF n
  <2> QED BY <1>1, <1>2, <1>3 DEF RowRec
<1> QED BY <1>1, <1>4

LEMMA KeepsClaimSpecific ==
    ASSUME JoinInv, NEW a \in Accounts, NEW g \in Groups, g = job[a].g, ClaimSpecific(a)
    PROVE  JoinInv' /\ JoinedRowsStay
<1>1. job[a].kind # "reconcile" /\ Types /\ UNCHANGED <<fresh, cover, edge, member, forgotten, crossed>>
  BY DEF JoinInv, JobOK, ClaimSpecific
<1>2. CASE row[g] = NoRow
  <2>1. PICK r : r = NewRow(a)
    OBVIOUS
  <2>2. r \in RowRec /\ r.acct = a /\ r.st = "assigned" /\ NoRow.acct = Nil /\ NoRow.st = "none" /\ Nil \notin Accounts
    BY <2>1, NewRowFacts
  <2>3. row' = [row EXCEPT ![g] = r] /\ job' = RunAt(a, "mark")
    BY <1>2, <2>1 DEF ClaimSpecific
  <2>4. row'[g] = r /\ \A h \in Groups \ {g} : row'[h] = row[h]
    BY <1>1, <2>3 DEF Types
  <2>5. DispatchOK(a, g)'
    <3>1. DispatchOK(a, g) /\ (Dispatched(a, g)' => Dispatched(a, g))
      BY <1>1, DispatchStill DEF JoinInv
    <3> QED BY <1>1, <1>2, <2>2, <2>4, <3>1 DEF DispatchOK, Owns
  <2>6. /\ job' \in [Accounts -> JobRec] /\ \A b \in Accounts \ {a} : job'[b] = job[b]
        /\ job'[a].pc = "mark" /\ job'[a].kind = job[a].kind /\ job'[a].g = g
    BY <1>1, <2>3, GotoJob DEF Pcs
  <2>7. JobOK(a)'
    BY <1>1, <2>2, <2>4, <2>6, StatusFacts DEF JobOK, GroupCounted, GroupRunning, Owns
  <2> QED BY <1>1, <1>2, <2>2, <2>3, <2>5, <2>6, <2>7, OwnWriteKeeps
<1>3. CASE row[g] # NoRow /\ ~(Owns(a, g) /\ row[g].st # "joined")
  <2>1. job' = End(a) /\ UNCHANGED row
    BY <1>3 DEF ClaimSpecific
  <2>2. edge' \in [Accounts -> Seq(Requests)] /\ \A b \in Accounts, h \in Groups : Dispatched(b, h)' => Dispatched(b, h)
    BY <1>1, DispatchStill DEF Types
  <2> QED BY <1>1, <2>1, <2>2, GroupEndKeeps
<1>4. CASE row[g] # NoRow /\ Owns(a, g) /\ row[g].st # "joined"
  <2>1. job' = RunAt(a, "reset") /\ UNCHANGED row
    BY <1>4 DEF ClaimSpecific
  <2>2. /\ job' \in [Accounts -> JobRec] /\ \A b \in Accounts \ {a} : job'[b] = job[b]
        /\ job'[a].pc = "reset" /\ job'[a].kind = job[a].kind /\ job'[a].g = g
    BY <1>1, <2>1, GotoJob DEF Pcs
  <2>3. JobOK(a)'
    BY <1>1, <1>4, <2>1, <2>2 DEF JobOK, GroupCounted, GroupRunning, Owns
  <2>4. /\ edge' \in [Accounts -> Seq(Requests)] /\ \A b \in Accounts, h \in Groups : Dispatched(b, h)' => Dispatched(b, h)
        /\ fresh' \in BOOLEAN /\ cover' \in [Accounts -> Groups \cup {Nil}]
    BY <1>1, DispatchStill DEF Types
  <2> QED BY <1>1, <2>1, <2>2, <2>3, <2>4, NoWriteKeeps
<1> QED BY <1>2, <1>3, <1>4

LEMMA KeepsResetSpecific ==
    ASSUME JoinInv, NEW a \in Accounts, NEW g \in Groups, g = job[a].g, ResetSpecific(a)
    PROVE  JoinInv' /\ JoinedRowsStay
<1>1. /\ Types /\ row[g] \in RowRec /\ UNCHANGED <<fresh, cover, edge, member, forgotten, crossed>>
      /\ row' = claimSpecific(a, g) /\ job' = RunAt(a, "mark") /\ job[a].pc = "reset"
  BY DEF JoinInv, Types, ResetSpecific
<1>2. job[a].kind # "reconcile" /\ (row[g].acct = a => row[g].st # "joined")
  BY <1>1 DEF JoinInv, JobOK, Owns
<1>3. PICK r \in RowRec :
         /\ row' = [row EXCEPT ![g] = r] /\ r.acct = row[g].acct /\ r.tries = row[g].tries
         /\ (row[g].acct = a /\ r.st = "assigned") \/ (row[g].acct # a /\ r = row[g])
  <2>1. CASE row[g].acct = a
    <3>1. PICK s : s = [row[g] EXCEPT !.st = "assigned", !.cool = FALSE]
      OBVIOUS
    <3>2. s \in RowRec /\ s.st = "assigned" /\ s.acct = row[g].acct /\ s.tries = row[g].tries
      BY <1>1, <3>1, OpenAgain
    <3>3. row' = [row EXCEPT ![g] = s]
      BY <1>1, <2>1, <3>1 DEF claimSpecific, Write, Owns
    <3> QED BY <2>1, <3>2, <3>3
  <2>2. CASE row[g].acct # a
    <3>1. row' = row /\ row = [row EXCEPT ![g] = row[g]]
      BY <1>1, <2>2 DEF claimSpecific, Write, Types, Owns
    <3> QED BY <1>1, <2>2, <3>1
  <2> QED BY <2>1, <2>2
<1>4. row'[g] = r /\ \A h \in Groups \ {g} : row'[h] = row[h]
  <2>1. row \in [Groups -> RowRec] /\ row' = [row EXCEPT ![g] = r]
    BY <1>1, <1>3 DEF Types
  <2> QED BY <2>1
<1>5. DispatchOK(a, g)'
  <2>1. DispatchOK(a, g) /\ (Dispatched(a, g)' => Dispatched(a, g))
    BY <1>1, DispatchStill DEF JoinInv
  <2> QED BY <1>1, <1>3, <1>4, <2>1 DEF DispatchOK, Owns
<1>6. /\ job' \in [Accounts -> JobRec] /\ \A b \in Accounts \ {a} : job'[b] = job[b]
      /\ job'[a].pc = "mark" /\ job'[a].kind = job[a].kind /\ job'[a].g = g
  BY <1>1, GotoJob DEF Pcs
<1>7. JobOK(a)'
  <2>1. row'[g].acct = a => row'[g].st \in Open
    BY <1>3, <1>4, StatusFacts
  <2> QED BY <1>2, <1>6, <2>1 DEF JobOK, GroupCounted, GroupRunning, Owns
<1>8. r = row[g] \/ (row[g].acct \in {a, Nil} /\ r.acct \in {a, Nil} /\ r.st # "joined" /\ row[g].st # "joined")
  BY <1>2, <1>3, StatusFacts
<1>9. row' = [row EXCEPT ![g] = r] /\ forgotten \subseteq forgotten' /\ UNCHANGED <<fresh, cover, edge, member, crossed>>
  BY <1>1, <1>3
<1> QED BY <1>5, <1>6, <1>7, <1>8, <1>9, OwnWriteKeeps

LEMMA KeepsrunReal ==
    ASSUME JoinInv, NEW a \in Accounts, runReal(a) PROVE JoinInv' /\ JoinedRowsStay
<1>1. job[a].kind # "reconcile" /\ Types /\ UNCHANGED <<fresh, cover, edge, member, forgotten, crossed>>
  BY DEF JoinInv, JobOK, runReal
<1>2. fresh' \in BOOLEAN /\ cover' \in [Accounts -> Groups \cup {Nil}] /\ edge' \in [Accounts -> Seq(Requests)]
  BY <1>1 DEF Types
<1>3. ASSUME NEW h \in Groups, job' = [job EXCEPT ![a].pc = "revalidate", ![a].g = h]
      PROVE  job' \in [Accounts -> JobRec] /\ JobOK(a)' /\ \A b \in Accounts \ {a} : job'[b] = job[b]
  <2>1. [job[a] EXCEPT !.pc = "revalidate", !.g = h] \in JobRec /\ job[a] \in JobRec
    BY <1>1 DEF Types, JobRec, Pcs
  <2>2. job' = [job EXCEPT ![a] = [job[a] EXCEPT !.pc = "revalidate", !.g = h]]
    BY <1>1, <1>3, <2>1 DEF Types
  <2>3. /\ job' \in [Accounts -> JobRec] /\ \A b \in Accounts \ {a} : job'[b] = job[b]
        /\ job'[a].pc = "revalidate" /\ job'[a].g = h /\ job'[a].kind = job[a].kind
    BY <1>1, <2>1, <2>2 DEF Types, JobRec
  <2> QED BY <1>1, <2>3 DEF JobOK, GroupRunning, GroupCounted
<1>4. CASE \E h \in currentAssignment(a) : job' = [job EXCEPT ![a].pc = "revalidate", ![a].g = h] /\ UNCHANGED row
  <2>1. PICK h \in Groups : job' = [job EXCEPT ![a].pc = "revalidate", ![a].g = h] /\ UNCHANGED row
    BY <1>4 DEF currentAssignment, OpenOf
  <2> QED BY <1>1, <1>2, <1>3, <2>1, DispatchStill, NoWriteKeeps
<1>5. CASE \E h \in claimNext(a) : /\ row' = [row EXCEPT ![h] = NewRow(a)]
                                   /\ job' = [job EXCEPT ![a].pc = "revalidate", ![a].g = h]
  <2>1. PICK h \in Groups : /\ row[h] = NoRow /\ row' = [row EXCEPT ![h] = NewRow(a)]
                            /\ job' = [job EXCEPT ![a].pc = "revalidate", ![a].g = h]
    BY <1>5 DEF claimNext
  <2>2. DispatchOK(a, h)'
    BY <1>1, <2>1, NewRowFacts, DispatchStill DEF JoinInv, DispatchOK, Owns
  <2> QED BY <1>1, <1>3, <2>1, <2>2, NewRowFacts, OwnWriteKeeps
<1>6. CASE job' = End(a) /\ UNCHANGED row
  BY <1>1, <1>2, <1>6, DispatchStill, GroupEndKeeps
<1> QED BY <1>4, <1>5, <1>6 DEF runReal

\* A row whose assignment is out of scope is deleted by its own run; what may have been sent is remembered.
LEMMA KeepsrevalidateScopedAssignment ==
    ASSUME JoinInv, NEW a \in Accounts, NEW g \in Groups, g = job[a].g, revalidateScopedAssignment(a)
    PROVE  JoinInv' /\ JoinedRowsStay
<1>1. job[a].kind # "reconcile" /\ Types /\ UNCHANGED <<fresh, cover, edge, member, crossed>>
  BY DEF JoinInv, JobOK, revalidateScopedAssignment
<1>2. PICK gone \in BOOLEAN :
        /\ gone => Owns(a, g) /\ row[g].st \in Open
        /\ row' = IF gone THEN [row EXCEPT ![g] = NoRow] ELSE row
        /\ forgotten' = IF gone THEN Forget({g}) ELSE forgotten
        /\ job' = IF fresh /\ ~gone /\ Owns(a, g) /\ row[g].st \in Open THEN RunAt(a, "mark") ELSE End(a)
  BY DEF revalidateScopedAssignment
<1>3. CASE gone
  <2>1. row' = [row EXCEPT ![g] = NoRow] /\ forgotten' = Forget({g}) /\ job' = End(a)
    BY <1>2, <1>3
  <2>2. DispatchOK(a, g)'
    BY <1>1, <2>1, NewRowFacts, DispatchStill DEF JoinInv, DispatchOK, Owns, Forget
  <2>3. row[g].acct = a /\ row[g].st # "joined" /\ forgotten \subseteq forgotten'
    BY <1>2, <1>3, <2>1, StatusFacts DEF Owns, Forget
  <2> QED BY <1>1, <2>1, <2>2, <2>3, EndJob, NewRowFacts, OwnWriteKeeps
<1>4. CASE ~gone /\ job' = RunAt(a, "mark") /\ row[g].st \in Open
  <2>1. /\ job' \in [Accounts -> JobRec] /\ \A b \in Accounts \ {a} : job'[b] = job[b]
        /\ job'[a].pc = "mark" /\ job'[a].kind = job[a].kind /\ job'[a].g = g
    BY <1>1, <1>4, GotoJob DEF Pcs
  <2>2. UNCHANGED <<row, forgotten>>
    BY <1>2, <1>4
  <2>3. JobOK(a)'
    BY <1>1, <1>4, <2>1, <2>2 DEF JobOK, GroupCounted, GroupRunning
  <2>4. fresh' \in BOOLEAN /\ cover' \in [Accounts -> Groups \cup {Nil}] /\ edge' \in [Accounts -> Seq(Requests)]
    BY <1>1 DEF Types
  <2> QED BY <1>1, <2>1, <2>2, <2>3, <2>4, DispatchStill, NoWriteKeeps
<1>5. CASE ~gone /\ job' = End(a)
  <2>1. UNCHANGED <<row, forgotten>> /\ edge' \in [Accounts -> Seq(Requests)]
    BY <1>1, <1>2, <1>5 DEF Types
  <2> QED BY <1>1, <1>5, <2>1, DispatchStill, GroupEndKeeps
<1> QED BY <1>2, <1>3, <1>4, <1>5

\* The attempt is counted before anything is sent: what a mode's run may take back is one of two.
LEMMA KeepsMarkJoining ==
    ASSUME JoinInv, NEW a \in Accounts, NEW g \in Groups, g = job[a].g, MarkJoining(a)
    PROVE  JoinInv' /\ JoinedRowsStay
<1>1. job[a].kind # "reconcile" /\ Types /\ UNCHANGED <<fresh, cover, edge, member, forgotten, crossed>>
  BY DEF JoinInv, JobOK, MarkJoining
<1>2. CASE /\ Owns(a, g) /\ row[g].st \in Open
           /\ row' = [row EXCEPT ![g] = markJoining(a, g)]
           /\ job' = RunAt(a, IF job[a].kind = "mode" THEN "hook" ELSE "send")
  <2>1. row[g] \in RowRec
    BY <1>1 DEF Types
  <2>2. PICK r : r = [row[g] EXCEPT !.st = "joining", !.tries = @ + 1]
    OBVIOUS
  <2>3. /\ r \in RowRec /\ r.acct = a /\ r.st \in Open /\ r.st # "joined" /\ r.tries = row[g].tries + 1
        /\ row[g].acct = a /\ row[g].st # "joined" /\ row[g].tries \in Nat
    <3>1. r \in RowRec /\ r.st = "joining" /\ r.acct = row[g].acct /\ r.tries = row[g].tries + 1 /\ row[g].tries \in Nat
      BY <2>1, <2>2, CountedOnce
    <3> QED BY <1>2, <3>1, StatusFacts DEF Owns
  <2>4. row' = [row EXCEPT ![g] = r]
    BY <1>2, <2>2 DEF markJoining
  <2>5. row'[g] = r
    BY <1>1, <2>4 DEF Types
  <2>6. DispatchOK(a, g) /\ (Dispatched(a, g)' => Dispatched(a, g))
    BY <1>1, DispatchStill DEF JoinInv
  <2>7. DispatchOK(a, g)'
    BY <1>1, <2>3, <2>5, <2>6 DEF DispatchOK, Owns
  <2>8. PICK pc \in {"hook", "send"} : job' = RunAt(a, pc)
    BY <1>2
  <2>9. /\ job' \in [Accounts -> JobRec] /\ \A b \in Accounts \ {a} : job'[b] = job[b]
        /\ job'[a].pc = pc /\ job'[a].kind = job[a].kind /\ job'[a].g = g
    BY <1>1, <2>8, GotoJob DEF Pcs
  <2>10. Owns(a, g)' /\ row'[g].st \in Open /\ row'[g].tries > 0 /\ (row[g].tries > 0 => row'[g].tries > 1)
    BY <2>3, <2>5 DEF Owns
  <2>11. Dispatched(a, g)' /\ g \notin forgotten' => row'[g].tries > 1
    BY <1>1, <2>6, <2>10 DEF DispatchOK
  <2>12. JobOK(a)'
    BY <1>1, <2>9, <2>10, <2>11 DEF JobOK, GroupCounted, GroupRunning
  <2> QED BY <1>1, <2>3, <2>4, <2>7, <2>9, <2>12, OwnWriteKeeps
<1>3. CASE job' = End(a) /\ UNCHANGED row
  <2>1. edge' \in [Accounts -> Seq(Requests)]
    BY <1>1 DEF Types
  <2> QED BY <1>1, <1>3, <2>1, DispatchStill, GroupEndKeeps
<1> QED BY <1>2, <1>3 DEF MarkJoining

LEMMA KeepsBeforeDispatch ==
    ASSUME JoinInv, NEW a \in Accounts, NEW g \in Groups, g = job[a].g, BeforeDispatch(a)
    PROVE  JoinInv' /\ JoinedRowsStay
<1>1. /\ job[a].kind # "reconcile" /\ job[a].pc = "hook" /\ Types
      /\ UNCHANGED <<fresh, cover, edge, member, forgotten, crossed>>
  BY DEF JoinInv, JobOK, BeforeDispatch
<1>2. edge' \in [Accounts -> Seq(Requests)] /\ fresh' \in BOOLEAN /\ cover' \in [Accounts -> Groups \cup {Nil}]
  BY <1>1 DEF Types
<1>3. CASE job' = RunAt(a, "send") /\ UNCHANGED row
  <2>1. /\ job' \in [Accounts -> JobRec] /\ \A b \in Accounts \ {a} : job'[b] = job[b]
        /\ job'[a].pc = "send" /\ job'[a].kind = job[a].kind /\ job'[a].g = job[a].g
    BY <1>1, <1>3, GotoJob DEF Pcs
  <2>2. JobOK(a)'
    BY <1>1, <1>3, <2>1, JobMoves DEF GroupCounted, GroupRunning
  <2> QED BY <1>1, <1>2, <1>3, <2>1, <2>2, DispatchStill, NoWriteKeeps
<1>4. CASE row' = Write(a, g, releaseModeJoining(a, g)) /\ job' = End(a)
  <2>1. CASE ~Owns(a, g) \/ row[g].st # "joining"
    <3>1. UNCHANGED row
      BY <1>1, <1>4, <2>1 DEF Write, releaseModeJoining, Types
    <3> QED BY <1>1, <1>2, <1>4, <3>1, DispatchStill, GroupEndKeeps
  <2>2. CASE Owns(a, g) /\ row[g].st = "joining"
    <3>1. row[g] \in RowRec /\ row[g].tries > 0 /\ (Dispatched(a, g) /\ g \notin forgotten => row[g].tries > 1)
      BY <1>1, <2>2 DEF JoinInv, JobOK, Types, GroupCounted, GroupRunning
    <3>2. PICK r : r = [row[g] EXCEPT !.st = "assigned", !.tries = @ - 1, !.cool = FALSE]
      OBVIOUS
    <3>3. r \in RowRec /\ r.acct = a /\ r.st = "assigned" /\ r.tries = row[g].tries - 1 /\ row[g].acct = a
      <4>1. r \in RowRec /\ r.st = "assigned" /\ r.acct = row[g].acct /\ r.tries = row[g].tries - 1
        BY <3>1, <3>2, TakenBack
      <4> QED BY <2>2, <4>1 DEF Owns
    <3>4. row' = [row EXCEPT ![g] = r]
      BY <1>4, <2>2, <3>2 DEF Write, releaseModeJoining
    <3>5. row'[g] = r /\ row[g].tries \in Nat
      BY <1>1, <3>1, <3>4 DEF Types, RowRec
    <3>6. DispatchOK(a, g)'
      BY <1>1, <3>1, <3>3, <3>5, DispatchStill DEF DispatchOK, Owns
    <3> QED BY <1>1, <1>4, <2>2, <3>3, <3>4, <3>6, EndJob, OwnWriteKeeps
  <2> QED BY <2>1, <2>2
<1> QED BY <1>1, <1>3, <1>4 DEF BeforeDispatch

-----------------------------------------------------------------------------
(* The edge *)

\* A request under way is a dispatch of an attempt that was counted.
LEMMA KeepsSent ==
    ASSUME JoinInv, NEW a \in Accounts, NEW g \in Groups, g = job[a].g, NEW click \in BOOLEAN,
           click <=> job[a].pc = "click", job[a].pc \in {"send", "click"},
           edge' = [edge EXCEPT ![a] = Append(@, [g |-> g, click |-> click])],
           job' = RunAt(a, IF click THEN "clicking" ELSE "observing"),
           UNCHANGED <<row, fresh, cover, member, forgotten, crossed>>
    PROVE  JoinInv' /\ JoinedRowsStay
<1> DEFINE q == [g |-> g, click |-> click]
<1>1. Types /\ q \in Requests
  BY DEF JoinInv, Requests
<1>2. edge[a] \in Seq(Requests) /\ edge'[a] = Append(edge[a], q) /\ \A b \in Accounts \ {a} : edge'[b] = edge[b]
  BY <1>1 DEF Types
<1>3. edge' \in [Accounts -> Seq(Requests)]
  BY <1>1, <1>2 DEF Types
<1>4. \A b \in Accounts \ {a}, h \in Groups : Dispatched(b, h)' => Dispatched(b, h)
  BY <1>2 DEF Dispatched, Clicked
<1>5. ASSUME NEW h \in Groups, Dispatched(a, h)' PROVE Dispatched(a, h) \/ (h = g /\ click)
  <2>1. CASE Clicked(a, h)'
    <3>1. PICK i \in 1..Len(edge'[a]) : edge'[a][i].g = h /\ edge'[a][i].click
      BY <2>1 DEF Clicked
    <3>2. Len(edge'[a]) = Len(edge[a]) + 1 /\ edge'[a][i] = IF i <= Len(edge[a]) THEN edge[a][i] ELSE q
      BY <1>1, <1>2, <3>1
    <3>3. CASE i <= Len(edge[a])
      BY <3>1, <3>2, <3>3 DEF Dispatched, Clicked
    <3>4. CASE ~(i <= Len(edge[a]))
      BY <3>1, <3>2, <3>4
    <3> QED BY <3>3, <3>4
  <2>2. CASE <<a, h>> \in member'
    BY <2>2 DEF Dispatched
  <2> QED BY <1>5, <2>1, <2>2 DEF Dispatched
<1>6. PICK pc \in {"clicking", "observing"} : job' = RunAt(a, pc) /\ (pc = "clicking" <=> click)
  OBVIOUS
<1>7. /\ job' \in [Accounts -> JobRec] /\ \A b \in Accounts \ {a} : job'[b] = job[b]
      /\ job'[a].pc = pc /\ job'[a].kind = job[a].kind /\ job'[a].g = job[a].g
  BY <1>1, <1>6, GotoJob DEF Pcs
<1>8. JobOK(a) /\ job[a].pc \in GroupCounted
  BY DEF JoinInv, GroupCounted, GroupRunning
<1>9. job[a].kind = "reconcile" => pc = "observing"
  BY <1>6, <1>8 DEF JobOK
<1>10. JobOK(a)'
  BY <1>6, <1>7, <1>8, <1>9, JobMoves DEF GroupCounted, GroupRunning
<1>11. click => (g \notin forgotten => Owns(a, g) /\ row[g].tries > 0)
  BY <1>8 DEF JobOK
<1>12. ASSUME NEW h \in Groups PROVE DispatchOK(a, h)'
  <2>1. DispatchOK(a, h)
    BY DEF JoinInv
  <2> QED BY <1>5, <1>11, <2>1 DEF DispatchOK, Owns
<1>13. Types'
  BY <1>1, <1>3, <1>7 DEF Types
<1>14. JoinInv'
  BY <1>4, <1>7, <1>10, <1>12, <1>13, GroupStepKeeps
<1> QED BY <1>14 DEF JoinedRowsStay

\* A failure that is recorded ends the run; a reconciliation records none.
LEMMA KeepsFailure ==
    ASSUME JoinInv, NEW a \in Accounts, NEW g \in Groups, g = job[a].g, job[a].pc \in {"send", "click", "observing", "clicking"},
           NEW why, job' = End(a), UNCHANGED <<fresh, cover, edge, member, forgotten, crossed>>,
           IF job[a].kind = "reconcile" THEN UNCHANGED <<target, row>> ELSE markEdgeFailure(a, g, why)
    PROVE  JoinInv' /\ JoinedRowsStay
<1>1. Types /\ edge' \in [Accounts -> Seq(Requests)]
  BY DEF JoinInv, Types
<1>2. CASE job[a].kind = "reconcile"
  BY <1>1, <1>2, DispatchStill, GroupEndKeeps
<1>3. CASE job[a].kind # "reconcile"
  <2>1. Judged(a, g, FALSE)
    BY <1>1, <1>3, FailureJudges
  <2>2. job[a].pc \in GroupRunning
    BY DEF GroupRunning
  <2> QED BY <1>1, <1>3, <2>1, <2>2, DispatchStill, VerdictKeeps
<1> QED BY <1>2, <1>3

LEMMA KeepsRequest ==
    ASSUME JoinInv, NEW a \in Accounts, NEW g \in Groups, g = job[a].g, Request(a) PROVE JoinInv' /\ JoinedRowsStay
<1>1. job[a].pc \in {"send", "click"} /\ UNCHANGED <<fresh, cover, member, forgotten, crossed>>
  BY DEF Request
<1>2. PICK click \in BOOLEAN : click <=> job[a].pc = "click"
  OBVIOUS
<1>3. CASE /\ edge' = [edge EXCEPT ![a] = Append(@, [g |-> g, click |-> click])]
           /\ job' = RunAt(a, IF click THEN "clicking" ELSE "observing") /\ UNCHANGED row
  BY <1>1, <1>2, <1>3, KeepsSent
<1>4. CASE /\ job' = End(a) /\ UNCHANGED edge
           /\ IF job[a].kind = "reconcile" THEN UNCHANGED <<target, row>> ELSE markEdgeFailure(a, g, "lease")
  BY <1>1, <1>4, KeepsFailure
<1> QED BY <1>2, <1>3, <1>4 DEF Request

LEMMA KeepsStepTimeout ==
    ASSUME JoinInv, NEW a \in Accounts, NEW g \in Groups, g = job[a].g, StepTimeout(a) PROVE JoinInv' /\ JoinedRowsStay
BY KeepsFailure DEF StepTimeout

LEMMA GroupTailFacts ==
    ASSUME Types, NEW a \in Accounts, edge[a] # <<>>, edge' = [edge EXCEPT ![a] = Tail(@)]
    PROVE  /\ edge' \in [Accounts -> Seq(Requests)] /\ Head(edge[a]) \in Requests
           /\ \A b \in Accounts, h \in Groups : Clicked(b, h)' => Clicked(b, h)
           /\ Head(edge[a]).click => Clicked(a, Head(edge[a]).g)
<1>1. edge[a] \in Seq(Requests) /\ edge'[a] = Tail(edge[a]) /\ \A b \in Accounts \ {a} : edge'[b] = edge[b]
  BY DEF Types
<1>2. edge' \in [Accounts -> Seq(Requests)]
  BY <1>1 DEF Types
<1>3. Len(edge[a]) \in Nat /\ Len(edge[a]) >= 1 /\ Head(edge[a]) = edge[a][1] /\ Head(edge[a]) \in Requests
  BY <1>1
<1>4. Len(Tail(edge[a])) = Len(edge[a]) - 1 /\ \A i \in 1..Len(Tail(edge[a])) : Tail(edge[a])[i] = edge[a][i + 1]
  BY <1>1, <1>3
<1>5. ASSUME NEW h \in Groups, Clicked(a, h)' PROVE Clicked(a, h)
  <2>1. PICK i \in 1..Len(Tail(edge[a])) : Tail(edge[a])[i].g = h /\ Tail(edge[a])[i].click
    BY <1>1, <1>5 DEF Clicked
  <2>2. i + 1 \in 1..Len(edge[a]) /\ edge[a][i + 1].g = h /\ edge[a][i + 1].click
    BY <1>3, <1>4, <2>1
  <2> QED BY <2>2 DEF Clicked
<1>6. \A b \in Accounts, h \in Groups : Clicked(b, h)' => Clicked(b, h)
  <2> SUFFICES ASSUME NEW b \in Accounts, NEW h \in Groups, Clicked(b, h)' PROVE Clicked(b, h)
    OBVIOUS
  <2>1. CASE b = a
    BY <1>5, <2>1
  <2>2. CASE b # a
    BY <1>1, <2>2 DEF Clicked
  <2> QED BY <2>1, <2>2
<1>7. Head(edge[a]).click => Clicked(a, Head(edge[a]).g)
  BY <1>3 DEF Clicked
<1> QED BY <1>2, <1>3, <1>6, <1>7

\* An answer may come from another request, which is what crossed records; a verdict of membership is
\* otherwise earned, because a page shows a member only to one.
LEMMA KeepsAnswered ==
    ASSUME JoinInv, NEW a \in Accounts, NEW g \in Groups, g = job[a].g, job[a].pc \in {"observing", "clicking"},
           NEW rg \in Groups, NEW rc \in BOOLEAN, NEW pre, NEW post,
           pre \in Sees(<<a, rg>> \in member), post \in (IF rc THEN Sees(<<a, rg>> \in member') ELSE {pre}),
           Answered(a, [g |-> rg, click |-> rc, pre |-> pre, post |-> post]),
           member \subseteq member', UNCHANGED <<fresh, cover, forgotten>>, edge' \in [Accounts -> Seq(Requests)],
           \A b \in Accounts, h \in Groups : Dispatched(b, h)' => Dispatched(b, h)
    PROVE  JoinInv' /\ JoinedRowsStay
<1> DEFINE ans == [g |-> rg, click |-> rc, pre |-> pre, post |-> post]
<1>1. Types /\ JobOK(a) /\ job[a].pc \in GroupRunning /\ crossed \subseteq crossed'
  BY DEF JoinInv, GroupRunning, Answered
<1>2. fresh' \in BOOLEAN /\ cover' \in [Accounts -> Groups \cup {Nil}]
  BY <1>1 DEF Types
<1>3. /\ pre = "member" => <<a, rg>> \in member
      /\ post = "member" /\ rc => <<a, rg>> \in member'
  BY DEF Sees
<1>4. CASE job[a].kind = "reconcile"
  <2>1. Reconciled(a, g, ans)
    BY <1>4 DEF Answered
  <2>2. job' = End(a) /\ row' = IF rg = g /\ ~rc /\ pre = "member" THEN markJoined(a, g) ELSE row
    BY <2>1 DEF Reconciled
  <2>3. CASE rg = g /\ pre = "member" /\ row' = markJoined(a, g)
    <3>1. Judged(a, g, TRUE) /\ <<a, g>> \in member'
      BY <1>1, <1>3, <2>3, JoinedJudges
    <3> QED BY <1>1, <2>2, <3>1, VerdictKeeps
  <2>4. CASE UNCHANGED row
    BY <1>1, <2>2, <2>4, GroupEndKeeps
  <2> QED BY <2>2, <2>3, <2>4
<1>5. CASE job[a].kind # "reconcile" /\ job[a].pc = "observing"
  <2>1. /\ crossed' = IF rg # g \/ rc THEN crossed \cup {<<a, g>>} ELSE crossed
        /\ handlePreVerdict(a, g, pre)
    BY <1>5 DEF Answered
  <2>2. CASE job' = RunAt(a, "click") /\ UNCHANGED row
    <3>1. /\ job' \in [Accounts -> JobRec] /\ \A b \in Accounts \ {a} : job'[b] = job[b]
          /\ job'[a].pc = "click" /\ job'[a].kind = job[a].kind /\ job'[a].g = job[a].g
      BY <1>1, <2>2, GotoJob DEF Pcs
    <3>2. JobOK(a)'
      BY <1>5, <2>2, <3>1, JobMoves DEF GroupCounted, GroupRunning
    <3> QED BY <1>1, <1>2, <2>2, <3>1, <3>2, NoWriteKeeps
  <2>3. CASE pre = "member" /\ row' = markJoined(a, g) /\ job' = End(a)
    <3>1. Judged(a, g, TRUE) /\ <<a, g>> \in member' \cup crossed'
      BY <1>1, <1>3, <2>1, <2>3, JoinedJudges
    <3> QED BY <1>1, <2>3, <3>1, VerdictKeeps
  <2>4. CASE row' = markOutcome(a, g, "gated") /\ job' = End(a)
    <3>1. Judged(a, g, FALSE)
      BY <1>1, <2>4, OutcomeJudges, StatusFacts
    <3> QED BY <1>1, <1>5, <2>4, <3>1, VerdictKeeps
  <2>5. CASE job' = [job EXCEPT ![a].pc = "send", ![a].again = TRUE] /\ UNCHANGED row
    <3>1. [job[a] EXCEPT !.pc = "send", !.again = TRUE] \in JobRec /\ job[a] \in JobRec
      BY <1>1 DEF Types, JobRec, Pcs
    <3>2. job' = [job EXCEPT ![a] = [job[a] EXCEPT !.pc = "send", !.again = TRUE]]
      BY <1>1, <2>5, <3>1 DEF Types
    <3>3. /\ job' \in [Accounts -> JobRec] /\ \A b \in Accounts \ {a} : job'[b] = job[b]
          /\ job'[a].pc = "send" /\ job'[a].kind = job[a].kind /\ job'[a].g = job[a].g
      BY <1>1, <3>1, <3>2 DEF Types, JobRec
    <3>4. JobOK(a)'
      BY <1>5, <2>5, <3>3, JobMoves DEF GroupCounted, GroupRunning
    <3> QED BY <1>1, <1>2, <2>5, <3>3, <3>4, NoWriteKeeps
  <2>6. CASE markEdgeFailure(a, g, pre) /\ job' = End(a)
    <3>1. Judged(a, g, FALSE)
      BY <1>1, <2>6, FailureJudges
    <3> QED BY <1>1, <1>5, <2>6, <3>1, VerdictKeeps
  <2> QED BY <2>1, <2>2, <2>3, <2>4, <2>5, <2>6 DEF handlePreVerdict
<1>6. CASE job[a].kind # "reconcile" /\ job[a].pc = "clicking"
  <2>1. /\ crossed' = IF rg # g \/ ~rc THEN crossed \cup {<<a, g>>} ELSE crossed
        /\ handlePostVerdict(a, g, post) /\ job' = End(a)
    BY <1>6 DEF Answered, handlePostVerdict
  <2>2. CASE post = "member" /\ row' = markJoined(a, g)
    <3>1. Judged(a, g, TRUE) /\ <<a, g>> \in member' \cup crossed'
      BY <1>1, <1>3, <2>1, <2>2, JoinedJudges
    <3> QED BY <1>1, <2>1, <3>1, VerdictKeeps
  <2>3. CASE row' = markOutcome(a, g, "pending")
    <3>1. Judged(a, g, FALSE)
      BY <1>1, <2>3, OutcomeJudges, StatusFacts
    <3> QED BY <1>1, <1>6, <2>1, <3>1, VerdictKeeps
  <2>4. CASE markEdgeFailure(a, g, post)
    <3>1. Judged(a, g, FALSE)
      BY <1>1, <2>4, FailureJudges
    <3> QED BY <1>1, <1>6, <2>1, <3>1, VerdictKeeps
  <2> QED BY <2>1, <2>2, <2>3, <2>4 DEF handlePostVerdict
<1> QED BY <1>4, <1>5, <1>6

LEMMA KeepsEdgeAnswers ==
    ASSUME JoinInv, NEW a \in Accounts, EdgeAnswers(a) PROVE JoinInv' /\ JoinedRowsStay
<1>1. PICK rg \in Groups, rc \in BOOLEAN : Head(edge[a]).g = rg /\ Head(edge[a]).click = rc
  BY GroupTailFacts DEF JoinInv, EdgeAnswers, Requests
<1>2. /\ edge' \in [Accounts -> Seq(Requests)] /\ \A b \in Accounts, h \in Groups : Clicked(b, h)' => Clicked(b, h)
      /\ rc => Clicked(a, rg)
  BY <1>1, GroupTailFacts DEF JoinInv, EdgeAnswers
<1>3. UNCHANGED <<fresh, cover, forgotten>> /\ fresh' \in BOOLEAN /\ cover' \in [Accounts -> Groups \cup {Nil}]
  BY DEF JoinInv, Types, EdgeAnswers
<1>4. PICK lands \in {FALSE, rc}, pre \in Sees(<<a, rg>> \in member) :
        /\ member' = member \cup (IF lands THEN {<<a, rg>>} ELSE {})
        /\ IF job[a].pc \in {"observing", "clicking"}
           THEN \E post \in (IF rc THEN Sees(<<a, rg>> \in member') ELSE {pre}) :
                  Answered(a, [g |-> rg, click |-> rc, pre |-> pre, post |-> post])
           ELSE UNCHANGED <<row, job, crossed>>
  BY <1>1 DEF EdgeAnswers
<1>5. member \subseteq member' /\ \A b \in Accounts, h \in Groups : Dispatched(b, h)' => Dispatched(b, h)
  <2>1. \A b \in Accounts, h \in Groups : <<b, h>> \in member' => <<b, h>> \in member \/ (b = a /\ h = rg /\ rc)
    <3>1. CASE lands
      <4>1. member' = member \cup {<<a, rg>>} /\ rc
        BY <1>4, <3>1
      <4> QED BY <4>1
    <3>2. CASE ~lands
      <4>1. member' = member
        BY <1>4, <3>2
      <4> QED BY <4>1
    <3> QED BY <3>1, <3>2
  <2>2. \A b \in Accounts, h \in Groups : (b = a /\ h = rg /\ rc) => Clicked(b, h)
    BY <1>2
  <2>3. member \subseteq member'
    BY <1>4
  <2> QED BY <1>2, <2>1, <2>2, <2>3 DEF Dispatched
<1>6. CASE job[a].pc \in {"observing", "clicking"}
  <2>1. PICK post \in (IF rc THEN Sees(<<a, rg>> \in member') ELSE {pre}) :
           Answered(a, [g |-> rg, click |-> rc, pre |-> pre, post |-> post])
    BY <1>4, <1>6
  <2>2. PICK g \in Groups : g = job[a].g
    BY <1>6 DEF JoinInv, JobOK
  <2> QED BY <1>2, <1>3, <1>4, <1>5, <1>6, <2>1, <2>2, KeepsAnswered
<1>7. CASE ~(job[a].pc \in {"observing", "clicking"})
  <2>1. UNCHANGED <<row, job, crossed>> /\ job' \in [Accounts -> JobRec] /\ JobOK(a)
    BY <1>4, <1>7 DEF JoinInv, Types
  <2>2. JobOK(a)'
    BY <1>3, <1>5, <2>1, JobStill
  <2> QED BY <1>2, <1>3, <1>5, <2>1, <2>2, NoWriteKeeps
<1> QED BY <1>6, <1>7

LEMMA KeepsEdgeGone ==
    ASSUME JoinInv, NEW a \in Accounts, EdgeGone(a) PROVE JoinInv' /\ JoinedRowsStay
<1>1. UNCHANGED <<row, fresh, job, cover, member, forgotten, crossed>> /\ edge' = [edge EXCEPT ![a] = <<>>] /\ Types /\ JobOK(a)
  BY DEF JoinInv, EdgeGone
<1>2. edge' \in [Accounts -> Seq(Requests)] /\ edge'[a] = <<>> /\ \A b \in Accounts \ {a} : edge'[b] = edge[b]
  BY <1>1 DEF Types
<1>3. \A b \in Accounts, h \in Groups : Dispatched(b, h)' => Dispatched(b, h)
  BY <1>1, <1>2 DEF Dispatched, Clicked
<1>4. JobOK(a)' /\ job' \in [Accounts -> JobRec] /\ fresh' \in BOOLEAN /\ cover' \in [Accounts -> Groups \cup {Nil}]
  BY <1>1, <1>3, JobStill DEF Types
<1> QED BY <1>1, <1>2, <1>3, <1>4, NoWriteKeeps

LEMMA KeepsAbandon ==
    ASSUME JoinInv, NEW a \in Accounts, Abandon(a) PROVE JoinInv' /\ JoinedRowsStay
<1>1. job' = End(a) /\ UNCHANGED <<row, fresh, cover, edge, member, forgotten, crossed>> /\ edge' \in [Accounts -> Seq(Requests)]
  BY DEF JoinInv, Types, Abandon
<1> QED BY <1>1, DispatchStill, GroupEndKeeps

-----------------------------------------------------------------------------
(* Coverage, the operator and time *)

LEMMA KeepsStartCoverage ==
    ASSUME JoinInv, NEW a \in Accounts, StartCoverage(a) PROVE JoinInv' /\ JoinedRowsStay
<1>1. UNCHANGED <<row, fresh, job, edge, member, forgotten, crossed>> /\ Types /\ JobOK(a)
  BY DEF JoinInv, StartCoverage
<1>2. PICK g \in Groups : cover' = [cover EXCEPT ![a] = g]
  BY DEF StartCoverage, coverageCandidates
<1>3. /\ cover' \in [Accounts -> Groups \cup {Nil}] /\ job' \in [Accounts -> JobRec] /\ fresh' \in BOOLEAN
      /\ edge' \in [Accounts -> Seq(Requests)]
  BY <1>1, <1>2 DEF Types
<1>4. JobOK(a)'
  BY <1>1, DispatchStill, JobStill
<1> QED BY <1>1, <1>3, <1>4, DispatchStill, NoWriteKeeps

\* Coverage writes only a joined row, which no run of the account has open.
LEMMA KeepsEndCoverage ==
    ASSUME JoinInv, NEW a \in Accounts, EndCoverage(a) PROVE JoinInv' /\ JoinedRowsStay
<1>1. UNCHANGED <<fresh, job, edge, member, forgotten, crossed>> /\ Types /\ JobOK(a)
  BY DEF JoinInv, EndCoverage
<1>2. PICK g \in Groups : g = cover[a]
  BY <1>1 DEF JoinInv, JoinParameters, EndCoverage, Types
<1>3. row[g] \in RowRec /\ cover' \in [Accounts -> Groups \cup {Nil}]
  BY <1>1 DEF Types, EndCoverage
<1>4. PICK r \in RowRec : /\ row' = [row EXCEPT ![g] = r]
                          /\ \/ r = row[g]
                             \/ /\ row[g].acct = a /\ row[g].st = "joined" /\ r.acct = a
                                /\ r.st \in {"joined", "left"} /\ r.tries = row[g].tries
  <2>1. CASE row' = row
    BY <1>1, <1>3, <2>1 DEF Types
  <2>2. CASE row' = recordCoverageCommented(a, g)
    <3>1. CASE Owns(a, g) /\ row[g].st = "joined"
      <4>1. PICK r : r = [row[g] EXCEPT !.cool = TRUE, !.left = 0]
        OBVIOUS
      <4>2. r \in RowRec /\ r.acct = a /\ r.st = "joined" /\ r.tries = row[g].tries /\ row[g].acct = a
        BY <1>3, <3>1, <4>1 DEF RowRec, Owns
      <4>3. row' = [row EXCEPT ![g] = r]
        BY <1>1, <1>3, <2>2, <3>1, <4>1 DEF recordCoverageCommented, Types, RowRec
      <4> QED BY <3>1, <4>2, <4>3
    <3>2. CASE ~(Owns(a, g) /\ row[g].st = "joined")
      BY <1>1, <1>3, <2>2, <3>2 DEF recordCoverageCommented, Types
    <3> QED BY <3>1, <3>2
  <2>3. CASE row' = recordCoverageLeftSignal(a, g)
    <3>1. CASE Owns(a, g) /\ row[g].st = "joined"
      <4>1. PICK st \in {"joined", "left"} : st = IF row[g].left + 1 >= MaxLeft THEN "left" ELSE row[g].st
        BY <3>1
      <4>2. PICK r : r = [row[g] EXCEPT !.left = @ + 1, !.st = st]
        OBVIOUS
      <4>3. r \in RowRec /\ r.acct = a /\ r.st = st /\ r.tries = row[g].tries /\ row[g].acct = a
        <5>1. st \in Statuses /\ row[g].left + 1 \in Nat
          BY <1>3 DEF RowRec, Statuses, Open
        <5>2. r \in RowRec /\ r.acct = row[g].acct /\ r.st = st /\ r.tries = row[g].tries
          BY <1>3, <4>2, <5>1 DEF RowRec
        <5> QED BY <3>1, <5>2 DEF Owns
      <4>4. row' = [row EXCEPT ![g] = r]
        BY <1>1, <1>3, <2>3, <3>1, <4>1, <4>2 DEF recordCoverageLeftSignal, Types, RowRec
      <4> QED BY <3>1, <4>1, <4>3, <4>4
    <3>2. CASE ~(Owns(a, g) /\ row[g].st = "joined")
      BY <1>1, <1>3, <2>3, <3>2 DEF recordCoverageLeftSignal, Types
    <3> QED BY <3>1, <3>2
  <2> QED BY <1>2, <2>1, <2>2, <2>3 DEF EndCoverage
<1>5. row'[g] = r /\ (\A h \in Groups \ {g} : row'[h] = row[h]) /\ Types'
  BY <1>1, <1>3, <1>4 DEF Types
<1>6. \A h \in Groups : row'[h].acct = row[h].acct /\ row'[h].tries = row[h].tries
  BY <1>4, <1>5
<1>7. ASSUME NEW h \in Groups PROVE DispatchOK(a, h)'
  BY <1>1, <1>6, DispatchStill DEF JoinInv, DispatchOK, Owns
<1>8. JobOK(a)'
  <2>1. \A h \in Groups : h = job[a].g /\ job[a].pc \in GroupRunning /\ Owns(a, h) /\ job[a].kind # "reconcile" => row'[h] = row[h]
    BY <1>1, <1>4, <1>5, StatusFacts DEF JobOK
  <2>2. GroupCounted \subseteq GroupRunning
    BY DEF GroupCounted
  <2>3. \A h \in Groups : Dispatched(a, h)' <=> Dispatched(a, h)
    BY <1>1, DispatchStill
  <2>4. \A h \in Groups : h = job[a].g /\ job[a].pc = "reset" /\ row[h].acct = a /\ job[a].kind # "reconcile" => row'[h].st # "joined"
    BY <1>1, <1>4, <1>5, StatusFacts DEF JobOK, Owns
  <2> QED BY <1>1, <1>6, <2>1, <2>2, <2>3, <2>4 DEF JobOK, Owns
<1>9. \A b \in Accounts \ {a}, h \in Groups : Dispatched(b, h)' => Dispatched(b, h)
  BY <1>1, DispatchStill
<1>10. /\ \A h \in Groups : row'[h] = row[h] \/ (row[h].acct \in {a, Nil} /\ row'[h].acct \in {a, Nil})
       /\ \A h \in Groups : row'[h].st = "joined" => row[h].st = "joined" /\ row'[h].acct = row[h].acct
  BY <1>4, <1>5, <1>6
<1>11. JoinInv'
  BY <1>1, <1>5, <1>7, <1>8, <1>9, <1>10, GroupStepKeeps
<1> QED BY <1>4, <1>5, <1>11 DEF JoinedRowsStay

\* The reclaim takes open rows from whoever has them, and forgets the groups an attempt was counted for.
LEMMA KeepsreclaimStaleAssignments ==
    ASSUME JoinInv, reclaimStaleAssignments PROVE JoinInv' /\ JoinedRowsStay
<1>1. UNCHANGED <<fresh, job, cover, edge, member, crossed>> /\ Types
  BY DEF JoinInv, reclaimStaleAssignments
<1>2. PICK gs \in SUBSET {g \in Groups : row[g].st \in Open} :
         row' = [g \in Groups |-> IF g \in gs THEN NoRow ELSE row[g]] /\ forgotten' = Forget(gs)
  BY DEF reclaimStaleAssignments
<1>3. /\ \A h \in gs : row'[h] = NoRow /\ row[h].st \in Open /\ h \in Groups
      /\ \A h \in Groups \ gs : row'[h] = row[h]
  BY <1>2
<1>4. Types'
  <2>1. \A h \in Groups : row[h] \in RowRec
    BY <1>1 DEF Types
  <2>2. row' \in [Groups -> RowRec]
    BY <1>2, <2>1, NewRowFacts DEF NoRow, RowRec
  <2> QED BY <1>1, <2>2 DEF Types
<1>5. JoinedRowsStay /\ JoinedIsMember'
  BY <1>1, <1>3, NewRowFacts, StatusFacts DEF JoinInv, JoinedIsMember, JoinedRowsStay, NoRow
<1>6. ASSUME NEW b \in Accounts, NEW h \in Groups PROVE DispatchOK(b, h)'
  <2>1. DispatchOK(b, h) /\ (Dispatched(b, h)' => Dispatched(b, h))
    BY <1>1, DispatchStill DEF JoinInv
  <2> QED BY <1>2, <1>3, <2>1 DEF DispatchOK, Owns, Forget
<1>7. ASSUME NEW b \in Accounts PROVE JobOK(b)'
  <2>1. JobOK(b) /\ b # Nil /\ NoRow.acct = Nil
    BY NewRowFacts DEF JoinInv
  <2>2. \A h \in Groups : Owns(b, h)' => h \notin gs /\ Owns(b, h) /\ row'[h] = row[h]
    BY <1>3, <2>1 DEF Owns
  <2>3. \A h \in Groups : h \notin forgotten' => h \notin forgotten /\ (h \in gs => ~(row[h].tries > 0))
    BY <1>2 DEF Forget
  <2>4. \A h \in Groups : Dispatched(b, h)' => Dispatched(b, h)
    BY <1>1, DispatchStill
  <2>5. ASSUME NEW h \in Groups, h = job[b].g, job[b].kind # "reconcile"
        PROVE  /\ job[b].pc \in GroupRunning /\ Owns(b, h)' => row'[h].st \in Open
               /\ job[b].pc = "reset" /\ Owns(b, h)' => row'[h].st # "joined"
               /\ job[b].pc \in GroupCounted => (h \notin forgotten' => Owns(b, h)') /\ (Owns(b, h)' => row'[h].tries > 0)
               /\ job[b].pc = "hook" /\ Dispatched(b, h)' /\ h \notin forgotten' => row'[h].tries > 1
    <3>1. /\ job[b].pc \in GroupRunning /\ Owns(b, h) => row[h].st \in Open
          /\ job[b].pc = "reset" /\ Owns(b, h) => row[h].st # "joined"
          /\ job[b].pc \in GroupCounted => (h \notin forgotten => Owns(b, h)) /\ (Owns(b, h) => row[h].tries > 0)
          /\ job[b].pc = "hook" /\ Dispatched(b, h) /\ h \notin forgotten => row[h].tries > 1
      BY <2>1, <2>5 DEF JobOK
    <3>2. "hook" \in GroupCounted
      BY DEF GroupCounted, GroupRunning
    <3>3. job[b].pc \in GroupCounted /\ h \notin forgotten' => h \notin gs /\ Owns(b, h)
      <4> SUFFICES ASSUME job[b].pc \in GroupCounted, h \notin forgotten' PROVE h \notin gs /\ Owns(b, h)
        OBVIOUS
      <4>1. h \notin forgotten /\ (h \in gs => ~(row[h].tries > 0))
        BY <2>3, Zenon
      <4> QED BY <3>1, <4>1
    <3>4. h \notin gs => row'[h] = row[h] /\ (Owns(b, h)' <=> Owns(b, h))
      BY <1>3 DEF Owns
    <3> QED BY <2>2, <2>3, <2>4, <3>1, <3>2, <3>3, <3>4
  <2>6. job'[b] = job[b]
    BY <1>1
  <2> QED BY <2>1, <2>5, <2>6 DEF JobOK
<1> QED BY <1>4, <1>5, <1>6, <1>7 DEF JoinInv, JoinParameters

\* What changes neither the owner, the status nor the attempts of a row.
LEMMA SameRows ==
    ASSUME JoinInv, row' \in [Groups -> RowRec], UNCHANGED <<job, cover, edge, member, forgotten, crossed>>, fresh' \in BOOLEAN,
           \A h \in Groups : row'[h].acct = row[h].acct /\ row'[h].st = row[h].st /\ row'[h].tries = row[h].tries
    PROVE  JoinInv' /\ JoinedRowsStay
<1>1. Types' /\ JoinedIsMember' /\ JoinedRowsStay
  BY DEF JoinInv, Types, JoinedIsMember, JoinedRowsStay
<1>2. \A b \in Accounts, h \in Groups : (Dispatched(b, h)' <=> Dispatched(b, h)) /\ (Owns(b, h)' <=> Owns(b, h))
  BY DispatchStill DEF Owns
<1>3. \A b \in Accounts, h \in Groups : DispatchOK(b, h)'
  BY <1>2 DEF JoinInv, DispatchOK
<1>4. \A b \in Accounts : JobOK(b)'
  BY <1>2 DEF JoinInv, JobOK
<1> QED BY <1>1, <1>3, <1>4 DEF JoinInv, JoinParameters

LEMMA KeepsTimePasses ==
    ASSUME JoinInv, NEW g \in Groups, TimePasses(g) PROVE JoinInv' /\ JoinedRowsStay
<1>1. row[g] \in RowRec /\ Types
  BY DEF JoinInv, Types
<1>2. PICK r : r = [row[g] EXCEPT !.cool = FALSE]
  OBVIOUS
<1>3. r \in RowRec /\ r.acct = row[g].acct /\ r.st = row[g].st /\ r.tries = row[g].tries
  BY <1>1, <1>2 DEF RowRec
<1>4. row' = [row EXCEPT ![g] = r]
  BY <1>2 DEF TimePasses
<1>5. row'[g] = r /\ row' \in [Groups -> RowRec] /\ \A h \in Groups \ {g} : row'[h] = row[h]
  BY <1>1, <1>3, <1>4 DEF Types
<1>6. UNCHANGED <<job, cover, edge, member, forgotten, crossed>> /\ fresh' \in BOOLEAN
  BY <1>1 DEF TimePasses, Types
<1> QED BY <1>3, <1>5, <1>6, SameRows

-----------------------------------------------------------------------------
(* The theorems *)

LEMMA InitJoinInv == JoinParameters /\ JoinInit => JoinInv
<1> SUFFICES ASSUME JoinParameters, JoinInit PROVE JoinInv
  OBVIOUS
<1>1. Idle \in JobRec /\ Idle.pc = "idle" /\ Idle.kind = "pool" /\ "idle" \notin GroupRunning /\ "idle" \notin GroupCounted
  BY DEF Idle, JobRec, Pcs, RunKinds, GroupRunning, GroupCounted
<1>2. Types
  BY <1>1 DEF JoinInit, Types, NoRow, RowRec
<1>3. JoinedIsMember
  BY DEF JoinInit, JoinedIsMember, NoRow
<1>4. \A a \in Accounts : JobOK(a) /\ job[a].pc = "idle"
  BY <1>1 DEF JoinInit, JobOK
<1>5. \A a \in Accounts, g \in Groups : ~Dispatched(a, g)
  BY DEF JoinInit, Dispatched, Clicked
<1> QED BY <1>2, <1>3, <1>4, <1>5 DEF JoinInv, DispatchOK

LEMMA NextJoinInv == JoinInv /\ [JoinNext]_joinVars => JoinInv' /\ JoinedRowsStay
<1> SUFFICES ASSUME JoinInv, [JoinNext]_joinVars PROVE JoinInv' /\ JoinedRowsStay
  OBVIOUS
<1>1. ASSUME NEW a \in Accounts,
             \/ ClaimSpecific(a) \/ ResetSpecific(a) \/ revalidateScopedAssignment(a) \/ MarkJoining(a) \/ BeforeDispatch(a)
             \/ Request(a) \/ StepTimeout(a)
      PROVE  JoinInv' /\ JoinedRowsStay
  <2>1. PICK g \in Groups : g = job[a].g
    BY <1>1 DEF JoinInv, JobOK, ClaimSpecific, ResetSpecific, revalidateScopedAssignment, MarkJoining, BeforeDispatch, Request, StepTimeout
  <2> QED BY <1>1, <2>1, KeepsClaimSpecific, KeepsResetSpecific, KeepsrevalidateScopedAssignment, KeepsMarkJoining, KeepsBeforeDispatch,
             KeepsRequest, KeepsStepTimeout
<1>2. ASSUME NEW a \in Accounts, JoinStep(a) PROVE JoinInv' /\ JoinedRowsStay
  BY <1>1, <1>2, KeepsrunReal DEF JoinStep
<1>3. ASSUME NEW a \in Accounts, triggerScheduled(a) \/ triggerJoinForMode(a) PROVE JoinInv' /\ JoinedRowsStay
  BY <1>3, BeginKeeps DEF triggerScheduled, triggerJoinForMode, RunKinds
<1>4. ASSUME NEW a \in Accounts, NEW g \in Groups, joinSpecificGroup(a, g) \/ reconcileForMode(a, g)
      PROVE  JoinInv' /\ JoinedRowsStay
  BY <1>4, BeginKeeps DEF joinSpecificGroup, reconcileForMode, RunKinds
<1>5. ASSUME ProjectionTurns \/ \E g \in Groups : importTargets(g) \/ setEnabled(g) \/ replaceTargetScopes(g)
      PROVE  JoinInv' /\ JoinedRowsStay
  <2>1. UNCHANGED <<row, job, cover, edge, member, forgotten, crossed>> /\ fresh' \in BOOLEAN
    BY <1>5 DEF JoinInv, Types, ProjectionTurns, importTargets, setEnabled, replaceTargetScopes
  <2>2. row' \in [Groups -> RowRec]
    BY <2>1 DEF JoinInv, Types
  <2> QED BY <2>1, <2>2, SameRows
<1>6. CASE UNCHANGED joinVars
  <2>1. UNCHANGED <<row, job, cover, edge, member, forgotten, crossed, fresh>>
    BY <1>6 DEF joinVars
  <2>2. row' \in [Groups -> RowRec] /\ fresh' \in BOOLEAN
    BY <2>1 DEF JoinInv, Types
  <2> QED BY <2>1, <2>2, SameRows
<1> QED BY <1>2, <1>3, <1>4, <1>5, <1>6, KeepsEdgeAnswers, KeepsEdgeGone, KeepsAbandon, KeepsStartCoverage,
           KeepsEndCoverage, KeepsreclaimStaleAssignments, KeepsTimePasses DEF JoinNext

LEMMA Invariance == JoinSpec => []JoinInv
<1>1. JoinInit => JoinInv
  BY GroupAssumption, InitJoinInv
<1>2. JoinInv /\ [JoinNext]_joinVars => JoinInv'
  BY NextJoinInv
<1> QED BY <1>1, <1>2, PTL DEF JoinSpec

\* An account may only be in a group whose row is its own, unless a row was deleted under a dispatch.
LEMMA OwnerIsAlone == JoinInv => OneAccountPerGroup
<1> SUFFICES ASSUME JoinInv, NEW g \in Groups \ forgotten, NEW a \in Accounts, NEW b \in Accounts,
                    <<a, g>> \in member, <<b, g>> \in member
             PROVE  a = b
  BY DEF OneAccountPerGroup
<1>1. row[g].acct = a /\ row[g].acct = b
  BY DEF JoinInv, DispatchOK, Dispatched, Owns
<1> QED BY <1>1

(***************************************************************************)
(* Two of our accounts are in one group only if the row that kept the      *)
(* second away was deleted after a dispatch: the membership ledger of      *)
(* facebook-group-store.ts is a lock on the group that timeouts, crashes,  *)
(* manual joins, retaken attempts and lost or late answers do not open.    *)
(***************************************************************************)
THEOREM GroupIsOwned == JoinSpec => []OneAccountPerGroup
<1> QED BY Invariance, OwnerIsAlone, PTL

(***************************************************************************)
(* What joined means, step by step: earned by a membership the edge showed *)
(* (or by the answer of another request), kept until a confirmed left      *)
(* signal, although markOutcome writes without looking at the status.      *)
(***************************************************************************)
THEOREM JoinedIsKept == JoinSpec => JoinedHolds
<1>1. JoinInv /\ [JoinNext]_joinVars /\ JoinInv' => [/\ JoinedIsMember'
         /\ \A g \in Groups : row[g].st = "joined" => row'[g].acct = row[g].acct /\ row'[g].st \in {"joined", "left"}]_joinVars
  BY NextJoinInv DEF JoinedRowsStay, JoinInv
<1> QED BY <1>1, Invariance, PTL DEF JoinSpec, JoinedHolds
==============================================================================
