--------------------------- MODULE EngagementProofs ---------------------------
(***************************************************************************)
(* Proofs about how an account engages with its platform: the interaction  *)
(* inbox with the offboarding it is composed with, for any number of jobs, *)
(* texts, workers, environments, attempts and operations, and a browsing   *)
(* session, for any notes and bounds.  The two share no name.              *)
(*                                                                         *)
(* The inbox: a job and its attempts agree, a purge never deletes the data *)
(* of a live binding, and the inbox implements ReplyContract.  What a      *)
(* worker took in is either still there at the version it read or out of   *)
(* reach of its write (WorkersOK); attempts are used in order and one at a *)
(* time (AttemptsOK); what is sent was agreed to (BlessedOK) and what is   *)
(* charged was claimed (ChargesOK).                                        *)
(*                                                                         *)
(* The session: whatever stops its clock, holds its page or its edge has   *)
(* an owner (Owners, Watched) and what is to resume has a timer (Resumes). *)
(* A handler composes operators on the dispatcher that each settle one of  *)
(* these, so every operator has a lemma: from a dispatcher that lacks X it *)
(* makes one that lacks nothing, or less (GoodBut).                        *)
(***************************************************************************)
EXTENDS Interactions, BrowseSession, FiniteSetTheorems, TLAPS

-----------------------------------------------------------------------------
(* The binding and the purge *)

OffRec == [state : {"none", "pending_edge", "dispatched", "tombstoned", "purged"}, bound : BOOLEAN,
           grant : {"none", "issued", "used"}]
PurgeRec == [env : Envs \cup {None}, scoped : BOOLEAN, step : {"idle", "config", "flip"}, late : BOOLEAN]
OffTypes ==
    /\ auth \in [env : Envs \cup {None}, active : BOOLEAN] /\ offboards \in [Envs -> OffRec]
    /\ purge \in [Hosts -> PurgeRec]
    /\ reconciler \in [env : Envs \cup {None}, step : {"idle", "claimed", "done"}]
    /\ reconciler.step # "idle" => reconciler.env \in Envs
    /\ \A h \in Hosts : purge[h].step # "idle" => purge[h].env \in Envs

\* While the account's data are about to go, and nobody has overtaken the purge, nobody else can be
\* bound.
Guarded(p) ==
    p.step = "config" /\ ~p.late =>
        p.env \in Envs /\ Open(p.env) /\ offboards[p.env].bound /\ auth.env = p.env
PurgeOK == \A h \in Hosts : Guarded(purge[h])
OffInv == OffTypes /\ PurgeOK /\ lost \subseteq {"overtaken"}

-----------------------------------------------------------------------------
(* Jobs, attempts and workers *)

JobRec == [state : States, env : Envs \cup {None}, ver : Nat, text : Texts \cup {None}]
AttRec == [status : {"none", "created", "dispatched", "confirmed", "failed", "ambiguous"},
           text : Texts \cup {None}, claimed : BOOLEAN]
WorkRec == [op : Ops, job : Jobs \cup {None}, env : Envs \cup {None}, ver : Nat, text : Texts \cup {None}, n : 0..MaxAttempts]
CommandRec == [kind : {"send", "reconcile"}, job : Jobs, n : Numbers]
AttemptOps == {"push", "mark", "defer", "unsure", "confirmed", "failed", "claim", "record"}
RowTypes ==
    /\ job \in [Jobs -> JobRec] /\ att \in [Jobs -> [Numbers -> AttRec]]
    /\ seen \in [Jobs -> [Numbers -> {"none", "confirmed", "failed", "ambiguous", "not_found"}]]
    /\ charged \in [Jobs -> [Numbers -> Nat]] /\ blessed \in [Jobs -> SUBSET Texts]
Named(d) == (d.op # "idle" => d.job \in Jobs) /\ (d.op \in AttemptOps => d.n \in Numbers)
WorkTypes == work \in [Workers -> WorkRec] /\ \A w \in Workers : Named(work[w])
WireTypes == wire \in Seq(CommandRec)

\* The state of a job says which attempts it has.
AttemptOK(j, n) ==
    /\ att[j][n].status \in Unfinished => job[j].state = "sending"
    /\ att[j][n].status = "ambiguous" => job[j].state = "ambiguous"
    /\ att[j][n].status = "confirmed" => job[j].state = "sent" /\ seen[j][n] = "confirmed"
    /\ att[j][n].status = "none" => att[j][n] = NoAttempt
    /\ att[j][n].claimed => att[j][n].status = "confirmed"
Has(j, statuses) == \E n \in Numbers : att[j][n].status \in statuses
AttemptsOK ==
    /\ \A j \in Jobs : /\ \A n \in Numbers : AttemptOK(j, n)
                       /\ job[j].state = "sending" => Has(j, Unfinished)
                       /\ job[j].state = "ambiguous" => Has(j, {"ambiguous"})
                       /\ job[j].state = "sent" => Has(j, {"confirmed"})
                       /\ \A n, m \in Numbers : att[j][n].status \in Active /\ att[j][m].status \in Active => n = m
                       /\ \A n, m \in Numbers : m < n /\ att[j][n].status # "none" => att[j][m].status # "none"
    /\ \A j, k \in Jobs : Has(j, Unfinished) /\ Has(k, Unfinished) => j = k

\* What may be sent was agreed to.
BlessedOK == \A j \in Jobs : job[j].state \in {"approved", "queued", "sending"} /\ job[j].text # None => job[j].text \in blessed[j]

\* A worker's write finds the job as it was read, or not at its version.
Reads == {"generate", "look", "queue", "dispatch"}
WorkerOK(d) ==
    /\ d.op \notin {"idle", "ingest"} => job[d.job].state # "none"
    /\ d.op \in Reads /\ job[d.job].state # "gone" => d.ver <= job[d.job].ver
    /\ d.op = "generate" => d.text = None
    /\ d.op = "look" => /\ d.text \in Texts
                        /\ CanTransition(d.job, d.ver, {"approval_required"}) /\ job[d.job].text # None =>
                               job[d.job].text = d.text
    /\ d.op = "dispatch" /\ d.text # None => d.text \in blessed[d.job]
WorkersOK == \A w \in Workers : WorkerOK(work[w])

\* Whoever is about to charge holds the claim, alone; what is known to be written keeps it.
Kept(j, n) == job[j].state = "gone" \/ att[j][n].claimed
ChargesOK ==
    /\ \A j \in Jobs, n \in Numbers : <<j, n>> \in written => Kept(j, n)
    /\ \A w \in Workers : Doing(w, "record") =>
           /\ seen[work[w].job][work[w].n] = "confirmed" /\ <<work[w].job, work[w].n>> \notin written
           /\ Kept(work[w].job, work[w].n)
    /\ \A w, v \in Workers : Doing(w, "record") /\ Doing(v, "record") /\ work[w].job = work[v].job /\ work[w].n = work[v].n
           => w = v

InboxInv == RowTypes /\ WorkTypes /\ WireTypes /\ AttemptsOK /\ BlessedOK /\ WorkersOK /\ ChargesOK
IInv == OffInv /\ InboxInv

-----------------------------------------------------------------------------
(* The binding and the purge *)

LEMMA OffKept ==
    ASSUME OffInv, UNCHANGED <<auth, offboards, purge, reconciler, lost>> PROVE OffInv'
BY DEF OffInv, OffTypes, PurgeOK, Guarded, Open

\* A purge under way keeps its binding; none is begun.
LEMMA BindingStep ==
    ASSUME OffInv, UNCHANGED <<purge, lost>>, auth' \in [env : Envs \cup {None}, active : BOOLEAN], offboards' \in [Envs -> OffRec],
           reconciler' \in [env : Envs \cup {None}, step : {"idle", "claimed", "done"}],
           reconciler'.step # "idle" => reconciler'.env \in Envs,
           \A e \in Envs : Open(e) /\ offboards[e].bound => Open(e)' /\ offboards'[e].bound,
           (\E h \in Hosts : purge[h].step = "config" /\ ~purge[h].late) => auth'.env = auth.env
    PROVE  OffInv'
<1>1. OffTypes'
  BY DEF OffInv, OffTypes
<1>2. PurgeOK'
  <2> SUFFICES ASSUME NEW h \in Hosts, purge[h].step = "config", ~purge[h].late
               PROVE  /\ purge[h].env \in Envs /\ Open(purge[h].env)' /\ offboards'[purge[h].env].bound
                      /\ auth'.env = purge[h].env
    BY DEF PurgeOK, Guarded, Open
  <2>0. purge[h].env \in Envs /\ Open(purge[h].env) /\ offboards[purge[h].env].bound /\ auth.env = purge[h].env
    BY DEF OffInv, PurgeOK, Guarded
  <2>1. PICK e \in Envs : e = purge[h].env
    BY <2>0
  <2>2. Open(e)' /\ offboards'[e].bound
    BY <2>0, <2>1
  <2>3. Open(purge[h].env)'
    BY <2>1, <2>2 DEF Open
  <2> QED BY <2>0, <2>1, <2>2, <2>3
<1> QED BY <1>1, <1>2 DEF OffInv

\* One offboard is rewritten.
LEMMA OffForm ==
    ASSUME OffInv, NEW e \in Envs, NEW d \in OffRec, offboards' = [offboards EXCEPT ![e] = d],
           Open(e) /\ offboards[e].bound => d.state \in {"pending_edge", "dispatched", "tombstoned"} /\ d.bound
    PROVE  /\ offboards' \in [Envs -> OffRec]
           /\ \A x \in Envs : Open(x) /\ offboards[x].bound => Open(x)' /\ offboards'[x].bound
<1>1. offboards' \in [Envs -> OffRec] /\ offboards'[e] = d /\ \A x \in Envs \ {e} : offboards'[x] = offboards[x]
  BY DEF OffInv, OffTypes
<1> QED BY <1>1 DEF Open

LEMMA OffupsertAuthStatus ==
    ASSUME OffInv, NEW a \in Receipt, upsertAuthStatus(a) PROVE OffInv'
<1> DEFINE e == a.env
<1>0. e \in Envs /\ a \in [env : Envs \cup {None}, active : BOOLEAN]
  BY DEF Receipt
<1>1. /\ auth.env \in {None, e} /\ UNCHANGED <<offboards, reconciler, purge, lost>>
      /\ auth' = auth \/ (~(Open(e) /\ offboards[e].bound) /\ auth' = a)
  BY DEF upsertAuthStatus
<1> HIDE DEF e
<1>2. CASE auth' = auth
  BY <1>1, <1>2, OffKept
<1>3. CASE ~(Open(e) /\ offboards[e].bound) /\ auth' = a
  <2>2. ~\E h \in Hosts : purge[h].step = "config" /\ ~purge[h].late
    BY <1>0, <1>1, <1>3, OffboardAssumption DEF OffInv, PurgeOK, Guarded
  <2>3. \A x \in Envs : Open(x) => Open(x)'
    BY <1>1 DEF Open
  <2> QED BY <1>0, <1>1, <1>3, <2>2, <2>3, BindingStep DEF OffInv, OffTypes
<1> QED BY <1>1, <1>2, <1>3

LEMMA RevokeFacts ==
    ASSUME OffInv, NEW e, revokeInteractionAccess(e)
    PROVE  auth' \in [env : Envs \cup {None}, active : BOOLEAN] /\ auth'.env = auth.env
<1>1. auth \in [env : Envs \cup {None}, active : BOOLEAN]
  BY DEF OffInv, OffTypes
<1>2. PICK a : a = [auth EXCEPT !.active = FALSE]
  OBVIOUS
<1>3. a \in [env : Envs \cup {None}, active : BOOLEAN] /\ a.env = auth.env
  BY <1>1, <1>2
<1>4. auth' = auth \/ auth' = a
  BY <1>2 DEF revokeInteractionAccess
<1> QED BY <1>1, <1>3, <1>4

LEMMA OffmaterializeEnvironmentOffboard ==
    ASSUME OffInv, materializeEnvironmentOffboard PROVE OffInv'
<1>1. PICK e \in Envs : e = reconciler.env
  BY DEF materializeEnvironmentOffboard, OffInv, OffTypes
<1>2. /\ UNCHANGED <<purge, lost>> /\ auth \in [env : Envs \cup {None}, active : BOOLEAN]
      /\ reconciler \in [env : Envs \cup {None}, step : {"idle", "claimed", "done"}]
  BY DEF materializeEnvironmentOffboard, OffInv, OffTypes
<1>3. auth' \in [env : Envs \cup {None}, active : BOOLEAN] /\ auth'.env = auth.env
  <2>1. revokeInteractionAccess(e) \/ auth' = auth
    BY <1>1 DEF materializeEnvironmentOffboard
  <2> QED BY <1>2, <2>1, RevokeFacts
<1>4. reconciler' \in [env : Envs \cup {None}, step : {"idle", "claimed", "done"}] /\ (reconciler'.step # "idle" => reconciler'.env \in Envs)
  <2>1. PICK c : c = [reconciler EXCEPT !.step = "done"]
    OBVIOUS
  <2>2. c \in [env : Envs \cup {None}, step : {"idle", "claimed", "done"}] /\ c.env = e
    BY <1>1, <1>2, <2>1
  <2>3. NoClaim \in [env : Envs \cup {None}, step : {"idle", "claimed", "done"}] /\ NoClaim.step = "idle"
    BY DEF NoClaim
  <2>4. reconciler' = c \/ reconciler' = NoClaim
    BY <2>1 DEF materializeEnvironmentOffboard
  <2> QED BY <2>2, <2>3, <2>4
<1>5. \/ UNCHANGED offboards
      \/ \E d \in OffRec : ~Open(e) /\ offboards' = [offboards EXCEPT ![e] = d]
  <2>1. PICK c : c = [NoOffboard EXCEPT !.state = "pending_edge", !.bound = TRUE]
    OBVIOUS
  <2>2. PICK d : d = [NoOffboard EXCEPT !.state = "tombstoned"]
    OBVIOUS
  <2>3. c \in OffRec /\ d \in OffRec
    BY <2>1, <2>2 DEF NoOffboard, OffRec
  <2>4. UNCHANGED offboards \/ (~Open(e) /\ (offboards' = [offboards EXCEPT ![e] = c] \/ offboards' = [offboards EXCEPT ![e] = d]))
    BY <1>1, <2>1, <2>2 DEF materializeEnvironmentOffboard
  <2> QED BY <2>3, <2>4
<1>6. /\ offboards' \in [Envs -> OffRec]
      /\ \A x \in Envs : Open(x) /\ offboards[x].bound => Open(x)' /\ offboards'[x].bound
  <2>1. CASE UNCHANGED offboards
    BY <2>1 DEF OffInv, OffTypes, Open
  <2>2. CASE \E d \in OffRec : ~Open(e) /\ offboards' = [offboards EXCEPT ![e] = d]
    BY <2>2, OffForm
  <2> QED BY <1>5, <2>1, <2>2
<1> QED BY <1>2, <1>3, <1>4, <1>6, BindingStep

\* The steps of an offboard that keep it open, or rewrite one that is not.
LEMMA OffOffboards ==
    ASSUME OffInv, NEW e \in Envs,
           dispatchPending(e) \/ issueCleanupGrant(e) \/ consumeCleanupGrant(e) \/ applyOffboardFailed(e) \/ applyOffboardCleared(e)
    PROVE  OffInv'
<1>1. offboards[e] \in OffRec /\ auth \in [env : Envs \cup {None}, active : BOOLEAN]
  BY DEF OffInv, OffTypes
<1>2. \E d \in OffRec : /\ offboards' = [offboards EXCEPT ![e] = d] /\ d.bound = offboards[e].bound
                        /\ d.state \in {"pending_edge", "dispatched", "tombstoned"}
  <2>1. offboards[e].state \in {"pending_edge", "dispatched"}
    BY DEF dispatchPending, issueCleanupGrant, consumeCleanupGrant, applyOffboardFailed, applyOffboardCleared, pendingOffboards
  <2>2. \A st \in {"pending_edge", "dispatched", "tombstoned"} : offboards' = [offboards EXCEPT ![e].state = st] =>
            \E d \in OffRec : /\ offboards' = [offboards EXCEPT ![e] = d] /\ d.bound = offboards[e].bound
                              /\ d.state \in {"pending_edge", "dispatched", "tombstoned"}
    <3> SUFFICES ASSUME NEW st \in {"pending_edge", "dispatched", "tombstoned"}, offboards' = [offboards EXCEPT ![e].state = st]
                 PROVE  \E d \in OffRec : /\ offboards' = [offboards EXCEPT ![e] = d] /\ d.bound = offboards[e].bound
                                          /\ d.state \in {"pending_edge", "dispatched", "tombstoned"}
      OBVIOUS
    <3>1. PICK d : d = [offboards[e] EXCEPT !.state = st]
      OBVIOUS
    <3>2. d \in OffRec /\ d.bound = offboards[e].bound /\ d.state = st
      BY <1>1, <3>1 DEF OffRec
    <3>3. offboards' = [offboards EXCEPT ![e] = d]
      BY <3>1
    <3> QED BY <3>2, <3>3
  <2>3. \A gr \in {"issued", "used"} : offboards' = [offboards EXCEPT ![e].grant = gr] =>
            \E d \in OffRec : /\ offboards' = [offboards EXCEPT ![e] = d] /\ d.bound = offboards[e].bound
                              /\ d.state \in {"pending_edge", "dispatched", "tombstoned"}
    <3> SUFFICES ASSUME NEW gr \in {"issued", "used"}, offboards' = [offboards EXCEPT ![e].grant = gr]
                 PROVE  \E d \in OffRec : /\ offboards' = [offboards EXCEPT ![e] = d] /\ d.bound = offboards[e].bound
                                          /\ d.state \in {"pending_edge", "dispatched", "tombstoned"}
      OBVIOUS
    <3>1. PICK d : d = [offboards[e] EXCEPT !.grant = gr]
      OBVIOUS
    <3>2. d \in OffRec /\ d.bound = offboards[e].bound /\ d.state = offboards[e].state
      BY <1>1, <3>1 DEF OffRec
    <3>3. offboards' = [offboards EXCEPT ![e] = d]
      BY <3>1
    <3> QED BY <2>1, <3>2, <3>3
  <2>4. \/ \E st \in {"pending_edge", "dispatched", "tombstoned"} : offboards' = [offboards EXCEPT ![e].state = st]
        \/ \E gr \in {"issued", "used"} : offboards' = [offboards EXCEPT ![e].grant = gr]
    BY DEF dispatchPending, issueCleanupGrant, consumeCleanupGrant, applyOffboardFailed, applyOffboardCleared
  <2> QED BY <2>2, <2>3, <2>4
<1>3. auth' \in [env : Envs \cup {None}, active : BOOLEAN] /\ auth'.env = auth.env
  <2>1. PICK a : a = [auth EXCEPT !.active = FALSE]
    OBVIOUS
  <2>2. a \in [env : Envs \cup {None}, active : BOOLEAN] /\ a.env = auth.env
    BY <1>1, <2>1
  <2>3. auth' = auth \/ auth' = a
    BY <2>1 DEF dispatchPending, issueCleanupGrant, consumeCleanupGrant, applyOffboardFailed, applyOffboardCleared
  <2> QED BY <1>1, <2>2, <2>3
<1>4. UNCHANGED <<reconciler, purge, lost>>
  BY DEF dispatchPending, issueCleanupGrant, consumeCleanupGrant, applyOffboardFailed, applyOffboardCleared
<1>5. /\ offboards' \in [Envs -> OffRec]
      /\ \A x \in Envs : Open(x) /\ offboards[x].bound => Open(x)' /\ offboards'[x].bound
  BY <1>2, OffForm
<1> QED BY <1>3, <1>4, <1>5, BindingStep DEF OffInv, OffTypes

\* One host's purge moves on.
LEMMA PurgeMoves ==
    ASSUME OffInv, NEW h \in Hosts, NEW p \in PurgeRec, purge' = [purge EXCEPT ![h] = p],
           UNCHANGED <<auth, offboards, reconciler>>, lost' \subseteq {"overtaken"},
           p.step # "idle" => p.env \in Envs, Guarded(p)
    PROVE  OffInv'
<1>1. purge' \in [Hosts -> PurgeRec] /\ purge'[h] = p /\ \A g \in Hosts \ {h} : purge'[g] = purge[g]
  BY DEF OffInv, OffTypes
<1>2. \A g \in Hosts : Guarded(purge'[g])
  BY <1>1 DEF OffInv, PurgeOK
<1>3. \A g \in Hosts : Guarded(purge[g])'
  BY <1>2 DEF Guarded, Open
<1>4. OffTypes'
  BY <1>1 DEF OffInv, OffTypes
<1> QED BY <1>3, <1>4 DEF OffInv, PurgeOK

\* Only a bound offboard's purge goes on to the account's data.
LEMMA OffPurgeRows ==
    ASSUME OffInv, NEW h \in Hosts, NEW e \in Envs, PurgeRows(h, e) PROVE OffInv'
<1>1. PICK scoped \in BOOLEAN :
        /\ scoped = (offboards[e].bound /\ auth.env = e)
        /\ purge' = [purge EXCEPT ![h] = [env |-> e, scoped |-> scoped, late |-> FALSE,
                                              step |-> IF scoped THEN "config" ELSE "flip"]]
        /\ (IF scoped THEN AccountDataPurged(e, "controls") ELSE UNCHANGED lost)
  BY DEF PurgeRows, OffInv, OffTypes, OffRec
<1>2. Open(e) /\ UNCHANGED <<auth, offboards, reconciler>>
  BY DEF PurgeRows
<1>3. lost' = lost
  BY <1>1 DEF AccountDataPurged
<1>4. PICK p : p = [env |-> e, scoped |-> scoped, late |-> FALSE, step |-> IF scoped THEN "config" ELSE "flip"]
  OBVIOUS
<1>5. p \in PurgeRec /\ p.env = e /\ (p.step = "config" => scoped)
  BY <1>4 DEF PurgeRec
<1>6. Guarded(p)
  BY <1>1, <1>2, <1>5 DEF Guarded
<1>7. purge' = [purge EXCEPT ![h] = p] /\ lost' \subseteq {"overtaken"}
  BY <1>1, <1>3, <1>4 DEF OffInv
<1> QED BY <1>2, <1>5, <1>6, <1>7, PurgeMoves

\* The account's reply configuration goes while the binding is there, or after somebody overtook.
LEMMA OffPurgeReplyConfig ==
    ASSUME OffInv, NEW h \in Hosts, PurgeReplyConfig(h) PROVE OffInv'
<1>1. /\ purge[h].step = "config" /\ purge' = [purge EXCEPT ![h].step = "flip"]
      /\ AccountDataPurged(purge[h].env, IF purge[h].late THEN "overtaken" ELSE "config")
      /\ UNCHANGED <<auth, offboards, reconciler>>
  BY DEF PurgeReplyConfig
<1>2. purge[h] \in PurgeRec /\ purge[h].env \in Envs /\ Guarded(purge[h])
  BY <1>1 DEF OffInv, OffTypes, PurgeOK
<1>3. PICK p : p = [purge[h] EXCEPT !.step = "flip"]
  OBVIOUS
<1>4. p \in PurgeRec /\ p.step = "flip" /\ p.env \in Envs
  BY <1>2, <1>3 DEF PurgeRec
<1>5. lost' \subseteq {"overtaken"}
  <2>1. CASE purge[h].late
    BY <1>1, <2>1 DEF AccountDataPurged, OffInv
  <2>2. CASE ~purge[h].late
    <3>1. auth.env = purge[h].env
      BY <1>1, <1>2, <2>2 DEF Guarded
    <3> QED BY <1>1, <3>1 DEF AccountDataPurged, OffInv
  <2> QED BY <2>1, <2>2
<1>6. purge' = [purge EXCEPT ![h] = p]
  BY <1>1, <1>3
<1>7. Guarded(p)
  BY <1>4 DEF Guarded
<1> QED BY <1>1, <1>4, <1>5, <1>6, <1>7, PurgeMoves

LEMMA StoppedTyped == NoPurge \in PurgeRec /\ NoPurge.step = "idle"
BY DEF NoPurge, PurgeRec

LEMMA OffPurgeStops ==
    ASSUME OffInv, NEW h \in Hosts, purge' = [purge EXCEPT ![h] = NoPurge],
           UNCHANGED <<auth, offboards, reconciler, lost>>
    PROVE  OffInv'
<1>1. Guarded(NoPurge)
  BY StoppedTyped DEF Guarded
<1> QED BY <1>1, StoppedTyped, PurgeMoves DEF OffInv

\* The binding goes with the flip, and whoever else has picked the row is late from now on.
LEMMA OffPurgeFlips ==
    ASSUME OffInv, NEW h \in Hosts, PurgeFlips(h) PROVE OffInv'
<1>1. CASE purge[h].late
  BY <1>1, OffPurgeStops DEF PurgeFlips
<1>2. CASE ~purge[h].late
  <2>1. PICK e \in Envs : e = purge[h].env
    BY DEF PurgeFlips, OffInv, OffTypes
  <2>2. /\ purge' = [g \in Hosts |-> IF g = h THEN NoPurge
                                       ELSE IF purge[g].env = e THEN [purge[g] EXCEPT !.late = TRUE] ELSE purge[g]]
        /\ offboards' = [offboards EXCEPT ![e].state = "purged"]
        /\ auth' = IF offboards[e].bound /\ auth.env = e THEN NoAuth ELSE auth
        /\ UNCHANGED <<reconciler, lost>>
    BY <1>2, <2>1 DEF PurgeFlips
  <2>3. offboards' \in [Envs -> OffRec] /\ \A x \in Envs \ {e} : offboards'[x] = offboards[x]
    <3>1. PICK d : d = [offboards[e] EXCEPT !.state = "purged"]
      OBVIOUS
    <3>2. d \in OffRec
      <4>1. offboards[e] \in OffRec
        BY DEF OffInv, OffTypes
      <4> QED BY <3>1, <4>1 DEF OffRec
    <3>3. offboards' = [offboards EXCEPT ![e] = d]
      BY <2>2, <3>1
    <3> QED BY <3>2, <3>3 DEF OffInv, OffTypes
  <2>4. auth' \in [env : Envs \cup {None}, active : BOOLEAN] /\ (auth.env # e => auth' = auth)
    <3>1. NoAuth \in [env : Envs \cup {None}, active : BOOLEAN]
      BY DEF NoAuth
    <3> QED BY <2>2, <3>1 DEF OffInv, OffTypes
  <2>5. ASSUME NEW g \in Hosts
        PROVE  /\ purge'[g] \in PurgeRec /\ (purge'[g].step # "idle" => purge'[g].env \in Envs)
               /\ Guarded(purge[g])'
    <3>0. purge[g] \in PurgeRec /\ (purge[g].step # "idle" => purge[g].env \in Envs) /\ Guarded(purge[g])
      BY DEF OffInv, OffTypes, PurgeOK
    <3>1. CASE g = h
      <4>1. purge'[g] = NoPurge
        BY <2>2, <3>1
      <4> QED BY <4>1, StoppedTyped DEF Guarded
    <3>2. CASE g # h /\ purge[g].env = e
      <4>1. PICK p : p = [purge[g] EXCEPT !.late = TRUE]
        OBVIOUS
      <4>2. p \in PurgeRec /\ p.late /\ p.env = e
        BY <3>0, <3>2, <4>1 DEF PurgeRec
      <4>3. purge'[g] = p
        BY <2>2, <3>2, <4>1
      <4> QED BY <4>2, <4>3 DEF Guarded
    <3>3. CASE g # h /\ purge[g].env # e
      <4>1. purge'[g] = purge[g]
        BY <2>2, <3>3
      <4>2. ASSUME purge[g].step = "config", ~purge[g].late
            PROVE  /\ purge[g].env \in Envs \ {e} /\ Open(purge[g].env) /\ offboards[purge[g].env].bound
                   /\ auth' = auth /\ auth.env = purge[g].env
        BY <2>4, <3>0, <3>3, <4>2 DEF Guarded
      <4> QED BY <2>3, <3>0, <4>1, <4>2 DEF Guarded, Open
    <3> QED BY <3>1, <3>2, <3>3
  <2>6. purge' \in [Hosts -> PurgeRec]
    <3>1. purge' = [g \in Hosts |-> purge'[g]]
      BY <2>2
    <3> QED BY <2>5, <3>1
  <2>7. OffTypes'
    BY <2>2, <2>3, <2>4, <2>5, <2>6 DEF OffInv, OffTypes
  <2> QED BY <2>2, <2>5, <2>7 DEF OffInv, PurgeOK
<1> QED BY <1>1, <1>2

LEMMA OffClaims ==
    ASSUME OffInv,
           \/ recordMaterializationReceipt \/ RoundStops
           \/ \E e \in Envs : claimPendingMaterializations(e)
    PROVE  OffInv'
<1>1. PICK c : c = NoClaim \/ \E e \in Envs : c = [env |-> e, step |-> "claimed"]
  OBVIOUS
<1>2. NoClaim \in [env : Envs \cup {None}, step : {"idle", "claimed", "done"}] /\ NoClaim.step = "idle"
  BY DEF NoClaim
<1>3. reconciler' \in [env : Envs \cup {None}, step : {"idle", "claimed", "done"}] /\ (reconciler'.step # "idle" => reconciler'.env \in Envs)
  BY <1>2 DEF recordMaterializationReceipt, RoundStops, claimPendingMaterializations
<1>4. UNCHANGED <<auth, offboards, purge, lost>>
  BY DEF recordMaterializationReceipt, RoundStops, claimPendingMaterializations
<1> QED BY <1>3, <1>4 DEF OffInv, OffTypes, PurgeOK, Guarded, Open

LEMMA OffOffboardStep == ASSUME OffInv, OffboardStep PROVE OffInv'
<1>1. CASE ConfigureReplies \/ \E on \in BOOLEAN : updateRuntimeControls(on)
  <2>1. UNCHANGED <<auth, offboards, purge, reconciler, lost>>
    <3>1. CASE ConfigureReplies
      BY <3>1 DEF ConfigureReplies
    <3>2. CASE \E on \in BOOLEAN : updateRuntimeControls(on)
      BY <3>2 DEF updateRuntimeControls
    <3> QED BY <1>1, <3>1, <3>2
  <2> QED BY <2>1, OffKept
<1>2. CASE \E e \in Envs : Revoke(e) \/ EdgeCleans(e)
  <2>1. UNCHANGED <<auth, offboards, purge, reconciler, lost>>
    BY <1>2 DEF Revoke, EdgeCleans
  <2> QED BY <2>1, OffKept
<1>3. CASE materializeEnvironmentOffboard
  BY <1>3, OffmaterializeEnvironmentOffboard
<1>4. CASE recordMaterializationReceipt \/ RoundStops \/ \E e \in Envs : claimPendingMaterializations(e)
  BY <1>4, OffClaims
<1>5. ASSUME NEW h \in Hosts, PurgeReplyConfig(h) \/ PurgeFlips(h) \/ PurgeStops(h) PROVE OffInv'
  BY <1>5, OffPurgeReplyConfig, OffPurgeFlips, OffPurgeStops DEF PurgeStops
<1>6. ASSUME NEW e \in Envs, dispatchPending(e) \/ issueCleanupGrant(e) \/ consumeCleanupGrant(e) \/ applyOffboardFailed(e)
      PROVE  OffInv'
  BY <1>6, OffOffboards
<1>7. ASSUME NEW a \in Receipt, Authorize(a) \/ upsertAuthStatus(a) \/ AuthStatusRefused(a) PROVE OffInv'
  <2>1. CASE upsertAuthStatus(a)
    BY <2>1, OffupsertAuthStatus
  <2>2. CASE Authorize(a) \/ AuthStatusRefused(a)
    <3>1. UNCHANGED <<auth, offboards, purge, reconciler, lost>>
      BY <2>2 DEF Authorize, AuthStatusRefused
    <3> QED BY <3>1, OffKept
  <2> QED BY <1>7, <2>1, <2>2
<1> QED BY <1>1, <1>2, <1>3, <1>4, <1>5, <1>6, <1>7 DEF OffboardStep

\* The inbox's own steps, of which four touch the binding or the purge.
LEMMA OffNext == ASSUME OffInv, [Next]_vars PROVE OffInv'
<1>1. CASE OffboardStep
  BY <1>1, OffOffboardStep
<1>2. CASE UNCHANGED vars
  <2>1. UNCHANGED <<auth, offboards, purge, reconciler, lost>>
    BY <1>2 DEF vars, offVars
  <2> QED BY <2>1, OffKept
<1>3. CASE EdgeTakes \/ EdgeFails \/ Disconnect \/ reconcileRecoverable \/ resetTestData \/ purgeExpiredContent
  <2>1. UNCHANGED <<auth, offboards, purge, reconciler, lost>>
    BY <1>3 DEF EdgeTakes, EdgeFails, Disconnect, reconcileRecoverable, resetTestData, purgeExpiredContent, offVars
  <2> QED BY <2>1, OffKept
<1>4. CASE Crash
  <2>1. PICK h \in Hosts : /\ UNCHANGED <<auth, offboards, lost>> /\ reconciler' = NoClaim
                            /\ purge' = [purge EXCEPT ![h] = NoPurge]
    BY <1>4 DEF Crash
  <2>2. purge'[h] = NoPurge /\ purge' \in [Hosts -> PurgeRec] /\ \A g \in Hosts \ {h} : purge'[g] = purge[g]
    BY <2>1, StoppedTyped DEF OffInv, OffTypes
  <2>3. \A g \in Hosts : Guarded(purge'[g])
    BY <2>2, StoppedTyped DEF OffInv, PurgeOK, Guarded
  <2>4. OffTypes'
    BY <2>1, <2>2, StoppedTyped DEF OffInv, OffTypes, NoClaim
  <2> QED BY <2>1, <2>3, <2>4 DEF OffInv, PurgeOK, Guarded, Open
<1>5. ASSUME NEW h \in Hosts, NEW e \in Envs, PurgeJobs(h, e) PROVE OffInv'
  BY <1>5, OffPurgeRows DEF PurgeJobs
<1>6. ASSUME NEW e \in Envs, ContentErased(e) PROVE OffInv'
  BY <1>6, OffOffboards DEF ContentErased
<1>7. ASSUME NEW j \in Jobs, NEW n \in Numbers, EdgeVerifies(j, n) \/ applyReplyReconcileResult(j, n)
      PROVE  OffInv'
  <2>1. UNCHANGED <<auth, offboards, purge, reconciler, lost>>
    BY <1>7 DEF EdgeVerifies, applyReplyReconcileResult, offVars
  <2> QED BY <2>1, OffKept
<1>8. ASSUME NEW w \in Workers,
             \/ GenerateTooLate(w) \/ buildPreview(w) \/ failGeneration(w) \/ canAutoQueueDraft(w)
             \/ approve(w) \/ edit(w) \/ queueApproved(w) \/ dispatchQueued(w)
             \/ createAttempt(w) \/ push(w) \/ markAttemptDispatched(w) \/ markDispatchDeferred(w)
             \/ markDispatchAmbiguous(w) \/ Note(w) \/ claimRiskRecord(w) \/ RecordRisk(w) \/ ingestBatch(w)
      PROVE  OffInv'
  <2>1. UNCHANGED <<auth, offboards, purge, reconciler, lost>>
    BY <1>8 DEF GenerateTooLate, buildPreview, failGeneration, canAutoQueueDraft, approve, edit, queueApproved,
                dispatchQueued, createAttempt, push, markAttemptDispatched, markDispatchDeferred, markDispatchAmbiguous,
                Note, claimRiskRecord, RecordRisk, ingestBatch, Step, offVars
  <2> QED BY <2>1, OffKept
<1>9. ASSUME NEW w \in Workers, NEW j \in Jobs, NEW n \in Numbers, applyReplyResult(w, j, n) PROVE OffInv'
  <2>1. UNCHANGED <<auth, offboards, purge, reconciler, lost>>
    BY <1>9 DEF applyReplyResult, offVars
  <2> QED BY <2>1, OffKept
<1>10. ASSUME NEW w \in Workers, NEW j \in Jobs,
             \/ ensureReadable(w, j) \/ generate(w, j) \/ Look(w, j) \/ transitionMessageJob(w, j)
             \/ Queue(w, j) \/ Dispatch(w, j)
      PROVE  OffInv'
  <2>1. UNCHANGED <<auth, offboards, purge, reconciler, lost>>
    BY <1>10 DEF ensureReadable, generate, Look, transitionMessageJob, Queue, Dispatch, offVars
  <2> QED BY <2>1, OffKept
<1>11. ASSUME NEW j \in Jobs, recoverStalledClassifyingJobs(j) PROVE OffInv'
  <2>1. UNCHANGED <<auth, offboards, purge, reconciler, lost>>
    BY <1>11 DEF recoverStalledClassifyingJobs, offVars
  <2> QED BY <2>1, OffKept
<1> QED BY <1>1, <1>2, <1>3, <1>4, <1>5, <1>6, <1>7, <1>8, <1>9, <1>10, <1>11 DEF Next

LEMMA OffInit == Init => OffInv
<1> SUFFICES ASSUME OffboardInit PROVE OffInv
  BY DEF Init
<1>1. PICK e \in Envs : auth = [env |-> e, active |-> TRUE]
  BY DEF OffboardInit
<1> QED BY <1>1 DEF OffboardInit, OffInv, OffTypes, OffRec, PurgeRec, PurgeOK, Guarded, NoOffboard, NoPurge, NoClaim

\* The purge of one environment never deletes what belongs to the account in another, on any
\* number of hosts, except the reply configuration when another host has flipped the row first
\* (LiveDataKept; the order of the three transactions of purgeDueOffboards).
THEOREM PurgeSparesLiveData == Spec => []LiveDataKept
<1>1. OffInv => LiveDataKept
  BY DEF OffInv, LiveDataKept
<1> QED BY <1>1, OffInit, OffNext, PTL DEF Spec

-----------------------------------------------------------------------------
(* What a step may do to the jobs, and what that keeps *)

\* A job never comes back from deletion, and every write but the erasure of its text is a version.
Grows(r, s) ==
    r.state # "none" =>
        /\ s.state # "none" /\ (r.state = "gone" => s.state = "gone")
        /\ s.state # "gone" => /\ r.ver <= s.ver
                               /\ s.ver = r.ver => s.state = r.state /\ s.text \in {r.text, None}
JobsGrow == \A k \in Jobs : Grows(job[k], job'[k]) /\ blessed[k] \subseteq blessed'[k]

LEMMA JobsStay == ASSUME RowTypes, UNCHANGED <<job, blessed>> PROVE JobsGrow
<1> SUFFICES ASSUME NEW k \in Jobs PROVE Grows(job[k], job[k])
  BY DEF JobsGrow
<1>1. job[k].ver \in Nat
  BY DEF RowTypes, JobRec
<1> QED BY <1>1 DEF Grows

\* transitionJob.
LEMMA MovedFacts ==
    ASSUME job \in [Jobs -> JobRec], NEW j \in Jobs, NEW to \in States, NEW t \in Texts \cup {None}, job' = Moved(j, to, t)
    PROVE  /\ job' \in [Jobs -> JobRec] /\ job'[j].state = to /\ job'[j].ver = job[j].ver + 1 /\ job'[j].text = t
           /\ \A k \in Jobs \ {j} : job'[k] = job[k]
<1>1. PICK d : d = [job[j] EXCEPT !.state = to, !.ver = job[j].ver + 1, !.text = t]
  OBVIOUS
<1>2. job[j] \in JobRec
  OBVIOUS
<1>3. d \in JobRec /\ d.state = to /\ d.ver = job[j].ver + 1 /\ d.text = t
  <2>1. job[j].ver \in Nat /\ job[j].ver + 1 \in Nat
    BY <1>2 DEF JobRec
  <2>2. d.state = to /\ d.ver = job[j].ver + 1 /\ d.text = t
    BY <1>1, <1>2 DEF JobRec
  <2> QED BY <1>1, <1>2, <2>1, <2>2 DEF JobRec
<1>4. job' = [job EXCEPT ![j] = d]
  BY <1>1 DEF Moved
<1> QED BY <1>3, <1>4

LEMMA MoveGrows ==
    ASSUME RowTypes, NEW j \in Jobs, NEW to \in States \ {"none"}, NEW t \in Texts \cup {None}, job' = Moved(j, to, t),
           job[j].state # "gone", \A k \in Jobs : blessed[k] \subseteq blessed'[k]
    PROVE  JobsGrow
<1> SUFFICES ASSUME NEW k \in Jobs PROVE Grows(job[k], job'[k])
  BY DEF JobsGrow
<1>1. job[k].ver \in Nat /\ job[j].ver \in Nat
  BY DEF RowTypes, JobRec
<1>2. job'[j].state = to /\ job'[j].ver = job[j].ver + 1 /\ (k # j => job'[k] = job[k])
  BY MovedFacts DEF RowTypes
<1> QED BY <1>1, <1>2 DEF Grows

\* What a worker holds stays good.
LEMMA WorkerGrows ==
    ASSUME RowTypes, RowTypes', JobsGrow, NEW d \in WorkRec, Named(d), WorkerOK(d) PROVE WorkerOK(d)'
<1>1. CASE d.op = "idle"
  BY <1>1 DEF WorkerOK, Reads
<1>3. CASE d.op = "ingest"
  BY <1>3 DEF WorkerOK, Reads
<1>2. CASE d.op \notin {"idle", "ingest"}
  <2>1. PICK k \in Jobs : k = d.job
    BY <1>2 DEF Named
  <2>2. Grows(job[k], job'[k]) /\ blessed[k] \subseteq blessed'[k] /\ job[k].state # "none"
    BY <1>2, <2>1 DEF JobsGrow, WorkerOK
  <2>3. job[k].ver \in Nat /\ job'[k].ver \in Nat /\ d.ver \in Nat
    BY DEF RowTypes, JobRec, WorkRec
  <2>4. d.op \in Reads /\ job'[k].state # "gone" => d.ver <= job[k].ver /\ d.ver <= job'[k].ver
    BY <2>1, <2>2, <2>3 DEF Grows, WorkerOK
  <2>5. ASSUME d.op = "look", job'[k].ver = d.ver, job'[k].state = "approval_required", job'[k].text # None
        PROVE  job'[k].text = d.text
    <3>1. job'[k].ver = job[k].ver
      BY <2>2, <2>3, <2>4, <2>5 DEF Grows, Reads
    <3>2. job[k].state = "approval_required" /\ job[k].text = job'[k].text
      BY <2>2, <2>5, <3>1 DEF Grows
    <3>3. job[d.job].ver = d.ver /\ job[d.job].state = "approval_required" /\ job[d.job].text # None
      BY <2>1, <2>5, <3>1, <3>2
    <3>4. CanTransition(d.job, d.ver, {"approval_required"}) /\ job[d.job].text # None => job[d.job].text = d.text
      BY <2>5 DEF WorkerOK
    <3>5. job[d.job].text = d.text
      BY <3>3, <3>4 DEF CanTransition
    <3> QED BY <2>1, <3>2, <3>5
  <2> QED BY <2>1, <2>2, <2>4, <2>5 DEF WorkerOK, CanTransition, Grows
<1> QED BY <1>1, <1>2, <1>3

\* Whoever records a charge did so before.
NoNewRecord == \A w \in Workers : Doing(w, "record")' => work'[w] = work[w]

LEMMA WorkStays ==
    ASSUME RowTypes, RowTypes', WorkTypes, WorkersOK, JobsGrow, UNCHANGED work
    PROVE  WorkTypes' /\ WorkersOK' /\ NoNewRecord
<1>1. \A w \in Workers : work[w] \in WorkRec /\ Named(work[w]) /\ WorkerOK(work[w])
  BY DEF WorkTypes, WorkersOK
<1>2. \A w \in Workers : WorkerOK(work[w])'
  <2> SUFFICES ASSUME NEW w \in Workers PROVE WorkerOK(work[w])'
    OBVIOUS
  <2>1. PICK d \in WorkRec : d = work[w]
    BY <1>1
  <2>2. WorkerOK(d)'
    BY <1>1, <2>1, WorkerGrows
  <2> QED BY <2>1, <2>2
<1> QED BY <1>2 DEF WorkTypes, WorkersOK, NoNewRecord

LEMMA WorkStep ==
    ASSUME RowTypes, RowTypes', WorkTypes, WorkersOK, JobsGrow,
           NEW w \in Workers, NEW d \in WorkRec, work' = [work EXCEPT ![w] = d], Named(d), WorkerOK(d)'
    PROVE  WorkTypes' /\ WorkersOK' /\ (d.op # "record" => NoNewRecord)
<1>1. \A v \in Workers : work[v] \in WorkRec /\ Named(work[v]) /\ WorkerOK(work[v])
  BY DEF WorkTypes, WorkersOK
<1>2. \A v \in Workers : work'[v] = IF v = w THEN d ELSE work[v]
  BY DEF WorkTypes
<1>3. ASSUME NEW v \in Workers PROVE WorkerOK(work[v])'
  <2>1. PICK c \in WorkRec : c = work'[v] /\ (v # w => c = work[v]) /\ (v = w => c = d)
    BY <1>1, <1>2
  <2>2. WorkerOK(c)'
    BY <1>1, <2>1, WorkerGrows
  <2> QED BY <2>1, <2>2
<1>4. WorkTypes'
  BY <1>1, <1>2 DEF WorkTypes
<1> QED BY <1>2, <1>3, <1>4 DEF WorkersOK, NoNewRecord, Doing

\* An operation ends.
LEMMA WorkEnds ==
    ASSUME RowTypes, RowTypes', WorkTypes, WorkersOK, JobsGrow, NEW w \in Workers, Ends(w)
    PROVE  WorkTypes' /\ WorkersOK' /\ NoNewRecord
<1>1. Idle \in WorkRec /\ Idle.op = "idle"
  BY InboxAssumption DEF Idle, WorkRec, Ops
<1>2. Named(Idle) /\ WorkerOK(Idle)'
  BY <1>1 DEF Named, WorkerOK, AttemptOps, Reads
<1> QED BY <1>1, <1>2, WorkStep DEF Ends

-----------------------------------------------------------------------------
(* What keeps the parts of the invariant *)

Plain == States \ {"sending", "ambiguous", "sent"}
SeenStays == \A k \in Jobs, n \in Numbers : seen[k][n] = "confirmed" => seen'[k][n] = "confirmed"

LEMMA AttKept ==
    ASSUME AttemptsOK, UNCHANGED att, SeenStays,
           \A k \in Jobs : job'[k].state = job[k].state \/ (job[k].state \in Plain /\ job'[k].state \in Plain)
    PROVE  AttemptsOK'
<1>1. \A k \in Jobs, n \in Numbers : AttemptOK(k, n)'
  <2> SUFFICES ASSUME NEW k \in Jobs, NEW n \in Numbers PROVE AttemptOK(k, n)'
    OBVIOUS
  <2>1. AttemptOK(k, n)
    BY DEF AttemptsOK
  <2>2. CASE job'[k].state = job[k].state
    BY <2>1, <2>2 DEF AttemptOK, SeenStays
  <2>3. CASE job[k].state \in Plain /\ job'[k].state \in Plain
    BY <2>1, <2>3 DEF AttemptOK, SeenStays, Plain
  <2> QED BY <2>2, <2>3
<1>2. \A k \in Jobs : \A S : Has(k, S)' = Has(k, S)
  BY DEF Has
<1>3. \A k \in Jobs : /\ job'[k].state = "sending" => job[k].state = "sending"
                      /\ job'[k].state = "ambiguous" => job[k].state = "ambiguous"
                      /\ job'[k].state = "sent" => job[k].state = "sent"
  BY DEF Plain
<1> QED BY <1>1, <1>2, <1>3 DEF AttemptsOK, Has

LEMMA BlessedKept ==
    ASSUME BlessedOK, \A k \in Jobs : blessed[k] \subseteq blessed'[k],
           \A k \in Jobs : job'[k].state \in {"approved", "queued", "sending"} /\ job'[k].text # None =>
              \/ job[k].state \in {"approved", "queued", "sending"} /\ job[k].text = job'[k].text
              \/ job'[k].text \in blessed'[k]
    PROVE  BlessedOK'
BY DEF BlessedOK

LEMMA ChargesKept ==
    ASSUME ChargesOK, WorkTypes, UNCHANGED <<charged, written>>, NoNewRecord, SeenStays,
           \A k \in Jobs, n \in Numbers : Kept(k, n) => Kept(k, n)'
    PROVE  ChargesOK'
<1>1. \A k \in Jobs, n \in Numbers : <<k, n>> \in written' => Kept(k, n)'
  BY DEF ChargesOK
<1>2. ASSUME NEW w \in Workers, Doing(w, "record")'
      PROVE  /\ seen'[work'[w].job][work'[w].n] = "confirmed" /\ <<work'[w].job, work'[w].n>> \notin written'
             /\ Kept(work[w].job, work[w].n)'
  <2>1. work'[w] = work[w] /\ Doing(w, "record")
    BY <1>2 DEF NoNewRecord, Doing
  <2>2. PICK k \in Jobs, n \in Numbers : k = work[w].job /\ n = work[w].n
    BY <2>1 DEF WorkTypes, Named, AttemptOps, Doing
  <2>3. seen[k][n] = "confirmed" /\ <<k, n>> \notin written /\ Kept(k, n)
    BY <2>1, <2>2 DEF ChargesOK
  <2>4. seen'[k][n] = "confirmed" /\ <<k, n>> \notin written' /\ Kept(k, n)'
    BY <2>3 DEF SeenStays
  <2> QED BY <2>1, <2>2, <2>4
<1>3. \A w, v \in Workers : Doing(w, "record")' /\ Doing(v, "record")' /\ work'[w].job = work'[v].job /\ work'[w].n = work'[v].n
                            => w = v
  BY DEF ChargesOK, NoNewRecord, Doing
<1> QED BY <1>1, <1>2, <1>3 DEF ChargesOK

\* The rows keep their part of the invariant.
Held == RowTypes' /\ WireTypes' /\ JobsGrow /\ AttemptsOK' /\ BlessedOK' /\ (NoNewRecord => ChargesOK')

LEMMA HeldStays == ASSUME InboxInv, Held, UNCHANGED work PROVE InboxInv'
BY WorkStays DEF InboxInv, Held

LEMMA HeldEnds == ASSUME InboxInv, Held, NEW w \in Workers, Ends(w) PROVE InboxInv'
BY WorkEnds DEF InboxInv, Held

LEMMA HeldStep ==
    ASSUME InboxInv, Held, NEW w \in Workers, NEW d \in WorkRec, work' = [work EXCEPT ![w] = d], Named(d), WorkerOK(d)',
           d.op # "record"
    PROVE  InboxInv'
BY WorkStep DEF InboxInv, Held

\* Rows untouched, but for what the edge has seen and what the budget was charged.
LEMMA RowsStay ==
    ASSUME InboxInv, UNCHANGED <<job, att, charged, written, blessed>>, RowTypes', WireTypes', SeenStays
    PROVE  Held
<1>1. JobsGrow
  BY JobsStay DEF InboxInv
<1>2. AttemptsOK'
  BY AttKept DEF InboxInv
<1>3. BlessedOK'
  BY BlessedKept DEF InboxInv
<1>4. NoNewRecord => ChargesOK'
  BY ChargesKept DEF InboxInv, Kept
<1> QED BY <1>1, <1>2, <1>3, <1>4 DEF Held

\* A job moves between two states no attempt speaks for.
LEMMA PlainMove ==
    ASSUME InboxInv, NEW j \in Jobs, NEW to \in Plain \ {"none", "gone"}, NEW t \in Texts \cup {None}, job' = Moved(j, to, t),
           job[j].state \in Plain \ {"none", "gone"}, UNCHANGED <<att, seen, charged, written, wire>>,
           blessed' \in [Jobs -> SUBSET Texts], \A k \in Jobs : blessed[k] \subseteq blessed'[k],
           to \in {"approved", "queued"} /\ t # None => t \in blessed'[j]
    PROVE  Held
<1>1. /\ job' \in [Jobs -> JobRec] /\ job'[j].state = to /\ job'[j].ver = job[j].ver + 1 /\ job'[j].text = t
      /\ \A k \in Jobs \ {j} : job'[k] = job[k]
  BY MovedFacts DEF InboxInv, RowTypes, Plain
<1>2. RowTypes'
  BY <1>1 DEF InboxInv, RowTypes
<1>3. JobsGrow
  BY MoveGrows DEF InboxInv, Plain
<1>4. AttemptsOK'
  BY <1>1, AttKept DEF InboxInv, SeenStays
<1>5. BlessedOK'
  BY <1>1, BlessedKept DEF InboxInv, Plain
<1>6. NoNewRecord => ChargesOK'
  BY <1>1, ChargesKept DEF InboxInv, Kept, SeenStays
<1>7. WireTypes'
  BY DEF InboxInv, WireTypes
<1> QED BY <1>2, <1>3, <1>4, <1>5, <1>6, <1>7 DEF Held

\* Nothing written but what a worker goes on with.
LEMMA NothingWritten ==
    ASSUME InboxInv, UNCHANGED <<job, att, seen, charged, written, blessed>>, wire' = wire \/ \E c \in CommandRec : wire' = Append(wire, c)
    PROVE  Held
<1>1. RowTypes'
  BY DEF InboxInv, RowTypes
<1>2. WireTypes'
  BY DEF InboxInv, WireTypes
<1> QED BY <1>1, <1>2, RowsStay DEF SeenStays

-----------------------------------------------------------------------------
(* Drafts *)

LEMMA InvgenerateTooLate == ASSUME InboxInv, NEW w \in Workers, GenerateTooLate(w) PROVE InboxInv'
BY NothingWritten, HeldEnds DEF GenerateTooLate

\* What a draft may be called.
LEMMA PlainNames ==
    /\ {"new", "classifying", "draft_ready", "approval_required", "approved", "queued", "failed", "closed"} \subseteq Plain \ {"none", "gone"}
    /\ Plain \subseteq States
BY DEF Plain, States

LEMMA JobText == ASSUME RowTypes, NEW j \in Jobs PROVE job[j].text \in Texts \cup {None} /\ job[j].ver \in Nat /\ job[j].state \in States
BY DEF RowTypes, JobRec


\* An operation that begins with a job.
LEMMA NewWork ==
    ASSUME NEW op \in Ops, NEW j \in Jobs, NEW v \in Nat, NEW d, d = [op |-> op, job |-> j, env |-> None, ver |-> v, text |-> None, n |-> 0]
    PROVE  d \in WorkRec /\ d.op = op /\ d.job = j /\ d.ver = v /\ d.text = None /\ d.n = 0
<1>1. 0 \in 0..MaxAttempts
  BY InboxAssumption
<1> QED BY <1>1 DEF WorkRec

LEMMA Invgenerate ==
    ASSUME InboxInv, NEW w \in Workers, NEW j \in Jobs, generate(w, j) PROVE InboxInv'
<1>1. /\ job[j].state \in {"new", "approval_required", "failed"} /\ job' = Moved(j, "classifying", job[j].text)
      /\ UNCHANGED <<att, seen, charged, written, blessed, wire>>
  BY DEF generate
<1>2. job[j].text \in Texts \cup {None} /\ job[j].ver \in Nat
  BY JobText DEF InboxInv
<1>3. Held
  BY <1>1, <1>2, PlainNames, PlainMove DEF InboxInv, RowTypes
<1>4. PICK d : d = [Idle EXCEPT !.op = "generate", !.job = j, !.ver = job[j].ver + 1]
  OBVIOUS
<1>5. d \in WorkRec /\ d.op = "generate" /\ d.job = j /\ d.ver = job[j].ver + 1 /\ d.text = None
  <2>1. job[j].ver + 1 \in Nat
    BY <1>2
  <2>2. "generate" \in Ops
    BY DEF Ops
  <2>3. d = [op |-> "generate", job |-> j, env |-> None, ver |-> job[j].ver + 1, text |-> None, n |-> 0]
    BY <1>4 DEF Idle
  <2> QED BY <2>1, <2>2, <2>3, NewWork
<1>6. Named(d)
  BY <1>5 DEF Named, AttemptOps
<1>7. job'[j].state = "classifying" /\ job'[j].ver = job[j].ver + 1
  BY <1>1, <1>2, PlainNames, MovedFacts DEF InboxInv, RowTypes
<1>8. WorkerOK(d)'
  BY <1>2, <1>5, <1>7 DEF WorkerOK
<1>9. work' = [work EXCEPT ![w] = d]
  BY <1>4 DEF generate
<1> QED BY <1>3, <1>5, <1>6, <1>8, <1>9, HeldStep

\* The job a worker's write is about.
LEMMA AtHand ==
    ASSUME WorkTypes, NEW w \in Workers, work[w].op # "idle" PROVE work[w].job \in Jobs
BY DEF WorkTypes, Named

LEMMA InvbuildPreview ==
    ASSUME InboxInv, NEW w \in Workers, buildPreview(w) \/ failGeneration(w) PROVE InboxInv'
<1>1. PICK j \in Jobs : j = work[w].job
  BY AtHand DEF InboxInv, buildPreview, failGeneration, StillClassifying, Doing
<1>2. PICK to \in {"draft_ready", "approval_required", "failed"}, t \in Texts \cup {None} : job' = Moved(j, to, t)
  BY <1>1 DEF buildPreview, failGeneration
<1>3. job[j].state = "classifying" /\ UNCHANGED <<att, seen, charged, written, blessed, wire>> /\ Ends(w)
  BY <1>1 DEF buildPreview, failGeneration, StillClassifying, CanTransition
<1>4. Held
  BY <1>2, <1>3, PlainNames, PlainMove DEF InboxInv, RowTypes
<1> QED BY <1>3, <1>4, HeldEnds

\* A text more that somebody agreed to.
LEMMA BlessedMore ==
    ASSUME RowTypes, NEW j \in Jobs, NEW t \in Texts, blessed' = [blessed EXCEPT ![j] = @ \cup {t}]
    PROVE  /\ blessed' \in [Jobs -> SUBSET Texts] /\ \A k \in Jobs : blessed[k] \subseteq blessed'[k]
           /\ t \in blessed'[j]
BY DEF RowTypes

LEMMA InvcanAutoQueueDraft ==
    ASSUME InboxInv, NEW w \in Workers, canAutoQueueDraft(w) PROVE InboxInv'
<1>1. PICK j \in Jobs : j = work[w].job
  BY AtHand DEF InboxInv, canAutoQueueDraft, StillClassifying, Doing
<1>2. PICK t \in Texts : job' = Moved(j, "queued", t) /\ blessed' = [blessed EXCEPT ![j] = @ \cup {t}]
  BY <1>1 DEF canAutoQueueDraft
<1>3. /\ job[j].state = "classifying" /\ job[j].ver = work[w].ver /\ work[w].op = "generate"
      /\ UNCHANGED <<att, seen, charged, written, wire>>
  BY <1>1 DEF canAutoQueueDraft, StillClassifying, CanTransition, Doing, Step
<1>4. blessed' \in [Jobs -> SUBSET Texts] /\ (\A k \in Jobs : blessed[k] \subseteq blessed'[k]) /\ t \in blessed'[j]
  BY <1>2, BlessedMore DEF InboxInv
<1>5. Held
  BY <1>2, <1>3, <1>4, PlainNames, PlainMove
<1>6. PICK d : d = [work[w] EXCEPT !.op = "dispatch", !.ver = work[w].ver + 1]
  OBVIOUS
<1>7. work[w] \in WorkRec /\ work[w].ver \in Nat /\ work[w].text = None
  BY <1>3 DEF InboxInv, WorkTypes, WorkRec, WorkersOK, WorkerOK
<1>8. d \in WorkRec /\ d.op = "dispatch" /\ d.job = j /\ d.ver = job[j].ver + 1 /\ d.text = None
  <2>1. work[w].ver + 1 \in Nat
    BY <1>7
  <2> QED BY <1>1, <1>3, <1>6, <1>7, <2>1 DEF WorkRec, Ops
<1>9. Named(d)
  BY <1>8 DEF Named, AttemptOps
<1>10. job'[j].state = "queued" /\ job'[j].ver = job[j].ver + 1
  BY <1>2, PlainNames, MovedFacts DEF InboxInv, RowTypes
<1>11. WorkerOK(d)'
  BY <1>3, <1>7, <1>8, <1>10 DEF WorkerOK
<1>12. work' = [work EXCEPT ![w] = d]
  BY <1>6 DEF canAutoQueueDraft
<1> QED BY <1>5, <1>8, <1>9, <1>11, <1>12, HeldStep

LEMMA InvLook ==
    ASSUME InboxInv, NEW w \in Workers, NEW j \in Jobs, Look(w, j) PROVE InboxInv'
<1>1. /\ job[j].state = "approval_required" /\ job[j].text # None /\ UNCHANGED <<job, att, seen, charged, written, blessed, wire>>
  BY DEF Look
<1>2. Held
  BY <1>1, NothingWritten
<1>3. PICK d : d = [Idle EXCEPT !.op = "look", !.job = j, !.ver = job[j].ver, !.text = job[j].text]
  OBVIOUS
<1>4. job[j].text \in Texts /\ job[j].ver \in Nat
  BY <1>1, JobText DEF InboxInv
<1>5. d = [op |-> "look", job |-> j, env |-> None, ver |-> job[j].ver, text |-> job[j].text, n |-> 0]
  BY <1>3 DEF Idle
<1>6. d \in WorkRec
  BY <1>4, <1>5, InboxAssumption DEF WorkRec, Ops
<1>7. Named(d)
  BY <1>5 DEF Named, AttemptOps
<1>8. WorkerOK(d)
  BY <1>1, <1>4, <1>5 DEF WorkerOK
<1>9. WorkerOK(d)'
  BY <1>1, <1>8 DEF WorkerOK, CanTransition
<1>10. work' = [work EXCEPT ![w] = d]
  BY <1>3 DEF Look
<1> QED BY <1>2, <1>5, <1>6, <1>7, <1>9, <1>10, HeldStep

LEMMA Invapprove ==
    ASSUME InboxInv, NEW w \in Workers, approve(w) PROVE InboxInv'
<1>1. PICK j \in Jobs : j = work[w].job
  BY AtHand DEF InboxInv, approve, Doing
<1>2. UNCHANGED <<att, seen, charged, written, wire>> /\ Ends(w)
  BY DEF approve
<1>3. CASE CanTransition(j, work[w].ver, {"approval_required"}) /\ job[j].text # None
  <2>1. PICK t \in Texts : t = job[j].text
    BY <1>3, JobText DEF InboxInv
  <2>2. job' = Moved(j, "approved", t) /\ job[j].state = "approval_required" /\ blessed' = [blessed EXCEPT ![j] = @ \cup {work[w].text}]
    BY <1>1, <1>3, <2>1 DEF approve, CanTransition
  <2>3. work[w].text = t
    <3>1. WorkerOK(work[w]) /\ work[w].op = "look"
      BY DEF InboxInv, WorkersOK, approve, Doing
    <3> QED BY <1>1, <1>3, <2>1, <3>1 DEF WorkerOK
  <2>4. blessed' \in [Jobs -> SUBSET Texts] /\ (\A k \in Jobs : blessed[k] \subseteq blessed'[k]) /\ t \in blessed'[j]
    BY <2>2, <2>3, BlessedMore DEF InboxInv
  <2>5. Held
    BY <1>2, <2>2, <2>4, PlainNames, PlainMove
  <2> QED BY <1>2, <2>5, HeldEnds
<1>4. CASE ~(CanTransition(j, work[w].ver, {"approval_required"}) /\ job[j].text # None)
  <2>1. UNCHANGED <<job, blessed>>
    BY <1>1, <1>4 DEF approve
  <2>2. Held
    BY <1>2, <2>1, NothingWritten
  <2> QED BY <1>2, <2>2, HeldEnds
<1> QED BY <1>3, <1>4

LEMMA Invedit ==
    ASSUME InboxInv, NEW w \in Workers, edit(w) PROVE InboxInv'
<1>1. PICK j \in Jobs : j = work[w].job
  BY AtHand DEF InboxInv, edit, Doing
<1>2. UNCHANGED <<att, seen, charged, written, blessed, wire>> /\ Ends(w)
  BY DEF edit
<1>3. PICK t \in Texts : job' = IF CanTransition(j, work[w].ver, {"approval_required"}) THEN Moved(j, "approval_required", t) ELSE job
  BY <1>1 DEF edit
<1>4. CASE CanTransition(j, work[w].ver, {"approval_required"})
  <2>1. job' = Moved(j, "approval_required", t) /\ job[j].state = "approval_required"
    BY <1>3, <1>4 DEF CanTransition
  <2>2. Held
    BY <1>2, <2>1, PlainNames, PlainMove DEF InboxInv, RowTypes
  <2> QED BY <1>2, <2>2, HeldEnds
<1>5. CASE ~CanTransition(j, work[w].ver, {"approval_required"})
  <2>1. Held
    BY <1>2, <1>3, <1>5, NothingWritten
  <2> QED BY <1>2, <2>1, HeldEnds
<1> QED BY <1>4, <1>5

LEMMA InvtransitionMessageJob ==
    ASSUME InboxInv, NEW w \in Workers, NEW j \in Jobs, transitionMessageJob(w, j) \/ recoverStalledClassifyingJobs(j)
    PROVE  InboxInv'
<1>1. PICK to \in {"closed", "new"} : job' = Moved(j, to, job[j].text)
  BY DEF transitionMessageJob, recoverStalledClassifyingJobs
<1>2. /\ job[j].state \in {"new", "classifying", "draft_ready", "approval_required", "approved", "failed"}
      /\ UNCHANGED <<att, seen, charged, written, blessed, wire, work>>
  BY DEF transitionMessageJob, recoverStalledClassifyingJobs
<1>3. job[j].text \in Texts \cup {None}
  BY JobText DEF InboxInv
<1>4. Held
  BY <1>1, <1>2, <1>3, PlainNames, PlainMove DEF InboxInv, RowTypes
<1> QED BY <1>2, <1>4, HeldStays

\* The write of a message not seen before.
\* A new job.
LEMMA Ingested ==
    ASSUME InboxInv, NEW w \in Workers, Ends(w), NEW j \in Jobs, NEW e \in Envs \cup {None},
           job' = [job EXCEPT ![j] = [NoJob EXCEPT !.state = "new", !.env = e]], job[j].state = "none",
           UNCHANGED <<att, seen, charged, written, blessed, wire>>
    PROVE  InboxInv'
<1>1. PICK d : d = [NoJob EXCEPT !.state = "new", !.env = e]
  OBVIOUS
<1>2. job' = [job EXCEPT ![j] = d] /\ job[j].state = "none"
  BY <1>1
<1>3. UNCHANGED <<att, seen, charged, written, blessed, wire>>
  OBVIOUS
<1>4. d = [state |-> "new", env |-> e, ver |-> 0, text |-> None]
  BY <1>1 DEF NoJob
<1>5. d \in JobRec /\ d.state = "new"
  BY <1>4 DEF JobRec, States
<1>6. job' \in [Jobs -> JobRec] /\ job'[j] = d /\ \A k \in Jobs \ {j} : job'[k] = job[k]
  BY <1>2, <1>5 DEF InboxInv, RowTypes
<1>7. RowTypes' /\ WireTypes'
  BY <1>3, <1>6 DEF InboxInv, RowTypes, WireTypes
<1>8. JobsGrow
  <2> SUFFICES ASSUME NEW k \in Jobs PROVE Grows(job[k], job'[k])
    BY <1>3 DEF JobsGrow
  <2>1. job[k].ver \in Nat
    BY DEF InboxInv, RowTypes, JobRec
  <2> QED BY <1>2, <1>6, <2>1 DEF Grows
<1>9. AttemptsOK'
  BY <1>2, <1>3, <1>5, <1>6, AttKept DEF InboxInv, SeenStays, Plain, States
<1>10. BlessedOK'
  BY <1>3, <1>5, <1>6, BlessedKept DEF InboxInv
<1>11. NoNewRecord => ChargesOK'
  BY <1>2, <1>3, <1>6, ChargesKept DEF InboxInv, Kept, SeenStays
<1> QED BY <1>3, <1>7, <1>8, <1>9, <1>10, <1>11, HeldEnds DEF Held

LEMMA InvensureReadable ==
    ASSUME InboxInv, NEW w \in Workers, NEW j \in Jobs, ensureReadable(w, j), auth.env \in Envs \cup {None} PROVE InboxInv'
<1>1. PICK d : d = [Idle EXCEPT !.op = "ingest", !.job = j, !.env = auth.env]
  OBVIOUS
<1>2. d = [op |-> "ingest", job |-> j, env |-> auth.env, ver |-> 0, text |-> None, n |-> 0]
  BY <1>1 DEF Idle
<1>3. d \in WorkRec /\ d.op = "ingest" /\ d.job = j
  BY <1>2, InboxAssumption DEF WorkRec, Ops
<1>4. Named(d) /\ WorkerOK(d)'
  BY <1>3 DEF Named, AttemptOps, WorkerOK, Reads
<1>5. work' = [work EXCEPT ![w] = d] /\ UNCHANGED <<job, att, seen, charged, written, blessed, wire>>
  BY <1>1 DEF ensureReadable
<1>6. Held
  BY <1>5, NothingWritten
<1> QED BY <1>3, <1>4, <1>5, <1>6, HeldStep

LEMMA InvingestBatch ==
    ASSUME InboxInv, NEW w \in Workers, ingestBatch(w) PROVE InboxInv'
<1>0. PICK j \in Jobs : j = work[w].job
  BY DEF ingestBatch, InboxInv, WorkTypes, Named, Doing
<1>a. work[w].env \in Envs \cup {None}
  BY DEF InboxInv, WorkTypes, WorkRec
<1>b. Ends(w) /\ UNCHANGED <<att, seen, charged, written, blessed, wire>>
  BY DEF ingestBatch
<1>c. CASE job' = job
  <2>1. Held
    BY <1>b, <1>c, NothingWritten
  <2> QED BY <1>b, <2>1, HeldEnds
<1>d. ASSUME job' # job PROVE InboxInv'
  <2> SUFFICES ASSUME job' = [job EXCEPT ![j] = [NoJob EXCEPT !.state = "new", !.env = work[w].env]], job[j].state = "none"
               PROVE  InboxInv'
    BY <1>0, <1>d DEF ingestBatch, NotSeenBefore
  <2>1. PICK e \in Envs \cup {None} : e = work[w].env
    BY <1>a
  <2>2. job' = [job EXCEPT ![j] = [NoJob EXCEPT !.state = "new", !.env = e]]
    BY <2>1
  <2>3. job[j].state = "none" /\ Ends(w) /\ UNCHANGED <<att, seen, charged, written, blessed, wire>>
    BY <1>b
  <2>4. e \in Envs \cup {None} /\ j \in Jobs /\ w \in Workers /\ InboxInv
    BY <2>1
  <2> QED BY <2>2, <2>3, <2>4, Ingested, Zenon
<1> QED BY <1>c, <1>d

-----------------------------------------------------------------------------
(* Queueing and dispatching *)

LEMMA InvQueue ==
    ASSUME InboxInv, NEW w \in Workers, NEW j \in Jobs, Queue(w, j) \/ Dispatch(w, j) PROVE InboxInv'
<1>8. PICK op \in {"queue", "dispatch"} : work' = [work EXCEPT ![w] = [Idle EXCEPT !.op = op, !.job = j, !.ver = job[j].ver]]
  BY DEF Queue, Dispatch
<1>1. PICK d : d = [Idle EXCEPT !.op = op, !.job = j, !.ver = job[j].ver] /\ work' = [work EXCEPT ![w] = d]
  BY <1>8
<1>2. job[j].state \in {"approved", "queued"} /\ UNCHANGED <<job, att, seen, charged, written, blessed, wire>>
  BY DEF Queue, Dispatch
<1>3. Held
  BY <1>2, NothingWritten
<1>4. job[j].ver \in Nat
  BY JobText DEF InboxInv
<1>5. d \in WorkRec /\ d.op = op /\ d.job = j /\ d.ver = job[j].ver /\ d.text = None
  <2>1. op \in Ops
    BY DEF Ops
  <2>2. d = [op |-> op, job |-> j, env |-> None, ver |-> job[j].ver, text |-> None, n |-> 0]
    BY <1>1 DEF Idle
  <2> QED BY <1>4, <2>1, <2>2, NewWork
<1>6. Named(d)
  BY <1>5 DEF Named, AttemptOps
<1>7. WorkerOK(d)'
  BY <1>2, <1>4, <1>5 DEF WorkerOK
<1> QED BY <1>1, <1>3, <1>5, <1>6, <1>7, HeldStep

LEMMA InvqueueApproved ==
    ASSUME InboxInv, NEW w \in Workers, queueApproved(w) PROVE InboxInv'
<1>1. PICK j \in Jobs : j = work[w].job
  BY AtHand DEF InboxInv, queueApproved, Doing
<1>2. UNCHANGED <<att, seen, charged, written, blessed, wire>> /\ Ends(w)
  BY DEF queueApproved
<1>3. CASE CanTransition(j, work[w].ver, {"approved"})
  <2>1. job' = Moved(j, "queued", job[j].text) /\ job[j].state = "approved"
    BY <1>1, <1>3 DEF queueApproved, CanTransition
  <2>2. job[j].text \in Texts \cup {None} /\ (job[j].text # None => job[j].text \in blessed'[j])
    BY <1>2, <2>1, JobText DEF InboxInv, BlessedOK
  <2>3. Held
    BY <1>2, <2>1, <2>2, PlainNames, PlainMove DEF InboxInv, RowTypes
  <2> QED BY <1>2, <2>3, HeldEnds
<1>4. CASE ~CanTransition(j, work[w].ver, {"approved"})
  <2>1. UNCHANGED job
    BY <1>1, <1>4 DEF queueApproved
  <2>2. Held
    BY <1>2, <2>1, NothingWritten
  <2> QED BY <1>2, <2>2, HeldEnds
<1> QED BY <1>3, <1>4

LEMMA InvdispatchQueued ==
    ASSUME InboxInv, NEW w \in Workers, dispatchQueued(w) PROVE InboxInv'
<1>1. PICK j \in Jobs : j = work[w].job
  BY AtHand DEF InboxInv, dispatchQueued, Doing
<1>2. UNCHANGED <<job, att, seen, charged, written, blessed, wire>> /\ work[w].op = "dispatch"
  BY DEF dispatchQueued, Doing
<1>3. Held
  BY <1>2, NothingWritten
<1>4. CASE Ends(w)
  BY <1>3, <1>4, HeldEnds
<1>5. CASE gate(j) /\ job[j].state = "queued" /\ work' = [work EXCEPT ![w].text = job[j].text]
  <2>1. PICK d : d = [work[w] EXCEPT !.text = job[j].text]
    OBVIOUS
  <2>2. work[w] \in WorkRec /\ Named(work[w]) /\ WorkerOK(work[w])
    BY DEF InboxInv, WorkTypes, WorkersOK
  <2>3. job[j].text \in Texts /\ job[j].text \in blessed[j]
    BY <1>5, JobText DEF InboxInv, BlessedOK, gate
  <2>4. /\ d \in WorkRec /\ d.op = "dispatch" /\ d.job = j /\ d.ver = work[w].ver /\ d.text = job[j].text
    BY <1>1, <1>2, <2>1, <2>2, <2>3 DEF WorkRec
  <2>5. Named(d)
    BY <2>4 DEF Named, AttemptOps
  <2>6. WorkerOK(d)'
    BY <1>1, <1>2, <2>2, <2>3, <2>4 DEF WorkerOK, Reads
  <2>7. work' = [work EXCEPT ![w] = d]
    BY <1>5, <2>1
  <2> QED BY <1>3, <2>4, <2>5, <2>6, <2>7, HeldStep
<1> QED BY <1>1, <1>4, <1>5 DEF dispatchQueued

-----------------------------------------------------------------------------
(* Attempts *)

\* One attempt is rewritten.
LEMMA AttFacts ==
    ASSUME RowTypes, NEW j \in Jobs, NEW n \in Numbers, NEW a \in AttRec, att' = [att EXCEPT ![j][n] = a]
    PROVE  /\ att' \in [Jobs -> [Numbers -> AttRec]] /\ att'[j][n] = a
           /\ \A k \in Jobs, m \in Numbers : (k # j \/ m # n) => att'[k][m] = att[k][m]
<1>1. PICK f : f = [att[j] EXCEPT ![n] = a]
  OBVIOUS
<1>2. att[j] \in [Numbers -> AttRec] /\ att \in [Jobs -> [Numbers -> AttRec]]
  BY DEF RowTypes
<1>3. f \in [Numbers -> AttRec] /\ f[n] = a /\ \A m \in Numbers \ {n} : f[m] = att[j][m]
  BY <1>1, <1>2
<1>4. att' = [att EXCEPT ![j] = f]
  BY <1>1
<1>5. att' \in [Jobs -> [Numbers -> AttRec]] /\ att'[j] = f /\ \A k \in Jobs \ {j} : att'[k] = att[k]
  BY <1>2, <1>3, <1>4
<1> QED BY <1>3, <1>5

\* What the invariant says of one attempt and its job.
LEMMA AttemptFacts ==
    ASSUME AttemptsOK, RowTypes, NEW j \in Jobs, NEW n \in Numbers, att[j][n].status \in Active
    PROVE  /\ job[j].state \in {"sending", "ambiguous"} /\ ~att[j][n].claimed
           /\ att[j][n].status \in Unfinished => job[j].state = "sending"
           /\ att[j][n].status = "ambiguous" => job[j].state = "ambiguous"
           /\ \A m \in Numbers \ {n} : att[j][m].status \in {"none", "failed"}
<1>1. AttemptOK(j, n) /\ \A m \in Numbers : AttemptOK(j, m)
  BY DEF AttemptsOK
<1>2. job[j].state \in {"sending", "ambiguous"} /\ ~att[j][n].claimed
  BY <1>1 DEF AttemptOK, Active, Unfinished
<1>3. ASSUME NEW m \in Numbers \ {n} PROVE att[j][m].status \in {"none", "failed"}
  <2>1. att[j][m].status \notin Active
    BY DEF AttemptsOK
  <2>2. att[j][m].status # "confirmed"
    BY <1>1, <1>2 DEF AttemptOK
  <2>3. att[j][m] \in AttRec
    BY DEF RowTypes
  <2> QED BY <2>1, <2>2, <2>3 DEF Active, Unfinished, AttRec
<1> QED BY <1>1, <1>2, <1>3 DEF AttemptOK

\* The attempt under way is given a result, or dispatched, and the job goes along.
LEMMA AttSettled ==
    ASSUME AttemptsOK, RowTypes, NEW j \in Jobs, NEW n \in Numbers, NEW a \in AttRec, att' = [att EXCEPT ![j][n] = a],
           att[j][n].status \in Active, ~a.claimed, UNCHANGED seen, \A k \in Jobs \ {j} : job'[k].state = job[k].state,
           \/ a.status = "dispatched" /\ att[j][n].status \in Unfinished /\ job'[j].state = "sending"
           \/ a.status = "ambiguous" /\ job'[j].state = "ambiguous"
           \/ a.status = "confirmed" /\ job'[j].state = "sent" /\ seen[j][n] = "confirmed"
           \/ a.status = "failed" /\ job'[j].state \in Plain
    PROVE  AttemptsOK'
<1>1. /\ att'[j][n] = a
      /\ \A k \in Jobs, m \in Numbers : (k # j \/ m # n) => att'[k][m] = att[k][m]
  BY AttFacts, ZenonT(30)
<1>2. \A m \in Numbers \ {n} : att[j][m].status \in {"none", "failed"}
  BY AttemptFacts
<1>3. \A k \in Jobs, m \in Numbers : AttemptOK(k, m)'
  <2> SUFFICES ASSUME NEW k \in Jobs, NEW m \in Numbers PROVE AttemptOK(k, m)'
    OBVIOUS
  <2>1. AttemptOK(k, m)
    BY DEF AttemptsOK
  <2>2. CASE k # j
    BY <1>1, <2>1, <2>2 DEF AttemptOK
  <2>3. CASE k = j /\ m # n
    BY <1>1, <1>2, <2>1, <2>3 DEF AttemptOK, Unfinished
  <2>4. CASE k = j /\ m = n
    BY <1>1, <2>4 DEF AttemptOK, Unfinished, Plain
  <2> QED BY <2>2, <2>3, <2>4
<1>4. \A k \in Jobs \ {j} : \A S : Has(k, S)' = Has(k, S)
  BY <1>1 DEF Has
<1>5. Has(j, {a.status})'
  BY <1>1 DEF Has
<1>6. \A m \in Numbers : att'[j][m].status \in Active => m = n
  BY <1>1, <1>2 DEF Active, Unfinished
<1>7. \A k \in Jobs : /\ job'[k].state = "sending" => Has(k, Unfinished)'
                      /\ job'[k].state = "ambiguous" => Has(k, {"ambiguous"})'
                      /\ job'[k].state = "sent" => Has(k, {"confirmed"})'
  <2> SUFFICES ASSUME NEW k \in Jobs
               PROVE  /\ job'[k].state = "sending" => Has(k, Unfinished)'
                      /\ job'[k].state = "ambiguous" => Has(k, {"ambiguous"})'
                      /\ job'[k].state = "sent" => Has(k, {"confirmed"})'
    OBVIOUS
  <2>1. CASE k # j
    BY <1>4, <2>1 DEF AttemptsOK
  <2>2. CASE k = j
    BY <1>5, <2>2 DEF Has, Plain, Unfinished
  <2> QED BY <2>1, <2>2
<1>8. \A k \in Jobs : \A m, l \in Numbers : att'[k][m].status \in Active /\ att'[k][l].status \in Active => m = l
  BY <1>1, <1>6 DEF AttemptsOK
<1>9. \A k \in Jobs : \A m, l \in Numbers : l < m /\ att'[k][m].status # "none" => att'[k][l].status # "none"
  <2>1. \A k \in Jobs, m \in Numbers : (att'[k][m].status # "none") = (att[k][m].status # "none")
    BY <1>1 DEF Active, Unfinished
  <2> QED BY <2>1 DEF AttemptsOK
<1>10. \A k \in Jobs : Has(k, Unfinished)' => Has(k, Unfinished)
  <2> SUFFICES ASSUME NEW k \in Jobs, Has(k, Unfinished)' PROVE Has(k, Unfinished)
    OBVIOUS
  <2>1. PICK m \in Numbers : att'[k][m].status \in Unfinished
    BY DEF Has
  <2>2. att[k][m].status \in Unfinished
    BY <1>1, <2>1 DEF Unfinished
  <2> QED BY <2>2 DEF Has
<1>11. \A k, l \in Jobs : Has(k, Unfinished)' /\ Has(l, Unfinished)' => k = l
  BY <1>10 DEF AttemptsOK
<1> QED BY <1>3, <1>7, <1>8, <1>9, <1>11 DEF AttemptsOK

\* The same of the rows.
LEMMA AttMove ==
    ASSUME InboxInv, NEW j \in Jobs, NEW n \in Numbers, NEW st \in {"dispatched", "ambiguous", "confirmed", "failed"},
           NEW to \in {"sending", "ambiguous", "sent", "failed", "queued"},
           att[j][n].status \in Active, att' = [att EXCEPT ![j][n].status = st], UNCHANGED <<seen, charged, written, blessed, wire>>,
           (job' = job /\ job[j].state = to) \/ job' = Moved(j, to, job[j].text),
           to = "queued" => job[j].state = "sending",
           \/ st = "dispatched" /\ att[j][n].status \in Unfinished /\ to = "sending"
           \/ st = "ambiguous" /\ to = "ambiguous"
           \/ st = "confirmed" /\ to = "sent" /\ seen[j][n] = "confirmed"
           \/ st = "failed" /\ to \in {"failed", "queued"}
    PROVE  Held
<1>1. PICK a : a = [att[j][n] EXCEPT !.status = st]
  OBVIOUS
<1>2. att[j][n] \in AttRec
  BY DEF InboxInv, RowTypes
<1>3. a \in AttRec /\ a.status = st /\ a.claimed = att[j][n].claimed
  BY <1>1, <1>2 DEF AttRec
<1>4. att' = [att EXCEPT ![j][n] = a]
  BY <1>1
<1>5. /\ job[j].state \in {"sending", "ambiguous"} /\ ~att[j][n].claimed
      /\ att[j][n].status \in Unfinished => job[j].state = "sending"
  BY AttemptFacts DEF InboxInv
<1>6. job[j].text \in Texts \cup {None} /\ to \in States
  BY JobText DEF InboxInv, States
<1>7. /\ job' \in [Jobs -> JobRec] /\ job'[j].state = to /\ job'[j].text = job[j].text
      /\ \A k \in Jobs \ {j} : job'[k] = job[k]
  BY <1>6, MovedFacts DEF InboxInv, RowTypes
<1>8. JobsGrow
  <2>1. CASE job' = job
    BY <2>1, JobsStay DEF InboxInv
  <2>2. CASE job' = Moved(j, to, job[j].text)
    BY <1>5, <1>6, <2>2, MoveGrows DEF InboxInv
  <2> QED BY <2>1, <2>2
<1>9. /\ att' \in [Jobs -> [Numbers -> AttRec]] /\ att'[j][n] = a
      /\ \A k \in Jobs, m \in Numbers : (k # j \/ m # n) => att'[k][m] = att[k][m]
  <2>1. RowTypes /\ a \in AttRec
    BY <1>3 DEF InboxInv
  <2> QED BY ONLY <1>4, <2>1, AttFacts, ZenonT(30)
<1>10. RowTypes' /\ WireTypes'
  BY <1>7, <1>9 DEF InboxInv, RowTypes, WireTypes
<1>11. AttemptsOK'
  BY <1>3, <1>4, <1>5, <1>7, AttSettled DEF InboxInv, Plain, States
<1>12. BlessedOK'
  BY <1>5, <1>7, BlessedKept DEF InboxInv
<1>13. NoNewRecord => ChargesOK'
  <2>1. \A k \in Jobs, m \in Numbers : Kept(k, m) => Kept(k, m)'
    BY <1>5, <1>7, <1>9 DEF Kept
  <2> QED BY <2>1, ChargesKept DEF InboxInv, SeenStays
<1> QED BY <1>8, <1>10, <1>11, <1>12, <1>13 DEF Held

\* The mark operations.
LEMMA SettleHolds ==
    ASSUME InboxInv, NEW j \in Jobs, NEW n \in Numbers, NEW st \in {"dispatched", "ambiguous", "failed"},
           NEW to \in {"sending", "ambiguous", "queued"}, Settle(j, n, st, to), UNCHANGED <<seen, charged, written, blessed, wire>>,
           \/ st = "dispatched" /\ to = "sending"
           \/ st = "ambiguous" /\ to = "ambiguous"
           \/ st = "failed" /\ to = "queued"
    PROVE  Held
<1>1. CASE att[j][n].status = "created"
  <2>1. att[j][n].status \in Active /\ att[j][n].status \in Unfinished
    BY <1>1 DEF Active, Unfinished
  <2>2. job[j].state = "sending"
    BY <2>1, AttemptFacts DEF InboxInv
  <2>3. att' = [att EXCEPT ![j][n].status = st] /\ ((job' = job /\ job[j].state = to) \/ job' = Moved(j, to, job[j].text))
    BY <1>1, <2>2 DEF Settle
  <2> QED BY <2>1, <2>2, <2>3, AttMove
<1>2. CASE att[j][n].status # "created"
  <2>1. UNCHANGED <<att, job>>
    BY <1>2 DEF Settle
  <2> QED BY <2>1, NothingWritten
<1> QED BY <1>1, <1>2

LEMMA AtHandAttempt ==
    ASSUME WorkTypes, NEW w \in Workers, work[w].op \in AttemptOps PROVE work[w].job \in Jobs /\ work[w].n \in Numbers
BY DEF WorkTypes, Named, AttemptOps

LEMMA InvMarks ==
    ASSUME InboxInv, NEW w \in Workers, markAttemptDispatched(w) \/ markDispatchDeferred(w) \/ markDispatchAmbiguous(w)
    PROVE  InboxInv'
<1>1. PICK j \in Jobs, n \in Numbers : j = work[w].job /\ n = work[w].n
  <2>1. work[w].op \in AttemptOps
    BY DEF markAttemptDispatched, markDispatchDeferred, markDispatchAmbiguous, Doing, AttemptOps
  <2> QED BY <2>1, AtHandAttempt DEF InboxInv
<1>2. UNCHANGED <<seen, charged, written, blessed, wire>> /\ Ends(w)
  BY DEF markAttemptDispatched, markDispatchDeferred, markDispatchAmbiguous
<1>3. Settle(j, n, "dispatched", "sending") \/ Settle(j, n, "failed", "queued") \/ Settle(j, n, "ambiguous", "ambiguous")
  BY <1>1 DEF markAttemptDispatched, markDispatchDeferred, markDispatchAmbiguous
<1>4. Held
  <2>1. CASE Settle(j, n, "dispatched", "sending")
    BY <1>2, <2>1, SettleHolds
  <2>2. CASE Settle(j, n, "failed", "queued")
    BY <1>2, <2>2, SettleHolds
  <2>3. CASE Settle(j, n, "ambiguous", "ambiguous")
    BY <1>2, <2>3, SettleHolds
  <2> QED BY <1>3, <2>1, <2>2, <2>3
<1> QED BY <1>2, <1>4, HeldEnds

\* A worker with an attempt goes on with it.
LEMMA GoesOn ==
    ASSUME InboxInv, Held, NEW w \in Workers, NEW op \in AttemptOps \ {"record"}, work[w].op \in AttemptOps, Goes(w, op)
    PROVE  InboxInv'
<1>1. PICK d : d = [work[w] EXCEPT !.op = op]
  OBVIOUS
<1>2. work[w] \in WorkRec /\ Named(work[w]) /\ WorkerOK(work[w])
  BY DEF InboxInv, WorkTypes, WorkersOK
<1>3. op \in Ops /\ op # "idle" /\ op \notin Reads /\ work[w].op \notin {"idle", "ingest"}
  BY DEF AttemptOps, Ops, Reads
<1>4. d \in WorkRec /\ d.op = op /\ d.job = work[w].job /\ d.n = work[w].n
  BY <1>1, <1>2, <1>3 DEF WorkRec
<1>5. Named(d)
  BY <1>2, <1>3, <1>4 DEF Named
<1>6. PICK k \in Jobs : k = work[w].job
  BY <1>2, <1>3 DEF Named
<1>7. job[k].state # "none"
  BY <1>2, <1>3, <1>6 DEF WorkerOK
<1>8. job'[k].state # "none"
  BY <1>7 DEF Held, JobsGrow, Grows
<1>9. WorkerOK(d)'
  BY <1>3, <1>4, <1>6, <1>8 DEF WorkerOK, Reads
<1>10. work' = [work EXCEPT ![w] = d]
  BY <1>1 DEF Goes
<1> QED BY <1>4, <1>5, <1>9, <1>10, HeldStep

LEMMA Invpush ==
    ASSUME InboxInv, NEW w \in Workers, push(w) PROVE InboxInv'
<1>1. PICK j \in Jobs, n \in Numbers : j = work[w].job /\ n = work[w].n
  BY AtHandAttempt DEF InboxInv, push, Doing, AttemptOps
<1>2. PICK c \in CommandRec : c = [kind |-> "send", job |-> j, n |-> n]
  BY DEF CommandRec
<1>3. /\ UNCHANGED <<job, att, seen, charged, written, blessed>> /\ work[w].op = "push"
      /\ wire' = wire \/ wire' = Append(wire, c)
      /\ Goes(w, "mark") \/ Goes(w, "defer") \/ Goes(w, "unsure")
  BY <1>1, <1>2 DEF push, Doing
<1>4. Held
  BY <1>3, NothingWritten
<1> QED BY <1>3, <1>4, GoesOn DEF AttemptOps

LEMMA InvNote ==
    ASSUME InboxInv, NEW w \in Workers, Note(w) PROVE InboxInv'
<1>1. /\ UNCHANGED <<job, att, seen, charged, written, blessed, wire>> /\ work[w].op \in {"confirmed", "failed"}
      /\ Goes(w, "claim") \/ Ends(w)
  BY DEF Note
<1>2. Held
  BY <1>1, NothingWritten
<1> QED BY <1>1, <1>2, GoesOn, HeldEnds DEF AttemptOps

\* The number createAttempt gives: not used, and all before it are.
LEMMA FreshNumber ==
    ASSUME RowTypes, AttemptsOK, NEW j \in Jobs, NEW n \in Numbers, n = Cardinality(Numbers \ AttemptsIn(j, {"none"})) + 1
    PROVE  att[j][n].status = "none" /\ \A m \in Numbers : m < n => att[j][m].status # "none"
<1> DEFINE Used == Numbers \ AttemptsIn(j, {"none"})
<1>1. Used = {m \in Numbers : att[j][m].status # "none"}
  BY DEF AttemptsIn
<1>2. \A m \in Used, l \in Numbers : l < m => l \in Used
  BY <1>1 DEF AttemptsOK
<1>3. \A l \in Nat : l \in 0..MaxAttempts => IsFiniteSet(1..l) /\ Cardinality(1..l) = l
  BY FS_Interval
<1>4. IsFiniteSet(Numbers) /\ MaxAttempts \in Nat
  BY <1>3, InboxAssumption DEF Numbers
<1>5. Used \subseteq Numbers /\ IsFiniteSet(Used) /\ Cardinality(Used) \in Nat
  <2>1. Used \subseteq Numbers
    OBVIOUS
  <2> QED BY <1>4, <2>1, FS_Subset, FS_CardinalityType
<1> HIDE DEF Used
<1>6. n = Cardinality(Used) + 1 /\ n \in 1..MaxAttempts
  BY DEF Used, Numbers
<1>7. n \notin Used
  <2> SUFFICES ASSUME n \in Used PROVE FALSE
    OBVIOUS
  <2>1. 1..n \subseteq Used
    BY <1>2, <1>4, <1>6 DEF Numbers
  <2>2. Cardinality(1..n) <= Cardinality(Used)
    BY <1>5, <2>1, FS_Subset
  <2>3. Cardinality(1..n) = n
    BY <1>3, <1>4, <1>6
  <2> QED BY <1>5, <1>6, <2>2, <2>3
<1>8. ASSUME NEW m \in Numbers, m < n PROVE m \in Used
  <2> SUFFICES ASSUME m \notin Used PROVE FALSE
    OBVIOUS
  <2>1. m \in 1..MaxAttempts
    BY DEF Numbers
  <2>2. Used \subseteq 1..(m - 1)
    <3> SUFFICES ASSUME NEW l \in Used PROVE l \in 1..(m - 1)
      OBVIOUS
    <3>1. l \in 1..MaxAttempts
      BY <1>5 DEF Numbers
    <3>2. ~(m < l) /\ l # m
      BY <1>2
    <3> QED BY <1>4, <2>1, <3>1, <3>2
  <2>3. m - 1 \in Nat /\ m - 1 \in 0..MaxAttempts
    BY <1>4, <2>1
  <2>4. IsFiniteSet(1..(m - 1)) /\ Cardinality(1..(m - 1)) = m - 1
    BY <1>3, <2>3
  <2>5. Cardinality(Used) <= m - 1
    BY <2>2, <2>4, FS_Subset
  <2> QED BY <1>5, <1>6, <2>1, <2>5, <1>8
<1> QED BY <1>1, <1>7, <1>8

\* An attempt is begun: no other of the account is under way, none of the job unsettled.
LEMMA AttCreated ==
    ASSUME AttemptsOK, RowTypes, NEW j \in Jobs, NEW n \in Numbers, NEW a \in AttRec, att' = [att EXCEPT ![j][n] = a],
           a.status = "created", ~a.claimed, job[j].state = "queued", job'[j].state = "sending", UNCHANGED seen,
           \A k \in Jobs \ {j} : job'[k].state = job[k].state, \A k \in Jobs : ~Has(k, Unfinished),
           \A m \in Numbers : m < n => att[j][m].status # "none"
    PROVE  AttemptsOK'
<1>1. /\ att'[j][n] = a
      /\ \A k \in Jobs, m \in Numbers : (k # j \/ m # n) => att'[k][m] = att[k][m]
  <2>1. RowTypes /\ att' = [att EXCEPT ![j][n] = a]
    OBVIOUS
  <2> QED BY ONLY <2>1, AttFacts, ZenonT(30)
<1>2. \A m \in Numbers : att[j][m].status \in {"none", "failed"} /\ ~att[j][m].claimed
  <2> SUFFICES ASSUME NEW m \in Numbers PROVE att[j][m].status \in {"none", "failed"} /\ ~att[j][m].claimed
    OBVIOUS
  <2>1. AttemptOK(j, m) /\ att[j][m] \in AttRec
    BY DEF AttemptsOK, RowTypes
  <2> QED BY <2>1 DEF AttemptOK, Unfinished, AttRec
<1>3. \A k \in Jobs, m \in Numbers : AttemptOK(k, m)'
  <2> SUFFICES ASSUME NEW k \in Jobs, NEW m \in Numbers PROVE AttemptOK(k, m)'
    OBVIOUS
  <2>1. AttemptOK(k, m)
    BY DEF AttemptsOK
  <2>2. CASE k # j
    BY <1>1, <2>1, <2>2 DEF AttemptOK
  <2>3. CASE k = j /\ m # n
    BY <1>1, <1>2, <2>1, <2>3 DEF AttemptOK, Unfinished
  <2>4. CASE k = j /\ m = n
    BY <1>1, <2>4 DEF AttemptOK, Unfinished
  <2> QED BY <2>2, <2>3, <2>4
<1>4. \A k \in Jobs \ {j} : \A S : Has(k, S)' = Has(k, S)
  BY <1>1 DEF Has
<1>5. Has(j, Unfinished)'
  BY <1>1 DEF Has, Unfinished
<1>6. \A m \in Numbers : att'[j][m].status \in Active => m = n
  BY <1>1, <1>2 DEF Active, Unfinished
<1>7. \A k \in Jobs : /\ job'[k].state = "sending" => Has(k, Unfinished)'
                      /\ job'[k].state = "ambiguous" => Has(k, {"ambiguous"})'
                      /\ job'[k].state = "sent" => Has(k, {"confirmed"})'
  BY <1>4, <1>5 DEF AttemptsOK
<1>8. \A k \in Jobs : \A m, l \in Numbers : att'[k][m].status \in Active /\ att'[k][l].status \in Active => m = l
  BY <1>1, <1>6 DEF AttemptsOK
<1>9. \A k \in Jobs : \A m, l \in Numbers : l < m /\ att'[k][m].status # "none" => att'[k][l].status # "none"
  <2> SUFFICES ASSUME NEW k \in Jobs, NEW m \in Numbers, NEW l \in Numbers, l < m, att'[k][m].status # "none"
               PROVE  att'[k][l].status # "none"
    OBVIOUS
  <2>1. att[k][m].status # "none" => att[k][l].status # "none"
    BY DEF AttemptsOK
  <2>2. att'[k][l] = att[k][l] \/ att'[k][l].status = "created"
    BY <1>1
  <2>3. CASE k = j /\ m = n
    BY <2>2, <2>3
  <2>4. CASE k # j \/ m # n
    BY <1>1, <2>1, <2>2, <2>4
  <2> QED BY <2>3, <2>4
<1>10. \A k \in Jobs : Has(k, Unfinished)' => k = j
  BY <1>4
<1> QED BY <1>3, <1>7, <1>8, <1>9, <1>10 DEF AttemptsOK

\* createAttempt.
LEMMA InvcreateAttempt ==
    ASSUME InboxInv, NEW w \in Workers, createAttempt(w) PROVE InboxInv'
<1> DEFINE n == Cardinality(Numbers \ AttemptsIn(work[w].job, {"none"})) + 1
           Begins == /\ CanTransition(work[w].job, work[w].ver, {"queued"}) /\ n \in Numbers
                     /\ \A k \in Jobs : AttemptsIn(k, Unfinished) = {}
                     /\ AttemptsIn(work[w].job, Active) = {}
<1>1. PICK j \in Jobs : j = work[w].job
  BY AtHand DEF InboxInv, createAttempt, Doing
<1>2. UNCHANGED <<seen, charged, written, blessed, wire>> /\ work[w].op = "dispatch" /\ work[w].text # None
  BY DEF createAttempt, Doing
<1>3. CASE ~Begins
  <2>1. Ends(w) /\ UNCHANGED <<job, att>>
    BY <1>3, Zenon DEF createAttempt
  <2>2. Held
    BY <1>2, <2>1, NothingWritten
  <2> QED BY <2>1, <2>2, HeldEnds
<1>4. CASE Begins
  <2>1. PICK i \in Numbers : i = n
    BY <1>4
  <2>2. PICK a : a = [NoAttempt EXCEPT !.status = "created", !.text = work[w].text]
    OBVIOUS
  <2>3. PICK d : d = [work[w] EXCEPT !.op = "push", !.n = i]
    OBVIOUS
  <2>4. att' = [att EXCEPT ![work[w].job][n] = a] /\ job' = Moved(work[w].job, "sending", job[work[w].job].text)
        /\ work' = [work EXCEPT ![w].op = "push", ![w].n = n]
    BY <1>4, <2>2, Zenon DEF createAttempt
  <2>5. att' = [att EXCEPT ![j][i] = a] /\ job' = Moved(j, "sending", job[j].text) /\ work' = [work EXCEPT ![w] = d]
    BY <1>1, <2>1, <2>3, <2>4
  <2>6. i = Cardinality(Numbers \ AttemptsIn(j, {"none"})) + 1
    BY <1>1, <2>1
  <2>7. job[j].state = "queued" /\ \A k \in Jobs : AttemptsIn(k, Unfinished) = {}
    BY <1>1, <1>4 DEF CanTransition
  <2> HIDE DEF n, Begins
  <2>8. work[w] \in WorkRec /\ WorkerOK(work[w])
    BY DEF InboxInv, WorkTypes, WorkersOK
  <2>9. work[w].text \in Texts
    BY <1>2, <2>8 DEF WorkRec
  <2>10. a = [status |-> "created", text |-> work[w].text, claimed |-> FALSE]
    BY <2>2 DEF NoAttempt
  <2>11. a \in AttRec /\ a.status = "created" /\ ~a.claimed
    BY <2>9, <2>10 DEF AttRec
  <2>12. job[j].text \in Texts \cup {None}
    BY JobText DEF InboxInv
  <2>13. /\ job' \in [Jobs -> JobRec] /\ job'[j].state = "sending" /\ job'[j].text = job[j].text
         /\ \A k \in Jobs \ {j} : job'[k] = job[k]
    BY <2>5, <2>12, MovedFacts DEF InboxInv, RowTypes, States
  <2>14. JobsGrow
    BY <1>2, <2>5, <2>7, <2>12, MoveGrows DEF InboxInv, States
  <2>15. att' \in [Jobs -> [Numbers -> AttRec]] /\ \A k \in Jobs, m \in Numbers : (k # j \/ m # i) => att'[k][m] = att[k][m]
    <3>1. RowTypes
      BY DEF InboxInv
    <3> QED BY ONLY <3>1, <2>5, <2>11, AttFacts, ZenonT(30)
  <2>16. RowTypes' /\ WireTypes'
    BY <1>2, <2>13, <2>15 DEF InboxInv, RowTypes, WireTypes
  <2>17. att[j][i].status = "none" /\ \A m \in Numbers : m < i => att[j][m].status # "none"
    BY <2>6, FreshNumber DEF InboxInv
  <2>18. \A k \in Jobs : ~Has(k, Unfinished)
    BY <2>7 DEF Has, AttemptsIn
  <2>19. AttemptsOK'
    BY <1>2, <2>5, <2>7, <2>11, <2>13, <2>17, <2>18, AttCreated DEF InboxInv
  <2>20. BlessedOK'
    BY <1>2, <2>7, <2>13, BlessedKept DEF InboxInv
  <2>21. \A k \in Jobs, m \in Numbers : Kept(k, m) => Kept(k, m)'
    <3>1. ~att[j][i].claimed
      <4>1. AttemptOK(j, i)
        BY DEF InboxInv, AttemptsOK
      <4> QED BY <2>17, <4>1 DEF AttemptOK
    <3> QED BY <2>7, <2>13, <2>15, <3>1 DEF Kept
  <2>22. NoNewRecord => ChargesOK'
    BY <1>2, <2>21, ChargesKept DEF InboxInv, SeenStays
  <2>23. Held
    BY <2>14, <2>16, <2>19, <2>20, <2>22 DEF Held
  <2>24. d \in WorkRec /\ d.op = "push" /\ d.job = j /\ d.n = i
    <3>1. i \in 0..MaxAttempts
      BY InboxAssumption DEF Numbers
    <3> QED BY <1>1, <2>3, <2>8, <3>1 DEF WorkRec, Ops
  <2>25. Named(d)
    BY <2>24 DEF Named
  <2>26. WorkerOK(d)'
    BY <2>13, <2>24 DEF WorkerOK, Reads
  <2> QED BY <2>5, <2>23, <2>24, <2>25, <2>26, HeldStep
<1> QED BY <1>3, <1>4

-----------------------------------------------------------------------------
(* Results and charges *)

\* The attempt of a job, in a step that leaves seen, charges and agreement alone.
LEMMA InvapplyReplyResult ==
    ASSUME InboxInv, NEW w \in Workers, NEW j \in Jobs, NEW n \in Numbers, applyReplyResult(w, j, n) PROVE InboxInv'
<1>1. PICK r \in Results : r = seen[j][n]
  BY DEF applyReplyResult
<1>2. UNCHANGED <<seen, charged, written, blessed, wire>>
  BY DEF applyReplyResult
<1> DEFINE to == IF r = "confirmed" THEN "sent" ELSE r
           d == [Idle EXCEPT !.op = r, !.job = j, !.n = n]
<1>3. \/ /\ ResultFits(j, n, r) /\ att' = [att EXCEPT ![j][n].status = r] /\ job' = Moved(j, to, job[j].text)
         /\ work' = IF r = "ambiguous" THEN work ELSE [work EXCEPT ![w] = d]
      \/ /\ att[j][n].status = "confirmed" /\ r = "confirmed" /\ UNCHANGED <<att, job>>
         /\ work' = [work EXCEPT ![w] = d]
  BY <1>1, Zenon DEF applyReplyResult
<1>4. Held
  <2>1. CASE ResultFits(j, n, r) /\ att' = [att EXCEPT ![j][n].status = r] /\ job' = Moved(j, to, job[j].text)
    <3>1. att[j][n].status \in Active
      BY <2>1 DEF ResultFits, Active
    <3>2. r \in {"confirmed", "failed", "ambiguous"} /\ to \in {"sent", "failed", "ambiguous"} /\ (r = "confirmed") = (to = "sent")
          /\ (r = "failed") = (to = "failed")
      BY DEF Results
    <3>3. PICK st \in {"confirmed", "failed", "ambiguous"}, s \in {"sent", "failed", "ambiguous"} : st = r /\ s = to
      BY <3>2
    <3>4. att' = [att EXCEPT ![j][n].status = st] /\ job' = Moved(j, s, job[j].text)
      BY <2>1, <3>3
    <3>5. \/ st = "ambiguous" /\ s = "ambiguous"
          \/ st = "confirmed" /\ s = "sent" /\ seen[j][n] = "confirmed"
          \/ st = "failed" /\ s = "failed"
      BY <1>1, <3>2, <3>3
    <3> HIDE DEF to
    <3> QED BY <1>2, <3>1, <3>4, <3>5, AttMove
  <2>2. CASE UNCHANGED <<att, job>>
    BY <1>2, <2>2, NothingWritten
  <2> QED BY <1>3, <2>1, <2>2
<1>5. CASE work' = work
  BY <1>4, <1>5, HeldStays
<1>6. CASE r \in {"confirmed", "failed"} /\ work' = [work EXCEPT ![w] = d]
  <2>1. PICK e : e = d
    OBVIOUS
  <2>2. e = [op |-> r, job |-> j, env |-> None, ver |-> 0, text |-> None, n |-> n]
    BY <2>1 DEF Idle
  <2>3. r \in Ops /\ n \in 0..MaxAttempts
    BY <1>6, InboxAssumption DEF Ops, Numbers
  <2>4. e \in WorkRec
    BY <2>2, <2>3 DEF WorkRec
  <2>5. Named(e)
    BY <2>2 DEF Named
  <2>6. job[j].state # "none"
    <3>1. AttemptOK(j, n)
      BY DEF InboxInv, AttemptsOK
    <3> QED BY <1>3, <3>1 DEF AttemptOK, ResultFits
  <2>7. job'[j].state # "none"
    BY <1>4, <2>6 DEF Held, JobsGrow, Grows
  <2>8. WorkerOK(e)'
    BY <1>6, <2>2, <2>7 DEF WorkerOK, Reads
  <2>9. e.op # "record"
    BY <1>6, <2>2
  <2>10. work' = [work EXCEPT ![w] = e]
    BY <1>6, <2>1
  <2> HIDE DEF d
  <2> QED BY <1>4, <2>4, <2>5, <2>8, <2>9, <2>10, HeldStep
<1> QED BY <1>3, <1>5, <1>6 DEF Results

\* not_found from the edge's journal.
LEMMA InvapplyReplyReconcileResult ==
    ASSUME InboxInv, NEW j \in Jobs, NEW n \in Numbers, applyReplyReconcileResult(j, n) PROVE InboxInv'
<1>1. att[j][n].status \in Active /\ UNCHANGED <<work, seen, charged, written, blessed, wire>>
  BY DEF applyReplyReconcileResult
<1>2. PICK st \in {"failed", "ambiguous"} : st = IF att[j][n].status = "created" THEN "failed" ELSE "ambiguous"
  OBVIOUS
<1>3. att' = [att EXCEPT ![j][n].status = st] /\ job' = IF job[j].state = "sending" THEN Moved(j, st, job[j].text) ELSE job
  BY <1>2, Zenon DEF applyReplyReconcileResult
<1>4. /\ job[j].state \in {"sending", "ambiguous"}
      /\ att[j][n].status \in Unfinished => job[j].state = "sending"
  BY <1>1, AttemptFacts DEF InboxInv
<1>5. Held
  <2>1. CASE job[j].state = "sending"
    <3>1. job' = Moved(j, st, job[j].text)
      BY <1>3, <2>1
    <3> QED BY <1>1, <1>3, <3>1, AttMove
  <2>2. CASE job[j].state = "ambiguous"
    <3>1. st = "ambiguous" /\ job' = job
      BY <1>2, <1>3, <1>4, <2>2 DEF Unfinished
    <3> QED BY <1>1, <1>3, <2>2, <3>1, AttMove
  <2> QED BY <1>4, <2>1, <2>2
<1> QED BY <1>1, <1>5, HeldStays

\* The claim on a confirmed attempt is taken or given back.
LEMMA AttClaim ==
    ASSUME RowTypes, AttemptsOK, NEW j \in Jobs, NEW n \in Numbers, NEW b \in BOOLEAN, att[j][n].status = "confirmed",
           att' = [att EXCEPT ![j][n].claimed = b], UNCHANGED <<job, seen>>
    PROVE  /\ AttemptsOK' /\ att' \in [Jobs -> [Numbers -> AttRec]] /\ att'[j][n].claimed = b
           /\ \A k \in Jobs, m \in Numbers : (k # j \/ m # n) => att'[k][m] = att[k][m]
<1>1. PICK a : a = [att[j][n] EXCEPT !.claimed = b]
  OBVIOUS
<1>2. att[j][n] \in AttRec
  BY DEF RowTypes
<1>3. a \in AttRec /\ a.status = "confirmed" /\ a.claimed = b
  BY <1>1, <1>2 DEF AttRec
<1>4. att' = [att EXCEPT ![j][n] = a]
  BY <1>1
<1>5. /\ att' \in [Jobs -> [Numbers -> AttRec]] /\ att'[j][n] = a
      /\ \A k \in Jobs, m \in Numbers : (k # j \/ m # n) => att'[k][m] = att[k][m]
  BY ONLY RowTypes, <1>3, <1>4, AttFacts
<1>6. \A k \in Jobs, m \in Numbers : att'[k][m].status = att[k][m].status
  BY <1>3, <1>5
<1>7. \A k \in Jobs, m \in Numbers : AttemptOK(k, m)'
  <2> SUFFICES ASSUME NEW k \in Jobs, NEW m \in Numbers PROVE AttemptOK(k, m)'
    OBVIOUS
  <2>1. AttemptOK(k, m)
    BY DEF AttemptsOK
  <2>2. CASE k = j /\ m = n
    BY <1>3, <1>5, <2>1, <2>2 DEF AttemptOK, Unfinished
  <2>3. CASE k # j \/ m # n
    BY <1>5, <2>1, <2>3 DEF AttemptOK
  <2> QED BY <2>2, <2>3
<1>8. \A k \in Jobs : \A S : Has(k, S)' = Has(k, S)
  BY <1>6 DEF Has
<1>9. AttemptsOK'
  BY <1>6, <1>7, <1>8 DEF AttemptsOK
<1> QED BY <1>3, <1>5, <1>9

LEMMA InvclaimRiskRecord ==
    ASSUME InboxInv, NEW w \in Workers, claimRiskRecord(w) PROVE InboxInv'
<1>1. PICK j \in Jobs, n \in Numbers : j = work[w].job /\ n = work[w].n
  BY AtHandAttempt DEF InboxInv, claimRiskRecord, Doing, AttemptOps
<1>2. UNCHANGED <<job, seen, charged, written, blessed, wire>> /\ work[w].op = "claim"
  BY DEF claimRiskRecord, Doing
<1>3. CASE ~(att[j][n].status = "confirmed" /\ ~att[j][n].claimed)
  <2>1. UNCHANGED att /\ Ends(w)
    BY <1>1, <1>3 DEF claimRiskRecord
  <2>2. Held
    BY <1>2, <2>1, NothingWritten
  <2> QED BY <2>1, <2>2, HeldEnds
<1>4. CASE att[j][n].status = "confirmed" /\ ~att[j][n].claimed
  <2>1. att' = [att EXCEPT ![j][n].claimed = TRUE] /\ Goes(w, "record")
    BY <1>1, <1>4 DEF claimRiskRecord
  <2>2. /\ AttemptsOK' /\ att' \in [Jobs -> [Numbers -> AttRec]] /\ att'[j][n].claimed = TRUE
        /\ \A k \in Jobs, m \in Numbers : (k # j \/ m # n) => att'[k][m] = att[k][m]
    BY <1>2, <1>4, <2>1, AttClaim, ZenonT(30) DEF InboxInv
  <2>3. RowTypes' /\ WireTypes' /\ JobsGrow
    BY <1>2, <2>2, JobsStay DEF InboxInv, RowTypes, WireTypes
  <2>4. BlessedOK'
    BY <1>2, BlessedKept DEF InboxInv
  <2>5. PICK d : d = [work[w] EXCEPT !.op = "record"]
    OBVIOUS
  <2>6. work[w] \in WorkRec /\ Named(work[w]) /\ WorkerOK(work[w])
    BY DEF InboxInv, WorkTypes, WorkersOK
  <2>7. d \in WorkRec /\ d.op = "record" /\ d.job = j /\ d.n = n
    BY <1>1, <2>5, <2>6 DEF WorkRec, Ops
  <2>8. Named(d)
    BY <2>7 DEF Named
  <2>9. WorkerOK(d)'
    BY <1>1, <1>2, <2>6, <2>7 DEF WorkerOK, Reads
  <2>10. work' = [work EXCEPT ![w] = d]
    BY <2>1, <2>5 DEF Goes
  <2>11. WorkTypes' /\ WorkersOK'
    BY <2>3, <2>6, <2>7, <2>8, <2>9, <2>10, WorkStep DEF InboxInv
  <2>12. ~Kept(j, n) /\ seen[j][n] = "confirmed"
    <3>1. AttemptOK(j, n)
      BY DEF InboxInv, AttemptsOK
    <3> QED BY <1>4, <3>1 DEF AttemptOK, Kept
  <2>13. <<j, n>> \notin written
    BY <2>12 DEF InboxInv, ChargesOK
  <2>14. \A v \in Workers : work'[v] = IF v = w THEN d ELSE work[v]
    BY <2>10 DEF InboxInv, WorkTypes
  <2>15. \A k \in Jobs, m \in Numbers : Kept(k, m) => Kept(k, m)'
    BY <1>2, <2>2, <2>12 DEF Kept
  <2>16. Kept(j, n)'
    BY <2>2 DEF Kept
  <2>17. \A v \in Workers : Doing(v, "record")' => v = w \/ Doing(v, "record")
    BY <2>14 DEF Doing
  <2>18. ASSUME NEW v \in Workers, Doing(v, "record")'
         PROVE  /\ seen'[work'[v].job][work'[v].n] = "confirmed" /\ <<work'[v].job, work'[v].n>> \notin written'
                /\ Kept(work[v].job, work[v].n)'
                /\ v # w => work'[v].job # j \/ work'[v].n # n
    <3>1. CASE v = w
      <4>1. work'[v].job = j /\ work'[v].n = n
        BY <2>7, <2>14, <3>1
      <4>2. Kept(work[v].job, work[v].n)'
        BY <2>16, <4>1
      <4> QED BY <1>2, <2>12, <2>13, <3>1, <4>1, <4>2
    <3>2. CASE v # w
      <4>1. work'[v] = work[v] /\ Doing(v, "record")
        BY <2>14, <2>17, <2>18, <3>2
      <4>2. PICK k \in Jobs, m \in Numbers : k = work[v].job /\ m = work[v].n
        BY <4>1, AtHandAttempt DEF InboxInv, Doing, AttemptOps
      <4>3. seen[k][m] = "confirmed" /\ <<k, m>> \notin written /\ Kept(k, m)
        BY <4>1, <4>2 DEF InboxInv, ChargesOK
      <4>4. k # j \/ m # n
        BY <2>12, <4>3
      <4>5. seen'[k][m] = "confirmed" /\ <<k, m>> \notin written' /\ Kept(k, m)'
        BY <1>2, <2>15, <4>3
      <4> QED BY <4>1, <4>2, <4>4, <4>5
    <3> QED BY <3>1, <3>2
  <2>19. \A u, v \in Workers : Doing(u, "record")' /\ Doing(v, "record")' /\ work'[u].job = work'[v].job /\ work'[u].n = work'[v].n
                               => u = v
    <3> SUFFICES ASSUME NEW u \in Workers, NEW v \in Workers, Doing(u, "record")', Doing(v, "record")',
                        work'[u].job = work'[v].job, work'[u].n = work'[v].n, u # v
                 PROVE  FALSE
      OBVIOUS
    <3>1. u # w /\ v # w
      BY <2>7, <2>14, <2>18
    <3>2. Doing(u, "record") /\ Doing(v, "record") /\ work[u].job = work[v].job /\ work[u].n = work[v].n
      BY <2>14, <2>17, <3>1
    <3> QED BY <3>2 DEF InboxInv, ChargesOK
  <2>20. \A k \in Jobs, m \in Numbers : <<k, m>> \in written' => Kept(k, m)'
    BY <1>2, <2>15 DEF InboxInv, ChargesOK
  <2>21. ChargesOK'
    BY <2>18, <2>19, <2>20 DEF ChargesOK
  <2> QED BY <2>2, <2>3, <2>4, <2>11, <2>21 DEF InboxInv
<1> QED BY <1>3, <1>4

LEMMA InvRecordRisk ==
    ASSUME InboxInv, NEW w \in Workers, RecordRisk(w) PROVE InboxInv'
<1>1. PICK j \in Jobs, n \in Numbers : j = work[w].job /\ n = work[w].n
  BY AtHandAttempt DEF InboxInv, RecordRisk, Doing, AttemptOps
<1>2. UNCHANGED <<job, seen, blessed, wire>> /\ Doing(w, "record") /\ Ends(w)
  BY DEF RecordRisk
<1>3. <<j, n>> \notin written /\ Kept(j, n)
  BY <1>1, <1>2 DEF InboxInv, ChargesOK
<1>4. \A v \in Workers : Doing(v, "record")' => v # w /\ work'[v] = work[v] /\ Doing(v, "record")
  BY <1>2 DEF InboxInv, WorkTypes, Ends, Idle, Doing
<1>5. NoNewRecord
  BY <1>4 DEF NoNewRecord
<1>6. ASSUME NEW v \in Workers, Doing(v, "record")'
      PROVE  \E k \in Jobs, m \in Numbers : /\ k = work[v].job /\ m = work[v].n /\ (k # j \/ m # n)
                                            /\ seen[k][m] = "confirmed" /\ <<k, m>> \notin written /\ Kept(k, m)
  <2>1. v # w /\ Doing(v, "record")
    BY <1>4, <1>6
  <2>2. PICK k \in Jobs, m \in Numbers : k = work[v].job /\ m = work[v].n
    BY <2>1, AtHandAttempt DEF InboxInv, Doing, AttemptOps
  <2>3. k # j \/ m # n
    BY <1>1, <1>2, <2>1, <2>2 DEF InboxInv, ChargesOK
  <2> QED BY <2>1, <2>2, <2>3 DEF InboxInv, ChargesOK
<1>7. \A v, u \in Workers : Doing(v, "record")' /\ Doing(u, "record")' /\ work'[v].job = work'[u].job /\ work'[v].n = work'[u].n
                            => v = u
  BY <1>4 DEF InboxInv, ChargesOK
<1>8. /\ charged' \in [Jobs -> [Numbers -> Nat]]
      /\ \A k \in Jobs, m \in Numbers : (k # j \/ m # n) => (<<k, m>> \in written' <=> <<k, m>> \in written)
  <2>1. written' = written \/ written' = written \cup {<<j, n>>}
    BY <1>1 DEF RecordRisk
  <2>2. charged' = charged \/ charged' = [charged EXCEPT ![j][n] = @ + 1]
    BY <1>1 DEF RecordRisk
  <2>3. CASE charged' = charged
    BY <2>1, <2>3 DEF InboxInv, RowTypes
  <2>4. CASE charged' = [charged EXCEPT ![j][n] = @ + 1]
    <3>1. PICK x \in Nat : x = charged[j][n] + 1
      BY DEF InboxInv, RowTypes
    <3>2. PICK f : f = [charged[j] EXCEPT ![n] = x]
      OBVIOUS
    <3>3. f \in [Numbers -> Nat]
      BY <3>1, <3>2 DEF InboxInv, RowTypes
    <3>4. charged' = [charged EXCEPT ![j] = f]
      BY <2>4, <3>1, <3>2
    <3> QED BY <2>1, <3>3, <3>4 DEF InboxInv, RowTypes
  <2> QED BY <2>2, <2>3, <2>4
<1>9. CASE UNCHANGED att
  <2>1. RowTypes' /\ WireTypes' /\ JobsGrow
    BY <1>2, <1>8, <1>9, JobsStay DEF InboxInv, RowTypes, WireTypes
  <2>2. AttemptsOK' /\ BlessedOK'
    BY <1>2, <1>9, AttKept, BlessedKept DEF InboxInv, SeenStays
  <2>3. \A k \in Jobs, m \in Numbers : Kept(k, m) = Kept(k, m)'
    BY <1>2, <1>9 DEF Kept
  <2>4. \A k \in Jobs, m \in Numbers : <<k, m>> \in written' => Kept(k, m)'
    BY <1>3, <1>8, <2>3 DEF InboxInv, ChargesOK
  <2>5. ASSUME NEW v \in Workers, Doing(v, "record")'
        PROVE  /\ seen'[work'[v].job][work'[v].n] = "confirmed" /\ <<work'[v].job, work'[v].n>> \notin written'
               /\ Kept(work[v].job, work[v].n)'
    <3>1. PICK k \in Jobs, m \in Numbers : /\ k = work[v].job /\ m = work[v].n /\ (k # j \/ m # n)
                                           /\ seen[k][m] = "confirmed" /\ <<k, m>> \notin written /\ Kept(k, m)
      BY <1>6, <2>5
    <3>2. work'[v] = work[v]
      BY <1>4, <2>5
    <3> QED BY <1>2, <1>8, <2>3, <3>1, <3>2
  <2>6. ChargesOK'
    BY <1>7, <2>4, <2>5 DEF ChargesOK
  <2> QED BY <1>2, <2>1, <2>2, <2>6, HeldEnds DEF Held
<1>10. CASE written' = written /\ att[j][n].status = "confirmed" /\ att' = [att EXCEPT ![j][n].claimed = FALSE]
  <2>1. /\ AttemptsOK' /\ att' \in [Jobs -> [Numbers -> AttRec]]
        /\ \A k \in Jobs, m \in Numbers : (k # j \/ m # n) => att'[k][m] = att[k][m]
    BY <1>2, <1>10, AttClaim DEF InboxInv
  <2>2. RowTypes' /\ WireTypes' /\ JobsGrow
    BY <1>2, <1>8, <2>1, JobsStay DEF InboxInv, RowTypes, WireTypes
  <2>3. BlessedOK'
    BY <1>2, BlessedKept DEF InboxInv
  <2>4. \A k \in Jobs, m \in Numbers : (k # j \/ m # n) => (Kept(k, m) => Kept(k, m)')
    BY <1>2, <2>1 DEF Kept
  <2>5. \A k \in Jobs, m \in Numbers : <<k, m>> \in written' => Kept(k, m)'
    BY <1>3, <1>10, <2>4 DEF InboxInv, ChargesOK
  <2>6. ASSUME NEW v \in Workers, Doing(v, "record")'
        PROVE  /\ seen'[work'[v].job][work'[v].n] = "confirmed" /\ <<work'[v].job, work'[v].n>> \notin written'
               /\ Kept(work[v].job, work[v].n)'
    <3>1. PICK k \in Jobs, m \in Numbers : /\ k = work[v].job /\ m = work[v].n /\ (k # j \/ m # n)
                                           /\ seen[k][m] = "confirmed" /\ <<k, m>> \notin written /\ Kept(k, m)
      BY <1>6, <2>6
    <3>2. work'[v] = work[v]
      BY <1>4, <2>6
    <3>3. Kept(k, m)'
      BY <2>4, <3>1
    <3> QED BY <1>2, <1>10, <3>1, <3>2, <3>3
  <2>7. ChargesOK'
    BY <1>7, <2>5, <2>6 DEF ChargesOK
  <2> QED BY <1>2, <2>1, <2>2, <2>3, <2>7, HeldEnds DEF Held
<1>11. UNCHANGED att \/ (written' = written /\ att[j][n].status = "confirmed" /\ att' = [att EXCEPT ![j][n].claimed = FALSE])
  BY <1>1 DEF RecordRisk, releaseRiskRecordClaim
<1> QED BY <1>9, <1>10, <1>11

-----------------------------------------------------------------------------
(* The edge, deletions and crashes *)

Outcomes == {"none", "confirmed", "failed", "ambiguous", "not_found"}

\* What the edge has seen of one attempt.
LEMMA SeenSet ==
    ASSUME InboxInv, NEW j \in Jobs, NEW n \in Numbers, NEW r \in Outcomes, seen' = [seen EXCEPT ![j][n] = r],
           seen[j][n] # "confirmed", UNCHANGED <<job, att, charged, written, blessed>>
    PROVE  RowTypes' /\ SeenStays
<1>1. PICK f : f = [seen[j] EXCEPT ![n] = r]
  OBVIOUS
<1>2. f \in [Numbers -> Outcomes] /\ \A m \in Numbers \ {n} : f[m] = seen[j][m]
  BY <1>1 DEF InboxInv, RowTypes, Outcomes
<1>3. seen' = [seen EXCEPT ![j] = f]
  BY <1>1
<1>4. seen' \in [Jobs -> [Numbers -> Outcomes]] /\ \A k \in Jobs, m \in Numbers : (k # j \/ m # n) => seen'[k][m] = seen[k][m]
  BY <1>2, <1>3 DEF InboxInv, RowTypes, Outcomes
<1> QED BY <1>4 DEF InboxInv, RowTypes, SeenStays, Outcomes

LEMMA HeadIn == ASSUME NEW S, NEW q \in Seq(S), q # <<>> PROVE Head(q) \in S /\ Tail(q) \in Seq(S)
<1>1. Len(q) > 0 /\ Head(q) = q[1]
  OBVIOUS
<1> QED BY <1>1

LEMMA InvEdge ==
    ASSUME InboxInv, EdgeTakes \/ EdgeFails PROVE InboxInv'
<1>1. /\ wire # <<>> /\ wire' = Tail(wire) /\ UNCHANGED <<job, att, work, charged, written, blessed>>
  BY DEF EdgeTakes, EdgeFails
<1>2. Head(wire) \in CommandRec /\ Tail(wire) \in Seq(CommandRec)
  BY <1>1, HeadIn DEF InboxInv, WireTypes
<1>3. PICK j \in Jobs, n \in Numbers : j = Head(wire).job /\ n = Head(wire).n
  BY <1>2 DEF CommandRec
<1>4. \/ UNCHANGED seen
      \/ seen[j][n] # "confirmed" /\ \E r \in Outcomes : seen' = [seen EXCEPT ![j][n] = r]
  <2>1. CASE EdgeTakes
    BY <1>3, <2>1 DEF EdgeTakes, Outcomes
  <2>2. CASE EdgeFails
    BY <1>3, <2>2 DEF EdgeFails, Outcomes
  <2> QED BY <2>1, <2>2
<1>5. RowTypes' /\ SeenStays
  <2>1. CASE UNCHANGED seen
    BY <1>1, <2>1 DEF InboxInv, RowTypes, SeenStays
  <2>2. CASE seen[j][n] # "confirmed" /\ \E r \in Outcomes : seen' = [seen EXCEPT ![j][n] = r]
    BY <1>1, <2>2, SeenSet
  <2> QED BY <1>4, <2>1, <2>2
<1>6. Held
  BY <1>1, <1>2, <1>5, RowsStay DEF WireTypes
<1> QED BY <1>1, <1>6, HeldStays

LEMMA InvEdgeVerifies ==
    ASSUME InboxInv, NEW j \in Jobs, NEW n \in Numbers, EdgeVerifies(j, n) PROVE InboxInv'
<1>1. PICK r \in Outcomes : seen' = [seen EXCEPT ![j][n] = r]
  BY DEF EdgeVerifies, Outcomes
<1>2. seen[j][n] # "confirmed" /\ UNCHANGED <<job, att, work, charged, written, blessed, wire>>
  BY DEF EdgeVerifies
<1>3. RowTypes' /\ SeenStays
  BY <1>1, <1>2, SeenSet
<1>4. Held
  BY <1>2, <1>3, RowsStay DEF InboxInv, WireTypes
<1> QED BY <1>2, <1>4, HeldStays

\* The socket breaks, or is asked again.
LEMMA InvSocket ==
    ASSUME InboxInv, Disconnect \/ reconcileRecoverable PROVE InboxInv'
<1>1. UNCHANGED <<job, att, work, charged, written, blessed, seen>>
  BY DEF Disconnect, reconcileRecoverable
<1>2. WireTypes'
  <2>1. CASE Disconnect
    BY <2>1 DEF Disconnect, WireTypes
  <2>2. CASE reconcileRecoverable
    <3>1. PICK c \in recoverableAttempts : wire' = Append(wire, [kind |-> "reconcile", job |-> c[1], n |-> c[2]])
      BY <2>2 DEF reconcileRecoverable
    <3>2. c[1] \in Jobs /\ c[2] \in Numbers
      BY <3>1 DEF recoverableAttempts
    <3>3. [kind |-> "reconcile", job |-> c[1], n |-> c[2]] \in CommandRec
      BY <3>2 DEF CommandRec
    <3> QED BY <3>1, <3>3 DEF InboxInv, WireTypes
  <2> QED BY <2>1, <2>2
<1>3. RowTypes' /\ SeenStays
  BY <1>1 DEF InboxInv, RowTypes, SeenStays
<1>4. Held
  BY <1>1, <1>2, <1>3, RowsStay
<1> QED BY <1>1, <1>4, HeldStays

\* Rows deleted.
LEMMA GoneHolds ==
    ASSUME InboxInv, NEW js \in SUBSET Jobs, Gone(js), UNCHANGED <<seen, charged, written, blessed, wire>> PROVE Held
<1>1. PICK d : d = [NoJob EXCEPT !.state = "gone"]
  OBVIOUS
<1>2. d = [state |-> "gone", env |-> None, ver |-> 0, text |-> None]
  BY <1>1 DEF NoJob
<1>3. d \in JobRec /\ d.state = "gone"
  BY <1>2 DEF JobRec, States
<1>4. NoAttempt \in AttRec /\ NoAttempt.status = "none" /\ ~NoAttempt.claimed
  BY DEF NoAttempt, AttRec
<1>5. /\ job' = [j \in Jobs |-> IF j \in js THEN d ELSE job[j]]
      /\ att' = [j \in Jobs |-> IF j \in js THEN [n \in Numbers |-> NoAttempt] ELSE att[j]]
  BY <1>1 DEF Gone
<1>6. \A k \in Jobs : job'[k] = IF k \in js THEN d ELSE job[k]
  BY <1>5
<1>7. \A k \in Jobs, m \in Numbers : att'[k][m] = IF k \in js THEN NoAttempt ELSE att[k][m]
  BY <1>5
<1>8. RowTypes' /\ WireTypes'
  <2>1. job' \in [Jobs -> JobRec]
    BY <1>3, <1>5 DEF InboxInv, RowTypes
  <2>2. att' \in [Jobs -> [Numbers -> AttRec]]
    BY <1>4, <1>5 DEF InboxInv, RowTypes
  <2> QED BY <2>1, <2>2 DEF InboxInv, RowTypes, WireTypes
<1>9. JobsGrow
  <2> SUFFICES ASSUME NEW k \in Jobs PROVE Grows(job[k], job'[k])
    BY DEF JobsGrow
  <2>1. job[k].ver \in Nat
    BY JobText DEF InboxInv
  <2> QED BY <1>3, <1>6, <2>1 DEF Grows
<1>10. AttemptsOK'
  <2>1. \A k \in Jobs, m \in Numbers : AttemptOK(k, m)'
    <3> SUFFICES ASSUME NEW k \in Jobs, NEW m \in Numbers PROVE AttemptOK(k, m)'
      OBVIOUS
    <3>1. AttemptOK(k, m)
      BY DEF InboxInv, AttemptsOK
    <3>2. CASE k \in js
      BY <1>4, <1>7, <3>2 DEF AttemptOK, Unfinished
    <3>3. CASE k \notin js
      BY <1>6, <1>7, <3>1, <3>3 DEF AttemptOK
    <3> QED BY <3>2, <3>3
  <2>2. \A k \in Jobs \ js : job'[k] = job[k] /\ \A S : Has(k, S)' = Has(k, S)
    BY <1>6, <1>7 DEF Has
  <2>3. \A k \in js : job'[k].state = "gone" /\ ~Has(k, Unfinished)' /\ \A m \in Numbers : att'[k][m].status = "none"
    BY <1>3, <1>4, <1>6, <1>7 DEF Has, Unfinished
  <2>4. \A k \in Jobs : /\ job'[k].state = "sending" => Has(k, Unfinished)'
                        /\ job'[k].state = "ambiguous" => Has(k, {"ambiguous"})'
                        /\ job'[k].state = "sent" => Has(k, {"confirmed"})'
    BY <2>2, <2>3 DEF InboxInv, AttemptsOK
  <2>5. \A k \in Jobs : \A m, l \in Numbers : att'[k][m].status \in Active /\ att'[k][l].status \in Active => m = l
    BY <1>7, <2>3 DEF InboxInv, AttemptsOK, Active, Unfinished
  <2>6. \A k \in Jobs : \A m, l \in Numbers : l < m /\ att'[k][m].status # "none" => att'[k][l].status # "none"
    BY <1>7, <2>3 DEF InboxInv, AttemptsOK
  <2>7. \A k, l \in Jobs : Has(k, Unfinished)' /\ Has(l, Unfinished)' => k = l
    BY <2>2, <2>3 DEF InboxInv, AttemptsOK
  <2> QED BY <2>1, <2>4, <2>5, <2>6, <2>7 DEF AttemptsOK
<1>11. BlessedOK'
  BY <1>3, <1>6, BlessedKept DEF InboxInv
<1>12. NoNewRecord => ChargesOK'
  <2>1. \A k \in Jobs, m \in Numbers : Kept(k, m) => Kept(k, m)'
    BY <1>3, <1>6, <1>7 DEF Kept
  <2> QED BY <2>1, ChargesKept DEF InboxInv, SeenStays
<1> QED BY <1>8, <1>9, <1>10, <1>11, <1>12 DEF Held

\* Content erased: the text goes, the version stays.
LEMMA ErasedHolds ==
    ASSUME InboxInv, NEW js \in SUBSET Jobs, Erased(js), UNCHANGED <<att, seen, charged, written, blessed, wire>> PROVE Held
<1>1. \A k \in Jobs : /\ job[k] \in JobRec
                      /\ [job[k] EXCEPT !.text = None] \in JobRec /\ [job[k] EXCEPT !.text = None].state = job[k].state
                      /\ [job[k] EXCEPT !.text = None].ver = job[k].ver /\ [job[k] EXCEPT !.text = None].text = None
  BY DEF InboxInv, RowTypes, JobRec
<1>2. /\ job' \in [Jobs -> JobRec]
      /\ \A k \in Jobs : job'[k].state = job[k].state /\ job'[k].ver = job[k].ver /\ job'[k].text \in {job[k].text, None}
  BY <1>1 DEF Erased
<1>3. RowTypes' /\ WireTypes'
  BY <1>2 DEF InboxInv, RowTypes, WireTypes
<1>4. JobsGrow
  <2> SUFFICES ASSUME NEW k \in Jobs PROVE Grows(job[k], job'[k])
    BY DEF JobsGrow
  <2>1. job[k].ver \in Nat
    BY JobText DEF InboxInv
  <2> QED BY <1>2, <2>1 DEF Grows
<1>5. AttemptsOK'
  BY <1>2, AttKept DEF InboxInv, SeenStays
<1>6. BlessedOK'
  BY <1>2, BlessedKept DEF InboxInv
<1>7. NoNewRecord => ChargesOK'
  BY <1>2, ChargesKept DEF InboxInv, SeenStays, Kept
<1> QED BY <1>3, <1>4, <1>5, <1>6, <1>7 DEF Held

LEMMA InvDeletions ==
    ASSUME InboxInv, resetTestData \/ purgeExpiredContent \/ \E e \in Envs : ContentErased(e) \/ \E h \in Hosts : PurgeJobs(h, e)
    PROVE  InboxInv'
<1>1. UNCHANGED <<seen, charged, written, blessed, wire, work>>
  BY DEF resetTestData, purgeExpiredContent, PurgeJobs, ContentErased
<1>2. CASE \E js \in SUBSET Jobs : Gone(js)
  BY <1>1, <1>2, GoneHolds, HeldStays
<1>3. CASE \E js \in SUBSET Jobs : Erased(js) /\ UNCHANGED att
  BY <1>1, <1>3, ErasedHolds, HeldStays
<1>4. CASE resetTestData
  <2>1. Gone({j \in Jobs : job[j].env = controls.env})
    BY <1>4 DEF resetTestData
  <2> QED BY <1>2, <2>1
<1>5. CASE purgeExpiredContent
  <2>1. PICK j \in Jobs : Erased({j}) /\ UNCHANGED att
    BY <1>5 DEF purgeExpiredContent
  <2> QED BY <1>3, <2>1
<1>6. ASSUME NEW h \in Hosts, NEW e \in Envs, PurgeJobs(h, e) PROVE InboxInv'
  <2>1. Gone({j \in Jobs : job[j].env = e})
    BY <1>6 DEF PurgeJobs
  <2> QED BY <1>2, <2>1
<1>7. ASSUME NEW e \in Envs, ContentErased(e) PROVE InboxInv'
  <2>1. Erased({j \in Jobs : job[j].env = e}) /\ UNCHANGED att
    BY <1>7 DEF ContentErased
  <2> QED BY <1>3, <2>1
<1> QED BY <1>4, <1>5, <1>6, <1>7

LEMMA InvCrash == ASSUME InboxInv, Crash PROVE InboxInv'
<1>1. /\ UNCHANGED <<job, att, seen, charged, written, blessed>> /\ wire' = <<>> /\ work' = [w \in Workers |-> Idle]
  BY DEF Crash
<1>2. Idle \in WorkRec /\ Idle.op = "idle"
  BY InboxAssumption DEF Idle, WorkRec, Ops
<1>3. RowTypes' /\ WireTypes' /\ SeenStays
  BY <1>1 DEF InboxInv, RowTypes, WireTypes, SeenStays
<1>4. Held
  BY <1>1, <1>3, RowsStay
<1>5. NoNewRecord
  BY <1>1, <1>2 DEF NoNewRecord, Doing
<1>6. \A w \in Workers : work'[w] = Idle
  BY <1>1
<1>7. WorkTypes'
  BY <1>1, <1>2 DEF WorkTypes, Named, AttemptOps
<1>8. WorkersOK'
  BY <1>2, <1>6 DEF WorkersOK, WorkerOK, Reads
<1> QED BY <1>4, <1>5, <1>7, <1>8 DEF Held, InboxInv

-----------------------------------------------------------------------------
(* The invariant *)

LEMMA InitInbox == Init => InboxInv
<1> SUFFICES ASSUME InboxInit, OffboardInit PROVE InboxInv
  BY DEF Init
<1>1. PICK e \in Envs : auth.env = e
  BY DEF OffboardInit
<1>2. NoJob \in JobRec /\ NoJob.state = "none"
  BY DEF NoJob, JobRec, States
<1>3. [state : {"approval_required", "approved"}, env : {auth.env}, ver : {0}, text : Texts] \subseteq JobRec
  BY <1>1 DEF JobRec, States
<1>4. job \in [Jobs -> JobRec] /\ \A j \in Jobs : job[j].state \in {"none", "approval_required", "approved"}
                               /\ (job[j].state # "none" => job[j].text \in Texts)
  <2>1. job \in [Jobs -> {NoJob} \cup [state : {"approval_required", "approved"}, env : {auth.env}, ver : {0}, text : Texts]]
    BY DEF InboxInit
  <2> QED BY <1>2, <1>3, <2>1
<1>5. NoAttempt \in AttRec /\ NoAttempt.status = "none" /\ ~NoAttempt.claimed
  BY DEF NoAttempt, AttRec
<1>6. \A j \in Jobs, n \in Numbers : att[j][n] = NoAttempt
  BY DEF InboxInit
<1>7. RowTypes
  <2>1. att \in [Jobs -> [Numbers -> AttRec]]
    BY <1>5 DEF InboxInit
  <2>2. blessed \in [Jobs -> SUBSET Texts]
    BY <1>4 DEF InboxInit
  <2> QED BY <1>4, <2>1, <2>2 DEF InboxInit, RowTypes
<1>8. Idle \in WorkRec /\ Idle.op = "idle"
  BY InboxAssumption DEF Idle, WorkRec, Ops
<1>9. WorkTypes /\ WorkersOK /\ WireTypes
  BY <1>8 DEF InboxInit, WorkTypes, Named, AttemptOps, WorkersOK, WorkerOK, Reads, WireTypes
<1>10. AttemptsOK
  BY <1>4, <1>5, <1>6 DEF AttemptsOK, AttemptOK, Has, Active, Unfinished
<1>11. BlessedOK
  BY <1>4 DEF InboxInit, BlessedOK
<1>12. ChargesOK
  <2>1. \A w \in Workers : ~Doing(w, "record")
    BY <1>8 DEF InboxInit, Doing
  <2> QED BY <2>1 DEF InboxInit, ChargesOK
<1> QED BY <1>7, <1>9, <1>10, <1>11, <1>12 DEF InboxInv

LEMMA InvStutter == ASSUME InboxInv, UNCHANGED inboxVars PROVE InboxInv'
<1>1. UNCHANGED <<job, att, work, wire, seen, charged, written, blessed>>
  BY DEF inboxVars
<1> QED BY <1>1, NothingWritten, HeldStays

LEMMA InvNext == ASSUME IInv, [Next]_vars PROVE InboxInv'
<1> USE DEF IInv
<1>1. CASE (OffboardStep /\ UNCHANGED inboxVars) \/ UNCHANGED vars
  BY <1>1, InvStutter DEF vars
<1>2. CASE EdgeTakes \/ EdgeFails
  BY <1>2, InvEdge
<1>3. CASE Disconnect \/ reconcileRecoverable
  BY <1>3, InvSocket
<1>4. CASE resetTestData \/ purgeExpiredContent \/ \E e \in Envs : ContentErased(e) \/ \E h \in Hosts : PurgeJobs(h, e)
  BY <1>4, InvDeletions
<1>5. CASE Crash
  BY <1>5, InvCrash
<1>6. ASSUME NEW j \in Jobs, recoverStalledClassifyingJobs(j) PROVE InboxInv'
  <2>1. /\ job' = Moved(j, "new", job[j].text) /\ job[j].state = "classifying"
        /\ UNCHANGED <<att, seen, charged, written, blessed, wire, work>>
    BY <1>6 DEF recoverStalledClassifyingJobs
  <2>2. Held
    BY <2>1, JobText, PlainNames, PlainMove DEF InboxInv, RowTypes
  <2> QED BY <2>1, <2>2, HeldStays
<1>7. ASSUME NEW j \in Jobs, NEW n \in Numbers, EdgeVerifies(j, n) \/ applyReplyReconcileResult(j, n) PROVE InboxInv'
  BY <1>7, InvEdgeVerifies, InvapplyReplyReconcileResult
<1>8. ASSUME NEW w \in Workers,
             \/ GenerateTooLate(w) \/ buildPreview(w) \/ failGeneration(w) \/ canAutoQueueDraft(w)
             \/ approve(w) \/ edit(w) \/ queueApproved(w) \/ dispatchQueued(w) \/ ingestBatch(w)
      PROVE  InboxInv'
  BY <1>8, InvingestBatch, InvgenerateTooLate, InvbuildPreview, InvcanAutoQueueDraft, Invapprove, Invedit, InvqueueApproved, InvdispatchQueued
<1>9. ASSUME NEW w \in Workers,
             \/ createAttempt(w) \/ push(w) \/ markAttemptDispatched(w) \/ markDispatchDeferred(w)
             \/ markDispatchAmbiguous(w) \/ Note(w) \/ claimRiskRecord(w) \/ RecordRisk(w)
      PROVE  InboxInv'
  BY <1>9, InvcreateAttempt, Invpush, InvMarks, InvNote, InvclaimRiskRecord, InvRecordRisk
<1>10. ASSUME NEW w \in Workers, NEW j \in Jobs,
             \/ ensureReadable(w, j) \/ generate(w, j) \/ Look(w, j) \/ transitionMessageJob(w, j)
             \/ Queue(w, j) \/ Dispatch(w, j)
      PROVE  InboxInv'
  <2>1. auth.env \in Envs \cup {None}
    BY DEF OffInv, OffTypes
  <2> QED BY <1>10, <2>1, InvensureReadable, Invgenerate, InvLook, InvtransitionMessageJob, InvQueue
<1>11. ASSUME NEW w \in Workers, NEW j \in Jobs, NEW n \in Numbers, applyReplyResult(w, j, n) PROVE InboxInv'
  BY <1>11, InvapplyReplyResult
<1> QED BY <1>1, <1>2, <1>3, <1>4, <1>5, <1>6, <1>7, <1>8, <1>9, <1>10, <1>11 DEF Next

\* Rows, attempts, workers, what was agreed to and what was charged stay consistent with each
\* other (IInv), and so does the binding with the purge.
THEOREM Invariance == Spec => []IInv
<1>1. Init => IInv
  BY OffInit, InitInbox DEF IInv
<1>2. IInv /\ [Next]_vars => IInv'
  BY OffNext, InvNext DEF IInv
<1> QED BY <1>1, <1>2, PTL DEF Spec

\* A job and its attempts agree, whatever was delivered late, twice or never (JobAttemptAgree;
\* createAttempt, the mark operations and the results).
THEOREM JobsAndAttempts == Spec => []JobAttemptAgree
<1>1. ASSUME IInv, NEW j \in Jobs
      PROVE  (job[j].state = "sending") = (Cardinality(AttemptsIn(j, Active)) = 1 /\ AttemptsIn(j, Unfinished) # {})
  <2>1. CASE Has(j, Unfinished)
    <3>1. PICK n \in Numbers : att[j][n].status \in Unfinished
      BY <2>1 DEF Has
    <3>2. job[j].state = "sending"
      BY <1>1, <3>1 DEF IInv, InboxInv, AttemptsOK, AttemptOK
    <3>3. AttemptsIn(j, Active) = {n}
      BY <1>1, <3>1 DEF IInv, InboxInv, AttemptsOK, AttemptsIn, Active
    <3>4. Cardinality({n}) = 1
      BY FS_Singleton
    <3>5. AttemptsIn(j, Unfinished) # {}
      BY <3>1 DEF AttemptsIn
    <3> QED BY <3>2, <3>3, <3>4, <3>5
  <2>2. CASE ~Has(j, Unfinished)
    <3>1. job[j].state # "sending"
      BY <1>1, <2>2 DEF IInv, InboxInv, AttemptsOK
    <3>2. AttemptsIn(j, Unfinished) = {}
      BY <2>2 DEF AttemptsIn, Has
    <3> QED BY <3>1, <3>2
  <2> QED BY <2>1, <2>2
<1>2. ASSUME IInv, NEW j \in Jobs
      PROVE  /\ (job[j].state = "ambiguous") = (AttemptsIn(j, {"ambiguous"}) # {})
             /\ (job[j].state = "sent") = (AttemptsIn(j, {"confirmed"}) # {})
  <2>1. \A S : (AttemptsIn(j, S) # {}) = Has(j, S)
    BY DEF AttemptsIn, Has
  <2>2. job[j].state = "ambiguous" => Has(j, {"ambiguous"})
    BY <1>2 DEF IInv, InboxInv, AttemptsOK
  <2>3. job[j].state = "sent" => Has(j, {"confirmed"})
    BY <1>2 DEF IInv, InboxInv, AttemptsOK
  <2>4. Has(j, {"ambiguous"}) => job[j].state = "ambiguous"
    BY <1>2 DEF IInv, InboxInv, AttemptsOK, AttemptOK, Has
  <2>5. Has(j, {"confirmed"}) => job[j].state = "sent"
    BY <1>2 DEF IInv, InboxInv, AttemptsOK, AttemptOK, Has
  <2> QED BY <2>1, <2>2, <2>3, <2>4, <2>5
<1>3. ASSUME IInv PROVE Cardinality({j \in Jobs : AttemptsIn(j, Unfinished) # {}}) <= 1
  <2> DEFINE Busy == {j \in Jobs : AttemptsIn(j, Unfinished) # {}}
  <2>1. \A j, k \in Busy : j = k
    <3> SUFFICES ASSUME NEW j \in Busy, NEW k \in Busy PROVE j = k
      OBVIOUS
    <3>1. Has(j, Unfinished) /\ Has(k, Unfinished)
      BY DEF AttemptsIn, Has
    <3> QED BY <1>3, <3>1 DEF IInv, InboxInv, AttemptsOK
  <2> HIDE DEF Busy
  <2>2. CASE Busy = {}
    BY <2>2, FS_EmptySet DEF Busy
  <2>3. CASE Busy # {}
    <3>1. PICK j : j \in Busy
      BY <2>3
    <3>2. Busy = {j}
      BY <2>1, <3>1
    <3>3. Cardinality({j}) = 1
      BY FS_Singleton
    <3> QED BY <3>2, <3>3 DEF Busy
  <2> QED BY <2>2, <2>3
<1>4. IInv => JobAttemptAgree
  BY <1>1, <1>2, <1>3 DEF JobAttemptAgree
<1> QED BY <1>4, Invariance, PTL

-----------------------------------------------------------------------------
(* The contract *)

\* The values ReplyContract sees.
Tries == [j \in Jobs |-> [n \in Numbers |-> TryOf(att[j][n])]]
Posted == {c \in Jobs \X Numbers : seen[c[1]][c[2]] = "confirmed"}
Forgotten == {j \in Jobs : job[j].state = "gone"}
Unseen == UNCHANGED <<blessed, Tries, Posted, charged, written, Forgotten>>

LEMMA UnseenStutters == ASSUME Unseen PROVE UNCHANGED Contract!contract
BY Zenon DEF Unseen, Contract!contract, Tries, Posted, Forgotten

LEMMA TryAt == ASSUME NEW j \in Jobs, NEW n \in Numbers PROVE Tries[j][n] = TryOf(att[j][n]) /\ ((<<j, n>> \in Posted) = (seen[j][n] = "confirmed"))
BY DEF Tries, Posted

\* The steps of the contract, in those values.
LEMMA AgreeStep ==
    ASSUME NEW j \in Jobs, NEW t \in Texts, blessed' = [blessed EXCEPT ![j] = @ \cup {t}],
           UNCHANGED <<Tries, Posted, charged, written, Forgotten>>
    PROVE  Contract!Next
<1>1. Contract!Agree(j, t)
  BY Zenon DEF Contract!Agree, Tries, Posted, Forgotten
<1> QED BY <1>1, Zenon DEF Contract!Next

LEMMA TryStep ==
    ASSUME NEW j \in Jobs, NEW n \in Numbers,
           \/ Contract!Begin(j, n) \/ Contract!Post(j, n) \/ Contract!Charge(j, n)
           \/ \E st \in {"confirmed", "failed", "unsure"} : Contract!Learn(j, n, st)
    PROVE  Contract!Next
BY Zenon DEF Contract!Next

LEMMA BeginStep ==
    ASSUME NEW j \in Jobs, NEW n \in Numbers, j \notin Forgotten, Tries[j][n] = [st |-> "none", text |-> None],
           \A k \in Jobs, m \in Numbers : Tries[k][m].st # "open",
           \A m \in Numbers : Tries[j][m].st \in {"none", "failed"},
           NEW t \in blessed[j], Tries' = [Tries EXCEPT ![j][n] = [st |-> "open", text |-> t]],
           UNCHANGED <<blessed, Posted, charged, written, Forgotten>>
    PROVE  Contract!Next
<1>1. Contract!Begin(j, n)
  BY Zenon DEF Contract!Begin, Contract!NoTry, Tries, Posted, Forgotten
<1> QED BY <1>1, TryStep

LEMMA PostStep ==
    ASSUME NEW j \in Jobs, NEW n \in Numbers, Posted' = Posted \cup {<<j, n>>},
           UNCHANGED <<blessed, Tries, charged, written, Forgotten>>
    PROVE  Contract!Next
<1>1. Contract!Post(j, n)
  BY Zenon DEF Contract!Post, Tries, Posted, Forgotten
<1> QED BY <1>1, TryStep

LEMMA LearnStep ==
    ASSUME NEW j \in Jobs, NEW n \in Numbers, NEW st \in {"confirmed", "failed", "unsure"},
           Tries[j][n].st = "open" \/ (Tries[j][n].st = "unsure" /\ st \in {"confirmed", "failed"}),
           st = "confirmed" => <<j, n>> \in Posted, Tries' = [Tries EXCEPT ![j][n].st = st],
           UNCHANGED <<blessed, Posted, charged, written, Forgotten>>
    PROVE  Contract!Next
<1>1. Contract!Learn(j, n, st)
  BY Zenon DEF Contract!Learn, Tries, Posted, Forgotten
<1> QED BY <1>1, TryStep

LEMMA ChargeStep ==
    ASSUME NEW j \in Jobs, NEW n \in Numbers, <<j, n>> \in Posted, <<j, n>> \notin written,
           charged' = [charged EXCEPT ![j][n] = @ + 1], written' = written \/ written' = written \cup {<<j, n>>},
           UNCHANGED <<blessed, Tries, Posted, Forgotten>>
    PROVE  Contract!Next
<1>1. Contract!Charge(j, n)
  BY Zenon DEF Contract!Charge, Tries, Posted, Forgotten
<1> QED BY <1>1, TryStep

LEMMA ForgetStep ==
    ASSUME NEW js \in SUBSET Jobs, Forgotten' = Forgotten \cup js,
           Tries' = [j \in Jobs |-> IF j \in js THEN [n \in Numbers |-> [st |-> "none", text |-> None]] ELSE Tries[j]],
           UNCHANGED <<blessed, Posted, charged, written>>
    PROVE  Contract!Next
<1>1. Contract!Forget(js)
  BY Zenon DEF Contract!Forget, Contract!NoTry, Tries, Posted, Forgotten
<1> QED BY <1>1, Zenon DEF Contract!Next

\* What leaves the contract's values alone.
LEMMA TriesKept ==
    ASSUME \A k \in Jobs, m \in Numbers : TryOf(att'[k][m]) = TryOf(att[k][m]) PROVE UNCHANGED Tries
BY DEF Tries

LEMMA PostedKept == ASSUME UNCHANGED seen PROVE UNCHANGED Posted
BY DEF Posted

LEMMA ForgottenKept ==
    ASSUME \A k \in Jobs : (job'[k].state = "gone") = (job[k].state = "gone") PROVE UNCHANGED Forgotten
BY DEF Forgotten

\* A job moves, nothing else.
LEMMA UnseenMove ==
    ASSUME RowTypes, NEW j \in Jobs, NEW to \in States \ {"gone"}, NEW t \in Texts \cup {None},
           job' = job \/ (job' = Moved(j, to, t) /\ job[j].state # "gone")
    PROVE  UNCHANGED Forgotten
<1>1. CASE job' = Moved(j, to, t) /\ job[j].state # "gone"
  BY <1>1, MovedFacts, ForgottenKept DEF RowTypes
<1>2. CASE job' = job
  BY <1>2, ForgottenKept
<1> QED BY <1>1, <1>2

\* One attempt is rewritten: one try.
LEMMA TriesSet ==
    ASSUME RowTypes, NEW j \in Jobs, NEW n \in Numbers, NEW a \in AttRec, att' = [att EXCEPT ![j][n] = a]
    PROVE  Tries' = [Tries EXCEPT ![j][n] = TryOf(a)]
<1>1. /\ att'[j][n] = a
      /\ \A k \in Jobs, m \in Numbers : (k # j \/ m # n) => att'[k][m] = att[k][m]
  BY AttFacts, ZenonT(30)
<1>2. PICK f : f = [Tries[j] EXCEPT ![n] = TryOf(a)]
  OBVIOUS
<1>3. Tries[j] = [m \in Numbers |-> TryOf(att[j][m])]
  BY DEF Tries
<1>4. f = [m \in Numbers |-> TryOf(att'[j][m])]
  BY <1>1, <1>2, <1>3
<1>5. \A k \in Jobs \ {j} : Tries'[k] = Tries[k]
  BY <1>1 DEF Tries
<1>6. Tries'[j] = f
  BY <1>4 DEF Tries
<1>7. Tries' = [Tries EXCEPT ![j] = f]
  <2>1. Tries = [k \in Jobs |-> Tries[k]] /\ Tries' = [k \in Jobs |-> Tries'[k]]
    BY DEF Tries
  <2> QED BY <1>5, <1>6, <2>1
<1> QED BY <1>2, <1>7

LEMMA MapsDraft ==
    ASSUME IInv, NEW w \in Workers, canAutoQueueDraft(w) \/ approve(w) PROVE Contract!Next \/ Unseen
<1>1. PICK j \in Jobs : j = work[w].job
  BY AtHand DEF IInv, InboxInv, canAutoQueueDraft, approve, StillClassifying, Doing
<1>2. UNCHANGED <<att, seen, charged, written>>
  BY DEF canAutoQueueDraft, approve
<1>3. UNCHANGED <<Tries, Posted>>
  BY <1>2, TriesKept, PostedKept
<1>4. CASE canAutoQueueDraft(w)
  <2>1. PICK t \in Texts : job' = Moved(j, "queued", t) /\ blessed' = [blessed EXCEPT ![j] = @ \cup {t}]
    BY <1>1, <1>4 DEF canAutoQueueDraft
  <2>2. job[j].state # "gone"
    BY <1>1, <1>4 DEF canAutoQueueDraft, StillClassifying, CanTransition
  <2>3. UNCHANGED Forgotten
    BY <2>1, <2>2, UnseenMove DEF IInv, InboxInv, States
  <2> QED BY <1>2, <1>3, <2>1, <2>3, AgreeStep
<1>5. CASE approve(w)
  <2>1. CASE CanTransition(j, work[w].ver, {"approval_required"}) /\ job[j].text # None
    <3>1. job' = Moved(j, "approved", job[j].text) /\ blessed' = [blessed EXCEPT ![j] = @ \cup {work[w].text}]
      BY <1>1, <1>5, <2>1 DEF approve
    <3>2. job[j].state # "gone"
      BY <2>1 DEF CanTransition
    <3>3. job[j].text \in Texts
      BY <2>1, JobText DEF IInv, InboxInv
    <3>4. UNCHANGED Forgotten
      BY <3>1, <3>2, <3>3, UnseenMove DEF IInv, InboxInv, States
    <3>5. work[w].text \in Texts
      <4>1. WorkerOK(work[w]) /\ work[w].op = "look"
        BY <1>5 DEF IInv, InboxInv, WorkersOK, approve, Doing
      <4> QED BY <4>1 DEF WorkerOK
    <3> QED BY <1>2, <1>3, <3>1, <3>4, <3>5, AgreeStep
  <2>2. CASE ~(CanTransition(j, work[w].ver, {"approval_required"}) /\ job[j].text # None)
    <3>1. UNCHANGED <<job, blessed>>
      BY <1>1, <1>5, <2>2 DEF approve
    <3> QED BY <1>2, <1>3, <3>1, ForgottenKept DEF Unseen
  <2> QED BY <2>1, <2>2
<1> QED BY <1>4, <1>5

\* Jobs that move with nothing the contract sees.
LEMMA MapsPlain ==
    ASSUME RowTypes, NEW j \in Jobs, NEW to \in States \ {"gone"}, NEW t \in Texts \cup {None}, UNCHANGED <<att, seen, charged, written, blessed>>,
           job' = job \/ (job' = Moved(j, to, t) /\ job[j].state # "gone")
    PROVE  Unseen
<1>1. UNCHANGED <<Tries, Posted>>
  BY TriesKept, PostedKept
<1>2. UNCHANGED Forgotten
  BY UnseenMove
<1> QED BY <1>1, <1>2 DEF Unseen

LEMMA MapsStill == ASSUME UNCHANGED <<job, att, seen, charged, written, blessed>> PROVE Unseen
<1>1. UNCHANGED <<Tries, Posted, Forgotten>>
  BY TriesKept, PostedKept, ForgottenKept
<1> QED BY <1>1 DEF Unseen

LEMMA MapsMoves ==
    ASSUME IInv, NEW w \in Workers,
           \/ buildPreview(w) \/ failGeneration(w) \/ edit(w) \/ queueApproved(w)
           \/ GenerateTooLate(w) \/ dispatchQueued(w) \/ push(w) \/ Note(w)
    PROVE  Unseen
<1>1. CASE GenerateTooLate(w) \/ dispatchQueued(w) \/ push(w) \/ Note(w)
  <2>1. UNCHANGED <<job, att, seen, charged, written, blessed>>
    BY <1>1 DEF GenerateTooLate, dispatchQueued, push, Note
  <2> QED BY <2>1, MapsStill
<1>2. CASE buildPreview(w) \/ failGeneration(w) \/ edit(w) \/ queueApproved(w)
  <2>1. PICK j \in Jobs : j = work[w].job
    BY <1>2, AtHand DEF IInv, InboxInv, buildPreview, failGeneration, edit, queueApproved, StillClassifying, Doing
  <2>2. UNCHANGED <<att, seen, charged, written, blessed>>
    BY <1>2 DEF buildPreview, failGeneration, edit, queueApproved
  <2>3. job[j].text \in Texts \cup {None}
    BY JobText DEF IInv, InboxInv
  <2>4. \E to \in States \ {"gone"}, t \in Texts \cup {None} : job' = job \/ (job' = Moved(j, to, t) /\ job[j].state # "gone")
    <3>1. {"draft_ready", "approval_required", "failed", "queued"} \subseteq States \ {"gone"}
      BY DEF States
    <3>2. CASE buildPreview(w)
      <4>1. job[j].state = "classifying"
        BY <2>1, <3>2 DEF buildPreview, StillClassifying, CanTransition
      <4>2. \E to \in {"draft_ready", "approval_required"}, t \in Texts : job' = Moved(j, to, t)
        BY <2>1, <3>2 DEF buildPreview
      <4> QED BY <3>1, <4>1, <4>2
    <3>3. CASE failGeneration(w)
      <4>1. job[j].state = "classifying" /\ job' = Moved(j, "failed", None)
        BY <2>1, <3>3 DEF failGeneration, StillClassifying, CanTransition
      <4> QED BY <3>1, <4>1
    <3>4. CASE edit(w)
      <4>1. PICK t \in Texts : job' = IF CanTransition(j, work[w].ver, {"approval_required"}) THEN Moved(j, "approval_required", t) ELSE job
        BY <2>1, <3>4 DEF edit
      <4>2. job' = job \/ (job' = Moved(j, "approval_required", t) /\ job[j].state # "gone")
        BY <4>1 DEF CanTransition
      <4> QED BY <3>1, <4>2
    <3>5. CASE queueApproved(w)
      <4>1. job' = job \/ (job' = Moved(j, "queued", job[j].text) /\ job[j].state # "gone")
        BY <2>1, <3>5 DEF queueApproved, CanTransition
      <4> QED BY <2>3, <3>1, <4>1
    <3> QED BY <1>2, <3>2, <3>3, <3>4, <3>5
  <2> QED BY <2>2, <2>4, MapsPlain DEF IInv, InboxInv
<1> QED BY <1>1, <1>2

LEMMA MapsBegins ==
    ASSUME IInv, NEW w \in Workers, NEW j \in Jobs,
           \/ ensureReadable(w, j) \/ generate(w, j) \/ Look(w, j) \/ transitionMessageJob(w, j)
           \/ Queue(w, j) \/ Dispatch(w, j) \/ recoverStalledClassifyingJobs(j)
    PROVE  Unseen
<1>1. CASE Look(w, j) \/ Queue(w, j) \/ Dispatch(w, j) \/ ensureReadable(w, j)
  <2>1. UNCHANGED <<job, att, seen, charged, written, blessed>>
    BY <1>1 DEF Look, Queue, Dispatch, ensureReadable
  <2> QED BY <2>1, MapsStill
<1>2. CASE generate(w, j) \/ transitionMessageJob(w, j) \/ recoverStalledClassifyingJobs(j)
  <2>1. PICK to \in {"classifying", "closed", "new"} : job' = Moved(j, to, job[j].text)
    BY <1>2 DEF generate, transitionMessageJob, recoverStalledClassifyingJobs
  <2>2. job[j].state # "gone" /\ UNCHANGED <<att, seen, charged, written, blessed>>
    BY <1>2 DEF generate, transitionMessageJob, recoverStalledClassifyingJobs
  <2>3. job[j].text \in Texts \cup {None} /\ to \in States \ {"gone"}
    BY JobText DEF IInv, InboxInv, States
  <2> QED BY <2>1, <2>2, <2>3, MapsPlain DEF IInv, InboxInv
<1> QED BY <1>1, <1>2

LEMMA MapsIngest == ASSUME IInv, NEW w \in Workers, ingestBatch(w) PROVE Unseen
<1>1. PICK j \in Jobs : j = work[w].job
  BY DEF ingestBatch, IInv, InboxInv, WorkTypes, Named, Doing
<1>2. UNCHANGED <<att, seen, charged, written, blessed>>
  BY DEF ingestBatch
<1>3. PICK d : d = [NoJob EXCEPT !.state = "new", !.env = work[w].env]
  OBVIOUS
<1>4. d.state = "new" /\ (job' = job \/ (job' = [job EXCEPT ![j] = d] /\ job[j].state = "none"))
  BY <1>1, <1>3 DEF ingestBatch, NotSeenBefore, NoJob
<1>5. \A k \in Jobs : (job'[k].state = "gone") = (job[k].state = "gone")
  BY <1>4 DEF IInv, InboxInv, RowTypes
<1> QED BY <1>2, <1>5, ForgottenKept, TriesKept, PostedKept DEF Unseen

\* An attempt under way becomes another: the contract learns of it, or sees nothing.
LEMMA MapsSettled ==
    ASSUME RowTypes, NEW j \in Jobs, NEW n \in Numbers, NEW st \in {"dispatched", "ambiguous", "confirmed", "failed"},
           att[j][n].status \in Active, att' = [att EXCEPT ![j][n].status = st], UNCHANGED <<seen, charged, written, blessed, Forgotten>>,
           st = "dispatched" => att[j][n].status \in Unfinished, st = "confirmed" => seen[j][n] = "confirmed"
    PROVE  Contract!Next \/ Unseen
<1>1. PICK a : a = [att[j][n] EXCEPT !.status = st]
  OBVIOUS
<1>2. att[j][n] \in AttRec
  BY DEF RowTypes
<1>3. a \in AttRec /\ a.status = st /\ a.text = att[j][n].text
  BY <1>1, <1>2 DEF AttRec
<1>4. att' = [att EXCEPT ![j][n] = a]
  BY <1>1
<1>5. Tries' = [Tries EXCEPT ![j][n] = TryOf(a)]
  BY ONLY RowTypes, <1>3, <1>4, TriesSet
<1>6. Tries[j][n] = TryOf(att[j][n]) /\ ((<<j, n>> \in Posted) = (seen[j][n] = "confirmed"))
  BY TryAt
<1>7. UNCHANGED Posted
  BY PostedKept
<1>8. TryOf(att[j][n]) = [st |-> IF att[j][n].status \in Unfinished THEN "open" ELSE "unsure", text |-> att[j][n].text]
  <2>1. CASE att[j][n].status \in Unfinished
    <3>1. att[j][n].status # "ambiguous"
      BY <2>1 DEF Unfinished
    <3> QED BY <2>1, <3>1 DEF TryOf
  <2>2. CASE att[j][n].status = "ambiguous"
    BY <2>2 DEF TryOf, Unfinished
  <2> QED BY <2>1, <2>2 DEF Active
<1>9. CASE (att[j][n].status = "ambiguous" /\ st = "ambiguous") \/ st = "dispatched"
  <2>1. TryOf(a) = TryOf(att[j][n])
    <3>1. CASE st = "dispatched"
      BY <1>3, <1>8, <3>1 DEF TryOf, Unfinished
    <3>2. CASE att[j][n].status = "ambiguous" /\ st = "ambiguous"
      BY <1>3, <3>2 DEF TryOf, Unfinished
    <3> QED BY <1>9, <3>1, <3>2
  <2>2. \A k \in Jobs, m \in Numbers : att'[k][m] = IF k = j /\ m = n THEN a ELSE att[k][m]
    BY ONLY RowTypes, <1>3, <1>4, AttFacts
  <2>3. UNCHANGED Tries
    BY <2>1, <2>2, TriesKept
  <2> QED BY <1>7, <2>3 DEF Unseen
<1>10. CASE st \in {"confirmed", "failed"} \/ (st = "ambiguous" /\ att[j][n].status # "ambiguous")
  <2>1. PICK r \in {"confirmed", "failed", "unsure"} : r = IF st = "ambiguous" THEN "unsure" ELSE st
    BY <1>10
  <2>2. TryOf(a) = [st |-> r, text |-> att[j][n].text]
    BY <1>3, <1>10, <2>1 DEF TryOf, Unfinished
  <2>3. PICK e : e = [Tries[j][n] EXCEPT !.st = r]
    OBVIOUS
  <2>4. e = TryOf(a)
    BY <1>6, <1>8, <2>2, <2>3
  <2>5. Tries' = [Tries EXCEPT ![j][n].st = r]
    BY <1>5, <2>3, <2>4
  <2>6. Tries[j][n].st = "open" \/ (Tries[j][n].st = "unsure" /\ r \in {"confirmed", "failed"})
    BY <1>6, <1>8, <1>10, <2>1 DEF Active, Unfinished
  <2>7. r = "confirmed" => <<j, n>> \in Posted
    BY <1>6, <2>1
  <2> QED BY <1>7, <2>5, <2>6, <2>7, LearnStep
<1> QED BY <1>9, <1>10

\* Where a job goes with its attempt, it is not deleted.
LEMMA MapsSettle ==
    ASSUME IInv, NEW j \in Jobs, NEW n \in Numbers, NEW st \in {"dispatched", "ambiguous", "failed"},
           NEW to \in {"sending", "ambiguous", "queued"}, Settle(j, n, st, to), UNCHANGED <<seen, charged, written, blessed>>
    PROVE  Contract!Next \/ Unseen
<1>1. CASE att[j][n].status = "created"
  <2>1. att[j][n].status \in Active /\ att[j][n].status \in Unfinished
    BY <1>1 DEF Active, Unfinished
  <2>2. att' = [att EXCEPT ![j][n].status = st] /\ (job' = job \/ (job' = Moved(j, to, job[j].text) /\ job[j].state # "gone"))
    BY <1>1 DEF Settle
  <2>3. job[j].text \in Texts \cup {None} /\ to \in States \ {"gone"}
    BY JobText DEF IInv, InboxInv, States
  <2>4. UNCHANGED Forgotten
    BY <2>2, <2>3, UnseenMove DEF IInv, InboxInv
  <2> QED BY <2>1, <2>2, <2>4, MapsSettled DEF IInv, InboxInv
<1>2. CASE att[j][n].status # "created"
  <2>1. UNCHANGED <<att, job>>
    BY <1>2 DEF Settle
  <2> QED BY <2>1, MapsStill
<1> QED BY <1>1, <1>2

LEMMA MapsMarks ==
    ASSUME IInv, NEW w \in Workers, markAttemptDispatched(w) \/ markDispatchDeferred(w) \/ markDispatchAmbiguous(w)
    PROVE  Contract!Next \/ Unseen
<1>1. PICK j \in Jobs, n \in Numbers : j = work[w].job /\ n = work[w].n
  <2>1. work[w].op \in AttemptOps
    BY DEF markAttemptDispatched, markDispatchDeferred, markDispatchAmbiguous, Doing, AttemptOps
  <2> QED BY <2>1, AtHandAttempt DEF IInv, InboxInv
<1>2. UNCHANGED <<seen, charged, written, blessed>>
  BY DEF markAttemptDispatched, markDispatchDeferred, markDispatchAmbiguous
<1>3. Settle(j, n, "dispatched", "sending") \/ Settle(j, n, "failed", "queued") \/ Settle(j, n, "ambiguous", "ambiguous")
  BY <1>1 DEF markAttemptDispatched, markDispatchDeferred, markDispatchAmbiguous
<1>4. CASE Settle(j, n, "dispatched", "sending")
  BY <1>2, <1>4, MapsSettle
<1>5. CASE Settle(j, n, "failed", "queued")
  BY <1>2, <1>5, MapsSettle
<1>6. CASE Settle(j, n, "ambiguous", "ambiguous")
  BY <1>2, <1>6, MapsSettle
<1> QED BY <1>3, <1>4, <1>5, <1>6

LEMMA MapsResult ==
    ASSUME IInv, NEW w \in Workers, NEW j \in Jobs, NEW n \in Numbers, applyReplyResult(w, j, n)
    PROVE  Contract!Next \/ Unseen
<1>1. PICK r \in Results : r = seen[j][n]
  BY DEF applyReplyResult
<1>2. UNCHANGED <<seen, charged, written, blessed>>
  BY DEF applyReplyResult
<1>3. \/ /\ ResultFits(j, n, r) /\ att' = [att EXCEPT ![j][n].status = r]
         /\ job' = Moved(j, IF r = "confirmed" THEN "sent" ELSE r, job[j].text)
      \/ UNCHANGED <<att, job>>
  BY <1>1, Zenon DEF applyReplyResult
<1>4. CASE UNCHANGED <<att, job>>
  BY <1>2, <1>4, MapsStill
<1>5. CASE /\ ResultFits(j, n, r) /\ att' = [att EXCEPT ![j][n].status = r]
           /\ job' = Moved(j, IF r = "confirmed" THEN "sent" ELSE r, job[j].text)
  <2>1. PICK to \in {"sent", "failed", "ambiguous"} : to = IF r = "confirmed" THEN "sent" ELSE r
    BY DEF Results
  <2>2. job' = Moved(j, to, job[j].text)
    BY <1>5, <2>1
  <2>3. job[j].state # "gone" /\ att[j][n].status \in Active
    BY <1>5 DEF ResultFits, Active
  <2>4. job[j].text \in Texts \cup {None} /\ to \in States \ {"gone"}
    BY JobText DEF IInv, InboxInv, States
  <2>5. UNCHANGED Forgotten
    BY <2>2, <2>3, <2>4, UnseenMove DEF IInv, InboxInv
  <2>6. r \in {"dispatched", "ambiguous", "confirmed", "failed"} /\ r # "dispatched"
    BY DEF Results
  <2> QED BY <1>1, <1>2, <1>5, <2>3, <2>5, <2>6, MapsSettled DEF IInv, InboxInv
<1> QED BY <1>3, <1>4, <1>5

LEMMA MapsReconcile ==
    ASSUME IInv, NEW j \in Jobs, NEW n \in Numbers, applyReplyReconcileResult(j, n) PROVE Contract!Next \/ Unseen
<1>1. att[j][n].status \in Active /\ UNCHANGED <<seen, charged, written, blessed>>
  BY DEF applyReplyReconcileResult
<1>2. PICK st \in {"failed", "ambiguous"} : st = IF att[j][n].status = "created" THEN "failed" ELSE "ambiguous"
  OBVIOUS
<1>3. att' = [att EXCEPT ![j][n].status = st] /\ job' = IF job[j].state = "sending" THEN Moved(j, st, job[j].text) ELSE job
  BY <1>2, Zenon DEF applyReplyReconcileResult
<1>4. job' = job \/ (job' = Moved(j, st, job[j].text) /\ job[j].state # "gone")
  BY <1>3
<1>5. job[j].text \in Texts \cup {None} /\ st \in States \ {"gone"}
  BY JobText DEF IInv, InboxInv, States
<1>6. UNCHANGED Forgotten
  BY <1>4, <1>5, UnseenMove DEF IInv, InboxInv
<1> QED BY <1>1, <1>3, <1>6, MapsSettled DEF IInv, InboxInv

\* An attempt begins with a text that was agreed to.
LEMMA MapscreateAttempt ==
    ASSUME IInv, NEW w \in Workers, createAttempt(w) PROVE Contract!Next \/ Unseen
<1> DEFINE n == Cardinality(Numbers \ AttemptsIn(work[w].job, {"none"})) + 1
           Begins == /\ CanTransition(work[w].job, work[w].ver, {"queued"}) /\ n \in Numbers
                     /\ \A k \in Jobs : AttemptsIn(k, Unfinished) = {}
                     /\ AttemptsIn(work[w].job, Active) = {}
<1>1. PICK j \in Jobs : j = work[w].job
  BY AtHand DEF IInv, InboxInv, createAttempt, Doing
<1>2. UNCHANGED <<seen, charged, written, blessed>> /\ work[w].op = "dispatch" /\ work[w].text # None
  BY DEF createAttempt, Doing
<1>3. CASE ~Begins
  <2>1. UNCHANGED <<job, att>>
    BY <1>3, Zenon DEF createAttempt
  <2> QED BY <1>2, <2>1, MapsStill
<1>4. CASE Begins
  <2>1. PICK i \in Numbers : i = n
    BY <1>4
  <2>2. PICK a : a = [NoAttempt EXCEPT !.status = "created", !.text = work[w].text]
    OBVIOUS
  <2>3. att' = [att EXCEPT ![work[w].job][n] = a] /\ job' = Moved(work[w].job, "sending", job[work[w].job].text)
    BY <1>4, <2>2, Zenon DEF createAttempt
  <2>4. att' = [att EXCEPT ![j][i] = a] /\ job' = Moved(j, "sending", job[j].text)
    BY <1>1, <2>1, <2>3
  <2>5. i = Cardinality(Numbers \ AttemptsIn(j, {"none"})) + 1
    BY <1>1, <2>1
  <2>6. job[j].state = "queued" /\ \A k \in Jobs : AttemptsIn(k, Unfinished) = {}
    BY <1>1, <1>4 DEF CanTransition
  <2> HIDE DEF n, Begins
  <2>7. work[w].text \in blessed[j] /\ work[w].text \in Texts
    <3>1. work[w] \in WorkRec /\ WorkerOK(work[w])
      BY DEF IInv, InboxInv, WorkTypes, WorkersOK
    <3>2. work[w].text \in blessed[j]
      BY <1>1, <1>2, <3>1 DEF WorkerOK
    <3> QED BY <1>2, <3>1, <3>2 DEF WorkRec
  <2>8. a = [status |-> "created", text |-> work[w].text, claimed |-> FALSE]
    BY <2>2 DEF NoAttempt
  <2>9. a \in AttRec /\ TryOf(a) = [st |-> "open", text |-> work[w].text]
    BY <2>7, <2>8 DEF AttRec, TryOf, Unfinished
  <2>10. Tries' = [Tries EXCEPT ![j][i] = [st |-> "open", text |-> work[w].text]]
    <3>1. Tries' = [Tries EXCEPT ![j][i] = TryOf(a)]
      BY <2>4, <2>9, TriesSet DEF IInv, InboxInv
    <3> QED BY <2>9, <3>1
  <2>11. job[j].text \in Texts \cup {None} /\ "sending" \in States \ {"gone"}
    BY JobText DEF IInv, InboxInv, States
  <2>12. UNCHANGED <<Posted, Forgotten>>
    BY <1>2, <2>4, <2>6, <2>11, UnseenMove, PostedKept DEF IInv, InboxInv
  <2>13. att[j][i].status = "none"
    BY <2>5, FreshNumber DEF IInv, InboxInv
  <2>14. att[j][i] = NoAttempt
    BY <2>13 DEF IInv, InboxInv, AttemptsOK, AttemptOK
  <2>15. Tries[j][i] = [st |-> "none", text |-> None]
    <3>1. Tries[j][i] = TryOf(NoAttempt)
      BY <2>14, TryAt
    <3>2. TryOf(NoAttempt) = [st |-> "none", text |-> None]
      <4>1. NoAttempt.status = "none" /\ NoAttempt.text = None
        BY DEF NoAttempt
      <4> QED BY <4>1 DEF TryOf, Unfinished
    <3> QED BY <3>1, <3>2
  <2>16. \A k \in Jobs, m \in Numbers : Tries[k][m].st # "open"
    <3> SUFFICES ASSUME NEW k \in Jobs, NEW m \in Numbers PROVE Tries[k][m].st # "open"
      OBVIOUS
    <3>1. att[k][m].status \notin Unfinished /\ att[k][m] \in AttRec
      BY <2>6 DEF AttemptsIn, IInv, InboxInv, RowTypes
    <3>2. Tries[k][m] = TryOf(att[k][m])
      BY TryAt
    <3>3. CASE att[k][m].status = "ambiguous"
      BY <3>2, <3>3 DEF TryOf, Unfinished
    <3>4. CASE att[k][m].status # "ambiguous"
      BY <3>1, <3>2, <3>4 DEF TryOf, AttRec
    <3> QED BY <3>3, <3>4
  <2>17. \A m \in Numbers : Tries[j][m].st \in {"none", "failed"}
    <3> SUFFICES ASSUME NEW m \in Numbers PROVE Tries[j][m].st \in {"none", "failed"}
      OBVIOUS
    <3>1. AttemptOK(j, m) /\ att[j][m] \in AttRec
      BY DEF IInv, InboxInv, AttemptsOK, RowTypes
    <3>2. att[j][m].status \in {"none", "failed"}
      BY <2>6, <3>1 DEF AttemptOK, Unfinished, AttRec
    <3>3. Tries[j][m] = TryOf(att[j][m])
      BY TryAt
    <3> QED BY <3>2, <3>3 DEF TryOf, Unfinished
  <2>18. j \notin Forgotten
    BY <2>6 DEF Forgotten
  <2> QED BY <1>2, <2>7, <2>10, <2>12, <2>15, <2>16, <2>17, <2>18, BeginStep
<1> QED BY <1>3, <1>4

\* The claim is nothing the contract sees; the charge is.
LEMMA MapsCharges ==
    ASSUME IInv, NEW w \in Workers, claimRiskRecord(w) \/ RecordRisk(w) PROVE Contract!Next \/ Unseen
<1>1. PICK j \in Jobs, n \in Numbers : j = work[w].job /\ n = work[w].n
  BY AtHandAttempt DEF IInv, InboxInv, claimRiskRecord, RecordRisk, Doing, AttemptOps
<1>2. UNCHANGED <<job, seen, blessed>>
  BY DEF claimRiskRecord, RecordRisk
<1>3. UNCHANGED <<Posted, Forgotten>>
  BY <1>2, PostedKept, ForgottenKept
<1>4. att' = att \/ \E b \in BOOLEAN : att' = [att EXCEPT ![j][n].claimed = b]
  <2>1. CASE claimRiskRecord(w)
    BY <1>1, <2>1 DEF claimRiskRecord
  <2>2. ASSUME releaseRiskRecordClaim(j, n) PROVE att' = att \/ att' = [att EXCEPT ![j][n].claimed = FALSE]
    BY <2>2 DEF releaseRiskRecordClaim
  <2>3. CASE RecordRisk(w)
    <3>1. att' = att \/ releaseRiskRecordClaim(j, n)
      BY <1>1, <2>3 DEF RecordRisk
    <3> QED BY <2>2, <3>1
  <2> QED BY <2>1, <2>3
<1>5. UNCHANGED Tries
  <2>1. CASE att' = att
    BY <2>1, TriesKept
  <2>2. ASSUME NEW b \in BOOLEAN, att' = [att EXCEPT ![j][n].claimed = b] PROVE UNCHANGED Tries
    <3>1. PICK a : a = [att[j][n] EXCEPT !.claimed = b]
      OBVIOUS
    <3>2. att[j][n] \in AttRec /\ RowTypes
      BY DEF IInv, InboxInv, RowTypes
    <3>3. a \in AttRec /\ a.status = att[j][n].status /\ a.text = att[j][n].text
      BY <3>1, <3>2 DEF AttRec
    <3>4. att' = [att EXCEPT ![j][n] = a]
      BY <2>2, <3>1
    <3>5. \A k \in Jobs, m \in Numbers : att'[k][m] = IF k = j /\ m = n THEN a ELSE att[k][m]
      BY ONLY <3>2, <3>3, <3>4, AttFacts
    <3>6. TryOf(a) = TryOf(att[j][n])
      BY <3>3 DEF TryOf
    <3> QED BY <3>5, <3>6, TriesKept
  <2> QED BY <1>4, <2>1, <2>2
<1>6. CASE claimRiskRecord(w)
  <2>1. UNCHANGED <<charged, written>>
    BY <1>6 DEF claimRiskRecord
  <2> QED BY <1>2, <1>3, <1>5, <2>1 DEF Unseen
<1>7. CASE RecordRisk(w)
  <2>1. seen[j][n] = "confirmed" /\ <<j, n>> \notin written
    BY <1>1, <1>7 DEF IInv, InboxInv, ChargesOK, RecordRisk
  <2>2. \/ charged' = charged /\ written' = written
        \/ /\ charged' = [charged EXCEPT ![j][n] = @ + 1]
           /\ written' = written \/ written' = written \cup {<<j, n>>}
    BY <1>1, <1>7 DEF RecordRisk
  <2>3. CASE charged' = charged /\ written' = written
    BY <1>2, <1>3, <1>5, <2>3 DEF Unseen
  <2>4. CASE charged' = [charged EXCEPT ![j][n] = @ + 1] /\ (written' = written \/ written' = written \cup {<<j, n>>})
    <3>1. <<j, n>> \in Posted
      BY <2>1, TryAt
    <3> QED BY <1>2, <1>3, <1>5, <2>1, <2>4, <3>1, ChargeStep
  <2> QED BY <2>2, <2>3, <2>4
<1> QED BY <1>6, <1>7

\* The edge posts, or tells nothing the contract sees.
LEMMA MapsSeen ==
    ASSUME IInv, NEW j \in Jobs, NEW n \in Numbers, NEW r \in Outcomes, seen' = [seen EXCEPT ![j][n] = r],
           seen[j][n] # "confirmed", UNCHANGED <<job, att, charged, written, blessed>>
    PROVE  Contract!Next \/ Unseen
<1>1. PICK f : f = [seen[j] EXCEPT ![n] = r]
  OBVIOUS
<1>2. f \in [Numbers -> Outcomes] /\ f[n] = r /\ \A m \in Numbers \ {n} : f[m] = seen[j][m]
  BY <1>1 DEF IInv, InboxInv, RowTypes, Outcomes
<1>3. seen' = [seen EXCEPT ![j] = f]
  BY <1>1
<1>4. seen'[j][n] = r /\ \A k \in Jobs, m \in Numbers : (k # j \/ m # n) => seen'[k][m] = seen[k][m]
  BY <1>2, <1>3 DEF IInv, InboxInv, RowTypes
<1>5. UNCHANGED <<Tries, Forgotten>>
  BY TriesKept, ForgottenKept
<1>6. CASE r = "confirmed"
  <2>1. Posted' = Posted \cup {<<j, n>>}
    BY <1>4, <1>6 DEF Posted
  <2> QED BY <1>5, <2>1, PostStep
<1>7. CASE r # "confirmed"
  <2>1. UNCHANGED Posted
    BY <1>4, <1>7 DEF Posted
  <2> QED BY <1>5, <2>1 DEF Unseen
<1> QED BY <1>6, <1>7

LEMMA MapsEdge ==
    ASSUME IInv, EdgeTakes \/ EdgeFails \/ \E j \in Jobs, n \in Numbers : EdgeVerifies(j, n) PROVE Contract!Next \/ Unseen
<1>1. CASE EdgeTakes \/ EdgeFails
  <2>1. wire # <<>> /\ UNCHANGED <<job, att, charged, written, blessed>>
    BY <1>1 DEF EdgeTakes, EdgeFails
  <2>2. Head(wire) \in CommandRec
    BY <2>1, HeadIn DEF IInv, InboxInv, WireTypes
  <2>3. PICK j \in Jobs, n \in Numbers : j = Head(wire).job /\ n = Head(wire).n
    BY <2>2 DEF CommandRec
  <2>4. UNCHANGED seen \/ (seen[j][n] # "confirmed" /\ \E r \in Outcomes : seen' = [seen EXCEPT ![j][n] = r])
    <3>1. CASE EdgeTakes
      BY <2>3, <3>1 DEF EdgeTakes, Outcomes
    <3>2. CASE EdgeFails
      BY <2>3, <3>2 DEF EdgeFails, Outcomes
    <3> QED BY <1>1, <3>1, <3>2
  <2> QED BY <2>1, <2>4, MapsSeen, MapsStill
<1>2. ASSUME NEW j \in Jobs, NEW n \in Numbers, EdgeVerifies(j, n) PROVE Contract!Next \/ Unseen
  <2>1. PICK r \in Outcomes : seen' = [seen EXCEPT ![j][n] = r]
    BY <1>2 DEF EdgeVerifies, Outcomes
  <2>2. seen[j][n] # "confirmed" /\ UNCHANGED <<job, att, charged, written, blessed>>
    BY <1>2 DEF EdgeVerifies
  <2> QED BY <2>1, <2>2, MapsSeen
<1> QED BY <1>1, <1>2

\* Jobs deleted: the contract forgets them.
LEMMA NoAttemptSeen == TryOf(NoAttempt) = [st |-> "none", text |-> None]
<1>1. NoAttempt.status = "none" /\ NoAttempt.text = None
  BY DEF NoAttempt
<1> QED BY <1>1 DEF TryOf, Unfinished

LEMMA MapsGone ==
    ASSUME RowTypes, NEW js \in SUBSET Jobs, Gone(js), UNCHANGED <<seen, charged, written, blessed>> PROVE Contract!Next
<1>1. PICK d : d = [NoJob EXCEPT !.state = "gone"]
  OBVIOUS
<1>2. d.state = "gone"
  BY <1>1 DEF NoJob
<1>3. job' = [j \in Jobs |-> IF j \in js THEN d ELSE job[j]]
  BY <1>1 DEF Gone
<1>4. \A k \in Jobs : (job'[k].state = "gone") = (k \in js \/ job[k].state = "gone")
  BY <1>2, <1>3
<1>5. Forgotten' = Forgotten \cup js
  BY <1>4 DEF Forgotten
<1>6. att' = [j \in Jobs |-> IF j \in js THEN [n \in Numbers |-> NoAttempt] ELSE att[j]]
  BY DEF Gone
<1>7. \A k \in Jobs, m \in Numbers : att'[k][m] = IF k \in js THEN NoAttempt ELSE att[k][m]
  BY <1>6
<1>8. Tries' = [j \in Jobs |-> IF j \in js THEN [n \in Numbers |-> [st |-> "none", text |-> None]] ELSE Tries[j]]
  <2>1. \A k \in Jobs : Tries'[k] = [m \in Numbers |-> TryOf(att'[k][m])]
    BY DEF Tries
  <2>2. \A k \in js : Tries'[k] = [m \in Numbers |-> [st |-> "none", text |-> None]]
    BY <1>7, <2>1, NoAttemptSeen
  <2>3. \A k \in Jobs \ js : Tries'[k] = Tries[k]
    <3> SUFFICES ASSUME NEW k \in Jobs \ js PROVE Tries'[k] = Tries[k]
      OBVIOUS
    <3>1. att'[k] = att[k]
      BY <1>6
    <3>2. Tries[k] = [m \in Numbers |-> TryOf(att[k][m])]
      BY DEF Tries
    <3> QED BY <2>1, <3>1, <3>2
  <2>4. Tries' = [k \in Jobs |-> Tries'[k]]
    BY DEF Tries
  <2> QED BY <2>2, <2>3, <2>4
<1>9. UNCHANGED Posted
  BY PostedKept
<1> QED BY <1>5, <1>8, <1>9, ForgetStep

\* The texts deleted: nothing the contract sees.
LEMMA MapsErased ==
    ASSUME RowTypes, NEW js \in SUBSET Jobs, Erased(js), UNCHANGED <<att, seen, charged, written, blessed>> PROVE Unseen
<1>1. \A k \in Jobs : job'[k] = IF k \in js THEN [job[k] EXCEPT !.text = None] ELSE job[k]
  BY DEF Erased
<1>2. \A k \in Jobs : job'[k].state = job[k].state
  <2> SUFFICES ASSUME NEW k \in Jobs PROVE job'[k].state = job[k].state
    OBVIOUS
  <2>1. PICK d : d = [job[k] EXCEPT !.text = None]
    OBVIOUS
  <2>2. d.state = job[k].state
    BY <2>1 DEF RowTypes, JobRec
  <2> QED BY <1>1, <2>1, <2>2
<1> QED BY <1>2, ForgottenKept, TriesKept, PostedKept DEF Unseen

LEMMA MapsDeletions ==
    ASSUME IInv, resetTestData \/ purgeExpiredContent \/ \E e \in Envs : ContentErased(e) \/ \E h \in Hosts : PurgeJobs(h, e)
    PROVE  Contract!Next \/ Unseen
<1>1. UNCHANGED <<seen, charged, written, blessed>> /\ RowTypes
  BY DEF resetTestData, purgeExpiredContent, PurgeJobs, ContentErased, IInv, InboxInv
<1>2. CASE \E js \in SUBSET Jobs : Gone(js)
  BY <1>1, <1>2, MapsGone
<1>3. CASE \E js \in SUBSET Jobs : Erased(js) /\ UNCHANGED att
  BY <1>1, <1>3, MapsErased
<1>4. CASE resetTestData
  <2>1. Gone({j \in Jobs : job[j].env = controls.env})
    BY <1>4 DEF resetTestData
  <2> QED BY <1>2, <2>1
<1>5. CASE purgeExpiredContent
  <2>1. PICK j \in Jobs : Erased({j}) /\ UNCHANGED att
    BY <1>5 DEF purgeExpiredContent
  <2> QED BY <1>3, <2>1
<1>6. ASSUME NEW e \in Envs, (\E h \in Hosts : PurgeJobs(h, e)) \/ ContentErased(e) PROVE Contract!Next \/ Unseen
  <2>1. CASE \E h \in Hosts : PurgeJobs(h, e)
    <3>1. Gone({j \in Jobs : job[j].env = e})
      BY <2>1 DEF PurgeJobs
    <3> QED BY <1>2, <3>1
  <2>2. CASE ContentErased(e)
    <3>1. Erased({j \in Jobs : job[j].env = e}) /\ UNCHANGED att
      BY <2>2 DEF ContentErased
    <3> QED BY <1>3, <3>1
  <2> QED BY <1>6, <2>1, <2>2
<1> QED BY <1>4, <1>5, <1>6

LEMMA NextUnseen == ASSUME IInv, [Next]_vars PROVE Contract!Next \/ Unseen
<1>1. CASE (OffboardStep /\ UNCHANGED inboxVars) \/ UNCHANGED vars
  BY <1>1, MapsStill DEF vars, inboxVars
<1>2. CASE EdgeTakes \/ EdgeFails
  BY <1>2, MapsEdge
<1>3. CASE Disconnect \/ reconcileRecoverable \/ Crash
  <2>1. UNCHANGED <<job, att, seen, charged, written, blessed>>
    BY <1>3 DEF Disconnect, reconcileRecoverable, Crash
  <2> QED BY <2>1, MapsStill
<1>4. CASE resetTestData \/ purgeExpiredContent \/ \E e \in Envs : ContentErased(e) \/ \E h \in Hosts : PurgeJobs(h, e)
  BY <1>4, MapsDeletions
<1>5. ASSUME NEW j \in Jobs, recoverStalledClassifyingJobs(j) PROVE Unseen
  <2>1. /\ job' = Moved(j, "new", job[j].text) /\ job[j].state # "gone"
        /\ UNCHANGED <<att, seen, charged, written, blessed>>
    BY <1>5 DEF recoverStalledClassifyingJobs
  <2>2. job[j].text \in Texts \cup {None} /\ "new" \in States \ {"gone"}
    BY JobText DEF IInv, InboxInv, States
  <2> QED BY <2>1, <2>2, MapsPlain DEF IInv, InboxInv
<1>6. ASSUME NEW j \in Jobs, NEW n \in Numbers, EdgeVerifies(j, n) \/ applyReplyReconcileResult(j, n)
      PROVE  Contract!Next \/ Unseen
  BY <1>6, MapsEdge, MapsReconcile
<1>7. ASSUME NEW w \in Workers,
             \/ GenerateTooLate(w) \/ buildPreview(w) \/ failGeneration(w) \/ canAutoQueueDraft(w)
             \/ approve(w) \/ edit(w) \/ queueApproved(w) \/ dispatchQueued(w) \/ ingestBatch(w)
      PROVE  Contract!Next \/ Unseen
  BY <1>7, MapsMoves, MapsDraft, MapsIngest
<1>8. ASSUME NEW w \in Workers,
             \/ createAttempt(w) \/ push(w) \/ markAttemptDispatched(w) \/ markDispatchDeferred(w)
             \/ markDispatchAmbiguous(w) \/ Note(w) \/ claimRiskRecord(w) \/ RecordRisk(w)
      PROVE  Contract!Next \/ Unseen
  BY <1>8, MapscreateAttempt, MapsMoves, MapsMarks, MapsCharges
<1>9. ASSUME NEW w \in Workers, NEW j \in Jobs,
             \/ ensureReadable(w, j) \/ generate(w, j) \/ Look(w, j) \/ transitionMessageJob(w, j)
             \/ Queue(w, j) \/ Dispatch(w, j)
      PROVE  Unseen
  BY <1>9, MapsBegins
<1>10. ASSUME NEW w \in Workers, NEW j \in Jobs, NEW n \in Numbers, applyReplyResult(w, j, n)
       PROVE  Contract!Next \/ Unseen
  BY <1>10, MapsResult
<1> QED BY <1>1, <1>2, <1>3, <1>4, <1>5, <1>6, <1>7, <1>8, <1>9, <1>10 DEF Next

LEMMA NextMaps == IInv /\ [Next]_vars => [Contract!Next]_(Contract!contract)
BY NextUnseen, UnseenStutters

LEMMA InitMaps == Init => Contract!Init
<1> SUFFICES ASSUME Init PROVE Contract!Init
  OBVIOUS
<1>1. RowTypes
  BY InitInbox DEF InboxInv
<1>2. blessed \in [Jobs -> SUBSET Texts]
  BY <1>1 DEF RowTypes
<1>3. \A k \in Jobs, m \in Numbers : att[k][m] = NoAttempt /\ seen[k][m] = "none"
  BY DEF Init, InboxInit
<1>4. Tries = [j \in Jobs |-> [n \in Numbers |-> [st |-> "none", text |-> None]]]
  BY <1>3, NoAttemptSeen DEF Tries
<1>5. Posted = {}
  BY <1>3 DEF Posted
<1>6. ASSUME NEW k \in Jobs PROVE job[k].state # "gone"
  <2>1. job[k] \in {NoJob} \cup [state : {"approval_required", "approved"}, env : {auth.env}, ver : {0}, text : Texts]
    BY DEF Init, InboxInit
  <2> QED BY <2>1 DEF NoJob
<1>7. Forgotten = {}
  BY <1>6 DEF Forgotten
<1>8. charged = [j \in Jobs |-> [n \in Numbers |-> 0]] /\ written = {}
  BY DEF Init, InboxInit
<1> QED BY <1>2, <1>4, <1>5, <1>7, <1>8, Zenon DEF Contract!Init, Contract!NoTry, Tries, Posted, Forgotten

\* What is tried was agreed to, no reply is tried again while an earlier try is open or unsure,
\* none is reported as sent that was not, and the budget is charged for what was posted only and
\* never again once a charge is known to be in the ledger: every step of the inbox is a step of
\* ReplyContract, or leaves its variables alone.
THEOREM ContractKept == Spec => ImplementsContract
BY InitMaps, NextMaps, Invariance, PTL DEF Spec, ImplementsContract, Contract!Spec

-----------------------------------------------------------------------------
(* The browsing session *)

Pauses == {"comment_subline", "view_quota", "patrol"}
Parkings == {"running", "resume", "capped", "structural", "stopped"}
Told == {"none", "confirmed", "failed", "unknown"}
Dispatcher ==
    [up : BOOLEAN, browser : {"absent", "present"}, active : BOOLEAN, parked : Parkings, timers : SUBSET Timers,
     pauses : SUBSET Pauses, sleeping : BOOLEAN, note : Notes \cup {Nobody}, inflight : Notes \cup {Nobody},
     expired : SUBSET (Notes \cup {Nobody}), pendingComment : Notes \cup {Nobody},
     pendingMigration : Notes \cup {Nobody}, page : {"feed", "search"}, redrives : Nat, excursion : BOOLEAN,
     suspended : BOOLEAN, tries : Nat, stalls : Nat, deferred : BOOLEAN, lease : BOOLEAN, acquiring : BOOLEAN,
     ending : BOOLEAN, queued : BOOLEAN, outcome : [Notes -> Told],
     awaited : Notes \cup {Nobody}, adrift : SUBSET Notes, out : Seq(Commands)]

\* Every pause has its owner, but those of X, which the handler under way is about to settle.
Owners(s, X) ==
    /\ "comment_subline" \in s.pauses \ X
          => \/ s.inflight # Nobody
             \/ DeliveryEnds(s.out, s.pendingComment, s.pendingMigration, s.awaited, s.adrift)
    /\ "view_quota" \in s.pauses \ X => s.sleeping /\ "view" \in s.timers
    /\ "patrol" \in s.pauses \ X => s.excursion

\* A lease is held or on its way only for a patrol; a patrol and a comment in hand are watched.
Watched(s, X) ==
    /\ s.lease => "lease" \in X \/ (s.active /\ s.excursion)
    /\ s.acquiring /\ ~s.ending => "lease" \in X \/ (s.active /\ s.excursion)
    /\ s.active /\ s.suspended => s.excursion /\ ("stall" \in X \/ "stall" \in s.timers)
    /\ s.inflight # Nobody => s.active /\ "subline" \in s.timers

\* A session that does not run pauses nothing; one that is to resume has a timer.
Resumes(s) ==
    /\ s.active => s.parked = "running"
    /\ ~s.active => s.pauses = {} /\ "view" \notin s.timers
    /\ s.up /\ s.browser = "present" /\ s.parked = "resume" => s.timers \cap Waits # {}

GoodBut(s, X) == s \in Dispatcher /\ Owners(s, X) /\ Watched(s, X) /\ Resumes(s)
Good(s) == GoodBut(s, {})

\* A dispatcher no session of which runs, whatever its timers are.
Resting(s) ==
    /\ s \in Dispatcher /\ ~s.active /\ s.pauses = {} /\ "view" \notin s.timers
    /\ ~s.lease /\ (s.acquiring => s.ending) /\ s.inflight = Nobody

\* What the invariant does not look at may change.
LEMMA Same ==
    ASSUME NEW s, NEW X, GoodBut(s, X), NEW t \in Dispatcher,
           t.up = s.up, t.browser = s.browser, t.active = s.active, t.parked = s.parked, t.timers = s.timers,
           t.pauses = s.pauses, t.sleeping = s.sleeping, t.inflight = s.inflight, t.pendingComment = s.pendingComment,
           t.pendingMigration = s.pendingMigration, t.out = s.out, t.awaited = s.awaited, t.adrift = s.adrift,
           t.excursion = s.excursion, t.suspended = s.suspended,
           t.lease = s.lease, t.acquiring = s.acquiring, t.ending = s.ending
    PROVE  GoodBut(t, X)
BY DEF GoodBut, Owners, Watched, Resumes

LEMMA GoodGrows == ASSUME NEW s, NEW X, Good(s) PROVE GoodBut(s, X)
BY DEF Good, GoodBut, Owners, Watched

LEMMA GoodIdle == ASSUME NEW s, Good(s), ~s.active PROVE Resting(s)
BY DEF Good, GoodBut, Watched, Resumes, Resting

LEMMA AppendTyped == ASSUME NEW S, NEW q \in Seq(S), NEW x \in S PROVE Append(q, x) \in Seq(S)
OBVIOUS

\* One command more is one answer more.
LEMMA MoreIsDue ==
    ASSUME NEW q \in Seq(Commands), NEW c \in Commands, NEW p, NEW m, NEW w, NEW a, DeliveryEnds(q, p, m, w, a)
    PROVE  DeliveryEnds(Append(q, c), p, m, w, a)
<1>1. \A i \in DOMAIN q : i \in DOMAIN Append(q, c) /\ Append(q, c)[i] = q[i]
  OBVIOUS
<1> QED BY <1>1 DEF DeliveryEnds, AnswerDue

\* The answer that a command is sent for.
Asks(s, c) ==
    \/ (c.a = "comment" /\ s.pendingComment # Nobody)
    \/ (c.a \in {"open", "navigate"} /\ s.pendingMigration # Nobody)

LEMMA AskedIsDue ==
    ASSUME NEW q \in Seq(Commands), NEW c \in Commands, NEW p, NEW m, NEW w, NEW a,
           (c.a = "comment" /\ p # Nobody) \/ (c.a \in {"open", "navigate"} /\ m # Nobody)
    PROVE  DeliveryEnds(Append(q, c), p, m, w, a)
<1>1. Len(q) + 1 \in DOMAIN Append(q, c) /\ Append(q, c)[Len(q) + 1] = c
  OBVIOUS
<1> QED BY <1>1 DEF DeliveryEnds, AnswerDue

LEMMA Appended ==
    ASSUME NEW s, NEW X, GoodBut(s, X), NEW c \in Commands
    PROVE  /\ GoodBut([s EXCEPT !.out = Append(@, c)], X)
           /\ (Asks(s, c) /\ X = {"comment_subline"}) => Good([s EXCEPT !.out = Append(@, c)])
<1>1. s \in Dispatcher
  BY DEF GoodBut
<1>2. s.out \in Seq(Commands)
  BY <1>1 DEF Dispatcher
<1>3. PICK q \in Seq(Commands) : q = Append(s.out, c)
  BY <1>2, AppendTyped
<1>4. PICK t : t = [s EXCEPT !.out = q]
  OBVIOUS
<1>5. t \in Dispatcher
  BY <1>1, <1>4 DEF Dispatcher
<1>6. /\ t.up = s.up /\ t.browser = s.browser /\ t.active = s.active /\ t.parked = s.parked
      /\ t.timers = s.timers /\ t.pauses = s.pauses /\ t.sleeping = s.sleeping /\ t.inflight = s.inflight
      /\ t.pendingComment = s.pendingComment /\ t.pendingMigration = s.pendingMigration
      /\ t.awaited = s.awaited /\ t.adrift = s.adrift /\ t.excursion = s.excursion
      /\ t.suspended = s.suspended /\ t.lease = s.lease /\ t.acquiring = s.acquiring /\ t.ending = s.ending
      /\ t.out = q
  BY <1>1, <1>4 DEF Dispatcher
<1>7. DeliveryEnds(s.out, s.pendingComment, s.pendingMigration, s.awaited, s.adrift)
        => DeliveryEnds(t.out, t.pendingComment, t.pendingMigration, t.awaited, t.adrift)
  BY <1>2, <1>3, <1>6, MoreIsDue
<1>8. GoodBut(t, X)
  BY <1>5, <1>6, <1>7 DEF GoodBut, Owners, Watched, Resumes
<1>9. ASSUME Asks(s, c), X = {"comment_subline"} PROVE Good(t)
  <2>1. DeliveryEnds(t.out, t.pendingComment, t.pendingMigration, t.awaited, t.adrift)
    BY <1>2, <1>3, <1>6, <1>9, AskedIsDue DEF Asks
  <2> QED BY <1>8, <1>9, <2>1 DEF Good, GoodBut, Owners, Watched
<1> QED BY <1>3, <1>4, <1>8, <1>9

LEMMA SendGood ==
    ASSUME NEW s, NEW X, GoodBut(s, X), NEW c \in Commands, NEW halted \in BOOLEAN
    PROVE  GoodBut(Send(s, c, halted), X)
<1>1. CASE Admits(s, c, halted)
  BY <1>1, Appended DEF Send
<1>2. CASE ~Admits(s, c, halted)
  BY <1>2 DEF Send
<1> QED BY <1>1, <1>2

LEMMA SendAsks ==
    ASSUME NEW s, GoodBut(s, {"comment_subline"}), NEW c \in Commands, NEW halted \in BOOLEAN,
           Admits(s, c, halted), Asks(s, c)
    PROVE  Good(Send(s, c, halted))
BY Appended DEF Send

LEMMA CmdType ==
    ASSUME NEW a \in {"scroll", "open", "search", "comment", "navigate", "notices", "category"},
           NEW n \in Notes \cup {Nobody}
    PROVE  Cmd(a, n) \in Commands
BY DEF Cmd, Commands

LEMMA ReportGood ==
    ASSUME NEW s, NEW X, GoodBut(s, X), NEW n, NEW o \in Told
    PROVE  GoodBut(Report(s, n, o), X)
<1>1. s \in Dispatcher
  BY DEF GoodBut
<1>2. CASE n \in Mandatory /\ s.outcome[n] = "none"
  <2>1. n \in Notes
    BY <1>2, SessionAssumption
  <2>2. PICK f \in [Notes -> Told] : f = [s.outcome EXCEPT ![n] = o]
    BY <1>1, <2>1 DEF Dispatcher
  <2>3. PICK t : t = [s EXCEPT !.outcome = f]
    OBVIOUS
  <2>4. t \in Dispatcher
    BY <1>1, <2>3 DEF Dispatcher
  <2>5. Report(s, n, o) = t
    BY <1>2, <2>2, <2>3 DEF Report
  <2>6. GoodBut(t, X)
    BY <1>1, <2>3, <2>4, Same DEF Dispatcher
  <2> QED BY <2>5, <2>6
<1>3. CASE ~(n \in Mandatory /\ s.outcome[n] = "none")
  BY <1>3 DEF Report
<1> QED BY <1>2, <1>3

LEMMA SendPatrolGood ==
    ASSUME NEW s, NEW X, GoodBut(s, X), NEW a \in {"notices", "category"}
    PROVE  GoodBut(SendPatrol(s, a), X)
<1>1. s \in Dispatcher
  BY DEF GoodBut
<1>2. CASE s.lease
  <2>1. Cmd(a, Nobody) \in Commands
    BY CmdType
  <2> QED BY <1>2, <2>1, Appended DEF SendPatrol
<1>3. CASE ~s.lease
  <2>1. PICK t : t = [s EXCEPT !.queued = TRUE]
    OBVIOUS
  <2>2. t \in Dispatcher
    BY <1>1, <2>1 DEF Dispatcher
  <2>4. /\ t.up = s.up /\ t.browser = s.browser /\ t.active = s.active /\ t.parked = s.parked
        /\ t.timers = s.timers /\ t.pauses = s.pauses /\ t.sleeping = s.sleeping /\ t.inflight = s.inflight
        /\ t.pendingComment = s.pendingComment /\ t.pendingMigration = s.pendingMigration /\ t.out = s.out
        /\ t.awaited = s.awaited /\ t.adrift = s.adrift /\ t.excursion = s.excursion
        /\ t.suspended = s.suspended /\ t.lease = s.lease /\ t.acquiring = s.acquiring /\ t.ending = s.ending
    BY <1>1, <2>1 DEF Dispatcher
  <2>3. GoodBut(t, X)
    BY <2>2, <2>4, Same
  <2> QED BY <1>3, <2>1, <2>3 DEF SendPatrol
<1> QED BY <1>2, <1>3

------------------------------------------------------------------------------
\* The session's ends and starts.
LEMMA SleepGood ==
    ASSUME NEW s, NEW X, GoodBut(s, X), s.active
    PROVE  GoodBut(sleepForViewQuota(s), X) /\ sleepForViewQuota(s).active
<1>1. s \in Dispatcher
  BY DEF GoodBut
<1>2. CASE s.sleeping
  BY <1>2 DEF sleepForViewQuota
<1>3. CASE ~s.sleeping
  <2>1. PICK t : t = [s EXCEPT !.sleeping = TRUE, !.timers = @ \cup {"view"}, !.pauses = @ \cup {"view_quota"}]
    OBVIOUS
  <2>2. t \in Dispatcher
    BY <1>1, <2>1 DEF Dispatcher, Pauses, Timers, Waits
  <2>3. GoodBut(t, X) /\ t.active
    BY <1>1, <2>1, <2>2 DEF Dispatcher, GoodBut, Owners, Watched, Resumes
  <2> QED BY <1>3, <2>1, <2>3 DEF sleepForViewQuota
<1> QED BY <1>2, <1>3

LEMMA SleepAgain ==
    ASSUME NEW s, NEW X, GoodBut(s, X \cup {"view_quota"}), s.active, ~s.sleeping
    PROVE  GoodBut(sleepForViewQuota(s), X)
<1>1. s \in Dispatcher
  BY DEF GoodBut
<1>2. PICK t : t = [s EXCEPT !.sleeping = TRUE, !.timers = @ \cup {"view"}, !.pauses = @ \cup {"view_quota"}]
  OBVIOUS
<1>3. t \in Dispatcher
  BY <1>1, <1>2 DEF Dispatcher, Pauses, Timers, Waits
<1>4. GoodBut(t, X)
  BY <1>1, <1>2, <1>3 DEF Dispatcher, GoodBut, Owners, Watched, Resumes
<1> QED BY <1>2, <1>4 DEF sleepForViewQuota

LEMMA ScrollGood ==
    ASSUME NEW s, NEW X, GoodBut(s, X), s.active, NEW viewOk \in BOOLEAN
    PROVE  GoodBut(sendScrollCommand(s, viewOk), X)
<1>1. Cmd("scroll", Nobody) \in Commands
  BY CmdType
<1>2. GoodBut(Send(s, Cmd("scroll", Nobody), FALSE), X)
  BY <1>1, SendGood
<1> QED BY <1>2, SleepGood DEF sendScrollCommand

LEMMA SwitchTyped ==
    ASSUME NEW s \in Dispatcher, NEW t,
           \/ t = [s EXCEPT !.excursion = FALSE, !.suspended = FALSE]
           \/ t = [s EXCEPT !.deferred = FALSE, !.active = FALSE]
           \/ t = [s EXCEPT !.sleeping = FALSE, !.inflight = Nobody]
           \/ t = [s EXCEPT !.tries = 0]
           \/ t = [s EXCEPT !.stalls = 0]
    PROVE  t \in Dispatcher
<1>1. CASE t = [s EXCEPT !.excursion = FALSE, !.suspended = FALSE]
  BY <1>1 DEF Dispatcher
<1>2. CASE t = [s EXCEPT !.deferred = FALSE, !.active = FALSE]
  BY <1>2 DEF Dispatcher
<1>3. CASE t = [s EXCEPT !.sleeping = FALSE, !.inflight = Nobody]
  BY <1>3 DEF Dispatcher
<1>4. CASE t = [s EXCEPT !.tries = 0] \/ t = [s EXCEPT !.stalls = 0]
  BY <1>4 DEF Dispatcher
<1> QED BY <1>1, <1>2, <1>3, <1>4

\* Settling what is pending leaves the session as it is.
LEMMA SettleFrame ==
    ASSUME NEW s \in Dispatcher
    PROVE  \E t \in Dispatcher :
              /\ SettlePending(s) = t /\ t.timers = s.timers
              /\ t.up = s.up /\ t.browser = s.browser /\ t.active = s.active /\ t.lease = s.lease
              /\ t.acquiring = s.acquiring /\ t.ending = s.ending
<1>1. PICK n : n = Pending(s.pendingComment, s.pendingMigration)
  OBVIOUS
<1>2. \E f \in [Notes -> Told] :
         (IF n = Nobody THEN s ELSE Report(s, n, "unknown")) = [s EXCEPT !.outcome = f]
  <2>1. s.outcome \in [Notes -> Told] /\ s = [s EXCEPT !.outcome = s.outcome]
    BY DEF Dispatcher
  <2>2. CASE n # Nobody /\ n \in Mandatory /\ s.outcome[n] = "none"
    <3>1. n \in Notes
      BY <2>2, SessionAssumption
    <3>2. PICK f \in [Notes -> Told] : f = [s.outcome EXCEPT ![n] = "unknown"]
      BY <2>1, <3>1 DEF Told
    <3>3. Report(s, n, "unknown") = [s EXCEPT !.outcome = f]
      BY <2>2, <3>2 DEF Report
    <3> QED BY <2>2, <3>3
  <2>3. CASE ~(n # Nobody /\ n \in Mandatory /\ s.outcome[n] = "none")
    BY <2>1, <2>3 DEF Report
  <2> QED BY <2>2, <2>3
<1>3. PICK f \in [Notes -> Told] :
         (IF n = Nobody THEN s ELSE Report(s, n, "unknown")) = [s EXCEPT !.outcome = f]
  BY <1>2
<1>4. PICK r : r = [s EXCEPT !.outcome = f]
  OBVIOUS
<1>5. PICK t : t = [r EXCEPT !.pendingComment = Nobody, !.pendingMigration = Nobody, !.awaited = Nobody]
  OBVIOUS
<1>6. r \in Dispatcher /\ r.timers = s.timers /\ r.up = s.up /\ r.browser = s.browser /\ r.active = s.active
      /\ r.lease = s.lease /\ r.acquiring = s.acquiring /\ r.ending = s.ending
  BY <1>4 DEF Dispatcher
<1>7. t \in Dispatcher
  <2>1. PICK y : y = [r EXCEPT !.pendingComment = Nobody, !.pendingMigration = Nobody]
    OBVIOUS
  <2>2. y \in Dispatcher
    BY <1>6, <2>1 DEF Dispatcher
  <2>3. t = [y EXCEPT !.awaited = Nobody]
    BY <1>5, <2>1
  <2> QED BY <2>2, <2>3 DEF Dispatcher
<1>8. SettlePending(s) = t
  BY <1>1, <1>3, <1>4, <1>5 DEF SettlePending
<1>9. t.timers = s.timers /\ t.up = s.up /\ t.browser = s.browser /\ t.active = s.active
      /\ t.lease = s.lease /\ t.acquiring = s.acquiring /\ t.ending = s.ending
  BY <1>5, <1>6 DEF Dispatcher
<1> QED BY <1>7, <1>8, <1>9

\* An ended session leaves nothing behind but its rest.
LEMMA EndGood ==
    ASSUME NEW s \in Dispatcher, NEW a \in BOOLEAN
    PROVE  Good(endSession(s, a))
<1>1. PICK t \in Dispatcher : SettlePending(s) = t
  BY SettleFrame
<1>2. PICK u : u = [t EXCEPT !.ending = TRUE, !.queued = FALSE, !.lease = FALSE]
  OBVIOUS
<1>3. u \in Dispatcher /\ u.lease = FALSE /\ u.ending = TRUE
  BY <1>2 DEF Dispatcher
<1>4. PICK g \in SUBSET Timers, p \in Parkings :
         /\ g = IF a /\ s.active THEN {"rest"} ELSE {}
         /\ p = IF a /\ s.active THEN "resume" ELSE "stopped"
  <2>1. CASE a /\ s.active
    <3>1. {"rest"} \in SUBSET Timers /\ "resume" \in Parkings
      BY DEF Timers, Waits, Parkings
    <3> QED BY <2>1, <3>1
  <2>2. CASE ~(a /\ s.active)
    <3>1. {} \in SUBSET Timers /\ "stopped" \in Parkings
      BY DEF Parkings
    <3> QED BY <2>2, <3>1
  <2> QED BY <2>1, <2>2
<1>9. PICK x : x = [u EXCEPT !.timers = g, !.pauses = {}, !.sleeping = FALSE, !.inflight = Nobody]
  OBVIOUS
<1>10. x \in Dispatcher
  <2>1. PICK y : y = [u EXCEPT !.timers = g, !.pauses = {}]
    OBVIOUS
  <2>2. y \in Dispatcher
    BY <1>3, <2>1 DEF Dispatcher
  <2>3. x = [y EXCEPT !.sleeping = FALSE, !.inflight = Nobody]
    BY <1>9, <2>1
  <2> QED BY <2>2, <2>3, SwitchTyped, Zenon
<1>11. x.lease = FALSE /\ x.ending = TRUE /\ x.timers = g /\ x.pauses = {} /\ x.inflight = Nobody
  BY <1>3, <1>9 DEF Dispatcher
<1>5. PICK e : e = [x EXCEPT !.deferred = FALSE, !.active = FALSE, !.stalls = 0, !.parked = p]
  OBVIOUS
<1>6. e \in Dispatcher
  <2>1. PICK y : y = [x EXCEPT !.deferred = FALSE, !.active = FALSE]
    OBVIOUS
  <2>2. y \in Dispatcher
    BY <1>10, <2>1, SwitchTyped, Zenon
  <2>3. PICK z : z = [y EXCEPT !.stalls = 0]
    OBVIOUS
  <2>4. z \in Dispatcher
    BY <2>2, <2>3, SwitchTyped, Zenon
  <2>5. e = [z EXCEPT !.parked = p]
    BY <1>5, <2>1, <2>3
  <2> QED BY <2>4, <2>5 DEF Dispatcher
<1>7. endSession(s, a) = e
  BY <1>1, <1>2, <1>4, <1>5, <1>9 DEF endSession, endNotificationTask
<1>12. /\ e.lease = FALSE /\ e.ending = TRUE /\ e.timers = g /\ e.pauses = {} /\ e.inflight = Nobody
       /\ e.active = FALSE /\ e.parked = p
  BY <1>5, <1>10, <1>11 DEF Dispatcher
<1>8. Good(e)
  BY <1>4, <1>6, <1>12 DEF Good, GoodBut, Owners, Watched, Resumes, Waits
<1> QED BY <1>7, <1>8

LEMMA CheckGood ==
    ASSUME NEW s, NEW X, GoodBut(s, X), NEW limit \in BOOLEAN
    PROVE  GoodBut(checkSession(s, limit), X)
<1>1. Good(endSession(s, TRUE))
  BY EndGood DEF GoodBut
<1>2. GoodBut(endSession(s, TRUE), X)
  BY <1>1, GoodGrows
<1> QED BY <1>2 DEF checkSession

\* Once its pause is lifted, a reason to pause needs no owner.
LEMMA ResumeClockGood ==
    ASSUME NEW s, NEW X, NEW why \in Pauses, GoodBut(s, X \cup {why}), NEW limit \in BOOLEAN,
           why # "lease" /\ why # "stall"
    PROVE  GoodBut(resumeClock(s, why, limit), X)
<1>1. s \in Dispatcher
  BY DEF GoodBut
<1>2. CASE why \in s.pauses
  <2>1. PICK t : t = [s EXCEPT !.pauses = @ \ {why}]
    OBVIOUS
  <2>2. t \in Dispatcher
    BY <1>1, <2>1 DEF Dispatcher
  <2>3. GoodBut(t, X)
    BY <1>1, <2>1, <2>2 DEF Dispatcher, GoodBut, Owners, Watched, Resumes
  <2>4. GoodBut(checkSession(t, limit), X)
    BY <2>3, CheckGood
  <2> QED BY <1>2, <2>1, <2>4 DEF resumeClock
<1>3. CASE why \notin s.pauses
  <2>1. GoodBut(s, X)
    BY <1>3 DEF GoodBut, Owners, Watched
  <2> QED BY <1>3, <2>1 DEF resumeClock
<1> QED BY <1>2, <1>3

LEMMA RestartGood ==
    ASSUME NEW s, Resting(s), NEW week \in BOOLEAN, NEW viewOk \in BOOLEAN
    PROVE  Good(restartSession(s, week, viewOk))
<1>1. s \in Dispatcher
  BY DEF Resting
<1>2. CASE s.browser = "absent"
  BY <1>1, <1>2 DEF restartSession, Resting, Good, GoodBut, Owners, Watched, Resumes
<1>3. CASE s.browser # "absent" /\ ~week
  <2>1. PICK t : t = [s EXCEPT !.timers = @ \cup {"wake"}, !.parked = "resume"]
    OBVIOUS
  <2>2. t \in Dispatcher
    BY <1>1, <2>1 DEF Dispatcher, Timers, Waits, Parkings
  <2>4. /\ t.parked = "resume" /\ t.timers = s.timers \cup {"wake"} /\ t.up = s.up /\ t.browser = s.browser
        /\ t.active = s.active /\ t.pauses = s.pauses /\ t.sleeping = s.sleeping /\ t.inflight = s.inflight
        /\ t.pendingComment = s.pendingComment /\ t.pendingMigration = s.pendingMigration
        /\ t.out = s.out /\ t.awaited = s.awaited /\ t.adrift = s.adrift
        /\ t.excursion = s.excursion /\ t.suspended = s.suspended /\ t.lease = s.lease
        /\ t.acquiring = s.acquiring /\ t.ending = s.ending
    BY <1>1, <2>1 DEF Dispatcher
  <2>3. Good(t)
    BY <2>2, <2>4 DEF Resting, Good, GoodBut, Owners, Watched, Resumes, Waits
  <2> QED BY <1>3, <2>1, <2>3 DEF restartSession
<1>4. CASE s.browser # "absent" /\ week
  <2>1. PICK u \in Dispatcher :
           SettlePending(s) = u /\ u.lease = s.lease /\ u.acquiring = s.acquiring /\ u.ending = s.ending
    BY <1>1, SettleFrame
  <2>2. PICK q : q = [u EXCEPT !.timers = {}, !.pauses = {}, !.sleeping = FALSE, !.inflight = Nobody, !.active = TRUE]
    OBVIOUS
  <2>9. q \in Dispatcher
    <3>1. u \in Dispatcher /\ {} \in SUBSET Timers /\ {} \in SUBSET Pauses
      BY <2>1
    <3> QED BY <2>2, <3>1 DEF Dispatcher
  <2>3. q.lease = s.lease /\ q.acquiring = s.acquiring /\ q.ending = s.ending
        /\ q.timers = {} /\ q.pauses = {} /\ q.inflight = Nobody /\ q.active = TRUE
    BY <2>1, <2>2 DEF Dispatcher
  <2>6. PICK r : r = [q EXCEPT !.parked = "running", !.page = "feed", !.excursion = FALSE, !.suspended = FALSE,
                               !.tries = 0]
    OBVIOUS
  <2>10. PICK k : k = [q EXCEPT !.parked = "running", !.page = "feed"]
    OBVIOUS
  <2>11. k \in Dispatcher
    <3>1. "running" \in Parkings
      BY DEF Parkings
    <3> QED BY <2>9, <2>10, <3>1 DEF Dispatcher
  <2>12. PICK l : l = [k EXCEPT !.excursion = FALSE, !.suspended = FALSE]
    OBVIOUS
  <2>13. l \in Dispatcher
    BY <2>11, <2>12, SwitchTyped, Zenon
  <2>14. r = [l EXCEPT !.tries = 0]
    BY <2>6, <2>10, <2>12
  <2>7. r \in Dispatcher
    BY <2>13, <2>14, SwitchTyped, Zenon
  <2>8. r.lease = s.lease /\ r.acquiring = s.acquiring /\ r.ending = s.ending /\ r.timers = {} /\ r.pauses = {}
        /\ r.inflight = Nobody /\ r.active = TRUE /\ r.parked = "running" /\ r.suspended = FALSE
    BY <2>3, <2>6, <2>9 DEF Dispatcher
  <2>4. Good(r) /\ r.active
    BY <2>7, <2>8 DEF Resting, Good, GoodBut, Owners, Watched, Resumes
  <2>5. restartSession(s, week, viewOk) = IF viewOk THEN r ELSE sleepForViewQuota(r)
    BY <1>4, <2>1, <2>2, <2>6 DEF restartSession
  <2> QED BY <2>4, <2>5, SleepGood DEF Good
<1> QED BY <1>2, <1>3, <1>4

LEMMA RefusedGood ==
    ASSUME NEW s, Resting(s), NEW v \in {"recoverable", "structural"}
    PROVE  Good(canStartSession(s, v))
<1>1. s \in Dispatcher
  BY DEF Resting
<1>2. CASE v = "recoverable"
  <2>1. PICK t : t = [s EXCEPT !.timers = @ \cup {"gate"}, !.parked = "resume"]
    OBVIOUS
  <2>2. t \in Dispatcher
    BY <1>1, <2>1 DEF Dispatcher, Timers, Waits, Parkings
  <2>4. /\ t.parked = "resume" /\ t.timers = s.timers \cup {"gate"} /\ t.up = s.up /\ t.browser = s.browser
        /\ t.active = s.active /\ t.pauses = s.pauses /\ t.sleeping = s.sleeping /\ t.inflight = s.inflight
        /\ t.pendingComment = s.pendingComment /\ t.pendingMigration = s.pendingMigration
        /\ t.out = s.out /\ t.awaited = s.awaited /\ t.adrift = s.adrift
        /\ t.excursion = s.excursion /\ t.suspended = s.suspended /\ t.lease = s.lease
        /\ t.acquiring = s.acquiring /\ t.ending = s.ending
    BY <1>1, <2>1 DEF Dispatcher
  <2>3. Good(t)
    BY <2>2, <2>4 DEF Resting, Good, GoodBut, Owners, Watched, Resumes, Waits
  <2> QED BY <1>2, <2>1, <2>3 DEF canStartSession
<1>3. CASE v = "structural"
  <2>1. PICK t : t = [s EXCEPT !.parked = "structural"]
    OBVIOUS
  <2>2. t \in Dispatcher
    BY <1>1, <2>1 DEF Dispatcher, Parkings
  <2>4. /\ t.parked = "structural" /\ t.up = s.up /\ t.browser = s.browser /\ t.active = s.active
        /\ t.timers = s.timers /\ t.pauses = s.pauses /\ t.sleeping = s.sleeping /\ t.inflight = s.inflight
        /\ t.pendingComment = s.pendingComment /\ t.pendingMigration = s.pendingMigration
        /\ t.out = s.out /\ t.awaited = s.awaited /\ t.adrift = s.adrift
        /\ t.excursion = s.excursion /\ t.suspended = s.suspended /\ t.lease = s.lease
        /\ t.acquiring = s.acquiring /\ t.ending = s.ending
    BY <1>1, <2>1 DEF Dispatcher
  <2>3. Good(t)
    BY <2>2, <2>4 DEF Resting, Good, GoodBut, Owners, Watched, Resumes
  <2> QED BY <1>3, <2>1, <2>3 DEF canStartSession
<1> QED BY <1>2, <1>3

LEMMA StartGood ==
    ASSUME NEW s, Resting(s) \/ (s.active /\ Good(s)), NEW v \in Verdicts, NEW week \in BOOLEAN, NEW viewOk \in BOOLEAN
    PROVE  Good(tryStartSession(s, v, week, viewOk))
<1>1. CASE s.active
  BY <1>1 DEF tryStartSession, Resting
<1>2. CASE ~s.active /\ v = "ok"
  BY <1>2, RestartGood DEF tryStartSession
<1>3. CASE ~s.active /\ v # "ok"
  <2>1. v \in {"recoverable", "structural"}
    BY <1>3 DEF Verdicts
  <2> QED BY <1>3, <2>1, RefusedGood DEF tryStartSession
<1> QED BY <1>1, <1>2, <1>3

LEMMA RedriveGood ==
    ASSUME NEW s, Good(s), NEW viewOk \in BOOLEAN
    PROVE  Good(redriveBrowse(s, viewOk))
BY ScrollGood DEF redriveBrowse, Good

LEMMA BoundGood ==
    ASSUME NEW s, Resting(s) \/ (s.active /\ Good(s)), NEW v \in Verdicts, NEW week \in BOOLEAN, NEW viewOk \in BOOLEAN
    PROVE  Good(startOnPersonaBound(s, v, week, viewOk))
<1>1. CASE s.active
  BY <1>1 DEF startOnPersonaBound, Resting
<1>2. CASE ~s.active
  BY <1>2, StartGood, RedriveGood DEF startOnPersonaBound
<1> QED BY <1>1, <1>2

LEMMA AutoResumeGood ==
    ASSUME NEW s, Resting(s) \/ (s.active /\ Good(s)), NEW v \in Verdicts, NEW week \in BOOLEAN, NEW capped \in BOOLEAN,
           NEW viewOk \in BOOLEAN
    PROVE  Good(doAutoResume(s, v, week, capped, viewOk))
<1>1. CASE s.active
  BY <1>1 DEF doAutoResume, Resting
<1>2. CASE ~s.active /\ ~week
  <2>1. PICK u : u = canStartSession(s, v)
    OBVIOUS
  <2>2. u \in Dispatcher /\ u.pauses = {} /\ "view" \notin u.timers /\ u.active = FALSE
        /\ ~u.lease /\ (u.acquiring => u.ending) /\ u.inflight = Nobody
    <3>1. s \in Dispatcher
      BY <1>2 DEF Resting
    <3>2. CASE v = "recoverable"
      <4>1. u = [s EXCEPT !.timers = @ \cup {"gate"}, !.parked = "resume"]
        BY <2>1, <3>2 DEF canStartSession
      <4>2. u \in Dispatcher
        BY <3>1, <4>1 DEF Dispatcher, Timers, Waits, Parkings
      <4> QED BY <1>2, <3>1, <4>1, <4>2 DEF Dispatcher, Resting
    <3>3. CASE v = "structural"
      <4>1. u = [s EXCEPT !.parked = "structural"]
        BY <2>1, <3>3 DEF canStartSession
      <4>2. u \in Dispatcher
        BY <3>1, <4>1 DEF Dispatcher, Parkings
      <4> QED BY <1>2, <3>1, <4>1, <4>2 DEF Dispatcher, Resting
    <3>4. CASE v = "ok"
      BY <1>2, <2>1, <3>1, <3>4 DEF canStartSession, Resting, Dispatcher
    <3> QED BY <3>2, <3>3, <3>4 DEF Verdicts
  <2>3. PICK t : t = [u EXCEPT !.timers = @ \cup {"wake"}, !.parked = "resume"]
    OBVIOUS
  <2>7. u \in Dispatcher /\ "wake" \in Timers /\ "resume" \in Parkings
    BY <2>2 DEF Timers, Waits, Parkings
  <2>4. t \in Dispatcher
    BY <2>3, <2>7 DEF Dispatcher
  <2>9. u \in Dispatcher /\ u.active = FALSE
    BY <2>2
  <2>8. /\ t.active = FALSE /\ t.parked = "resume" /\ t.timers = u.timers \cup {"wake"}
        /\ t.pauses = u.pauses /\ t.lease = u.lease /\ t.acquiring = u.acquiring /\ t.ending = u.ending
        /\ t.inflight = u.inflight
    BY <2>3, <2>9 DEF Dispatcher
  <2>5. Good(t)
    BY <2>2, <2>4, <2>8 DEF Good, GoodBut, Owners, Watched, Resumes, Waits
  <2>6. doAutoResume(s, v, week, capped, viewOk) = t
    BY <1>2, <2>1, <2>3 DEF doAutoResume
  <2> QED BY <2>5, <2>6
<1>3. CASE ~s.active /\ week /\ v # "ok"
  <2>1. PICK u : u = canStartSession(s, v)
    OBVIOUS
  <2>2. v \in {"recoverable", "structural"}
    BY <1>3 DEF Verdicts
  <2>3. s \in Dispatcher /\ Good(u)
    BY <1>3, <2>1, <2>2, RefusedGood DEF Resting
  <2>4. u.active = FALSE /\ (u.parked = "resume" => "gate" \in u.timers) /\ u \in Dispatcher
    <3>1. u \in Dispatcher
      BY <2>3 DEF Good, GoodBut
    <3>2. CASE v = "recoverable"
      BY <1>3, <2>1, <2>3, <3>1, <3>2 DEF canStartSession, Dispatcher
    <3>3. CASE v = "structural"
      BY <1>3, <2>1, <2>3, <3>1, <3>3 DEF canStartSession, Dispatcher
    <3> QED BY <2>2, <3>2, <3>3
  <2>5. PICK t : t = [u EXCEPT !.timers = @ \ {"wake"}]
    OBVIOUS
  <2>6. t \in Dispatcher
    BY <2>4, <2>5 DEF Dispatcher
  <2>10. /\ t.active = FALSE /\ t.parked = u.parked /\ t.timers = u.timers \ {"wake"} /\ t.pauses = u.pauses
         /\ t.lease = u.lease /\ t.acquiring = u.acquiring /\ t.ending = u.ending /\ t.inflight = u.inflight
    BY <2>4, <2>5 DEF Dispatcher
  <2>11. u.pauses = {} /\ "view" \notin u.timers /\ ~u.lease /\ (u.acquiring => u.ending) /\ u.inflight = Nobody
    BY <2>3, <2>4 DEF Good, GoodBut, Watched, Resumes
  <2>7. Good(t)
    BY <2>4, <2>6, <2>10, <2>11 DEF Good, GoodBut, Owners, Watched, Resumes, Waits
  <2>8. doAutoResume(s, v, week, capped, viewOk) = [u EXCEPT !.timers = u.timers \ {"wake"}, !.parked = u.parked]
    BY <1>3, <2>1 DEF doAutoResume
  <2>9. [u EXCEPT !.timers = u.timers \ {"wake"}, !.parked = u.parked] = t
    BY <2>4, <2>5 DEF Dispatcher
  <2> QED BY <2>7, <2>8, <2>9
<1>4. CASE ~s.active /\ week /\ v = "ok" /\ capped
  <2>1. s \in Dispatcher
    BY <1>4 DEF Resting
  <2>2. PICK t : t = [s EXCEPT !.timers = @ \ {"wake"}, !.parked = "capped"]
    OBVIOUS
  <2>3. t \in Dispatcher
    BY <2>1, <2>2 DEF Dispatcher, Parkings
  <2>4. Good(t)
    BY <1>4, <2>1, <2>2, <2>3 DEF Dispatcher, Resting, Good, GoodBut, Owners, Watched, Resumes
  <2> QED BY <1>4, <2>2, <2>4 DEF doAutoResume
<1>5. CASE ~s.active /\ week /\ v = "ok" /\ ~capped
  <2>1. Good(redriveBrowse(tryStartSession(s, v, week, viewOk), viewOk))
    BY <1>5, StartGood, RedriveGood
  <2> QED BY <1>5, <2>1 DEF doAutoResume
<1> QED BY <1>1, <1>2, <1>3, <1>4, <1>5

------------------------------------------------------------------------------
\* The comment in hand and the patrol.
LEMMA EnterGood ==
    ASSUME NEW s, Good(s), s.active, NEW n \in Notes
    PROVE  Good(enterCommentSubline(s, n))
<1>1. s \in Dispatcher
  BY DEF Good, GoodBut
<1>2. PICK t : t = [s EXCEPT !.inflight = n, !.pauses = @ \cup {"comment_subline"}, !.timers = @ \cup {"subline"}]
  OBVIOUS
<1>3. t \in Dispatcher
  BY <1>1, <1>2 DEF Dispatcher, Pauses, Timers
<1>4. n # Nobody
  BY SessionAssumption
<1>5. Good(t)
  BY <1>1, <1>2, <1>3, <1>4 DEF Dispatcher, Good, GoodBut, Owners, Watched, Resumes
<1> QED BY <1>2, <1>5 DEF enterCommentSubline

LEMMA ClearGood ==
    ASSUME NEW s, NEW X, GoodBut(s, X \cup {"comment_subline"}), NEW limit \in BOOLEAN
    PROVE  /\ GoodBut(clearCommentSublineHold(s, FALSE, limit), X \cup {"comment_subline"})
           /\ GoodBut(clearCommentSublineHold(s, TRUE, limit), X)
<1>1. s \in Dispatcher
  BY DEF GoodBut
<1>2. PICK c : c = [s EXCEPT !.inflight = Nobody, !.timers = @ \ {"subline"}]
  OBVIOUS
<1>3. c \in Dispatcher
  BY <1>1, <1>2 DEF Dispatcher
<1>4. GoodBut(c, X \cup {"comment_subline"})
  BY <1>1, <1>2, <1>3 DEF Dispatcher, GoodBut, Owners, Watched, Resumes, Waits
<1>5. GoodBut(resumeClock(c, "comment_subline", limit), X)
  BY <1>4, ResumeClockGood DEF Pauses
<1> QED BY <1>2, <1>4, <1>5 DEF clearCommentSublineHold

LEMMA ExcursionGood ==
    ASSUME NEW s, Good(s), s.active
    PROVE  Good(StartExcursion(s))
<1>1. s \in Dispatcher
  BY DEF Good, GoodBut
<1>2. PICK b : b = [s EXCEPT !.excursion = TRUE, !.suspended = TRUE, !.tries = 0, !.stalls = 0, !.queued = TRUE,
                             !.timers = @ \cup {"stall"}, !.pauses = @ \cup {"patrol"}]
  OBVIOUS
<1>3. b \in Dispatcher
  BY <1>1, <1>2 DEF Dispatcher, Pauses, Timers
<1>4. Good(b) /\ b.active /\ b.excursion
  BY <1>1, <1>2, <1>3 DEF Dispatcher, Good, GoodBut, Owners, Watched, Resumes
<1>5. PICK c : c = [b EXCEPT !.acquiring = TRUE, !.ending = FALSE]
  OBVIOUS
<1>6. c \in Dispatcher
  BY <1>3, <1>5 DEF Dispatcher
<1>7. Good(c)
  BY <1>3, <1>4, <1>5, <1>6 DEF Dispatcher, Good, GoodBut, Owners, Watched, Resumes
<1> QED BY <1>2, <1>4, <1>5, <1>7 DEF StartExcursion

LEMMA AdmitGood ==
    ASSUME NEW s, Good(s), s.active
    PROVE  Good(admit(s))
<1>1. s \in Dispatcher
  BY DEF Good, GoodBut
<1>2. PICK t : t = [s EXCEPT !.deferred = TRUE]
  OBVIOUS
<1>3. t \in Dispatcher
  BY <1>1, <1>2 DEF Dispatcher
<1>5. /\ t.up = s.up /\ t.browser = s.browser /\ t.active = s.active /\ t.parked = s.parked
      /\ t.timers = s.timers /\ t.pauses = s.pauses /\ t.sleeping = s.sleeping /\ t.inflight = s.inflight
      /\ t.pendingComment = s.pendingComment /\ t.pendingMigration = s.pendingMigration /\ t.out = s.out
      /\ t.awaited = s.awaited /\ t.adrift = s.adrift /\ t.excursion = s.excursion
      /\ t.suspended = s.suspended /\ t.lease = s.lease /\ t.acquiring = s.acquiring /\ t.ending = s.ending
  BY <1>1, <1>2 DEF Dispatcher
<1>4. Good(t)
  BY <1>3, <1>5, Same DEF Good
<1> QED BY <1>2, <1>4, ExcursionGood DEF admit

LEMMA RetryGood ==
    ASSUME NEW s, Good(s)
    PROVE  Good(retryDeferred(s))
<1>1. s \in Dispatcher
  BY DEF Good, GoodBut
<1>2. PICK t : t = [s EXCEPT !.deferred = FALSE]
  OBVIOUS
<1>3. t \in Dispatcher /\ t.active = s.active
  BY <1>1, <1>2 DEF Dispatcher
<1>4. Good(t)
  BY <1>1, <1>2, <1>3, Same DEF Dispatcher, Good
<1> QED BY <1>2, <1>3, <1>4, AdmitGood DEF retryDeferred

\* A session that has ended pauses nothing, so nothing is left to settle.
LEMMA EndedGood ==
    ASSUME NEW s, GoodBut(s, {"comment_subline"}), ~s.active
    PROVE  Good(s)
BY DEF Good, GoodBut, Owners, Watched, Resumes

LEMMA SkippedGood ==
    ASSUME NEW s, GoodBut(s, {"comment_subline"}), NEW limit \in BOOLEAN
    PROVE  Good(Skipped(s, limit))
<1>1. GoodBut(s, {} \cup {"comment_subline"})
  <2>1. {} \cup {"comment_subline"} = {"comment_subline"}
    OBVIOUS
  <2> QED BY <2>1
<1>2. Good(clearCommentSublineHold(s, TRUE, limit))
  BY <1>1, ClearGood DEF Good
<1> QED BY <1>2, RetryGood, EndedGood DEF Skipped

LEMMA DoneGood ==
    ASSUME NEW s, GoodBut(s, {"comment_subline"}), NEW limit \in BOOLEAN
    PROVE  Good(Done(s, limit))
<1>1. GoodBut(s, {} \cup {"comment_subline"})
  <2>1. {} \cup {"comment_subline"} = {"comment_subline"}
    OBVIOUS
  <2> QED BY <2>1
<1>2. Good(resumeClock(s, "comment_subline", limit))
  BY <1>1, ResumeClockGood DEF Good, Pauses
<1> QED BY <1>2, RetryGood, EndedGood DEF Done

LEMMA ApprovedGood ==
    ASSUME NEW s, Good(s), NEW n \in Notes, NEW verdict, NEW halted \in BOOLEAN, NEW limit \in BOOLEAN
    PROVE  Good(commentApproved(s, n, verdict, halted, limit))
<1>1. PICK h : h = clearCommentSublineHold(s, FALSE, limit)
  OBVIOUS
<1>2. GoodBut(h, {"comment_subline"})
  <2>1. GoodBut(s, {} \cup {"comment_subline"})
    BY GoodGrows
  <2>2. GoodBut(h, {} \cup {"comment_subline"})
    BY <1>1, <2>1, ClearGood
  <2>3. {} \cup {"comment_subline"} = {"comment_subline"}
    OBVIOUS
  <2> QED BY <2>2, <2>3
<1>3. h \in Dispatcher /\ n # Nobody
  BY <1>2, SessionAssumption DEF GoodBut
<1>4. ASSUME NEW x, GoodBut(x, {"comment_subline"}) PROVE Good(Skipped(Report(x, n, "failed"), limit))
  <2>1. GoodBut(Report(x, n, "failed"), {"comment_subline"})
    BY <1>4, ReportGood DEF Told
  <2> QED BY <2>1, SkippedGood
<1>5. PICK w \in Notes \cup {Nobody} : w = IF n \in Mandatory THEN n ELSE h.awaited
  BY <1>3 DEF Dispatcher
<1>6. ASSUME NEW p \in Notes \cup {Nobody}, NEW v \in Notes \cup {Nobody}, NEW t,
             t = [h EXCEPT !.pendingComment = p, !.awaited = v]
      PROVE  GoodBut(t, {"comment_subline"}) /\ t.pendingComment = p
  <2>1. t \in Dispatcher
    BY <1>3, <1>6 DEF Dispatcher
  <2> QED BY <1>2, <1>3, <1>6, <2>1 DEF Dispatcher, GoodBut, Owners, Watched, Resumes
<1>21. ASSUME NEW p \in Notes \cup {Nobody}, NEW v \in Notes \cup {Nobody}, NEW t,
              t = [h EXCEPT !.pendingMigration = p, !.awaited = v]
       PROVE  GoodBut(t, {"comment_subline"}) /\ t.pendingMigration = p
  <2>1. t \in Dispatcher
    BY <1>3, <1>21 DEF Dispatcher
  <2> QED BY <1>2, <1>3, <1>21, <2>1 DEF Dispatcher, GoodBut, Owners, Watched, Resumes
<1>7. PICK b : b = [h EXCEPT !.pendingComment = n, !.awaited = w]
  OBVIOUS
<1>8. PICK c : c = [h EXCEPT !.pendingMigration = n, !.awaited = w]
  OBVIOUS
<1>9. PICK x : x = [h EXCEPT !.pendingComment = Nobody, !.awaited = Nobody]
  OBVIOUS
<1>10. PICK y : y = [h EXCEPT !.pendingMigration = Nobody, !.awaited = Nobody]
  OBVIOUS
<1>11. /\ GoodBut(b, {"comment_subline"}) /\ b.pendingComment = n
       /\ GoodBut(c, {"comment_subline"}) /\ c.pendingMigration = n
       /\ GoodBut(x, {"comment_subline"}) /\ GoodBut(y, {"comment_subline"})
  BY <1>6, <1>7, <1>8, <1>9, <1>10, <1>21, Zenon
<1>12. Cmd("comment", n) \in Commands /\ Cmd("navigate", n) \in Commands
  BY CmdType
<1>13. Asks(b, Cmd("comment", n)) /\ Asks(c, Cmd("navigate", n))
  BY <1>3, <1>11 DEF Asks, Cmd
<1>14. Admits(b, Cmd("comment", n), halted) => Good(Send(b, Cmd("comment", n), halted))
  BY <1>11, <1>12, <1>13, SendAsks
<1>15. Admits(c, Cmd("navigate", n), halted) => Good(Send(c, Cmd("navigate", n), halted))
  BY <1>11, <1>12, <1>13, SendAsks
<1>16. /\ Good(Skipped(Report(h, n, "failed"), limit)) /\ Good(Skipped(Report(x, n, "failed"), limit))
       /\ Good(Skipped(Report(y, n, "failed"), limit))
  BY <1>2, <1>4, <1>11
<1>17. x = [[h EXCEPT !.pendingComment = Nobody] EXCEPT !.awaited = Nobody]
       /\ y = [[h EXCEPT !.pendingMigration = Nobody] EXCEPT !.awaited = Nobody]
  BY <1>9, <1>10
<1>18. CASE verdict = "risk"
  BY <1>1, <1>16, <1>18 DEF commentApproved
<1>19. CASE verdict = "comment"
  <2>1. commentApproved(s, n, verdict, halted, limit)
          = IF Admits(b, Cmd("comment", n), halted) THEN Send(b, Cmd("comment", n), halted)
            ELSE Skipped(Report(x, n, "failed"), limit)
    BY <1>1, <1>5, <1>7, <1>17, <1>19 DEF commentApproved
  <2> QED BY <1>14, <1>16, <2>1
<1>20. CASE verdict \notin {"risk", "comment"}
  <2>1. commentApproved(s, n, verdict, halted, limit)
          = IF Admits(c, Cmd("navigate", n), halted) THEN Send(c, Cmd("navigate", n), halted)
            ELSE Skipped(Report(y, n, "failed"), limit)
    BY <1>1, <1>5, <1>8, <1>17, <1>20 DEF commentApproved
  <2> QED BY <1>15, <1>16, <2>1
<1> QED BY <1>18, <1>19, <1>20

\* The patrol is over: the clock, the page and the lease are given back.
LEMMA BrowseGood ==
    ASSUME NEW s, GoodBut(s, {"stall"}), NEW limit \in BOOLEAN
    PROVE  Good(resumeBrowse(s, limit))
<1>1. s \in Dispatcher
  BY DEF GoodBut
<1>2. CASE ~s.excursion \/ ~s.active
  <2>1. Good(s)
    BY <1>2 DEF Good, GoodBut, Owners, Watched, Resumes
  <2> QED BY <1>2, <2>1 DEF resumeBrowse
<1>3. CASE s.excursion /\ s.active
  <2>1. PICK e : e = [s EXCEPT !.excursion = FALSE, !.suspended = FALSE, !.tries = 0, !.stalls = 0,
                               !.timers = @ \ {"stall"}]
    OBVIOUS
  <2>2. e \in Dispatcher
    BY <1>1, <2>1 DEF Dispatcher
  <2>3. GoodBut(e, {"lease"} \cup {"patrol"})
    BY <1>1, <1>3, <2>1, <2>2 DEF Dispatcher, GoodBut, Owners, Watched, Resumes
  <2>4. PICK q : q = resumeClock(e, "patrol", limit)
    OBVIOUS
  <2>5. GoodBut(q, {"lease"})
    BY <2>3, <2>4, ResumeClockGood DEF Pauses
  <2>6. q \in Dispatcher
    BY <2>5 DEF GoodBut
  <2>7. PICK r : r = [q EXCEPT !.ending = TRUE, !.queued = FALSE, !.lease = FALSE]
    OBVIOUS
  <2>8. r \in Dispatcher
    BY <2>6, <2>7 DEF Dispatcher
  <2>9. Good(r)
    BY <2>5, <2>6, <2>7, <2>8 DEF Dispatcher, Good, GoodBut, Owners, Watched, Resumes
  <2>10. Good(Send(r, Cmd("scroll", Nobody), FALSE))
    BY <2>9, CmdType, SendGood DEF Good
  <2>11. resumeBrowse(s, limit) = IF r.active THEN Send(r, Cmd("scroll", Nobody), FALSE) ELSE r
    BY <1>3, <2>1, <2>4, <2>7 DEF resumeBrowse, endNotificationTask
  <2> QED BY <2>9, <2>10, <2>11
<1> QED BY <1>2, <1>3

LEMMA ResumeBrowseGood ==
    ASSUME NEW s, Good(s), NEW limit \in BOOLEAN
    PROVE  Good(resumeBrowse(s, limit))
BY GoodGrows, BrowseGood

LEMMA TriageGood ==
    ASSUME NEW s, Good(s), NEW unread \in BOOLEAN, NEW limit \in BOOLEAN
    PROVE  Good(triage(s, unread, limit))
<1>1. s \in Dispatcher
  BY DEF Good, GoodBut
<1>2. PICK t : t = [s EXCEPT !.tries = @ + 1, !.timers = @ \cup {"stall"}]
  OBVIOUS
<1>3. t \in Dispatcher
  <2>1. s.tries + 1 \in Nat /\ s.timers \cup {"stall"} \in SUBSET Timers
    BY <1>1 DEF Dispatcher, Timers
  <2>2. PICK k \in Nat, w \in SUBSET Timers : k = s.tries + 1 /\ w = s.timers \cup {"stall"}
    BY <2>1
  <2>3. t = [s EXCEPT !.tries = k, !.timers = w]
    BY <1>2, <2>2
  <2> QED BY <1>1, <2>3 DEF Dispatcher
<1>4. Good(t)
  BY <1>1, <1>2, <1>3 DEF Dispatcher, Good, GoodBut, Owners, Watched, Resumes, Waits
<1>5. Good(SendPatrol(t, "category"))
  BY <1>4, SendPatrolGood DEF Good
<1> QED BY <1>2, <1>5, ResumeBrowseGood DEF triage

------------------------------------------------------------------------------
\* The edge's answers.
LEMMA RecoverGood ==
    ASSUME NEW s, Good(s), NEW viewOk \in BOOLEAN
    PROVE  Good(recoverViaRedrive(s, viewOk))
<1>1. s \in Dispatcher
  BY DEF Good, GoodBut
<1>2. PICK t : t = [s EXCEPT !.page = "feed"]
  OBVIOUS
<1>3. t \in Dispatcher
  BY <1>1, <1>2 DEF Dispatcher
<1>4. Good(t)
  BY <1>1, <1>2, <1>3, Same DEF Dispatcher, Good
<1>5. PICK r : r = redriveBrowse(t, viewOk)
  OBVIOUS
<1>6. Good(r) /\ r \in Dispatcher
  BY <1>4, <1>5, RedriveGood DEF Good, GoodBut
<1>7. PICK u : u = [r EXCEPT !.redrives = @ + 1]
  OBVIOUS
<1>8. u \in Dispatcher
  <2>1. r.redrives + 1 \in Nat
    BY <1>6 DEF Dispatcher
  <2>2. PICK k \in Nat : k = r.redrives + 1
    BY <2>1
  <2>3. u = [r EXCEPT !.redrives = k]
    BY <1>7, <2>2
  <2> QED BY <1>6, <2>3 DEF Dispatcher
<1>9. Good(u)
  BY <1>6, <1>7, <1>8, Same DEF Dispatcher, Good
<1>10. Good(endSession(s, TRUE))
  BY <1>1, EndGood
<1> QED BY <1>2, <1>5, <1>6, <1>7, <1>9, <1>10 DEF recoverViaRedrive

LEMMA PreemptedGood ==
    ASSUME NEW s, GoodBut(s, {"comment_subline"}), NEW c \in Commands, ~Asks(s, c) => Good(s), NEW limit \in BOOLEAN
    PROVE  Good(Preempted(s, c, limit))
<1>1. CASE c.a = "comment"
  <2>1. PICK r : r = IF s.pendingComment = Nobody THEN s ELSE Report(s, s.pendingComment, "unknown")
    OBVIOUS
  <2>2. GoodBut(r, {"comment_subline"})
    BY <2>1, ReportGood DEF Told
  <2>3. r \in Dispatcher
    BY <2>2 DEF GoodBut
  <2>4. PICK t : t = [r EXCEPT !.pendingComment = Nobody, !.awaited = Nobody]
    OBVIOUS
  <2>5. t \in Dispatcher
    BY <2>3, <2>4 DEF Dispatcher
  <2>6. GoodBut(t, {} \cup {"comment_subline"})
    BY <2>2, <2>3, <2>4, <2>5 DEF Dispatcher, Good, GoodBut, Owners, Watched, Resumes, Waits
  <2>7. Good(clearCommentSublineHold(t, TRUE, limit))
    BY <2>6, ClearGood DEF Good
  <2> QED BY <1>1, <2>1, <2>4, <2>7 DEF Preempted
<1>2. CASE c.a \in {"open", "navigate"}
  <2>1. PICK r : r = IF s.pendingMigration = Nobody THEN s ELSE Report(s, s.pendingMigration, "unknown")
    OBVIOUS
  <2>2. GoodBut(r, {"comment_subline"})
    BY <2>1, ReportGood DEF Told
  <2>3. r \in Dispatcher
    BY <2>2 DEF GoodBut
  <2>4. PICK t : t = [r EXCEPT !.pendingMigration = Nobody, !.awaited = Nobody]
    OBVIOUS
  <2>5. t \in Dispatcher
    BY <2>3, <2>4 DEF Dispatcher
  <2>6. GoodBut(t, {} \cup {"comment_subline"})
    BY <2>2, <2>3, <2>4, <2>5 DEF Dispatcher, Good, GoodBut, Owners, Watched, Resumes, Waits
  <2>7. Good(clearCommentSublineHold(t, TRUE, limit))
    BY <2>6, ClearGood DEF Good
  <2> QED BY <1>2, <2>1, <2>4, <2>7 DEF Preempted
<1>3. CASE c.a \notin {"comment", "open", "navigate"}
  BY <1>3 DEF Preempted, Asks
<1> QED BY <1>1, <1>2, <1>3

LEMMA MigrationGood ==
    ASSUME NEW s, GoodBut(s, {"comment_subline"}), s.pendingMigration # Nobody, NEW c \in Commands,
           NEW ok \in BOOLEAN, NEW limit \in BOOLEAN
    PROVE  Good(MigrationReceipt(s, c, ok, limit))
<1>1. s \in Dispatcher
  BY DEF GoodBut
<1>2. PICK n \in Notes : n = s.pendingMigration
  BY <1>1 DEF Dispatcher
<1>3. PICK s1 : s1 = [s EXCEPT !.pendingMigration = Nobody]
  OBVIOUS
<1>4. s1 \in Dispatcher
  BY <1>1, <1>3 DEF Dispatcher
<1>5. PICK landed : landed = [s1 EXCEPT !.pendingComment = n]
  OBVIOUS
<1>6. landed \in Dispatcher /\ n # Nobody /\ landed.pendingComment = n
  BY <1>2, <1>4, <1>5, SessionAssumption DEF Dispatcher
<1>7. GoodBut(landed, {"comment_subline"})
  BY <1>1, <1>3, <1>5, <1>6 DEF Dispatcher, GoodBut, Owners, Watched, Resumes
<1>8. Admits(landed, Cmd("comment", n), FALSE) => Good(Send(landed, Cmd("comment", n), FALSE))
  <2>1. Cmd("comment", n) \in Commands /\ Asks(landed, Cmd("comment", n))
    BY <1>6, CmdType DEF Asks, Cmd
  <2> QED BY <1>7, <2>1, SendAsks
<1>9. PICK t : t = [s1 EXCEPT !.awaited = Nobody]
  OBVIOUS
<1>10. t \in Dispatcher
  BY <1>4, <1>9 DEF Dispatcher
<1>11. GoodBut(t, {"comment_subline"})
  BY <1>1, <1>3, <1>4, <1>9, <1>10 DEF Dispatcher, GoodBut, Owners, Watched, Resumes, Waits
<1>12. Good(Done(Report(t, n, "failed"), limit))
  <2>1. GoodBut(Report(t, n, "failed"), {"comment_subline"})
    BY <1>11, ReportGood DEF Told
  <2> QED BY <2>1, DoneGood
<1> QED BY <1>2, <1>3, <1>5, <1>8, <1>9, <1>12 DEF MigrationReceipt

\* A pending comment that is settled, with its timer or without.
LEMMA PendingSettled ==
    ASSUME NEW s, GoodBut(s, {"comment_subline"}), NEW n, NEW o \in Told, NEW limit \in BOOLEAN, NEW t,
           \/ t = [s EXCEPT !.pendingComment = Nobody, !.awaited = Nobody]
           \/ t = [s EXCEPT !.pendingComment = Nobody, !.pendingMigration = Nobody]
    PROVE  Good(Done(Report(t, n, o), limit))
<1>1. s \in Dispatcher
  BY DEF GoodBut
<1>2. CASE t = [s EXCEPT !.pendingComment = Nobody, !.awaited = Nobody]
  <2>1. t \in Dispatcher
    BY <1>1, <1>2 DEF Dispatcher
  <2>2. GoodBut(t, {"comment_subline"})
    BY <1>1, <1>2, <2>1 DEF Dispatcher, GoodBut, Owners, Watched, Resumes, Waits
  <2> QED BY <2>2, ReportGood, DoneGood
<1>3. CASE t = [s EXCEPT !.pendingComment = Nobody, !.pendingMigration = Nobody]
  <2>1. t \in Dispatcher
    BY <1>1, <1>3 DEF Dispatcher
  <2>2. GoodBut(t, {"comment_subline"})
    BY <1>1, <1>3, <2>1 DEF Dispatcher, GoodBut, Owners, Watched, Resumes, Waits
  <2> QED BY <2>2, ReportGood, DoneGood
<1> QED BY <1>2, <1>3

LEMMA CommentGood ==
    ASSUME NEW s, GoodBut(s, {"comment_subline"}), NEW result, NEW limit \in BOOLEAN
    PROVE  Good(CommentReceipt(s, result, limit))
<1>1. PICK o \in Told :
         o = CASE result = "ok" -> "confirmed" [] result = "ambiguous" -> "unknown" [] OTHER -> "failed"
  <2>1. CASE result = "ok"
    BY <2>1 DEF Told
  <2>2. CASE result = "ambiguous"
    BY <2>2 DEF Told
  <2>3. CASE result \notin {"ok", "ambiguous"}
    BY <2>3 DEF Told
  <2> QED BY <2>1, <2>2, <2>3
<1>2. PICK n : n = s.pendingComment
  OBVIOUS
<1>3. PICK t : t = [s EXCEPT !.pendingComment = Nobody, !.awaited = Nobody]
  OBVIOUS
<1>4. Good(Done(Report(t, n, o), limit))
  BY <1>3, PendingSettled, Zenon
<1> QED BY <1>1, <1>2, <1>3, <1>4 DEF CommentReceipt

LEMMA PatrolReceiptGood ==
    ASSUME NEW s, Good(s), NEW ok \in BOOLEAN, NEW limit \in BOOLEAN
    PROVE  Good(PatrolReceipt(s, ok, limit))
BY ResumeBrowseGood DEF PatrolReceipt

EdgeResults == {"ok", "failed", "ambiguous", "mismatch", "preempted"}

LEMMA CompletedGood ==
    ASSUME NEW s, GoodBut(s, {"comment_subline"}), NEW c \in Commands, ~Asks(s, c) => Good(s),
           NEW result \in EdgeResults, NEW viewOk \in BOOLEAN, NEW limit \in BOOLEAN
    PROVE  Good(actionCompleted(s, c, result, viewOk, limit))
<1>1. PICK m : m = checkSession(s, limit)
  OBVIOUS
<1>2. GoodBut(m, {"comment_subline"}) /\ (~Asks(m, c) => Good(m)) /\ (~m.active => Good(m))
  <2>1. GoodBut(m, {"comment_subline"}) /\ (Good(s) => Good(m))
    BY <1>1, CheckGood DEF Good
  <2>2. ~m.active => Good(m)
    BY <2>1, EndedGood
  <2>3. m = s \/ Good(m)
    BY <1>1, EndGood DEF checkSession, GoodBut
  <2> QED BY <2>1, <2>2, <2>3
<1>3. m \in Dispatcher
  BY <1>2 DEF GoodBut
<1>4. PICK ok \in BOOLEAN : ok = (result = "ok")
  OBVIOUS
<1>5. PICK r : r = IF result = "ok" THEN [m EXCEPT !.redrives = 0] ELSE m
  OBVIOUS
<1>6. r \in Dispatcher /\ r.pendingComment = m.pendingComment /\ r.pendingMigration = m.pendingMigration
  <2>1. PICK t : t = [m EXCEPT !.redrives = 0]
    OBVIOUS
  <2>2. t \in Dispatcher /\ t.pendingComment = m.pendingComment /\ t.pendingMigration = m.pendingMigration
    BY <1>3, <2>1 DEF Dispatcher
  <2> QED BY <1>3, <1>5, <2>1, <2>2
<1>7. GoodBut(r, {"comment_subline"}) /\ (~Asks(r, c) => Good(r))
  <2>1. CASE result = "ok"
    <3>1. /\ r.up = m.up /\ r.browser = m.browser /\ r.active = m.active /\ r.parked = m.parked
          /\ r.timers = m.timers /\ r.pauses = m.pauses /\ r.sleeping = m.sleeping /\ r.inflight = m.inflight
          /\ r.out = m.out /\ r.awaited = m.awaited /\ r.adrift = m.adrift
          /\ r.excursion = m.excursion /\ r.suspended = m.suspended /\ r.lease = m.lease
          /\ r.acquiring = m.acquiring /\ r.ending = m.ending
      BY <1>3, <1>5, <2>1 DEF Dispatcher
    <3>2. GoodBut(r, {"comment_subline"}) /\ (Good(m) => Good(r))
      BY <1>2, <1>6, <3>1, Same DEF Good
    <3> QED BY <1>2, <1>6, <3>2 DEF Asks
  <2> QED BY <1>2, <1>5, <2>1
<1>8. CASE ~m.active
  BY <1>1, <1>2, <1>8 DEF actionCompleted
<1>9. CASE m.active /\ result = "preempted"
  <2>1. isQuotaSleepBypass(c) => Good(resumeBrowse(m, limit)) /\ GoodBut(resumeBrowse(m, limit), {"comment_subline"})
    BY <1>2, ResumeBrowseGood, GoodGrows DEF Asks, isQuotaSleepBypass
  <2>2. Good(Preempted(IF isQuotaSleepBypass(c) THEN resumeBrowse(m, limit) ELSE m, c, limit))
    BY <1>2, <2>1, PreemptedGood
  <2>3. actionCompleted(s, c, result, viewOk, limit)
          = Preempted(IF isQuotaSleepBypass(c) THEN resumeBrowse(m, limit) ELSE m, c, limit)
    BY <1>1, <1>9 DEF actionCompleted
  <2> QED BY <2>2, <2>3
<1>10. CASE m.active /\ result # "preempted" /\ isQuotaSleepBypass(c)
  <2>1. PICK p : p = PatrolReceipt(r, ok, limit)
    OBVIOUS
  <2>2. Good(p) /\ Good(recoverViaRedrive(p, viewOk))
    BY <1>7, <1>10, <2>1, PatrolReceiptGood, RecoverGood DEF Asks, isQuotaSleepBypass
  <2>3. actionCompleted(s, c, result, viewOk, limit) = p
        \/ actionCompleted(s, c, result, viewOk, limit) = recoverViaRedrive(p, viewOk)
    BY <1>1, <1>4, <1>5, <1>10, <2>1 DEF actionCompleted, isQuotaSleepBypass
  <2> QED BY <2>2, <2>3
<1>11. CASE m.active /\ result # "preempted" /\ c.a \in {"open", "navigate"} /\ r.pendingMigration # Nobody
  <2>1. Good(MigrationReceipt(r, c, ok, limit))
    BY <1>7, <1>11, MigrationGood
  <2>2. actionCompleted(s, c, result, viewOk, limit) = MigrationReceipt(r, c, ok, limit)
    BY <1>1, <1>4, <1>5, <1>11 DEF actionCompleted, isQuotaSleepBypass
  <2> QED BY <2>1, <2>2
<1>12. CASE m.active /\ result # "preempted" /\ c.a = "comment"
  <2>1. Good(CommentReceipt(r, result, limit))
    BY <1>7, CommentGood
  <2>2. actionCompleted(s, c, result, viewOk, limit)
          = IF r.pendingComment = Nobody THEN r ELSE CommentReceipt(r, result, limit)
    BY <1>1, <1>5, <1>12 DEF actionCompleted, isQuotaSleepBypass
  <2> QED BY <1>7, <1>12, <2>1, <2>2 DEF Asks
<1>13. CASE m.active /\ result # "preempted" /\ ~isQuotaSleepBypass(c) /\ c.a # "comment"
            /\ ~(c.a \in {"open", "navigate"} /\ r.pendingMigration # Nobody)
  <2>1. Good(r) /\ Good(recoverViaRedrive(r, viewOk))
    BY <1>7, <1>13, RecoverGood DEF Asks
  <2>2. actionCompleted(s, c, result, viewOk, limit) = r
        \/ actionCompleted(s, c, result, viewOk, limit) = recoverViaRedrive(r, viewOk)
    BY <1>1, <1>5, <1>13 DEF actionCompleted
  <2> QED BY <2>1, <2>2
<1> QED BY <1>8, <1>9, <1>10, <1>11, <1>12, <1>13

------------------------------------------------------------------------------
\* The invariant, between two handlers.
Settled == Good(disp)

LEMMA BecomesSettled ==
    ASSUME NEW s, Good(s), Becomes(s)
    PROVE  Settled'
BY DEF Becomes, Settled, Good, GoodBut, Owners, Watched, Resumes, Dispatcher, DeliveryEnds, AnswerDue, Pending

\* A handler's timer has gone off.
LEMMA FiredIdle ==
    ASSUME NEW t \in Waits, Settled
    PROVE  Resting(Fired(t)) \/ (Fired(t).active /\ Good(Fired(t)))
<1>1. disp \in Dispatcher
  BY DEF Settled, Good, GoodBut
<1>2. PICK s : s = [disp EXCEPT !.timers = @ \ {t}]
  OBVIOUS
<1>3. s \in Dispatcher
  BY <1>1, <1>2 DEF Dispatcher
<1>4. CASE disp.active
  <2>2. t \notin {"view", "subline", "stall"} /\ s.timers = disp.timers \ {t}
    BY <1>1, <1>2 DEF Waits, Dispatcher
  <2>3. \A w \in {"view", "subline", "stall"} : w \in disp.timers => w \in s.timers
    BY <2>2
  <2>4. s = [disp EXCEPT !.timers = s.timers] /\ disp.parked = "running"
    BY <1>1, <1>2, <1>4 DEF Dispatcher, Settled, Good, GoodBut, Resumes
  <2>5. /\ s.timers = disp.timers \ {t} /\ s.up = disp.up /\ s.browser = disp.browser /\ s.active = disp.active
        /\ s.parked = disp.parked /\ s.pauses = disp.pauses /\ s.sleeping = disp.sleeping
        /\ s.inflight = disp.inflight /\ s.pendingComment = disp.pendingComment
        /\ s.pendingMigration = disp.pendingMigration /\ s.out = disp.out
        /\ s.awaited = disp.awaited /\ s.adrift = disp.adrift /\ s.excursion = disp.excursion
        /\ s.suspended = disp.suspended /\ s.lease = disp.lease /\ s.acquiring = disp.acquiring
        /\ s.ending = disp.ending
    BY <1>1, <1>2 DEF Dispatcher
  <2>1. s.active /\ Good(s)
    BY <1>3, <1>4, <2>3, <2>5 DEF Settled, Good, GoodBut, Owners, Watched, Resumes
  <2> QED BY <1>2, <2>1 DEF Fired
<1>5. CASE ~disp.active
  <2>1. Resting(s)
    BY <1>1, <1>2, <1>3, <1>5 DEF Dispatcher, Settled, Good, GoodBut, Watched, Resumes, Resting
  <2> QED BY <1>2, <2>1 DEF Fired
<1> QED BY <1>4, <1>5

LEMMA Idles == ASSUME Settled PROVE Resting(disp) \/ (disp.active /\ Good(disp))
BY GoodIdle DEF Settled

LEMMA GateType ==
    ASSUME NEW g \in Gates
    PROVE  g.v \in Verdicts /\ g.week \in BOOLEAN /\ g.view \in BOOLEAN /\ g.capped \in BOOLEAN
BY DEF Gates

LEMMA HelloStep ==
    ASSUME Settled, NEW b \in {"absent", "present"}, NEW g \in Gates, onHelloEvent(b, g) \/ onBrowserStatus(b, g)
    PROVE  Settled'
<1>1. disp \in Dispatcher
  BY DEF Settled, Good, GoodBut
<1>2. CASE onHelloEvent(b, g)
  <2>1. PICK s : s = [disp EXCEPT !.up = TRUE, !.browser = b]
    OBVIOUS
  <2>2. s \in Dispatcher
    BY <1>1, <2>1 DEF Dispatcher
  <2>3. Resting(s) \/ (s.active /\ Good(s))
    BY <1>1, <2>1, <2>2 DEF Dispatcher, Settled, Good, GoodBut, Owners, Watched, Resumes, Resting
  <2>4. b = "absent" => Good(s)
    BY <1>1, <2>1, <2>2 DEF Dispatcher, Settled, Good, GoodBut, Owners, Watched, Resumes
  <2>5. Good(tryStartSession(s, g.v, g.week, g.view))
    BY <2>3, StartGood, GateType
  <2>6. Becomes(IF b = "absent" THEN s ELSE tryStartSession(s, g.v, g.week, g.view))
    BY <1>2, <2>1 DEF onHelloEvent, Asked
  <2>7. Good(IF b = "absent" THEN s ELSE tryStartSession(s, g.v, g.week, g.view))
    BY <2>4, <2>5
  <2> QED BY <2>6, <2>7, BecomesSettled
<1>3. CASE onBrowserStatus(b, g)
  <2>1. PICK s : s = [disp EXCEPT !.browser = b]
    OBVIOUS
  <2>2. s \in Dispatcher
    BY <1>1, <2>1 DEF Dispatcher
  <2>7. /\ s.browser = b /\ s.up = disp.up /\ s.active = disp.active /\ s.parked = disp.parked
        /\ s.timers = disp.timers /\ s.pauses = disp.pauses /\ s.sleeping = disp.sleeping
        /\ s.inflight = disp.inflight /\ s.pendingComment = disp.pendingComment
        /\ s.pendingMigration = disp.pendingMigration /\ s.out = disp.out
        /\ s.awaited = disp.awaited /\ s.adrift = disp.adrift /\ s.excursion = disp.excursion
        /\ s.suspended = disp.suspended /\ s.lease = disp.lease /\ s.acquiring = disp.acquiring
        /\ s.ending = disp.ending
    BY <1>1, <2>1 DEF Dispatcher
  <2>3. Resting(s) \/ (s.active /\ Good(s))
    BY <2>2, <2>7 DEF Settled, Good, GoodBut, Owners, Watched, Resumes, Resting
  <2>4. Good(endSession(s, FALSE)) /\ Good(tryStartSession(s, g.v, g.week, g.view))
    BY <2>2, <2>3, EndGood, StartGood, GateType
  <2>5. Becomes(IF b = "absent" THEN endSession(s, FALSE) ELSE tryStartSession(s, g.v, g.week, g.view))
    BY <1>3, <2>1 DEF onBrowserStatus, Asked
  <2>6. Good(IF b = "absent" THEN endSession(s, FALSE) ELSE tryStartSession(s, g.v, g.week, g.view))
    BY <2>4
  <2> QED BY <2>5, <2>6, BecomesSettled
<1> QED BY <1>2, <1>3

LEMMA TeardownStep == ASSUME Settled, Teardown PROVE Settled'
<1>1. disp \in Dispatcher
  BY DEF Settled, Good, GoodBut
<1>2. endSession(disp, FALSE) \in Dispatcher
  BY <1>1, EndGood DEF Good, GoodBut
<1>3. PICK f \in [Notes -> Told] : f = endSession(disp, FALSE).outcome
  BY <1>2 DEF Dispatcher
<1>4. Fresh \in Dispatcher
  <2>1. {} \in SUBSET Timers /\ {} \in SUBSET Pauses /\ {} \in SUBSET (Notes \cup {Nobody}) /\ 0 \in Nat
    OBVIOUS
  <2>2. [n \in Notes |-> "none"] \in [Notes -> Told] /\ "stopped" \in Parkings
    BY DEF Told, Parkings
  <2>3. <<>> \in Seq(Commands)
    OBVIOUS
  <2>4. PICK h \in [Notes -> Told] : h = [n \in Notes |-> "none"]
    BY <2>2
  <2>5. PICK q \in Seq(Commands) : q = <<>>
    BY <2>3
  <2> QED BY <2>1, <2>2, <2>4, <2>5 DEF Fresh, Dispatcher
<1>5. PICK t : t = [Fresh EXCEPT !.outcome = f]
  OBVIOUS
<1>6. t \in Dispatcher
  BY <1>4, <1>5 DEF Dispatcher
<1>7. t.active = FALSE /\ t.pauses = {} /\ t.timers = {} /\ t.lease = FALSE /\ t.acquiring = FALSE
      /\ t.inflight = Nobody /\ t.up = FALSE
  BY <1>4, <1>5 DEF Dispatcher, Fresh
<1>8. Good(t)
  BY <1>6, <1>7 DEF Good, GoodBut, Owners, Watched, Resumes
<1>9. Becomes(t)
  BY <1>3, <1>5 DEF Teardown, Becomes
<1> QED BY <1>8, <1>9, BecomesSettled

LEMMA StartStep ==
    ASSUME Settled, NEW g \in Gates,
           Operator(g) \/ onRestElapsed(g) \/ onWakeElapsed(g)
    PROVE  Settled'
<1>0. disp \in Dispatcher /\ (Resting(disp) \/ (disp.active /\ Good(disp)))
  BY Idles DEF Settled, Good, GoodBut
<1>1. CASE Operator(g)
  <2>1. Good(endSession(disp, FALSE))
    BY <1>0, EndGood
  <2>2. Good(tryStartSession(disp, g.v, g.week, g.view))
    BY <1>0, StartGood, GateType
  <2>3. Good(startOnPersonaBound(disp, g.v, g.week, g.view))
    BY <1>0, BoundGood, GateType
  <2>4. Good(doAutoResume(disp, g.v, g.week, g.capped, g.view))
    BY <1>0, AutoResumeGood, GateType
  <2> QED BY <1>1, <2>1, <2>2, <2>3, <2>4, BecomesSettled DEF Operator, Asked
<1>2. CASE onRestElapsed(g)
  <2>1. Good(doAutoResume(Fired("rest"), g.v, g.week, g.capped, g.view))
    BY FiredIdle, AutoResumeGood, GateType DEF Waits
  <2> QED BY <1>2, <2>1, BecomesSettled DEF onRestElapsed, Started
<1>3. CASE onWakeElapsed(g)
  <2>1. Good(doAutoResume(Fired("wake"), g.v, g.week, g.capped, g.view))
    BY FiredIdle, AutoResumeGood, GateType DEF Waits
  <2> QED BY <1>3, <2>1, BecomesSettled DEF onWakeElapsed, Started
<1> QED BY <1>1, <1>2, <1>3

LEMMA RecheckStep == ASSUME Settled, NEW g \in Gates, onStartGateRecheckElapsed(g) PROVE Settled'
<1>1. PICK s : s = Fired("gate")
  OBVIOUS
<1>2. Resting(s) \/ (s.active /\ Good(s))
  BY <1>1, FiredIdle DEF Waits
<1>3. disp \in Dispatcher /\ s \in Dispatcher /\ s.active = disp.active
  <2>1. disp \in Dispatcher
    BY DEF Settled, Good, GoodBut
  <2>2. s \in Dispatcher
    BY <1>2 DEF Resting, Good, GoodBut
  <2>3. s.active = disp.active
    BY <1>1, <2>1 DEF Fired, Dispatcher
  <2> QED BY <2>1, <2>2, <2>3
<1>4. PICK r : r = [s EXCEPT !.timers = @ \cup {"gate"}, !.parked = "resume"]
  OBVIOUS
<1>5. r \in Dispatcher
  BY <1>3, <1>4 DEF Dispatcher, Timers, Waits, Parkings
<1>12. /\ r.timers = s.timers \cup {"gate"} /\ r.parked = "resume" /\ r.up = s.up /\ r.browser = s.browser
       /\ r.active = s.active /\ r.pauses = s.pauses /\ r.sleeping = s.sleeping /\ r.inflight = s.inflight
       /\ r.pendingComment = s.pendingComment /\ r.pendingMigration = s.pendingMigration /\ r.out = s.out
       /\ r.awaited = s.awaited /\ r.adrift = s.adrift /\ r.excursion = s.excursion
       /\ r.suspended = s.suspended /\ r.lease = s.lease /\ r.acquiring = s.acquiring /\ r.ending = s.ending
  BY <1>3, <1>4 DEF Dispatcher
<1>6. ~s.active => Good(r)
  BY <1>2, <1>5, <1>12 DEF Resting, Good, GoodBut, Owners, Watched, Resumes, Waits
<1>7. Good(startOnPersonaBound(s, g.v, g.week, g.view))
  BY <1>2, BoundGood, GateType
<1>8. ~s.active => Good(canStartSession(s, "structural"))
  BY <1>2, RefusedGood
<1>9. PICK z : z = CASE disp.active -> s
                     [] g.v = "structural" /\ ~disp.active -> canStartSession(s, "structural")
                     [] g.v = "recoverable" /\ ~disp.active -> r
                     [] g.v = "ok" /\ ~disp.active /\ (disp.browser = "absent" \/ ~g.week) -> r
                     [] OTHER -> startOnPersonaBound(s, g.v, g.week, g.view)
  OBVIOUS
<1>10. Becomes(z)
  BY <1>1, <1>4, <1>9 DEF onStartGateRecheckElapsed, Started
<1>11. Good(z)
  <2>1. CASE disp.active
    BY <1>2, <1>3, <1>9, <2>1 DEF Resting
  <2>2. CASE g.v = "structural" /\ ~disp.active
    BY <1>3, <1>8, <1>9, <2>2
  <2>3. CASE g.v = "recoverable" /\ ~disp.active
    BY <1>3, <1>6, <1>9, <2>3
  <2>4. CASE g.v = "ok" /\ ~disp.active /\ (disp.browser = "absent" \/ ~g.week)
    BY <1>3, <1>6, <1>9, <2>4
  <2>5. CASE g.v = "ok" /\ ~disp.active /\ ~(disp.browser = "absent" \/ ~g.week)
    BY <1>7, <1>9, <2>5
  <2> QED BY <2>1, <2>2, <2>3, <2>4, <2>5, GateType DEF Verdicts
<1> QED BY <1>10, <1>11, BecomesSettled

LEMMA QuotaStep ==
    ASSUME Settled, NEW viewOk \in BOOLEAN, NEW limit \in BOOLEAN, onViewQuotaSleepElapsed(viewOk, limit)
    PROVE  Settled'
<1>1. disp \in Dispatcher
  BY DEF Settled, Good, GoodBut
<1>2. PICK f : f = [disp EXCEPT !.timers = @ \ {"view"}]
  OBVIOUS
<1>3. PICK s : s = [f EXCEPT !.sleeping = FALSE]
  OBVIOUS
<1>4. f \in Dispatcher
  BY <1>1, <1>2 DEF Dispatcher
<1>5. s \in Dispatcher
  BY <1>3, <1>4 DEF Dispatcher
<1>6. "view" \in disp.timers
  BY DEF onViewQuotaSleepElapsed, Fires
<1>7. GoodBut(s, {} \cup {"view_quota"}) /\ s.active /\ ~s.sleeping
  BY <1>1, <1>2, <1>3, <1>4, <1>5, <1>6
     DEF Dispatcher, Settled, Good, GoodBut, Owners, Watched, Resumes, Waits
<1>8. Good(sleepForViewQuota(s))
  BY <1>7, SleepAgain DEF Good
<1>9. PICK r : r = resumeClock(s, "view_quota", limit)
  OBVIOUS
<1>10. Good(r)
  BY <1>7, <1>9, ResumeClockGood DEF Good, Pauses
<1>11. Good(IF r.active THEN sendScrollCommand(r, TRUE) ELSE r)
  BY <1>10, ScrollGood DEF Good
<1>12. Becomes(IF ~viewOk THEN sleepForViewQuota(s) ELSE IF r.active THEN sendScrollCommand(r, TRUE) ELSE r)
  BY <1>2, <1>3, <1>9 DEF onViewQuotaSleepElapsed, Started, Fired
<1>13. Good(IF ~viewOk THEN sleepForViewQuota(s) ELSE IF r.active THEN sendScrollCommand(r, TRUE) ELSE r)
  BY <1>8, <1>11
<1> QED BY <1>12, <1>13, BecomesSettled

LEMMA IdleStep == ASSUME Settled, NEW viewOk \in BOOLEAN, checkIdle(viewOk) PROVE Settled'
<1>1. Good(endSession(disp, TRUE))
  BY EndGood DEF Settled, Good, GoodBut
<1>2. disp.active => Good(sendScrollCommand(disp, viewOk))
  BY ScrollGood DEF Settled, Good
<1> QED BY <1>1, <1>2, BecomesSettled DEF checkIdle, Started

LEMMA RoleStep ==
    ASSUME Settled, NEW n \in Notes, NEW limit \in BOOLEAN,
           \/ onInteractionCompleted(n, limit) \/ CommentAppraiser(n, limit) \/ CommentComposer(n, limit)
           \/ CommentDeAiFlavor(n, limit) \/ CommentApprovalGate(n, limit)
    PROVE  Settled'
<1>1. Good(disp) /\ Good(Skipped(disp, limit))
  BY GoodGrows, SkippedGood DEF Settled
<1>2. disp.active => Good(enterCommentSubline(disp, n))
  BY <1>1, EnterGood
<1>3. \A verdict : \A halted \in BOOLEAN : Good(commentApproved(disp, n, verdict, halted, limit))
  BY <1>1, ApprovedGood
<1>4. CASE onInteractionCompleted(n, limit)
  BY <1>1, <1>2, <1>4, BecomesSettled DEF onInteractionCompleted, Stage
<1>5. CASE CommentAppraiser(n, limit)
  BY <1>1, <1>2, <1>5, BecomesSettled DEF CommentAppraiser, RoleAnswers, Stage
<1>6. CASE CommentComposer(n, limit) \/ CommentDeAiFlavor(n, limit)
  BY <1>1, <1>6, BecomesSettled DEF CommentComposer, CommentDeAiFlavor, RoleAnswers, Stage
<1>7. CASE CommentApprovalGate(n, limit)
  BY <1>1, <1>3, <1>7, BecomesSettled DEF CommentApprovalGate, Stage
<1> QED BY <1>4, <1>5, <1>6, <1>7

LEMMA ExpireStep ==
    ASSUME Settled, NEW limit \in BOOLEAN, expireCommentSubline(limit) \/ OutcomeTimeout(limit)
    PROVE  Settled'
<1>1. Good(disp) /\ disp \in Dispatcher
  BY DEF Settled, Good, GoodBut
<1>2. CASE expireCommentSubline(limit)
  <2>1. PICK s : s = [disp EXCEPT !.expired = @ \cup {disp.inflight}, !.inflight = Nobody,
                                  !.timers = @ \ {"subline"}]
    OBVIOUS
  <2>2. s \in Dispatcher
    BY <1>1, <2>1 DEF Dispatcher
  <2>3. GoodBut(s, {} \cup {"comment_subline"})
    BY <1>1, <2>1, <2>2 DEF Dispatcher, Good, GoodBut, Owners, Watched, Resumes, Waits
  <2>4. Good(resumeClock(s, "comment_subline", limit))
    BY <2>3, ResumeClockGood DEF Good, Pauses
  <2>5. Good(Skipped(resumeClock(s, "comment_subline", limit), limit))
    BY <2>4, GoodGrows, SkippedGood
  <2> QED BY <1>2, <2>1, <2>5, BecomesSettled DEF expireCommentSubline, Started
<1>3. CASE OutcomeTimeout(limit)
  <2>1. PICK n : n = disp.awaited
    OBVIOUS
  <2>2. PICK s : s = [disp EXCEPT !.awaited = Nobody]
    OBVIOUS
  <2>3. s \in Dispatcher /\ s.pendingComment = disp.pendingComment /\ s.pendingMigration = disp.pendingMigration
    BY <1>1, <2>2 DEF Dispatcher
  <2>4. GoodBut(s, {"comment_subline"})
    BY <1>1, <2>2, <2>3 DEF Dispatcher, Good, GoodBut, Owners, Watched, Resumes, Waits
  <2>5. Pending(s.pendingComment, s.pendingMigration) # n => Good(s)
    <3>1. SUFFICES ASSUME Pending(s.pendingComment, s.pendingMigration) # n PROVE Good(s)
      OBVIOUS
    <3>2. /\ s.up = disp.up /\ s.browser = disp.browser /\ s.active = disp.active /\ s.parked = disp.parked
          /\ s.timers = disp.timers /\ s.pauses = disp.pauses /\ s.sleeping = disp.sleeping
          /\ s.inflight = disp.inflight /\ s.out = disp.out /\ s.adrift = disp.adrift
          /\ s.excursion = disp.excursion /\ s.suspended = disp.suspended /\ s.lease = disp.lease
          /\ s.acquiring = disp.acquiring /\ s.ending = disp.ending
      BY <1>1, <2>2 DEF Dispatcher
    <3>3. DeliveryEnds(disp.out, disp.pendingComment, disp.pendingMigration, disp.awaited, disp.adrift)
            => DeliveryEnds(s.out, s.pendingComment, s.pendingMigration, s.awaited, s.adrift)
      BY <2>1, <2>3, <3>1, <3>2 DEF DeliveryEnds
    <3> QED BY <1>1, <2>3, <3>2, <3>3 DEF Good, GoodBut, Owners, Watched, Resumes
  <2>6. PICK t : t = [s EXCEPT !.pendingComment = Nobody, !.pendingMigration = Nobody]
    OBVIOUS
  <2>9. "unknown" \in Told
    BY DEF Told
  <2>7. Good(Done(Report(t, n, "unknown"), limit))
    BY <2>4, <2>6, <2>9, PendingSettled, Zenon
  <2>8. Becomes(IF Pending(s.pendingComment, s.pendingMigration) # n THEN s
                ELSE Done(Report(t, n, "unknown"), limit))
    BY <1>3, <2>1, <2>2, <2>6 DEF OutcomeTimeout, Started
  <2> QED BY <2>5, <2>7, <2>8, BecomesSettled
<1> QED BY <1>2, <1>3

LEMMA LeaseStep ==
    ASSUME Settled, NEW viewOk \in BOOLEAN, NEW limit \in BOOLEAN, LeaseGranted \/ LeaseRefused(viewOk, limit)
    PROVE  Settled'
<1>1. Good(disp) /\ disp \in Dispatcher
  BY DEF Settled, Good, GoodBut
<1>2. CASE LeaseGranted /\ disp.ending
  <2>1. PICK s : s = [disp EXCEPT !.acquiring = FALSE]
    OBVIOUS
  <2>2. s \in Dispatcher
    BY <1>1, <2>1 DEF Dispatcher
  <2>4. /\ s.acquiring = FALSE
        /\ s.up = disp.up /\ s.browser = disp.browser /\ s.active = disp.active /\ s.parked = disp.parked
        /\ s.timers = disp.timers /\ s.pauses = disp.pauses /\ s.sleeping = disp.sleeping
        /\ s.inflight = disp.inflight /\ s.pendingComment = disp.pendingComment
        /\ s.pendingMigration = disp.pendingMigration /\ s.out = disp.out
        /\ s.awaited = disp.awaited /\ s.adrift = disp.adrift /\ s.excursion = disp.excursion
        /\ s.suspended = disp.suspended /\ s.lease = disp.lease /\ s.ending = disp.ending
    BY <1>1, <2>1, <2>2 DEF Dispatcher
  <2>3. Good(s)
    BY <1>1, <2>2, <2>4 DEF Good, GoodBut, Owners, Watched, Resumes
  <2> QED BY <1>2, <2>1, <2>3, BecomesSettled DEF LeaseGranted, Started
<1>3. CASE LeaseGranted /\ ~disp.ending
  <2>1. PICK s : s = [disp EXCEPT !.acquiring = FALSE, !.lease = TRUE, !.queued = FALSE]
    OBVIOUS
  <2>2. s \in Dispatcher
    BY <1>1, <2>1 DEF Dispatcher
  <2>3. disp.acquiring
    BY <1>3 DEF LeaseGranted
  <2>4. Good(s)
    BY <1>1, <1>3, <2>1, <2>2, <2>3 DEF Dispatcher, Good, GoodBut, Owners, Watched, Resumes
  <2>5. Good([s EXCEPT !.out = Append(@, Cmd("notices", Nobody))])
    BY <2>4, CmdType, Appended DEF Good
  <2>6. [disp EXCEPT !.acquiring = FALSE, !.lease = TRUE, !.queued = FALSE,
                     !.out = IF disp.queued THEN Append(@, Cmd("notices", Nobody)) ELSE @]
          = IF disp.queued THEN [s EXCEPT !.out = Append(@, Cmd("notices", Nobody))] ELSE s
    BY <1>1, <2>1 DEF Dispatcher
  <2> QED BY <1>3, <2>4, <2>5, <2>6, BecomesSettled DEF LeaseGranted, Started
<1>4. CASE LeaseRefused(viewOk, limit)
  <2>1. PICK s : s = [disp EXCEPT !.acquiring = FALSE, !.queued = FALSE]
    OBVIOUS
  <2>2. s \in Dispatcher
    BY <1>1, <2>1 DEF Dispatcher
  <2>4. /\ s.acquiring = FALSE
        /\ s.up = disp.up /\ s.browser = disp.browser /\ s.active = disp.active /\ s.parked = disp.parked
        /\ s.timers = disp.timers /\ s.pauses = disp.pauses /\ s.sleeping = disp.sleeping
        /\ s.inflight = disp.inflight /\ s.pendingComment = disp.pendingComment
        /\ s.pendingMigration = disp.pendingMigration /\ s.out = disp.out
        /\ s.awaited = disp.awaited /\ s.adrift = disp.adrift /\ s.excursion = disp.excursion
        /\ s.suspended = disp.suspended /\ s.lease = disp.lease /\ s.ending = disp.ending
    BY <1>1, <2>1, <2>2 DEF Dispatcher
  <2>3. Good(s)
    BY <1>1, <2>2, <2>4 DEF Good, GoodBut, Owners, Watched, Resumes
  <2>5. Good(actionCompleted(s, Cmd("notices", Nobody), "failed", viewOk, limit))
    BY <2>3, CmdType, GoodGrows, CompletedGood DEF EdgeResults
  <2>6. Becomes(IF s.active THEN actionCompleted(s, Cmd("notices", Nobody), "failed", viewOk, limit) ELSE s)
    BY <1>4, <2>1 DEF LeaseRefused, Started
  <2> QED BY <2>3, <2>5, <2>6, BecomesSettled
<1> QED BY <1>2, <1>3, <1>4

LEMMA StallStep == ASSUME Settled, NEW limit \in BOOLEAN, onStall(limit) PROVE Settled'
<1>1. Good(disp) /\ disp \in Dispatcher /\ disp.active
  BY DEF Settled, Good, GoodBut, onStall
<1>2. PICK s : s = [disp EXCEPT !.timers = @ \ {"stall"}]
  OBVIOUS
<1>3. s \in Dispatcher
  BY <1>1, <1>2 DEF Dispatcher
<1>4. GoodBut(s, {"stall"}) /\ (~disp.excursion => Good(s))
  <2>1. /\ s.timers = disp.timers \ {"stall"}
        /\ s.up = disp.up /\ s.browser = disp.browser /\ s.active = disp.active /\ s.parked = disp.parked
        /\ s.pauses = disp.pauses /\ s.sleeping = disp.sleeping /\ s.inflight = disp.inflight
        /\ s.pendingComment = disp.pendingComment /\ s.pendingMigration = disp.pendingMigration
        /\ s.out = disp.out /\ s.awaited = disp.awaited /\ s.adrift = disp.adrift
        /\ s.excursion = disp.excursion /\ s.suspended = disp.suspended /\ s.lease = disp.lease
        /\ s.acquiring = disp.acquiring /\ s.ending = disp.ending
    BY <1>1, <1>2 DEF Dispatcher
  <2>2. \A w \in {"view", "subline"} : w \in s.timers <=> w \in disp.timers
    BY <2>1
  <2>3. GoodBut(s, {"stall"})
    BY <1>1, <1>3, <2>1, <2>2 DEF Good, GoodBut, Owners, Watched, Resumes
  <2>4. ~disp.excursion => Good(s)
    BY <1>1, <1>3, <2>1, <2>2 DEF Good, GoodBut, Owners, Watched, Resumes
  <2> QED BY <2>3, <2>4
<1>5. PICK k \in Nat : k = s.stalls + 1
  <2>1. s.stalls \in Nat
    BY <1>3 DEF Dispatcher
  <2> QED BY <2>1
<1>6. PICK t : t = [s EXCEPT !.stalls = k, !.timers = @ \cup {"stall"}]
  OBVIOUS
<1>7. t \in Dispatcher
  BY <1>3, <1>6 DEF Dispatcher, Timers
<1>8. Good(t)
  BY <1>3, <1>4, <1>6, <1>7 DEF Dispatcher, Good, GoodBut, Owners, Watched, Resumes
<1>9. Good(SendPatrol(t, "notices"))
  BY <1>8, SendPatrolGood DEF Good
<1>10. Good(resumeBrowse(s, limit))
  BY <1>4, BrowseGood
<1>11. t = [s EXCEPT !.stalls = s.stalls + 1, !.timers = s.timers \cup {"stall"}]
  BY <1>5, <1>6
<1>12. Becomes(IF ~disp.excursion THEN s
               ELSE IF disp.stalls < MaxStalls THEN SendPatrol(t, "notices") ELSE resumeBrowse(s, limit))
  BY <1>2, <1>11 DEF onStall, Started, Fired
<1>13. Good(IF ~disp.excursion THEN s
            ELSE IF disp.stalls < MaxStalls THEN SendPatrol(t, "notices") ELSE resumeBrowse(s, limit))
  BY <1>4, <1>9, <1>10
<1> QED BY <1>12, <1>13, BecomesSettled

LEMMA PatrolStep == ASSUME Settled, NotificationDetected \/ NotifierPushed PROVE Settled'
<1>1. Good(disp) /\ Good(SendPatrol(disp, "notices"))
  BY SendPatrolGood DEF Settled, Good
<1>2. disp.active => Good(admit(disp))
  BY <1>1, AdmitGood
<1> QED BY <1>1, <1>2, BecomesSettled DEF NotificationDetected, NotifierPushed, Asked

LEMMA HeadTailTyped ==
    ASSUME NEW S, NEW q \in Seq(S), q # <<>>
    PROVE  Head(q) \in S /\ Tail(q) \in Seq(S)
OBVIOUS

\* The command in front is taken off: the answer it would have brought is no longer due.
Taken(A) == [disp EXCEPT !.out = Tail(@), !.adrift = A]

LEMMA TakenOff ==
    ASSUME Settled, disp.out # <<>>, NEW A \in SUBSET Notes, disp.adrift \subseteq A, NEW t, t = Taken(A)
    PROVE  /\ GoodBut(t, {"comment_subline"}) /\ Head(disp.out) \in Commands
           /\ t.active = disp.active /\ (~Asks(t, Head(disp.out)) => Good(t))
           /\ Timed(disp) \/ Settles(disp, Head(disp.out)) \subseteq A => Good(t)
<1>1. disp \in Dispatcher /\ disp.out \in Seq(Commands) /\ Good(disp)
  BY DEF Settled, Good, GoodBut, Dispatcher
<1>2. PICK q \in Seq(Commands), c \in Commands : q = Tail(disp.out) /\ c = Head(disp.out)
  BY <1>1, HeadTailTyped
<1>3. t = [disp EXCEPT !.out = q, !.adrift = A]
  BY <1>2 DEF Taken
<1>4. t \in Dispatcher
  <2>1. PICK u : u = [disp EXCEPT !.out = q]
    OBVIOUS
  <2>2. u \in Dispatcher
    BY <1>1, <2>1 DEF Dispatcher
  <2>3. t = [u EXCEPT !.adrift = A] /\ A \in SUBSET Notes
    BY <1>3, <2>1
  <2>4. \A r : r \in Dispatcher => [r EXCEPT !.adrift = A] \in Dispatcher
    <3>1. SUFFICES ASSUME NEW r \in Dispatcher PROVE [r EXCEPT !.adrift = A] \in Dispatcher
      OBVIOUS
    <3>2. A \in SUBSET Notes
      OBVIOUS
    <3> QED BY <3>2 DEF Dispatcher
  <2> QED BY <2>2, <2>3, <2>4, Zenon
<1>5. /\ t.up = disp.up /\ t.browser = disp.browser /\ t.active = disp.active /\ t.parked = disp.parked
      /\ t.timers = disp.timers /\ t.pauses = disp.pauses /\ t.sleeping = disp.sleeping
      /\ t.inflight = disp.inflight /\ t.pendingComment = disp.pendingComment
      /\ t.pendingMigration = disp.pendingMigration /\ t.awaited = disp.awaited
      /\ t.excursion = disp.excursion /\ t.suspended = disp.suspended /\ t.lease = disp.lease
      /\ t.acquiring = disp.acquiring /\ t.ending = disp.ending /\ t.out = q /\ t.adrift = A
  BY <1>1, <1>3 DEF Dispatcher
<1>6. GoodBut(t, {"comment_subline"})
  BY <1>1, <1>4, <1>5 DEF Good, GoodBut, Owners, Watched, Resumes
<1>7. ASSUME \/ ~Asks(t, c)
             \/ Timed(disp)
             \/ Settles(disp, c) \subseteq A
      PROVE  Good(t)
  <2>1. ASSUME DeliveryEnds(disp.out, disp.pendingComment, disp.pendingMigration, disp.awaited, disp.adrift)
        PROVE  DeliveryEnds(t.out, t.pendingComment, t.pendingMigration, t.awaited, t.adrift)
    <3>1. CASE Timed(disp)
      BY <1>5, <3>1 DEF Timed, DeliveryEnds
    <3>2. CASE {disp.pendingComment, disp.pendingMigration} \cap disp.adrift # {}
      <4>1. {t.pendingComment, t.pendingMigration} \cap t.adrift # {}
        BY <1>5, <3>2
      <4> QED BY <4>1 DEF DeliveryEnds
    <3>3. CASE AnswerDue(disp.out, disp.pendingComment, disp.pendingMigration) /\ ~Timed(disp)
      <4>1. PICK i \in DOMAIN disp.out :
               \/ disp.pendingComment # Nobody /\ disp.out[i].a = "comment"
               \/ disp.pendingMigration # Nobody /\ disp.out[i].a \in {"open", "navigate"}
        BY <3>3 DEF AnswerDue
      <4>2. CASE i # 1
        <5>1. i - 1 \in DOMAIN q /\ q[i - 1] = disp.out[i]
          BY <1>1, <1>2, <4>1, <4>2
        <5>2. AnswerDue(t.out, t.pendingComment, t.pendingMigration)
          BY <1>5, <4>1, <5>1 DEF AnswerDue
        <5> QED BY <5>2 DEF DeliveryEnds
      <4>3. CASE i = 1
        <5>1. disp.out[i] = c
          BY <1>1, <1>2, <4>3
        <5>2. Asks(t, c)
          BY <1>5, <4>1, <5>1 DEF Asks
        <5>3. \E n \in Settles(disp, c) : n \in {disp.pendingComment, disp.pendingMigration}
          BY <4>1, <5>1 DEF Settles
        <5>4. {t.pendingComment, t.pendingMigration} \cap t.adrift # {}
          BY <1>5, <1>7, <3>3, <5>2, <5>3
        <5> QED BY <5>4 DEF DeliveryEnds
      <4> QED BY <4>2, <4>3
    <3> QED BY <2>1, <3>1, <3>2, <3>3 DEF DeliveryEnds, Timed
  <2> QED BY <1>1, <1>4, <1>5, <2>1 DEF Good, GoodBut, Owners, Watched, Resumes
<1> QED BY <1>2, <1>5, <1>6, <1>7

LEMMA EdgeStep ==
    ASSUME Settled, NEW result \in EdgeResults, NEW viewOk \in BOOLEAN, NEW limit \in BOOLEAN, NEW unread \in BOOLEAN,
           EdgeAnswers(result, viewOk, limit, unread)
    PROVE  Settled'
<1>1. PICK c : c = Head(disp.out)
  OBVIOUS
<1>2. PICK a : a = [disp EXCEPT !.out = Tail(@)]
  OBVIOUS
<1>3. GoodBut(a, {"comment_subline"}) /\ c \in Commands /\ (~Asks(a, c) => Good(a))
  <2>1. disp.out # <<>> /\ disp \in Dispatcher
    BY DEF EdgeAnswers, Settled, Good, GoodBut
  <2>2. a = Taken(disp.adrift) /\ disp.adrift \in SUBSET Notes
    BY <1>2, <2>1 DEF Dispatcher, Taken
  <2> QED BY <1>1, <2>1, <2>2, TakenOff
<1>4. PICK s : s = IF a.active THEN actionCompleted(a, c, result, viewOk, limit) ELSE a
  OBVIOUS
<1>5. Good(s)
  BY <1>3, <1>4, CompletedGood, EndedGood
<1>6. s \in Dispatcher /\ c.n \in Notes \cup {Nobody}
  BY <1>3, <1>5 DEF Good, GoodBut, Commands
<1>7. PICK t : t = [s EXCEPT !.note = c.n]
  OBVIOUS
<1>8. t \in Dispatcher
  BY <1>6, <1>7 DEF Dispatcher
<1>9. Good(t)
  BY <1>5, <1>6, <1>7, <1>8, Same DEF Dispatcher, Good
<1>10. Good(triage(s, unread, limit))
  BY <1>5, TriageGood
<1>11. PICK p : p = CASE (result = "ok" /\ s.active) /\ c.a \in {"open", "navigate"} -> t
                      [] (result = "ok" /\ s.active) /\ c.a = "notices" -> triage(s, unread, limit)
                      [] OTHER -> s
  OBVIOUS
<1>12. Good(p)
  <2>1. CASE result = "ok" /\ s.active /\ c.a \in {"open", "navigate"}
    BY <1>9, <1>11, <2>1
  <2>2. CASE result = "ok" /\ s.active /\ c.a = "notices"
    BY <1>10, <1>11, <2>2
  <2>3. CASE ~(result = "ok" /\ s.active /\ c.a \in {"open", "navigate", "notices"})
    BY <1>5, <1>11, <2>3
  <2> QED BY <2>1, <2>2, <2>3
<1>13. Becomes(p)
  BY <1>1, <1>2, <1>4, <1>7, <1>11 DEF EdgeAnswers
<1> QED BY <1>12, <1>13, BecomesSettled

LEMMA SilentStep == ASSUME Settled, EdgeSilent \/ UNCHANGED sessionVars PROVE Settled'
<1>1. CASE EdgeSilent
  <2>1. disp \in Dispatcher /\ disp.out # <<>> /\ disp.out \in Seq(Commands)
    BY <1>1 DEF EdgeSilent, Settled, Good, GoodBut, Dispatcher
  <2>2. PICK A : A = IF Timed(disp) THEN disp.adrift ELSE disp.adrift \cup Settles(disp, Head(disp.out))
    OBVIOUS
  <2>3. A \in SUBSET Notes /\ disp.adrift \subseteq A
    BY <2>1, <2>2 DEF Dispatcher, Settles
  <2>4. PICK t : t = Taken(A)
    OBVIOUS
  <2>7. Timed(disp) \/ Settles(disp, Head(disp.out)) \subseteq A
    BY <2>2
  <2>5. Good(t)
    BY <2>1, <2>3, <2>4, <2>7, TakenOff
  <2>6. Becomes(t)
    BY <1>1, <2>2, <2>4 DEF EdgeSilent, Becomes, Taken
  <2> QED BY <2>5, <2>6, BecomesSettled
<1>2. CASE UNCHANGED sessionVars
  BY <1>2, BecomesSettled DEF Settled, sessionVars, Becomes
<1> QED BY <1>1, <1>2

LEMMA BrowseStep ==
    ASSUME Settled, NEW viewOk \in BOOLEAN,
           ScrollOn(viewOk) \/ searchApproved(viewOk) \/ \E n \in Notes : contentValuable(n, viewOk)
    PROVE  Settled'
<1>1. Good(disp)
  BY DEF Settled
<1>2. CASE ScrollOn(viewOk)
  BY <1>1, <1>2, ScrollGood, BecomesSettled DEF ScrollOn, Asked, Good
<1>3. CASE searchApproved(viewOk)
  <2>1. PICK s : s = Send(disp, Cmd("search", Nobody), viewOk)
    OBVIOUS
  <2>2. Good(s)
    BY <1>1, <2>1, CmdType, SendGood DEF Good
  <2>3. s \in Dispatcher
    BY <2>2 DEF Good, GoodBut
  <2>4. PICK t : t = [s EXCEPT !.page = "search"]
    OBVIOUS
  <2>5. t \in Dispatcher
    BY <2>3, <2>4 DEF Dispatcher
  <2>6. Good(t)
    BY <2>2, <2>3, <2>4, <2>5, Same DEF Dispatcher, Good
  <2>7. Good(sendScrollCommand(disp, TRUE))
    BY <1>1, <1>3, ScrollGood DEF searchApproved, Good
  <2>8. Becomes(IF s.out # disp.out THEN t ELSE sendScrollCommand(disp, TRUE))
    BY <1>3, <2>1, <2>4 DEF searchApproved, Asked
  <2>9. Good(IF s.out # disp.out THEN t ELSE sendScrollCommand(disp, TRUE))
    BY <2>6, <2>7
  <2> QED BY <2>8, <2>9, BecomesSettled
<1>4. CASE \E n \in Notes : contentValuable(n, viewOk)
  <2>1. PICK n \in Notes : contentValuable(n, viewOk)
    BY <1>4
  <2>2. Good(Send(disp, Cmd("open", n), FALSE))
    BY <1>1, CmdType, SendGood DEF Good
  <2>3. Good(sleepForViewQuota(disp))
    BY <1>1, <2>1, SleepGood DEF contentValuable, Good
  <2>4. Good(IF viewOk THEN Send(disp, Cmd("open", n), FALSE) ELSE sleepForViewQuota(disp))
    BY <2>2, <2>3
  <2> QED BY <2>1, <2>4, BecomesSettled DEF contentValuable, Asked
<1> QED BY <1>2, <1>3, <1>4

------------------------------------------------------------------------------
LEMMA SettledInit == SessionInit => Settled
<1> SUFFICES ASSUME SessionInit PROVE Settled
  OBVIOUS
<1>1. {} \in SUBSET Timers /\ {} \in SUBSET Pauses /\ {} \in SUBSET (Notes \cup {Nobody}) /\ 0 \in Nat
      /\ "stopped" \in Parkings /\ "running" \in Parkings
  BY DEF Parkings
<1>2. PICK h \in [Notes -> Told] : h = [n \in Notes |-> "none"]
  <2>1. [n \in Notes |-> "none"] \in [Notes -> Told]
    BY DEF Told
  <2> QED BY <2>1, Zenon
<1>3. <<>> \in Seq(Commands)
  OBVIOUS
<1>4. PICK q \in Seq(Commands) : q = <<>>
  BY <1>3
<1>5. Fresh \in Dispatcher
  BY <1>1, <1>2, <1>4 DEF Fresh, Dispatcher
<1>6. Good(Fresh)
  BY <1>5 DEF Fresh, Good, GoodBut, Owners, Watched, Resumes
<1>7. \A n \in Mandatory : Good(Running(n))
  <2>1. SUFFICES ASSUME NEW n \in Mandatory PROVE Good(Running(n))
    OBVIOUS
  <2>2. n \in Notes \cup {Nobody}
    BY SessionAssumption
  <2>3. PICK r : r = [Fresh EXCEPT !.up = TRUE, !.browser = "present", !.active = TRUE, !.parked = "running",
                                   !.note = n]
    OBVIOUS
  <2>4. r \in Dispatcher
    BY <1>1, <1>5, <2>2, <2>3 DEF Dispatcher
  <2>5. /\ r.active = TRUE /\ r.parked = "running" /\ r.pauses = {} /\ r.lease = FALSE /\ r.acquiring = FALSE
        /\ r.suspended = FALSE /\ r.inflight = Nobody
    BY <1>5, <2>3 DEF Dispatcher, Fresh
  <2>6. Good(r)
    BY <2>4, <2>5 DEF Good, GoodBut, Owners, Watched, Resumes
  <2> QED BY <2>3, <2>6 DEF Running
<1>8. Good(disp)
  BY <1>6, <1>7 DEF SessionInit
<1> QED BY <1>8 DEF Settled

LEMMA SettledStep == Settled /\ [SessionNext]_sessionVars => Settled'
<1> SUFFICES ASSUME Settled, [SessionNext]_sessionVars PROVE Settled'
  OBVIOUS
<1>1. CASE Lifecycle
  BY <1>1, HelloStep, TeardownStep, StartStep, RecheckStep, QuotaStep, IdleStep DEF Lifecycle
<1>2. CASE Commenting
  BY <1>2, RoleStep, ExpireStep DEF Commenting
<1>3. CASE Patrolling
  BY <1>3, LeaseStep, StallStep, PatrolStep DEF Patrolling
<1>4. CASE Browsing
  BY <1>4, EdgeStep, SilentStep, BrowseStep DEF Browsing, EdgeResults
<1>5. CASE UNCHANGED sessionVars
  BY <1>5, SilentStep
<1> QED BY <1>1, <1>2, <1>3, <1>4, <1>5 DEF SessionNext

\* Every hold on a session's clock, its page or the edge has an owner that gives it back: the comment in
\* hand, the timer or the answer of a comment that is out, the quota's timer, the patrol that is watched
\* (endSession, resumeClock, expireCommentSubline, armMandatoryCommentOutcomeTimer, beginNotificationTask,
\* onStall).  A comment adrift is the one exception, and the statement names it.
THEOREM HoldsOwned == SessionSpec => []HoldsHaveOwners
<1>1. Settled => HoldsHaveOwners
  <2> SUFFICES ASSUME Settled PROVE HoldsHaveOwners
    OBVIOUS
  <2>1. PausesHaveOwners
    BY DEF Settled, Good, GoodBut, Owners, PausesHaveOwners
  <2>2. PatrolIsWatched
    BY DEF Settled, Good, GoodBut, Watched, PatrolIsWatched
  <2> QED BY <2>1, <2>2 DEF HoldsHaveOwners
<1> QED BY <1>1, SettledInit, SettledStep, PTL DEF SessionSpec

\* A session that is to resume has a timer that starts it, whatever refused it or ended it
\* (endSession, canStartSession, doAutoResume, onStartGateRecheckElapsed).
THEOREM Resumed == SessionSpec => []WillResume
<1>1. Settled => WillResume
  BY DEF Settled, Good, GoodBut, Resumes, WillResume
<1> QED BY <1>1, SettledInit, SettledStep, PTL DEF SessionSpec
===============================================================================
