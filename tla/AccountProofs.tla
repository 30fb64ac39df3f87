---------------------------- MODULE AccountProofs ----------------------------
(***************************************************************************)
(* Proofs about one account: its risk commands, for any number of          *)
(* processes, controllers and commands, and its two Facebook modes, for    *)
(* any cadence, number of services, revisions, rows and batches; without   *)
(* the bounds of the runs.  The two share no name.                         *)
(*                                                                         *)
(* The risk commands.  A command is handled where it was sent, one         *)
(* delivery at a time (AtOK).  A write that is under way for a command     *)
(* belongs to a controller of that very process, and to no other, while    *)
(* its handler waits (ByOK, ProcOK): a crash that ends the handler ends    *)
(* the write.  So a row of the outcome table (RowOK) can only be final     *)
(* once nothing of its command is left.                                    *)
(*                                                                         *)
(* The modes.  A row may be written only by the one holder of the mark     *)
(* that took it out of not_started, and only while nobody has written it   *)
(* (Sent); no step takes a row back to not_started (Shrinks), however      *)
(* often it is claimed again.  The counters of a revision and the rows it  *)
(* has earned are covered by its confirmed rows (Earned) and its slot      *)
(* points at an open row of its own (SlotsOpen).  In the rule mode an open *)
(* batch and the slot of its revision go together, and no other batch is   *)
(* open (Bookings).                                                        *)
(***************************************************************************)
EXTENDS RiskControl, FacebookModes, FiniteSetTheorems, NaturalsInduction, WellFoundedInduction, TLAPS

CtlRec == [proc : Procs \cup {None}, mem : States, step : {"idle", "check", "write"}, by : Commands \cup {"conn", "sweep", None}]
Steps == {"idle", "staged", "marked", "got", "mutating", "accepted", "changed", "refused",
          "error", "resume", "claimed", "resumed", "written", "returned"}
ConsRec == [cmd : Commands \cup {None}, ctl : Ctls \cup {None}, step : Steps]
OutRec == [state : {"submitted", "applying", "refused", "failed", "applied"}, changed : BOOLEAN,
           resume : {"none", "pending", "claimed", "completed"}]

\* What the handlers and the controllers rest on, and the rest of the state.
CmdTypes == cons \in [Procs -> ConsRec] /\ out \in [Commands -> OutRec] /\ resumed \in [Commands -> Nat]
CtlTypes == ctl \in [Ctls -> CtlRec] /\ cache \in [Procs -> Ctls \cup {None}]
RestTypes ==
    /\ owner \in Procs \cup {None} /\ row \in States /\ now \in Times
    /\ conns \subseteq Ctls /\ hs \in [Procs -> {"none", "claimed", "resolve"}] /\ sweep \subseteq Procs
    /\ sent \in [Commands -> Procs \cup {None}] /\ acked \subseteq Commands /\ wrote \subseteq Commands
    /\ reports \in 0..MaxReports /\ faults \in 0..MaxFaults /\ shakes \in 0..MaxShakes
Types == CmdTypes /\ CtlTypes /\ RestTypes

Applying == {"marked", "got", "accepted", "mutating", "changed", "refused", "error"}
Unwritten == {"marked", "got", "accepted", "mutating", "refused"}
Resuming == {"resume", "claimed", "resumed"}

\* What the handler of p may assume of its command.
AtOK(p, c) ==
    cons[p].cmd = c =>
        /\ sent[c] = p
        /\ cons[p].step \in {"marked", "accepted", "changed", "refused"} \cup Resuming => c \in Recoveries
        /\ cons[p].step = "written" => c \in Signals /\ c \in wrote
        /\ c \in Recoveries =>
              /\ cons[p].step \in Applying => out[c].state = "applying"
              /\ cons[p].step \in Unwritten => c \notin wrote
              /\ cons[p].step = "changed" => c \in wrote
              /\ cons[p].step \in Resuming => out[c].state = "applied"
              /\ cons[p].step \in {"claimed", "resumed"} => out[c].resume = "claimed"
              /\ cons[p].step = "claimed" => resumed[c] = 0

\* A controller somebody holds is of his process.
ProcOK(p) ==
    /\ cache[p] # None => ctl[cache[p]].proc = p
    /\ cons[p].ctl # None => ctl[cons[p].ctl].proc = p
    /\ cons[p].step # "idle" => cons[p].cmd \in Commands
    /\ cons[p].step = "got" => cons[p].ctl # None

\* The write of a command under way, whose handler waits for it.
Waits(p, c) == cons[p].cmd = c /\ cons[p].step = "mutating"
ByOK(k) ==
    /\ ctl[k].by = None <=> ctl[k].step = "idle"
    /\ \A c \in Commands : ctl[k].by = c => \E p \in Procs : ctl[k].proc = p /\ Waits(p, c)
    /\ \A j \in Ctls : ctl[k].by \in Commands /\ ctl[j].by = ctl[k].by => j = k

RowOK(c) ==
    /\ c \in Signals => (out[c].state = "applied" => c \in wrote)
    /\ c \in Recoveries =>
          /\ out[c].state \in {"submitted", "refused"} => c \notin wrote
          /\ out[c].state = "applied" <=> out[c].resume # "none"
          /\ out[c].state = "applied" /\ out[c].changed => c \in wrote
          /\ resumed[c] <= 1 /\ (out[c].resume \in {"none", "pending"} => resumed[c] = 0)

CtlInv == (\A p \in Procs : ProcOK(p)) /\ \A k \in Ctls : ByOK(k)
CmdInv == \A c \in Commands : RowOK(c) /\ \A p \in Procs : AtOK(p, c)
IInv == Types /\ CtlInv /\ CmdInv

\* What OutcomeStable says of a step.
Final(c) == restrictedRecoveryOutcomeOf(c) \in {"applied", "refused", "failed"}
StaysFinal ==
    \A c \in Recoveries :
        Final(c) => restrictedRecoveryOutcomeOf(c)' = restrictedRecoveryOutcomeOf(c) /\ out'[c].changed = out[c].changed

-----------------------------------------------------------------------------
(* What a step leaves alone *)

LEMMA Distinct ==
    /\ None \notin Commands /\ None \notin Procs /\ None \notin Ctls /\ "conn" \notin Commands /\ "sweep" \notin Commands
    /\ Recoveries \subseteq Commands /\ Signals \subseteq Commands
    /\ \A c \in Commands : c \in Recoveries <=> c \notin Signals
BY RiskAssumption DEF Commands

LEMMA TransitionType ==
    ASSUME NEW s \in States, NEW kind, now \in Times PROVE transition(s, kind) \in States
<1>1. s.st \in Status /\ s.base \in Times
  BY DEF States, Times
<1>2. recoverIfEligible(s) \in Status
  BY <1>1 DEF recoverIfEligible, Status
<1>3. nextStatus(s, kind) \in Status
  BY <1>1, <1>2 DEF nextStatus, Status
<1> QED BY <1>1, <1>3 DEF transition, States, Times

\* A command is with one consumer.
LEMMA OneHandler ==
    ASSUME CmdInv, NEW c \in Commands, NEW p \in Procs, NEW q \in Procs, cons[p].cmd = c, cons[q].cmd = c PROVE p = q
BY DEF CmdInv, AtOK

\* The handler of p moves on with its command, and nothing of another command changes.
LEMMA CmdKept ==
    ASSUME IInv, NEW p \in Procs, NEW c \in Commands, cons[p].cmd = c, UNCHANGED <<sent, wrote>>,
           \A q \in Procs \ {p} : cons'[q] = cons[q], cons'[p].cmd \in {c, None},
           \A d \in Commands \ {c} : out'[d] = out[d] /\ resumed'[d] = resumed[d],
           RowOK(c)', AtOK(p, c)', c \in Recoveries /\ Final(c) => out'[c] = out[c]
    PROVE  CmdInv' /\ StaysFinal
<1>1. ASSUME NEW d \in Commands PROVE RowOK(d)'
  BY DEF IInv, CmdInv, RowOK
<1>2. ASSUME NEW d \in Commands, NEW q \in Procs PROVE AtOK(q, d)'
  <2>1. AtOK(q, d) /\ (cons[q].cmd = c => q = p)
    BY OneHandler DEF IInv, CmdInv
  <2>2. CASE d = c
    BY <2>1, <2>2 DEF AtOK
  <2>3. CASE d # c /\ q # p
    BY <2>1, <2>3 DEF AtOK
  <2>4. CASE d # c /\ q = p
    BY <2>4, Distinct DEF AtOK
  <2> QED BY <2>2, <2>3, <2>4
<1>3. StaysFinal
  <2> SUFFICES ASSUME NEW d \in Recoveries, Final(d) PROVE sent'[d] = sent[d] /\ out'[d] = out[d]
    BY DEF StaysFinal, restrictedRecoveryOutcomeOf
  <2> QED BY Distinct
<1> QED BY <1>1, <1>2, <1>3 DEF CmdInv

LEMMA CmdSame ==
    ASSUME IInv, UNCHANGED <<sent, wrote, out, resumed, cons>> PROVE CmdInv' /\ StaysFinal
BY DEF IInv, CmdInv, RowOK, AtOK, StaysFinal, restrictedRecoveryOutcomeOf

\* A step of a handler that leaves the controllers alone.
LEMMA HandlerStep ==
    ASSUME IInv, NEW p \in Procs, NEW c \in Commands, cons[p].cmd = c, cons[p].step # "mutating",
           NEW n \in ConsRec, cons' = [cons EXCEPT ![p] = n], n.cmd \in {c, None}, n.ctl \in {cons[p].ctl, None},
           n.step # "got", n.step # "idle" => n.cmd = c,
           UNCHANGED <<cache, ctl>>, NoFault, faults' \in 0..MaxFaults, acked' \subseteq Commands,
           out' \in [Commands -> OutRec], resumed' \in [Commands -> Nat],
           \A d \in Commands \ {c} : out'[d] = out[d] /\ resumed'[d] = resumed[d],
           RowOK(c)', AtOK(p, c)', c \in Recoveries /\ Final(c) => out'[c] = out[c]
    PROVE  IInv' /\ StaysFinal
<1>1. /\ cons' \in [Procs -> ConsRec] /\ cons'[p] = n /\ \A q \in Procs \ {p} : cons'[q] = cons[q]
      /\ UNCHANGED <<sent, wrote>>
  BY DEF IInv, Types, CmdTypes, NoFault
<1>2. Types'
  BY <1>1 DEF IInv, Types, CmdTypes, CtlTypes, RestTypes, NoFault
<1>3. CmdInv' /\ StaysFinal
  BY <1>1, CmdKept
<1>4. ASSUME NEW q \in Procs PROVE ProcOK(q)'
  <2>1. ProcOK(q)
    BY DEF IInv, CtlInv
  <2> QED BY <1>1, <2>1 DEF ProcOK
<1>5. ASSUME NEW k \in Ctls PROVE ByOK(k)'
  <2>1. ByOK(k)
    BY DEF IInv, CtlInv
  <2>2. \A d \in Commands, q \in Procs : Waits(q, d) => Waits(q, d)'
    BY <1>1 DEF Waits
  <2> QED BY <2>1, <2>2 DEF ByOK
<1> QED BY <1>2, <1>3, <1>4, <1>5 DEF IInv, CtlInv

\* One controller changes that is free for it, by a step of p.
LEMMA CtlStep ==
    ASSUME IInv, NEW p \in Procs, NEW k \in Ctls, ctl[k].step = "idle",
           \A q \in Procs \ {p} : cache'[q] = cache[q] /\ cons'[q] = cons[q],
           cache'[p] \in {cache[p], k}, cons'[p].ctl \in {cons[p].ctl, k},
           cons'[p].step = "got" => cons'[p].ctl # None,
           cons'[p] = cons[p] \/ (cons[p].step # "mutating" /\ cons'[p].cmd = cons[p].cmd /\ cons[p].cmd \in Commands),
           \A j \in Ctls \ {k} : ctl'[j] = ctl[j], ctl'[k].proc = p, k \notin InUse \/ ctl[k].proc = p,
           ctl'[k].by = None <=> ctl'[k].step = "idle",
           \A d \in Commands : ctl'[k].by = d => Waits(p, d)' /\ cons[p].step # "mutating" /\ cons[p].cmd = d
    PROVE  CtlInv'
<1>1. ASSUME NEW q \in Procs PROVE ProcOK(q)'
  <2>1. ProcOK(q) /\ cache[q] \in Ctls \cup {None} /\ cons[q].ctl \in Ctls \cup {None}
    BY DEF IInv, CtlInv, Types, CtlTypes, CmdTypes, ConsRec
  <2>2. q # p => cache[q] # k /\ cons[q].ctl # k
    BY <2>1, Distinct DEF ProcOK, InUse
  <2> QED BY <2>1, <2>2, Distinct DEF ProcOK
<1>2. \A q \in Procs, d \in Commands : Waits(q, d) => Waits(q, d)'
  BY DEF Waits
<1>3. ASSUME NEW j \in Ctls, ctl[j].by \in Commands, ctl'[k].by = ctl[j].by PROVE FALSE
  <2>1. PICK q \in Procs : Waits(q, ctl[j].by)
    BY <1>3 DEF IInv, CtlInv, ByOK
  <2>2. q = p
    BY <1>3, <2>1, OneHandler DEF IInv, Waits
  <2> QED BY <1>3, <2>1, <2>2 DEF Waits
<1>4. ASSUME NEW j \in Ctls, j # k PROVE ByOK(j)'
  <2>1. ByOK(j) /\ ctl'[j] = ctl[j]
    BY <1>4 DEF IInv, CtlInv
  <2>2. \A c \in Commands : ctl'[j].by = c => \E q \in Procs : ctl'[j].proc = q /\ Waits(q, c)'
    BY <1>2, <2>1 DEF ByOK
  <2>3. \A i \in Ctls : ctl'[j].by \in Commands /\ ctl'[i].by = ctl'[j].by => i = j
    BY <1>3, <2>1 DEF ByOK
  <2> QED BY <2>1, <2>2, <2>3 DEF ByOK
<1>5. ByOK(k)'
  <2>1. \A c \in Commands : ctl'[k].by = c => \E q \in Procs : ctl'[k].proc = q /\ Waits(q, c)'
    OBVIOUS
  <2>2. \A j \in Ctls : ctl'[k].by \in Commands /\ ctl'[j].by = ctl'[k].by => j = k
    BY <1>3
  <2> QED BY <2>1, <2>2 DEF ByOK
<1> QED BY <1>1, <1>4, <1>5 DEF CtlInv

\* A step that leaves the handlers alone and uses one free controller of p.
LEMMA OutsideStep ==
    ASSUME IInv, NEW p \in Procs, NEW k \in Ctls, ctl[k].step = "idle", UNCHANGED <<cons, sent, wrote, out, resumed>>,
           CtlTypes', RestTypes', \A q \in Procs \ {p} : cache'[q] = cache[q], cache'[p] \in {cache[p], k},
           \A j \in Ctls \ {k} : ctl'[j] = ctl[j], ctl'[k].proc = p, k \notin InUse \/ ctl[k].proc = p,
           ctl'[k].by = None <=> ctl'[k].step = "idle", ctl'[k].by \notin Commands
    PROVE  IInv' /\ StaysFinal
<1>1. CtlInv'
  <2>1. cons'[p].step = "got" => cons'[p].ctl # None
    BY DEF IInv, CtlInv, ProcOK
  <2> QED BY <2>1, CtlStep
<1>2. CmdTypes'
  BY DEF IInv, Types, CmdTypes
<1> QED BY <1>1, <1>2, CmdSame DEF IInv, Types

\* A step that touches neither handlers nor controllers.
LEMMA QuietStep ==
    ASSUME IInv, UNCHANGED <<cons, ctl, cache, wrote, out, resumed, sent>>, RestTypes' PROVE IInv' /\ StaysFinal
<1>1. Types'
  BY DEF IInv, Types, CmdTypes, CtlTypes
<1>2. CtlInv'
  BY DEF IInv, CtlInv, ProcOK, ByOK, Waits
<1> QED BY <1>1, <1>2, CmdSame DEF IInv

-----------------------------------------------------------------------------
(* Controllers *)

LEMMA CtlForms ==
    ASSUME NEW r \in CtlRec
    PROVE  /\ [r EXCEPT !.step = "idle", !.by = None] \in CtlRec /\ [r EXCEPT !.step = "idle", !.by = None].proc = r.proc
           /\ [r EXCEPT !.step = "idle", !.by = None].step = "idle" /\ [r EXCEPT !.step = "idle", !.by = None].by = None
           /\ [r EXCEPT !.step = "write"] \in CtlRec /\ [r EXCEPT !.step = "write"].proc = r.proc
           /\ [r EXCEPT !.step = "write"].by = r.by /\ [r EXCEPT !.step = "write"].step = "write"
BY DEF CtlRec

LEMMA MutateFacts ==
    ASSUME Types, NEW k \in Ctls, NEW kind, NEW by \in Commands \cup {"conn", "sweep"}, Mutate(k, kind, by)
    PROVE  /\ ctl[k].step = "idle" /\ ctl' \in [Ctls -> CtlRec] /\ \A j \in Ctls \ {k} : ctl'[j] = ctl[j]
           /\ ctl'[k].proc = ctl[k].proc /\ ctl'[k].by = by /\ ctl'[k].step = "check"
<1>1. ctl[k] \in CtlRec /\ ctl \in [Ctls -> CtlRec]
  BY DEF Types, CtlTypes
<1>2. ctl[k].mem \in States /\ now \in Times
  BY <1>1 DEF CtlRec, Types, RestTypes
<1>3. PICK m \in States : m = transition(ctl[k].mem, kind)
  BY <1>2, TransitionType
<1>4. PICK s : s = [ctl[k] EXCEPT !.mem = m, !.step = "check", !.by = by]
  OBVIOUS
<1>5. s \in CtlRec /\ s.proc = ctl[k].proc /\ s.step = "check" /\ s.by = by
  BY <1>1, <1>4 DEF CtlRec
<1>6. ctl' = [ctl EXCEPT ![k] = s] /\ ctl[k].step = "idle"
  BY <1>1, <1>3, <1>4 DEF Mutate, CtlRec
<1> QED BY <1>1, <1>5, <1>6

LEMMA LoadFacts ==
    ASSUME Types, NEW p \in Procs, NEW k \in Ctls, Load(p, k)
    PROVE  /\ k \notin InUse /\ ctl[k].step = "idle" /\ CtlTypes'
           /\ cache'[p] = k /\ \A q \in Procs \ {p} : cache'[q] = cache[q]
           /\ \A j \in Ctls \ {k} : ctl'[j] = ctl[j]
           /\ ctl'[k].proc = p /\ ctl'[k].by = None /\ ctl'[k].step = "idle"
<1>1. [NoCtl EXCEPT !.proc = p, !.mem = row] \in CtlRec
  BY DEF NoCtl, CtlRec, Types, RestTypes
<1> QED BY <1>1 DEF Load, InUse, Types, CtlTypes, NoCtl

LEMMA RegisteredFacts ==
    ASSUME IInv, NEW p \in Procs, NEW kind, NEW by \in {"conn", "sweep"}, MutateRegistered(p, kind, by)
    PROVE  \E k \in Ctls :
              /\ ctl[k].step = "idle" /\ CtlTypes' /\ \A q \in Procs \ {p} : cache'[q] = cache[q]
              /\ cache'[p] = k /\ \A j \in Ctls \ {k} : ctl'[j] = ctl[j]
              /\ ctl'[k].proc = p /\ (k \notin InUse \/ ctl[k].proc = p)
              /\ ctl'[k].by = by /\ ctl'[k].step = "check"
<1>1. CASE cache[p] # None
  <2>1. PICK k \in Ctls : k = cache[p] /\ ctl[k].proc = p
    BY <1>1 DEF IInv, CtlInv, ProcOK, Types, CtlTypes
  <2>2. Mutate(k, kind, by) /\ UNCHANGED cache
    BY <1>1, <2>1 DEF MutateRegistered
  <2> QED BY <2>1, <2>2, MutateFacts DEF IInv, Types, CtlTypes
<1>2. CASE cache[p] = None
  <2>1. PICK k \in Ctls \ InUse :
           /\ cache' = [cache EXCEPT ![p] = k]
           /\ ctl' = [ctl EXCEPT ![k] = [proc |-> p, mem |-> transition(row, kind), step |-> "check", by |-> by]]
    BY <1>2 DEF MutateRegistered
  <2>2. [proc |-> p, mem |-> transition(row, kind), step |-> "check", by |-> by] \in CtlRec
    BY TransitionType DEF IInv, Types, RestTypes, CtlRec
  <2> QED BY <2>1, <2>2 DEF IInv, Types, CtlTypes, InUse
<1> QED BY <1>1, <1>2

-----------------------------------------------------------------------------
(* The handlers of the commands *)

\* Where a handler can be next.
LEMMA GotoForm ==
    ASSUME Types, NEW p \in Procs, NEW s \in Steps, Goto(p, s)
    PROVE  \E n \in ConsRec : /\ cons' = [cons EXCEPT ![p] = n] /\ n.cmd = cons[p].cmd
                              /\ n.ctl = cons[p].ctl /\ n.step = s
<1>1. cons[p] \in ConsRec
  BY DEF Types, CmdTypes
<1>2. PICK n : n = [cons[p] EXCEPT !.step = s]
  OBVIOUS
<1>3. n \in ConsRec /\ n.cmd = cons[p].cmd /\ n.ctl = cons[p].ctl /\ n.step = s
  BY <1>1, <1>2 DEF ConsRec
<1>4. cons' = [cons EXCEPT ![p] = n]
  BY <1>2 DEF Goto
<1> QED BY <1>3, <1>4

LEMMA ReturnForm ==
    ASSUME Types, NEW p \in Procs, Return(p)
    PROVE  /\ acked' = acked
           /\ \E n \in ConsRec : /\ cons' = [cons EXCEPT ![p] = n] /\ n.cmd = cons[p].cmd
                                 /\ n.ctl = None /\ n.step = "returned"
<1>1. cons[p] \in ConsRec /\ cons \in [Procs -> ConsRec]
  BY DEF Types, CmdTypes
<1>2. PICK n : n = [cons[p] EXCEPT !.step = "returned", !.ctl = None]
  OBVIOUS
<1>3. n \in ConsRec /\ n.cmd = cons[p].cmd /\ n.ctl = None /\ n.step = "returned"
  BY <1>1, <1>2 DEF ConsRec, Steps
<1>4. cons' = [cons EXCEPT ![p] = n] /\ acked' = acked
  BY <1>1, <1>2 DEF Return
<1> QED BY <1>3, <1>4

LEMMA IdleForm == Idle \in ConsRec /\ Idle.cmd = None /\ Idle.ctl = None /\ Idle.step = "idle"
BY DEF Idle, ConsRec, Steps

\* The command of a handler that is under way.
LEMMA HasCommand ==
    ASSUME IInv, NEW p \in Procs, cons[p].step # "idle"
    PROVE  /\ cons[p].cmd \in Commands /\ RowOK(cons[p].cmd) /\ AtOK(p, cons[p].cmd)
           /\ out[cons[p].cmd] \in OutRec /\ resumed[cons[p].cmd] \in Nat
BY DEF IInv, CtlInv, ProcOK, CmdInv, Types, CmdTypes

LEMMA HasController ==
    ASSUME IInv, NEW p \in Procs, cons[p].step = "got" PROVE cons[p].ctl \in Ctls
BY DEF IInv, CtlInv, ProcOK, Types, CmdTypes, ConsRec

\* The outcome row of a command is written, and no other.
LEMMA OutForm ==
    ASSUME Types, NEW c \in Commands, NEW r \in OutRec, out' = [out EXCEPT ![c] = r]
    PROVE  out' \in [Commands -> OutRec] /\ out'[c] = r /\ \A d \in Commands \ {c} : out'[d] = out[d]
BY DEF Types, CmdTypes

LEMMA RecordedForm ==
    ASSUME Types, NEW c \in Commands, NEW st \in {"submitted", "applying", "refused", "failed", "applied"},
           out' = Recorded(c, st)
    PROVE  \E r \in OutRec : /\ out' = [out EXCEPT ![c] = r] /\ r.state = st
                             /\ r.changed = out[c].changed /\ r.resume = out[c].resume
<1>1. out[c] \in OutRec
  BY DEF Types, CmdTypes
<1>2. PICK r : r = [out[c] EXCEPT !.state = st]
  OBVIOUS
<1>3. r \in OutRec /\ r.state = st /\ r.changed = out[c].changed /\ r.resume = out[c].resume
  BY <1>1, <1>2 DEF OutRec
<1>4. out' = [out EXCEPT ![c] = r]
  BY <1>2 DEF Recorded
<1> QED BY <1>3, <1>4

LEMMA ResumeForm ==
    ASSUME Types, NEW c \in Commands, NEW m \in {"none", "pending", "claimed", "completed"},
           out' = [out EXCEPT ![c].resume = m]
    PROVE  \E r \in OutRec : /\ out' = [out EXCEPT ![c] = r] /\ r.resume = m
                             /\ r.changed = out[c].changed /\ r.state = out[c].state
<1>1. out[c] \in OutRec
  BY DEF Types, CmdTypes
<1>2. PICK r : r = [out[c] EXCEPT !.resume = m]
  OBVIOUS
<1>3. r \in OutRec /\ r.resume = m /\ r.changed = out[c].changed /\ r.state = out[c].state
  BY <1>1, <1>2 DEF OutRec
<1>4. out' = [out EXCEPT ![c] = r]
  BY <1>2
<1> QED BY <1>3, <1>4

\* The handler moves and writes the row r of its command, or none.
LEMMA RowStep ==
    ASSUME IInv, NEW p \in Procs, NEW c \in Commands, cons[p].cmd = c, cons[p].step # "mutating",
           NEW n \in ConsRec, cons' = [cons EXCEPT ![p] = n], n.cmd \in {c, None}, n.ctl \in {cons[p].ctl, None},
           n.step # "got", n.step # "idle" => n.cmd = c, UNCHANGED <<cache, ctl, resumed>>, NoFault, faults' \in 0..MaxFaults,
           acked' \subseteq Commands, NEW r \in OutRec, out' = [out EXCEPT ![c] = r],
           RowOK(c)', AtOK(p, c)', c \in Recoveries /\ Final(c) => r = out[c]
    PROVE  IInv' /\ StaysFinal
<1>1. out' \in [Commands -> OutRec] /\ out'[c] = r /\ \A d \in Commands \ {c} : out'[d] = out[d]
  BY OutForm DEF IInv
<1>2. resumed' \in [Commands -> Nat] /\ \A d \in Commands \ {c} : resumed'[d] = resumed[d]
  BY DEF IInv, Types, CmdTypes
<1>3. c \in Recoveries /\ Final(c) => out'[c] = out[c]
  BY <1>1
<1> QED BY <1>1, <1>2, <1>3, HandlerStep, ZenonT(30)

\* The handler moves and writes no row.
LEMMA PlainStep ==
    ASSUME IInv, NEW p \in Procs, NEW c \in Commands, cons[p].cmd = c, cons[p].step # "mutating",
           NEW n \in ConsRec, cons' = [cons EXCEPT ![p] = n], n.cmd \in {c, None}, n.ctl \in {cons[p].ctl, None},
           n.step # "got", n.step # "idle" => n.cmd = c, UNCHANGED <<cache, ctl, resumed, out>>, NoFault, faults' \in 0..MaxFaults,
           acked' \subseteq Commands, AtOK(p, c)'
    PROVE  IInv' /\ StaysFinal
<1>1. out' \in [Commands -> OutRec] /\ resumed' \in [Commands -> Nat]
  BY DEF IInv, Types, CmdTypes
<1>2. RowOK(c)'
  BY DEF IInv, CmdInv, RowOK, NoFault
<1> QED BY <1>1, <1>2, HandlerStep

LEMMA ConsumerFaults ==
    ASSUME Types PROVE /\ ConsumerOnly => NoFault /\ faults' \in 0..MaxFaults
                       /\ Fault => NoFault /\ faults' \in 0..MaxFaults
                       /\ UNCHANGED acked => acked' \subseteq Commands
BY RiskAssumption DEF ConsumerOnly, Fault, Types, RestTypes

\* A handler that returns or gives up owes nothing.
LEMMA AtRest ==
    ASSUME NEW p \in Procs, NEW c \in Commands, cons'[p].step \in {"returned", "idle", "staged"}, NoFault,
           sent[c] = p
    PROVE  AtOK(p, c)'
BY DEF AtOK, NoFault, Resuming, Applying, Unwritten

LEMMA KeepsMark ==
    ASSUME IInv, NEW p \in Procs, markRestrictedRecoveryApplying(p) PROVE IInv' /\ StaysFinal
<1>1. PICK c \in Recoveries : cons[p].cmd = c /\ cons[p].step = "staged"
  BY DEF markRestrictedRecoveryApplying
<1>2. /\ c \in Commands /\ c \notin Signals /\ RowOK(c) /\ AtOK(p, c) /\ sent[c] = p /\ out[c] \in OutRec /\ Types
  BY <1>1, HasCommand, Distinct DEF AtOK, IInv
<1>3. UNCHANGED <<cache, ctl, resumed>> /\ NoFault /\ faults' \in 0..MaxFaults
  BY <1>2, ConsumerFaults DEF markRestrictedRecoveryApplying
<1>4. UNCHANGED <<sent, wrote>> /\ cons \in [Procs -> ConsRec]
  BY <1>2, <1>3 DEF NoFault, Types, CmdTypes
<1>5. CASE Return(p) /\ UNCHANGED out
  <2>1. PICK n \in ConsRec : /\ cons' = [cons EXCEPT ![p] = n] /\ n.cmd = c /\ n.ctl = None /\ n.step = "returned"
                             /\ acked' = acked
    BY <1>1, <1>2, <1>5, ReturnForm
  <2>2. AtOK(p, c)'
    BY <1>2, <1>3, <1>4, <2>1, AtRest
  <2> QED BY <1>1, <1>2, <1>3, <1>5, <2>1, <2>2, ConsumerFaults, PlainStep
<1>6. CASE out[c].state = "applied" /\ Goto(p, "resume") /\ UNCHANGED <<out, acked>>
  <2>1. PICK n \in ConsRec : /\ cons' = [cons EXCEPT ![p] = n] /\ n.cmd = c /\ n.ctl = cons[p].ctl /\ n.step = "resume"
    BY <1>1, <1>2, <1>6, GotoForm DEF Steps
  <2>2. AtOK(p, c)'
    BY <1>2, <1>4, <1>6, <2>1, <1>1 DEF AtOK, Resuming, Applying, Unwritten
  <2> QED BY <1>1, <1>2, <1>3, <1>6, <2>1, <2>2, ConsumerFaults, PlainStep
<1>7. CASE out[c].state = "applying" /\ Return(p) /\ out' = Ended(c, "failed")
  <2>1. PICK n \in ConsRec : /\ cons' = [cons EXCEPT ![p] = n] /\ n.cmd = c /\ n.ctl = None /\ n.step = "returned"
                             /\ acked' = acked
    BY <1>1, <1>2, <1>7, ReturnForm
  <2>2. AtOK(p, c)'
    BY <1>2, <1>3, <1>4, <2>1, AtRest
  <2>3. PICK r \in OutRec : /\ out' = [out EXCEPT ![c] = r] /\ r.state = "failed"
                            /\ r.changed = out[c].changed /\ r.resume = out[c].resume
    BY <1>2, <1>7, RecordedForm DEF Ended
  <2>4. out'[c] = r
    BY <1>2, <2>3, OutForm
  <2>5. RowOK(c)' /\ ~Final(c)
    BY <1>2, <1>3, <1>4, <1>7, <2>3, <2>4 DEF RowOK, Final, restrictedRecoveryOutcomeOf
  <2> QED BY <1>1, <1>2, <1>3, <2>1, <2>2, <2>3, <2>5, ConsumerFaults, RowStep
<1>8. CASE out[c].state = "submitted" /\ Goto(p, "marked") /\ out' = Recorded(c, "applying") /\ UNCHANGED acked
  <2>1. PICK n \in ConsRec : /\ cons' = [cons EXCEPT ![p] = n] /\ n.cmd = c /\ n.ctl = cons[p].ctl /\ n.step = "marked"
    BY <1>1, <1>2, <1>8, GotoForm DEF Steps
  <2>2. PICK r \in OutRec : /\ out' = [out EXCEPT ![c] = r] /\ r.state = "applying"
                            /\ r.changed = out[c].changed /\ r.resume = out[c].resume
    BY <1>2, <1>8, RecordedForm
  <2>3. out'[c] = r
    BY <1>2, <2>2, OutForm
  <2>4. RowOK(c)' /\ ~Final(c) /\ c \notin wrote
    BY <1>2, <1>3, <1>4, <1>8, <2>2, <2>3, <1>1 DEF RowOK, Final, restrictedRecoveryOutcomeOf
  <2>5. AtOK(p, c)'
    BY <1>1, <1>2, <1>4, <2>1, <2>2, <2>3, <2>4 DEF AtOK, Resuming, Applying, Unwritten
  <2> QED BY <1>1, <1>2, <1>3, <1>8, <2>1, <2>2, <2>4, <2>5, ConsumerFaults, RowStep
<1>9. /\ Stage(c) \in {"pending", "claimed"} => out[c].state = "applied"
      /\ Stage(c) = "applying" => out[c].state = "applying"
      /\ Stage(c) \notin {"refused", "failed", "completed", "pending", "claimed", "applying"} => out[c].state = "submitted"
  <2>1. /\ out[c].state \in {"submitted", "applying", "refused", "failed", "applied"}
        /\ out[c].resume \in {"none", "pending", "claimed", "completed"}
        /\ out[c].state = "applied" => out[c].resume # "none"
    BY <1>1, <1>2 DEF OutRec, RowOK
  <2> QED BY <2>1 DEF Stage
<1> QED BY <1>1, <1>5, <1>6, <1>7, <1>8, <1>9 DEF markRestrictedRecoveryApplying

LEMMA KeepsRecordRecoveryRefused ==
    ASSUME IInv, NEW p \in Procs, RecordRecoveryRefused(p) PROVE IInv' /\ StaysFinal
<1>1. PICK c \in Recoveries, st \in {"refused", "failed"} :
         /\ cons[p].cmd = c /\ cons[p].step \in {"refused", "error"} /\ out' = Ended(c, st)
         /\ st = "refused" => cons[p].step = "refused"
  BY DEF RecordRecoveryRefused
<1>2. /\ c \in Commands /\ c \notin Signals /\ RowOK(c) /\ AtOK(p, c) /\ sent[c] = p /\ out[c] \in OutRec /\ Types
  BY <1>1, HasCommand, Distinct DEF AtOK, IInv
<1>3. UNCHANGED <<cache, ctl, resumed>> /\ NoFault /\ faults' \in 0..MaxFaults /\ UNCHANGED <<sent, wrote>>
  BY <1>2, ConsumerFaults DEF RecordRecoveryRefused, NoFault
<1>4. PICK n \in ConsRec : /\ cons' = [cons EXCEPT ![p] = n] /\ n.cmd = c /\ n.ctl = None /\ n.step = "returned"
                           /\ acked' = acked
  BY <1>1, <1>2, ReturnForm DEF RecordRecoveryRefused
<1>5. AtOK(p, c)'
  BY <1>2, <1>3, <1>4, AtRest DEF Types, CmdTypes
<1>6. PICK r \in OutRec : /\ out' = [out EXCEPT ![c] = r] /\ r.state = st
                          /\ r.changed = out[c].changed /\ r.resume = out[c].resume
  BY <1>1, <1>2, RecordedForm DEF Ended
<1>7. out'[c] = r /\ out[c].state = "applying" /\ (st = "refused" => c \notin wrote)
  BY <1>1, <1>2, <1>6, OutForm DEF AtOK, Applying, Unwritten
<1>8. RowOK(c)' /\ ~Final(c)
  BY <1>1, <1>2, <1>3, <1>6, <1>7 DEF RowOK, Final, restrictedRecoveryOutcomeOf
<1> QED BY <1>1, <1>2, <1>3, <1>4, <1>5, <1>6, <1>8, ConsumerFaults, RowStep

LEMMA KeepsRecordRecoveryApplied ==
    ASSUME IInv, NEW p \in Procs, RecordRecoveryApplied(p) PROVE IInv' /\ StaysFinal
<1>1. cons[p].step \in {"accepted", "changed"}
  BY DEF RecordRecoveryApplied
<1>2. PICK c \in Commands : cons[p].cmd = c /\ RowOK(c) /\ AtOK(p, c) /\ sent[c] = p /\ out[c] \in OutRec
  BY <1>1, HasCommand DEF AtOK
<1>3. c \in Recoveries /\ c \notin Signals /\ out[c].state = "applying" /\ ~Final(c) /\ Types
  BY <1>1, <1>2, Distinct DEF AtOK, Applying, Final, restrictedRecoveryOutcomeOf, IInv
<1>4. resumed[c] = 0 /\ out[c].resume = "none" /\ (cons[p].step = "changed" => c \in wrote)
  BY <1>1, <1>2, <1>3 DEF RowOK, AtOK, OutRec
<1>5. UNCHANGED <<cache, ctl, resumed>> /\ NoFault /\ faults' \in 0..MaxFaults /\ UNCHANGED <<sent, wrote>>
  BY <1>3, ConsumerFaults DEF RecordRecoveryApplied, NoFault
<1>6. CASE out' = AppliedDomain(c, cons[p].step = "changed") /\ Goto(p, "resume") /\ UNCHANGED acked
  <2>1. PICK n \in ConsRec : /\ cons' = [cons EXCEPT ![p] = n] /\ n.cmd = c /\ n.ctl = cons[p].ctl /\ n.step = "resume"
    BY <1>2, <1>3, <1>6, GotoForm DEF Steps
  <2>2. PICK changed \in BOOLEAN : changed <=> cons[p].step = "changed"
    OBVIOUS
  <2>3. PICK r \in OutRec : /\ out' = [out EXCEPT ![c] = r] /\ r.state = "applied"
                            /\ (r.changed => cons[p].step = "changed") /\ r.resume = "pending"
    <3>1. PICK r : r = [state |-> "applied", changed |-> (cons[p].step = "changed"), resume |-> "pending"]
      OBVIOUS
    <3>2. r \in OutRec /\ r.state = "applied" /\ r.resume = "pending" /\ (r.changed => cons[p].step = "changed")
      BY <3>1 DEF OutRec
    <3> QED BY <1>6, <3>1, <3>2 DEF AppliedDomain
  <2>4. out'[c] = r
    BY <1>3, <2>3, OutForm
  <2>5. RowOK(c)'
    BY <1>2, <1>3, <1>4, <1>5, <2>3, <2>4 DEF RowOK
  <2>6. AtOK(p, c)'
    BY <1>2, <1>3, <1>5, <2>1, <2>3, <2>4 DEF AtOK, Resuming, Applying, Unwritten, Types, CmdTypes
  <2> QED BY <1>1, <1>2, <1>3, <1>5, <1>6, <2>1, <2>3, <2>5, <2>6, ConsumerFaults, RowStep
<1>7. CASE out' = Ended(c, "failed") /\ Return(p)
  <2>1. PICK n \in ConsRec : /\ cons' = [cons EXCEPT ![p] = n] /\ n.cmd = c /\ n.ctl = None /\ n.step = "returned"
                             /\ acked' = acked
    BY <1>2, <1>3, <1>7, ReturnForm
  <2>2. AtOK(p, c)'
    BY <1>2, <1>3, <1>5, <2>1, AtRest DEF Types, CmdTypes
  <2>3. PICK r \in OutRec : /\ out' = [out EXCEPT ![c] = r] /\ r.state = "failed"
                            /\ r.changed = out[c].changed /\ r.resume = out[c].resume
    BY <1>2, <1>3, <1>7, RecordedForm DEF Ended
  <2>4. out'[c] = r
    BY <1>3, <2>3, OutForm
  <2>5. RowOK(c)'
    BY <1>2, <1>3, <1>4, <1>5, <2>3, <2>4 DEF RowOK
  <2> QED BY <1>1, <1>2, <1>3, <1>5, <2>1, <2>2, <2>3, <2>5, ConsumerFaults, RowStep
<1> QED BY <1>2, <1>6, <1>7 DEF RecordRecoveryApplied

LEMMA KeepsClaimResume ==
    ASSUME IInv, NEW p \in Procs, ClaimResume(p) PROVE IInv' /\ StaysFinal
<1>1. PICK c \in Commands : /\ cons[p].cmd = c /\ cons[p].step = "resume" /\ RowOK(c) /\ AtOK(p, c)
                            /\ sent[c] = p /\ out[c] \in OutRec /\ resumed[c] \in Nat
  BY HasCommand DEF AtOK, ClaimResume
<1>2. c \in Recoveries /\ c \notin Signals /\ out[c].state = "applied" /\ Types
  BY <1>1, Distinct DEF AtOK, Resuming, IInv
<1>3. UNCHANGED <<cache, ctl, resumed>> /\ NoFault /\ faults' \in 0..MaxFaults /\ UNCHANGED <<sent, wrote>>
  BY <1>2, ConsumerFaults DEF ClaimResume, NoFault
<1>4. CASE out[c].resume = "pending" /\ out' = [out EXCEPT ![c].resume = "claimed"] /\ Goto(p, "claimed") /\ UNCHANGED acked
  <2>1. PICK n \in ConsRec : /\ cons' = [cons EXCEPT ![p] = n] /\ n.cmd = c /\ n.ctl = cons[p].ctl /\ n.step = "claimed"
    BY <1>1, <1>2, <1>4, GotoForm DEF Steps
  <2>2. PICK r \in OutRec : /\ out' = [out EXCEPT ![c] = r] /\ r.resume = "claimed"
                            /\ r.changed = out[c].changed /\ r.state = "applied"
    <3>1. PICK r \in OutRec : /\ out' = [out EXCEPT ![c] = r] /\ r.resume = "claimed"
                              /\ r.changed = out[c].changed /\ r.state = out[c].state
      BY <1>2, <1>4, ResumeForm
    <3> QED BY <1>2, <3>1
  <2>3. out'[c] = r /\ resumed[c] = 0 /\ ~Final(c)
    BY <1>1, <1>2, <1>4, <2>2, OutForm DEF RowOK, Final, restrictedRecoveryOutcomeOf
  <2>4. RowOK(c)'
    BY <1>1, <1>2, <1>3, <2>2, <2>3 DEF RowOK
  <2>5. AtOK(p, c)'
    BY <1>1, <1>2, <1>3, <2>1, <2>2, <2>3 DEF AtOK, Resuming, Applying, Unwritten, Types, CmdTypes
  <2> QED BY <1>1, <1>2, <1>3, <1>4, <2>1, <2>2, <2>3, <2>4, <2>5, ConsumerFaults, RowStep
<1>5. CASE out[c].resume = "claimed" /\ out' = [out EXCEPT ![c].resume = "completed"] /\ Return(p)
  <2>1. PICK n \in ConsRec : /\ cons' = [cons EXCEPT ![p] = n] /\ n.cmd = c /\ n.ctl = None /\ n.step = "returned"
                             /\ acked' = acked
    BY <1>1, <1>2, <1>5, ReturnForm
  <2>2. PICK r \in OutRec : /\ out' = [out EXCEPT ![c] = r] /\ r.resume = "completed"
                            /\ r.changed = out[c].changed /\ r.state = "applied"
    <3>1. PICK r \in OutRec : /\ out' = [out EXCEPT ![c] = r] /\ r.resume = "completed"
                              /\ r.changed = out[c].changed /\ r.state = out[c].state
      BY <1>2, <1>5, ResumeForm
    <3> QED BY <1>2, <3>1
  <2>3. out'[c] = r /\ ~Final(c)
    BY <1>1, <1>2, <1>5, <2>2, OutForm DEF Final, restrictedRecoveryOutcomeOf
  <2>4. RowOK(c)'
    BY <1>1, <1>2, <1>3, <2>2, <2>3 DEF RowOK
  <2>5. AtOK(p, c)'
    BY <1>1, <1>2, <1>3, <2>1, AtRest DEF Types, CmdTypes
  <2> QED BY <1>1, <1>2, <1>3, <2>1, <2>2, <2>3, <2>4, <2>5, ConsumerFaults, RowStep
<1>6. CASE Return(p) /\ UNCHANGED out
  <2>1. PICK n \in ConsRec : /\ cons' = [cons EXCEPT ![p] = n] /\ n.cmd = c /\ n.ctl = None /\ n.step = "returned"
                             /\ acked' = acked
    BY <1>1, <1>2, <1>6, ReturnForm
  <2>2. AtOK(p, c)'
    BY <1>1, <1>2, <1>3, <2>1, AtRest DEF Types, CmdTypes
  <2> QED BY <1>1, <1>2, <1>3, <1>6, <2>1, <2>2, ConsumerFaults, PlainStep
<1> QED BY <1>1, <1>4, <1>5, <1>6 DEF ClaimResume

\* The claim comes before the call: nobody has resumed for this command, and nobody will again.
LEMMA KeepsResumeEdges ==
    ASSUME IInv, NEW p \in Procs, ResumeEdges(p) PROVE IInv' /\ StaysFinal
<1>1. PICK c \in Commands : /\ cons[p].cmd = c /\ cons[p].step = "claimed" /\ RowOK(c) /\ AtOK(p, c)
                            /\ sent[c] = p /\ out[c] \in OutRec
  BY HasCommand DEF AtOK, ResumeEdges
<1>2. /\ c \in Recoveries /\ c \notin Signals /\ out[c].state = "applied" /\ out[c].resume = "claimed"
      /\ resumed[c] = 0 /\ Types
  BY <1>1, Distinct DEF AtOK, Resuming, IInv
<1>3. UNCHANGED <<cache, ctl, out>> /\ NoFault /\ faults' \in 0..MaxFaults /\ UNCHANGED <<sent, wrote>> /\ acked' \subseteq Commands
  BY <1>2, ConsumerFaults DEF ResumeEdges, NoFault
<1>4. PICK n \in ConsRec : /\ cons' = [cons EXCEPT ![p] = n] /\ n.cmd = c /\ n.ctl = cons[p].ctl /\ n.step = "resumed"
  BY <1>1, <1>2, GotoForm DEF Steps, ResumeEdges
<1>5. /\ resumed' \in [Commands -> Nat] /\ resumed'[c] = 1 /\ out' \in [Commands -> OutRec]
      /\ \A d \in Commands \ {c} : resumed'[d] = resumed[d]
  BY <1>1, <1>2, <1>3 DEF ResumeEdges, Types, CmdTypes
<1>6. RowOK(c)'
  BY <1>1, <1>2, <1>3, <1>5 DEF RowOK
<1>7. AtOK(p, c)'
  BY <1>1, <1>2, <1>3, <1>4 DEF AtOK, Resuming, Applying, Unwritten, Types, CmdTypes
<1> QED BY <1>1, <1>3, <1>4, <1>5, <1>6, <1>7, HandlerStep

LEMMA KeepsRecordResumeResult ==
    ASSUME IInv, NEW p \in Procs, RecordResumeResult(p) PROVE IInv' /\ StaysFinal
<1>1. PICK c \in Commands : /\ cons[p].cmd = c /\ cons[p].step = "resumed" /\ RowOK(c) /\ AtOK(p, c)
                            /\ sent[c] = p /\ out[c] \in OutRec
  BY HasCommand DEF AtOK, RecordResumeResult
<1>2. c \in Recoveries /\ c \notin Signals /\ out[c].state = "applied" /\ out[c].resume = "claimed" /\ Types
  BY <1>1, Distinct DEF AtOK, Resuming, IInv
<1>3. UNCHANGED <<cache, ctl, resumed>> /\ NoFault /\ faults' \in 0..MaxFaults /\ UNCHANGED <<sent, wrote>>
  BY <1>2, ConsumerFaults DEF RecordResumeResult, NoFault
<1>4. PICK n \in ConsRec : /\ cons' = [cons EXCEPT ![p] = n] /\ n.cmd = c /\ n.ctl = None /\ n.step = "returned"
                           /\ acked' = acked
  BY <1>1, <1>2, ReturnForm DEF RecordResumeResult
<1>5. PICK r \in OutRec : /\ out' = [out EXCEPT ![c] = r] /\ r.resume = "completed"
                          /\ r.changed = out[c].changed /\ r.state = "applied"
  <2>1. PICK r \in OutRec : /\ out' = [out EXCEPT ![c] = r] /\ r.resume = "completed"
                            /\ r.changed = out[c].changed /\ r.state = out[c].state
    BY <1>1, <1>2, ResumeForm DEF RecordResumeResult
  <2> QED BY <1>2, <2>1
<1>6. out'[c] = r /\ ~Final(c)
  BY <1>1, <1>2, <1>5, OutForm DEF Final, restrictedRecoveryOutcomeOf
<1>7. RowOK(c)'
  BY <1>1, <1>2, <1>3, <1>5, <1>6 DEF RowOK
<1>8. AtOK(p, c)'
  BY <1>1, <1>2, <1>3, <1>4, AtRest DEF Types, CmdTypes
<1> QED BY <1>1, <1>2, <1>3, <1>4, <1>5, <1>6, <1>7, <1>8, ConsumerFaults, RowStep

LEMMA KeepsRecordApplied ==
    ASSUME IInv, NEW p \in Procs, RecordApplied(p) PROVE IInv' /\ StaysFinal
<1>1. PICK c \in Commands : /\ cons[p].cmd = c /\ cons[p].step = "written" /\ RowOK(c) /\ AtOK(p, c)
                            /\ sent[c] = p /\ out[c] \in OutRec
  BY HasCommand DEF AtOK, RecordApplied
<1>2. c \in Signals /\ c \notin Recoveries /\ c \in wrote /\ Types
  BY <1>1, Distinct DEF AtOK, IInv
<1>3. UNCHANGED <<cache, ctl, resumed>> /\ NoFault /\ faults' \in 0..MaxFaults /\ UNCHANGED <<sent, wrote>>
  BY <1>2, ConsumerFaults DEF RecordApplied, NoFault
<1>4. PICK n \in ConsRec : /\ cons' = [cons EXCEPT ![p] = n] /\ n.cmd = c /\ n.ctl = None /\ n.step = "returned"
                           /\ acked' = acked
  BY <1>1, <1>2, ReturnForm DEF RecordApplied
<1>5. PICK r \in OutRec : out' = [out EXCEPT ![c] = r]
  <2>1. out' = Recorded(c, "applied")
    BY <1>1 DEF RecordApplied, Recorded
  <2> QED BY <1>2, <2>1, RecordedForm
<1>6. RowOK(c)'
  BY <1>2, <1>3 DEF RowOK
<1>7. AtOK(p, c)'
  BY <1>1, <1>2, <1>3, <1>4, AtRest DEF Types, CmdTypes
<1> QED BY <1>1, <1>2, <1>3, <1>4, <1>5, <1>6, <1>7, ConsumerFaults, RowStep

\* A handler that ends without an answer: the command is delivered again.
LEMMA ThrowForm ==
    ASSUME Types, NEW p \in Procs, NEW c \in Commands, sent[c] = p, Throw(p), NoFault
    PROVE  cons' = [cons EXCEPT ![p] = Idle] /\ acked' \subseteq Commands /\ AtOK(p, c)'
<1>1. cons' = [cons EXCEPT ![p] = Idle] /\ acked' \subseteq Commands
  BY DEF Throw, Types, RestTypes
<1>2. cons'[p] = Idle
  BY <1>1 DEF Types, CmdTypes
<1> QED BY <1>1, <1>2, IdleForm, AtRest

LEMMA KeepsRecordFailed ==
    ASSUME IInv, NEW p \in Procs, RecordFailed(p) PROVE IInv' /\ StaysFinal
<1>1. PICK c \in Signals : cons[p].cmd = c /\ cons[p].step = "error"
  BY DEF RecordFailed
<1>2. c \in Commands /\ c \notin Recoveries /\ RowOK(c) /\ AtOK(p, c) /\ sent[c] = p /\ Types /\ out[c] \in OutRec
  BY <1>1, HasCommand, Distinct DEF AtOK, IInv
<1>3. UNCHANGED <<cache, ctl, resumed>> /\ NoFault /\ faults' \in 0..MaxFaults /\ UNCHANGED <<sent, wrote>>
  BY <1>2, ConsumerFaults DEF RecordFailed, NoFault
<1>4. PICK r \in OutRec : out' = [out EXCEPT ![c] = r] /\ r.state = "failed"
  <2>1. out' = Recorded(c, "failed")
    BY <1>1 DEF RecordFailed, Recorded
  <2> QED BY <1>2, <2>1, RecordedForm
<1>5. out'[c] = r
  BY <1>2, <1>4, OutForm
<1>6. RowOK(c)'
  BY <1>2, <1>4, <1>5 DEF RowOK
<1>7. cons' = [cons EXCEPT ![p] = Idle] /\ acked' \subseteq Commands /\ AtOK(p, c)'
  BY <1>2, <1>3, ThrowForm DEF RecordFailed
<1> QED BY <1>1, <1>2, <1>3, <1>4, <1>6, <1>7, IdleForm, RowStep

LEMMA KeepsHandlerThrows ==
    ASSUME IInv, NEW p \in Procs, HandlerThrows(p) PROVE IInv' /\ StaysFinal
<1>1. cons[p].step \notin {"idle", "mutating"}
  BY DEF HandlerThrows
<1>2. PICK c \in Commands : cons[p].cmd = c /\ sent[c] = p /\ Types
  BY <1>1, HasCommand DEF AtOK, IInv
<1>3. UNCHANGED <<cache, ctl, out, resumed>> /\ NoFault /\ faults' \in 0..MaxFaults /\ Throw(p)
  BY <1>2, ConsumerFaults DEF HandlerThrows
<1>4. cons' = [cons EXCEPT ![p] = Idle] /\ acked' \subseteq Commands /\ AtOK(p, c)'
  BY <1>2, <1>3, ThrowForm
<1> QED BY <1>1, <1>2, <1>3, <1>4, IdleForm, PlainStep

LEMMA KeepsAdvanceCursor ==
    ASSUME IInv, NEW p \in Procs, AdvanceCursor(p) PROVE IInv' /\ StaysFinal
<1>1. PICK c \in Commands : cons[p].cmd = c /\ sent[c] = p /\ Types /\ cons[p].step = "returned"
  BY HasCommand DEF AtOK, IInv, AdvanceCursor
<1>2. UNCHANGED <<cache, ctl, out, resumed>> /\ NoFault /\ faults' \in 0..MaxFaults
  BY <1>1, ConsumerFaults DEF AdvanceCursor
<1>3. cons' = [cons EXCEPT ![p] = Idle] /\ acked' \subseteq Commands
  BY <1>1 DEF AdvanceCursor, Types, RestTypes
<1>4. cons'[p] = Idle
  BY <1>1, <1>3 DEF Types, CmdTypes
<1>5. AtOK(p, c)'
  BY <1>1, <1>2, <1>4, IdleForm, AtRest
<1> QED BY <1>1, <1>2, <1>3, <1>5, IdleForm, PlainStep

\* A consumer that waits is handed a command sent to its process.
LEMMA KeepsDeliver ==
    ASSUME IInv, NEW p \in Procs, Deliver(p) PROVE IInv' /\ StaysFinal
<1>1. PICK c \in Commands :
         /\ cons[p].step = "idle" /\ sent[c] = p /\ cons' = [cons EXCEPT ![p] = [cmd |-> c, step |-> "staged", ctl |-> None]]
         /\ UNCHANGED <<cache, ctl, acked, out, resumed>> /\ ConsumerOnly
  BY DEF Deliver
<1>2. [cmd |-> c, step |-> "staged", ctl |-> None] \in ConsRec
  BY DEF ConsRec, Steps
<1>3. /\ cons' \in [Procs -> ConsRec] /\ cons'[p] = [cmd |-> c, step |-> "staged", ctl |-> None]
      /\ \A q \in Procs \ {p} : cons'[q] = cons[q]
  BY <1>1, <1>2 DEF IInv, Types, CmdTypes
<1>4. UNCHANGED <<sent, wrote, out, resumed, cache, ctl>> /\ Types'
  BY <1>1, <1>3 DEF ConsumerOnly, NoFault, IInv, Types, CmdTypes, CtlTypes, RestTypes
<1>5. \A q \in Procs, d \in Commands : AtOK(q, d)'
  <2> SUFFICES ASSUME NEW q \in Procs, NEW d \in Commands PROVE AtOK(q, d)'
    OBVIOUS
  <2>1. CASE q = p
    BY <1>1, <1>3, <1>4, <2>1 DEF AtOK, Resuming, Applying, Unwritten
  <2>2. CASE q # p
    BY <1>3, <1>4, <2>2 DEF IInv, CmdInv, AtOK
  <2> QED BY <2>1, <2>2
<1>6. CmdInv' /\ StaysFinal
  BY <1>4, <1>5 DEF IInv, CmdInv, RowOK, StaysFinal, restrictedRecoveryOutcomeOf
<1>7. \A q \in Procs : ProcOK(q)'
  BY <1>3, <1>4 DEF IInv, CtlInv, ProcOK
<1>8. \A q \in Procs, d \in Commands : Waits(q, d) => Waits(q, d)'
  BY <1>1, <1>3 DEF Waits
<1>9. \A k \in Ctls : ByOK(k)'
  BY <1>4, <1>8 DEF IInv, CtlInv, ByOK
<1> QED BY <1>4, <1>6, <1>7, <1>9 DEF IInv, CtlInv

-----------------------------------------------------------------------------
(* Handlers and controllers together *)

LEMMA KeepsCommandGetsController ==
    ASSUME IInv, NEW p \in Procs, CommandGetsController(p) PROVE IInv' /\ StaysFinal
<1>1. PICK c \in Commands : /\ cons[p].cmd = c /\ AtOK(p, c) /\ sent[c] = p /\ Types
                            /\ cons[p].step = IF c \in Recoveries THEN "marked" ELSE "staged"
  BY HasCommand DEF AtOK, IInv, CommandGetsController
<1>2. UNCHANGED <<acked, out, resumed>>
  BY DEF CommandGetsController
<1>3. CASE Goto(p, "error") /\ Fault /\ UNCHANGED <<cache, ctl>>
  <2>1. PICK n \in ConsRec : /\ cons' = [cons EXCEPT ![p] = n] /\ n.cmd = c /\ n.ctl = cons[p].ctl /\ n.step = "error"
    BY <1>1, <1>3, GotoForm DEF Steps
  <2>2. NoFault /\ faults' \in 0..MaxFaults /\ acked' \subseteq Commands
    BY <1>1, <1>2, <1>3, ConsumerFaults
  <2>3. AtOK(p, c)'
    BY <1>1, <1>2, <2>1, <2>2 DEF AtOK, Resuming, Applying, Unwritten, Types, CmdTypes, NoFault
  <2> QED BY <1>1, <1>2, <1>3, <2>1, <2>2, <2>3, PlainStep
<1>4. ASSUME NEW k \in Ctls, Materialize(p, k), cons' = [cons EXCEPT ![p].ctl = k, ![p].step = "got"], ConsumerOnly
      PROVE  IInv' /\ StaysFinal
  <2>1. cons[p] \in ConsRec /\ cons \in [Procs -> ConsRec]
    BY <1>1 DEF Types, CmdTypes
  <2>2. PICK n : n = [cons[p] EXCEPT !.ctl = k, !.step = "got"]
    OBVIOUS
  <2>3. n \in ConsRec /\ n.cmd = c /\ n.ctl = k /\ n.step = "got"
    BY <1>1, <2>1, <2>2 DEF ConsRec, Steps
  <2>4. cons' = [cons EXCEPT ![p] = n]
    BY <1>4, <2>1, <2>2
  <2>5. cons' \in [Procs -> ConsRec] /\ cons'[p] = n /\ \A q \in Procs \ {p} : cons'[q] = cons[q]
    BY <2>1, <2>3, <2>4
  <2>6. UNCHANGED <<owner, row, now, conns, hs, sweep, sent, reports, shakes, wrote, faults>>
    BY <1>4 DEF ConsumerOnly, NoFault
  <2>7. AtOK(p, c)' /\ RowOK(c)'
    BY <1>1, <1>2, <2>3, <2>5, <2>6 DEF AtOK, Resuming, Applying, Unwritten, IInv, CmdInv, RowOK
  <2>8. CmdInv' /\ StaysFinal
    BY <1>1, <1>2, <2>3, <2>5, <2>6, <2>7, CmdKept
  <2>9. CASE cache[p] # None
    <3>1. k = cache[p] /\ UNCHANGED <<cache, ctl>> /\ ctl[k].proc = p
      BY <1>4, <2>9 DEF Materialize, IInv, CtlInv, ProcOK
    <3>2. \A q \in Procs : ProcOK(q)'
      <4> SUFFICES ASSUME NEW q \in Procs PROVE ProcOK(q)'
        OBVIOUS
      <4>1. ProcOK(q)
        BY DEF IInv, CtlInv
      <4>2. CASE q = p
        BY <1>1, <2>3, <2>5, <3>1, <4>1, <4>2, Distinct DEF ProcOK
      <4>3. CASE q # p
        BY <2>5, <3>1, <4>1, <4>3 DEF ProcOK
      <4> QED BY <4>2, <4>3
    <3>3. \A q \in Procs, d \in Commands : Waits(q, d) => Waits(q, d)'
      BY <1>1, <2>5 DEF Waits
    <3>4. \A j \in Ctls : ByOK(j)'
      BY <3>1, <3>3 DEF IInv, CtlInv, ByOK
    <3> QED BY <1>1, <1>2, <2>5, <2>6, <2>8, <3>1, <3>2, <3>4 DEF IInv, CtlInv, Types, CmdTypes, CtlTypes, RestTypes
  <2>10. CASE cache[p] = None
    <3>1. Load(p, k)
      BY <1>4, <2>10 DEF Materialize
    <3>2. /\ k \notin InUse /\ ctl[k].step = "idle" /\ CtlTypes'
          /\ cache'[p] = k /\ \A q \in Procs \ {p} : cache'[q] = cache[q]
          /\ \A j \in Ctls \ {k} : ctl'[j] = ctl[j]
          /\ ctl'[k].proc = p /\ ctl'[k].by = None /\ ctl'[k].step = "idle"
      BY <1>1, <3>1, LoadFacts
    <3>3. CtlInv'
      BY <1>1, <2>3, <2>5, <3>2, CtlStep, Distinct
    <3> QED BY <1>1, <1>2, <2>5, <2>6, <2>8, <3>2, <3>3 DEF IInv, Types, CmdTypes, RestTypes
  <2> QED BY <2>9, <2>10
<1> QED BY <1>3, <1>4 DEF CommandGetsController

\* A handler changes the state of its controller, and waits for the write.
LEMMA KeepsMutating ==
    ASSUME IInv, NEW p \in Procs, NEW c \in Commands, cons[p].cmd = c, cons[p].step = "got", NEW k \in Ctls, k = cons[p].ctl,
           NEW kind, Mutate(k, kind, c), Goto(p, "mutating"), UNCHANGED <<cache, acked, out, resumed>>, ConsumerOnly
    PROVE  IInv' /\ StaysFinal
<1>1. AtOK(p, c) /\ RowOK(c) /\ Types
  BY DEF IInv, CmdInv
<1>2. PICK n \in ConsRec : /\ cons' = [cons EXCEPT ![p] = n] /\ n.cmd = c /\ n.ctl = k /\ n.step = "mutating"
  BY <1>1, GotoForm DEF Steps
<1>3. cons' \in [Procs -> ConsRec] /\ cons'[p] = n /\ \A q \in Procs \ {p} : cons'[q] = cons[q]
  BY <1>1, <1>2 DEF Types, CmdTypes
<1>4. UNCHANGED <<owner, row, now, conns, hs, sweep, sent, reports, shakes, wrote, faults>>
  BY DEF ConsumerOnly, NoFault
<1>5. AtOK(p, c)' /\ RowOK(c)'
  BY <1>1, <1>2, <1>3, <1>4 DEF AtOK, Resuming, Applying, Unwritten, RowOK
<1>6. CmdInv' /\ StaysFinal
  BY <1>2, <1>3, <1>4, <1>5, CmdKept
<1>7. /\ ctl[k].step = "idle" /\ ctl' \in [Ctls -> CtlRec] /\ \A j \in Ctls \ {k} : ctl'[j] = ctl[j]
      /\ ctl'[k].proc = ctl[k].proc /\ ctl'[k].by = c /\ ctl'[k].step = "check"
  BY <1>1, MutateFacts
<1>8. ctl[k].proc = p
  BY Distinct DEF IInv, CtlInv, ProcOK
<1>9. Waits(p, c)'
  BY <1>2, <1>3 DEF Waits
<1>10. CtlInv'
  BY <1>2, <1>3, <1>7, <1>8, <1>9, CtlStep, Distinct
<1> QED BY <1>1, <1>3, <1>4, <1>6, <1>7, <1>10 DEF IInv, Types, CmdTypes, CtlTypes, RestTypes

LEMMA KeepsrecoverRestricted ==
    ASSUME IInv, NEW p \in Procs, recoverRestricted(p) PROVE IInv' /\ StaysFinal
<1>1. PICK c \in Recoveries : cons[p].cmd = c /\ cons[p].step = "got"
  BY DEF recoverRestricted
<1>2. c \in Commands /\ AtOK(p, c) /\ sent[c] = p /\ Types
  BY <1>1, HasCommand DEF AtOK, IInv
<1>3. UNCHANGED <<cache, acked, out, resumed>> /\ ConsumerOnly /\ NoFault /\ faults' \in 0..MaxFaults
  BY <1>2, ConsumerFaults DEF recoverRestricted
<1>4. ASSUME NEW s \in {"accepted", "refused"}, Goto(p, s), UNCHANGED ctl PROVE IInv' /\ StaysFinal
  <2>1. PICK n \in ConsRec : /\ cons' = [cons EXCEPT ![p] = n] /\ n.cmd = c /\ n.ctl = cons[p].ctl /\ n.step = s
    BY <1>1, <1>2, <1>4, GotoForm DEF Steps
  <2>2. AtOK(p, c)'
    BY <1>1, <1>2, <1>3, <2>1 DEF AtOK, Resuming, Applying, Unwritten, Types, CmdTypes, NoFault
  <2>3. acked' \subseteq Commands
    BY <1>2, <1>3, ConsumerFaults
  <2> QED BY <1>1, <1>2, <1>3, <1>4, <2>1, <2>2, <2>3, PlainStep
<1>5. ASSUME Mutate(cons[p].ctl, "operator_override_recover", c), Goto(p, "mutating"), cons[p].ctl \in Ctls
      PROVE  IInv' /\ StaysFinal
  BY <1>1, <1>2, <1>3, <1>5, KeepsMutating
<1>6. cons[p].ctl \in Ctls
  BY <1>1, <1>2, HasController DEF IInv
<1> QED BY <1>1, <1>4, <1>5, <1>6 DEF recoverRestricted

LEMMA KeepsApplySignal ==
    ASSUME IInv, NEW p \in Procs, ApplySignal(p) PROVE IInv' /\ StaysFinal
<1>1. PICK c \in Commands : cons[p].cmd = c /\ cons[p].step = "got" /\ Types
  BY HasCommand DEF ApplySignal, IInv
<1>2. cons[p].ctl \in Ctls
  BY <1>1, HasController DEF IInv
<1> QED BY <1>1, <1>2, KeepsMutating DEF ApplySignal

-----------------------------------------------------------------------------
(* Writes *)

\* The write of k is over, and whoever waits for it learns how it ended.
LEMMA KeepsAnswer ==
    ASSUME IInv, NEW k \in Ctls, ctl[k].step # "idle", NEW ok \in BOOLEAN, Answer(ctl[k].by, ok),
           ctl' = [ctl EXCEPT ![k].step = "idle", ![k].by = None],
           cache' \in [Procs -> Ctls \cup {None}], \A q \in Procs : cache'[q] \in {cache[q], None},
           wrote' = IF ok THEN wrote \cup ({ctl[k].by} \cap Commands) ELSE wrote,
           UNCHANGED <<sent, out, resumed>>, RestTypes'
    PROVE  IInv' /\ StaysFinal
<1>1. PICK b \in Commands \cup {"conn", "sweep", None} : b = ctl[k].by
  BY DEF IInv, Types, CtlTypes, CtlRec
<1>2. b # None /\ Types /\ ctl[k] \in CtlRec /\ ctl \in [Ctls -> CtlRec] /\ cons \in [Procs -> ConsRec]
  BY <1>1 DEF IInv, CtlInv, ByOK, Types, CtlTypes, CmdTypes
<1>3. PICK r : r = [ctl[k] EXCEPT !.step = "idle", !.by = None]
  OBVIOUS
<1>4. r \in CtlRec /\ r.proc = ctl[k].proc /\ r.step = "idle" /\ r.by = None
  BY <1>2, <1>3, CtlForms
<1>5. ctl' = [ctl EXCEPT ![k] = r]
  BY <1>2, <1>3
<1>6. ctl' \in [Ctls -> CtlRec] /\ ctl'[k] = r /\ \A j \in Ctls \ {k} : ctl'[j] = ctl[j]
  BY <1>2, <1>4, <1>5
<1>7. PICK s \in {"error", "changed", "written"} :
        s = IF ~ok THEN "error" ELSE IF b \in Recoveries THEN "changed" ELSE "written"
  OBVIOUS
<1>8. ASSUME NEW q \in Procs
      PROVE  /\ cons'[q] \in ConsRec /\ cons'[q].cmd = cons[q].cmd /\ cons'[q].ctl = cons[q].ctl
             /\ Waits(q, b) => cons'[q].step = s
             /\ ~Waits(q, b) => cons'[q] = cons[q]
  <2>1. cons'[q] = IF Waits(q, b) THEN [cons[q] EXCEPT !.step = s] ELSE cons[q]
    BY <1>1, <1>7 DEF Answer, Waits
  <2>2. cons[q] \in ConsRec
    BY <1>2
  <2> QED BY <2>1, <2>2 DEF ConsRec, Steps
<1>9. cons' \in [Procs -> ConsRec]
  <2>1. cons' = [q \in Procs |-> cons'[q]]
    BY DEF Answer
  <2> QED BY <1>8, <2>1
<1>10. Types'
  BY <1>2, <1>6, <1>9 DEF Types, CmdTypes, CtlTypes
<1>11. ASSUME NEW q \in Procs PROVE ProcOK(q)'
  <2>1. ProcOK(q) /\ \A j \in Ctls : ctl'[j].proc = ctl[j].proc
    BY <1>4, <1>6 DEF IInv, CtlInv
  <2>2. cache[q] \in Ctls \cup {None} /\ cons[q].ctl \in Ctls \cup {None}
    BY <1>2 DEF Types, CtlTypes, ConsRec
  <2>3. cons'[q].step = "got" => cons[q].step = "got"
    BY <1>8
  <2>4. cons'[q].step # "idle" => cons[q].step # "idle"
    BY <1>8 DEF Waits
  <2> QED BY <1>8, <2>1, <2>2, <2>3, <2>4 DEF ProcOK
<1>12. ASSUME NEW j \in Ctls PROVE ByOK(j)'
  <2>1. CASE j = k
    BY <1>4, <1>6, <2>1, Distinct DEF ByOK
  <2>2. CASE j # k
    <3>1. ByOK(j) /\ ByOK(k) /\ ctl'[j] = ctl[j]
      BY <1>6, <2>2 DEF IInv, CtlInv
    <3>2. ctl[j].by \in Commands => ctl[j].by # b
      BY <1>1, <2>2, <3>1 DEF ByOK
    <3>3. ASSUME NEW d \in Commands, ctl'[j].by = d PROVE \E q \in Procs : ctl'[j].proc = q /\ Waits(q, d)'
      <4>1. PICK q \in Procs : ctl[j].proc = q /\ Waits(q, d)
        BY <3>1, <3>3 DEF ByOK
      <4>2. cons'[q] = cons[q]
        BY <1>8, <3>1, <3>2, <3>3, <4>1 DEF Waits
      <4> QED BY <3>1, <4>1, <4>2 DEF Waits
    <3>4. \A i \in Ctls : ctl'[j].by \in Commands /\ ctl'[i].by = ctl'[j].by => i = j
      BY <1>4, <1>6, <3>1, Distinct DEF ByOK
    <3>5. ctl'[j].by = None <=> ctl'[j].step = "idle"
      BY <3>1 DEF ByOK
    <3> QED BY <3>3, <3>4, <3>5 DEF ByOK
  <2> QED BY <2>1, <2>2
<1>13. b \in Commands => \E p \in Procs : Waits(p, b)
  BY <1>1 DEF IInv, CtlInv, ByOK
<1>14. \A c \in Commands : c # b => (c \in wrote' <=> c \in wrote)
  BY <1>1
<1>15. wrote \subseteq wrote' /\ (ok /\ b \in Commands => b \in wrote') /\ (~ok => wrote' = wrote)
  BY <1>1
<1>16. ASSUME NEW c \in Commands PROVE RowOK(c)'
  <2>1. CASE c = b
    <3>1. PICK p \in Procs : Waits(p, c)
      BY <1>13, <2>1
    <3>2. c \in Recoveries => out[c].state = "applying"
      BY <3>1 DEF IInv, CmdInv, AtOK, Waits, Applying
    <3>3. RowOK(c)
      BY DEF IInv, CmdInv
    <3> QED BY <1>15, <3>2, <3>3 DEF RowOK
  <2>2. CASE c # b
    BY <1>14, <2>2 DEF IInv, CmdInv, RowOK
  <2> QED BY <2>1, <2>2
<1>17. ASSUME NEW q \in Procs, NEW c \in Commands PROVE AtOK(q, c)'
  <2> SUFFICES ASSUME cons'[q].cmd = c PROVE AtOK(q, c)'
    BY DEF AtOK
  <2>1. cons[q].cmd = c /\ AtOK(q, c)
    BY <1>8 DEF IInv, CmdInv
  <2>2. CASE Waits(q, b)
    <3>1. c = b /\ cons'[q].step = s /\ cons[q].step = "mutating"
      BY <1>8, <2>1, <2>2 DEF Waits
    <3>2. sent'[c] = q /\ out' = out /\ (c \in Recoveries => out[c].state = "applying")
      BY <2>1, <3>1 DEF AtOK, Applying
    <3>3. CASE s = "error"
      BY <3>1, <3>2, <3>3 DEF AtOK, Applying, Unwritten, Resuming
    <3>4. CASE s = "changed"
      <4>1. c \in Recoveries /\ c \in wrote'
        BY <1>7, <1>15, <3>1, <3>4
      <4> QED BY <3>1, <3>2, <3>4, <4>1 DEF AtOK, Applying, Unwritten, Resuming
    <3>5. CASE s = "written"
      <4>1. c \notin Recoveries /\ c \in Signals /\ c \in wrote'
        BY <1>7, <1>15, <3>1, <3>5, Distinct
      <4> QED BY <3>1, <3>2, <3>5, <4>1 DEF AtOK, Applying, Unwritten, Resuming
    <3> QED BY <3>3, <3>4, <3>5
  <2>3. CASE ~Waits(q, b)
    <3>1. cons'[q] = cons[q]
      BY <1>8, <2>3
    <3>2. c # b
      BY <1>13, <2>1, <2>3, OneHandler DEF Waits, IInv
    <3> QED BY <1>14, <2>1, <3>1, <3>2 DEF AtOK
  <2> QED BY <2>2, <2>3
<1>18. StaysFinal
  BY DEF StaysFinal, restrictedRecoveryOutcomeOf
<1> QED BY <1>10, <1>11, <1>12, <1>16, <1>17, <1>18 DEF IInv, CtlInv, CmdInv

LEMMA KeepsSaveStateReads ==
    ASSUME IInv, NEW k \in Ctls, SaveStateReads(k) PROVE IInv' /\ StaysFinal
<1>1. /\ ctl[k].step = "check" /\ Types /\ ctl[k] \in CtlRec
      /\ UNCHANGED <<owner, row, now, conns, hs, sweep, sent, acked, out, reports, shakes, faults, resumed, wrote>>
  BY DEF SaveStateReads, IInv, Types, CtlTypes
<1>2. RestTypes'
  BY <1>1 DEF Types, RestTypes
<1>3. CASE ctl' = [ctl EXCEPT ![k].step = "write"] /\ UNCHANGED <<cache, cons>>
  <2>1. PICK r : r = [ctl[k] EXCEPT !.step = "write"]
    OBVIOUS
  <2>2. r \in CtlRec /\ r.proc = ctl[k].proc /\ r.by = ctl[k].by /\ r.step = "write"
    BY <1>1, <2>1, CtlForms
  <2>3. ctl' = [ctl EXCEPT ![k] = r]
    BY <1>1, <1>3, <2>1 DEF Types, CtlTypes
  <2>4. ctl' \in [Ctls -> CtlRec] /\ ctl'[k] = r /\ \A j \in Ctls \ {k} : ctl'[j] = ctl[j]
    BY <1>1, <2>2, <2>3 DEF Types, CtlTypes
  <2>5. \A j \in Ctls : /\ ctl'[j].proc = ctl[j].proc /\ ctl'[j].by = ctl[j].by
                        /\ (ctl'[j].step = "idle" <=> ctl[j].step = "idle")
    BY <1>1, <2>2, <2>4
  <2>6. \A q \in Procs : ProcOK(q)'
    BY <1>1, <1>3, <2>5 DEF IInv, CtlInv, ProcOK, Types, CtlTypes, CmdTypes, ConsRec
  <2>7. \A j \in Ctls : ByOK(j)'
    BY <1>3, <2>5 DEF IInv, CtlInv, ByOK, Waits
  <2>8. CmdInv' /\ StaysFinal
    BY <1>1, <1>3, CmdSame
  <2>9. CmdTypes' /\ CtlTypes'
    BY <1>1, <1>3, <2>4 DEF Types, CmdTypes, CtlTypes
  <2> QED BY <1>2, <2>6, <2>7, <2>8, <2>9 DEF IInv, CtlInv, Types
<1>4. CASE /\ ctl' = [ctl EXCEPT ![k].step = "idle", ![k].by = None]
           /\ cache' = [cache EXCEPT ![ctl[k].proc] = None] /\ Answer(ctl[k].by, FALSE)
  <2>1. cache' \in [Procs -> Ctls \cup {None}] /\ \A q \in Procs : cache'[q] \in {cache[q], None}
    BY <1>1, <1>4 DEF Types, CtlTypes
  <2> QED BY <1>1, <1>2, <1>4, <2>1, KeepsAnswer
<1> QED BY <1>3, <1>4 DEF SaveStateReads

LEMMA KeepsSaveStateWrites ==
    ASSUME IInv, NEW k \in Ctls, SaveStateWrites(k) PROVE IInv' /\ StaysFinal
<1>1. /\ ctl[k].step = "write" /\ Types /\ ctl[k] \in CtlRec /\ ctl' = [ctl EXCEPT ![k].step = "idle", ![k].by = None]
      /\ UNCHANGED <<owner, now, cache, conns, hs, sweep, sent, acked, out, reports, shakes, resumed>>
  BY DEF SaveStateWrites, IInv, Types, CtlTypes
<1>2. cache' \in [Procs -> Ctls \cup {None}] /\ \A q \in Procs : cache'[q] \in {cache[q], None}
  BY <1>1 DEF Types, CtlTypes
<1>3. CASE /\ row' = ctl[k].mem /\ Answer(ctl[k].by, TRUE) /\ UNCHANGED faults
           /\ wrote' = wrote \cup ({ctl[k].by} \cap Commands)
  <2>1. RestTypes'
    BY <1>1, <1>3 DEF Types, RestTypes, CtlRec
  <2> QED BY <1>1, <1>2, <1>3, <2>1, KeepsAnswer
<1>4. CASE faults < MaxFaults /\ faults' = faults + 1 /\ Answer(ctl[k].by, FALSE) /\ UNCHANGED <<row, wrote>>
  <2>1. RestTypes'
    BY <1>1, <1>4, RiskAssumption DEF Types, RestTypes
  <2> QED BY <1>1, <1>2, <1>4, <2>1, KeepsAnswer
<1> QED BY <1>3, <1>4 DEF SaveStateWrites

\* A crash takes the handlers, the controllers and the writes of one process, all together.
LEMMA KeepsCrash ==
    ASSUME IInv, NEW p \in Procs, Crash(p) PROVE IInv' /\ StaysFinal
<1>1. /\ cons' = [cons EXCEPT ![p] = Idle] /\ cache' = [cache EXCEPT ![p] = None] /\ Types
      /\ ctl' = [k \in Ctls |-> IF ctl[k].proc = p THEN NoCtl ELSE ctl[k]]
      /\ UNCHANGED <<owner, row, now, sent, acked, out, reports, shakes, resumed, wrote>>
  BY DEF Crash, IInv
<1>2. NoCtl \in CtlRec /\ NoCtl.step = "idle" /\ NoCtl.by = None
  <2>1. 0 \in 0..MaxTime
    BY RiskAssumption
  <2> QED BY <2>1 DEF NoCtl, CtlRec, States, Status
<1>3. /\ cons' \in [Procs -> ConsRec] /\ cons'[p] = Idle /\ \A q \in Procs \ {p} : cons'[q] = cons[q]
      /\ cache' \in [Procs -> Ctls \cup {None}] /\ cache'[p] = None /\ \A q \in Procs \ {p} : cache'[q] = cache[q]
  BY <1>1, IdleForm DEF Types, CmdTypes, CtlTypes
<1>4. \A k \in Ctls : ctl'[k] = NoCtl \/ (ctl[k].proc # p /\ ctl'[k] = ctl[k])
  BY <1>1
<1>5. ctl' \in [Ctls -> CtlRec] /\ \A k \in Ctls : ctl[k].proc # p => ctl'[k] = ctl[k]
  BY <1>1, <1>2 DEF Types, CtlTypes
<1>6. RestTypes'
  BY <1>1, RiskAssumption DEF Crash, Types, RestTypes
<1>7. Types'
  BY <1>1, <1>3, <1>5, <1>6 DEF Types, CmdTypes, CtlTypes
<1>8. \A q \in Procs : ProcOK(q)'
  <2> SUFFICES ASSUME NEW q \in Procs PROVE ProcOK(q)'
    OBVIOUS
  <2>1. CASE q = p
    BY <1>3, <2>1, IdleForm DEF ProcOK
  <2>2. CASE q # p
    <3>1. ProcOK(q) /\ cons'[q] = cons[q] /\ cache'[q] = cache[q]
      BY <1>3, <2>2 DEF IInv, CtlInv
    <3>2. cache[q] \in Ctls \cup {None} /\ cons[q].ctl \in Ctls \cup {None}
      BY <1>1 DEF Types, CtlTypes, CmdTypes, ConsRec
    <3> QED BY <1>5, <2>2, <3>1, <3>2 DEF ProcOK
  <2> QED BY <2>1, <2>2
<1>9. \A k \in Ctls : ByOK(k)'
  <2> SUFFICES ASSUME NEW k \in Ctls PROVE ByOK(k)'
    OBVIOUS
  <2>1. CASE ctl'[k] = NoCtl
    BY <1>2, <2>1, Distinct DEF ByOK
  <2>2. CASE ctl[k].proc # p /\ ctl'[k] = ctl[k]
    <3>1. ByOK(k)
      BY DEF IInv, CtlInv
    <3>2. \A c \in Commands : ctl'[k].by = c => \E q \in Procs : ctl'[k].proc = q /\ Waits(q, c)'
      BY <1>3, <2>2, <3>1 DEF ByOK, Waits
    <3>3. \A j \in Ctls : ctl'[k].by \in Commands /\ ctl'[j].by = ctl'[k].by => j = k
      BY <1>2, <1>4, <2>2, <3>1, Distinct DEF ByOK
    <3> QED BY <2>2, <3>1, <3>2, <3>3 DEF ByOK
  <2> QED BY <1>4, <2>1, <2>2
<1>10. \A q \in Procs, c \in Commands : AtOK(q, c)'
  <2> SUFFICES ASSUME NEW q \in Procs, NEW c \in Commands PROVE AtOK(q, c)'
    OBVIOUS
  <2>1. CASE q = p
    BY <1>3, <2>1, IdleForm, Distinct DEF AtOK
  <2>2. CASE q # p
    BY <1>1, <1>3, <2>2 DEF IInv, CmdInv, AtOK
  <2> QED BY <2>1, <2>2
<1>11. StaysFinal /\ \A c \in Commands : RowOK(c)'
  BY <1>1 DEF IInv, CmdInv, RowOK, StaysFinal, restrictedRecoveryOutcomeOf
<1> QED BY <1>7, <1>8, <1>9, <1>10, <1>11 DEF IInv, CtlInv, CmdInv

-----------------------------------------------------------------------------
(* Connections, the sweeper and the submitters *)

LEMMA KeepsHandshakeCaptures ==
    ASSUME IInv, NEW p \in Procs, HandshakeCaptures(p) PROVE IInv' /\ StaysFinal
<1>1. PICK k \in Ctls : /\ conns' = conns \cup {k}
                        /\ IF hs[p] = "claimed" THEN Load(p, k) ELSE Materialize(p, k)
  BY DEF HandshakeCaptures
<1>2. /\ hs' = [hs EXCEPT ![p] = "none"] /\ Types
      /\ UNCHANGED <<owner, row, now, sweep, cons, sent, acked, out, reports, shakes, faults, resumed, wrote>>
  BY DEF HandshakeCaptures, IInv
<1>3. RestTypes'
  BY <1>1, <1>2 DEF Types, RestTypes
<1>4. CASE Load(p, k)
  BY <1>2, <1>3, <1>4, LoadFacts, OutsideStep, Distinct
<1>5. CASE UNCHANGED <<cache, ctl>>
  BY <1>2, <1>3, <1>5, QuietStep
<1> QED BY <1>1, <1>4, <1>5 DEF Materialize

\* A signal or the sweeper changes the state of the controller the registry has, or loads one.
LEMMA KeepsRegistered ==
    ASSUME IInv, NEW p \in Procs, NEW kind, NEW by \in {"conn", "sweep"}, MutateRegistered(p, kind, by),
           UNCHANGED <<cons, sent, wrote, out, resumed>>, RestTypes'
    PROVE  IInv' /\ StaysFinal
<1>1. PICK k \in Ctls :
        /\ ctl[k].step = "idle" /\ CtlTypes' /\ \A q \in Procs \ {p} : cache'[q] = cache[q]
        /\ cache'[p] = k /\ \A j \in Ctls \ {k} : ctl'[j] = ctl[j]
        /\ ctl'[k].proc = p /\ (k \notin InUse \/ ctl[k].proc = p)
        /\ ctl'[k].by = by /\ ctl'[k].step = "check"
  BY RegisteredFacts
<1>2. ctl'[k].by \notin Commands /\ ctl'[k].by # None
  BY <1>1, RiskAssumption DEF Commands
<1> QED BY <1>1, <1>2, OutsideStep

LEMMA KeepsonDetected ==
    ASSUME IInv, NEW p \in Procs, onDetected(p) PROVE IInv' /\ StaysFinal
<1>1. PICK kind \in {"light", "confirmed"} : MutateRegistered(p, kind, "conn")
  BY DEF onDetected
<1>2. /\ reports < MaxReports /\ reports' = reports + 1
      /\ UNCHANGED <<owner, row, now, conns, hs, sweep, cons, sent, acked, out, faults, shakes, resumed, wrote>>
  BY DEF onDetected
<1>3. RestTypes'
  BY <1>2, RiskAssumption DEF IInv, Types, RestTypes
<1> QED BY <1>1, <1>2, <1>3, KeepsRegistered

LEMMA KeepsSweepActs ==
    ASSUME IInv, NEW p \in Procs, SweepActs(p) PROVE IInv' /\ StaysFinal
<1>1. /\ sweep' = sweep \ {p}
      /\ UNCHANGED <<owner, row, now, conns, hs, cons, sent, acked, out, reports, shakes, faults, resumed, wrote>>
  BY DEF SweepActs
<1>2. RestTypes'
  BY <1>1 DEF IInv, Types, RestTypes
<1>3. CASE MutateRegistered(p, "recovered", "sweep")
  BY <1>1, <1>2, <1>3, KeepsRegistered
<1>4. ASSUME NEW k \in Ctls, Materialize(p, k) PROVE IInv' /\ StaysFinal
  <2>1. CASE Load(p, k)
    BY <1>1, <1>2, <2>1, LoadFacts, OutsideStep, Distinct DEF IInv
  <2>2. CASE UNCHANGED <<cache, ctl>>
    BY <1>1, <1>2, <2>2, QuietStep
  <2> QED BY <1>4, <2>1, <2>2 DEF Materialize
<1> QED BY <1>3, <1>4 DEF SweepActs

\* A command that is emitted was with nobody, and its submitter has read nothing of it.
LEMMA KeepsEmit ==
    ASSUME IInv, NEW c \in Commands, NEW p \in Procs, Emit(c, p) PROVE IInv' /\ StaysFinal
<1>1. /\ sent[c] = None /\ sent' = [sent EXCEPT ![c] = p] /\ Types
      /\ UNCHANGED <<owner, row, now, cache, ctl, conns, hs, sweep, cons, acked, out, reports, shakes, faults,
                     resumed, wrote>>
  BY DEF Emit, IInv
<1>2. sent' \in [Commands -> Procs \cup {None}] /\ \A d \in Commands \ {c} : sent'[d] = sent[d]
  BY <1>1 DEF Types, RestTypes
<1>3. Types'
  BY <1>1, <1>2 DEF Types, CmdTypes, CtlTypes, RestTypes
<1>4. CtlInv'
  BY <1>1 DEF IInv, CtlInv, ProcOK, ByOK, Waits
<1>5. \A d \in Commands : RowOK(d)'
  BY <1>1 DEF IInv, CmdInv, RowOK
<1>6. ASSUME NEW d \in Commands, NEW q \in Procs PROVE AtOK(q, d)'
  <2>1. AtOK(q, d) /\ (d = c => cons[q].cmd # c)
    BY <1>1, Distinct DEF IInv, CmdInv, AtOK
  <2>2. CASE d = c
    BY <1>1, <2>1, <2>2 DEF AtOK
  <2>3. CASE d # c
    BY <1>1, <1>2, <2>1, <2>3 DEF AtOK
  <2> QED BY <2>2, <2>3
<1>7. StaysFinal
  <2> SUFFICES ASSUME NEW d \in Recoveries, Final(d) PROVE sent'[d] = sent[d] /\ out'[d] = out[d]
    BY DEF StaysFinal, restrictedRecoveryOutcomeOf
  <2>1. d # c
    BY <1>1 DEF Final, restrictedRecoveryOutcomeOf
  <2> QED BY <1>1, <1>2, <2>1, Distinct
<1> QED BY <1>3, <1>4, <1>5, <1>6, <1>7 DEF IInv, CmdInv

\* The other steps move a handshake, the clock or the sweeper, and touch no command.
LEMMA KeepsQuiet ==
    ASSUME IInv,
           \/ Tick \/ \E p \in Procs : HandshakeClaims(p) \/ SweepReads(p)
           \/ (\E k \in Ctls : Disconnect(k)) \/ UNCHANGED vars
    PROVE  IInv' /\ StaysFinal
<1>1. CASE Tick
  <2>1. now' \in Times
    BY <1>1, RiskAssumption DEF Tick, IInv, Types, RestTypes, Times
  <2>2. RestTypes'
    BY <1>1, <2>1 DEF Tick, IInv, Types, RestTypes
  <2> QED BY <1>1, <2>2, QuietStep DEF Tick
<1>2. ASSUME NEW p \in Procs, HandshakeClaims(p) PROVE IInv' /\ StaysFinal
  <2>1. RestTypes'
    BY <1>2, RiskAssumption DEF HandshakeClaims, IInv, Types, RestTypes
  <2> QED BY <1>2, <2>1, QuietStep DEF HandshakeClaims
<1>3. ASSUME NEW p \in Procs, SweepReads(p) PROVE IInv' /\ StaysFinal
  <2>1. RestTypes'
    BY <1>3 DEF SweepReads, IInv, Types, RestTypes
  <2> QED BY <1>3, <2>1, QuietStep DEF SweepReads
<1>4. ASSUME NEW k \in Ctls, Disconnect(k) PROVE IInv' /\ StaysFinal
  <2>1. RestTypes'
    BY <1>4 DEF Disconnect, IInv, Types, RestTypes
  <2> QED BY <1>4, <2>1, QuietStep DEF Disconnect
<1>5. CASE UNCHANGED vars
  <2>1. RestTypes'
    BY <1>5 DEF vars, IInv, Types, RestTypes
  <2> QED BY <1>5, <2>1, QuietStep DEF vars
<1> QED BY <1>1, <1>2, <1>3, <1>4, <1>5

-----------------------------------------------------------------------------
(* The invariant, and what follows *)

LEMMA InitIInv == Init => IInv
<1> SUFFICES ASSUME Init PROVE IInv
  OBVIOUS
<1>1. PICK p \in Procs, k \in Ctls :
        /\ owner = p /\ cache = [q \in Procs |-> IF q = p THEN k ELSE None] /\ conns = {k}
        /\ ctl = [j \in Ctls |-> IF j = k THEN [NoCtl EXCEPT !.proc = p, !.mem = row] ELSE NoCtl]
  BY DEF Init
<1>2. 0 \in 0..MaxTime /\ 0 \in 0..MaxReports /\ 0 \in 0..MaxFaults /\ 0 \in 0..MaxShakes /\ 0 \in Nat
  BY RiskAssumption
<1>3. row \in States /\ now \in Times
  BY <1>2 DEF Init, States, Times
<1>4. PICK r : r = [NoCtl EXCEPT !.proc = p, !.mem = row]
  OBVIOUS
<1>5. /\ NoCtl \in CtlRec /\ NoCtl.by = None /\ NoCtl.step = "idle"
      /\ r \in CtlRec /\ r.proc = p /\ r.by = None /\ r.step = "idle"
  BY <1>2, <1>3, <1>4 DEF NoCtl, CtlRec, States, Status
<1>6. ctl \in [Ctls -> CtlRec] /\ ctl[k] = r /\ \A j \in Ctls : ctl[j].by = None /\ ctl[j].step = "idle"
  BY <1>1, <1>4, <1>5
<1>7. cache \in [Procs -> Ctls \cup {None}] /\ \A q \in Procs : cache[q] # None => q = p /\ cache[q] = k
  BY <1>1
<1>8. NoOutcome \in OutRec
  BY DEF NoOutcome, OutRec
<1>9. cons \in [Procs -> ConsRec] /\ \A q \in Procs : cons[q] = Idle
  BY IdleForm DEF Init
<1>10. /\ out \in [Commands -> OutRec] /\ resumed \in [Commands -> Nat] /\ wrote = {}
       /\ \A c \in Commands : out[c] = NoOutcome /\ resumed[c] = 0
  BY <1>2, <1>8 DEF Init
<1>11. Types
  BY <1>1, <1>2, <1>3, <1>6, <1>7, <1>9, <1>10 DEF Types, CmdTypes, CtlTypes, RestTypes, Init
<1>12. \A q \in Procs : ProcOK(q)
  BY <1>5, <1>6, <1>7, <1>9, IdleForm DEF ProcOK
<1>13. \A j \in Ctls : ByOK(j)
  BY <1>6, Distinct DEF ByOK
<1>14. \A c \in Commands : RowOK(c)
  BY <1>10, Distinct DEF RowOK, NoOutcome
<1>15. \A c \in Commands, q \in Procs : AtOK(q, c)
  BY <1>9, IdleForm, Distinct DEF AtOK
<1> QED BY <1>11, <1>12, <1>13, <1>14, <1>15 DEF IInv, CtlInv, CmdInv

LEMMA NextIInv == IInv /\ [Next]_vars => IInv' /\ StaysFinal
<1> SUFFICES ASSUME IInv, [Next]_vars PROVE IInv' /\ StaysFinal
  OBVIOUS
<1>1. CASE Tick \/ UNCHANGED vars
  BY <1>1, KeepsQuiet
<1>2. ASSUME NEW k \in Ctls, SaveStateReads(k) \/ SaveStateWrites(k) \/ Disconnect(k) PROVE IInv' /\ StaysFinal
  BY <1>2, KeepsSaveStateReads, KeepsSaveStateWrites, KeepsQuiet
<1>3. ASSUME NEW c \in Commands, NEW p \in Procs, Emit(c, p) PROVE IInv' /\ StaysFinal
  BY <1>3, KeepsEmit
<1>4. ASSUME NEW p \in Procs, HandshakeClaims(p) \/ HandshakeCaptures(p) \/ onDetected(p) \/ SweepReads(p) \/ SweepActs(p)
      PROVE  IInv' /\ StaysFinal
  BY <1>4, KeepsQuiet, KeepsHandshakeCaptures, KeepsonDetected, KeepsSweepActs
<1>5. ASSUME NEW p \in Procs, Consume(p) PROVE IInv' /\ StaysFinal
  BY <1>5, KeepsDeliver, KeepsMark, KeepsCommandGetsController, KeepsrecoverRestricted, KeepsRecordRecoveryRefused,
     KeepsRecordRecoveryApplied, KeepsClaimResume, KeepsResumeEdges, KeepsRecordResumeResult, KeepsApplySignal,
     KeepsRecordApplied, KeepsRecordFailed, KeepsAdvanceCursor DEF Consume
<1>6. ASSUME NEW p \in Procs, HandlerThrows(p) \/ Crash(p) PROVE IInv' /\ StaysFinal
  BY <1>6, KeepsHandlerThrows, KeepsCrash
<1> QED BY <1>1, <1>2, <1>3, <1>4, <1>5, <1>6 DEF Next

LEMMA Invariance == Spec => []IInv
<1>1. Init => IInv
  BY InitIInv
<1>2. IInv /\ [Next]_vars => IInv'
  BY NextIInv
<1> QED BY <1>1, <1>2, PTL DEF Spec

\* Type correctness of the whole state.
THEOREM TypeCorrect == Spec => []TypeOK
<1>1. IInv => TypeOK
  BY DEF IInv, Types, CmdTypes, CtlTypes, RestTypes, TypeOK, CtlRec, ConsRec, OutRec, Steps
<1> QED BY <1>1, Invariance, PTL

\* However often a recovery is delivered, and wherever its process stops, the edges of the account
\* are resumed at most once for it: the claim in the ledger (risk-command-outbox.ts, finishResume)
\* is only taken while the row is pending, and no row becomes pending twice.
THEOREM ResumedAtMostOnce == Spec => []ResumedOnce
<1>1. IInv => ResumedOnce
  BY Distinct DEF IInv, CmdInv, RowOK, ResumedOnce
<1> QED BY <1>1, Invariance, PTL

\* What the submitter reads is true: a command reported as carried out has reached risk_state, and a
\* recovery reported as refused has not, after any deliveries, refused writes, evictions and crashes
\* (outcomeOf and restrictedRecoveryOutcomeOf against saveState).
THEOREM OutcomeIsHonest == Spec => []OutcomeHonest
<1>1. IInv => OutcomeHonest
  BY Distinct DEF IInv, CmdInv, RowOK, OutcomeHonest, outcomeOf, restrictedRecoveryOutcomeOf
<1> QED BY <1>1, Invariance, PTL

\* A final outcome stays: no step of any process, and no later delivery, rewrites what the submitter
\* of a recovery has read.
THEOREM OutcomeIsStable == Spec => OutcomeStable
<1>1. IInv /\ [Next]_vars => StaysFinal \/ UNCHANGED vars
  BY NextIInv
<1>2. StaysFinal \/ UNCHANGED vars =>
        [\A c \in Recoveries :
            restrictedRecoveryOutcomeOf(c) \in {"applied", "refused", "failed"} =>
                /\ restrictedRecoveryOutcomeOf(c)' = restrictedRecoveryOutcomeOf(c)
                /\ out'[c].changed = out[c].changed]_vars
  BY DEF StaysFinal, Final
<1> QED BY <1>1, <1>2, Invariance, PTL DEF Spec, OutcomeStable

------------------------------------------------------------------------------
(* The Facebook modes: the rows of the consumption mode, the hands that     *)
(* work on them and what has been written; then the rule mode.             *)

RowStates == {"waiting_target", "waiting_gate", "ready", "dispatched", "terminal"}
Phases == {"not_started", "dispatched", "settled"}
ActRec == [type : ActionTypes \cup {"none"}, rev : Revs, state : RowStates, phase : Phases, out : Outcomes \cup {Nothing},
           down : BOOLEAN, tgt : Contents \cup Targets \cup {Nothing}, owner : Services \cup {Nothing}, live : BOOLEAN]
ProgRec == [st : {"none", "active", "superseded"}, views : Nat, likes : Nat, joins : Nat, slot : Ids \cup {0}]
RunRec == [id : Ids \cup {0}, fresh : BOOLEAN, keep : 0..MaxRev, was : {"new", "leased", "orphan"},
           step : {"idle", "drive", "reconcile", "supersede", "owned", "bound", "authorised", "submitted", "proved"}]
LikeRec == [id : Ids \cup {0}, fresh : BOOLEAN, step : {"none", "attempt", "claimed", "authorised", "sent"}]

\* The state and the phase of a row agree, a free row is one that has ended, and only a row that has
\* ended is confirmed.
ActionOK(x) ==
    /\ x.state = "terminal" <=> x.phase = "settled"
    /\ x.state = "dispatched" <=> x.phase = "dispatched"
    /\ x.type = "none" => x.state = "terminal"
    /\ x.out = "confirmed" => x.state = "terminal"
Rows(a) == a \in [Ids -> ActRec] /\ \A i \in Ids : ActionOK(a[i])

SlotsOpen(a, g) ==
    \A r \in Revs : g[r].slot # 0 => a[g[r].slot].state # "terminal" /\ a[g[r].slot].rev = r

OfType(a, r, t) == {i \in Ids : a[i].type = t /\ a[i].rev = r}
Won(a, r, t) == {i \in Ids : a[i].type = t /\ a[i].rev = r /\ a[i].out = "confirmed"}
Earned(a, g) ==
    \A r \in Revs :
       /\ g[r].likes + LikesPerJoin * Cardinality(OfType(a, r, "join")) <= Cardinality(Won(a, r, "like"))
       /\ g[r].joins + JoinsPerComment * Cardinality(OfType(a, r, "comment")) <= Cardinality(Won(a, r, "join"))

Tables(a, g) == Rows(a) /\ g \in [Revs -> ProgRec] /\ SlotsOpen(a, g) /\ Earned(a, g)

\* What a process has in hand is a row.
Hands(rn, lk) ==
    /\ rn \in [Services -> RunRec] /\ \A p \in Services : rn[p].step # "idle" => rn[p].id \in Ids
    /\ lk \in [Services -> LikeRec] /\ \A p \in Services : lk[p].step # "none" => lk[p].id \in Ids

\* A row is written under the one mark that took it out of not_started: one process at most may write
\* it, and only while nobody has.
Unsent(a, i) == a[i].type = "none" \/ a[i].phase = "not_started"
MayWrite(v, p, i) == v[p].step = "authorised" /\ v[p].id = i
Sent(a, rn, lk, w) ==
    /\ w \in [Ids -> Nat]
    /\ \A i \in Ids :
          /\ w[i] <= 1
          /\ Unsent(a, i) => w[i] = 0
          /\ \A p \in Services : MayWrite(rn, p, i) =>
                /\ w[i] = 0 /\ ~Unsent(a, i)
                /\ \A q \in Services : ~MayWrite(lk, q, i) /\ (MayWrite(rn, q, i) => q = p)
          /\ \A p \in Services : MayWrite(lk, p, i) =>
                /\ w[i] = 0 /\ ~Unsent(a, i)
                /\ \A q \in Services : ~MayWrite(rn, q, i) /\ (MayWrite(lk, q, i) => q = p)

ConsInv == Tables(act, prog) /\ Hands(run, like) /\ Sent(act, run, like, writes)
AuthOK == auth \in [mode : Modes, rev : Revs]

\* The rule mode.
BatchRec == [rev : 0..MaxRev, withJoin : BOOLEAN, like : Parts, join : Parts, comment : Parts, term : BOOLEAN]
RuleInv ==
    /\ batch \in [BatchIds -> BatchRec] /\ \A i \in BatchIds : batch[i].rev = 0 => batch[i].term
    /\ rprog \in [Revs -> [seq : Nat, views : Nat, slot : BatchIds \cup {0}]]
    /\ pend \in [Services -> [id : BatchIds \cup {0}, step : {"none", "like", "sending", "sent", "join", "joining"}]]
    /\ \A p \in Services : pend[p].step # "none" => pend[p].id \in BatchIds
    /\ BatchHoldsSlot
    /\ \A i, j \in BatchIds : ~batch[i].term /\ ~batch[j].term => i = j
ModesInv == AuthOK /\ up \subseteq Services /\ ConsInv /\ RuleInv

LEMMA Oldests ==
    ASSUME NEW S, S \subseteq Nat, S # {}
    PROVE  Oldest(S) \in S
<1>1. \E x \in S : \A y \in S : ~(<<y, x>> \in OpToRel(<, Nat))
  BY NatLessThanWellFounded, WFMin
<1>2. \E x \in S : \A y \in S : ~(y < x)
  BY <1>1 DEF OpToRel
<1>3. \E x \in S : \A y \in S : x <= y
  BY <1>2
<1> QED BY <1>3 DEF Oldest

------------------------------------------------------------------------------
(* Counting rows *)

LEMMA IdsFinite == ASSUME NEW S, S \subseteq Ids PROVE IsFiniteSet(S) /\ Cardinality(S) \in Nat
<1>1. IsFiniteSet(Ids)
  BY CadenceAssumption, FS_Interval DEF Ids
<1>2. IsFiniteSet(S)
  BY <1>1, FS_Subset
<1> QED BY <1>2, FS_CardinalityType

LEMMA Counts ==
    ASSUME NEW a, NEW r, NEW t
    PROVE  /\ OfType(a, r, t) \subseteq Ids /\ Cardinality(OfType(a, r, t)) \in Nat
           /\ Won(a, r, t) \subseteq Ids /\ Cardinality(Won(a, r, t)) \in Nat
<1>1. OfType(a, r, t) \subseteq Ids /\ Won(a, r, t) \subseteq Ids
  BY DEF OfType, Won
<1> QED BY <1>1, IdsFinite

LEMMA OneMore ==
    ASSUME NEW S, S \subseteq Ids, NEW n \in Ids, n \notin S
    PROVE  Cardinality(S \cup {n}) = Cardinality(S) + 1
BY IdsFinite, FS_AddElement

LEMMA TimesOneMore ==
    ASSUME NEW k \in Nat, NEW c \in Nat
    PROVE  k * (c + 1) = k * c + k /\ k * c \in Nat
OBVIOUS

\* A row that is worked on but not settled.
SameRow(x, y) ==
    /\ y.type = x.type /\ y.rev = x.rev /\ (y.state = "terminal" <=> x.state = "terminal")
    /\ (y.out = "confirmed" <=> x.out = "confirmed")
    /\ y.phase = "not_started" => x.phase = "not_started"

\* What may still be written only shrinks.
Shrinks(a, b) == \A i \in Ids : Unsent(b, i) => Unsent(a, i)

LEMMA RowsWorked ==
    ASSUME NEW a, NEW b, NEW g, Tables(a, g), Rows(b), \A i \in Ids : SameRow(a[i], b[i])
    PROVE  Tables(b, g) /\ Shrinks(a, b)
<1>1. \A r \in Revs, t \in ActionTypes : OfType(b, r, t) = OfType(a, r, t) /\ Won(b, r, t) = Won(a, r, t)
  BY DEF OfType, Won, SameRow
<1>2. Earned(b, g)
  BY <1>1 DEF Tables, Earned, ActionTypes
<1>3. SlotsOpen(b, g)
  <2>1. SUFFICES ASSUME NEW r \in Revs, g[r].slot # 0
                 PROVE  b[g[r].slot].state # "terminal" /\ b[g[r].slot].rev = r
    BY DEF SlotsOpen
  <2>2. g[r].slot \in Ids
    BY <2>1 DEF Tables, ProgRec
  <2> QED BY <2>1, <2>2 DEF Tables, SlotsOpen, SameRow
<1>4. Shrinks(a, b)
  BY DEF Shrinks, Unsent, SameRow
<1> QED BY <1>2, <1>3, <1>4 DEF Tables

\* The same for a change of one row.
LEMMA RowWorked ==
    ASSUME NEW a, NEW g, Tables(a, g), NEW i \in Ids, NEW y \in ActRec, ActionOK(y), SameRow(a[i], y)
    PROVE  Tables([a EXCEPT ![i] = y], g) /\ Shrinks(a, [a EXCEPT ![i] = y])
<1>1. PICK b : b = [a EXCEPT ![i] = y]
  OBVIOUS
<1>2. Rows(b)
  BY <1>1 DEF Tables, Rows
<1>3. \A k \in Ids : SameRow(a[k], b[k])
  BY <1>1 DEF Tables, Rows, SameRow
<1> QED BY <1>1, <1>2, <1>3, RowsWorked

------------------------------------------------------------------------------
(* Superseding *)

LEMMA SupersededRow ==
    ASSUME NEW x \in ActRec, ActionOK(x), NEW y,
           \/ y = [x EXCEPT !.down = FALSE]
           \/ /\ x.state # "terminal"
              /\ y = [x EXCEPT !.down = FALSE, !.state = "terminal", !.phase = "settled",
                               !.out = "policy_superseded", !.owner = Nothing, !.live = FALSE]
    PROVE  /\ y \in ActRec /\ ActionOK(y) /\ y.type = x.type /\ y.rev = x.rev
           /\ (y.out = "confirmed" <=> x.out = "confirmed")
           /\ (x.state = "terminal" => y.state = "terminal")
           /\ (y.phase = "not_started" => x.phase = "not_started")
<1>1. CASE y = [x EXCEPT !.down = FALSE]
  <2>1. y \in ActRec
    BY <1>1 DEF ActRec
  <2> QED BY <1>1, <2>1 DEF ActRec, ActionOK
<1>2. CASE x.state # "terminal"
           /\ y = [x EXCEPT !.down = FALSE, !.state = "terminal", !.phase = "settled",
                            !.out = "policy_superseded", !.owner = Nothing, !.live = FALSE]
  <2>1. y \in ActRec
    BY <1>2 DEF ActRec, RowStates, Phases, Outcomes
  <2> QED BY <1>2, <2>1 DEF ActRec, ActionOK
<1> QED BY <1>1, <1>2

LEMMA Superseding ==
    ASSUME NEW a, Tables(a, prog), NEW keep
    PROVE  /\ Tables(supersedeWithClient(a, keep), SupersededProgress(supersedeWithClient(a, keep), keep))
           /\ Shrinks(a, supersedeWithClient(a, keep))
<1>1. PICK b : b = supersedeWithClient(a, keep)
  OBVIOUS
<1>2. DOMAIN a = Ids
  BY DEF Tables, Rows
<1>3. b = [i \in Ids |-> b[i]]
  BY <1>1, <1>2 DEF supersedeWithClient
<1>4. \A i \in Ids : /\ b[i] \in ActRec /\ ActionOK(b[i]) /\ b[i].type = a[i].type /\ b[i].rev = a[i].rev
                     /\ (b[i].out = "confirmed" <=> a[i].out = "confirmed")
                     /\ (a[i].state = "terminal" => b[i].state = "terminal")
                     /\ (b[i].phase = "not_started" => a[i].phase = "not_started")
  <2>1. SUFFICES ASSUME NEW i \in Ids
                 PROVE  /\ b[i] \in ActRec /\ ActionOK(b[i]) /\ b[i].type = a[i].type /\ b[i].rev = a[i].rev
                        /\ (b[i].out = "confirmed" <=> a[i].out = "confirmed")
                        /\ (a[i].state = "terminal" => b[i].state = "terminal")
                        /\ (b[i].phase = "not_started" => a[i].phase = "not_started")
    OBVIOUS
  <2>2. a[i] \in ActRec /\ ActionOK(a[i])
    BY DEF Tables, Rows
  <2>3. b[i] = IF a[i].state = "terminal" \/ a[i].rev = keep THEN a[i]
               ELSE IF a[i].phase # "not_started" THEN [a[i] EXCEPT !.down = FALSE]
               ELSE [a[i] EXCEPT !.down = FALSE, !.state = "terminal", !.phase = "settled",
                                 !.out = "policy_superseded", !.owner = Nothing, !.live = FALSE]
    BY <1>1, <1>2 DEF supersedeWithClient
  <2>4. CASE a[i].state = "terminal" \/ a[i].rev = keep
    BY <2>2, <2>3, <2>4
  <2>5. CASE ~(a[i].state = "terminal" \/ a[i].rev = keep)
    BY <2>2, <2>3, <2>5, SupersededRow
  <2> QED BY <2>4, <2>5
<1>5. Rows(b)
  BY <1>3, <1>4 DEF Rows
<1>6. PICK g : g = SupersededProgress(b, keep)
  OBVIOUS
<1>7. /\ g \in [Revs -> ProgRec]
      /\ \A r \in Revs : /\ g[r].likes = prog[r].likes /\ g[r].joins = prog[r].joins
                         /\ g[r].slot = IF prog[r].slot # 0 /\ b[prog[r].slot].state = "terminal"
                                        THEN 0 ELSE prog[r].slot
  <2>1. g = [r \in Revs |-> g[r]]
    BY <1>6 DEF SupersededProgress
  <2>2. SUFFICES ASSUME NEW r \in Revs
                 PROVE  /\ g[r] \in ProgRec /\ g[r].likes = prog[r].likes /\ g[r].joins = prog[r].joins
                        /\ g[r].slot = IF prog[r].slot # 0 /\ b[prog[r].slot].state = "terminal"
                                       THEN 0 ELSE prog[r].slot
    BY <2>1
  <2>3. prog[r] \in ProgRec
    BY DEF Tables
  <2>4. PICK s \in {"none", "active", "superseded"} :
           s = IF r # keep /\ prog[r].st # "none" THEN "superseded" ELSE prog[r].st
    BY <2>3 DEF ProgRec
  <2>5. PICK k \in Ids \cup {0} :
           k = IF prog[r].slot # 0 /\ b[prog[r].slot].state = "terminal" THEN 0 ELSE prog[r].slot
    BY <2>3 DEF ProgRec
  <2>6. g[r] = [prog[r] EXCEPT !.st = s, !.slot = k]
    BY <1>6, <2>4, <2>5 DEF SupersededProgress
  <2> QED BY <2>3, <2>5, <2>6 DEF ProgRec
<1>8. SlotsOpen(b, g)
  <2>1. SUFFICES ASSUME NEW r \in Revs, g[r].slot # 0
                 PROVE  b[g[r].slot].state # "terminal" /\ b[g[r].slot].rev = r
    BY DEF SlotsOpen
  <2>2. g[r].slot = prog[r].slot /\ prog[r].slot # 0 /\ b[prog[r].slot].state # "terminal"
    BY <1>7, <2>1
  <2>3. prog[r].slot \in Ids
    BY <2>2 DEF Tables, ProgRec
  <2> QED BY <1>4, <2>2, <2>3 DEF Tables, SlotsOpen
<1>9. Earned(b, g)
  <2>1. \A r \in Revs, t \in ActionTypes : OfType(b, r, t) = OfType(a, r, t) /\ Won(b, r, t) = Won(a, r, t)
    BY <1>4 DEF OfType, Won
  <2> QED BY <1>7, <2>1 DEF Tables, Earned, ActionTypes
<1>10. Shrinks(a, b)
  BY <1>4 DEF Shrinks, Unsent
<1> QED BY <1>1, <1>5, <1>6, <1>7, <1>8, <1>9, <1>10 DEF Tables

------------------------------------------------------------------------------
(* Settling *)

SettledAs(x, o) == [x EXCEPT !.state = "terminal", !.phase = "settled", !.out = o, !.owner = Nothing, !.live = FALSE]

Done(a, i, o) == [a EXCEPT ![i] = SettledAs(a[i], o)]
Put(a, n, x) == [a EXCEPT ![n] = x]

LEMMA SettledRow ==
    ASSUME NEW x \in ActRec, ActionOK(x), x.state # "terminal", NEW o \in Outcomes
    PROVE  /\ SettledAs(x, o) \in ActRec /\ ActionOK(SettledAs(x, o))
           /\ SettledAs(x, o).type = x.type /\ SettledAs(x, o).rev = x.rev /\ SettledAs(x, o).out = o
           /\ SettledAs(x, o).state = "terminal" /\ SettledAs(x, o).phase = "settled" /\ x.type # "none"
<1>1. SettledAs(x, o) \in ActRec
  BY DEF SettledAs, ActRec, RowStates, Phases
<1>2. /\ SettledAs(x, o).type = x.type /\ SettledAs(x, o).rev = x.rev /\ SettledAs(x, o).out = o
      /\ SettledAs(x, o).state = "terminal" /\ SettledAs(x, o).phase = "settled"
  BY DEF SettledAs, ActRec
<1> QED BY <1>1, <1>2 DEF ActionOK

\* What settling row i as o does to the table.
LEMMA SettledRows ==
    ASSUME NEW a, Rows(a), NEW i \in Ids, a[i].state # "terminal", NEW o \in Outcomes,
           NEW b, b = Done(a, i, o)
    PROVE  /\ Rows(b) /\ \A k \in Ids : b[k].type = a[k].type /\ b[k].rev = a[k].rev
           /\ \A k \in Ids : k # i => b[k] = a[k]
           /\ b[i].state = "terminal" /\ a[i].type # "none" /\ Shrinks(a, b)
           /\ b[i].out = o /\ a[i].out # "confirmed"
<1>1. a[i] \in ActRec /\ ActionOK(a[i]) /\ a \in [Ids -> ActRec]
  BY DEF Rows
<1>2. /\ b[i] \in ActRec /\ ActionOK(b[i]) /\ b[i].type = a[i].type /\ b[i].rev = a[i].rev /\ b[i].out = o
      /\ b[i].state = "terminal" /\ b[i].phase = "settled" /\ a[i].type # "none"
  BY <1>1, SettledRow DEF Done
<1>3. \A k \in Ids : k # i => b[k] = a[k]
  BY <1>1 DEF Done
<1>4. b \in [Ids -> ActRec]
  BY <1>1, <1>2 DEF Done
<1>5. Rows(b)
  BY <1>2, <1>3, <1>4 DEF Rows
<1>6. \A k \in Ids : b[k].type = a[k].type /\ b[k].rev = a[k].rev
  BY <1>2, <1>3
<1>7. Shrinks(a, b)
  BY <1>2, <1>3 DEF Shrinks, Unsent
<1>8. a[i].out # "confirmed"
  BY <1>1 DEF ActionOK
<1> QED BY <1>2, <1>3, <1>5, <1>6, <1>7, <1>8

LEMMA SettledCounts ==
    ASSUME NEW a, Rows(a), NEW i \in Ids, a[i].state # "terminal", NEW o \in Outcomes,
           NEW b, b = Done(a, i, o), NEW r, NEW t
    PROVE  /\ OfType(b, r, t) = OfType(a, r, t)
           /\ Cardinality(Won(a, r, t)) <= Cardinality(Won(b, r, t))
           /\ o = "confirmed" /\ r = a[i].rev /\ t = a[i].type =>
                 Cardinality(Won(b, r, t)) = Cardinality(Won(a, r, t)) + 1
<1>1. /\ \A k \in Ids : b[k].type = a[k].type /\ b[k].rev = a[k].rev
      /\ \A k \in Ids : k # i => b[k] = a[k]
      /\ b[i].out = o /\ a[i].out # "confirmed"
  BY SettledRows
<1>2. OfType(b, r, t) = OfType(a, r, t)
  BY <1>1 DEF OfType
<1>3. Won(a, r, t) \subseteq Ids /\ Cardinality(Won(a, r, t)) \in Nat
  BY Counts
<1>4. CASE o = "confirmed" /\ r = a[i].rev /\ t = a[i].type
  <2>1. Won(b, r, t) = Won(a, r, t) \cup {i} /\ i \notin Won(a, r, t)
    BY <1>1, <1>4 DEF Won
  <2>2. Cardinality(Won(b, r, t)) = Cardinality(Won(a, r, t)) + 1
    BY <1>3, <2>1, OneMore
  <2> QED BY <1>2, <1>3, <2>2
<1>5. CASE ~(o = "confirmed" /\ r = a[i].rev /\ t = a[i].type)
  <2>1. Won(b, r, t) = Won(a, r, t)
    BY <1>1, <1>5 DEF Won
  <2> QED BY <1>2, <1>3, <1>5, <2>1
<1> QED BY <1>4, <1>5

\* A new row of a type t at a free n.
LEMMA InsertedRows ==
    ASSUME NEW a, Rows(a), NEW n \in Ids, a[n].type = "none", NEW x \in ActRec, ActionOK(x),
           x.type \in ActionTypes, x.state # "terminal", NEW b, b = Put(a, n, x)
    PROVE  /\ Rows(b) /\ \A k \in Ids : k # n => b[k] = a[k]
           /\ b[n] = x /\ a[n].state = "terminal" /\ x.out # "confirmed" /\ Shrinks(a, b)
<1>1. a[n] \in ActRec /\ ActionOK(a[n]) /\ a \in [Ids -> ActRec]
  BY DEF Rows
<1>2. /\ \A k \in Ids : k # n => b[k] = a[k]
      /\ b[n] = x
  BY <1>1 DEF Put
<1>3. b \in [Ids -> ActRec]
  BY <1>1 DEF Put
<1>4. Rows(b)
  BY <1>2, <1>3 DEF Rows
<1>5. a[n].state = "terminal" /\ x.out # "confirmed" /\ "none" \notin ActionTypes
  BY <1>1 DEF ActionOK, ActionTypes
<1>6. Shrinks(a, b)
  BY <1>2 DEF Shrinks, Unsent
<1> QED BY <1>2, <1>4, <1>5, <1>6

LEMMA InsertedCounts ==
    ASSUME NEW a, Rows(a), NEW n \in Ids, a[n].type = "none", NEW x \in ActRec, ActionOK(x),
           x.type \in ActionTypes, x.state # "terminal", NEW b, b = Put(a, n, x), NEW r, NEW t \in ActionTypes
    PROVE  /\ Won(b, r, t) = Won(a, r, t)
           /\ ~(r = x.rev /\ t = x.type) => OfType(b, r, t) = OfType(a, r, t)
           /\ r = x.rev /\ t = x.type => Cardinality(OfType(b, r, t)) = Cardinality(OfType(a, r, t)) + 1
<1>1. /\ \A k \in Ids : k # n => b[k] = a[k]
      /\ b[n] = x /\ x.out # "confirmed"
  BY InsertedRows
<1>2. t # "none"
  BY DEF ActionTypes
<1>3. Won(b, r, t) = Won(a, r, t)
  BY <1>1, <1>2 DEF Won
<1>4. ~(r = x.rev /\ t = x.type) => OfType(b, r, t) = OfType(a, r, t)
  BY <1>1, <1>2 DEF OfType
<1>5. ASSUME r = x.rev /\ t = x.type
      PROVE  Cardinality(OfType(b, r, t)) = Cardinality(OfType(a, r, t)) + 1
  <2>1. OfType(b, r, t) = OfType(a, r, t) \cup {n} /\ n \notin OfType(a, r, t)
    BY <1>1, <1>2, <1>5 DEF OfType
  <2> QED BY <2>1, Counts, OneMore
<1> QED BY <1>3, <1>4, <1>5

LEMMA NextIds ==
    ASSUME NEW a, Rows(a), Free(a) # {}
    PROVE  NextId(a) \in Ids /\ a[NextId(a)].type = "none"
<1>1. Free(a) \subseteq Ids /\ Free(a) \subseteq Nat
  BY DEF Free, Rows, Ids
<1>2. Oldest(Free(a)) \in Free(a)
  BY <1>1, Oldests
<1>3. NextId(a) \in Free(a)
  BY <1>2 DEF NextId, Oldest
<1> QED BY <1>1, <1>3 DEF Free

LEMMA Inserted ==
    ASSUME NEW t \in ActionTypes, NEW r \in Revs, NEW c \in Contents \cup Targets \cup {Nothing}
    PROVE  /\ insertAction(t, r, c) \in ActRec /\ ActionOK(insertAction(t, r, c))
           /\ insertAction(t, r, c).type = t /\ insertAction(t, r, c).rev = r
           /\ insertAction(t, r, c).state # "terminal"
<1>1. PICK st \in {"ready", "waiting_target"} : st = IF t = "like" THEN "ready" ELSE "waiting_target"
  OBVIOUS
<1>2. insertAction(t, r, c) =
        [type |-> t, rev |-> r, state |-> st, phase |-> "not_started", out |-> Nothing, down |-> TRUE, tgt |-> c,
         owner |-> Nothing, live |-> FALSE]
  BY <1>1 DEF insertAction
<1>3. insertAction(t, r, c) \in ActRec
  BY <1>2 DEF ActRec, RowStates, Phases
<1>4. t # "none" /\ Nothing # "confirmed"
  BY OutcomeAssumption DEF ActionTypes, Outcomes
<1> QED BY <1>2, <1>3, <1>4 DEF ActionOK

\* The counters pay for what they earn.
LEMMA Advancing ==
    ASSUME NEW r \in ProgRec, NEW t, NEW o, NEW d \in BOOLEAN, NEW v, v = advanceCounters(r, t, o, d)
    PROVE  /\ v.likes \in Nat /\ v.joins \in Nat /\ v.next \in {"none", "join", "comment"}
           /\ v.next # "join" => v.likes <= r.likes + 1
           /\ v.next # "comment" => v.joins <= r.joins + 1
           /\ ~(o = "confirmed" /\ t = "like") => v.likes <= r.likes /\ v.next # "join"
           /\ ~(o = "confirmed" /\ t = "join") => v.joins <= r.joins /\ v.next # "comment"
           /\ v.next = "join" => v.likes + LikesPerJoin = r.likes + 1
           /\ v.next = "comment" => v.joins + JoinsPerComment = r.joins + 1
<1>1. PICK l \in Nat, j \in Nat : l = r.likes /\ j = r.joins
  BY DEF ProgRec
<1>2. PICK c \in Nat \ {0}, k \in Nat \ {0} : c = LikesPerJoin /\ k = JoinsPerComment
  BY CadenceAssumption
<1>3. PICK x, y, z : x = v.likes /\ y = v.joins /\ z = v.next
  OBVIOUS
<1>4. \/ d /\ o = "confirmed" /\ t = "like" /\ l + 1 >= c /\ x = l + 1 - c /\ y = j /\ z = "join"
      \/ d /\ o = "confirmed" /\ t = "like" /\ x = l + 1 /\ y = j /\ z = "none"
      \/ d /\ o = "confirmed" /\ t = "join" /\ j + 1 >= k /\ x = l /\ y = j + 1 - k /\ z = "comment"
      \/ d /\ o = "confirmed" /\ t = "join" /\ x = l /\ y = j + 1 /\ z = "none"
      \/ x = l /\ y = j /\ z = "none"
  <2>1. CASE d /\ o = "confirmed" /\ t = "like"
    BY <1>1, <1>2, <1>3, <2>1 DEF advanceCounters
  <2>2. CASE d /\ o = "confirmed" /\ t = "join"
    BY <1>1, <1>2, <1>3, <2>2 DEF advanceCounters
  <2>3. CASE ~(d /\ o = "confirmed" /\ t \in {"like", "join"})
    BY <1>1, <1>3, <2>3 DEF advanceCounters
  <2> QED BY <2>1, <2>2, <2>3
<1>5. /\ x \in Nat /\ y \in Nat /\ z \in {"none", "join", "comment"}
      /\ z # "join" => x <= l + 1
      /\ z # "comment" => y <= j + 1
      /\ ~(o = "confirmed" /\ t = "like") => x <= l /\ z # "join"
      /\ ~(o = "confirmed" /\ t = "join") => y <= j /\ z # "comment"
      /\ z = "join" => x + c = l + 1
      /\ z = "comment" => y + k = j + 1
  BY <1>4
<1> QED BY <1>1, <1>2, <1>3, <1>5

\* A row is settled, and the row it earns, if any, is inserted as its slot.
LEMMA SettledTables ==
    ASSUME NEW a, NEW g, Tables(a, g), NEW i \in Ids, a[i].state # "terminal", NEW o \in Outcomes,
           NEW b, b = Done(a, i, o)
    PROVE  /\ Rows(b) /\ Shrinks(a, b) /\ a[i].rev \in Revs
           /\ \A k \in Ids : k # i => b[k] = a[k]
           /\ \A r \in Revs : g[r].slot # 0 /\ g[r].slot # i =>
                 g[r].slot \in Ids /\ b[g[r].slot].state # "terminal" /\ b[g[r].slot].rev = r
           /\ \A r \in Revs : g[r].slot = i => r = a[i].rev
<1>1. Rows(a) /\ g \in [Revs -> ProgRec] /\ SlotsOpen(a, g)
  BY DEF Tables
<1>2. a[i].rev \in Revs
  BY <1>1 DEF Rows, ActRec
<1>3. 0 \notin Ids
  BY DEF Ids
<1>4. /\ Rows(b) /\ \A k \in Ids : b[k].type = a[k].type /\ b[k].rev = a[k].rev
      /\ \A k \in Ids : k # i => b[k] = a[k]
      /\ Shrinks(a, b)
  BY <1>1, SettledRows
<1>5. ASSUME NEW r \in Revs, g[r].slot # 0, g[r].slot # i
      PROVE  g[r].slot \in Ids /\ b[g[r].slot].state # "terminal" /\ b[g[r].slot].rev = r
  <2>1. g[r].slot \in Ids
    BY <1>1, <1>5 DEF ProgRec
  <2> QED BY <1>1, <1>4, <1>5, <2>1 DEF SlotsOpen
<1>6. \A r \in Revs : g[r].slot = i => r = a[i].rev
  BY <1>1, <1>3 DEF SlotsOpen
<1> QED BY <1>2, <1>4, <1>5, <1>6

\* The counters of revision u after what they paid for, with n as its slot.
Paid(g, u, v, n) == [g EXCEPT ![u].likes = v.likes, ![u].joins = v.joins, ![u].slot = n]

LEMMA SettlingAlone ==
    ASSUME NEW a, NEW g, Tables(a, g), NEW i \in Ids, a[i].state # "terminal", NEW o \in Outcomes,
           NEW b, b = Done(a, i, o),
           NEW d \in BOOLEAN, NEW v, v = advanceCounters(g[a[i].rev], a[i].type, o, d),
           NEW h, \/ g[a[i].rev].slot = i /\ h = Paid(g, a[i].rev, v, 0)
                  \/ g[a[i].rev].slot # i /\ h = g
    PROVE  Tables(b, h) /\ Shrinks(a, b)
<1>0. Rows(a) /\ g \in [Revs -> ProgRec] /\ SlotsOpen(a, g) /\ Earned(a, g)
  BY DEF Tables
<1>1. /\ Rows(b) /\ Shrinks(a, b) /\ a[i].rev \in Revs
      /\ \A r \in Revs : g[r].slot # 0 /\ g[r].slot # i =>
            g[r].slot \in Ids /\ b[g[r].slot].state # "terminal" /\ b[g[r].slot].rev = r
      /\ \A r \in Revs : g[r].slot = i => r = a[i].rev
  BY SettledTables
<1>2. PICK u \in Revs : u = a[i].rev
  BY <1>1
<1>3. g[u] \in ProgRec
  BY <1>0
<1>4. /\ v.likes \in Nat /\ v.joins \in Nat /\ v.likes <= g[u].likes + 1 /\ v.joins <= g[u].joins + 1
      /\ ~(o = "confirmed" /\ a[i].type = "like") => v.likes <= g[u].likes
      /\ ~(o = "confirmed" /\ a[i].type = "join") => v.joins <= g[u].joins
  <2>1. /\ v.likes \in Nat /\ v.joins \in Nat /\ v.next \in {"none", "join", "comment"}
        /\ v.next # "join" => v.likes <= g[u].likes + 1
        /\ v.next # "comment" => v.joins <= g[u].joins + 1
        /\ ~(o = "confirmed" /\ a[i].type = "like") => v.likes <= g[u].likes /\ v.next # "join"
        /\ ~(o = "confirmed" /\ a[i].type = "join") => v.joins <= g[u].joins /\ v.next # "comment"
        /\ v.next = "join" => v.likes + LikesPerJoin = g[u].likes + 1
        /\ v.next = "comment" => v.joins + JoinsPerComment = g[u].joins + 1
    BY <1>2, <1>3, Advancing
  <2>2. LikesPerJoin \in Nat /\ JoinsPerComment \in Nat /\ g[u].likes \in Nat /\ g[u].joins \in Nat
    BY <1>3, CadenceAssumption DEF ProgRec
  <2> QED BY <2>1, <2>2
<1>5. /\ h \in [Revs -> ProgRec] /\ \A r \in Revs : r # u => h[r] = g[r]
      /\ h[u] = g[u] \/ (h[u].likes = v.likes /\ h[u].joins = v.joins)
      /\ \A r \in Revs : h[r].slot = IF g[r].slot = i THEN 0 ELSE g[r].slot
  <2>1. CASE g[u].slot = i
    <3>1. PICK x \in ProgRec : x = [g[u] EXCEPT !.likes = v.likes, !.joins = v.joins, !.slot = 0]
      <4>1. [g[u] EXCEPT !.likes = v.likes, !.joins = v.joins, !.slot = 0] \in ProgRec
        BY <1>3, <1>4 DEF ProgRec
      <4> QED BY <4>1
    <3>2. x.likes = v.likes /\ x.joins = v.joins /\ x.slot = 0
      BY <3>1, <1>3 DEF ProgRec
    <3>a. h = Paid(g, u, v, 0)
      BY <2>1, <1>2
    <3>3. h = [g EXCEPT ![u] = x]
      BY <3>a, <3>1, <1>0 DEF Paid
    <3>4. h[u] = x /\ h \in [Revs -> ProgRec] /\ \A r \in Revs : r # u => h[r] = g[r]
      BY <3>3, <1>0
    <3>5. \A r \in Revs : g[r].slot = i => r = u
      BY <1>1, <1>2
    <3>6. \A r \in Revs : h[r].slot = IF g[r].slot = i THEN 0 ELSE g[r].slot
      BY <3>2, <3>4, <3>5, <2>1
    <3> QED BY <3>2, <3>4, <3>6
  <2>2. CASE g[u].slot # i
    BY <2>2, <1>0, <1>1, <1>2
  <2> QED BY <2>1, <2>2
<1>6. SlotsOpen(b, h)
  <2>1. SUFFICES ASSUME NEW r \in Revs, h[r].slot # 0
                 PROVE  b[h[r].slot].state # "terminal" /\ b[h[r].slot].rev = r
    BY DEF SlotsOpen
  <2>2. h[r].slot = g[r].slot /\ g[r].slot # 0 /\ g[r].slot # i
    BY <2>1, <1>5
  <2> QED BY <2>2, <1>1
<1>7. Earned(b, h)
  <2>0. \A r \in Revs : \A t \in ActionTypes : OfType(b, r, t) = OfType(a, r, t)
    BY <1>0, SettledCounts
  <2>1. SUFFICES ASSUME NEW r \in Revs
                 PROVE  /\ h[r].likes + LikesPerJoin * Cardinality(OfType(a, r, "join")) <= Cardinality(Won(b, r, "like"))
                        /\ h[r].joins + JoinsPerComment * Cardinality(OfType(a, r, "comment")) <= Cardinality(Won(b, r, "join"))
    BY <2>0 DEF Earned, ActionTypes
  <2>2. PICK lj, jc : lj = LikesPerJoin * Cardinality(OfType(a, r, "join"))
                      /\ jc = JoinsPerComment * Cardinality(OfType(a, r, "comment"))
    OBVIOUS
  <2>3. lj \in Nat /\ jc \in Nat
    BY <2>2, Counts, CadenceAssumption, TimesOneMore
  <2>4. /\ Cardinality(Won(a, r, "like")) \in Nat /\ Cardinality(Won(b, r, "like")) \in Nat
        /\ Cardinality(Won(a, r, "join")) \in Nat /\ Cardinality(Won(b, r, "join")) \in Nat
    BY Counts
  <2>5. /\ g[r].likes + lj <= Cardinality(Won(a, r, "like"))
        /\ g[r].joins + jc <= Cardinality(Won(a, r, "join"))
    BY <1>0, <2>2 DEF Earned
  <2>6. g[r].likes \in Nat /\ g[r].joins \in Nat
    BY <1>0 DEF ProgRec
  <2>7. /\ Cardinality(Won(a, r, "like")) <= Cardinality(Won(b, r, "like"))
        /\ Cardinality(Won(a, r, "join")) <= Cardinality(Won(b, r, "join"))
    BY <1>0, SettledCounts
  <2>8. CASE h[r] = g[r]
    <3>1. PICK gl \in Nat, gj \in Nat : gl = g[r].likes /\ gj = g[r].joins
      BY <2>6
    <3>2. PICK wl \in Nat, wj \in Nat, vl \in Nat, vj \in Nat :
             /\ wl = Cardinality(Won(a, r, "like")) /\ wj = Cardinality(Won(a, r, "join"))
             /\ vl = Cardinality(Won(b, r, "like")) /\ vj = Cardinality(Won(b, r, "join"))
      BY <2>4
    <3>3. gl + lj <= vl /\ gj + jc <= vj
      BY <2>3, <2>5, <2>7, <3>1, <3>2
    <3> QED BY <2>2, <2>8, <3>1, <3>2, <3>3
  <2>9. CASE r = u /\ h[u].likes = v.likes /\ h[u].joins = v.joins
    <3>1. o = "confirmed" /\ a[i].type = "like" =>
            Cardinality(Won(b, r, "like")) = Cardinality(Won(a, r, "like")) + 1
      BY <1>0, <1>2, <2>9, SettledCounts
    <3>2. o = "confirmed" /\ a[i].type = "join" =>
            Cardinality(Won(b, r, "join")) = Cardinality(Won(a, r, "join")) + 1
      BY <1>0, <1>2, <2>9, SettledCounts
    <3>3. h[r].likes + lj <= Cardinality(Won(b, r, "like"))
      BY <1>4, <2>3, <2>4, <2>5, <2>6, <2>7, <2>9, <3>1
    <3>4. h[r].joins + jc <= Cardinality(Won(b, r, "join"))
      BY <1>4, <2>3, <2>4, <2>5, <2>6, <2>7, <2>9, <3>2
    <3> QED BY <2>2, <3>3, <3>4
  <2> QED BY <2>8, <2>9, <1>5
<1> QED BY <1>1, <1>5, <1>6, <1>7 DEF Tables

LEMMA SettlingEarns ==
    ASSUME NEW a, NEW g, Tables(a, g), NEW i \in Ids, a[i].state # "terminal", NEW o \in Outcomes,
           NEW b, b = Done(a, i, o),
           NEW d \in BOOLEAN, NEW v, v = advanceCounters(g[a[i].rev], a[i].type, o, d), v.next # "none",
           g[a[i].rev].slot = i, NEW n \in Ids, b[n].type = "none",
           NEW c, c = Put(b, n, insertAction(v.next, a[i].rev, Nothing)),
           NEW h, h = Paid(g, a[i].rev, v, n)
    PROVE  Tables(c, h) /\ Shrinks(a, c)
<1>0. Rows(a) /\ g \in [Revs -> ProgRec] /\ SlotsOpen(a, g) /\ Earned(a, g)
  BY DEF Tables
<1>1. /\ Rows(b) /\ Shrinks(a, b) /\ a[i].rev \in Revs
      /\ \A r \in Revs : g[r].slot # 0 /\ g[r].slot # i =>
            g[r].slot \in Ids /\ b[g[r].slot].state # "terminal" /\ b[g[r].slot].rev = r
      /\ \A r \in Revs : g[r].slot = i => r = a[i].rev
  BY SettledTables
<1>2. PICK u \in Revs : u = a[i].rev
  BY <1>1
<1>3. g[u] \in ProgRec /\ g[u].likes \in Nat /\ g[u].joins \in Nat
  BY <1>0 DEF ProgRec
<1>4. /\ v.likes \in Nat /\ v.joins \in Nat /\ v.next \in {"none", "join", "comment"}
      /\ v.next # "join" => v.likes <= g[u].likes + 1
      /\ v.next # "comment" => v.joins <= g[u].joins + 1
      /\ ~(o = "confirmed" /\ a[i].type = "like") => v.likes <= g[u].likes /\ v.next # "join"
      /\ ~(o = "confirmed" /\ a[i].type = "join") => v.joins <= g[u].joins /\ v.next # "comment"
      /\ v.next = "join" => v.likes + LikesPerJoin = g[u].likes + 1
      /\ v.next = "comment" => v.joins + JoinsPerComment = g[u].joins + 1
  BY <1>2, <1>3, Advancing
<1>5. PICK t \in ActionTypes : t = v.next
  BY <1>4 DEF ActionTypes
<1>6. PICK x \in ActRec : x = insertAction(t, u, Nothing) /\ ActionOK(x) /\ x.type = t /\ x.rev = u /\ x.state # "terminal"
  BY Inserted
<1>7. c = Put(b, n, x)
  BY <1>2, <1>5, <1>6
<1>8. /\ Rows(c) /\ \A k \in Ids : k # n => c[k] = b[k]
      /\ c[n] = x /\ b[n].state = "terminal" /\ Shrinks(b, c)
  BY <1>1, <1>6, <1>7, InsertedRows
<1>9. /\ h \in [Revs -> ProgRec] /\ \A r \in Revs : r # u => h[r] = g[r]
      /\ h[u].likes = v.likes /\ h[u].joins = v.joins /\ h[u].slot = n
  <2>1. PICK y \in ProgRec : y = [g[u] EXCEPT !.likes = v.likes, !.joins = v.joins, !.slot = n]
    <3>1. [g[u] EXCEPT !.likes = v.likes, !.joins = v.joins, !.slot = n] \in ProgRec
      BY <1>3, <1>4 DEF ProgRec
    <3> QED BY <3>1
  <2>2. y.likes = v.likes /\ y.joins = v.joins /\ y.slot = n
    BY <2>1, <1>3 DEF ProgRec
  <2>3. h = [g EXCEPT ![u] = y]
    BY <2>1, <1>2, <1>0 DEF Paid
  <2>4. h[u] = y /\ h \in [Revs -> ProgRec] /\ \A r \in Revs : r # u => h[r] = g[r]
    BY <2>3, <1>0
  <2> QED BY <2>2, <2>4
<1>10. SlotsOpen(c, h)
  <2>1. SUFFICES ASSUME NEW r \in Revs, h[r].slot # 0
                 PROVE  c[h[r].slot].state # "terminal" /\ c[h[r].slot].rev = r
    BY DEF SlotsOpen
  <2>2. CASE r = u
    <3>1. h[r].slot = n
      BY <2>2, <1>9
    <3> QED BY <3>1, <2>2, <1>6, <1>8
  <2>3. CASE r # u
    <3>1. g[r].slot # i /\ h[r].slot = g[r].slot
      BY <2>3, <1>1, <1>2, <1>9
    <3>2. h[r].slot \in Ids /\ b[h[r].slot].state # "terminal" /\ b[h[r].slot].rev = r
      BY <3>1, <2>1, <1>1
    <3> QED BY <3>2, <1>8
  <2> QED BY <2>2, <2>3
<1>11. Earned(c, h)
  <2>1. SUFFICES ASSUME NEW r \in Revs
                 PROVE  /\ h[r].likes + LikesPerJoin * Cardinality(OfType(c, r, "join")) <= Cardinality(Won(c, r, "like"))
                        /\ h[r].joins + JoinsPerComment * Cardinality(OfType(c, r, "comment")) <= Cardinality(Won(c, r, "join"))
    BY DEF Earned
  <2>2. PICK nj, nc, wl, wj : /\ nj = Cardinality(OfType(a, r, "join")) /\ nc = Cardinality(OfType(a, r, "comment"))
                              /\ wl = Cardinality(Won(a, r, "like")) /\ wj = Cardinality(Won(a, r, "join"))
    OBVIOUS
  <2>3. nj \in Nat /\ nc \in Nat /\ wl \in Nat /\ wj \in Nat
    BY <2>2, Counts
  <2>a. /\ OfType(b, r, "join") = OfType(a, r, "join") /\ OfType(b, r, "comment") = OfType(a, r, "comment")
        /\ Won(c, r, "like") = Won(b, r, "like") /\ Won(c, r, "join") = Won(b, r, "join")
    <3>1. "like" \in ActionTypes /\ "join" \in ActionTypes
      BY DEF ActionTypes
    <3>2. OfType(b, r, "join") = OfType(a, r, "join") /\ OfType(b, r, "comment") = OfType(a, r, "comment")
      BY <1>0, SettledCounts
    <3>3. Won(c, r, "like") = Won(b, r, "like") /\ Won(c, r, "join") = Won(b, r, "join")
      BY <1>1, <1>6, <1>7, <3>1, InsertedCounts
    <3> QED BY <3>2, <3>3
  <2>b. /\ Cardinality(Won(a, r, "like")) <= Cardinality(Won(b, r, "like"))
        /\ Cardinality(Won(a, r, "join")) <= Cardinality(Won(b, r, "join"))
    BY <1>0, SettledCounts
  <2>4. PICK lj, jc : lj = LikesPerJoin * nj /\ jc = JoinsPerComment * nc
    OBVIOUS
  <2>5. /\ lj \in Nat /\ jc \in Nat /\ LikesPerJoin * (nj + 1) = lj + LikesPerJoin
        /\ JoinsPerComment * (nc + 1) = jc + JoinsPerComment
    BY <2>3, <2>4, CadenceAssumption, TimesOneMore
  <2>6. PICK vl, vj : vl = Cardinality(Won(c, r, "like")) /\ vj = Cardinality(Won(c, r, "join"))
    OBVIOUS
  <2>7. /\ vl \in Nat /\ vj \in Nat /\ vl = Cardinality(Won(b, r, "like")) /\ vj = Cardinality(Won(b, r, "join"))
        /\ wl <= vl /\ wj <= vj
    BY <2>a, <2>2, <2>6, <2>b, Counts
  <2>8. g[r].likes + lj <= wl /\ g[r].joins + jc <= wj
    BY <1>0, <2>2, <2>4 DEF Earned
  <2>9. g[r].likes \in Nat /\ g[r].joins \in Nat /\ LikesPerJoin \in Nat /\ JoinsPerComment \in Nat
    BY <1>0, CadenceAssumption DEF ProgRec
  <2>c. PICK gl \in Nat, gj \in Nat : gl = g[r].likes /\ gj = g[r].joins
    BY <2>9
  <2>d. PICK hl, hj : hl = h[r].likes /\ hj = h[r].joins
    OBVIOUS
  <2>10. CASE r # u
    <3>1. OfType(c, r, "join") = OfType(a, r, "join") /\ OfType(c, r, "comment") = OfType(a, r, "comment")
      <4>1. "join" \in ActionTypes /\ "comment" \in ActionTypes
        BY DEF ActionTypes
      <4>2. OfType(c, r, "join") = OfType(b, r, "join") /\ OfType(c, r, "comment") = OfType(b, r, "comment")
        BY <1>1, <1>6, <1>7, <2>10, <4>1, InsertedCounts
      <4> QED BY <4>2, <2>a
    <3>2. h[r].likes + lj <= vl /\ h[r].joins + jc <= vj
      <4>1. hl = gl /\ hj = gj
        BY <2>c, <2>d, <2>10, <1>9
      <4>2. hl + lj <= vl /\ hj + jc <= vj
        BY <4>1, <2>3, <2>5, <2>7, <2>8, <2>c
      <4> QED BY <4>2, <2>d
    <3> QED BY <3>1, <3>2, <2>2, <2>4, <2>6
  <2>11. CASE r = u
    <3>1. /\ o = "confirmed" /\ a[i].type = "like" => vl = wl + 1
          /\ o = "confirmed" /\ a[i].type = "join" => vj = wj + 1
      <4>1. /\ o = "confirmed" /\ a[i].type = "like" =>
                  Cardinality(Won(b, r, "like")) = Cardinality(Won(a, r, "like")) + 1
            /\ o = "confirmed" /\ a[i].type = "join" =>
                  Cardinality(Won(b, r, "join")) = Cardinality(Won(a, r, "join")) + 1
        BY <1>0, <1>2, <2>11, SettledCounts
      <4> QED BY <4>1, <2>2, <2>7
    <3>2. CASE t = "join"
      <4>1. OfType(c, r, "comment") = OfType(a, r, "comment") /\ Cardinality(OfType(c, r, "join")) = nj + 1
        <5>1. "join" \in ActionTypes /\ "comment" \in ActionTypes
          BY DEF ActionTypes
        <5>2. /\ OfType(c, r, "comment") = OfType(b, r, "comment")
              /\ Cardinality(OfType(c, r, "join")) = Cardinality(OfType(b, r, "join")) + 1
          BY <1>1, <1>6, <1>7, <2>11, <3>2, <5>1, InsertedCounts
        <5> QED BY <5>2, <2>2, <2>a
      <4>2. v.likes + LikesPerJoin = g[r].likes + 1 /\ a[i].type = "like" /\ o = "confirmed" /\ v.joins <= g[r].joins
        BY <3>2, <2>11, <1>4, <1>5
      <4>3. h[r].likes + (lj + LikesPerJoin) <= vl /\ h[r].joins + jc <= vj
        <5>1. hl \in Nat /\ hj \in Nat /\ hl + LikesPerJoin = gl + 1 /\ hj <= gj /\ vl = wl + 1
          BY <4>2, <3>1, <2>c, <2>d, <2>11, <1>4, <1>9
        <5>2. hl + (lj + LikesPerJoin) <= vl /\ hj + jc <= vj
          BY <5>1, <2>3, <2>5, <2>7, <2>8, <2>9, <2>c
        <5> QED BY <5>2, <2>d
      <4> QED BY <4>1, <4>3, <2>2, <2>4, <2>5, <2>6
    <3>3. CASE t = "comment"
      <4>1. OfType(c, r, "join") = OfType(a, r, "join") /\ Cardinality(OfType(c, r, "comment")) = nc + 1
        <5>1. "join" \in ActionTypes /\ "comment" \in ActionTypes
          BY DEF ActionTypes
        <5>2. /\ OfType(c, r, "join") = OfType(b, r, "join")
              /\ Cardinality(OfType(c, r, "comment")) = Cardinality(OfType(b, r, "comment")) + 1
          BY <1>1, <1>6, <1>7, <2>11, <3>3, <5>1, InsertedCounts
        <5> QED BY <5>2, <2>2, <2>a
      <4>2. v.joins + JoinsPerComment = g[r].joins + 1 /\ a[i].type = "join" /\ o = "confirmed" /\ v.likes <= g[r].likes
        BY <3>3, <2>11, <1>4, <1>5
      <4>3. h[r].likes + lj <= vl /\ h[r].joins + (jc + JoinsPerComment) <= vj
        <5>1. hl \in Nat /\ hj \in Nat /\ hj + JoinsPerComment = gj + 1 /\ hl <= gl /\ vj = wj + 1
          BY <4>2, <3>1, <2>c, <2>d, <2>11, <1>4, <1>9
        <5>2. hl + lj <= vl /\ hj + (jc + JoinsPerComment) <= vj
          BY <5>1, <2>3, <2>5, <2>7, <2>8, <2>9, <2>c
        <5> QED BY <5>2, <2>d
      <4> QED BY <4>1, <4>3, <2>2, <2>4, <2>5, <2>6
    <3> QED BY <3>2, <3>3, <1>4, <1>5
  <2> QED BY <2>10, <2>11
<1>12. Shrinks(a, c)
  BY <1>1, <1>8 DEF Shrinks
<1> QED BY <1>8, <1>9, <1>10, <1>11, <1>12 DEF Tables

\* Settling row i, the slot of r, earns an action.
Earning(r, i, adv, b) ==
    r.slot = i /\ adv.next # "none" /\ selectNonTerminalActionOfType(b, act[i].rev, adv.next) = {}

LEMMA Settling ==
    ASSUME Tables(act, prog), NEW i \in Ids, NEW src, NEW o \in Outcomes, settleAction(i, src, o)
    PROVE  Tables(act', prog') /\ Shrinks(act, act')
<1>0. Rows(act) /\ act \in [Ids -> ActRec] /\ act[i] \in ActRec /\ ActionOK(act[i]) /\ prog \in [Revs -> ProgRec]
  BY DEF Tables, Rows
<1>1. PICK v : v = SettleVerdict(i, src, o)
  OBVIOUS
<1>2. PICK r : r = prog[act[i].rev]
  OBVIOUS
<1>3. PICK adv : adv = advanceCounters(r, act[i].type, o, act[i].down /\ r.st = "active")
  OBVIOUS
<1>4. PICK d \in BOOLEAN : adv = advanceCounters(r, act[i].type, o, d)
  BY <1>3
<1>5. PICK b : b = Done(act, i, o)
  OBVIOUS
<1>6. b = [act EXCEPT ![i].state = "terminal", ![i].phase = "settled", ![i].out = o,
                      ![i].owner = Nothing, ![i].live = FALSE]
  BY <1>0, <1>5 DEF Done, SettledAs
<1>8. PICK n : n = NextId(b)
  OBVIOUS
<1>a. v = "settled" /\ Earning(r, i, adv, b) => Free(act) # {}
  BY <1>1, <1>2, <1>3, <1>6 DEF settleAction, Earning
<1>b. act' = CASE v = "pending" -> [act EXCEPT ![i].out = "pending"]
               [] v = "settled" /\ Earning(r, i, adv, b) -> [b EXCEPT ![n] = insertAction(adv.next, act[i].rev, Nothing)]
               [] v = "settled" /\ ~Earning(r, i, adv, b) -> b
               [] OTHER -> act
  BY <1>1, <1>2, <1>3, <1>6, <1>8 DEF settleAction, Earning
<1>c. /\ v = "settled" /\ Earning(r, i, adv, b) => prog' = Paid(prog, act[i].rev, adv, n)
      /\ v = "settled" /\ r.slot = i /\ ~Earning(r, i, adv, b) => prog' = Paid(prog, act[i].rev, adv, 0)
      /\ ~(v = "settled" /\ r.slot = i) => prog' = prog
  <2>1. v = "settled" /\ Earning(r, i, adv, b) => prog' = Paid(prog, act[i].rev, adv, n)
    <3>1. SUFFICES ASSUME v = "settled", Earning(r, i, adv, b) PROVE prog' = Paid(prog, act[i].rev, adv, n)
      OBVIOUS
    <3>2. r.slot = i
      BY <3>1 DEF Earning
    <3> QED BY <1>1, <1>2, <1>3, <1>6, <1>8, <3>1, <3>2 DEF settleAction, Earning, Paid
  <2>2. v = "settled" /\ r.slot = i /\ ~Earning(r, i, adv, b) => prog' = Paid(prog, act[i].rev, adv, 0)
    <3>1. SUFFICES ASSUME v = "settled", r.slot = i, ~Earning(r, i, adv, b) PROVE prog' = Paid(prog, act[i].rev, adv, 0)
      OBVIOUS
    <3> QED BY <1>1, <1>2, <1>3, <1>6, <1>8, <3>1 DEF settleAction, Earning, Paid
  <2>3. ~(v = "settled" /\ r.slot = i) => prog' = prog
    BY <1>1, <1>2 DEF settleAction
  <2> QED BY <2>1, <2>2, <2>3
<1>10. v \in {"pending", "settled"} => act[i].state # "terminal"
  BY <1>1 DEF SettleVerdict
<1>11. CASE v = "pending"
  <2>1. PICK y \in ActRec : y = [act[i] EXCEPT !.out = "pending"]
    <3>1. [act[i] EXCEPT !.out = "pending"] \in ActRec
      BY <1>0 DEF ActRec, Outcomes
    <3> QED BY <3>1
  <2>2. ActionOK(y) /\ SameRow(act[i], y)
    BY <1>0, <1>10, <1>11, <2>1 DEF ActionOK, SameRow, ActRec
  <2>3. act' = [act EXCEPT ![i] = y] /\ prog' = prog
    BY <1>0, <1>b, <1>c, <1>11, <2>1
  <2> QED BY <2>2, <2>3, RowWorked
<1>12. CASE v = "settled" /\ ~Earning(r, i, adv, b)
  <2>1. act' = b
    BY <1>b, <1>12
  <2>2. PICK h : h = prog'
    OBVIOUS
  <2>3. \/ prog[act[i].rev].slot = i /\ h = Paid(prog, act[i].rev, adv, 0)
        \/ prog[act[i].rev].slot # i /\ h = prog
    BY <1>2, <1>c, <1>12, <2>2
  <2>4. Tables(b, h) /\ Shrinks(act, b)
    BY <1>2, <1>4, <1>5, <1>10, <1>12, <2>3, SettlingAlone
  <2> QED BY <2>1, <2>2, <2>4
<1>13. CASE v = "settled" /\ Earning(r, i, adv, b)
  <2>1. r.slot = i /\ adv.next # "none" /\ act[i].state # "terminal" /\ Free(act) # {}
    BY <1>a, <1>10, <1>13 DEF Earning
  <2>2. Rows(b) /\ \A k \in Ids : b[k].type = act[k].type
    BY <1>0, <1>5, <2>1, SettledRows
  <2>3. Free(b) # {}
    BY <1>0, <2>1, <2>2 DEF Free, Rows
  <2>4. n \in Ids /\ b[n].type = "none"
    BY <1>8, <2>2, <2>3, NextIds
  <2>5. PICK c : c = Put(b, n, insertAction(adv.next, act[i].rev, Nothing))
    OBVIOUS
  <2>6. PICK h : h = Paid(prog, act[i].rev, adv, n)
    OBVIOUS
  <2>7. act' = c
    BY <1>b, <1>13, <2>5 DEF Put
  <2>8. prog' = h
    BY <1>c, <1>13, <2>6
  <2>9. Tables(c, h) /\ Shrinks(act, c)
    BY <1>2, <1>4, <1>5, <2>1, <2>4, <2>5, <2>6, SettlingEarns
  <2> QED BY <2>7, <2>8, <2>9
<1>14. CASE v \notin {"pending", "settled"}
  <2>1. act' = act /\ prog' = prog
    BY <1>b, <1>c, <1>14
  <2> QED BY <2>1 DEF Shrinks
<1> QED BY <1>11, <1>12, <1>13, <1>14

------------------------------------------------------------------------------
(* What the processes have in hand *)

Runs(v) == v \in [Services -> RunRec] /\ \A p \in Services : v[p].step # "idle" => v[p].id \in Ids
Likes(v) == v \in [Services -> LikeRec] /\ \A p \in Services : v[p].step # "none" => v[p].id \in Ids
Within(v, u) == \A p \in Services : \A i \in Ids : MayWrite(v, p, i) => MayWrite(u, p, i)

LEMMA InHand == ASSUME NEW rn, NEW lk PROVE Hands(rn, lk) <=> Runs(rn) /\ Likes(lk)
BY DEF Hands, Runs, Likes

LEMMA Withins ==
    /\ \A v : Within(v, v)
    /\ \A u, v, w : Within(w, v) /\ Within(v, u) => Within(w, u)
BY DEF Within

LEMMA StaleRun == ASSUME NEW v, Runs(v), NEW p, NEW ids PROVE Runs(Stale(v, p, ids)) /\ Within(Stale(v, p, ids), v)
<1>1. PICK u : u = Stale(v, p, ids)
  OBVIOUS
<1>2. u = [q \in Services |-> u[q]]
  BY <1>1 DEF Stale
<1>3. ASSUME NEW q \in Services
      PROVE  u[q] \in RunRec /\ u[q].id = v[q].id /\ u[q].step = v[q].step
  <2>1. v[q] \in RunRec
    BY DEF Runs
  <2>2. u[q] = [v[q] EXCEPT !.fresh = FALSE] \/ u[q] = v[q]
    BY <1>1 DEF Stale
  <2> QED BY <2>1, <2>2 DEF RunRec
<1>4. Runs(u)
  BY <1>2, <1>3 DEF Runs
<1>5. Within(u, v)
  BY <1>3 DEF Within, MayWrite
<1> QED BY <1>1, <1>4, <1>5

LEMMA StaleLike == ASSUME NEW v, Likes(v), NEW p, NEW ids PROVE Likes(Stale(v, p, ids)) /\ Within(Stale(v, p, ids), v)
<1>1. PICK u : u = Stale(v, p, ids)
  OBVIOUS
<1>2. u = [q \in Services |-> u[q]]
  BY <1>1 DEF Stale
<1>3. ASSUME NEW q \in Services
      PROVE  u[q] \in LikeRec /\ u[q].id = v[q].id /\ u[q].step = v[q].step
  <2>1. v[q] \in LikeRec
    BY DEF Likes
  <2>2. u[q] = [v[q] EXCEPT !.fresh = FALSE] \/ u[q] = v[q]
    BY <1>1 DEF Stale
  <2> QED BY <2>1, <2>2 DEF LikeRec
<1>4. Likes(u)
  BY <1>2, <1>3 DEF Likes
<1>5. Within(u, v)
  BY <1>3 DEF Within, MayWrite
<1> QED BY <1>1, <1>4, <1>5

PutIn(v, p, x) == [v EXCEPT ![p] = x]

LEMMA RunPut ==
    ASSUME NEW v, Runs(v), NEW p \in Services, NEW x \in RunRec, x.step # "idle" => x.id \in Ids
    PROVE  Runs(PutIn(v, p, x))
BY DEF Runs, PutIn

LEMMA RunQuiet ==
    ASSUME NEW v, Runs(v), NEW p \in Services, NEW x, x.step # "authorised"
    PROVE  Within(PutIn(v, p, x), v) /\ \A i \in Ids : ~MayWrite(PutIn(v, p, x), p, i)
BY DEF Runs, Within, MayWrite, PutIn

LEMMA RunMarks ==
    ASSUME NEW v, Runs(v), NEW p \in Services, NEW x
    PROVE  \A q \in Services : \A i \in Ids : MayWrite(PutIn(v, p, x), q, i) => MayWrite(v, q, i) \/ (q = p /\ i = x.id)
BY DEF Runs, MayWrite, PutIn

LEMMA LikePut ==
    ASSUME NEW v, Likes(v), NEW p \in Services, NEW x \in LikeRec, x.step # "none" => x.id \in Ids
    PROVE  Likes(PutIn(v, p, x))
BY DEF Likes, PutIn

LEMMA LikeQuiet ==
    ASSUME NEW v, Likes(v), NEW p \in Services, NEW x, x.step # "authorised"
    PROVE  Within(PutIn(v, p, x), v) /\ \A i \in Ids : ~MayWrite(PutIn(v, p, x), p, i)
BY DEF Likes, Within, MayWrite, PutIn

LEMMA LikeMarks ==
    ASSUME NEW v, Likes(v), NEW p \in Services, NEW x
    PROVE  \A q \in Services : \A i \in Ids : MayWrite(PutIn(v, p, x), q, i) => MayWrite(v, q, i) \/ (q = p /\ i = x.id)
BY DEF Likes, MayWrite, PutIn

LEMMA NoHand == /\ NoRun \in RunRec /\ NoRun.step = "idle" /\ NoLike \in LikeRec /\ NoLike.step = "none"
BY SessionAssumption DEF NoRun, NoLike, RunRec, LikeRec

LEMMA Driving ==
    ASSUME NEW p, NEW i \in Ids, NEW a
    PROVE  Drive(p, i, a) \in RunRec /\ Drive(p, i, a).step = "drive" /\ Drive(p, i, a).id = i
<1>1. PICK w \in {"new", "leased", "orphan"} : w = WasOf(a, i)
  BY DEF WasOf
<1>2. Drive(p, i, a) = [NoRun EXCEPT !.id = i, !.step = "drive", !.was = w]
  BY <1>1 DEF Drive
<1>3. NoRun \in RunRec
  BY NoHand
<1>4. Drive(p, i, a) \in RunRec
  BY <1>2, <1>3 DEF RunRec
<1> QED BY <1>2, <1>3, <1>4 DEF RunRec

------------------------------------------------------------------------------
(* What has been written *)

LEMMA SentKept ==
    ASSUME NEW a, NEW b, NEW rn, NEW lk, NEW w, Sent(a, rn, lk, w), Shrinks(a, b),
           NEW rn2, NEW lk2, Within(rn2, rn), Within(lk2, lk)
    PROVE  Sent(b, rn2, lk2, w)
BY DEF Sent, Shrinks, Within

\* Process p has marked row i, through its drive or through its like.
LEMMA SentMarked ==
    ASSUME NEW a, NEW b, NEW rn, NEW lk, NEW w, Sent(a, rn, lk, w), Shrinks(a, b), NEW i \in Ids, NEW p \in Services,
           Unsent(a, i), ~Unsent(b, i), NEW v, NEW u
    PROVE  /\ (\A q \in Services : \A k \in Ids : MayWrite(v, q, k) => MayWrite(rn, q, k) \/ (q = p /\ k = i)) /\ Within(u, lk)
                => Sent(b, v, u, w)
           /\ (\A q \in Services : \A k \in Ids : MayWrite(u, q, k) => MayWrite(lk, q, k) \/ (q = p /\ k = i)) /\ Within(v, rn)
                => Sent(b, v, u, w)
BY DEF Sent, Shrinks, Within

\* Process p has written row i.
LEMMA SentWritten ==
    ASSUME NEW a, NEW rn, NEW lk, NEW w, Sent(a, rn, lk, w), NEW i \in Ids, NEW p \in Services,
           NEW v, NEW u, Within(v, rn), Within(u, lk),
           \/ MayWrite(rn, p, i) /\ \A k \in Ids : ~MayWrite(v, p, k)
           \/ MayWrite(lk, p, i) /\ \A k \in Ids : ~MayWrite(u, p, k)
    PROVE  Sent(a, v, u, [w EXCEPT ![i] = @ + 1])
<1>1. w[i] = 0 /\ ~Unsent(a, i)
  BY DEF Sent
<1>2. PICK z : z = [w EXCEPT ![i] = @ + 1]
  OBVIOUS
<1>3. z \in [Ids -> Nat] /\ z[i] = 1 /\ \A k \in Ids : k # i => z[k] = w[k]
  BY <1>1, <1>2 DEF Sent
<1>4. \A q \in Services : ~MayWrite(v, q, i) /\ ~MayWrite(u, q, i)
  BY DEF Sent, Within
<1> QED BY <1>1, <1>2, <1>3, <1>4 DEF Sent, Within

------------------------------------------------------------------------------
(* Steps of a drive *)

LEMMA Moved ==
    ASSUME ConsInv, Tables(act, prog)', Shrinks(act, act'), Runs(run'), Within(run', run),
           Likes(like'), Within(like', like), writes' = writes
    PROVE  ConsInv'
<1>1. Sent(act', run', like', writes')
  BY SentKept DEF ConsInv
<1> QED BY <1>1, InHand DEF ConsInv

LEMMA Held == ASSUME ConsInv PROVE Runs(run) /\ Likes(like) /\ Tables(act, prog) /\ Rows(act)
BY InHand DEF ConsInv, Tables

LEMMA Finishing ==
    ASSUME NEW v, Runs(v), NEW p \in Services
    PROVE  Runs([v EXCEPT ![p] = NoRun]) /\ Within([v EXCEPT ![p] = NoRun], v)
<1>1. [v EXCEPT ![p] = NoRun] = PutIn(v, p, NoRun)
  BY DEF PutIn
<1>2. NoRun \in RunRec /\ NoRun.step = "idle"
  BY NoHand
<1>3. Runs(PutIn(v, p, NoRun))
  BY <1>2, RunPut
<1>4. Within(PutIn(v, p, NoRun), v)
  BY <1>2, RunQuiet
<1> QED BY <1>1, <1>3, <1>4

LEMMA Starting ==
    ASSUME NEW v, Runs(v), NEW p \in Services, NEW i \in Ids, NEW a
    PROVE  Runs([v EXCEPT ![p] = Drive(p, i, a)]) /\ Within([v EXCEPT ![p] = Drive(p, i, a)], v)
<1>1. Drive(p, i, a) \in RunRec /\ Drive(p, i, a).step = "drive" /\ Drive(p, i, a).id = i
  BY Driving
<1>2. [v EXCEPT ![p] = Drive(p, i, a)] = PutIn(v, p, Drive(p, i, a))
  BY DEF PutIn
<1>3. Runs(PutIn(v, p, Drive(p, i, a)))
  BY <1>1, RunPut
<1>4. Within(PutIn(v, p, Drive(p, i, a)), v)
  BY <1>1, RunQuiet
<1> QED BY <1>2, <1>3, <1>4

LEMMA Nexts == NextAction # {} => Oldest(NextAction) \in Ids
<1>1. NextAction \subseteq Nat /\ NextAction \subseteq Ids
  BY DEF NextAction, Ids
<1> QED BY <1>1, Oldests

LEMMA ContinueStep ==
    ASSUME ConsInv, NEW p \in Services, NEW i \in Ids, NEW src, NEW o \in Outcomes, SettleAndContinue(p, i, src, o)
    PROVE  ConsInv'
<1>0. Runs(run) /\ Likes(like) /\ Tables(act, prog)
  BY Held
<1>1. settleAction(i, src, o) /\ writes' = writes /\ like' = Stale(like, Nothing, Touched(act'))
  BY DEF SettleAndContinue
<1>2. Tables(act', prog') /\ Shrinks(act, act')
  BY <1>0, <1>1, Settling
<1>3. Likes(like') /\ Within(like', like)
  BY <1>0, <1>1, StaleLike
<1>4. PICK r2 : r2 = Stale(run, p, Touched(act'))
  OBVIOUS
<1>5. Runs(r2) /\ Within(r2, run)
  BY <1>0, <1>4, StaleRun
<1>6. CASE NextAction = {}
  <2>1. run' = [r2 EXCEPT ![p] = NoRun]
    BY <1>4, <1>6 DEF SettleAndContinue, Finish
  <2>2. Runs(run') /\ Within(run', run)
    BY <1>5, <2>1, Finishing, Withins
  <2> QED BY <1>1, <1>2, <1>3, <2>2, Moved
<1>7. CASE NextAction # {}
  <2>1. run' = [r2 EXCEPT ![p] = Drive(p, Oldest(NextAction), act')]
    BY <1>4, <1>7 DEF SettleAndContinue
  <2>2. PICK n \in Ids : n = Oldest(NextAction)
    BY <1>7, Nexts
  <2>3. Runs(run') /\ Within(run', run)
    BY <1>5, <2>1, <2>2, Starting, Withins
  <2> QED BY <1>1, <1>2, <1>3, <2>3, Moved
<1> QED BY <1>6, <1>7

LEMMA ActionStep ==
    ASSUME ConsInv, NEW p, NEW i \in Ids, NEW y \in ActRec, ActionOK(y), SameRow(act[i], y), UpdateRow(p, i, y)
    PROVE  Tables(act', prog') /\ Shrinks(act, act') /\ Likes(like') /\ Within(like', like) /\ writes' = writes
<1>1. Likes(like) /\ Tables(act, prog)
  BY Held
<1>2. PICK ids : like' = Stale(like, p, ids)
  BY DEF UpdateRow
<1>3. act' = [act EXCEPT ![i] = y] /\ prog' = prog /\ writes' = writes
  BY DEF UpdateRow
<1>4. Tables(act', prog') /\ Shrinks(act, act')
  BY <1>1, <1>3, RowWorked
<1> QED BY <1>1, <1>2, <1>3, <1>4, StaleLike

LEMMA SameRows == ASSUME NEW x \in ActRec, ActionOK(x) PROVE SameRow(x, x)
BY DEF SameRow

LEMMA RowAt == ASSUME ConsInv, NEW i \in Ids PROVE act[i] \in ActRec /\ ActionOK(act[i])
BY DEF ConsInv, Tables, Rows

LEMMA Claimed ==
    ASSUME ConsInv, NEW p \in Services, NEW i \in Ids
    PROVE  /\ claimAction(p, i) \in ActRec /\ ActionOK(claimAction(p, i)) /\ SameRow(act[i], claimAction(p, i))
<1>1. act[i] \in ActRec /\ ActionOK(act[i])
  BY RowAt
<1>2. CASE claimAction(p, i) = act[i]
  BY <1>1, <1>2, SameRows
<1>3. CASE claimAction(p, i) = [act[i] EXCEPT !.owner = p, !.live = TRUE]
  <2>1. PICK y : y = [act[i] EXCEPT !.owner = p, !.live = TRUE]
    OBVIOUS
  <2>2. y \in ActRec
    BY <1>1, <2>1 DEF ActRec
  <2>3. /\ y.type = act[i].type /\ y.rev = act[i].rev /\ y.state = act[i].state /\ y.phase = act[i].phase
        /\ y.out = act[i].out
    BY <1>1, <2>1 DEF ActRec
  <2> QED BY <1>1, <1>3, <2>1, <2>2, <2>3 DEF ActionOK, SameRow
<1> QED BY <1>2, <1>3 DEF claimAction

\* A row that is not started goes on waiting, gets its target, or is marked.
LEMMA Waited ==
    ASSUME NEW x \in ActRec, ActionOK(x), x.phase = "not_started", NEW st \in {"waiting_target", "waiting_gate"},
           NEW y, y = releaseActionClaim(setPreDispatchState(x, st))
    PROVE  y \in ActRec /\ ActionOK(y) /\ SameRow(x, y)
<1>1. x.state \notin {"terminal", "dispatched"} /\ x.type # "none" /\ x.out # "confirmed"
  BY DEF ActionOK
<1>2. y = [[x EXCEPT !.state = st] EXCEPT !.owner = Nothing, !.live = FALSE]
  BY DEF releaseActionClaim, setPreDispatchState
<1>3. y \in ActRec
  BY <1>2 DEF ActRec, RowStates
<1>4. y.type = x.type /\ y.rev = x.rev /\ y.state = st /\ y.phase = x.phase /\ y.out = x.out
  BY <1>2 DEF ActRec
<1> QED BY <1>1, <1>3, <1>4 DEF ActionOK, SameRow

LEMMA Aimed ==
    ASSUME NEW x \in ActRec, ActionOK(x), x.phase = "not_started", NEW t \in Targets,
           NEW y, y = [x EXCEPT !.tgt = t, !.state = "ready"]
    PROVE  y \in ActRec /\ ActionOK(y) /\ SameRow(x, y)
<1>1. x.state \notin {"terminal", "dispatched"} /\ x.type # "none" /\ x.out # "confirmed"
  BY DEF ActionOK
<1>3. y \in ActRec
  BY DEF ActRec, RowStates
<1>4. y.type = x.type /\ y.rev = x.rev /\ y.state = "ready" /\ y.phase = x.phase /\ y.out = x.out
  BY DEF ActRec
<1> QED BY <1>1, <1>3, <1>4 DEF ActionOK, SameRow

LEMMA Marked ==
    ASSUME NEW x \in ActRec, ActionOK(x), x.phase = "not_started", NEW y,
           y = [x EXCEPT !.state = "dispatched", !.phase = "dispatched"]
    PROVE  y \in ActRec /\ ActionOK(y) /\ SameRow(x, y) /\ y.phase = "dispatched" /\ y.type # "none"
<1>1. x.state \notin {"terminal", "dispatched"} /\ x.type # "none" /\ x.out # "confirmed"
  BY DEF ActionOK
<1>4. y \in ActRec
  BY DEF ActRec, RowStates, Phases
<1>5. y.type = x.type /\ y.rev = x.rev /\ y.state = "dispatched" /\ y.phase = "dispatched" /\ y.out = x.out
  BY DEF ActRec
<1> QED BY <1>1, <1>4, <1>5 DEF ActionOK, SameRow

\* A step that leaves the row as it is and ends the drive, or goes on with it under another step.
LEMMA LeftAlone ==
    ASSUME ConsInv, NEW p, NEW i \in Ids, UpdateRow(p, i, act[i]), Runs(run'), Within(run', run)
    PROVE  ConsInv'
<1>1. act[i] \in ActRec /\ ActionOK(act[i]) /\ SameRow(act[i], act[i])
  BY RowAt, SameRows
<1> QED BY <1>1, ActionStep, Moved

On(v, p, st) == [v EXCEPT ![p].step = st]
LEMMA StepsOn ==
    ASSUME NEW v, Runs(v), NEW p \in Services, v[p].id \in Ids,
           NEW st \in {"reconcile", "supersede", "owned", "bound", "authorised", "submitted", "proved"}
    PROVE  /\ Runs(On(v, p, st))
           /\ st # "authorised" => Within(On(v, p, st), v) /\ \A i \in Ids : ~MayWrite(On(v, p, st), p, i)
           /\ \A q \in Services : \A i \in Ids :
                 MayWrite(On(v, p, st), q, i) => MayWrite(v, q, i) \/ (q = p /\ i = v[p].id)
<1>1. v[p] \in RunRec
  BY DEF Runs
<1>2. PICK x : x = [v[p] EXCEPT !.step = st]
  OBVIOUS
<1>3. x \in RunRec /\ x.step = st /\ x.id = v[p].id
  BY <1>1, <1>2 DEF RunRec
<1>4. On(v, p, st) = PutIn(v, p, x)
  BY <1>2 DEF Runs, PutIn, On
<1>5. Runs(PutIn(v, p, x))
  BY <1>3, RunPut
<1>6. st # "authorised" => Within(PutIn(v, p, x), v) /\ \A i \in Ids : ~MayWrite(PutIn(v, p, x), p, i)
  BY <1>3, RunQuiet
<1>7. \A q \in Services : \A i \in Ids : MayWrite(PutIn(v, p, x), q, i) => MayWrite(v, q, i) \/ (q = p /\ i = x.id)
  BY RunMarks
<1> QED BY <1>3, <1>4, <1>5, <1>6, <1>7

LEMMA AtRow == ASSUME ConsInv, NEW p \in Services, run[p].step # "idle" PROVE run[p].id \in Ids
BY Held DEF Runs

LEMMA ClaimStep == ASSUME ConsInv, NEW p \in Services, Claim(p) PROVE ConsInv'
<1>0. Runs(run) /\ run[p].step = "drive"
  BY Held DEF Claim
<1>1. PICK i \in Ids : i = run[p].id
  BY <1>0, AtRow
<1>2. PICK y : y = claimAction(p, i)
  OBVIOUS
<1>3. PICK r2 : r2 = Stale(run, p, IF y # act[i] THEN {i} ELSE {})
  OBVIOUS
<1>4. Runs(r2) /\ Within(r2, run) /\ r2[p].id = i /\ r2[p] \in RunRec
  <2>1. Runs(r2) /\ Within(r2, run)
    BY <1>0, <1>3, StaleRun
  <2>2. run[p] \in RunRec
    BY <1>0 DEF Runs
  <2>3. r2[p] = run[p]
    BY <1>3 DEF Stale
  <2> QED BY <1>1, <2>1, <2>2, <2>3
<1>5. CASE UpdateRow(p, i, y) /\ (Finish(p, r2) \/ run' = [r2 EXCEPT ![p].step = "owned", ![p].fresh = TRUE])
  <2>1. y \in ActRec /\ ActionOK(y) /\ SameRow(act[i], y)
    BY <1>2, Claimed
  <2>2. Tables(act', prog') /\ Shrinks(act, act') /\ Likes(like') /\ Within(like', like) /\ writes' = writes
    BY <1>5, <2>1, ActionStep
  <2>3. CASE Finish(p, r2)
    <3>1. Runs(run') /\ Within(run', run)
      BY <1>4, <2>3, Finishing, Withins DEF Finish
    <3> QED BY <2>2, <3>1, Moved
  <2>4. CASE run' = [r2 EXCEPT ![p].step = "owned", ![p].fresh = TRUE]
    <3>1. PICK x : x = [r2[p] EXCEPT !.step = "owned", !.fresh = TRUE]
      OBVIOUS
    <3>2. x \in RunRec /\ x.step = "owned" /\ x.id = i
      BY <1>4, <3>1 DEF RunRec
    <3>3. run' = PutIn(r2, p, x)
      BY <1>4, <2>4, <3>1 DEF Runs, PutIn
    <3>4. Runs(PutIn(r2, p, x)) /\ Within(PutIn(r2, p, x), r2)
      BY <1>4, <3>2, RunPut, RunQuiet
    <3> QED BY <1>4, <2>2, <3>3, <3>4, Withins, Moved
  <2> QED BY <1>5, <2>3, <2>4
<1>6. CASE UpdateRow(p, i, act[i]) /\ Finish(p, run)
  <2>1. Runs(run') /\ Within(run', run)
    BY <1>0, <1>6, Finishing DEF Finish
  <2> QED BY <1>6, <2>1, LeftAlone
<1>7. CASE SettleAndContinue(p, i, "policy", "policy_superseded")
  <2>1. "policy_superseded" \in Outcomes
    BY DEF Outcomes
  <2> QED BY <1>7, <2>1, ContinueStep
<1> QED BY <1>1, <1>2, <1>3, <1>5, <1>6, <1>7 DEF Claim

LEMMA FinishAlone ==
    ASSUME ConsInv, NEW p \in Services, NEW i \in Ids, UpdateRow(p, i, act[i]), Finish(p, run)
    PROVE  ConsInv'
<1>1. Runs(run') /\ Within(run', run)
  BY Held, Finishing DEF Finish
<1> QED BY <1>1, LeftAlone

LEMMA WaitStep == ASSUME ConsInv, NEW p \in Services, waitAndRelease(p) PROVE ConsInv'
<1>0. Runs(run) /\ run[p].step \in {"owned", "bound"}
  BY Held DEF waitAndRelease
<1>1. PICK i \in Ids : i = run[p].id
  BY <1>0, AtRow
<1>2. CASE act[i].phase = "not_started" /\ ownerMatches(p, i) /\ run[p].fresh
  <2>a. PICK st \in {"waiting_target", "waiting_gate"} :
           UpdateRow(p, i, releaseActionClaim(setPreDispatchState(act[i], st)))
    BY <1>1, <1>2 DEF waitAndRelease
  <2>b. PICK y : y = releaseActionClaim(setPreDispatchState(act[i], st))
    OBVIOUS
  <2>1. y = releaseActionClaim(setPreDispatchState(act[i], st)) /\ UpdateRow(p, i, y)
    BY <2>a, <2>b
  <2>2. act[i] \in ActRec /\ ActionOK(act[i])
    BY RowAt
  <2>3. y \in ActRec /\ ActionOK(y) /\ SameRow(act[i], y)
    BY <1>2, <2>1, <2>2, Waited
  <2>4. Tables(act', prog') /\ Shrinks(act, act') /\ Likes(like') /\ Within(like', like) /\ writes' = writes
    BY <2>1, <2>3, ActionStep
  <2>5. PICK r2 : r2 = Stale(run, p, {i}) /\ Finish(p, r2)
    BY <1>1, <1>2 DEF waitAndRelease
  <2>6. Runs(r2) /\ Within(r2, run)
    BY <1>0, <2>5, StaleRun
  <2>7. Runs(run') /\ Within(run', run)
    BY <2>5, <2>6, Finishing, Withins DEF Finish
  <2> QED BY <2>4, <2>7, Moved
<1>3. CASE ~(act[i].phase = "not_started" /\ ownerMatches(p, i) /\ run[p].fresh)
  <2>1. UpdateRow(p, i, act[i])
    BY <1>1, <1>3 DEF waitAndRelease
  <2>2. PICK r2 : r2 = Stale(run, p, {}) /\ Finish(p, r2)
    BY <1>1, <1>3 DEF waitAndRelease
  <2>3. Runs(r2) /\ Within(r2, run)
    BY <1>0, <2>2, StaleRun
  <2>4. Runs(run') /\ Within(run', run)
    BY <2>2, <2>3, Finishing, Withins DEF Finish
  <2> QED BY <2>1, <2>4, LeftAlone
<1> QED BY <1>2, <1>3

\* The drive of p goes on at its row, which other processes see as stale.
LEMMA StaleSteps ==
    ASSUME NEW v, Runs(v), NEW p \in Services, v[p].id \in Ids, NEW ids,
           NEW st \in {"reconcile", "supersede", "owned", "bound", "authorised", "submitted", "proved"}
    PROVE  /\ Runs(On(Stale(v, p, ids), p, st))
           /\ st # "authorised" => Within(On(Stale(v, p, ids), p, st), v)
           /\ \A q \in Services : \A i \in Ids :
                 MayWrite(On(Stale(v, p, ids), p, st), q, i) => MayWrite(v, q, i) \/ (q = p /\ i = v[p].id)
<1>1. PICK r2 : r2 = Stale(v, p, ids)
  OBVIOUS
<1>2. Runs(r2) /\ Within(r2, v)
  BY <1>1, StaleRun
<1>3. r2[p].id = v[p].id
  BY <1>1 DEF Stale
<1>4. PICK u : u = On(r2, p, st)
  OBVIOUS
<1>5. /\ Runs(u)
      /\ st # "authorised" => Within(u, r2)
      /\ \A q \in Services : \A i \in Ids : MayWrite(u, q, i) => MayWrite(r2, q, i) \/ (q = p /\ i = r2[p].id)
  BY <1>2, <1>3, <1>4, StepsOn
<1>6. ASSUME st # "authorised" PROVE Within(u, v)
  <2>1. Within(u, r2)
    BY <1>5, <1>6
  <2> QED BY <1>2, <2>1, Withins
<1>7. \A q \in Services : \A i \in Ids : MayWrite(u, q, i) => MayWrite(v, q, i) \/ (q = p /\ i = v[p].id)
  BY <1>2, <1>3, <1>5 DEF Within
<1> QED BY <1>1, <1>4, <1>5, <1>6, <1>7

LEMMA BindStep == ASSUME ConsInv, NEW p \in Services, NEW t \in Targets, bindActionTarget(p, t) PROVE ConsInv'
<1>0. Runs(run) /\ run[p].step = "owned"
  BY Held DEF bindActionTarget
<1>1. PICK i \in Ids : i = run[p].id
  BY <1>0, AtRow
<1>2. CASE /\ act[i].phase = "not_started"
           /\ UpdateRow(p, i, [act[i] EXCEPT !.tgt = t, !.state = "ready"])
           /\ run' = [Stale(run, p, {i}) EXCEPT ![p].step = "bound"]
  <2>1. PICK y : y = [act[i] EXCEPT !.tgt = t, !.state = "ready"]
    OBVIOUS
  <2>2. act[i] \in ActRec /\ ActionOK(act[i])
    BY RowAt
  <2>3. y \in ActRec /\ ActionOK(y) /\ SameRow(act[i], y)
    BY <1>2, <2>1, <2>2, Aimed
  <2>4. Tables(act', prog') /\ Shrinks(act, act') /\ Likes(like') /\ Within(like', like) /\ writes' = writes
    BY <1>2, <2>1, <2>3, ActionStep
  <2>5. PICK u : u = run'
    OBVIOUS
  <2>a. u = On(Stale(run, p, {i}), p, "bound")
    BY <1>2, <2>5 DEF On
  <2>6. Runs(u) /\ Within(u, run)
    BY <1>0, <1>1, <2>a, StaleSteps
  <2> QED BY <2>4, <2>5, <2>6, Moved
<1>3. CASE SettleAndContinue(p, i, "conflict", "structural")
  <2>1. "structural" \in Outcomes
    BY DEF Outcomes
  <2> QED BY <1>3, <2>1, ContinueStep
<1>4. CASE UpdateRow(p, i, act[i]) /\ Finish(p, run)
  BY <1>4, FinishAlone
<1> QED BY <1>1, <1>2, <1>3, <1>4 DEF bindActionTarget

\* The durable mark of a drive.
LEMMA MarkStep == ASSUME ConsInv, NEW p \in Services, bindTargetAndMarkDispatched(p) PROVE ConsInv'
<1>0. Runs(run) /\ run[p].step = "bound"
  BY Held DEF bindTargetAndMarkDispatched
<1>1. PICK i \in Ids : i = run[p].id
  BY <1>0, AtRow
<1>2. CASE /\ act[i].phase = "not_started"
           /\ UpdateRow(p, i, [act[i] EXCEPT !.state = "dispatched", !.phase = "dispatched"])
           /\ run' = [Stale(run, p, {i}) EXCEPT ![p].step = "authorised"]
  <2>1. PICK y : y = [act[i] EXCEPT !.state = "dispatched", !.phase = "dispatched"]
    OBVIOUS
  <2>2. act[i] \in ActRec /\ ActionOK(act[i])
    BY RowAt
  <2>3. y \in ActRec /\ ActionOK(y) /\ SameRow(act[i], y) /\ y.phase = "dispatched" /\ y.type # "none"
    BY <1>2, <2>1, <2>2, Marked
  <2>4. Tables(act', prog') /\ Shrinks(act, act') /\ Likes(like') /\ Within(like', like) /\ writes' = writes
    BY <1>2, <2>1, <2>3, ActionStep
  <2>5. run' = On(Stale(run, p, {i}), p, "authorised")
    BY <1>2 DEF On
  <2>6. /\ Runs(run')
        /\ \A q \in Services : \A k \in Ids : MayWrite(run', q, k) => MayWrite(run, q, k) \/ (q = p /\ k = i)
    BY <1>0, <1>1, <2>5, StaleSteps
  <2>7. act'[i] = y
    BY <1>2, <2>1, Held DEF UpdateRow, Rows
  <2>8. Unsent(act, i) /\ ~Unsent(act', i)
    BY <1>2, <2>3, <2>7 DEF Unsent
  <2>9. Sent(act, run, like, writes)
    BY DEF ConsInv
  <2>10. Sent(act', run', like', writes)
    BY <2>4, <2>6, <2>8, <2>9, SentMarked
  <2> QED BY <2>4, <2>6, <2>10, InHand DEF ConsInv
<1>3. CASE UpdateRow(p, i, act[i]) /\ Finish(p, run)
  BY <1>3, FinishAlone
<1> QED BY <1>1, <1>2, <1>3 DEF bindTargetAndMarkDispatched

\* The one write.
LEMMA SubmitStep == ASSUME ConsInv, NEW p \in Services, Submit(p) PROVE ConsInv'
<1>0. Runs(run) /\ Likes(like) /\ run[p].step = "authorised"
  BY Held DEF Submit
<1>1. PICK i \in Ids : i = run[p].id
  BY <1>0, AtRow
<1>2. run' = On(run, p, "submitted")
  BY DEF Submit, On
<1>3. Runs(run') /\ Within(run', run) /\ \A k \in Ids : ~MayWrite(run', p, k)
  BY <1>0, <1>1, <1>2, StepsOn
<1>4. UNCHANGED <<act, prog, like>> /\ writes' = [writes EXCEPT ![i] = @ + 1]
  BY <1>1 DEF Submit
<1>5. MayWrite(run, p, i)
  BY <1>0, <1>1 DEF MayWrite
<1>6. Sent(act, run, like, writes) /\ Within(like, like)
  BY Withins DEF ConsInv
<1>7. PICK v : v = run'
  OBVIOUS
<1>8. Sent(act, v, like, [writes EXCEPT ![i] = @ + 1])
  BY <1>3, <1>5, <1>6, <1>7, SentWritten
<1>9. Sent(act', run', like', writes')
  BY <1>4, <1>7, <1>8
<1> QED BY <1>0, <1>3, <1>4, <1>9, InHand, Held DEF ConsInv

LEMMA Unmoved == ASSUME NEW a PROVE Shrinks(a, a)
BY DEF Shrinks

LEMMA ProveStep == ASSUME ConsInv, NEW p \in Services, RecordConfirmedComment(p) PROVE ConsInv'
<1>0. Runs(run) /\ Likes(like) /\ run[p].step = "submitted" /\ Tables(act, prog)
  BY Held DEF RecordConfirmedComment
<1>1. run[p].id \in Ids
  BY <1>0, AtRow
<1>2. run' = On(run, p, "proved") /\ UNCHANGED <<act, prog, like, writes>>
  BY DEF RecordConfirmedComment, On
<1>3. Runs(run') /\ Within(run', run)
  BY <1>0, <1>1, <1>2, StepsOn
<1> QED BY <1>0, <1>2, <1>3, Withins, Unmoved, Moved

LEMMA LeaveSteps ==
    ASSUME ConsInv, NEW p \in Services, AwaitReconciliation(p) \/ LeaveDispatched(p)
    PROVE  ConsInv'
<1>1. run[p].step # "idle" /\ UpdateRow(p, run[p].id, act[run[p].id]) /\ Finish(p, run)
  BY DEF AwaitReconciliation, LeaveDispatched
<1>2. run[p].id \in Ids
  BY <1>1, AtRow
<1> QED BY <1>1, <1>2, FinishAlone

LEMMA Receipts ==
    ASSUME NEW st
    PROVE  classifyJoinReceipt(st) \subseteq Outcomes /\ commentResultOutcome(st) \subseteq Outcomes
<1>1. classifyJoinReceipt(st) \subseteq Outcomes
  BY DEF classifyJoinReceipt, Outcomes
<1>2. commentResultOutcome(st) \subseteq Outcomes
  BY DEF commentResultOutcome, Outcomes
<1> QED BY <1>1, <1>2

LEMMA SettleSteps ==
    ASSUME ConsInv, NEW p \in Services,
           \/ StopForPolicy(p) \/ runJoin(p) \/ runComment(p) \/ reconcileOrphanedDispatchedLike(p)
           \/ reconcileDispatchedJoin(p) \/ reconcileDispatchedComment(p)
    PROVE  ConsInv'
<1>0. Runs(run) /\ run[p] \in RunRec
  BY Held DEF Runs
<1>1. {"policy_superseded", "ambiguous", "already", "confirmed"} \subseteq Outcomes
  BY DEF Outcomes
<1>2. CASE StopForPolicy(p) \/ reconcileOrphanedDispatchedLike(p) \/ reconcileDispatchedJoin(p)
  <2>1. run[p].step # "idle"
    BY <1>2 DEF StopForPolicy, reconcileOrphanedDispatchedLike, reconcileDispatchedJoin
  <2>2. PICK i \in Ids : i = run[p].id
    BY <2>1, AtRow
  <2>3. PICK src \in Sources, o \in Outcomes : SettleAndContinue(p, i, src, o)
    BY <1>1, <1>2, <2>2 DEF StopForPolicy, reconcileOrphanedDispatchedLike, reconcileDispatchedJoin, Sources
  <2> QED BY <2>3, ContinueStep
<1>3. CASE reconcileDispatchedComment(p)
  <2>1. run[p].step # "idle"
    BY <1>3 DEF reconcileDispatchedComment
  <2>2. PICK i \in Ids : i = run[p].id
    BY <2>1, AtRow
  <2>3. PICK o \in Outcomes : SettleAndContinue(p, i, "platform", o)
    <3>1. PICK o : o = IF run[p].id \in proof THEN "confirmed" ELSE "ambiguous"
      OBVIOUS
    <3>2. SettleAndContinue(p, i, "platform", o)
      BY <1>3, <2>2, <3>1 DEF reconcileDispatchedComment
    <3> QED BY <1>1, <3>1, <3>2
  <2> QED BY <2>3, ContinueStep
<1>4. CASE runJoin(p) \/ runComment(p)
  <2>1. PICK i \in Ids : i = run[p].id
    BY <1>0, <1>4 DEF RunRec, runJoin, runComment
  <2>2. PICK o \in classifyJoinReceipt(run[p].step) \cup commentResultOutcome(run[p].step) :
           SettleAndContinue(p, i, "platform", o)
    BY <1>4, <2>1 DEF runJoin, runComment
  <2>3. o \in Outcomes
    BY <2>2, Receipts
  <2> QED BY <2>2, <2>3, ContinueStep
<1> QED BY <1>2, <1>3, <1>4

LEMMA ReconcileStep == ASSUME AuthOK, ConsInv, NEW p \in Services, reconcileDispatched(p) PROVE ConsInv'
<1>0. Runs(run) /\ run[p].step = "drive" /\ run[p] \in RunRec
  BY Held DEF reconcileDispatched, Runs
<1>1. PICK i \in Ids : i = run[p].id
  BY <1>0, AtRow
<1>2. UpdateRow(p, i, act[i])
  BY <1>1 DEF reconcileDispatched
<1>3. CASE run' = [run EXCEPT ![p].step = "reconcile"]
  <2>1. PICK u : u = run'
    OBVIOUS
  <2>2. u = On(run, p, "reconcile")
    BY <1>3, <2>1 DEF On
  <2>3. Runs(u) /\ Within(u, run)
    BY <1>0, <1>1, <2>2, StepsOn
  <2> QED BY <1>2, <2>1, <2>3, LeftAlone
<1>4. CASE run' = [run EXCEPT ![p].step = "supersede", ![p].keep = IF auth.mode = "consumption" THEN auth.rev ELSE 0]
  <2>1. PICK k \in 0..MaxRev : k = IF auth.mode = "consumption" THEN auth.rev ELSE 0
    BY SessionAssumption DEF AuthOK, Revs
  <2>2. PICK x : x = [run[p] EXCEPT !.step = "supersede", !.keep = k]
    OBVIOUS
  <2>3. x \in RunRec /\ x.step = "supersede" /\ x.id = i
    BY <1>0, <1>1, <2>2 DEF RunRec
  <2>4. PICK u : u = run'
    OBVIOUS
  <2>5. u = PutIn(run, p, x)
    BY <1>0, <1>4, <2>1, <2>2, <2>4 DEF Runs, PutIn
  <2>6. Runs(u) /\ Within(u, run)
    BY <1>0, <2>3, <2>5, RunPut, RunQuiet
  <2> QED BY <1>2, <2>4, <2>6, LeftAlone
<1> QED BY <1>1, <1>3, <1>4 DEF reconcileDispatched

LEMMA SupersedeStep == ASSUME ConsInv, NEW p \in Services, supersedeAccount(p) PROVE ConsInv'
<1>0. Runs(run) /\ Likes(like) /\ Tables(act, prog) /\ run[p].step = "supersede"
  BY Held DEF supersedeAccount
<1>1. run[p].id \in Ids
  BY <1>0, AtRow
<1>2. PICK keep : keep = run[p].keep
  OBVIOUS
<1>3. PICK a2 : a2 = supersedeWithClient(act, keep)
  OBVIOUS
<1>4. PICK r2 : r2 = Stale(run, p, Touched(a2))
  OBVIOUS
<1>5. /\ act' = a2 /\ prog' = SupersededProgress(a2, keep) /\ like' = Stale(like, Nothing, Touched(a2)) /\ writes' = writes
      /\ run' = [r2 EXCEPT ![p].step = "reconcile"] \/ Finish(p, r2)
  BY <1>2, <1>3, <1>4 DEF supersedeAccount
<1>6. Tables(act', prog') /\ Shrinks(act, act')
  BY <1>0, <1>3, <1>5, Superseding
<1>7. Likes(like') /\ Within(like', like)
  BY <1>0, <1>5, StaleLike
<1>8. CASE run' = [r2 EXCEPT ![p].step = "reconcile"]
  <2>1. PICK u : u = run'
    OBVIOUS
  <2>2. u = On(Stale(run, p, Touched(a2)), p, "reconcile")
    BY <1>4, <1>8, <2>1 DEF On
  <2>3. Runs(u) /\ Within(u, run)
    BY <1>0, <1>1, <2>2, StaleSteps
  <2> QED BY <1>5, <1>6, <1>7, <2>1, <2>3, Moved
<1>9. CASE Finish(p, r2)
  <2>1. Runs(r2) /\ Within(r2, run)
    BY <1>0, <1>4, StaleRun
  <2>2. Runs(run') /\ Within(run', run)
    BY <1>9, <2>1, Finishing, Withins DEF Finish
  <2> QED BY <1>5, <1>6, <1>7, <2>2, Moved
<1> QED BY <1>5, <1>8, <1>9

------------------------------------------------------------------------------
(* Likes *)

\* The pending like of p becomes one that is attempted or claimed, or none.
LEMMA Taking ==
    ASSUME NEW v, Likes(v), NEW p \in Services, NEW x \in LikeRec,
           x.step \in {"none", "attempt", "claimed", "sent"}, x.step # "none" => x.id \in Ids
    PROVE  Likes([v EXCEPT ![p] = x]) /\ Within([v EXCEPT ![p] = x], v)
<1>1. [v EXCEPT ![p] = x] = PutIn(v, p, x)
  BY DEF PutIn
<1>2. Likes(PutIn(v, p, x))
  BY LikePut
<1>3. Within(PutIn(v, p, x), v)
  BY LikeQuiet
<1> QED BY <1>1, <1>2, <1>3

LEMMA Taken ==
    ASSUME NEW i \in Ids, NEW st \in {"attempt", "claimed"}, NEW x, x = [NoLike EXCEPT !.id = i, !.step = st]
    PROVE  x \in LikeRec /\ x.step = st /\ x.id = i
BY NoHand DEF LikeRec

LEMMA LikeSettled ==
    ASSUME ConsInv, NEW p \in Services, NEW i \in Ids, NEW src, NEW o \in Outcomes, SettleLike(p, i, src, o)
    PROVE  ConsInv'
<1>0. Runs(run) /\ Likes(like) /\ Tables(act, prog)
  BY Held
<1>1. settleAction(i, src, o) /\ writes' = writes
  BY DEF SettleLike
<1>2. Tables(act', prog') /\ Shrinks(act, act')
  BY <1>0, <1>1, Settling
<1>3. Likes(like') /\ Within(like', like)
  <2>1. CASE like' = Stale(like, p, {i})
    BY <1>0, <2>1, StaleLike
  <2>2. CASE like' = [Stale(like, Nothing, Touched(act')) EXCEPT ![p] = NoLike]
    <3>1. PICK u : u = Stale(like, Nothing, Touched(act'))
      OBVIOUS
    <3>2. Likes(u) /\ Within(u, like)
      BY <1>0, <3>1, StaleLike
    <3>3. Likes(like') /\ Within(like', u)
      BY <2>2, <3>1, <3>2, NoHand, Taking
    <3> QED BY <3>2, <3>3, Withins
  <2> QED BY <2>1, <2>2 DEF SettleLike
<1>4. PICK r2 : r2 = Stale(run, Nothing, Touched(act'))
  OBVIOUS
<1>5. Runs(r2) /\ Within(r2, run)
  BY <1>0, <1>4, StaleRun
<1>6. CASE run' = r2
  BY <1>1, <1>2, <1>3, <1>5, <1>6, Moved
<1>7. CASE run' = [r2 EXCEPT ![p] = Drive(p, Oldest(NextAction), act')] /\ NextAction # {}
  <2>1. PICK n \in Ids : n = Oldest(NextAction)
    BY <1>7, Nexts
  <2>2. Runs(run') /\ Within(run', run)
    BY <1>5, <1>7, <2>1, Starting, Withins
  <2> QED BY <1>1, <1>2, <1>3, <2>2, Moved
<1> QED BY <1>4, <1>6, <1>7 DEF SettleLike

\* The row of a pending like.
LEMMA AtLike == ASSUME ConsInv, NEW p \in Services, like[p].step # "none" PROVE like[p].id \in Ids
BY Held DEF Likes

LEMMA AttemptStep == ASSUME ConsInv, NEW p \in Services, AttemptLike(p) PROVE ConsInv'
<1>0. Runs(run) /\ Likes(like) /\ Tables(act, prog) /\ like[p].step = "attempt"
  BY Held DEF AttemptLike
<1>1. PICK i \in Ids : i = like[p].id
  BY <1>0, AtLike
<1>2. CASE SettleLike(p, i, "policy", "policy_superseded") \/ SettleLike(p, i, "gate", "gated")
  <2>1. {"policy_superseded", "gated"} \subseteq Outcomes
    BY DEF Outcomes
  <2> QED BY <1>2, <2>1, LikeSettled
<1>3. CASE ~(SettleLike(p, i, "policy", "policy_superseded") \/ SettleLike(p, i, "gate", "gated"))
  <2>1. PICK y : y = claimAction(p, i)
    OBVIOUS
  <2>2. PICK ids : ids = IF y # act[i] THEN {i} ELSE {}
    OBVIOUS
  <2>3. PICK u : u = Stale(like, p, ids)
    OBVIOUS
  <2>4. PICK x : x = IF y.state # "terminal" /\ y.owner = p /\ y.phase # "dispatched"
                     THEN [NoLike EXCEPT !.id = i, !.step = "claimed"] ELSE NoLike
    OBVIOUS
  <2>5. /\ act' = [act EXCEPT ![i] = y] /\ run' = Stale(run, Nothing, ids) /\ like' = [u EXCEPT ![p] = x]
        /\ prog' = prog /\ writes' = writes
    BY <1>1, <1>3, <2>1, <2>2, <2>3, <2>4 DEF AttemptLike
  <2>6. y \in ActRec /\ ActionOK(y) /\ SameRow(act[i], y)
    BY <2>1, Claimed
  <2>7. Tables(act', prog') /\ Shrinks(act, act')
    BY <1>0, <2>5, <2>6, RowWorked
  <2>8. Runs(run') /\ Within(run', run)
    BY <1>0, <2>5, StaleRun
  <2>9. x \in LikeRec /\ x.step \in {"none", "claimed"} /\ (x.step # "none" => x.id \in Ids)
    <3>1. CASE x = NoLike
      BY <3>1, NoHand
    <3>2. CASE x = [NoLike EXCEPT !.id = i, !.step = "claimed"]
      <4>1. x \in LikeRec /\ x.step = "claimed" /\ x.id = i
        BY <3>2, NoHand DEF LikeRec
      <4> QED BY <4>1
    <3> QED BY <2>4, <3>1, <3>2
  <2>10. Likes(u) /\ Within(u, like)
    BY <1>0, <2>3, StaleLike
  <2>11. Likes(like') /\ Within(like', u)
    BY <2>5, <2>9, <2>10, Taking
  <2> QED BY <2>5, <2>7, <2>8, <2>10, <2>11, Withins, Moved
<1> QED BY <1>2, <1>3

\* The durable mark of a like.
LEMMA MarkLikeStep == ASSUME ConsInv, NEW p \in Services, markDispatched(p) PROVE ConsInv'
<1>0. Runs(run) /\ Likes(like) /\ Tables(act, prog) /\ like[p].step = "claimed" /\ like[p] \in LikeRec
  BY Held DEF markDispatched, Likes
<1>1. PICK i \in Ids : i = like[p].id
  BY <1>0, AtLike
<1>2. act[i] \in ActRec /\ ActionOK(act[i]) /\ act \in [Ids -> ActRec]
  BY <1>0, RowAt DEF Tables, Rows
<1>3. PICK ok : ok = (act[i].state = "ready" /\ ownerMatches(p, i) /\ like[p].fresh)
  OBVIOUS
<1>4. CASE ok
  <2>1. PICK u : u = Stale(like, p, {i})
    OBVIOUS
  <2>2. PICK x : x = [u[p] EXCEPT !.step = "authorised"]
    OBVIOUS
  <2>3. PICK y : y = [act[i] EXCEPT !.state = "dispatched", !.phase = "dispatched"]
    OBVIOUS
  <2>4. /\ act' = [act EXCEPT ![i].state = "dispatched", ![i].phase = "dispatched"]
        /\ run' = Stale(run, Nothing, {i}) /\ prog' = prog /\ writes' = writes
        /\ like' = [u EXCEPT ![p] = [@ EXCEPT !.step = "authorised"]]
    BY <1>1, <1>3, <1>4, <2>1 DEF markDispatched
  <2>5. act' = [act EXCEPT ![i] = y]
    BY <1>2, <2>3, <2>4
  <2>6. act[i].phase = "not_started"
    BY <1>2, <1>3, <1>4 DEF ActionOK, ActRec, Phases
  <2>7. y \in ActRec /\ ActionOK(y) /\ SameRow(act[i], y) /\ y.phase = "dispatched" /\ y.type # "none"
    BY <1>2, <2>3, <2>6, Marked
  <2>a. PICK b : b = [act EXCEPT ![i] = y]
    OBVIOUS
  <2>b. Tables(b, prog) /\ Shrinks(act, b)
    BY <1>0, <2>7, <2>a, RowWorked
  <2>8. Tables(act', prog') /\ Shrinks(act, act')
    BY <2>4, <2>5, <2>a, <2>b
  <2>9. Runs(run') /\ Within(run', run)
    BY <1>0, <2>4, StaleRun
  <2>10. Likes(u) /\ Within(u, like) /\ u[p] = like[p]
    <3>1. Likes(u) /\ Within(u, like)
      BY <1>0, <2>1, StaleLike
    <3>2. u[p] = like[p]
      BY <2>1 DEF Stale
    <3> QED BY <3>1, <3>2
  <2>11. x \in LikeRec /\ x.step = "authorised" /\ x.id = i
    BY <1>0, <1>1, <2>2, <2>10 DEF LikeRec
  <2>12. PICK z : z = like'
    OBVIOUS
  <2>13. z = PutIn(u, p, x)
    BY <2>2, <2>4, <2>12 DEF PutIn
  <2>14. Likes(z)
    BY <2>10, <2>11, <2>13, LikePut
  <2>15. \A q \in Services : \A k \in Ids : MayWrite(z, q, k) => MayWrite(u, q, k) \/ (q = p /\ k = i)
    BY <2>10, <2>11, <2>13, LikeMarks
  <2>16. \A q \in Services : \A k \in Ids : MayWrite(z, q, k) => MayWrite(like, q, k) \/ (q = p /\ k = i)
    BY <2>10, <2>15 DEF Within
  <2>17. Unsent(act, i) /\ ~Unsent(act', i)
    BY <1>2, <2>5, <2>6, <2>7 DEF Unsent
  <2>18. Sent(act, run, like, writes)
    BY DEF ConsInv
  <2>19. Sent(act', run', z, writes)
    BY <2>8, <2>9, <2>16, <2>17, <2>18, SentMarked
  <2> QED BY <2>4, <2>8, <2>9, <2>12, <2>14, <2>19, InHand DEF ConsInv
<1>5. CASE ~ok
  <2>1. PICK u : u = Stale(like, p, {})
    OBVIOUS
  <2>2. act' = act /\ run' = Stale(run, Nothing, {}) /\ like' = [u EXCEPT ![p] = NoLike] /\ prog' = prog /\ writes' = writes
    BY <1>1, <1>3, <1>5, <2>1 DEF markDispatched
  <2>3. Runs(run') /\ Within(run', run)
    BY <1>0, <2>2, StaleRun
  <2>4. Likes(u) /\ Within(u, like)
    BY <1>0, <2>1, StaleLike
  <2>5. Likes(like') /\ Within(like', u)
    BY <2>2, <2>4, NoHand, Taking
  <2> QED BY <1>0, <2>2, <2>3, <2>4, <2>5, Withins, Unmoved, Moved
<1> QED BY <1>4, <1>5

LEMMA SendStep == ASSUME ConsInv, NEW p \in Services, SendLike(p) PROVE ConsInv'
<1>0. Runs(run) /\ Likes(like) /\ Tables(act, prog) /\ like[p].step = "authorised" /\ like[p] \in LikeRec
  BY Held DEF SendLike, Likes
<1>1. PICK i \in Ids : i = like[p].id
  BY <1>0, AtLike
<1>2. CASE SettleLike(p, i, "suppressed", "not_started")
  <2>1. "not_started" \in Outcomes
    BY DEF Outcomes
  <2> QED BY <1>2, <2>1, LikeSettled
<1>3. CASE ~SettleLike(p, i, "suppressed", "not_started")
  <2>1. /\ like' = [like EXCEPT ![p].step = "sent"] /\ writes' = [writes EXCEPT ![i] = @ + 1]
        /\ act' = act /\ prog' = prog /\ run' = run
    BY <1>1, <1>3 DEF SendLike
  <2>2. PICK x : x = [like[p] EXCEPT !.step = "sent"]
    OBVIOUS
  <2>3. x \in LikeRec /\ x.step = "sent" /\ x.id = i
    BY <1>0, <1>1, <2>2 DEF LikeRec
  <2>4. PICK z : z = like'
    OBVIOUS
  <2>5. z = PutIn(like, p, x)
    BY <1>0, <2>1, <2>2, <2>4 DEF Likes, PutIn
  <2>6. Likes(z)
    BY <1>0, <2>3, <2>5, LikePut
  <2>7. Within(z, like) /\ \A k \in Ids : ~MayWrite(z, p, k)
    BY <1>0, <2>3, <2>5, LikeQuiet
  <2>8. MayWrite(like, p, i)
    BY <1>0, <1>1 DEF MayWrite
  <2>9. Sent(act, run, like, writes) /\ Within(run, run)
    BY Withins DEF ConsInv
  <2>10. Sent(act, run, z, [writes EXCEPT ![i] = @ + 1])
    BY <2>7, <2>8, <2>9, SentWritten
  <2> QED BY <1>0, <2>1, <2>4, <2>6, <2>10, InHand DEF ConsInv
<1> QED BY <1>2, <1>3

LEMMA FinishLikeStep == ASSUME ConsInv, NEW p \in Services, FinishLike(p) PROVE ConsInv'
<1>1. PICK o \in classifyLikeReceipt : SettleLike(p, like[p].id, "platform", o)
  BY DEF FinishLike
<1>2. like[p].step # "none"
  BY DEF FinishLike
<1>3. like[p].id \in Ids
  BY <1>2, AtLike
<1>4. o \in Outcomes
  BY <1>1 DEF classifyLikeReceipt, Outcomes
<1> QED BY <1>1, <1>3, <1>4, LikeSettled

------------------------------------------------------------------------------
(* Leases, boundaries, starts and crashes *)

LEMMA LeaseStep == ASSUME ConsInv, NEW i \in Ids, LeaseExpires(i) PROVE ConsInv'
<1>0. Runs(run) /\ Likes(like) /\ Tables(act, prog) /\ act[i] \in ActRec /\ ActionOK(act[i]) /\ act \in [Ids -> ActRec]
  BY Held, RowAt DEF Rows
<1>1. PICK y : y = [act[i] EXCEPT !.live = FALSE]
  OBVIOUS
<1>2. y \in ActRec
  BY <1>0, <1>1 DEF ActRec
<1>3. y.type = act[i].type /\ y.rev = act[i].rev /\ y.state = act[i].state /\ y.phase = act[i].phase /\ y.out = act[i].out
  BY <1>0, <1>1 DEF ActRec
<1>4. ActionOK(y) /\ SameRow(act[i], y)
  BY <1>0, <1>3 DEF ActionOK, SameRow
<1>5. act' = [act EXCEPT ![i] = y] /\ prog' = prog /\ run' = run /\ like' = like /\ writes' = writes
  BY <1>0, <1>1 DEF LeaseExpires
<1>6. Tables(act', prog') /\ Shrinks(act, act')
  BY <1>0, <1>2, <1>4, <1>5, RowWorked
<1> QED BY <1>0, <1>5, <1>6, Withins, Moved

LEMMA DetachStep ==
    ASSUME ConsInv, NEW p \in Services, DetachLike(p), UNCHANGED <<act, prog, run, writes>>
    PROVE  ConsInv'
<1>0. Runs(run) /\ Likes(like) /\ Tables(act, prog)
  BY Held
<1>1. PICK u : u = like'
  OBVIOUS
<1>2. u = [q \in Services |-> u[q]] /\ \A q \in Services : u[q] = like[q] \/ u[q] = NoLike
  BY <1>1 DEF DetachLike
<1>3. Likes(u)
  BY <1>0, <1>2, NoHand DEF Likes
<1>4. Within(u, like)
  BY <1>2, NoHand DEF Within, MayWrite
<1> QED BY <1>0, <1>1, <1>3, <1>4, Withins, Unmoved, Moved

LEMMA CrashStep == ASSUME ConsInv, NEW p \in Services, ConsCrash(p) PROVE ConsInv'
<1>0. Runs(run) /\ Likes(like) /\ Tables(act, prog)
  BY Held
<1>1. /\ run' = [run EXCEPT ![p] = NoRun] /\ like' = [like EXCEPT ![p] = NoLike]
      /\ act' = act /\ prog' = prog /\ writes' = writes
  BY DEF ConsCrash
<1>2. Runs(run') /\ Within(run', run)
  BY <1>0, <1>1, Finishing
<1>3. Likes(like') /\ Within(like', like)
  BY <1>0, <1>1, NoHand, Taking
<1> QED BY <1>0, <1>1, <1>2, <1>3, Unmoved, Moved

LEMMA RecoverStep == ASSUME ConsInv, NEW p \in Services, ConsRecover(p) PROVE ConsInv'
<1>0. Runs(run) /\ Likes(like) /\ Tables(act, prog) /\ act \in [Ids -> ActRec]
  BY Held DEF Rows
<1>1. PICK a2 : a2 = [i \in Ids |-> IF act[i].state # "terminal" /\ ~act[i].live
                                    THEN [act[i] EXCEPT !.owner = Nothing] ELSE act[i]]
  OBVIOUS
<1>2. PICK todo : todo = {i \in Open(a2) : a2[i].type # "like" \/ a2[i].phase = "dispatched"}
  OBVIOUS
<1>3. PICK r2 : r2 = Stale(run, p, Touched(a2))
  OBVIOUS
<1>4. /\ act' = a2 /\ prog' = prog /\ writes' = writes /\ like' = Stale(like, p, Touched(a2))
      /\ run' = IF todo = {} THEN r2 ELSE [r2 EXCEPT ![p] = Drive(p, Oldest(todo), a2)]
  BY <1>1, <1>2, <1>3 DEF ConsRecover
<1>5. ASSUME NEW i \in Ids
      PROVE  a2[i] \in ActRec /\ ActionOK(a2[i]) /\ SameRow(act[i], a2[i])
  <2>1. act[i] \in ActRec /\ ActionOK(act[i])
    BY RowAt
  <2>2. CASE a2[i] = act[i]
    BY <2>1, <2>2, SameRows
  <2>3. CASE a2[i] = [act[i] EXCEPT !.owner = Nothing]
    <3>1. PICK y : y = [act[i] EXCEPT !.owner = Nothing]
      OBVIOUS
    <3>2. y \in ActRec
      BY <2>1, <3>1 DEF ActRec
    <3>3. /\ y.type = act[i].type /\ y.rev = act[i].rev /\ y.state = act[i].state /\ y.phase = act[i].phase
          /\ y.out = act[i].out
      BY <2>1, <3>1 DEF ActRec
    <3> QED BY <2>1, <2>3, <3>1, <3>2, <3>3 DEF ActionOK, SameRow
  <2> QED BY <1>1, <2>2, <2>3
<1>6. Rows(a2)
  BY <1>1, <1>5 DEF Rows
<1>7. Tables(act', prog') /\ Shrinks(act, act')
  BY <1>0, <1>4, <1>5, <1>6, RowsWorked
<1>8. Likes(like') /\ Within(like', like)
  BY <1>0, <1>4, StaleLike
<1>9. Runs(r2) /\ Within(r2, run)
  BY <1>0, <1>3, StaleRun
<1>10. CASE todo = {}
  BY <1>4, <1>7, <1>8, <1>9, <1>10, Moved
<1>11. CASE todo # {}
  <2>1. todo \subseteq Ids /\ todo \subseteq Nat
    BY <1>1, <1>2 DEF Open, Ids
  <2>2. PICK n \in Ids : n = Oldest(todo)
    BY <1>11, <2>1, Oldests
  <2>3. run' = [r2 EXCEPT ![p] = Drive(p, n, a2)]
    BY <1>4, <1>11, <2>2
  <2>4. Runs(run') /\ Within(run', run)
    BY <1>9, <2>3, Starting, Withins
  <2> QED BY <1>4, <1>7, <1>8, <2>4, Moved
<1> QED BY <1>10, <1>11

------------------------------------------------------------------------------
(* Views *)

\* The progress of revision r changes in its views alone, or gives up its slot.
LEMMA SlotFreed ==
    ASSUME NEW a, NEW g, Tables(a, g), NEW r \in Revs, NEW x \in ProgRec,
           x.likes = g[r].likes, x.joins = g[r].joins, x.slot = 0
    PROVE  Tables(a, Put(g, r, x))
<1>1. Rows(a) /\ g \in [Revs -> ProgRec] /\ SlotsOpen(a, g) /\ Earned(a, g)
  BY DEF Tables
<1>2. PICK h : h = Put(g, r, x)
  OBVIOUS
<1>3. h \in [Revs -> ProgRec] /\ h[r] = x /\ \A k \in Revs : k # r => h[k] = g[k]
  BY <1>1, <1>2 DEF Put
<1>4. SlotsOpen(a, h)
  BY <1>1, <1>3 DEF SlotsOpen
<1>5. \A k \in Revs : h[k].likes = g[k].likes /\ h[k].joins = g[k].joins
  BY <1>3
<1>6. Earned(a, h)
  BY <1>1, <1>5 DEF Earned
<1> QED BY <1>1, <1>2, <1>3, <1>4, <1>6 DEF Tables

\* The views of revision r earn a like, which is inserted at n as its slot.
LEMMA ViewEarns ==
    ASSUME NEW a, NEW g, Tables(a, g), NEW r \in Revs, NEW n \in Ids, a[n].type = "none",
           NEW x \in ActRec, ActionOK(x), x.type = "like", x.rev = r, x.state # "terminal",
           NEW y \in ProgRec, y.likes = g[r].likes, y.joins = g[r].joins, y.slot = n
    PROVE  Tables(Put(a, n, x), Put(g, r, y)) /\ Shrinks(a, Put(a, n, x))
<1>1. Rows(a) /\ g \in [Revs -> ProgRec] /\ SlotsOpen(a, g) /\ Earned(a, g)
  BY DEF Tables
<1>2. PICK b : b = Put(a, n, x)
  OBVIOUS
<1>3. PICK h : h = Put(g, r, y)
  OBVIOUS
<1>4. "like" \in ActionTypes /\ "join" \in ActionTypes /\ "comment" \in ActionTypes
  BY DEF ActionTypes
<1>5. /\ Rows(b) /\ \A k \in Ids : k # n => b[k] = a[k]
      /\ b[n] = x /\ a[n].state = "terminal" /\ Shrinks(a, b)
  BY <1>1, <1>2, <1>4, InsertedRows
<1>6. h \in [Revs -> ProgRec] /\ h[r] = y /\ \A k \in Revs : k # r => h[k] = g[k]
  BY <1>1, <1>3 DEF Put
<1>7. SlotsOpen(b, h)
  <2>1. SUFFICES ASSUME NEW k \in Revs, h[k].slot # 0
                 PROVE  b[h[k].slot].state # "terminal" /\ b[h[k].slot].rev = k
    BY DEF SlotsOpen
  <2>2. CASE k = r
    BY <2>2, <1>5, <1>6
  <2>3. CASE k # r
    <3>1. h[k].slot = g[k].slot /\ g[k].slot # 0 /\ g[k].slot \in Ids
      BY <2>1, <2>3, <1>1, <1>6 DEF ProgRec
    <3>2. a[g[k].slot].state # "terminal" /\ a[g[k].slot].rev = k
      BY <3>1, <1>1 DEF SlotsOpen
    <3> QED BY <3>1, <3>2, <1>5
  <2> QED BY <2>2, <2>3
<1>8. ASSUME NEW k \in Revs
      PROVE  /\ OfType(b, k, "join") = OfType(a, k, "join") /\ OfType(b, k, "comment") = OfType(a, k, "comment")
             /\ Won(b, k, "like") = Won(a, k, "like") /\ Won(b, k, "join") = Won(a, k, "join")
             /\ h[k].likes = g[k].likes /\ h[k].joins = g[k].joins
  <2>1. Won(b, k, "like") = Won(a, k, "like") /\ Won(b, k, "join") = Won(a, k, "join")
    BY <1>1, <1>2, <1>4, InsertedCounts
  <2>2. OfType(b, k, "join") = OfType(a, k, "join") /\ OfType(b, k, "comment") = OfType(a, k, "comment")
    BY <1>1, <1>2, <1>4, InsertedCounts
  <2> QED BY <1>6, <2>1, <2>2
<1>9. Earned(b, h)
  BY <1>1, <1>8 DEF Earned
<1> QED BY <1>2, <1>3, <1>5, <1>6, <1>7, <1>9 DEF Tables

\* The coordinator is triggered with row i.
Triggered(v, p, i, a) == [v EXCEPT ![p] = IF v[p].id = 0 THEN Drive(p, i, a) ELSE v[p]]

LEMMA Triggering ==
    ASSUME NEW v, Runs(v), NEW p \in Services, NEW i \in Ids, NEW a
    PROVE  Runs(Triggered(v, p, i, a)) /\ Within(Triggered(v, p, i, a), v)
<1>1. CASE v[p].id = 0
  <2>1. Triggered(v, p, i, a) = [v EXCEPT ![p] = Drive(p, i, a)]
    BY <1>1 DEF Triggered
  <2>2. Runs([v EXCEPT ![p] = Drive(p, i, a)]) /\ Within([v EXCEPT ![p] = Drive(p, i, a)], v)
    BY Starting
  <2> QED BY <2>1, <2>2
<1>2. CASE v[p].id # 0
  <2>1. Triggered(v, p, i, a) = v
    BY <1>2 DEF Triggered, Runs
  <2> QED BY <2>1, Withins
<1> QED BY <1>1, <1>2

LEMMA Attempting ==
    ASSUME NEW v, Likes(v), NEW p \in Services, NEW i \in Ids
    PROVE  Likes(AttemptOf(v, p, i)) /\ Within(AttemptOf(v, p, i), v)
<1>1. PICK x : x = [NoLike EXCEPT !.id = i, !.step = "attempt"]
  OBVIOUS
<1>2. x \in LikeRec /\ x.step = "attempt" /\ x.id = i
  BY <1>1, NoHand DEF LikeRec
<1>3. AttemptOf(v, p, i) = [v EXCEPT ![p] = x]
  BY <1>1 DEF AttemptOf
<1>4. Likes([v EXCEPT ![p] = x]) /\ Within([v EXCEPT ![p] = x], v)
  BY <1>2, Taking
<1> QED BY <1>3, <1>4

LEMMA ViewStep ==
    ASSUME AuthOK, ConsInv, NEW p \in Services, NEW c \in Contents, HandleView(p, c)
    PROVE  ConsInv'
<1>0. Runs(run) /\ Likes(like) /\ Tables(act, prog) /\ DOMAIN act = Ids
  BY Held DEF Rows
<1>1. PICK r \in Revs : r = auth.rev
  BY DEF AuthOK
<1>2. PICK a2 : a2 = supersedeWithClient(act, r)
  OBVIOUS
<1>3. PICK pg : pg = SupersededProgress(a2, r)
  OBVIOUS
<1>4. Tables(a2, pg) /\ Shrinks(act, a2)
  BY <1>0, <1>2, <1>3, Superseding
<1>5. PICK r2 : r2 = Stale(run, Nothing, Touched(a2))
  OBVIOUS
<1>6. Runs(r2) /\ Within(r2, run)
  BY <1>0, <1>5, StaleRun
<1>7. PICK u : u = Stale(like, Nothing, Touched(a2))
  OBVIOUS
<1>8. Likes(u) /\ Within(u, like)
  BY <1>0, <1>7, StaleLike
<1>9. Open(a2) \subseteq Ids /\ Open(a2) \subseteq Nat
  BY <1>4 DEF Tables, Rows, Open, Ids
<1>10. PICK cur : cur = [pg[r] EXCEPT !.st = IF pg[r].st = "none" THEN "active" ELSE pg[r].st, !.slot = 0]
  OBVIOUS
<1>11. cur \in ProgRec /\ cur.likes = pg[r].likes /\ cur.joins = pg[r].joins /\ cur.slot = 0
  <2>1. pg[r] \in ProgRec
    BY <1>4 DEF Tables
  <2>2. PICK s \in {"none", "active", "superseded"} : s = IF pg[r].st = "none" THEN "active" ELSE pg[r].st
    BY <2>1 DEF ProgRec
  <2>3. cur = [pg[r] EXCEPT !.st = s, !.slot = 0]
    BY <1>10, <2>2
  <2> QED BY <2>1, <2>3 DEF ProgRec
<1>12. PICK busy : busy = {i \in Open(a2) : ~Deferrable(a2[i])}
  OBVIOUS
<1>13. PICK owed : owed = {i \in Open(a2) : Deferrable(a2[i])}
  OBVIOUS
<1>14. PICK bi, oi : bi = Oldest(busy) /\ oi = Oldest(owed)
  OBVIOUS
<1>15. (busy # {} => bi \in Ids) /\ (owed # {} => oi \in Ids)
  <2>1. busy \subseteq Nat /\ owed \subseteq Nat /\ busy \subseteq Ids /\ owed \subseteq Ids
    BY <1>9, <1>12, <1>13
  <2>2. busy # {} => bi \in busy
    BY <2>1, <1>14, Oldests
  <2>3. owed # {} => oi \in owed
    BY <2>1, <1>14, Oldests
  <2> QED BY <2>1, <2>2, <2>3
<1>16. writes' = writes
  BY DEF HandleView, ActionActive, ViewCounted, LikeCreated
<1>17. \/ /\ busy # {} /\ act' = a2 /\ prog' = pg
          /\ \/ run' = Triggered(r2, p, bi, a2) /\ like' = u
             \/ run' = r2 /\ like' \in {u, AttemptOf(u, p, bi)}
       \/ /\ act' = a2 /\ prog' = [pg EXCEPT ![r] = IF c \in seen[r] THEN cur ELSE [cur EXCEPT !.views = cur.views + 1]]
          /\ like' = u /\ (run' = r2 \/ (owed # {} /\ run' = Triggered(r2, p, oi, a2)))
       \/ /\ Free(a2) # {} /\ act' = [a2 EXCEPT ![NextId(a2)] = insertAction("like", r, c)]
          /\ prog' = [pg EXCEPT ![r] = [cur EXCEPT !.views = 0, !.slot = NextId(a2)]]
          /\ like' = AttemptOf(u, p, NextId(a2)) /\ run' = r2
  <2>1. ActionActive(p, c, a2, pg) \/ ViewCounted(p, c, a2, pg, cur) \/ LikeCreated(p, c, a2, pg, cur)
    BY <1>1, <1>2, <1>3, <1>10 DEF HandleView
  <2>2. CASE ActionActive(p, c, a2, pg)
    <3>1. busy # {} /\ act' = a2 /\ prog' = pg
      BY <1>12, <2>2 DEF ActionActive, Busy
    <3>2. \/ run' = Triggered(r2, p, bi, a2) /\ like' = u
          \/ run' = r2 /\ like' \in {u, AttemptOf(u, p, bi)}
      BY <1>5, <1>7, <1>12, <1>14, <2>2 DEF ActionActive, AwaitRun, Busy, Triggered
    <3> QED BY <3>1, <3>2
  <2>3. CASE ViewCounted(p, c, a2, pg, cur)
    <3>1. /\ act' = a2 /\ like' = u
          /\ prog' = [pg EXCEPT ![r] = IF c \in seen[r] THEN cur ELSE [cur EXCEPT !.views = cur.views + 1]]
      BY <1>1, <1>7, <2>3 DEF ViewCounted
    <3>2. run' = r2 \/ (owed # {} /\ run' = Triggered(r2, p, oi, a2))
      BY <1>5, <1>13, <1>14, <2>3 DEF ViewCounted, AwaitRun, Owed, Triggered
    <3> QED BY <3>1, <3>2
  <2>4. CASE LikeCreated(p, c, a2, pg, cur)
    BY <1>1, <1>5, <1>7, <2>4 DEF LikeCreated
  <2> QED BY <2>1, <2>2, <2>3, <2>4
<1>18. CASE /\ busy # {} /\ act' = a2 /\ prog' = pg
            /\ \/ run' = Triggered(r2, p, bi, a2) /\ like' = u
               \/ run' = r2 /\ like' \in {u, AttemptOf(u, p, bi)}
  <2>1. bi \in Ids
    BY <1>15, <1>18
  <2>2. Runs(run') /\ Within(run', run)
    BY <1>6, <1>18, <2>1, Triggering, Withins
  <2>3. Likes(like') /\ Within(like', like)
    BY <1>8, <1>18, <2>1, Attempting, Withins
  <2> QED BY <1>4, <1>16, <1>18, <2>2, <2>3, Moved
<1>19. CASE /\ act' = a2
            /\ prog' = [pg EXCEPT ![r] = IF c \in seen[r] THEN cur ELSE [cur EXCEPT !.views = cur.views + 1]]
            /\ like' = u /\ (run' = r2 \/ (owed # {} /\ run' = Triggered(r2, p, oi, a2)))
  <2>1. Runs(run') /\ Within(run', run)
    BY <1>6, <1>15, <1>19, Triggering, Withins
  <2>2. PICK x : x = IF c \in seen[r] THEN cur ELSE [cur EXCEPT !.views = cur.views + 1]
    OBVIOUS
  <2>3. x \in ProgRec /\ x.likes = pg[r].likes /\ x.joins = pg[r].joins /\ x.slot = 0
    BY <1>11, <2>2 DEF ProgRec
  <2>4. Tables(a2, Put(pg, r, x))
    BY <1>4, <2>3, SlotFreed
  <2>5. prog' = Put(pg, r, x)
    BY <1>19, <2>2 DEF Put
  <2> QED BY <1>4, <1>8, <1>16, <1>19, <2>1, <2>4, <2>5, Moved
<1>20. CASE /\ Free(a2) # {} /\ act' = [a2 EXCEPT ![NextId(a2)] = insertAction("like", r, c)]
            /\ prog' = [pg EXCEPT ![r] = [cur EXCEPT !.views = 0, !.slot = NextId(a2)]]
            /\ like' = AttemptOf(u, p, NextId(a2)) /\ run' = r2
  <2>1. PICK n \in Ids : n = NextId(a2) /\ a2[n].type = "none"
    BY <1>4, <1>20, NextIds DEF Tables
  <2>2. PICK x : x = insertAction("like", r, c)
    OBVIOUS
  <2>3. x \in ActRec /\ ActionOK(x) /\ x.type = "like" /\ x.rev = r /\ x.state # "terminal"
    <3>1. "like" \in ActionTypes
      BY DEF ActionTypes
    <3> QED BY <2>2, <3>1, Inserted
  <2>4. PICK y : y = [cur EXCEPT !.views = 0, !.slot = n]
    OBVIOUS
  <2>5. y \in ProgRec /\ y.likes = pg[r].likes /\ y.joins = pg[r].joins /\ y.slot = n
    BY <1>11, <2>4 DEF ProgRec
  <2>6. Tables(Put(a2, n, x), Put(pg, r, y)) /\ Shrinks(a2, Put(a2, n, x))
    BY <1>4, <2>1, <2>3, <2>5, ViewEarns
  <2>7. act' = Put(a2, n, x) /\ prog' = Put(pg, r, y)
    BY <1>20, <2>1, <2>2, <2>4 DEF Put
  <2>8. Shrinks(act, Put(a2, n, x))
    BY <1>4, <2>6 DEF Shrinks
  <2>9. Likes(like') /\ Within(like', like)
    BY <1>8, <1>20, <2>1, Attempting, Withins
  <2> QED BY <1>6, <1>16, <1>20, <2>6, <2>7, <2>8, <2>9, Moved
<1> QED BY <1>17, <1>18, <1>19, <1>20

LEMMA ConsSteps == ASSUME AuthOK, ConsInv, NEW p \in Services, ConsStep(p) PROVE ConsInv'
<1>1. CASE Claim(p)
  BY <1>1, ClaimStep
<1>2. CASE waitAndRelease(p)
  BY <1>2, WaitStep
<1>3. CASE bindTargetAndMarkDispatched(p)
  BY <1>3, MarkStep
<1>4. CASE Submit(p)
  BY <1>4, SubmitStep
<1>5. CASE RecordConfirmedComment(p)
  BY <1>5, ProveStep
<1>6. CASE AwaitReconciliation(p) \/ LeaveDispatched(p)
  BY <1>6, LeaveSteps
<1>7. CASE \/ StopForPolicy(p) \/ runJoin(p) \/ runComment(p) \/ reconcileOrphanedDispatchedLike(p)
           \/ reconcileDispatchedJoin(p) \/ reconcileDispatchedComment(p)
  BY <1>7, SettleSteps
<1>8. CASE reconcileDispatched(p)
  BY <1>8, ReconcileStep
<1>9. CASE supersedeAccount(p)
  BY <1>9, SupersedeStep
<1>10. CASE AttemptLike(p)
  BY <1>10, AttemptStep
<1>11. CASE markDispatched(p)
  BY <1>11, MarkLikeStep
<1>12. CASE SendLike(p)
  BY <1>12, SendStep
<1>13. CASE FinishLike(p)
  BY <1>13, FinishLikeStep
<1>14. CASE \E t \in Targets : bindActionTarget(p, t)
  BY <1>14, BindStep
<1>15. CASE \E c \in Contents : HandleView(p, c)
  BY <1>15, ViewStep
<1> QED
  BY <1>1, <1>2, <1>3, <1>4, <1>5, <1>6, <1>7, <1>8, <1>9, <1>10, <1>11, <1>12, <1>13, <1>14, <1>15 DEF ConsStep

LEMMA ConsUnchanged == ASSUME ConsInv, UNCHANGED consVars PROVE ConsInv'
<1>1. act' = act /\ prog' = prog /\ run' = run /\ like' = like /\ writes' = writes
  BY DEF consVars
<1> QED BY <1>1 DEF ConsInv

------------------------------------------------------------------------------
(* The rule mode *)

PendRec == [id : BatchIds \cup {0}, step : {"none", "like", "sending", "sent", "join", "joining"}]
RProgRec == [seq : Nat, views : Nat, slot : BatchIds \cup {0}]

\* The rows and the slots of the rule mode.
Bookings(b, g) ==
    /\ b \in [BatchIds -> BatchRec] /\ \A i \in BatchIds : b[i].rev = 0 => b[i].term
    /\ g \in [Revs -> RProgRec]
    /\ \A r \in Revs, i \in BatchIds : (g[r].slot = i) <=> (~b[i].term /\ b[i].rev = r)
    /\ \A i, j \in BatchIds : ~b[i].term /\ ~b[j].term => i = j
Pends(v) == v \in [Services -> PendRec] /\ \A p \in Services : v[p].step # "none" => v[p].id \in BatchIds

LEMMA RuleParts == RuleInv <=> Bookings(batch, rprog) /\ Pends(pend)
BY DEF RuleInv, Bookings, Pends, BatchHoldsSlot, PendRec, RProgRec
LEMMA RulePartsNext == RuleInv' <=> Bookings(batch', rprog') /\ Pends(pend')
BY DEF RuleInv, Bookings, Pends, BatchHoldsSlot, PendRec, RProgRec

LEMMA PendPut ==
    ASSUME NEW v, Pends(v), NEW p \in Services, NEW x \in PendRec, x.step # "none" => x.id \in BatchIds
    PROVE  Pends([v EXCEPT ![p] = x])
BY DEF Pends

LEMMA PendOn ==
    ASSUME NEW v, Pends(v), NEW p \in Services, v[p].step # "none",
           NEW st \in {"like", "sending", "sent", "join", "joining"}
    PROVE  Pends([v EXCEPT ![p].step = st])
<1>1. v[p] \in PendRec /\ v[p].id \in BatchIds
  BY DEF Pends
<1>2. PICK x : x = [v[p] EXCEPT !.step = st]
  OBVIOUS
<1>3. x \in PendRec /\ x.id \in BatchIds
  BY <1>1, <1>2 DEF PendRec
<1>4. [v EXCEPT ![p].step = st] = [v EXCEPT ![p] = x]
  BY <1>2 DEF Pends
<1> QED BY <1>3, <1>4, PendPut

LEMMA NoPends == NoPend \in PendRec /\ NoPend.step = "none"
BY DEF NoPend, PendRec

\* A patch of batch i: it stays of its revision, and a terminal one frees the slot.
LEMMA Patching ==
    ASSUME Bookings(batch, rprog), NEW i \in BatchIds, NEW y \in BatchRec, y.rev = batch[i].rev,
           batch[i].term => y.term, updateBatch(i, y)
    PROVE  Bookings(batch', rprog')
<1>1. PICK b, g : b = batch' /\ g = rprog'
  OBVIOUS
<1>2. b = [batch EXCEPT ![i] = y] /\ batch \in [BatchIds -> BatchRec]
  BY <1>1 DEF Bookings, updateBatch
<1>3. b \in [BatchIds -> BatchRec] /\ b[i] = y /\ \A k \in BatchIds : k # i => b[k] = batch[k]
  BY <1>2
<1>4. g = [r \in Revs |-> [rprog[r] EXCEPT !.slot = IF y.term /\ rprog[r].slot = i THEN 0 ELSE rprog[r].slot]]
  BY <1>1 DEF updateBatch
<1>5. 0 \notin BatchIds
  BY DEF BatchIds
<1>6. g \in [Revs -> RProgRec]
      /\ \A r \in Revs : g[r].slot = IF y.term /\ rprog[r].slot = i THEN 0 ELSE rprog[r].slot
  <2>1. SUFFICES ASSUME NEW r \in Revs
                 PROVE  g[r] \in RProgRec /\ g[r].slot = IF y.term /\ rprog[r].slot = i THEN 0 ELSE rprog[r].slot
    BY <1>4
  <2>2. rprog[r] \in RProgRec
    BY DEF Bookings
  <2>3. PICK k \in BatchIds \cup {0} : k = IF y.term /\ rprog[r].slot = i THEN 0 ELSE rprog[r].slot
    BY <2>2 DEF RProgRec
  <2>4. g[r] = [rprog[r] EXCEPT !.slot = k]
    BY <1>4, <2>3
  <2> QED BY <2>2, <2>3, <2>4 DEF RProgRec
<1>7. \A k \in BatchIds : b[k].rev = 0 => b[k].term
  BY <1>3 DEF Bookings
<1>8. \A k, j \in BatchIds : ~b[k].term /\ ~b[j].term => k = j
  BY <1>3 DEF Bookings
<1>9. ASSUME NEW r \in Revs, NEW k \in BatchIds PROVE (g[r].slot = k) <=> (~b[k].term /\ b[k].rev = r)
  <2>1. (rprog[r].slot = k) <=> (~batch[k].term /\ batch[k].rev = r)
    BY DEF Bookings
  <2>2. CASE k = i
    BY <1>3, <1>5, <1>6, <2>1, <2>2
  <2>3. CASE k # i
    BY <1>3, <1>5, <1>6, <2>1, <2>3
  <2> QED BY <2>2, <2>3
<1> QED BY <1>1, <1>3, <1>6, <1>7, <1>8, <1>9 DEF Bookings

\* Batches are closed, and the slots of those are cleared.
LEMMA Closing ==
    ASSUME Bookings(batch, rprog), NEW b, b \in [BatchIds -> BatchRec],
           \A i \in BatchIds : b[i].rev = batch[i].rev /\ (batch[i].term => b[i].term)
    PROVE  Bookings(b, ClearSlots(b))
<1>1. PICK g : g = ClearSlots(b)
  OBVIOUS
<1>2. 0 \notin BatchIds
  BY DEF BatchIds
<1>3. \A i \in BatchIds : b[i].rev = 0 => b[i].term
  BY DEF Bookings
<1>4. \A i, j \in BatchIds : ~b[i].term /\ ~b[j].term => i = j
  BY DEF Bookings
<1>5. /\ g \in [Revs -> RProgRec]
      /\ \A r \in Revs : g[r].slot = IF rprog[r].slot # 0 /\ b[rprog[r].slot].term /\ ~batch[rprog[r].slot].term
                                     THEN 0 ELSE rprog[r].slot
  <2>1. SUFFICES ASSUME NEW r \in Revs
                 PROVE  /\ g[r] \in RProgRec
                        /\ g[r].slot = IF rprog[r].slot # 0 /\ b[rprog[r].slot].term /\ ~batch[rprog[r].slot].term
                                       THEN 0 ELSE rprog[r].slot
    BY <1>1 DEF ClearSlots
  <2>2. rprog[r] \in RProgRec
    BY DEF Bookings
  <2>3. PICK k \in BatchIds \cup {0} :
           k = IF rprog[r].slot # 0 /\ b[rprog[r].slot].term /\ ~batch[rprog[r].slot].term THEN 0 ELSE rprog[r].slot
    BY <2>2 DEF RProgRec
  <2>4. g[r] = [rprog[r] EXCEPT !.slot = k]
    BY <1>1, <2>3 DEF ClearSlots
  <2> QED BY <2>2, <2>3, <2>4 DEF RProgRec
<1>6. ASSUME NEW r \in Revs, NEW k \in BatchIds PROVE (g[r].slot = k) <=> (~b[k].term /\ b[k].rev = r)
  <2>1. (rprog[r].slot = k) <=> (~batch[k].term /\ batch[k].rev = r)
    BY DEF Bookings
  <2>2. CASE rprog[r].slot = k
    BY <1>2, <1>5, <2>1, <2>2
  <2>3. CASE rprog[r].slot # k
    <3>1. ~(~b[k].term /\ b[k].rev = r)
      BY <2>1, <2>3
    <3>2. g[r].slot # k
      BY <1>2, <1>5, <2>3
    <3> QED BY <3>1, <3>2
  <2> QED BY <2>2, <2>3
<1> QED BY <1>1, <1>3, <1>4, <1>5, <1>6 DEF Bookings

LEMMA Superseded ==
    ASSUME Bookings(batch, rprog), NEW r
    PROVE  Bookings(supersedeOtherRevisionBatches(r), ClearSlots(supersedeOtherRevisionBatches(r)))
<1>1. PICK b : b = supersedeOtherRevisionBatches(r)
  OBVIOUS
<1>2. ASSUME NEW i \in BatchIds
      PROVE  b[i] \in BatchRec /\ b[i].rev = batch[i].rev /\ (batch[i].term => b[i].term)
  <2>1. batch[i] \in BatchRec
    BY DEF Bookings
  <2>2. CASE batch[i].term \/ batch[i].rev = r
    BY <1>1, <2>1, <2>2 DEF supersedeOtherRevisionBatches
  <2>3. CASE ~(batch[i].term \/ batch[i].rev = r)
    <3>1. PICK l \in Parts, j \in Parts, c \in Parts :
             l = SupersededPart(batch[i].like) /\ j = SupersededPart(batch[i].join) /\ c = SupersededPart(batch[i].comment)
      BY <2>1 DEF BatchRec, SupersededPart, Parts
    <3>2. PICK t \in BOOLEAN : t = ~Out(batch[i])
      BY DEF Out
    <3>3. b[i] = [batch[i] EXCEPT !.like = l, !.join = j, !.comment = c, !.term = t]
      BY <1>1, <2>3, <3>1, <3>2 DEF supersedeOtherRevisionBatches
    <3> QED BY <2>1, <2>3, <3>3 DEF BatchRec
  <2> QED BY <2>2, <2>3
<1>3. b = [i \in BatchIds |-> b[i]]
  BY <1>1 DEF supersedeOtherRevisionBatches
<1>4. b \in [BatchIds -> BatchRec] /\ \A i \in BatchIds : b[i].rev = batch[i].rev /\ (batch[i].term => b[i].term)
  BY <1>2, <1>3
<1> QED BY <1>1, <1>4, Closing

LEMMA RuleRecover == ASSUME RuleInv, recoverInterruptedBatches PROVE RuleInv'
<1>0. Bookings(batch, rprog) /\ Pends(pend)
  BY RuleParts
<1>1. PICK b : b = batch'
  OBVIOUS
<1>2. /\ b = [i \in BatchIds |->
                IF batch[i].term THEN batch[i]
                ELSE [batch[i] EXCEPT !.like = RecoveredPart(batch[i].like, "ambiguous"),
                                      !.join = RecoveredPart(batch[i].join, "ambiguous"),
                                      !.comment = RecoveredPart(batch[i].comment, "ambiguous"), !.term = TRUE]]
      /\ rprog' = ClearSlots(b) /\ pend' = pend
  BY <1>1 DEF recoverInterruptedBatches
<1>3. ASSUME NEW i \in BatchIds
      PROVE  b[i] \in BatchRec /\ b[i].rev = batch[i].rev /\ (batch[i].term => b[i].term)
  <2>1. batch[i] \in BatchRec
    BY <1>0 DEF Bookings
  <2>2. CASE batch[i].term
    BY <1>2, <2>1, <2>2
  <2>3. CASE ~batch[i].term
    <3>1. PICK l \in Parts, j \in Parts, c \in Parts :
             /\ l = RecoveredPart(batch[i].like, "ambiguous") /\ j = RecoveredPart(batch[i].join, "ambiguous")
             /\ c = RecoveredPart(batch[i].comment, "ambiguous")
      BY <2>1 DEF BatchRec, RecoveredPart, Parts
    <3>2. b[i] = [batch[i] EXCEPT !.like = l, !.join = j, !.comment = c, !.term = TRUE]
      BY <1>2, <2>3, <3>1
    <3> QED BY <2>1, <2>3, <3>2 DEF BatchRec
  <2> QED BY <2>2, <2>3
<1>4. b = [i \in BatchIds |-> b[i]]
  BY <1>2
<1>5. b \in [BatchIds -> BatchRec] /\ \A i \in BatchIds : b[i].rev = batch[i].rev /\ (batch[i].term => b[i].term)
  BY <1>3, <1>4
<1>6. Bookings(b, ClearSlots(b))
  BY <1>0, <1>5, Closing
<1> QED BY <1>0, <1>1, <1>2, <1>6, RulePartsNext

\* The views of revision r start batch n.
LEMMA Booking ==
    ASSUME Bookings(batch, rprog), NEW r \in Revs, NEW n \in BatchIds, \A i \in BatchIds : batch[i].term,
           NEW x \in BatchRec, x.rev = r, ~x.term, NEW y \in RProgRec, y.slot = n,
           NEW b, b = [batch EXCEPT ![n] = x], NEW g, g = [rprog EXCEPT ![r] = y]
    PROVE  Bookings(b, g)
<1>1. batch \in [BatchIds -> BatchRec] /\ rprog \in [Revs -> RProgRec]
  BY DEF Bookings
<1>2. b \in [BatchIds -> BatchRec] /\ b[n] = x /\ \A k \in BatchIds : k # n => b[k] = batch[k]
  BY <1>1
<1>3. g \in [Revs -> RProgRec] /\ g[r] = y /\ \A k \in Revs : k # r => g[k] = rprog[k]
  BY <1>1
<1>4. r # 0
  BY DEF Revs
<1>5. ASSUME NEW q \in Revs, NEW k \in BatchIds PROVE (g[q].slot = k) <=> (~b[k].term /\ b[k].rev = q)
  <2>1. rprog[q].slot # k
    BY DEF Bookings
  <2>2. CASE q = r
    BY <1>2, <1>3, <2>2
  <2>3. CASE q # r
    BY <1>2, <1>3, <2>1, <2>3
  <2> QED BY <2>2, <2>3
<1>6. \A k \in BatchIds : b[k].rev = 0 => b[k].term
  BY <1>2, <1>4
<1>7. \A k, j \in BatchIds : ~b[k].term /\ ~b[j].term => k = j
  BY <1>2
<1> QED BY <1>2, <1>3, <1>5, <1>6, <1>7 DEF Bookings

LEMMA RuleViewStep == ASSUME AuthOK, RuleInv, NEW p \in Services, NEW c \in RuleContents, RuleView(p, c) PROVE RuleInv'
<1>0. Bookings(batch, rprog) /\ Pends(pend)
  BY RuleParts
<1>1. PICK r \in Revs : r = auth.rev
  BY DEF AuthOK
<1>2. PICK b2 : b2 = supersedeOtherRevisionBatches(r)
  OBVIOUS
<1>3. rprog[r] \in RProgRec
  BY <1>0 DEF Bookings
<1>4. CASE batch' = b2 /\ rprog' = ClearSlots(b2) /\ pend' = pend
  <2>1. Bookings(b2, ClearSlots(b2))
    BY <1>0, <1>2, Superseded
  <2> QED BY <1>0, <1>4, <2>1, RulePartsNext
<1>5. CASE batch' = batch /\ pend' = pend /\ rprog' = [rprog EXCEPT ![r].views = @ + 1]
  <2>1. PICK x : x = [rprog[r] EXCEPT !.views = @ + 1]
    OBVIOUS
  <2>2. x \in RProgRec /\ x.slot = rprog[r].slot
    BY <1>3, <2>1 DEF RProgRec
  <2>3. PICK g : g = [rprog EXCEPT ![r] = x]
    OBVIOUS
  <2>4. g \in [Revs -> RProgRec] /\ \A k \in Revs : g[k].slot = rprog[k].slot
    BY <1>0, <2>2, <2>3 DEF Bookings
  <2>5. Bookings(batch, g)
    BY <1>0, <2>4 DEF Bookings
  <2>6. rprog' = g
    BY <1>0, <1>5, <2>1, <2>3 DEF Bookings
  <2> QED BY <1>0, <1>5, <2>5, <2>6, RulePartsNext
<1>6. ASSUME NEW n, n = (CHOOSE i \in FreeBatches : \A j \in FreeBatches : i <= j), FreeBatches # {},
             {i \in OpenBatches(batch) : batch[i].rev # r} = {}, rprog[r].slot = 0,
             batch' = [batch EXCEPT ![n] = [NoBatch EXCEPT !.rev = r, !.term = FALSE,
                                                           !.withJoin = RoundIncludesJoin(rprog[r].seq)]],
             rprog' = [rprog EXCEPT ![r] = [seq |-> rprog[r].seq + 1, views |-> 0, slot |-> n]],
             pend' = [pend EXCEPT ![p] = [id |-> n, step |-> "like"]]
      PROVE  RuleInv'
  <2>1. n \in BatchIds
    <3>1. FreeBatches \subseteq Nat /\ FreeBatches \subseteq BatchIds
      BY DEF FreeBatches, BatchIds
    <3>2. Oldest(FreeBatches) \in FreeBatches
      BY <1>6, <3>1, Oldests
    <3> QED BY <1>6, <3>1, <3>2 DEF Oldest
  <2>2. \A i \in BatchIds : batch[i].term
    <3>1. SUFFICES ASSUME NEW i \in BatchIds, ~batch[i].term PROVE FALSE
      OBVIOUS
    <3>2. i \in OpenBatches(batch)
      BY <3>1 DEF OpenBatches
    <3>3. batch[i].rev = r
      BY <1>6, <3>2
    <3>4. rprog[r].slot = i
      BY <1>0, <3>1, <3>3 DEF Bookings
    <3> QED BY <1>6, <3>4 DEF BatchIds
  <2>3. PICK w \in BOOLEAN : w = RoundIncludesJoin(rprog[r].seq)
    BY DEF RoundIncludesJoin
  <2>4. PICK x : x = [NoBatch EXCEPT !.rev = r, !.term = FALSE, !.withJoin = w]
    OBVIOUS
  <2>5. x \in BatchRec /\ x.rev = r /\ ~x.term
    <3>1. NoBatch \in BatchRec
      BY SessionAssumption DEF NoBatch, BatchRec, Parts
    <3>2. r \in 0..MaxRev
      BY SessionAssumption DEF Revs
    <3> QED BY <2>4, <3>1, <3>2 DEF BatchRec
  <2>6. PICK y : y = [seq |-> rprog[r].seq + 1, views |-> 0, slot |-> n]
    OBVIOUS
  <2>7. y \in RProgRec /\ y.slot = n
    BY <1>3, <2>1, <2>6 DEF RProgRec
  <2>8. PICK b, g : b = [batch EXCEPT ![n] = x] /\ g = [rprog EXCEPT ![r] = y]
    OBVIOUS
  <2>9. Bookings(b, g)
    BY <1>0, <2>1, <2>2, <2>5, <2>7, <2>8, Booking
  <2>10. batch' = b /\ rprog' = g
    BY <1>6, <2>3, <2>4, <2>6, <2>8
  <2>11. PICK z : z = [id |-> n, step |-> "like"]
    OBVIOUS
  <2>12. z \in PendRec /\ z.id \in BatchIds
    BY <2>1, <2>11 DEF PendRec
  <2>13. Pends(pend')
    BY <1>0, <1>6, <2>11, <2>12, PendPut
  <2> QED BY <2>9, <2>10, <2>13, RulePartsNext
<1>7. CASE \/ batch' = b2 /\ rprog' = ClearSlots(b2) /\ pend' = pend
           \/ batch' = batch /\ pend' = pend /\ rprog' = [rprog EXCEPT ![r].views = @ + 1]
  BY <1>4, <1>5, <1>7
<1>8. CASE ~(\/ batch' = b2 /\ rprog' = ClearSlots(b2) /\ pend' = pend
             \/ batch' = batch /\ pend' = pend /\ rprog' = [rprog EXCEPT ![r].views = @ + 1])
  <2>1. PICK n : n = (CHOOSE i \in FreeBatches : \A j \in FreeBatches : i <= j)
    OBVIOUS
  <2>2. /\ FreeBatches # {} /\ {i \in OpenBatches(batch) : batch[i].rev # r} = {} /\ rprog[r].slot = 0
        /\ batch' = [batch EXCEPT ![n] = [NoBatch EXCEPT !.rev = r, !.term = FALSE,
                                                         !.withJoin = RoundIncludesJoin(rprog[r].seq)]]
        /\ rprog' = [rprog EXCEPT ![r] = [seq |-> rprog[r].seq + 1, views |-> 0, slot |-> n]]
        /\ pend' = [pend EXCEPT ![p] = [id |-> n, step |-> "like"]]
    BY <1>1, <1>2, <1>8, <2>1 DEF RuleView
  <2> QED BY <1>6, <2>1, <2>2
<1> QED BY <1>7, <1>8

\* A patch of a batch in hand.
LEMMA PatchStep ==
    ASSUME RuleInv, NEW i \in BatchIds, NEW y, updateBatch(i, y),
           y \in BatchRec /\ y.rev = batch[i].rev /\ (batch[i].term => y.term), Pends(pend')
    PROVE  RuleInv'
<1>1. Bookings(batch, rprog)
  BY RuleParts
<1>2. Bookings(batch', rprog')
  BY <1>1, Patching
<1> QED BY <1>2, RulePartsNext

LEMMA PendDone == ASSUME NEW v, Pends(v), NEW p \in Services PROVE Pends([v EXCEPT ![p] = NoPend])
BY NoPends, PendPut

LEMMA InPend == ASSUME RuleInv, NEW p \in Services, pend[p].step # "none"
                PROVE  Pends(pend) /\ pend[p].id \in BatchIds /\ batch[pend[p].id] \in BatchRec
BY RuleParts DEF Pends, Bookings

LEMMA RuleFinish ==
    ASSUME RuleInv, NEW p \in Services, pend[p].step # "none", NEW j \in Parts, NEW c \in Parts,
           finishFacebookRuleBatch(p, j, c)
    PROVE  RuleInv'
<1>1. PICK i \in BatchIds : i = pend[p].id /\ batch[i] \in BatchRec /\ Pends(pend)
  BY InPend
<1>2. PICK y : y = [batch[i] EXCEPT !.join = j, !.comment = c, !.term = TRUE]
  OBVIOUS
<1>3. updateBatch(i, y) /\ pend' = [pend EXCEPT ![p] = NoPend]
  BY <1>1, <1>2 DEF finishFacebookRuleBatch
<1>4. y \in BatchRec /\ y.rev = batch[i].rev /\ (batch[i].term => y.term)
  BY <1>1, <1>2 DEF BatchRec
<1>5. Pends(pend')
  BY <1>1, <1>3, PendDone
<1> QED BY <1>3, <1>4, <1>5, PatchStep

LEMMA RuleLikeSteps ==
    ASSUME RuleInv, NEW p \in Services, AttemptRuleLike(p) \/ RecordRuleLikeSent(p) \/ FinishRuleLike(p)
    PROVE  RuleInv'
<1>0. pend[p].step # "none"
  BY DEF AttemptRuleLike, RecordRuleLikeSent, FinishRuleLike
<1>1. PICK i \in BatchIds : i = pend[p].id /\ batch[i] \in BatchRec /\ Pends(pend)
  BY <1>0, InPend
<1>2. {"policy_superseded", "not_started", "dispatched", "done"} \subseteq Parts
  BY DEF Parts
<1>3. CASE \E l \in Parts, st \in {"join", "sent"} :
              updateBatch(i, [batch[i] EXCEPT !.like = l]) /\ pend' = [pend EXCEPT ![p].step = st]
  <2>1. PICK l \in Parts, st \in {"join", "sent"} :
           updateBatch(i, [batch[i] EXCEPT !.like = l]) /\ pend' = [pend EXCEPT ![p].step = st]
    BY <1>3
  <2>2. PICK y : y = [batch[i] EXCEPT !.like = l]
    OBVIOUS
  <2>3. y \in BatchRec /\ y.rev = batch[i].rev /\ (batch[i].term => y.term)
    BY <1>1, <2>1, <2>2 DEF BatchRec
  <2>4. Pends(pend')
    BY <1>0, <1>1, <2>1, PendOn
  <2> QED BY <2>1, <2>2, <2>3, <2>4, PatchStep
<1>4. CASE /\ updateBatch(i, [batch[i] EXCEPT !.like = "policy_superseded", !.term = TRUE,
                                 !.join = "policy_superseded", !.comment = "policy_superseded"])
           /\ pend' = [pend EXCEPT ![p] = NoPend]
  <2>1. PICK y : y = [batch[i] EXCEPT !.like = "policy_superseded", !.term = TRUE,
                         !.join = "policy_superseded", !.comment = "policy_superseded"]
    OBVIOUS
  <2>2. y \in BatchRec /\ y.rev = batch[i].rev /\ y.term
    BY <1>1, <1>2, <2>1 DEF BatchRec
  <2>3. Pends(pend')
    BY <1>1, <1>4, PendDone
  <2> QED BY <1>4, <2>1, <2>2, <2>3, PatchStep
<1>5. CASE pend' = [pend EXCEPT ![p].step = "sending"] /\ UNCHANGED <<batch, rprog>>
  <2>1. Pends(pend')
    BY <1>0, <1>1, <1>5, PendOn
  <2>2. Bookings(batch', rprog')
    BY <1>5, RuleParts
  <2> QED BY <2>1, <2>2, RulePartsNext
<1> QED BY <1>1, <1>2, <1>3, <1>4, <1>5 DEF AttemptRuleLike, RecordRuleLikeSent, FinishRuleLike

LEMMA RuleJoinSteps ==
    ASSUME RuleInv, NEW p \in Services, StartRuleJoin(p) \/ FinishRuleJoin(p)
    PROVE  RuleInv'
<1>0. pend[p].step # "none"
  BY DEF StartRuleJoin, FinishRuleJoin
<1>1. PICK i \in BatchIds : i = pend[p].id /\ batch[i] \in BatchRec /\ Pends(pend)
  BY <1>0, InPend
<1>2. {"policy_superseded", "not_started", "dispatched", "done", "pending", "ambiguous"} \subseteq Parts
  BY DEF Parts
<1>3. CASE \E j \in Parts : \E c \in Parts : finishFacebookRuleBatch(p, j, c)
  BY <1>0, <1>3, RuleFinish
<1>4. CASE /\ updateBatch(i, [batch[i] EXCEPT !.join = "dispatched", !.comment = "pending"])
           /\ pend' = [pend EXCEPT ![p].step = "joining"]
  <2>1. PICK y : y = [batch[i] EXCEPT !.join = "dispatched", !.comment = "pending"]
    OBVIOUS
  <2>2. y \in BatchRec /\ y.rev = batch[i].rev /\ (batch[i].term => y.term)
    BY <1>1, <1>2, <2>1 DEF BatchRec
  <2>3. Pends(pend')
    BY <1>0, <1>1, <1>4, PendOn
  <2> QED BY <1>4, <2>1, <2>2, <2>3, PatchStep
<1>5. CASE StartRuleJoin(p)
  BY <1>1, <1>2, <1>3, <1>4, <1>5 DEF StartRuleJoin
<1>6. CASE FinishRuleJoin(p)
  BY <1>2, <1>3, <1>6 DEF FinishRuleJoin
<1> QED BY <1>5, <1>6

LEMMA RuleBoundary == ASSUME RuleInv, NEW p \in Services, ReconcileRuleBatch(p) PROVE RuleInv'
<1>1. CASE pend[p].step \in {"like", "sending", "sent"}
  <2>1. PICK i \in BatchIds : i = pend[p].id /\ batch[i] \in BatchRec /\ Pends(pend)
    BY <1>1, InPend
  <2>2. PICK l \in Parts : l = CASE pend[p].step \in {"sending", "sent"} -> "ambiguous"
                                 [] pend[p].step = "like" -> "not_started" [] OTHER -> batch[i].like
    BY <1>1 DEF Parts
  <2>3. PICK y : y = [batch[i] EXCEPT !.like = l, !.join = "not_started", !.comment = "not_started", !.term = TRUE]
    OBVIOUS
  <2>4. updateBatch(i, y) /\ pend' = [pend EXCEPT ![p] = NoPend]
    BY <1>1, <2>1, <2>2, <2>3 DEF ReconcileRuleBatch
  <2>5. y \in BatchRec /\ y.rev = batch[i].rev /\ y.term
    <3>1. "not_started" \in Parts
      BY DEF Parts
    <3> QED BY <2>1, <2>2, <2>3, <3>1 DEF BatchRec
  <2>6. Pends(pend')
    BY <2>1, <2>4, PendDone
  <2> QED BY <2>4, <2>5, <2>6, PatchStep
<1>2. CASE pend[p].step \notin {"like", "sending", "sent"}
  <2>1. batch' = batch /\ rprog' = rprog /\ pend' = pend
    BY <1>2 DEF ReconcileRuleBatch, ruleVars
  <2> QED BY <2>1, RuleParts, RulePartsNext
<1> QED BY <1>1, <1>2

LEMMA RuleCrashes == ASSUME RuleInv, NEW p \in Services, RuleCrash(p) PROVE RuleInv'
<1>1. batch' = batch /\ rprog' = rprog /\ pend' = [pend EXCEPT ![p] = NoPend]
  BY DEF RuleCrash
<1>2. Bookings(batch, rprog) /\ Pends(pend)
  BY RuleParts
<1>3. Pends(pend')
  BY <1>1, <1>2, PendDone
<1> QED BY <1>1, <1>2, <1>3, RulePartsNext

LEMMA RuleSteps == ASSUME AuthOK, RuleInv, NEW p \in Services, RuleStep(p) PROVE RuleInv'
<1>1. CASE AttemptRuleLike(p) \/ RecordRuleLikeSent(p) \/ FinishRuleLike(p)
  BY <1>1, RuleLikeSteps
<1>2. CASE StartRuleJoin(p) \/ FinishRuleJoin(p)
  BY <1>2, RuleJoinSteps
<1>3. CASE \E c \in RuleContents : RuleView(p, c)
  BY <1>3, RuleViewStep
<1> QED BY <1>1, <1>2, <1>3 DEF RuleStep

LEMMA RuleUnchanged == ASSUME RuleInv, UNCHANGED ruleVars PROVE RuleInv'
<1>1. batch' = batch /\ rprog' = rprog /\ pend' = pend
  BY DEF ruleVars
<1> QED BY <1>1, RuleParts, RulePartsNext

------------------------------------------------------------------------------
(* The invariant *)

LEMMA ConsBegins == ASSUME ConsInit PROVE ConsInv
<1>1. act = [i \in Ids |-> NoAct] /\ writes = [i \in Ids |-> 0]
  BY DEF ConsInit
<1>2. NoAct \in ActRec /\ ActionOK(NoAct) /\ NoAct.type = "none"
  <2>1. 1 \in Revs /\ Nothing # "confirmed"
    BY SessionAssumption, OutcomeAssumption DEF Revs, Outcomes
  <2>2. NoAct \in ActRec
    BY <2>1 DEF NoAct, ActRec, RowStates, Phases
  <2> QED BY <2>1, <2>2 DEF NoAct, ActionOK
<1>3. Rows(act)
  BY <1>1, <1>2 DEF Rows
<1>4. prog \in [Revs -> ProgRec] /\ \A r \in Revs : prog[r].likes = 0 /\ prog[r].joins = 0 /\ prog[r].slot = 0
  BY DEF ConsInit, ProgRec
<1>5. SlotsOpen(act, prog)
  BY <1>4 DEF SlotsOpen
<1>6. \A r, t : t \in ActionTypes => OfType(act, r, t) = {}
  BY <1>1, <1>2 DEF OfType, ActionTypes
<1>7. Earned(act, prog)
  <2>1. SUFFICES ASSUME NEW r \in Revs
                 PROVE  /\ prog[r].likes + LikesPerJoin * Cardinality(OfType(act, r, "join")) <= Cardinality(Won(act, r, "like"))
                        /\ prog[r].joins + JoinsPerComment * Cardinality(OfType(act, r, "comment")) <= Cardinality(Won(act, r, "join"))
    BY DEF Earned
  <2>2. Cardinality(OfType(act, r, "join")) = 0 /\ Cardinality(OfType(act, r, "comment")) = 0
    BY <1>6, FS_EmptySet DEF ActionTypes
  <2>3. Cardinality(Won(act, r, "like")) \in Nat /\ Cardinality(Won(act, r, "join")) \in Nat
    BY Counts
  <2>4. LikesPerJoin * 0 = 0 /\ JoinsPerComment * 0 = 0
    BY CadenceAssumption
  <2>5. prog[r].likes = 0 /\ prog[r].joins = 0
    BY <1>4
  <2>6. PICK wl \in Nat, wj \in Nat : wl = Cardinality(Won(act, r, "like")) /\ wj = Cardinality(Won(act, r, "join"))
    BY <2>3
  <2>7. 0 + 0 <= wl /\ 0 + 0 <= wj
    BY <2>6
  <2> QED BY <2>2, <2>4, <2>5, <2>6, <2>7
<1>8. Runs(run) /\ Likes(like)
  BY NoHand DEF ConsInit, Runs, Likes
<1>9. \A p \in Services : \A i \in Ids : ~MayWrite(run, p, i) /\ ~MayWrite(like, p, i)
  BY NoHand DEF ConsInit, MayWrite
<1>10. Sent(act, run, like, writes)
  BY <1>1, <1>9 DEF Sent
<1> QED BY <1>3, <1>4, <1>5, <1>7, <1>8, <1>10, InHand DEF ConsInv, Tables

LEMMA RuleBegins == ASSUME RuleInit PROVE RuleInv
<1>1. NoBatch \in BatchRec /\ NoBatch.term = TRUE
  BY SessionAssumption DEF NoBatch, BatchRec, Parts
<1>2. /\ batch = [b \in BatchIds |-> NoBatch]
      /\ rprog = [r \in Revs |-> [seq |-> 1, views |-> 0, slot |-> 0]]
      /\ pend = [p \in Services |-> NoPend]
  BY DEF RuleInit
<1>3. batch \in [BatchIds -> BatchRec] /\ \A i \in BatchIds : batch[i].term
  BY <1>1, <1>2
<1>4. rprog \in [Revs -> RProgRec] /\ \A r \in Revs : rprog[r].slot = 0
  BY <1>2 DEF RProgRec
<1>5. Bookings(batch, rprog)
  BY <1>3, <1>4 DEF Bookings, BatchIds
<1>6. Pends(pend)
  BY <1>2, NoPends DEF Pends
<1> QED BY <1>5, <1>6, RuleParts

LEMMA ModesBegin == ModesInit => ModesInv
<1>1. SUFFICES ASSUME ModesInit PROVE ModesInv
  OBVIOUS
<1>2. AuthOK /\ up \subseteq Services
  BY <1>1, SessionAssumption DEF ModesInit, SessionInit, AuthOK, Modes, Revs
<1>3. ConsInv /\ RuleInv
  BY <1>1, ConsBegins, RuleBegins DEF ModesInit
<1> QED BY <1>2, <1>3 DEF ModesInv

LEMMA ModesKept == ModesInv /\ [ModesNext]_modesVars => ModesInv'
<1>1. SUFFICES ASSUME ModesInv, [ModesNext]_modesVars PROVE ModesInv'
  OBVIOUS
<1>2. AuthOK /\ up \subseteq Services /\ ConsInv /\ RuleInv
  BY <1>1 DEF ModesInv
<1>3. CASE ChangePolicy /\ UNCHANGED <<consVars, ruleVars>>
  <2>1. AuthOK' /\ up' = up
    <3>1. PICK m \in Modes : auth' = [mode |-> m, rev |-> auth.rev + 1]
      BY <1>3 DEF ChangePolicy
    <3>2. auth.rev \in 1..MaxRev /\ auth.rev < MaxRev /\ up' = up
      BY <1>2, <1>3 DEF AuthOK, ChangePolicy, Revs
    <3>3. auth.rev + 1 \in 1..MaxRev
      BY <3>2, SessionAssumption
    <3> QED BY <3>1, <3>2, <3>3 DEF AuthOK, Revs
  <2> QED BY <1>2, <1>3, <2>1, ConsUnchanged, RuleUnchanged DEF ModesInv
<1>4. ASSUME NEW p \in Services, Boundary(p) PROVE ModesInv'
  <2>1. AuthOK' /\ up' = up
    BY <1>2, <1>4 DEF Boundary, OpenSession, AuthOK
  <2>2. ConsInv'
    BY <1>2, <1>4, DetachStep DEF Boundary
  <2>3. RuleInv'
    BY <1>2, <1>4, RuleBoundary DEF Boundary
  <2> QED BY <1>2, <2>1, <2>2, <2>3 DEF ModesInv
<1>5. ASSUME NEW p \in Services, Start(p) PROVE ModesInv'
  <2>1. AuthOK' /\ up' \subseteq Services
    BY <1>2, <1>5 DEF Start, StartProcess, AuthOK
  <2>2. ConsInv'
    BY <1>2, <1>5, RecoverStep DEF Start
  <2>3. RuleInv'
    BY <1>2, <1>5, RuleRecover DEF Start
  <2> QED BY <2>1, <2>2, <2>3 DEF ModesInv
<1>6. ASSUME NEW p \in Services, ServiceCrash(p) PROVE ModesInv'
  <2>1. AuthOK' /\ up' \subseteq Services
    BY <1>2, <1>6 DEF ServiceCrash, CrashProcess, AuthOK
  <2>2. ConsInv'
    BY <1>2, <1>6, CrashStep DEF ServiceCrash
  <2>3. RuleInv'
    BY <1>2, <1>6, RuleCrashes DEF ServiceCrash
  <2> QED BY <2>1, <2>2, <2>3 DEF ModesInv
<1>7. ASSUME NEW i \in Ids, LeaseExpires(i), UNCHANGED <<sessionVars, ruleVars>> PROVE ModesInv'
  <2>1. AuthOK' /\ up' = up
    BY <1>2, <1>7 DEF AuthOK, sessionVars
  <2>2. ConsInv'
    BY <1>2, <1>7, LeaseStep
  <2>3. RuleInv'
    BY <1>2, <1>7, RuleUnchanged
  <2> QED BY <1>2, <2>1, <2>2, <2>3 DEF ModesInv
<1>8. ASSUME NEW p \in Services, ConsStep(p), UNCHANGED <<sessionVars, ruleVars>> PROVE ModesInv'
  <2>1. AuthOK' /\ up' = up
    BY <1>2, <1>8 DEF AuthOK, sessionVars
  <2>2. ConsInv'
    BY <1>2, <1>8, ConsSteps
  <2>3. RuleInv'
    BY <1>2, <1>8, RuleUnchanged
  <2> QED BY <1>2, <2>1, <2>2, <2>3 DEF ModesInv
<1>9. ASSUME NEW p \in Services, RuleStep(p), UNCHANGED <<sessionVars, consVars>> PROVE ModesInv'
  <2>1. AuthOK' /\ up' = up
    BY <1>2, <1>9 DEF AuthOK, sessionVars
  <2>2. ConsInv'
    BY <1>2, <1>9, ConsUnchanged
  <2>3. RuleInv'
    BY <1>2, <1>9, RuleSteps
  <2> QED BY <1>2, <2>1, <2>2, <2>3 DEF ModesInv
<1>10. CASE UNCHANGED modesVars
  <2>1. AuthOK' /\ up' = up
    BY <1>2, <1>10 DEF modesVars, AuthOK, sessionVars
  <2>2. UNCHANGED consVars /\ UNCHANGED ruleVars
    BY <1>10 DEF modesVars
  <2> QED BY <1>2, <2>1, <2>2, ConsUnchanged, RuleUnchanged DEF ModesInv
<1>11. CASE ModesNext
  BY <1>2, <1>3, <1>4, <1>5, <1>6, <1>7, <1>8, <1>9, <1>11 DEF ModesNext
<1> QED BY <1>1, <1>10, <1>11

\* Tables, hands and marks stay in order in both modes, through crashes, moves of the session, lease
\* expiries and changes of the policy.
THEOREM ModesInvariant == ModesSpec => []ModesInv
<1> QED BY ModesBegin, ModesKept, PTL DEF ModesSpec

\* Whatever crashes, expires or is claimed again, an action is written to the platform at most once:
\* the executors write only behind the durable mark (bindTargetAndMarkDispatched, markDispatched), which
\* takes a row that was never started, and no row becomes one again (claimAction, recoverActiveActions).
THEOREM WrittenOnce == ModesSpec => []WriteOnce
<1>1. ModesInv => WriteOnce
  BY DEF ModesInv, ConsInv, Sent, WriteOnce
<1> QED BY <1>1, ModesInvariant, PTL

\* The joins and the comments of a revision never exceed what its confirmed likes and joins pay for, for
\* every cadence: settleAction takes what an obligation costs off the counters of the row that earns it
\* (advanceFacebookConsumptionCounters), also when a policy change has superseded the revision.
THEOREM EarnedObligations == ModesSpec => []ObligationsEarned
<1>1. ModesInv => ObligationsEarned
  <2>1. SUFFICES ASSUME ModesInv PROVE ObligationsEarned
    OBVIOUS
  <2>2. Earned(act, prog)
    BY <2>1 DEF ModesInv, ConsInv, Tables
  <2>3. \A r, t : Count(r, t) = Cardinality(OfType(act, r, t)) /\ Confirmed(r, t) = Cardinality(Won(act, r, t))
    BY DEF Count, Confirmed, OfType, Won
  <2> QED BY <2>2, <2>3 DEF ObligationsEarned, Earned
<1> QED BY <1>1, ModesInvariant, PTL

\* One round at a time: at most one open batch, and no slot dangling or lost in either mode, so that
\* applyConfirmedView neither refuses every further view of the account nor starts a second round.
THEOREM OneRoundAtATime == ModesSpec => []OneRound
<1>1. ModesInv => OneRound
  <2>1. SUFFICES ASSUME ModesInv PROVE OneRound
    OBVIOUS
  <2>2. SlotIsOpen
    BY <2>1 DEF ModesInv, ConsInv, Tables, SlotsOpen, SlotIsOpen
  <2>3. BatchHoldsSlot
    BY <2>1 DEF ModesInv, RuleInv
  <2>4. OneOpenBatch
    <3>1. CASE OpenBatches(batch) = {}
      BY <3>1, FS_EmptySet DEF OneOpenBatch
    <3>2. CASE OpenBatches(batch) # {}
      <4>0. PICK i \in OpenBatches(batch) : TRUE
        BY <3>2
      <4>1. OpenBatches(batch) = {i}
        BY <2>1, <4>0 DEF ModesInv, RuleInv, OpenBatches
      <4>2. Cardinality({i}) = 1
        BY FS_Singleton
      <4> QED BY <4>1, <4>2 DEF OneOpenBatch
    <3> QED BY <3>1, <3>2
  <2> QED BY <2>2, <2>3, <2>4 DEF OneRound, SlotsHold
<1> QED BY <1>1, ModesInvariant, PTL
==============================================================================
