------------------------ MODULE AutomationProcessProofs ------------------------
(***************************************************************************)
(* Proofs about the automation processes, for any number of processes,     *)
(* calls, commands and values and for every migration ledger.              *)
(*                                                                         *)
(* The three parts of AutomationProcess share the stage of the processes   *)
(* and their end, and no invariant of one needs one of another.  So there  *)
(* is one inductive invariant per part: LifeInv for the writer lock and    *)
(* the business entry, ReadsInv for the facts of both directions, CmdsInv  *)
(* for the commands of the operators.                                      *)
(***************************************************************************)
EXTENDS AutomationProcess, FiniteSetTheorems, TLAPS

Stages == Unguarded \cup Guarded \cup {"starting", "listening"}

\* One entry of a table of tables is set.
LEMMA SetEntry ==
    ASSUME NEW A, NEW B, NEW V, NEW f \in [A -> [B -> V]], NEW a \in A, NEW b \in B, NEW v \in V
    PROVE  /\ [f EXCEPT ![a][b] = v] \in [A -> [B -> V]]
           /\ [f EXCEPT ![a][b] = v][a][b] = v
           /\ \A y \in B \ {b} : [f EXCEPT ![a][b] = v][a][y] = f[a][y]
           /\ \A x \in A \ {a} : [f EXCEPT ![a][b] = v][x] = f[x]
OBVIOUS

LifeTypes ==
    /\ stage \in [Procs -> Stages] /\ lock \in Procs \cup {None} /\ notice \subseteq Procs
    /\ lost \in [Procs -> BOOLEAN] /\ parts \in [Procs -> SUBSET Parts]
    /\ start \in [Procs -> Parts \cup {None}] /\ started \in [Procs -> BOOLEAN]
    /\ shut \in [Procs -> Shutdown] /\ failed \in [Procs -> BOOLEAN]
    /\ rounds \in [Procs -> SUBSET Works] /\ outlived \in [Procs -> SUBSET Works]

\* What is running without a start under way belongs to an open entry or to one that broke off; an
\* entry that is closing has no start under way.
EntryOK(p) ==
    /\ start[p] = None /\ parts[p] # {} => started[p] \/ failed[p]
    /\ shut[p] \in {"stopped", "disposed"} => start[p] = None /\ (started[p] => failed[p])

\* What is started or under way is in a process that had the lock once; what is under way after the
\* lock was given back was so then.
WorkOK(p) ==
    /\ parts[p] # {} \/ rounds[p] # {} \/ start[p] # None \/ started[p] => Built(p)
    /\ shut[p] = "disposed" /\ ~failed[p] => rounds[p] \subseteq outlived[p]

LifeInv == LifeTypes /\ WriterIsBacked /\ \A p \in Procs : EntryOK(p) /\ WorkOK(p)

-----------------------------------------------------------------------------
(* The life of the processes *)

LEMMA InitLifeInv == LifeInit => LifeInv
BY NoneAssumption DEF LifeInit, LifeInv, LifeTypes, WriterIsBacked, EntryOK, WorkOK, Stages, Unguarded, Shutdown, Unblocked, Built

\* A step of construction leaves the authority of the process alone until the lock is held.
LEMMA ConstructKeeps ==
    ASSUME LifeInv, NEW p \in Procs, NEW from, NEW to \in Stages, construct(p, from, to), UNCHANGED lock,
           to \in Unguarded <=> from \in Unguarded
    PROVE  LifeInv'
<1>1. LifeTypes'
  BY DEF LifeInv, LifeTypes, construct
<1>2. WriterIsBacked'
  BY DEF LifeInv, LifeTypes, construct, WriterIsBacked, Unblocked, Built
<1>3. \A q \in Procs : EntryOK(q)' /\ WorkOK(q)'
  BY DEF LifeInv, LifeTypes, construct, EntryOK, WorkOK, Built
<1> QED BY <1>1, <1>2, <1>3 DEF LifeInv

LEMMA BuildingKeeps ==
    ASSUME LifeInv, NEW p \in Procs,
           \/ runAutomationMain(p) \/ createStores(p) \/ createTaskService(p) \/ createPolicies(p)
           \/ createRiskAccounting(p) \/ createSchedulers(p) \/ createDispatcherFactory(p) \/ createEdgeAccess(p)
           \/ createPublishDispatch(p) \/ createWorker(p) \/ registerReadRoutes(p) \/ registerRoutes(p)
           \/ startAutomationService(p) \/ rootStarted(p)
    PROVE  LifeInv'
<1>0. /\ {"down", "root", "stores", "tasks", "built"} = Unguarded
      /\ {"guarded", "accounting", "schedulers", "dispatcher", "edges", "publishing", "worker", "reads", "routes",
          "starting", "listening"} \subseteq Stages \ Unguarded
      /\ Unguarded \subseteq Stages
  BY DEF Stages, Unguarded, Guarded
<1>1. PICK from \in Stages, to \in Stages :
        construct(p, from, to) /\ UNCHANGED lock /\ (to \in Unguarded <=> from \in Unguarded)
  <2>1. CASE runAutomationMain(p) BY <2>1, <1>0 DEF runAutomationMain
  <2>2. CASE createStores(p) BY <2>2, <1>0 DEF createStores
  <2>3. CASE createTaskService(p) BY <2>3, <1>0 DEF createTaskService
  <2>4. CASE createPolicies(p) BY <2>4, <1>0 DEF createPolicies
  <2>5. CASE createRiskAccounting(p) BY <2>5, <1>0 DEF createRiskAccounting
  <2>6. CASE createSchedulers(p) BY <2>6, <1>0 DEF createSchedulers
  <2>7. CASE createDispatcherFactory(p) BY <2>7, <1>0 DEF createDispatcherFactory
  <2>8. CASE createEdgeAccess(p) BY <2>8, <1>0 DEF createEdgeAccess
  <2>9. CASE createPublishDispatch(p) BY <2>9, <1>0 DEF createPublishDispatch
  <2>10. CASE createWorker(p) BY <2>10, <1>0 DEF createWorker
  <2>11. CASE registerReadRoutes(p) BY <2>11, <1>0 DEF registerReadRoutes
  <2>12. CASE registerRoutes(p) BY <2>12, <1>0 DEF registerRoutes
  <2>13. CASE startAutomationService(p) BY <2>13, <1>0 DEF startAutomationService
  <2>14. CASE rootStarted(p) BY <2>14, <1>0 DEF rootStarted
  <2> QED BY <2>1, <2>2, <2>3, <2>4, <2>5, <2>6, <2>7, <2>8, <2>9, <2>10, <2>11, <2>12, <2>13, <2>14
<1> QED BY <1>1, ConstructKeeps

LEMMA LockKeeps ==
    ASSUME LifeInv, NEW p \in Procs, acquire(p) \/ LockConnectionEnds(p) \/ onLost(p) \/ dispose(p)
    PROVE  LifeInv'
<1>1. CASE acquire(p)
  <2>1. LifeTypes'
    BY <1>1 DEF LifeInv, LifeTypes, acquire, construct, Stages, Guarded
  <2>2. WriterIsBacked'
    BY <1>1, NoneAssumption DEF LifeInv, LifeTypes, acquire, construct, WriterIsBacked, Unblocked, Built
  <2>3. \A q \in Procs : EntryOK(q)' /\ WorkOK(q)'
    BY <1>1 DEF LifeInv, LifeTypes, acquire, construct, EntryOK, WorkOK, Built, Unguarded
  <2> QED BY <2>1, <2>2, <2>3 DEF LifeInv
<1>2. CASE LockConnectionEnds(p)
  BY <1>2 DEF LifeInv, LifeTypes, LockConnectionEnds, WriterIsBacked, Unblocked, Built, EntryOK, WorkOK
<1>3. CASE onLost(p)
  BY <1>3 DEF LifeInv, LifeTypes, onLost, markLost, WriterIsBacked, Unblocked, Built, EntryOK, WorkOK
<1>4. CASE dispose(p)
  <2>1. LifeTypes'
    BY <1>4 DEF LifeInv, LifeTypes, dispose, Shutdown
  <2>2. WriterIsBacked'
    BY <1>4 DEF LifeInv, LifeTypes, dispose, WriterIsBacked, Unblocked, Built
  <2>3. \A q \in Procs : EntryOK(q)' /\ WorkOK(q)'
    BY <1>4 DEF LifeInv, LifeTypes, dispose, EntryOK, WorkOK, Built
  <2> QED BY <2>1, <2>2, <2>3 DEF LifeInv
<1> QED BY <1>1, <1>2, <1>3, <1>4

\* The entry opens and closes under the authority the process has.
LEMMA EntryKeeps ==
    ASSUME LifeInv, NEW p \in Procs,
           startBusiness(p) \/ startNext(p) \/ startFails(p) \/ stopService(p) \/ stopBusiness(p)
    PROVE  LifeInv'
<1>0. UNCHANGED <<stage, lock, notice, lost>>
  BY DEF startBusiness, startNext, startFails, stopService, stopBusiness
<1>1. WriterIsBacked'
  BY <1>0 DEF LifeInv, WriterIsBacked, Unblocked, Built
<1>2. CASE startBusiness(p)
  <2>1. LifeTypes'
    BY <1>2, <1>0 DEF LifeInv, LifeTypes, startBusiness, Parts
  <2>2. \A q \in Procs : EntryOK(q)' /\ WorkOK(q)'
    BY <1>2, <1>0, NoneAssumption DEF LifeInv, LifeTypes, startBusiness, EntryOK, WorkOK, Built, Unguarded
  <2> QED BY <1>1, <2>1, <2>2 DEF LifeInv
<1>3. CASE startNext(p)
  <2>0. /\ start[p] \in {"edge", "consumers", "worker"} /\ Order[start[p]] \in Parts /\ Order[start[p]] # None
        /\ start[p] # None
    BY <1>3, NoneAssumption DEF startNext, Order, Parts
  <2>1. LifeTypes'
    BY <1>3, <1>0, <2>0 DEF LifeInv, LifeTypes, startNext
  <2>2. \A q \in Procs : EntryOK(q)' /\ WorkOK(q)'
    BY <1>3, <1>0, <2>0 DEF LifeInv, LifeTypes, startNext, EntryOK, WorkOK, Built
  <2> QED BY <1>1, <2>1, <2>2 DEF LifeInv
<1>4. CASE startFails(p)
  <2>1. LifeTypes'
    BY <1>4, <1>0 DEF LifeInv, LifeTypes, startFails
  <2>2. \A q \in Procs : EntryOK(q)' /\ WorkOK(q)'
    BY <1>4, <1>0, NoneAssumption DEF LifeInv, LifeTypes, startFails, EntryOK, WorkOK, Built, Unguarded
  <2> QED BY <1>1, <2>1, <2>2 DEF LifeInv
<1>5. CASE stopService(p)
  <2>1. LifeTypes'
    BY <1>5, <1>0 DEF LifeInv, LifeTypes, stopService, Shutdown
  <2>2. \A q \in Procs : EntryOK(q)' /\ WorkOK(q)'
    BY <1>5, <1>0 DEF LifeInv, LifeTypes, stopService, EntryOK, WorkOK, Built, Unguarded
  <2> QED BY <1>1, <2>1, <2>2 DEF LifeInv
<1>6. CASE stopBusiness(p)
  <2>1. LifeTypes'
    <3>0. LifeTypes /\ shut' \in [Procs -> Shutdown] /\ UNCHANGED <<start, rounds, outlived>>
      BY <1>6 DEF LifeInv, LifeTypes, stopBusiness, Shutdown
    <3>1. CASE ~started[p]
      BY <1>6, <1>0, <3>0, <3>1 DEF LifeTypes, stopBusiness
    <3>2. CASE started[p]
      <4>1. parts' \in [Procs -> SUBSET Parts] /\ started' \in [Procs -> BOOLEAN] /\ failed' \in [Procs -> BOOLEAN]
        <5>1. \/ /\ parts' = [parts EXCEPT ![p] = {}] /\ started' = [started EXCEPT ![p] = FALSE]
                 /\ UNCHANGED failed
              \/ /\ parts' = [parts EXCEPT ![p] = {"edge"}] /\ failed' = [failed EXCEPT ![p] = TRUE]
                 /\ UNCHANGED started
          BY <1>6, <3>2 DEF stopBusiness
        <5>2. {} \in SUBSET Parts /\ {"edge"} \in SUBSET Parts
          BY DEF Parts
        <5> QED BY <3>0, <5>1, <5>2 DEF LifeTypes
      <4> QED BY <1>0, <3>0, <4>1 DEF LifeTypes
    <3> QED BY <3>1, <3>2
  <2>2. \A q \in Procs : EntryOK(q)'
    BY <1>6 DEF LifeInv, LifeTypes, stopBusiness, startAwaited, EntryOK
  <2>3. \A q \in Procs : WorkOK(q)'
    <3>1. /\ UNCHANGED <<rounds, outlived, start>> /\ shut' = [shut EXCEPT ![p] = "stopped"]
          /\ parts' = parts \/ (parts' = [parts EXCEPT ![p] = parts'[p]] /\ started[p])
          /\ \A q \in Procs : (failed[q] => failed'[q]) /\ (started'[q] => started[q])
          /\ \A q \in Procs \ {p} : failed'[q] = failed[q]
      BY <1>6 DEF LifeInv, LifeTypes, stopBusiness
    <3>2. started[p] => Built(p)
      BY DEF LifeInv, WorkOK
    <3> QED BY <1>0, <3>1, <3>2 DEF LifeInv, LifeTypes, WorkOK, Built
  <2> QED BY <1>1, <2>1, <2>2, <2>3 DEF LifeInv
<1> QED BY <1>2, <1>3, <1>4, <1>5, <1>6

\* Work begins where something is armed, which nothing is after the lock was given back.
LEMMA WorkKeeps ==
    ASSUME LifeInv, NEW p \in Procs, NEW w \in Works, RoundBegins(p, w) \/ RoundEnds(p, w)
    PROVE  LifeInv'
<1>0. UNCHANGED <<stage, lock, notice, lost, parts, start, started, shut, failed, outlived>>
  BY DEF RoundBegins, RoundEnds
<1>1. LifeTypes' /\ \A q \in Procs \ {p} : rounds'[q] = rounds[q]
  BY <1>0 DEF LifeInv, LifeTypes, RoundBegins, RoundEnds
<1>2. \A q \in Procs : EntryOK(q)'
  BY <1>0 DEF LifeInv, EntryOK
<1>3. WriterIsBacked'
  BY <1>0 DEF LifeInv, WriterIsBacked, Unblocked, Built
<1>4. \A q \in Procs \ {p} : WorkOK(q)'
  BY <1>0, <1>1 DEF LifeInv, WorkOK, Built
<1>5. WorkOK(p)'
  <2>1. CASE RoundBegins(p, w)
    <3>1. w \in Armed(p)
      BY <2>1 DEF RoundBegins
    <3>2. Built(p)
      BY <3>1 DEF LifeInv, WorkOK, Armed
    <3>3. ~(shut[p] = "disposed" /\ ~failed[p])
      <4> SUFFICES ASSUME shut[p] = "disposed", ~failed[p] PROVE FALSE
        OBVIOUS
      <4>1. parts[p] = {}
        BY DEF LifeInv, EntryOK
      <4> QED BY <3>1, <4>1 DEF Armed
    <3> QED BY <1>0, <3>2, <3>3 DEF WorkOK, Built
  <2>2. CASE RoundEnds(p, w)
    <3>1. rounds'[p] \subseteq rounds[p]
      BY <2>2 DEF RoundEnds, LifeInv, LifeTypes
    <3> QED BY <1>0, <3>1 DEF LifeInv, WorkOK, Built
  <2> QED BY <2>1, <2>2
<1> QED BY <1>1, <1>2, <1>3, <1>4, <1>5 DEF LifeInv

LEMMA DiesKeeps == ASSUME LifeInv, NEW p \in Procs, Dies(p) PROVE LifeInv'
<1>1. LifeTypes'
  BY DEF LifeInv, LifeTypes, Dies, Stages, Unguarded, Shutdown
<1>2. WriterIsBacked'
  BY DEF LifeInv, LifeTypes, Dies, WriterIsBacked, Unblocked, Built, Unguarded
<1>3. \A q \in Procs : EntryOK(q)'
  BY DEF LifeInv, LifeTypes, Dies, EntryOK
<1>4. \A q \in Procs : WorkOK(q)'
  BY DEF LifeInv, LifeTypes, Dies, WorkOK, Built
<1> QED BY <1>1, <1>2, <1>3, <1>4 DEF LifeInv

LEMMA LifeStill == ASSUME LifeInv, UNCHANGED life PROVE LifeInv'
BY DEF LifeInv, LifeTypes, life, WriterIsBacked, Unblocked, Built, EntryOK, WorkOK

-----------------------------------------------------------------------------
(* The facts *)

Facts == [gen : Nat, val : Values \cup {None}]
Pubs == [val : Values, gen : Nat]
Fetches == [v : Nat, stored : BOOLEAN]
Mirrors == [cur : Nat, ready : BOOLEAN, restored : BOOLEAN]

OwnerTypes ==
    /\ runtime \in [Procs -> Values] /\ row \in [gen : Nat, val : Values \cup {None}, emitted : Nat]
    /\ pub \in [Procs -> Pubs \cup {None}] /\ observed \in [Procs -> Facts]
    /\ ownerReady \in [Procs -> BOOLEAN] /\ api \in Facts /\ told \in Nat
    /\ asked \in [Procs -> [gen : Nat, val : Values \cup {None}, signal : Nat] \cup {None}]

ConsumerTypes ==
    /\ source \in [Streams -> Nat] /\ fetch \in [Procs -> [Streams -> Fetches \cup {None}]]
    /\ mirror \in [Procs -> [Streams -> Mirrors]]
    /\ checkpoint \in [Streams -> Nat] /\ projection \in Nat

\* The row names the newest generation, nobody knows another value for a generation it has, and
\* generation 0 has none.
Agree(f, g) == f.gen = g.gen => f.val = g.val
Newest(f) == f.gen <= row.gen /\ Agree(f, row) /\ Agree(f, NoFact)
GenerationsOK ==
    /\ Agree(row, NoFact)
    /\ \A p \in Procs : Newest(observed[p]) /\ Agree(observed[p], api)
    /\ \A p, q \in Procs : Agree(observed[p], observed[q])
    /\ Newest(api)

\* A publication that has its generation carries the one its process observed last.
PublicationOK(p) ==
    /\ pub[p] # None /\ pub[p].gen # 0 => observed[p].gen = pub[p].gen
    /\ ownerReady[p] /\ pub[p] = None /\ observed[p].gen = row.gen => row.emitted = row.gen

OwnerInv ==
    /\ OwnerTypes /\ GenerationsOK /\ row.emitted <= row.gen
    /\ \A p \in Procs : PublicationOK(p)
    /\ AcknowledgedIsApplied

\* The roster is durable before a mirror has it; a configuration is while its fetch is still open.
MirrorOK(p) ==
    /\ mirror[p]["roster"].cur <= checkpoint["roster"]
    /\ fetch[p]["roster"] # None /\ fetch[p]["roster"].stored => fetch[p]["roster"].v <= checkpoint["roster"]
    /\ mirror[p]["config"].ready =>
          \/ mirror[p]["config"].cur <= checkpoint["config"]
          \/ fetch[p]["config"] # None /\ fetch[p]["config"].stored /\ mirror[p]["config"].cur = fetch[p]["config"].v

ConsumerInv ==
    /\ ConsumerTypes /\ checkpoint["roster"] <= projection
    /\ \A p \in Procs : MirrorOK(p)

ReadsInv == OwnerInv /\ ConsumerInv

LEMMA InitReadsInv == ReadsInit => ReadsInv
<1> SUFFICES ASSUME ReadsInit PROVE OwnerInv /\ ConsumerInv
  BY DEF ReadsInv
<1>1. OwnerTypes
  BY DEF ReadsInit, OwnerTypes, Facts, NoFact
<1>2. OwnerInv
  BY <1>1 DEF ReadsInit, OwnerInv, GenerationsOK, Newest, Agree, PublicationOK, AcknowledgedIsApplied, NoFact
<1>3. ConsumerTypes
  BY DEF ReadsInit, ConsumerTypes, Empty, Mirrors
<1>4. ConsumerInv
  BY <1>3 DEF ReadsInit, ConsumerInv, MirrorOK, Streams, Empty
<1> QED BY <1>2, <1>4

LEMMA OwnerStill == ASSUME OwnerInv, UNCHANGED owner PROVE OwnerInv'
BY DEF OwnerInv, OwnerTypes, owner, GenerationsOK, Newest, Agree, PublicationOK, AcknowledgedIsApplied

LEMMA ConsumerStill == ASSUME ConsumerInv, UNCHANGED consumer PROVE ConsumerInv'
BY DEF ConsumerInv, ConsumerTypes, consumer, MirrorOK

\* One upsert: the generation that is handed out names the value that was read.
LEMMA ObserveKeeps == ASSUME OwnerInv, NEW p \in Procs, observe(p) PROVE OwnerInv'
<1> DEFINE g == NextGeneration(pub[p].val)
<1>0. /\ pub[p] \in Pubs /\ pub[p].val \in Values /\ pub[p].gen = 0 /\ g \in Nat
      /\ row.gen \in Nat /\ row.emitted \in Nat
      /\ row' = [row EXCEPT !.gen = g, !.val = pub[p].val]
      /\ observed' = [observed EXCEPT ![p] = [gen |-> g, val |-> pub[p].val]]
      /\ pub' = [pub EXCEPT ![p].gen = g]
      /\ UNCHANGED <<runtime, ownerReady, asked, api, told>>
  BY DEF OwnerInv, OwnerTypes, observe, NextGeneration, Pubs
<1>1. g >= row.gen /\ (g = row.gen => row.val = pub[p].val)
  BY <1>0 DEF NextGeneration
<1> HIDE DEF g
<1>2. /\ row'.gen = g /\ row'.val = pub[p].val /\ row'.emitted = row.emitted
      /\ observed'[p].gen = g /\ observed'[p].val = pub[p].val
      /\ \A q \in Procs \ {p} : observed'[q] = observed[q] /\ pub'[q] = pub[q]
      /\ pub'[p] = [pub[p] EXCEPT !.gen = g] /\ pub'[p] \in Pubs /\ pub'[p].gen = g
  BY <1>0 DEF OwnerInv, OwnerTypes, Facts, Pubs
<1>3. OwnerTypes'
  BY <1>0, <1>2 DEF OwnerInv, OwnerTypes, Facts, Pubs
<1>4. \A q \in Procs : observed[q] \in Facts /\ observed[q].gen \in Nat /\ api.gen \in Nat
  BY DEF OwnerInv, OwnerTypes, Facts
<1>5. \A q \in Procs \ {p} : Newest(observed[q])' /\ Agree(observed[q], observed[p])'
  BY <1>0, <1>1, <1>2, <1>4 DEF OwnerInv, GenerationsOK, Newest, Agree, NoFact
<1>6. Newest(api)' /\ Newest(observed[p])' /\ Agree(observed[p], api)'
  BY <1>0, <1>1, <1>2, <1>4 DEF OwnerInv, GenerationsOK, Newest, Agree, NoFact
<1>7. GenerationsOK'
  <2>1. Agree(row, NoFact)'
    BY <1>0, <1>1, <1>2 DEF OwnerInv, GenerationsOK, Agree, NoFact
  <2>2. \A q, r \in Procs \ {p} : Agree(observed[q], observed[r])' /\ Agree(observed[p], observed[q])' /\ Agree(observed[q], api)'
    BY <1>0, <1>2, <1>5 DEF OwnerInv, GenerationsOK, Agree
  <2> QED BY <2>1, <2>2, <1>5, <1>6 DEF GenerationsOK, Agree
<1>8. row'.emitted <= row'.gen
  BY <1>0, <1>1, <1>2 DEF OwnerInv
<1>9. PublicationOK(p)'
  BY <1>2, FactAssumption DEF PublicationOK, Pubs
<1>10. \A q \in Procs \ {p} : PublicationOK(q)'
  BY <1>0, <1>1, <1>2, <1>4 DEF OwnerInv, GenerationsOK, Newest, PublicationOK
<1> QED BY <1>0, <1>3, <1>7, <1>8, <1>9, <1>10 DEF OwnerInv, AcknowledgedIsApplied

LEMMA PublishKeeps ==
    ASSUME OwnerInv, NEW p \in Procs,
           FactChanges(p) \/ publishChanged(p) \/ emit(p) \/ publishFails(p) \/ deliver(p)
    PROVE  OwnerInv'
<1>1. CASE FactChanges(p)
  <2>1. OwnerTypes'
    BY <1>1 DEF OwnerInv, OwnerTypes, FactChanges
  <2> QED BY <1>1, <2>1 DEF OwnerInv, FactChanges, GenerationsOK, Newest, Agree, PublicationOK, AcknowledgedIsApplied
<1>2. CASE publishChanged(p)
  <2>0. pub'[p] \in Pubs /\ pub'[p].gen = 0 /\ pub'[p] # None /\ \A q \in Procs \ {p} : pub'[q] = pub[q]
    BY <1>2, FactAssumption DEF OwnerInv, OwnerTypes, publishChanged, Pubs
  <2>1. OwnerTypes'
    BY <1>2 DEF OwnerInv, OwnerTypes, publishChanged, Pubs
  <2>2. \A q \in Procs : PublicationOK(q)'
    BY <1>2, <2>0 DEF OwnerInv, publishChanged, PublicationOK
  <2> QED BY <1>2, <2>1, <2>2 DEF OwnerInv, publishChanged, GenerationsOK, Newest, Agree, AcknowledgedIsApplied
<1>3. CASE emit(p)
  <2>0. /\ row \in [gen : Nat, val : Values \cup {None}, emitted : Nat] /\ pub[p] \in Pubs
        /\ row' = [row EXCEPT !.emitted = IF MayAnnounce(pub[p].gen) THEN row.gen ELSE @]
        /\ pub'[p] = None /\ \A q \in Procs \ {p} : pub'[q] = pub[q] /\ ownerReady'[q] = ownerReady[q]
    BY <1>3 DEF OwnerInv, OwnerTypes, emit
  <2>1. row'.gen = row.gen /\ row'.val = row.val /\ row'.emitted \in {row.emitted, row.gen}
        /\ (pub[p].gen = row.gen => row'.emitted = row.gen)
    BY <2>0 DEF OwnerInv, MayAnnounce, Pubs
  <2>2. OwnerTypes'
    BY <1>3, <2>0, <2>1 DEF OwnerInv, OwnerTypes, emit
  <2>3. \A q \in Procs : PublicationOK(q)'
    BY <1>3, <2>0, <2>1 DEF OwnerInv, OwnerTypes, emit, PublicationOK
  <2>4. row'.emitted <= row'.gen
    BY <2>0, <2>1 DEF OwnerInv
  <2>5. GenerationsOK'
    BY <1>3, <2>1 DEF OwnerInv, emit, GenerationsOK, Newest, Agree
  <2> QED BY <1>3, <2>2, <2>3, <2>4, <2>5 DEF OwnerInv, emit, AcknowledgedIsApplied
<1>4. CASE publishFails(p)
  <2>1. OwnerTypes'
    BY <1>4 DEF OwnerInv, OwnerTypes, publishFails
  <2>2. \A q \in Procs : PublicationOK(q)'
    BY <1>4 DEF OwnerInv, OwnerTypes, publishFails, PublicationOK
  <2> QED BY <1>4, <2>1, <2>2 DEF OwnerInv, publishFails, GenerationsOK, Newest, Agree, AcknowledgedIsApplied
<1>5. CASE deliver(p)
  <2>1. OwnerTypes'
    BY <1>5 DEF OwnerInv, OwnerTypes, deliver
  <2> QED BY <1>5, <2>1 DEF OwnerInv, deliver, GenerationsOK, Newest, Agree, PublicationOK, AcknowledgedIsApplied
<1> QED BY <1>1, <1>2, <1>3, <1>4, <1>5

LEMMA MaxOfTwo == \A a, b \in Nat : Max({a, b}) \in Nat /\ Max({a, b}) \in {a, b} /\ a <= Max({a, b}) /\ b <= Max({a, b})
<1> SUFFICES ASSUME NEW a \in Nat, NEW b \in Nat
             PROVE  Max({a, b}) \in {a, b} /\ a <= Max({a, b}) /\ b <= Max({a, b})
  OBVIOUS
<1>1. \E x \in {a, b} : \A y \in {a, b} : x >= y
  OBVIOUS
<1> QED BY <1>1 DEF Max

\* The API only moves on, and an acknowledgement follows what it has applied.
LEMMA AcknowledgeKeeps == ASSUME OwnerInv, NEW p \in Procs, currentRuntimeSnapshot(p) PROVE OwnerInv'
<1>0. /\ asked[p] \in [gen : Nat, val : Values \cup {None}, signal : Nat] /\ observed[p] \in Facts /\ api \in Facts
      /\ asked[p].signal \in Nat /\ asked[p].gen \in Nat /\ observed[p].gen \in Nat /\ api.gen \in Nat /\ told \in Nat
      /\ told <= api.gen
  BY DEF OwnerInv, OwnerTypes, currentRuntimeSnapshot, Facts, AcknowledgedIsApplied
<1>1. api' \in {api, observed[p]} /\ api'.gen >= api.gen /\ (Served(p) => api'.gen >= observed[p].gen)
  BY <1>0 DEF currentRuntimeSnapshot
<1>2. told' = told \/ (Acknowledged(p) /\ told' = Max({told, asked[p].signal}))
  BY DEF currentRuntimeSnapshot
<1>3. told' \in Nat /\ told' <= api'.gen
  BY <1>0, <1>1, <1>2, MaxOfTwo DEF Acknowledged
<1>4. OwnerTypes'
  BY <1>0, <1>1, <1>3 DEF OwnerInv, OwnerTypes, currentRuntimeSnapshot
<1>5. GenerationsOK'
  BY <1>1 DEF OwnerInv, GenerationsOK, Newest, Agree, currentRuntimeSnapshot
<1>6. \A q \in Procs : PublicationOK(q)'
  BY DEF OwnerInv, PublicationOK, currentRuntimeSnapshot
<1>7. UNCHANGED row
  BY DEF currentRuntimeSnapshot
<1> QED BY <1>3, <1>4, <1>5, <1>6, <1>7 DEF OwnerInv, AcknowledgedIsApplied

\* Facts about the mirrors, read off the types for one process and one stream.
LEMMA MirrorTypes ==
    ASSUME ConsumerTypes, NEW p \in Procs, NEW s \in Streams
    PROVE  /\ mirror[p][s] \in Mirrors /\ mirror[p][s].cur \in Nat /\ mirror[p][s].ready \in BOOLEAN
           /\ fetch[p][s] # None => fetch[p][s] \in Fetches /\ fetch[p][s].v \in Nat /\ fetch[p][s].stored \in BOOLEAN
           /\ checkpoint[s] \in Nat /\ source[s] \in Nat /\ projection \in Nat
BY DEF ConsumerTypes, Fetches, Mirrors

LEMMA MirrorFalls ==
    ASSUME NEW m \in Mirrors
    PROVE  /\ [m EXCEPT !.ready = FALSE] \in Mirrors /\ [m EXCEPT !.ready = FALSE].cur = m.cur
           /\ ~[m EXCEPT !.ready = FALSE].ready
BY DEF Mirrors

LEMMA MirrorFills ==
    ASSUME NEW m \in Mirrors, NEW v \in Nat
    PROVE  /\ [m EXCEPT !.cur = v, !.ready = TRUE] \in Mirrors /\ [m EXCEPT !.cur = v, !.ready = TRUE].cur = v
BY DEF Mirrors

LEMMA FetchForms ==
    ASSUME NEW f \in Fetches
    PROVE  /\ [f EXCEPT !.stored = TRUE] \in Fetches /\ [f EXCEPT !.stored = TRUE].v = f.v
           /\ [f EXCEPT !.stored = TRUE].stored
BY DEF Fetches

LEMMA RosterKeeps == ASSUME ConsumerInv, NEW p \in Procs, applyOwnerSnapshot(p) \/ applyRoster(p) PROVE ConsumerInv'
<1>0. /\ "roster" \in Streams /\ "config" \in Streams /\ ConsumerTypes /\ fetch[p]["roster"] # None
      /\ fetch[p]["roster"] \in Fetches /\ fetch[p]["roster"].v \in Nat /\ fetch[p]["roster"].stored \in BOOLEAN
      /\ mirror[p]["roster"] \in Mirrors
      /\ UNCHANGED source
  BY MirrorTypes DEF ConsumerInv, Streams, applyOwnerSnapshot, applyRoster
<1> DEFINE v == fetch[p]["roster"].v
<1>1. CASE applyOwnerSnapshot(p) /\ NotOlder(v)
  <2>0. /\ projection' = v /\ checkpoint' = [checkpoint EXCEPT !["roster"] = v] /\ UNCHANGED mirror
        /\ fetch' = [fetch EXCEPT ![p]["roster"] = [fetch[p]["roster"] EXCEPT !.stored = TRUE]]
    BY <1>1 DEF applyOwnerSnapshot
  <2>1. v >= projection /\ checkpoint["roster"] <= projection /\ projection \in Nat /\ checkpoint["roster"] \in Nat
    BY <1>1, <1>0, MirrorTypes DEF ConsumerInv, NotOlder, ConsumerTypes
  <2>2. /\ checkpoint'["roster"] = v /\ checkpoint'["config"] = checkpoint["config"] /\ checkpoint' \in [Streams -> Nat]
    BY <2>0, <1>0, MirrorFalls, MirrorFills DEF ConsumerTypes
  <2>3. [fetch[p]["roster"] EXCEPT !.stored = TRUE] \in Fetches /\ [fetch[p]["roster"] EXCEPT !.stored = TRUE].v = v
    BY <1>0, FetchForms
  <2>4. /\ fetch'[p]["config"] = fetch[p]["config"] /\ fetch'[p]["roster"].v = v
        /\ \A q \in Procs \ {p} : fetch'[q] = fetch[q]
    BY <2>0, <2>3, <1>0 DEF ConsumerTypes
  <2>5. ConsumerTypes'
    BY <2>0, <2>2, <2>3, <1>0 DEF ConsumerTypes
  <2>6. \A q \in Procs : MirrorOK(q)'
    <3> SUFFICES ASSUME NEW q \in Procs PROVE MirrorOK(q)'
      OBVIOUS
    <3>1. MirrorOK(q) /\ mirror[q]["roster"].cur \in Nat
      BY <1>0, MirrorTypes DEF ConsumerInv
    <3>2. fetch[q]["roster"] # None => fetch[q]["roster"].v \in Nat
      BY <1>0, MirrorTypes
    <3>3. CASE q = p
      BY <3>3, <2>0, <2>1, <2>2, <2>4, <3>1, <1>0 DEF MirrorOK
    <3>4. CASE q # p
      BY <3>4, <2>0, <2>1, <2>2, <2>4, <3>1, <3>2, <1>0 DEF MirrorOK
    <3> QED BY <3>3, <3>4
  <2> QED BY <2>0, <2>2, <2>5, <2>6, <1>0 DEF ConsumerInv
<1>2. CASE applyOwnerSnapshot(p) /\ ~NotOlder(v)
  <2>0. /\ mirror' = [mirror EXCEPT ![p]["roster"] = [mirror[p]["roster"] EXCEPT !.ready = FALSE]]
        /\ fetch' = [fetch EXCEPT ![p]["roster"] = None] /\ UNCHANGED <<projection, checkpoint>>
    BY <1>2 DEF applyOwnerSnapshot, Recover
  <2>1. /\ mirror'[p]["config"] = mirror[p]["config"] /\ mirror'[p]["roster"].cur = mirror[p]["roster"].cur
        /\ fetch'[p]["config"] = fetch[p]["config"] /\ fetch'[p]["roster"] = None
        /\ \A q \in Procs \ {p} : fetch'[q] = fetch[q] /\ mirror'[q] = mirror[q]
    BY <2>0, <1>0, MirrorFalls, MirrorFills DEF ConsumerTypes
  <2>2. ConsumerTypes'
    BY <2>0, <1>0, MirrorFalls, MirrorFills DEF ConsumerTypes
  <2> QED BY <2>0, <2>1, <2>2 DEF ConsumerInv, MirrorOK
<1>3. CASE applyRoster(p)
  <2>0. /\ UNCHANGED <<projection, checkpoint>> /\ fetch[p]["roster"].stored
        /\ fetch' = [fetch EXCEPT ![p]["roster"] = None]
        /\ \/ mirror' = [mirror EXCEPT ![p]["roster"] = [mirror[p]["roster"] EXCEPT !.cur = v, !.ready = TRUE]]
           \/ mirror' = [mirror EXCEPT ![p]["roster"] = [mirror[p]["roster"] EXCEPT !.ready = FALSE]]
    BY <1>3, <1>0 DEF applyRoster, Recover, Filled, ConsumerTypes
  <2>00. PICK m \in Mirrors : m.cur \in {mirror[p]["roster"].cur, v} /\ mirror' = [mirror EXCEPT ![p]["roster"] = m]
    BY <2>0, <1>0, MirrorFalls, MirrorFills
  <2>1. /\ mirror'[p]["config"] = mirror[p]["config"] /\ mirror'[p]["roster"].cur \in {mirror[p]["roster"].cur, v}
        /\ fetch'[p]["config"] = fetch[p]["config"] /\ fetch'[p]["roster"] = None
        /\ \A q \in Procs \ {p} : fetch'[q] = fetch[q] /\ mirror'[q] = mirror[q]
    BY <2>0, <2>00, <1>0 DEF ConsumerTypes
  <2>2. ConsumerTypes'
    BY <2>0, <2>00, <1>0 DEF ConsumerTypes
  <2>3. MirrorOK(p)'
    BY <2>0, <2>1, <1>0 DEF ConsumerInv, MirrorOK
  <2> QED BY <2>0, <2>1, <2>2, <2>3 DEF ConsumerInv, MirrorOK
<1> QED BY <1>1, <1>2, <1>3

LEMMA ConfigKeeps == ASSUME ConsumerInv, NEW p \in Procs, applyConfig(p) \/ saveCheckpoint(p) PROVE ConsumerInv'
<1>0. /\ "roster" \in Streams /\ "config" \in Streams /\ ConsumerTypes /\ fetch[p]["config"] # None
      /\ fetch[p]["config"] \in Fetches /\ fetch[p]["config"].v \in Nat /\ fetch[p]["config"].stored \in BOOLEAN
      /\ mirror[p]["config"] \in Mirrors
      /\ UNCHANGED <<source, projection>>
  BY MirrorTypes DEF ConsumerInv, Streams, applyConfig, saveCheckpoint
<1> DEFINE v == fetch[p]["config"].v
<1>1. CASE applyConfig(p) /\ v >= mirror[p]["config"].cur
  <2>0. /\ UNCHANGED checkpoint
        /\ mirror' = [mirror EXCEPT ![p]["config"] = [mirror[p]["config"] EXCEPT !.cur = v, !.ready = TRUE]]
        /\ fetch' = [fetch EXCEPT ![p]["config"] = [fetch[p]["config"] EXCEPT !.stored = TRUE]]
    BY <1>1, <1>0, ZenonT(30) DEF applyConfig, Filled, ConsumerTypes
  <2>1. /\ [fetch[p]["config"] EXCEPT !.stored = TRUE] \in Fetches
        /\ [fetch[p]["config"] EXCEPT !.stored = TRUE].v = v /\ [fetch[p]["config"] EXCEPT !.stored = TRUE].stored
    BY <1>0, FetchForms
  <2>2. /\ mirror'[p]["roster"] = mirror[p]["roster"] /\ mirror'[p]["config"].cur = v
        /\ fetch'[p]["roster"] = fetch[p]["roster"] /\ fetch'[p]["config"] \in Fetches
        /\ fetch'[p]["config"].v = v /\ fetch'[p]["config"].stored
        /\ \A q \in Procs \ {p} : fetch'[q] = fetch[q] /\ mirror'[q] = mirror[q]
    <3>1. mirror'[p]["roster"] = mirror[p]["roster"] /\ \A q \in Procs \ {p} : mirror'[q] = mirror[q]
      BY <2>0, <1>0, ZenonT(30) DEF ConsumerTypes
    <3>2. mirror'[p]["config"].cur = v
      BY <2>0, <1>0, MirrorFills, ZenonT(30) DEF ConsumerTypes
    <3>3. fetch'[p]["config"] = [fetch[p]["config"] EXCEPT !.stored = TRUE]
      BY <2>0, <1>0, ZenonT(30) DEF ConsumerTypes
    <3>4. fetch'[p]["roster"] = fetch[p]["roster"] /\ \A q \in Procs \ {p} : fetch'[q] = fetch[q]
      BY <2>0, <1>0, ZenonT(30) DEF ConsumerTypes
    <3> HIDE DEF v
    <3>5. fetch'[p]["config"] \in Fetches /\ fetch'[p]["config"].v = v /\ fetch'[p]["config"].stored
      BY <2>1, <3>3, ZenonT(30)
    <3> QED BY <3>1, <3>2, <3>4, <3>5, ZenonT(30)
  <2>3. fetch'[p]["config"] # None
    BY <2>2, FactAssumption DEF Fetches
  <2>4. ConsumerTypes'
    BY <2>0, <2>1, <1>0, MirrorFalls, MirrorFills, ZenonT(30) DEF ConsumerTypes
  <2> QED BY <2>0, <2>2, <2>3, <2>4, <1>0 DEF ConsumerInv, MirrorOK
<1>2. CASE (applyConfig(p) /\ ~(v >= mirror[p]["config"].cur)) \/ (saveCheckpoint(p) /\ ~(v >= checkpoint["config"]))
  <2>0. /\ UNCHANGED checkpoint
        /\ mirror' = [mirror EXCEPT ![p]["config"] = [mirror[p]["config"] EXCEPT !.ready = FALSE]]
        /\ fetch' = [fetch EXCEPT ![p]["config"] = None]
    BY <1>2, <1>0 DEF applyConfig, saveCheckpoint, Recover
  <2>1. /\ mirror'[p]["roster"] = mirror[p]["roster"] /\ ~mirror'[p]["config"].ready
        /\ fetch'[p]["roster"] = fetch[p]["roster"]
        /\ \A q \in Procs \ {p} : fetch'[q] = fetch[q] /\ mirror'[q] = mirror[q]
    BY <2>0, <1>0, MirrorFalls, MirrorFills, ZenonT(30) DEF ConsumerTypes
  <2>2. ConsumerTypes'
    BY <2>0, <1>0, MirrorFalls, MirrorFills, ZenonT(30) DEF ConsumerTypes
  <2> QED BY <2>0, <2>1, <2>2, <1>0 DEF ConsumerInv, MirrorOK
<1>3. CASE saveCheckpoint(p) /\ v >= checkpoint["config"]
  <2>0. /\ UNCHANGED mirror /\ checkpoint' = [checkpoint EXCEPT !["config"] = v]
        /\ fetch' = [fetch EXCEPT ![p]["config"] = None]
    BY <1>3, <1>0 DEF saveCheckpoint
  <2>1. /\ checkpoint'["config"] = v /\ checkpoint'["roster"] = checkpoint["roster"] /\ checkpoint' \in [Streams -> Nat]
        /\ fetch'[p]["roster"] = fetch[p]["roster"]
        /\ \A q \in Procs \ {p} : fetch'[q] = fetch[q]
    BY <2>0, <1>0, MirrorFalls, MirrorFills DEF ConsumerTypes
  <2>2. ConsumerTypes'
    BY <2>0, <2>1, <1>0, MirrorFalls, MirrorFills DEF ConsumerTypes
  <2>3. \A q \in Procs : MirrorOK(q)'
    <3> SUFFICES ASSUME NEW q \in Procs PROVE MirrorOK(q)'
      OBVIOUS
    <3>1. MirrorOK(q) /\ mirror[q]["config"].cur \in Nat /\ checkpoint["config"] \in Nat
      BY <1>0, MirrorTypes DEF ConsumerInv
    <3>2. CASE q = p
      BY <3>2, <1>3, <2>0, <2>1, <3>1, <1>0 DEF MirrorOK
    <3>3. CASE q # p
      BY <3>3, <1>3, <2>0, <2>1, <3>1, <1>0 DEF MirrorOK
    <3> QED BY <3>2, <3>3
  <2> QED BY <2>0, <2>1, <2>2, <2>3, <1>0 DEF ConsumerInv
<1> QED BY <1>1, <1>2, <1>3 DEF applyConfig, saveCheckpoint

\* A fetch begins, fails or follows a restored checkpoint; the sources and the other targets go on.
LEMMA RefreshKeeps ==
    ASSUME ConsumerInv, NEW p \in Procs, NEW s \in Streams, refreshConsumerStream(p, s) \/ refreshFails(p, s)
    PROVE  ConsumerInv'
<1>0. ConsumerTypes /\ UNCHANGED <<source, checkpoint, projection>> /\ s \in {"roster", "config"}
      /\ "roster" \in Streams /\ "config" \in Streams
  BY DEF ConsumerInv, refreshConsumerStream, refreshFails, Streams
<1>00. mirror[p][s] \in Mirrors
  BY <1>0, MirrorTypes
<1>1. CASE refreshConsumerStream(p, s)
  <2>0. /\ UNCHANGED mirror /\ fetch[p][s] = None
        /\ fetch' = [fetch EXCEPT ![p][s] = [v |-> source[s], stored |-> FALSE]]
    BY <1>1 DEF refreshConsumerStream
  <2>1. [v |-> source[s], stored |-> FALSE] \in Fetches
    BY <1>0 DEF ConsumerTypes, Fetches
  <2>2. /\ ~fetch'[p][s].stored /\ \A r \in Streams \ {s} : fetch'[p][r] = fetch[p][r]
        /\ \A q \in Procs \ {p} : fetch'[q] = fetch[q]
    BY <2>0, <1>0, MirrorFalls, MirrorFills DEF ConsumerTypes
  <2>3. ConsumerTypes'
    BY <2>0, <2>1, <1>0, MirrorFalls, MirrorFills DEF ConsumerTypes
  <2>4. MirrorOK(p)'
    <3>1. CASE s = "roster"
      BY <3>1, <2>0, <2>2, <1>0 DEF ConsumerInv, MirrorOK
    <3>2. CASE s = "config"
      BY <3>2, <2>0, <2>2, <1>0 DEF ConsumerInv, MirrorOK
    <3> QED BY <3>1, <3>2, <1>0
  <2> QED BY <1>0, <2>0, <2>2, <2>3, <2>4 DEF ConsumerInv, MirrorOK
<1>2. CASE refreshFails(p, s)
  <2>0. /\ mirror' = [mirror EXCEPT ![p][s] = [mirror[p][s] EXCEPT !.ready = FALSE]]
        /\ fetch' = [fetch EXCEPT ![p][s] = None]
    BY <1>2 DEF refreshFails, Recover
  <2>1. /\ \A r \in Streams \ {s} : mirror'[p][r] = mirror[p][r] /\ fetch'[p][r] = fetch[p][r]
        /\ ~mirror'[p][s].ready /\ mirror'[p][s].cur = mirror[p][s].cur /\ fetch'[p][s] = None
        /\ \A q \in Procs \ {p} : fetch'[q] = fetch[q] /\ mirror'[q] = mirror[q]
    BY <2>0, <1>0, <1>00, MirrorFalls DEF ConsumerTypes
  <2>2. ConsumerTypes'
    BY <2>0, <1>0, <1>00, MirrorFalls DEF ConsumerTypes
  <2>3. MirrorOK(p)'
    <3>1. CASE s = "roster"
      BY <3>1, <2>0, <2>1, <1>0 DEF ConsumerInv, MirrorOK
    <3>2. CASE s = "config"
      BY <3>2, <2>0, <2>1, <1>0 DEF ConsumerInv, MirrorOK
    <3> QED BY <3>1, <3>2, <1>0
  <2> QED BY <1>0, <2>1, <2>2, <2>3 DEF ConsumerInv, MirrorOK
<1> QED BY <1>1, <1>2

LEMMA RestoreKeeps == ASSUME ConsumerInv, NEW p \in Procs, restoreCheckpoints(p) PROVE ConsumerInv'
<1>1. PICK unread \in SUBSET Streams :
        mirror' = [mirror EXCEPT ![p] = [s \in Streams |->
              [cur |-> IF s \in unread THEN 0 ELSE checkpoint[s], ready |-> FALSE, restored |-> TRUE]]]
  BY DEF restoreCheckpoints
<1>2. UNCHANGED <<source, fetch, checkpoint, projection>> /\ "roster" \in Streams /\ "config" \in Streams /\ ConsumerTypes
  BY DEF restoreCheckpoints, Streams, ConsumerInv
<1>3. /\ mirror'[p]["roster"].cur \in {0, checkpoint["roster"]} /\ ~mirror'[p]["config"].ready
      /\ \A q \in Procs \ {p} : mirror'[q] = mirror[q]
  BY <1>1, <1>2 DEF ConsumerTypes
<1>4. [s \in Streams |-> [cur |-> IF s \in unread THEN 0 ELSE checkpoint[s], ready |-> FALSE, restored |-> TRUE]]
        \in [Streams -> Mirrors]
  BY <1>2 DEF ConsumerTypes, Mirrors
<1>5. ConsumerTypes'
  BY <1>1, <1>2, <1>4 DEF ConsumerTypes
<1>6. checkpoint["roster"] \in Nat
  BY <1>2 DEF ConsumerTypes
<1>7. MirrorOK(p)'
  BY <1>2, <1>3, <1>6 DEF ConsumerInv, MirrorOK
<1> QED BY <1>2, <1>3, <1>5, <1>7 DEF ConsumerInv, MirrorOK

LEMMA EnvironmentKeeps == ASSUME ReadsInv, ReadEnvironment PROVE ReadsInv'
<1>1. UNCHANGED owner /\ OwnerInv /\ ConsumerInv
  BY DEF ReadsInv, ReadEnvironment, OtherTargetApplies, SourceChanges
<1>2. CASE OtherTargetApplies
  <2>1. UNCHANGED <<source, fetch, mirror, checkpoint>> /\ projection' \in Nat /\ projection' >= projection
    BY <1>1, <1>2 DEF OtherTargetApplies, NotOlder, ConsumerInv, ConsumerTypes
  <2>2. checkpoint["roster"] \in Nat /\ projection \in Nat
    BY <1>1, MirrorTypes DEF ConsumerInv, ConsumerTypes, Streams
  <2>3. ConsumerInv'
    BY <1>1, <2>1, <2>2 DEF ConsumerInv, ConsumerTypes, MirrorOK
  <2> QED BY <1>1, <2>3, OwnerStill DEF ReadsInv
<1>3. ASSUME NEW s \in Streams, SourceChanges(s) PROVE ReadsInv'
  <2>1. ConsumerInv'
    BY <1>1, <1>3 DEF SourceChanges, ConsumerInv, ConsumerTypes, MirrorOK
  <2> QED BY <1>1, <2>1, OwnerStill DEF ReadsInv
<1> QED BY <1>2, <1>3 DEF ReadEnvironment

LEMMA ForgetKeeps == ASSUME ReadsInv, NEW p \in Procs, Forget(p) PROVE ReadsInv'
<1>0. /\ OwnerInv /\ ConsumerInv /\ ConsumerTypes /\ UNCHANGED <<runtime, row, api, told, source, checkpoint, projection>>
      /\ "roster" \in Streams /\ "config" \in Streams
      /\ pub' = [pub EXCEPT ![p] = None] /\ observed' = [observed EXCEPT ![p] = NoFact]
      /\ ownerReady' = [ownerReady EXCEPT ![p] = FALSE] /\ asked' = [asked EXCEPT ![p] = None]
      /\ fetch' = [fetch EXCEPT ![p] = [s \in Streams |-> None]]
      /\ mirror' = [mirror EXCEPT ![p] = [s \in Streams |-> Empty]]
  BY DEF ReadsInv, ConsumerInv, Forget, Streams
<1>1. OwnerTypes'
  BY <1>0 DEF OwnerInv, OwnerTypes, Facts, NoFact
<1>2. \A q \in Procs : observed'[q] \in {observed[q], NoFact}
  BY <1>0 DEF OwnerInv, OwnerTypes
<1>3. GenerationsOK'
  BY <1>0, <1>2 DEF OwnerInv, GenerationsOK, Newest, Agree, NoFact, OwnerTypes
<1>4. PublicationOK(p)'
  BY <1>0 DEF OwnerInv, OwnerTypes, PublicationOK
<1>5. \A q \in Procs \ {p} : PublicationOK(q)'
  BY <1>0 DEF OwnerInv, OwnerTypes, PublicationOK
<1>6. OwnerInv'
  BY <1>0, <1>1, <1>3, <1>4, <1>5 DEF OwnerInv, AcknowledgedIsApplied
<1>7. ConsumerTypes'
  BY <1>0 DEF ConsumerTypes, Empty, Mirrors
<1>8. checkpoint["roster"] \in Nat
  BY <1>0 DEF ConsumerTypes
<1>9. MirrorOK(p)'
  BY <1>0, <1>8 DEF ConsumerTypes, MirrorOK, Empty
<1>10. \A q \in Procs \ {p} : MirrorOK(q)'
  BY <1>0 DEF ConsumerInv, ConsumerTypes, MirrorOK
<1> QED BY <1>0, <1>6, <1>7, <1>9, <1>10 DEF ReadsInv, ConsumerInv

LEMMA ReadStepKeeps == ASSUME ReadsInv, NEW p \in Procs, ReadStep(p) PROVE ReadsInv'
<1>0. OwnerInv /\ ConsumerInv
  BY DEF ReadsInv
<1>1. CASE FactChanges(p) \/ publishChanged(p) \/ emit(p) \/ publishFails(p) \/ deliver(p)
  <2>1. UNCHANGED consumer
    BY <1>1 DEF FactChanges, publishChanged, emit, publishFails, deliver
  <2> QED BY <1>0, <1>1, <2>1, PublishKeeps, ConsumerStill DEF ReadsInv
<1>2. CASE observe(p)
  BY <1>0, <1>2, ObserveKeeps, ConsumerStill DEF ReadsInv, observe
<1>3. CASE currentRuntimeSnapshot(p)
  BY <1>0, <1>3, AcknowledgeKeeps, ConsumerStill DEF ReadsInv, currentRuntimeSnapshot
<1>4. CASE applyOwnerSnapshot(p) \/ applyRoster(p)
  BY <1>0, <1>4, RosterKeeps, OwnerStill DEF ReadsInv, applyOwnerSnapshot, applyRoster
<1>5. CASE applyConfig(p) \/ saveCheckpoint(p)
  BY <1>0, <1>5, ConfigKeeps, OwnerStill DEF ReadsInv, applyConfig, saveCheckpoint
<1>6. CASE restoreCheckpoints(p)
  BY <1>0, <1>6, RestoreKeeps, OwnerStill DEF ReadsInv, restoreCheckpoints
<1>7. ASSUME NEW s \in Streams, refreshConsumerStream(p, s) \/ refreshFails(p, s) PROVE ReadsInv'
  BY <1>0, <1>7, RefreshKeeps, OwnerStill DEF ReadsInv, refreshConsumerStream, refreshFails
<1> QED BY <1>1, <1>2, <1>3, <1>4, <1>5, <1>6, <1>7 DEF ReadStep

LEMMA ReadsStill == ASSUME ReadsInv, UNCHANGED reads PROVE ReadsInv'
BY OwnerStill, ConsumerStill DEF ReadsInv, reads, owner, consumer

-----------------------------------------------------------------------------
(* The commands *)

Answers == {"refused", "unknown", "applied", "duplicate", "rejected"}
Holding == {"claimed", "running", "prepared", "drafted", "created", "rejecting"}
CallStates == Holding \cup {"none", "sent", "joined", "applying", "done"}
TaskStates == {"none", "awaiting", "valid", "queued", "loaded", "deciding", "ended", "failed"}
CallRec == [cmd : Cmds \cup {None}, at : Procs \cup {None}, st : CallStates, ver : Nat, ans : Answers \cup {None}]
DraftRec == [ver : Nat, decided : Nat \cup {None}, by : Cmds \cup {None}]

CmdsTypes ==
    /\ call \in [Calls -> CallRec]
    /\ ledger \in [Cmds -> {"none", "in_flight", "applied", "rejected"}]
    /\ inFlight \in [Procs -> [Cmds -> Calls \cup {None}]] /\ receipts \in [Procs -> SUBSET Cmds]
    /\ runs \in [Procs -> [Cmds -> Nat]] /\ half \in [Procs -> [Cmds -> Nat]] /\ left \subseteq Cmds
    /\ task \in [Cmds -> [st : TaskStates, ver : Nat, got : Nat]] /\ draft \in DraftRec

HasRun(c) == \E p \in Procs : runs[p][c] > 0

\* A call that holds the row of a text command has it in flight and has run it only once its task
\* is drafted, or when it rejects a slash command that was left; a call that applies a command from
\* memory is the one the process has in flight.
CallOK(k) ==
    LET c == call[k].cmd
        p == call[k].at
    IN  /\ call[k].st = "none" => call[k].ans = None /\ call[k].at = None
        /\ call[k].st # "none" => c \in Cmds
        /\ call[k].st \in Holding \cup {"applying"} => p \in Procs
        /\ call[k].st \in Holding => Kept(c) /\ ledger[c] = "in_flight"
        /\ call[k].st \in Holding => (HasRun(c) <=> call[k].st \in {"drafted", "created"} \/ c \in left)
        /\ call[k].st \in Holding /\ c \in left => call[k].st = "rejecting"
        /\ call[k].st = "drafted" => KindOf[c] = "slash"
        /\ call[k].st = "applying" => ~Kept(c) /\ inFlight[p][c] = k /\ c \notin receipts[p]
        /\ c \in Cmds /\ Kept(c) =>
              (Ran(call[k].ans) => HasRun(c) /\ c \notin left) /\ (call[k].ans = "rejected" => ledger[c] = "rejected")

HolderIsAlone ==
    \A j, k \in Calls : call[j].st \in Holding /\ call[k].st \in Holding /\ call[j].cmd = call[k].cmd => j = k

\* While a task is drafted and not yet confirmed nobody has heard of it.
NoneTold ==
    \A j, k \in Calls : call[k].st = "drafted" /\ call[j].cmd = call[k].cmd => ~Ran(call[j].ans)

LedgerOK(c) ==
    Kept(c) => /\ ledger[c] \in {"none", "rejected"} /\ HasRun(c) => c \in left
               /\ ledger[c] \in {"none", "applied"} => c \notin left
               /\ ledger[c] = "applied" => HasRun(c)
               /\ \A p, q \in Procs : runs[p][c] > 0 /\ runs[q][c] > 0 => p = q

RunsOK(p, c) ==
    /\ runs[p][c] <= 1 + half[p][c] /\ (Kept(c) => half[p][c] = 0)
    /\ ~Kept(c) /\ c \notin receipts[p] => runs[p][c] = half[p][c]

LedgersOK ==
    /\ (\A c \in Cmds : LedgerOK(c)) /\ (\A p \in Procs, c \in Cmds : RunsOK(p, c))
    /\ \A c \in left : KindOf[c] = "slash"

\* The executor decides for the version the task names.
DecisionOK ==
    /\ \A c \in Cmds : task[c].st \in {"loaded", "deciding"} => task[c].got = task[c].ver
    /\ draft.by # None => task[draft.by].st # "none" /\ draft.decided = task[draft.by].ver

CmdsInv == CmdsTypes /\ (\A k \in Calls : CallOK(k)) /\ HolderIsAlone /\ NoneTold /\ LedgersOK /\ DecisionOK

LEMMA InitCmdsInv == CmdsInit => CmdsInv
<1> SUFFICES ASSUME CmdsInit PROVE CmdsInv
  OBVIOUS
<1>1. CmdsTypes
  BY DEF CmdsInit, CmdsTypes, CallRec, CallStates, Holding, TaskStates, DraftRec
<1>2. \A k \in Calls : CallOK(k)
  BY CallAssumption, NoneAssumption DEF CmdsInit, CallOK, Holding, Ran
<1>3. HolderIsAlone
  BY DEF CmdsInit, HolderIsAlone, Holding
<1>4. LedgersOK
  BY DEF CmdsInit, LedgersOK, LedgerOK, RunsOK, HasRun
<1>5. DecisionOK
  BY DEF CmdsInit, DecisionOK
<1>6. NoneTold
  BY DEF CmdsInit, NoneTold
<1> QED BY <1>1, <1>2, <1>3, <1>4, <1>5, <1>6 DEF CmdsInv

\* The calls and the ledger look only at their own variables, the decision at the task and the draft.
LEMMA CallsStill ==
    ASSUME CmdsInv, UNCHANGED <<call, ledger, inFlight, receipts, runs, half, left>>
    PROVE  (\A k \in Calls : CallOK(k)') /\ HolderIsAlone' /\ NoneTold' /\ LedgersOK'
BY DEF CmdsInv, CallOK, HolderIsAlone, NoneTold, LedgersOK, LedgerOK, RunsOK, HasRun

LEMMA DecisionStill == ASSUME CmdsInv, UNCHANGED <<task, draft>> PROVE DecisionOK'
BY DEF CmdsInv, DecisionOK

\* A call goes on alone: it takes no row and runs nothing; calls that had joined it may get an error,
\* and what another call has in flight in memory stays.
Aside(k) ==
    /\ UNCHANGED <<ledger, receipts, task, draft, runs, half, left>>
    /\ \A j \in Calls \ {k} :
          \/ call'[j] = call[j]
          \/ /\ call[j].st = "joined" /\ call'[j].st = "done" /\ call'[j].cmd = call[j].cmd
             /\ call'[j].ans \in {call[j].ans, "unknown"}
    /\ \A p \in Procs, c \in Cmds : ~Kept(c) => inFlight'[p][c] = inFlight[p][c] \/ inFlight[p][c] \in {k, None}
    /\ call'[k].st \in Holding => call[k].st \in Holding /\ call'[k].cmd = call[k].cmd
    /\ call'[k].st = "drafted" => call[k].st = "drafted"
    /\ \/ Ran(call'[k].ans) => call'[k].ans = call[k].ans /\ call'[k].cmd = call[k].cmd
       \/ ~Kept(call'[k].cmd)
       \/ \E j \in Calls : call[j].st = "created" /\ call[j].cmd = call'[k].cmd
       \/ ledger[call'[k].cmd] = "applied"

LEMMA AsideKeeps == ASSUME CmdsInv, NEW k \in Calls, CmdsTypes', Aside(k), CallOK(k)' PROVE CmdsInv'
<1>1. \A c : HasRun(c)' <=> HasRun(c)
  BY DEF HasRun, Aside
<1>2. ASSUME NEW j \in Calls \ {k} PROVE CallOK(j)'
  <2>0. CallOK(j) /\ call[j] \in CallRec /\ call'[j] \in CallRec
    BY DEF CmdsInv, CmdsTypes
  <2>1. CASE call'[j] = call[j]
    <3>1. call[j].st = "applying" => inFlight'[call[j].at][call[j].cmd] = j
      BY CallAssumption, <2>0 DEF CallOK, Aside, Holding
    <3> QED BY <1>1, <2>0, <2>1, <3>1 DEF CallOK, Aside
  <2>2. CASE call'[j] # call[j]
    BY <1>1, <2>0, <2>2 DEF CallOK, Aside, Holding, Ran
  <2> QED BY <2>1, <2>2
<1>3. HolderIsAlone'
  <2>1. \A j \in Calls : call'[j].st \in Holding => call[j].st \in Holding /\ call'[j].cmd = call[j].cmd
    BY DEF Aside, Holding
  <2> QED BY <2>1 DEF CmdsInv, HolderIsAlone
<1>4. LedgersOK'
  BY DEF CmdsInv, LedgersOK, LedgerOK, RunsOK, HasRun, Aside
<1>5. NoneTold'
  <2> SUFFICES ASSUME NEW i \in Calls, NEW j \in Calls, call'[i].st = "drafted", call'[j].cmd = call'[i].cmd
               PROVE  ~Ran(call'[j].ans)
    BY DEF NoneTold
  <2>1. call[i].st = "drafted" /\ call'[i].cmd = call[i].cmd
    BY DEF Aside, Holding
  <2>2. \A h \in Calls : call[h].cmd = call[i].cmd => ~Ran(call[h].ans)
    BY <2>1 DEF CmdsInv, NoneTold
  <2>3. CASE j # k
    BY <2>1, <2>2, <2>3 DEF Aside, Ran
  <2>4. CASE j = k
    <3>1. Kept(call[i].cmd) /\ ledger[call[i].cmd] = "in_flight"
      BY <2>1 DEF CmdsInv, CallOK, Holding
    <3>2. ~\E h \in Calls : call[h].st = "created" /\ call[h].cmd = call[i].cmd
      BY <2>1 DEF CmdsInv, HolderIsAlone, Holding
    <3> QED BY <2>1, <2>2, <2>4, <3>1, <3>2 DEF Aside
  <2> QED BY <2>3, <2>4
<1> QED BY <1>2, <1>3, <1>4, <1>5, DecisionStill DEF CmdsInv, Aside

\* An answer: the first one the client gets stays.
LEMMA Answering ==
    ASSUME NEW r \in CallRec, NEW ans \in Answers
    PROVE  /\ [r EXCEPT !.st = "done", !.ans = IF @ = None THEN ans ELSE @] \in CallRec
           /\ [r EXCEPT !.st = "done", !.ans = IF @ = None THEN ans ELSE @].st = "done"
           /\ [r EXCEPT !.st = "done", !.ans = IF @ = None THEN ans ELSE @].cmd = r.cmd
           /\ [r EXCEPT !.st = "done", !.ans = IF @ = None THEN ans ELSE @].ans \in {r.ans, ans}
BY DEF CallRec, CallStates

\* A call that stays as it is, while the ledger and the executions go on beside it.
LEMMA SameCall ==
    ASSUME NEW j \in Calls, NEW d, d = call[j].cmd, CallOK(j), call'[j] = call[j],
           call[j].st \in Holding => ledger'[d] = ledger[d] /\ (HasRun(d)' <=> HasRun(d)) /\ (d \in left' <=> d \in left),
           d \in Cmds /\ Kept(d) => (HasRun(d) => HasRun(d)') /\ (d \in left' /\ Ran(call[j].ans) => d \in left) /\ (ledger[d] = "rejected" => ledger'[d] = "rejected"),
           call[j].st = "applying" => inFlight'[call[j].at][d] = j /\ d \notin receipts'[call[j].at]
    PROVE  CallOK(j)'
BY DEF CallOK, Ran

\* Calls that had joined a call that ends.
LEMMA JoinedCalls ==
    ASSUME CmdsTypes, NEW k \in Calls, NEW ans \in Answers, call[k].st # "joined"
    PROVE  /\ AnswerJoined(k, ans) \in [Calls -> CallRec] /\ AnswerJoined(k, ans)[k] = call[k]
           /\ \A j \in Calls \ {k} :
                \/ AnswerJoined(k, ans)[j] = call[j]
                \/ /\ call[j].st = "joined" /\ call[j].cmd = call[k].cmd
                   /\ AnswerJoined(k, ans)[j].st = "done" /\ AnswerJoined(k, ans)[j].cmd = call[j].cmd
                   /\ AnswerJoined(k, ans)[j].ans \in {call[j].ans, ans}
<1> DEFINE Done(j) == [call[j] EXCEPT !.st = "done", !.ans = IF @ = None THEN ans ELSE @]
<1>1. ASSUME NEW j \in Calls
      PROVE  Done(j) \in CallRec /\ Done(j).st = "done" /\ Done(j).cmd = call[j].cmd /\ Done(j).ans \in {call[j].ans, ans}
  <2>1. call[j] \in CallRec
    BY DEF CmdsTypes
  <2> QED BY <2>1, Answering, ZenonT(30)
<1>2. AnswerJoined(k, ans) = [j \in Calls |-> IF j \in Joined(k) THEN Done(j) ELSE call[j]]
  BY DEF AnswerJoined
<1> HIDE DEF Done
<1>3. \A j \in Joined(k) : j \in Calls \ {k} /\ call[j].st = "joined" /\ call[j].cmd = call[k].cmd
  BY DEF Joined
<1>4. AnswerJoined(k, ans) \in [Calls -> CallRec]
  BY <1>1, <1>2 DEF CmdsTypes
<1>5. AnswerJoined(k, ans)[k] = call[k]
  BY <1>2, <1>3
<1>6. ASSUME NEW j \in Calls \ {k}
      PROVE  \/ AnswerJoined(k, ans)[j] = call[j]
             \/ /\ call[j].st = "joined" /\ call[j].cmd = call[k].cmd
                /\ AnswerJoined(k, ans)[j].st = "done" /\ AnswerJoined(k, ans)[j].cmd = call[j].cmd
                /\ AnswerJoined(k, ans)[j].ans \in {call[j].ans, ans}
  BY <1>1, <1>2, <1>3
<1> HIDE DEF AnswerJoined
<1> QED BY <1>4, <1>5, <1>6

\* The end of a run in memory or in the ledger touches the entry of its own call.
LEMMA LeaveOnly ==
    ASSUME CmdsTypes, NEW k \in Calls, Leave(k), call[k].at \in Procs, call[k].cmd \in Cmds
    PROVE  /\ inFlight' \in [Procs -> [Cmds -> Calls \cup {None}]]
           /\ \A p \in Procs, c \in Cmds : inFlight'[p][c] = inFlight[p][c] \/ inFlight[p][c] = k
<1> DEFINE p == call[k].at
           c == call[k].cmd
           w == IF inFlight[p][c] = k THEN None ELSE inFlight[p][c]
<1>1. inFlight \in [Procs -> [Cmds -> Calls \cup {None}]] /\ w \in Calls \cup {None}
      /\ inFlight' = [inFlight EXCEPT ![p][c] = w]
  BY DEF CmdsTypes, Leave
<1>2. inFlight[p][c] = k \/ w = inFlight[p][c]
  OBVIOUS
<1> HIDE DEF w
<1> QED BY <1>1, <1>2, SetEntry

\* Sending, refusals before the handler, a broken receipt and a client that gives up.
LEMMA OutsideKeeps ==
    ASSUME CmdsInv, NEW k \in Calls,
           \/ \E c \in Cmds : Send(k, c)
           \/ \E p \in Procs : RefusedBefore(k, p)
           \/ badReceipt(k) \/ request(k)
    PROVE  CmdsInv'
<1>0. UNCHANGED <<ledger, inFlight, receipts, task, draft, runs, half, left>> /\ CmdsTypes /\ call[k] \in CallRec /\ CallOK(k)
  BY DEF CmdsInv, CmdsTypes, Send, RefusedBefore, badReceipt, request
<1>1. PICK r \in CallRec :
        /\ call' = [call EXCEPT ![k] = r]
        /\ \/ r.st \notin Holding \cup {"none", "applying"} /\ r.cmd \in Cmds
           \/ r.st = call[k].st /\ r.cmd = call[k].cmd /\ r.at = call[k].at
        /\ r.st = "none" => call[k].ans = r.ans
        /\ r.ans \in {"refused", "unknown", None} \/ (r.ans = call[k].ans /\ r.cmd = call[k].cmd)
  <2>1. ASSUME NEW c \in Cmds, Send(k, c) PROVE \E r \in CallRec :
        /\ call' = [call EXCEPT ![k] = r]
        /\ r.st = "sent" /\ r.cmd = c /\ r.ans = None
    <3>1. call' = [call EXCEPT ![k] = [call[k] EXCEPT !.cmd = c, !.st = "sent"]] /\ call[k].ans = None
      BY <1>0, <2>1 DEF Send, CmdsTypes, CallOK
    <3>2. [call[k] EXCEPT !.cmd = c, !.st = "sent"] \in CallRec
      BY <1>0 DEF CallRec, CallStates
    <3> QED BY <1>0, <3>1, <3>2 DEF CallRec
  <2>2. ASSUME NEW p \in Procs, RefusedBefore(k, p) PROVE \E r \in CallRec :
        /\ call' = [call EXCEPT ![k] = r]
        /\ r.st = "done" /\ r.cmd = call[k].cmd /\ r.cmd \in Cmds /\ r.ans \in {"refused", call[k].ans}
    <3>1. call' = [call EXCEPT ![k] = [call[k] EXCEPT !.st = "done", !.ans = IF @ = None THEN "refused" ELSE @]]
      BY <1>0, <2>2 DEF RefusedBefore, Settle, CmdsTypes
    <3>2. [call[k] EXCEPT !.st = "done", !.ans = IF @ = None THEN "refused" ELSE @] \in CallRec
      BY <1>0 DEF CallRec, CallStates, Answers
    <3> QED BY <1>0, <2>2, <3>1, <3>2 DEF CallRec, RefusedBefore, CallOK
  <2>3. ASSUME badReceipt(k) \/ request(k) PROVE \E r \in CallRec :
        /\ call' = [call EXCEPT ![k] = r]
        /\ r.st = call[k].st /\ r.cmd = call[k].cmd /\ r.at = call[k].at /\ r.ans = "unknown" /\ r.st # "none"
    <3>1. call' = [call EXCEPT ![k] = [call[k] EXCEPT !.ans = "unknown"]] /\ call[k].st # "none"
      BY <1>0, <2>3 DEF badReceipt, request, CmdsTypes
    <3>2. [call[k] EXCEPT !.ans = "unknown"] \in CallRec
      BY <1>0 DEF CallRec, Answers
    <3> QED BY <1>0, <3>1, <3>2 DEF CallRec
  <2> QED BY <2>1, <2>2, <2>3 DEF Holding
<1>2. CmdsTypes'
  BY <1>0, <1>1 DEF CmdsTypes
<1>3. call'[k] = r /\ \A j \in Calls \ {k} : call'[j] = call[j]
  BY <1>0, <1>1 DEF CmdsTypes
<1>4. Aside(k)
  <2>1. \A p \in Procs, d \in Cmds : inFlight'[p][d] = inFlight[p][d]
    BY <1>0
  <2>2. /\ call'[k].st \in Holding => call[k].st \in Holding /\ call'[k].cmd = call[k].cmd
        /\ call'[k].st = "drafted" => call[k].st = "drafted"
    BY <1>1, <1>3 DEF Holding
  <2>3. Ran(call'[k].ans) => call'[k].ans = call[k].ans /\ call'[k].cmd = call[k].cmd
    BY <1>1, <1>3, CallAssumption DEF Ran
  <2> QED BY <1>0, <1>3, <2>1, <2>2, <2>3 DEF Aside
<1>5. CallOK(k)'
  BY <1>0, <1>1, <1>3, CallAssumption DEF CallOK, HasRun, Ran, Holding
<1> QED BY <1>2, <1>4, <1>5, AsideKeeps

LEMMA CallsOf == ASSUME CmdsInv, NEW k \in Calls PROVE CmdsTypes /\ call[k] \in CallRec /\ CallOK(k)
BY DEF CmdsInv, CmdsTypes

\* A claim wins the free row, or takes its answer from a row that is there.
LEMMA ClaimKeeps == ASSUME CmdsInv, NEW k \in Calls, NEW p \in Procs, claim(k, p) PROVE CmdsInv'
<1> DEFINE c == call[k].cmd
<1>0. /\ CmdsTypes /\ call[k] \in CallRec /\ CallOK(k) /\ call[k].st = "sent" /\ c \in Cmds /\ Kept(c)
      /\ UNCHANGED <<inFlight, receipts, task, draft, runs, half, left>>
  BY CallsOf DEF claim, CallOK
<1>1. CASE ledger' = ledger
  <2>1. PICK r \in CallRec :
          /\ call' = [call EXCEPT ![k] = r] /\ r.cmd = c /\ r.st \in {"done", "joined"}
          /\ r.ans \in {"refused", "unknown", call[k].ans}
             \/ (r.ans = "duplicate" /\ (ledger[c] = "applied" \/ \E j \in Calls : call[j].st = "created" /\ call[j].cmd = c))
             \/ (r.ans = "rejected" /\ ledger[c] = "rejected")
    <3> DEFINE S(st, ans) == [call[k] EXCEPT !.st = st, !.ans = IF @ = None THEN ans ELSE @]
    <3>1. \A ans \in Answers : S("done", ans) \in CallRec /\ S("done", ans).cmd = c /\ S("done", ans).st = "done"
                               /\ S("done", ans).ans \in {ans, call[k].ans}
      BY <1>0 DEF CallRec, CallStates
    <3>2. \A ans : Settle(k, "done", ans) = [call EXCEPT ![k] = S("done", ans)]
      BY <1>0 DEF Settle, CmdsTypes
    <3> DEFINE J == [call[k] EXCEPT !.st = "joined", !.at = p]
    <3>3. J \in CallRec /\ J.cmd = c /\ J.st = "joined" /\ J.ans = call[k].ans
          /\ [call EXCEPT ![k].st = "joined", ![k].at = p] = [call EXCEPT ![k] = J]
      BY <1>0 DEF CallRec, CallStates, CmdsTypes
    <3> HIDE DEF S, J
    <3>5. \/ call' = Settle(k, "done", "refused") \/ call' = Settle(k, "done", "unknown")
          \/ call' = [call EXCEPT ![k].st = "joined", ![k].at = p]
          \/ (call' = Settle(k, "done", "duplicate") /\ ledger[c] = "applied")
          \/ (call' = Settle(k, "done", "duplicate") /\ \E j \in Calls : call[j].st = "created" /\ call[j].cmd = c)
          \/ (call' = Settle(k, "done", "rejected") /\ ledger[c] = "rejected")
      <4>1. ~(Claims(c) /\ ledgerUp[p])
        BY <1>0, <1>1 DEF claim, Claims, CmdsTypes
      <4>2. Resolved(p, c) => \E j \in Calls : call[j].st = "created" /\ call[j].cmd = c
        BY DEF Resolved
      <4> QED BY <4>1, <4>2 DEF claim, Existing
    <3> QED BY <3>1, <3>2, <3>3, <3>5 DEF Answers
  <2>2. CmdsTypes'
    BY <1>0, <1>1, <2>1 DEF CmdsTypes
  <2>3. call'[k] = r /\ \A j \in Calls \ {k} : call'[j] = call[j]
    BY <1>0, <2>1 DEF CmdsTypes
  <2>4. Aside(k)
    BY <1>0, <1>1, <2>1, <2>3 DEF Ran, Aside, Holding
  <2>5. LedgerOK(c)
    BY <1>0 DEF CmdsInv, LedgersOK
  <2>50. ASSUME NEW j \in Calls, call[j].st = "created", call[j].cmd = c PROVE HasRun(c) /\ c \notin left
    BY <1>0, <2>50, CallsOf DEF CallOK, Holding
  <2>6. CallOK(k)'
    BY <1>0, <1>1, <2>1, <2>3, <2>5, <2>50 DEF CallOK, HasRun, Ran, Holding, LedgerOK
  <2> QED BY <2>2, <2>4, <2>6, AsideKeeps
<1>2. CASE ledger' # ledger
  <2>0. /\ ledger[c] = "none" /\ ledger' = [ledger EXCEPT ![c] = "in_flight"]
        /\ call' = [call EXCEPT ![k] = [call[k] EXCEPT !.st = "claimed", !.at = p]]
    BY <1>0, <1>2 DEF claim, Claims, CmdsTypes
  <2>1. /\ [call[k] EXCEPT !.st = "claimed", !.at = p] \in CallRec
        /\ call'[k] = [call[k] EXCEPT !.st = "claimed", !.at = p]
        /\ call'[k].st = "claimed" /\ call'[k].at = p /\ call'[k].cmd = c /\ call'[k].ans = call[k].ans
        /\ \A j \in Calls \ {k} : call'[j] = call[j]
        /\ ledger'[c] = "in_flight" /\ \A d \in Cmds \ {c} : ledger'[d] = ledger[d]
    BY <1>0, <2>0 DEF CallRec, CallStates, Holding, CmdsTypes
  <2>2. CmdsTypes'
    BY <1>0, <2>0, <2>1 DEF CmdsTypes
  <2>3. \A d : HasRun(d)' <=> HasRun(d)
    BY <1>0 DEF HasRun
  <2>4. LedgerOK(c) /\ ~HasRun(c) /\ c \notin left
    BY <1>0, <2>0 DEF CmdsInv, LedgersOK, LedgerOK
  <2>5. CallOK(k)'
    BY <1>0, <2>0, <2>1, <2>3, <2>4 DEF CallOK, Holding
  <2>6. ASSUME NEW j \in Calls \ {k} PROVE CallOK(j)'
    <3>1. CallOK(j) /\ call[j] \in CallRec
      BY CallsOf
    <3> QED BY <1>0, <2>0, <2>1, <2>3, <3>1 DEF CallOK, CallRec
  <2>7. HolderIsAlone'
    <3>1. \A j \in Calls \ {k} : call[j].st \in Holding => call[j].cmd # c
      BY <2>0, CallsOf DEF CallOK
    <3>2. \A i, j \in Calls \ {k} :
            call'[i].st \in Holding /\ call'[j].st \in Holding /\ call'[i].cmd = call'[j].cmd => i = j
      BY <2>1 DEF CmdsInv, HolderIsAlone
    <3>3. \A j \in Calls \ {k} : call'[j].st \in Holding => call'[j].cmd # call'[k].cmd
      BY <2>1, <3>1
    <3> QED BY <3>2, <3>3 DEF HolderIsAlone
  <2>8. LedgersOK'
    BY <1>0, <2>0, <2>1, <2>3 DEF CmdsInv, LedgersOK, LedgerOK, RunsOK
  <2>9. NoneTold'
    <3>1. \A j \in Calls : call'[j].cmd = call[j].cmd /\ call'[j].ans = call[j].ans /\ (call'[j].st = "drafted" => call[j].st = "drafted")
      BY <2>1
    <3> QED BY <3>1 DEF CmdsInv, NoneTold
  <2> QED BY <1>0, <2>2, <2>5, <2>6, <2>7, <2>8, <2>9, DecisionStill DEF CmdsInv
<1> QED BY <1>1, <1>2

\* Inside a run: it enters inFlight, reads the candidate, is refused or breaks off.
LEMMA RunKeeps ==
    ASSUME CmdsInv, NEW k \in Calls,
           runText(k) \/ prepareTarget(k) \/ createRefused(k) \/ (runFails(k) /\ UNCHANGED <<task, runs>>)
    PROVE  CmdsInv'
<1> DEFINE c == call[k].cmd
<1>0. /\ CmdsTypes /\ call[k] \in CallRec /\ CallOK(k) /\ call[k].st \in Holding /\ c \in Cmds /\ Kept(c)
      /\ call[k].at \in Procs /\ UNCHANGED <<ledger, receipts, task, draft, runs, half, left>>
  BY CallsOf DEF runText, prepareTarget, createRefused, runFails, CallOK, Holding
<1>1. CASE runText(k) \/ prepareTarget(k) \/ createRefused(k)
  <2>1. PICK r \in CallRec :
          /\ call' = [call EXCEPT ![k] = r] /\ r.cmd = c /\ r.at = call[k].at /\ r.ans = call[k].ans
          /\ r.st \in {"running", "prepared", "rejecting"} /\ call[k].st \in {"claimed", "running", "prepared"}
    <3>1. ASSUME runText(k) PROVE call' = [call EXCEPT ![k] = [call[k] EXCEPT !.st = "running"]]
      BY <1>0, <3>1 DEF runText, CmdsTypes
    <3>2. ASSUME prepareTarget(k)
          PROVE  \/ call' = [call EXCEPT ![k] = [call[k] EXCEPT !.st = "prepared", !.ver = draft.ver]]
                 \/ call' = [call EXCEPT ![k] = [call[k] EXCEPT !.st = "rejecting"]]
      BY <1>0, <3>2 DEF prepareTarget, CmdsTypes
    <3>3. ASSUME createRefused(k) PROVE call' = [call EXCEPT ![k] = [call[k] EXCEPT !.st = "rejecting"]]
      BY <1>0, <3>3 DEF createRefused, CmdsTypes
    <3>4. /\ [call[k] EXCEPT !.st = "running"] \in CallRec /\ [call[k] EXCEPT !.st = "rejecting"] \in CallRec
          /\ [call[k] EXCEPT !.st = "prepared", !.ver = draft.ver] \in CallRec
      BY <1>0 DEF CallRec, CallStates, Holding, CmdsTypes, DraftRec
    <3>5. call[k].st \in {"claimed", "running", "prepared"}
      BY <1>1 DEF runText, prepareTarget, createRefused
    <3> QED BY <1>0, <1>1, <3>1, <3>2, <3>3, <3>4, <3>5 DEF CallRec
  <2>2. inFlight' \in [Procs -> [Cmds -> Calls \cup {None}]]
        /\ \A q \in Procs, d \in Cmds : ~Kept(d) => inFlight'[q][d] = inFlight[q][d]
    <3>1. CASE runText(k)
      <4>1. inFlight' = [inFlight EXCEPT ![call[k].at][c] = k]
        BY <3>1 DEF runText
      <4> HIDE DEF c
      <4> QED BY <1>0, <4>1, SetEntry DEF CmdsTypes
    <3>2. CASE prepareTarget(k) \/ createRefused(k)
      BY <1>0, <3>2 DEF prepareTarget, createRefused, CmdsTypes
    <3> QED BY <1>1, <3>1, <3>2
  <2>3. CmdsTypes'
    BY <1>0, <2>1, <2>2 DEF CmdsTypes
  <2>4. call'[k] = r /\ \A j \in Calls \ {k} : call'[j] = call[j]
    BY <1>0, <2>1 DEF CmdsTypes
  <2>5. Aside(k)
    BY <1>0, <2>1, <2>2, <2>4 DEF Aside
  <2>6. CallOK(k)'
    BY <1>0, <2>1, <2>4 DEF CallOK, HasRun, Holding
  <2> QED BY <2>3, <2>5, <2>6, AsideKeeps
<1>2. CASE runFails(k)
  <2> DEFINE A == AnswerJoined(k, "unknown")
  <2>1. /\ A \in [Calls -> CallRec] /\ A[k] = call[k]
        /\ \A j \in Calls \ {k} :
              \/ A[j] = call[j]
              \/ /\ call[j].st = "joined" /\ A[j].st = "done" /\ A[j].cmd = call[j].cmd
                 /\ A[j].ans \in {call[j].ans, "unknown"}
    BY <1>0, JoinedCalls DEF Answers, Holding
  <2>2. call' = [A EXCEPT ![k] = [A[k] EXCEPT !.st = "done", !.ans = IF @ = None THEN "unknown" ELSE @]] /\ Leave(k)
    BY <1>2, <2>1 DEF runFails
  <2> HIDE DEF A
  <2>3. [call[k] EXCEPT !.st = "done", !.ans = IF @ = None THEN "unknown" ELSE @] \in CallRec
    BY <1>0 DEF CallRec, CallStates, Answers
  <2>4. /\ call'[k].st = "done" /\ call'[k].cmd = c /\ call'[k].ans \in {call[k].ans, "unknown"}
        /\ call' \in [Calls -> CallRec] /\ \A j \in Calls \ {k} : call'[j] = A[j]
    BY <1>0, <2>1, <2>2, <2>3 DEF CallRec
  <2>5. CmdsTypes'
    BY <1>0, <2>2, <2>4, LeaveOnly DEF CmdsTypes
  <2>6. Aside(k)
    BY <1>0, <2>1, <2>2, <2>4, LeaveOnly DEF Ran, Aside, Holding
  <2>7. CallOK(k)'
    BY <1>0, <2>4 DEF CallOK, HasRun, Ran, Holding
  <2> QED BY <2>5, <2>6, <2>7, AsideKeeps
<1> QED BY <1>1, <1>2

\* The task is drafted: the one execution of the command, by the one call that holds its row.  It goes
\* on, ends with its task, or breaks off.
LEMMA DraftedKeeps ==
    ASSUME CmdsInv, NEW k \in Calls, call[k].st = "prepared", Drafted(k), CmdsTypes',
           UNCHANGED <<ledger, receipts, draft, half, left>>,
           \A q \in Procs, d \in Cmds : inFlight'[q][d] = inFlight[q][d] \/ inFlight[q][d] = k,
           call'[k].cmd = call[k].cmd, call'[k].at = call[k].at, call'[k].ans \in {call[k].ans, "unknown"},
           call'[k].st \in {"created", "drafted", "done"}, call'[k].st = "drafted" => KindOf[call[k].cmd] = "slash",
           \A j \in Calls \ {k} :
              \/ call'[j] = call[j]
              \/ /\ call[j].st = "joined" /\ call[j].cmd = call[k].cmd /\ call'[j].st = "done" /\ call'[j].cmd = call[k].cmd
                 /\ call'[j].ans \in {call[j].ans, "unknown", "duplicate"} /\ call'[k].st # "drafted"
    PROVE  CmdsInv'
<1> DEFINE c == call[k].cmd
           p == call[k].at
<1>0. /\ CmdsTypes /\ call[k] \in CallRec /\ CallOK(k) /\ c \in Cmds /\ Kept(c)
      /\ p \in Procs /\ ledger[c] = "in_flight" /\ ~HasRun(c) /\ c \notin left
  BY CallsOf DEF CallOK, Holding
<1>2. /\ runs' = [runs EXCEPT ![p] = [runs[p] EXCEPT ![c] = @ + 1]]
      /\ task' = [task EXCEPT ![c] = IF task[c].st = "none" THEN [task[c] EXCEPT !.st = "awaiting", !.ver = call[k].ver]
                                     ELSE task[c]]
  BY <1>0 DEF Drafted, CmdsTypes
<1>5. /\ \A q \in Procs, d \in Cmds : runs[q][d] \in Nat
      /\ \A q \in Procs : runs[q][c] = 0
      /\ runs'[p][c] = 1 /\ \A q \in Procs \ {p} : runs'[q] = runs[q]
      /\ \A d \in Cmds \ {c} : runs'[p][d] = runs[p][d]
  <2>1. \A q \in Procs, d \in Cmds : runs[q][d] \in Nat
    BY <1>0 DEF CmdsTypes
  <2>2. \A q \in Procs : runs[q][c] = 0
    BY <1>0, <2>1 DEF HasRun
  <2> QED BY <1>0, <1>2, <2>1, <2>2 DEF CmdsTypes
<1>6. /\ (task'[c] = task[c] \/ (task[c].st = "none" /\ task'[c].st = "awaiting"))
      /\ \A d \in Cmds \ {c} : task'[d] = task[d]
  BY <1>0, <1>2 DEF CmdsTypes, TaskStates
<1>8. HasRun(c)' /\ \A d \in Cmds \ {c} : HasRun(d)' <=> HasRun(d)
  BY <1>0, <1>5 DEF HasRun
<1>9. CallOK(k)'
  BY <1>0, <1>8 DEF CallOK, Holding, Ran
<1>10. ASSUME NEW j \in Calls \ {k} PROVE CallOK(j)'
  <2>0. CallOK(j) /\ call[j] \in CallRec
    BY CallsOf
  <2>1. call[j].st \in Holding => call[j].cmd # c
    BY <1>0 DEF CmdsInv, HolderIsAlone, Holding
  <2>2. CASE call'[j] = call[j]
    <3>1. call[j].st \in Holding => call[j].cmd \in Cmds \ {c}
      BY <2>0, <2>1 DEF CallOK, Holding
    <3>2. \A d \in Cmds : HasRun(d) => HasRun(d)'
      BY <1>0, <1>8
    <3>3. call[j].st = "applying" => /\ inFlight'[call[j].at][call[j].cmd] = j
                                     /\ call[j].cmd \notin receipts'[call[j].at]
      BY <1>0, <2>0 DEF CallOK
    <3> QED BY <1>0, <1>8, <2>0, <2>2, <3>1, <3>2, <3>3, SameCall
  <2>3. CASE call'[j] # call[j]
    BY <1>0, <1>8, <2>0, <2>3 DEF CallOK, Holding, Ran
  <2> QED BY <2>2, <2>3
<1>11. HolderIsAlone'
  <2>1. \A j \in Calls : call'[j].st \in Holding => call[j].st \in Holding /\ call'[j].cmd = call[j].cmd
    BY <1>0 DEF Holding
  <2> QED BY <2>1 DEF CmdsInv, HolderIsAlone
<1>12. LedgersOK'
  <2>1. ASSUME NEW d \in Cmds PROVE LedgerOK(d)' /\ \A q \in Procs : RunsOK(q, d)'
    <3>0. LedgerOK(d) /\ (\A q \in Procs : RunsOK(q, d)) /\ \A q \in Procs : half[q][d] \in Nat
      BY <1>0 DEF CmdsInv, LedgersOK, CmdsTypes
    <3>1. CASE d = c
      BY <1>0, <1>5, <1>8, <3>0, <3>1 DEF LedgerOK, RunsOK
    <3>2. CASE d # c
      BY <1>0, <1>5, <1>8, <3>0, <3>2 DEF LedgerOK, RunsOK
    <3> QED BY <3>1, <3>2
  <2> QED BY <2>1 DEF LedgersOK, CmdsInv
<1>13. DecisionOK'
  <2>1. \A d \in Cmds : /\ task[d].st # "none" => task'[d] = task[d]
                        /\ task'[d].st \in {"loaded", "deciding"} => task'[d] = task[d]
    BY <1>6
  <2>2. DecisionOK /\ (draft.by # None => draft.by \in Cmds)
    BY <1>0 DEF CmdsInv, CmdsTypes, DraftRec
  <2> QED BY <1>0, <2>1, <2>2 DEF DecisionOK
<1>14. NoneTold'
  <2> SUFFICES ASSUME NEW i \in Calls, NEW j \in Calls, call'[i].st = "drafted", call'[j].cmd = call'[i].cmd
               PROVE  ~Ran(call'[j].ans)
    BY DEF NoneTold
  <2>1. CASE i = k
    <3>1. call[j].cmd = c /\ call'[j].ans \in {call[j].ans, "unknown"}
      BY <1>0, <2>1
    <3> QED BY <1>0, <3>1, CallsOf DEF CallOK, Ran
  <2>2. CASE i # k
    <3>1. call'[i] = call[i] /\ call[i].cmd # c
      BY <1>0, <2>2 DEF CmdsInv, HolderIsAlone, Holding
    <3>2. call'[j].cmd = call[j].cmd /\ call'[j].ans \in {call[j].ans, "unknown"}
      BY <1>0, <3>1
    <3> QED BY <2>2, <3>1, <3>2 DEF CmdsInv, NoneTold, Ran
  <2> QED BY <2>1, <2>2
<1> QED BY <1>9, <1>10, <1>11, <1>12, <1>13, <1>14 DEF CmdsInv

\* Types of a step that drafts a task.
LEMMA DraftedTypes ==
    ASSUME CmdsInv, NEW k \in Calls, call[k].st = "prepared", Drafted(k), UNCHANGED <<ledger, receipts, draft, half, left>>,
           call' \in [Calls -> CallRec], inFlight' \in [Procs -> [Cmds -> Calls \cup {None}]]
    PROVE  CmdsTypes'
<1> DEFINE c == call[k].cmd
           p == call[k].at
<1>0. CmdsTypes /\ call[k] \in CallRec /\ c \in Cmds /\ p \in Procs /\ call[k].ver \in Nat
  BY CallsOf DEF CallOK, Holding, CallRec
<1>1. /\ runs' = [runs EXCEPT ![p] = [runs[p] EXCEPT ![c] = @ + 1]]
      /\ task' = [task EXCEPT ![c] = IF task[c].st = "none" THEN [task[c] EXCEPT !.st = "awaiting", !.ver = call[k].ver]
                                     ELSE task[c]]
  BY <1>0 DEF Drafted, CmdsTypes
<1>2. runs' \in [Procs -> [Cmds -> Nat]]
  BY <1>0, <1>1 DEF CmdsTypes
<1>3. task' \in [Cmds -> [st : TaskStates, ver : Nat, got : Nat]]
  BY <1>0, <1>1 DEF CmdsTypes, TaskStates
<1> QED BY <1>0, <1>2, <1>3 DEF CmdsTypes

LEMMA CreateKeeps == ASSUME CmdsInv, NEW k \in Calls, createDraft(k) PROVE CmdsInv'
<1> DEFINE c == call[k].cmd
           A == AnswerJoined(k, "duplicate")
<1>0. /\ CmdsTypes /\ call[k] \in CallRec /\ call[k].st = "prepared" /\ c \in Cmds
      /\ UNCHANGED <<ledger, inFlight, receipts, draft, half, left>> /\ Drafted(k)
  BY CallsOf DEF createDraft, CallOK, Holding
<1>1. /\ A \in [Calls -> CallRec] /\ A[k] = call[k]
      /\ \A j \in Calls \ {k} :
            \/ A[j] = call[j]
            \/ /\ call[j].st = "joined" /\ call[j].cmd = c /\ A[j].st = "done" /\ A[j].cmd = c
               /\ A[j].ans \in {call[j].ans, "duplicate"}
  BY <1>0, JoinedCalls DEF Answers
<1>2. \/ call' = [A EXCEPT ![k] = [A[k] EXCEPT !.st = "created"]]
      \/ call' = [call EXCEPT ![k] = [call[k] EXCEPT !.st = "drafted"]] /\ KindOf[c] = "slash"
  <2>1. KindOf[c] \in {"text", "slash"}
    BY <1>0, CallsOf, KindAssumption DEF CallOK, Kept, Holding
  <2> QED BY <1>0, <1>1, <2>1 DEF createDraft, CmdsTypes
<1> HIDE DEF A
<1>3. /\ [call[k] EXCEPT !.st = "created"] \in CallRec /\ [call[k] EXCEPT !.st = "drafted"] \in CallRec
  BY <1>0 DEF CallRec, CallStates, Holding
<1>4. /\ call'[k].st \in {"created", "drafted"} /\ call'[k].cmd = c /\ call'[k].at = call[k].at
      /\ call'[k].ans = call[k].ans /\ call' \in [Calls -> CallRec]
      /\ \/ call'[k].st = "created" /\ \A j \in Calls \ {k} : call'[j] = A[j]
         \/ KindOf[c] = "slash" /\ \A j \in Calls \ {k} : call'[j] = call[j]
  <2>1. CASE call' = [A EXCEPT ![k] = [A[k] EXCEPT !.st = "created"]]
    BY <1>0, <1>1, <1>3, <2>1 DEF CallRec
  <2>2. CASE call' = [call EXCEPT ![k] = [call[k] EXCEPT !.st = "drafted"]] /\ KindOf[c] = "slash"
    BY <1>0, <1>3, <2>2 DEF CallRec, CmdsTypes
  <2> QED BY <1>2, <2>1, <2>2
<1>5. CmdsTypes'
  BY <1>0, <1>4, DraftedTypes DEF CmdsTypes
<1>6. \A q \in Procs, d \in Cmds : inFlight'[q][d] = inFlight[q][d] \/ inFlight[q][d] = k
  BY <1>0
<1>7. \A j \in Calls \ {k} :
         \/ call'[j] = call[j]
         \/ /\ call[j].st = "joined" /\ call[j].cmd = c /\ call'[j].st = "done" /\ call'[j].cmd = c
            /\ call'[j].ans \in {call[j].ans, "unknown", "duplicate"} /\ call'[k].st # "drafted"
  BY <1>1, <1>4
<1> QED BY <1>0, <1>4, <1>5, <1>6, <1>7, DraftedKeeps

\* The insertion goes through and its answer is lost.
LEMMA DraftLostKeeps ==
    ASSUME CmdsInv, NEW k \in Calls, runFails(k), call[k].st = "prepared", Drafted(k)
    PROVE  CmdsInv'
<1> DEFINE c == call[k].cmd
           A == AnswerJoined(k, "unknown")
<1>0. /\ CmdsTypes /\ call[k] \in CallRec /\ c \in Cmds /\ call[k].at \in Procs
      /\ UNCHANGED <<ledger, receipts, draft, half, left>> /\ Leave(k)
  BY CallsOf DEF runFails, CallOK, Holding
<1>1. /\ A \in [Calls -> CallRec] /\ A[k] = call[k]
      /\ \A j \in Calls \ {k} :
            \/ A[j] = call[j]
            \/ /\ call[j].st = "joined" /\ call[j].cmd = c /\ A[j].st = "done" /\ A[j].cmd = c
               /\ A[j].ans \in {call[j].ans, "unknown"}
  BY <1>0, JoinedCalls DEF Answers
<1>2. call' = [A EXCEPT ![k] = [A[k] EXCEPT !.st = "done", !.ans = IF @ = None THEN "unknown" ELSE @]]
  BY <1>1 DEF runFails
<1> HIDE DEF A
<1>3. [call[k] EXCEPT !.st = "done", !.ans = IF @ = None THEN "unknown" ELSE @] \in CallRec
  BY <1>0 DEF CallRec, CallStates, Answers
<1>4. /\ call'[k].st = "done" /\ call'[k].cmd = c /\ call'[k].at = call[k].at /\ call'[k].ans \in {call[k].ans, "unknown"}
      /\ call' \in [Calls -> CallRec] /\ \A j \in Calls \ {k} : call'[j] = A[j]
  BY <1>0, <1>1, <1>2, <1>3 DEF CallRec
<1>5. inFlight' \in [Procs -> [Cmds -> Calls \cup {None}]]
      /\ \A q \in Procs, d \in Cmds : inFlight'[q][d] = inFlight[q][d] \/ inFlight[q][d] = k
  BY <1>0, LeaveOnly
<1>6. CmdsTypes'
  BY <1>0, <1>4, <1>5, DraftedTypes
<1>7. \A j \in Calls \ {k} :
         \/ call'[j] = call[j]
         \/ /\ call[j].st = "joined" /\ call[j].cmd = c /\ call'[j].st = "done" /\ call'[j].cmd = c
            /\ call'[j].ans \in {call[j].ans, "unknown", "duplicate"} /\ call'[k].st # "drafted"
  BY <1>1, <1>4
<1> QED BY <1>0, <1>4, <1>5, <1>6, <1>7, DraftedKeeps

\* A slash command is confirmed in its run: whoever joined hears of the one execution.
LEMMA AutoConfirmKeeps == ASSUME CmdsInv, NEW k \in Calls, autoConfirm(k) PROVE CmdsInv'
<1> DEFINE c == call[k].cmd
           A == AnswerJoined(k, "duplicate")
<1>0. /\ CmdsTypes /\ call[k] \in CallRec /\ CallOK(k) /\ call[k].st = "drafted" /\ c \in Cmds /\ Kept(c)
      /\ ledger[c] = "in_flight" /\ HasRun(c) /\ c \notin left
      /\ UNCHANGED <<ledger, inFlight, receipts, draft, runs, half, left>>
  BY CallsOf DEF autoConfirm, CallOK, Holding
<1>1. /\ A \in [Calls -> CallRec] /\ A[k] = call[k]
      /\ \A j \in Calls \ {k} :
            \/ A[j] = call[j]
            \/ /\ call[j].st = "joined" /\ call[j].cmd = c /\ A[j].st = "done" /\ A[j].cmd = c
               /\ A[j].ans \in {call[j].ans, "duplicate"}
  BY <1>0, JoinedCalls DEF Answers
<1>2. call' = [A EXCEPT ![k] = [A[k] EXCEPT !.st = "created"]]
  BY <1>1 DEF autoConfirm
<1>20. task' = task \/ (task' = [task EXCEPT ![c] = [task[c] EXCEPT !.st = "queued"]] /\ task[c].st = "awaiting")
  BY <1>0 DEF autoConfirm, TaskGoes, CmdsTypes
<1> HIDE DEF A
<1>3. [call[k] EXCEPT !.st = "created"] \in CallRec
  BY <1>0 DEF CallRec, CallStates, Holding
<1>4. /\ call'[k].st = "created" /\ call'[k].cmd = c /\ call'[k].at = call[k].at /\ call'[k].ans = call[k].ans
      /\ call' \in [Calls -> CallRec] /\ \A j \in Calls \ {k} : call'[j] = A[j]
  BY <1>0, <1>1, <1>2, <1>3 DEF CallRec
<1>5. /\ task' \in [Cmds -> [st : TaskStates, ver : Nat, got : Nat]]
      /\ \A d \in Cmds : task'[d] = task[d] \/ (task[d].st = "awaiting" /\ task'[d].st = "queued" /\ task'[d].ver = task[d].ver)
  <2>1. task \in [Cmds -> [st : TaskStates, ver : Nat, got : Nat]]
    BY <1>0 DEF CmdsTypes
  <2>2. CASE task' = [task EXCEPT ![c] = [task[c] EXCEPT !.st = "queued"]] /\ task[c].st = "awaiting"
    <3>1. [task[c] EXCEPT !.st = "queued"] \in [st : TaskStates, ver : Nat, got : Nat]
          /\ [task[c] EXCEPT !.st = "queued"].st = "queued" /\ [task[c] EXCEPT !.st = "queued"].ver = task[c].ver
      BY <1>0, <2>1 DEF TaskStates
    <3> QED BY <1>0, <2>1, <2>2, <3>1
  <2> QED BY <1>20, <2>1, <2>2
<1>6. CmdsTypes'
  BY <1>0, <1>4, <1>5 DEF CmdsTypes
<1>7. \A d : HasRun(d)' <=> HasRun(d)
  BY <1>0 DEF HasRun
<1>8. CallOK(k)'
  BY <1>0, <1>4, <1>7 DEF CallOK, Holding, Ran
<1>9. ASSUME NEW j \in Calls \ {k} PROVE CallOK(j)'
  <2>0. CallOK(j) /\ call[j] \in CallRec
    BY CallsOf
  <2>1. CASE call'[j] = call[j]
    BY <1>0, <1>7, <2>0, <2>1 DEF CallOK
  <2>2. CASE call'[j] # call[j]
    BY <1>0, <1>1, <1>4, <1>7, <2>0, <2>2 DEF CallOK, Holding, Ran
  <2> QED BY <2>1, <2>2
<1>10. HolderIsAlone'
  <2>1. \A j \in Calls : call'[j].st \in Holding => call[j].st \in Holding /\ call'[j].cmd = call[j].cmd
    BY <1>0, <1>1, <1>4 DEF Holding
  <2> QED BY <2>1 DEF CmdsInv, HolderIsAlone
<1>11. NoneTold'
  <2> SUFFICES ASSUME NEW i \in Calls, NEW j \in Calls, call'[i].st = "drafted", call'[j].cmd = call'[i].cmd
               PROVE  ~Ran(call'[j].ans)
    BY DEF NoneTold
  <2>1. call'[i] = call[i] /\ i # k /\ call[i].cmd # c
    BY <1>0, <1>1, <1>4 DEF CmdsInv, HolderIsAlone, Holding
  <2>2. call'[j].cmd = call[j].cmd /\ call'[j].ans = call[j].ans
    BY <1>0, <1>1, <1>4, <2>1
  <2> QED BY <2>1, <2>2 DEF CmdsInv, NoneTold
<1>12. LedgersOK'
  BY <1>0, <1>7 DEF CmdsInv, LedgersOK, LedgerOK, RunsOK
<1>13. DecisionOK'
  <2>1. DecisionOK /\ (draft.by # None => draft.by \in Cmds)
    BY <1>0 DEF CmdsInv, CmdsTypes, DraftRec
  <2> QED BY <1>0, <1>5, <2>1 DEF DecisionOK
<1> QED BY <1>6, <1>8, <1>9, <1>10, <1>11, <1>12, <1>13 DEF CmdsInv

\* Its task is left when the confirmation is refused, and nobody has heard of it.
LEMMA LeftKeeps == ASSUME CmdsInv, NEW k \in Calls, autoConfirmRefused(k) PROVE CmdsInv'
<1> DEFINE c == call[k].cmd
           r == [call[k] EXCEPT !.st = "rejecting"]
<1>0. /\ CmdsTypes /\ call[k] \in CallRec /\ CallOK(k) /\ call[k].st = "drafted" /\ c \in Cmds /\ Kept(c)
      /\ ledger[c] = "in_flight" /\ HasRun(c) /\ left' = left \cup {c}
      /\ call' = [call EXCEPT ![k] = r]
      /\ UNCHANGED <<ledger, inFlight, receipts, task, draft, runs, half>>
  BY CallsOf DEF autoConfirmRefused, CallOK, Holding, CmdsTypes
<1>1. KindOf[c] = "slash"
  BY <1>0 DEF CallOK
<1>2. r \in CallRec /\ r.st = "rejecting" /\ r.cmd = c /\ r.at = call[k].at /\ r.ans = call[k].ans
  BY <1>0 DEF CallRec, CallStates, Holding
<1> HIDE DEF r
<1>3. call' \in [Calls -> CallRec] /\ call'[k] = r /\ \A j \in Calls \ {k} : call'[j] = call[j]
  BY <1>0, <1>2 DEF CmdsTypes
<1>4. CmdsTypes'
  BY <1>0, <1>3 DEF CmdsTypes
<1>5. \A d : HasRun(d)' <=> HasRun(d)
  BY <1>0 DEF HasRun
<1>6. ASSUME NEW j \in Calls, call[j].cmd = c PROVE ~Ran(call[j].ans)
  BY <1>0, <1>6 DEF CmdsInv, NoneTold
<1>7. CallOK(k)'
  BY <1>0, <1>2, <1>3, <1>5, <1>6 DEF CallOK, Holding
<1>8. ASSUME NEW j \in Calls \ {k} PROVE CallOK(j)'
  <2>0. CallOK(j) /\ call[j] \in CallRec
    BY CallsOf
  <2>1. call[j].st \in Holding => call[j].cmd # c
    BY <1>0 DEF CmdsInv, HolderIsAlone, Holding
  <2> QED BY <1>0, <1>3, <1>5, <1>6, <2>0, <2>1 DEF CallOK
<1>9. HolderIsAlone'
  <2>1. \A j \in Calls : call'[j].st \in Holding => call[j].st \in Holding /\ call'[j].cmd = call[j].cmd
    BY <1>0, <1>2, <1>3 DEF Holding
  <2> QED BY <2>1 DEF CmdsInv, HolderIsAlone
<1>10. NoneTold'
  <2>1. \A j \in Calls : call'[j].cmd = call[j].cmd /\ call'[j].ans = call[j].ans /\ (call'[j].st = "drafted" => call[j].st = "drafted")
    BY <1>2, <1>3
  <2> QED BY <2>1 DEF CmdsInv, NoneTold
<1>11. LedgersOK'
  BY <1>0, <1>1, <1>5 DEF CmdsInv, LedgersOK, LedgerOK, RunsOK
<1> QED BY <1>0, <1>4, <1>7, <1>8, <1>9, <1>10, <1>11, DecisionStill DEF CmdsInv

\* The row is settled by the one call that held it.
LEMMA SettleKeeps == ASSUME CmdsInv, NEW k \in Calls, settleApplied(k) \/ settleRejected(k) PROVE CmdsInv'
<1> DEFINE c == call[k].cmd
<1>0. /\ CmdsTypes /\ call[k] \in CallRec /\ CallOK(k) /\ call[k].st \in Holding /\ c \in Cmds /\ Kept(c)
      /\ call[k].at \in Procs /\ ledger[c] = "in_flight" /\ UNCHANGED <<receipts, task, draft, runs, half, left>> /\ Leave(k)
  BY CallsOf DEF settleApplied, settleRejected, CallOK, Holding
<1>1. \A d : HasRun(d)' <=> HasRun(d)
  BY <1>0 DEF HasRun
<1>2. PICK res \in {"applied", "rejected"} :
        /\ ledger' = [ledger EXCEPT ![c] = res] /\ (res = "applied" => HasRun(c) /\ c \notin left) /\ (res = "rejected" /\ HasRun(c) => c \in left)
        /\ call'[k].st = "done" /\ call'[k].cmd = c /\ call'[k].ans \in {call[k].ans, res}
        /\ call' \in [Calls -> CallRec]
        /\ \A j \in Calls \ {k} :
              \/ call'[j] = call[j]
              \/ /\ call[j].st = "joined" /\ call'[j].st = "done" /\ call'[j].cmd = call[j].cmd
                 /\ call'[j].ans \in {call[j].ans, "unknown"}
  <2>1. CASE settleApplied(k)
    <3>1. [call[k] EXCEPT !.st = "done", !.ans = IF @ = None THEN "applied" ELSE @] \in CallRec
      BY <1>0 DEF CallRec, CallStates, Answers
    <3>2. call' = [call EXCEPT ![k] = [call[k] EXCEPT !.st = "done", !.ans = IF @ = None THEN "applied" ELSE @]]
          /\ ledger' = [ledger EXCEPT ![c] = "applied"] /\ HasRun(c) /\ c \notin left
      BY <1>0, <2>1 DEF settleApplied, Settle, CmdsTypes, CallOK
    <3>3. call'[k] = [call[k] EXCEPT !.st = "done", !.ans = IF @ = None THEN "applied" ELSE @]
          /\ call' \in [Calls -> CallRec] /\ \A j \in Calls \ {k} : call'[j] = call[j]
      BY <1>0, <3>1, <3>2 DEF CmdsTypes
    <3> QED BY <1>0, <3>2, <3>3 DEF CallRec
  <2>2. CASE settleRejected(k)
    <3> DEFINE A == AnswerJoined(k, "unknown")
    <3>1. /\ A \in [Calls -> CallRec] /\ A[k] = call[k]
          /\ \A j \in Calls \ {k} :
                \/ A[j] = call[j]
                \/ /\ call[j].st = "joined" /\ A[j].st = "done" /\ A[j].cmd = call[j].cmd
                   /\ A[j].ans \in {call[j].ans, "unknown"}
      BY <1>0, JoinedCalls DEF Answers, Holding
    <3>2. /\ call' = [A EXCEPT ![k] = [A[k] EXCEPT !.st = "done", !.ans = IF @ = None THEN "rejected" ELSE @]]
          /\ ledger' = [ledger EXCEPT ![c] = "rejected"] /\ (HasRun(c) => c \in left)
      BY <1>0, <2>2, <3>1 DEF settleRejected, CallOK
    <3> HIDE DEF A
    <3>3. [call[k] EXCEPT !.st = "done", !.ans = IF @ = None THEN "rejected" ELSE @] \in CallRec
      BY <1>0 DEF CallRec, CallStates, Answers
    <3>4. call'[k] = [call[k] EXCEPT !.st = "done", !.ans = IF @ = None THEN "rejected" ELSE @]
          /\ call' \in [Calls -> CallRec] /\ \A j \in Calls \ {k} : call'[j] = A[j]
      BY <3>1, <3>2, <3>3
    <3> QED BY <1>0, <3>1, <3>2, <3>4 DEF CallRec
  <2> QED BY <2>1, <2>2 DEF settleApplied, settleRejected
<1>3. /\ ledger'[c] = res /\ (\A d \in Cmds \ {c} : ledger'[d] = ledger[d])
      /\ ledger' \in [Cmds -> {"none", "in_flight", "applied", "rejected"}]
  BY <1>0, <1>2 DEF CmdsTypes
<1>4. CmdsTypes'
  BY <1>0, <1>2, <1>3, LeaveOnly DEF CmdsTypes
<1>5. CallOK(k)'
  BY <1>0, <1>1, <1>2, <1>3 DEF CallOK, Holding, Ran
<1>6. ASSUME NEW j \in Calls \ {k} PROVE CallOK(j)'
  <2>0. CallOK(j) /\ call[j] \in CallRec
    BY CallsOf
  <2>1. call[j].st \in Holding => call[j].cmd # c
    BY <1>0 DEF CmdsInv, HolderIsAlone
  <2>2. CASE call'[j] = call[j]
    <3>1. call[j].st = "applying" => inFlight'[call[j].at][call[j].cmd] = j
      BY <1>0, <2>0, LeaveOnly DEF CallOK, Holding
    <3>2. \A d \in Cmds : ledger[d] = "rejected" => ledger'[d] = "rejected"
      BY <1>0, <1>3
    <3>3. call[j].st \in Holding \cup {"applying"} => call[j].cmd \in Cmds
      BY <2>0 DEF CallOK, Holding
    <3> QED BY <1>0, <1>1, <1>3, <2>0, <2>1, <2>2, <3>1, <3>2, <3>3, SameCall DEF CallOK
  <2>3. CASE call'[j] # call[j]
    BY <1>0, <1>1, <1>2, <1>3, <2>0, <2>3 DEF CallOK, Holding, Ran
  <2> QED BY <2>2, <2>3
<1>7. HolderIsAlone'
  <2>1. \A j \in Calls : call'[j].st \in Holding => call[j].st \in Holding /\ call'[j].cmd = call[j].cmd
    BY <1>2 DEF Holding
  <2> QED BY <2>1 DEF CmdsInv, HolderIsAlone
<1>8. LedgersOK'
  BY <1>0, <1>1, <1>2, <1>3 DEF CmdsInv, LedgersOK, LedgerOK, RunsOK
<1>9. NoneTold'
  <2> SUFFICES ASSUME NEW i \in Calls, NEW j \in Calls, call'[i].st = "drafted", call'[j].cmd = call'[i].cmd
               PROVE  ~Ran(call'[j].ans)
    BY DEF NoneTold
  <2>1. i # k /\ call'[i] = call[i] /\ call[i].cmd # c
    BY <1>0, <1>2 DEF CmdsInv, HolderIsAlone, Holding
  <2>2. j # k /\ call'[j].cmd = call[j].cmd /\ call'[j].ans \in {call[j].ans, "unknown"}
    BY <1>2, <2>1
  <2> QED BY <2>1, <2>2 DEF CmdsInv, NoneTold, Ran
<1> QED BY <1>0, <1>4, <1>5, <1>6, <1>7, <1>8, <1>9, DecisionStill DEF CmdsInv

\* A command that is remembered in memory is admitted, applied once, or fails.
LEMMA AdmitKeeps == ASSUME CmdsInv, NEW k \in Calls, NEW p \in Procs, runCommand(k, p) PROVE CmdsInv'
<1> DEFINE c == call[k].cmd
<1>0. /\ CmdsTypes /\ call[k] \in CallRec /\ CallOK(k) /\ call[k].st = "sent" /\ c \in Cmds /\ ~Kept(c)
      /\ UNCHANGED <<ledger, receipts, task, draft, runs, half, left>>
  BY CallsOf DEF runCommand, CallOK
<1>1. PICK r \in CallRec :
        /\ call' = [call EXCEPT ![k] = r] /\ r.cmd = c
        /\ \/ r.st \in {"done", "joined"} /\ UNCHANGED inFlight
           \/ /\ r.st = "applying" /\ r.at = p /\ c \notin receipts[p] /\ inFlight[p][c] = None
              /\ inFlight' = [inFlight EXCEPT ![p][c] = k]
  <2> DEFINE D == [call[k] EXCEPT !.st = "done", !.ans = IF @ = None THEN "duplicate" ELSE @]
             J == [call[k] EXCEPT !.st = "joined", !.at = p]
             R == [call[k] EXCEPT !.st = "applying", !.at = p]
  <2>1. D \in CallRec /\ J \in CallRec /\ R \in CallRec /\ D.cmd = c /\ J.cmd = c /\ R.cmd = c
        /\ D.st = "done" /\ J.st = "joined" /\ R.st = "applying" /\ R.at = p
    BY <1>0 DEF CallRec, CallStates, Answers
  <2>2. /\ Settle(k, "done", "duplicate") = [call EXCEPT ![k] = D]
        /\ [call EXCEPT ![k].st = "joined", ![k].at = p] = [call EXCEPT ![k] = J]
        /\ [call EXCEPT ![k].st = "applying", ![k].at = p] = [call EXCEPT ![k] = R]
    BY <1>0 DEF Settle, CmdsTypes
  <2>3. \/ call' = [call EXCEPT ![k] = D] /\ UNCHANGED inFlight
        \/ call' = [call EXCEPT ![k] = J] /\ UNCHANGED inFlight
        \/ /\ call' = [call EXCEPT ![k] = R] /\ c \notin receipts[p] /\ inFlight[p][c] = None
           /\ inFlight' = [inFlight EXCEPT ![p][c] = k]
    BY <2>2 DEF runCommand
  <2> HIDE DEF D, J, R
  <2> QED BY <2>1, <2>3
<1>2. call'[k] = r /\ \A j \in Calls \ {k} : call'[j] = call[j]
  BY <1>0, <1>1 DEF CmdsTypes
<1>20. /\ inFlight' \in [Procs -> [Cmds -> Calls \cup {None}]]
       /\ \A q \in Procs, d \in Cmds : inFlight'[q][d] = inFlight[q][d] \/ inFlight[q][d] = None
  <2>1. CASE UNCHANGED inFlight
    BY <1>0, <2>1 DEF CmdsTypes
  <2>2. CASE inFlight[p][c] = None /\ inFlight' = [inFlight EXCEPT ![p][c] = k]
    <3> HIDE DEF c
    <3> QED BY <1>0, <2>2, SetEntry DEF CmdsTypes
  <2> QED BY <1>1, <2>1, <2>2
<1>3. CmdsTypes'
  BY <1>0, <1>1, <1>20 DEF CmdsTypes
<1>4. Aside(k)
  BY <1>0, <1>1, <1>2, <1>20 DEF Aside, Holding
<1>5. r.st = "applying" => inFlight'[p][c] = k
  BY <1>0, <1>1 DEF CmdsTypes
<1>6. CallOK(k)'
  BY <1>0, <1>1, <1>2, <1>5 DEF CallOK, HasRun, Holding
<1> QED BY <1>3, <1>4, <1>6, AsideKeeps

LEMMA ApplyFailsKeeps ==
    ASSUME CmdsInv, NEW k \in Calls, applyFails(k), UNCHANGED <<runs, half>>
    PROVE  CmdsInv'
<1> DEFINE c == call[k].cmd
           A == AnswerJoined(k, "unknown")
<1>0. /\ CmdsTypes /\ call[k] \in CallRec /\ CallOK(k) /\ call[k].st = "applying" /\ c \in Cmds /\ ~Kept(c)
      /\ call[k].at \in Procs /\ UNCHANGED <<ledger, receipts, task, draft, runs, half, left>> /\ Leave(k)
  BY CallsOf DEF applyFails, CallOK, Holding
<1>1. /\ A \in [Calls -> CallRec] /\ A[k] = call[k]
      /\ \A j \in Calls \ {k} :
            \/ A[j] = call[j]
            \/ /\ call[j].st = "joined" /\ A[j].st = "done" /\ A[j].cmd = call[j].cmd
               /\ A[j].ans \in {call[j].ans, "unknown"}
  BY <1>0, JoinedCalls DEF Answers
<1>2. call' = [A EXCEPT ![k] = [A[k] EXCEPT !.st = "done", !.ans = IF @ = None THEN "unknown" ELSE @]]
  BY <1>1 DEF applyFails
<1> HIDE DEF A
<1>3. [call[k] EXCEPT !.st = "done", !.ans = IF @ = None THEN "unknown" ELSE @] \in CallRec
  BY <1>0 DEF CallRec, CallStates, Answers
<1>4. /\ call'[k].st = "done" /\ call'[k].cmd = c
      /\ call' \in [Calls -> CallRec] /\ \A j \in Calls \ {k} : call'[j] = A[j]
  BY <1>0, <1>1, <1>2, <1>3 DEF CallRec
<1>5. CmdsTypes'
  BY <1>0, <1>4, LeaveOnly DEF CmdsTypes
<1>6. Aside(k)
  BY <1>0, <1>1, <1>4, LeaveOnly DEF Aside, Holding
<1>7. CallOK(k)'
  BY <1>0, <1>4 DEF CallOK, Holding
<1> QED BY <1>5, <1>6, <1>7, AsideKeeps

\* An execution in memory is remembered when it went well, and counted as half when it did not.
LEMMA ExecutedKeeps ==
    ASSUME CmdsInv, NEW k \in Calls, call[k].st = "applying", Leave(k), UNCHANGED <<ledger, task, draft, left>>,
           runs' = [runs EXCEPT ![call[k].at][call[k].cmd] = @ + 1],
           \/ receipts' = [receipts EXCEPT ![call[k].at] = @ \cup {call[k].cmd}] /\ UNCHANGED half
           \/ half' = [half EXCEPT ![call[k].at][call[k].cmd] = @ + 1] /\ UNCHANGED receipts,
           call' \in [Calls -> CallRec], call'[k].st = "done", call'[k].cmd = call[k].cmd,
           \A j \in Calls \ {k} :
              \/ call'[j] = call[j]
              \/ call[j].st = "joined" /\ call[j].cmd = call[k].cmd /\ call'[j].st = "done" /\ call'[j].cmd = call[k].cmd
    PROVE  CmdsInv'
<1> DEFINE c == call[k].cmd
           p == call[k].at
<1>0. /\ CmdsTypes /\ call[k] \in CallRec /\ CallOK(k) /\ c \in Cmds /\ ~Kept(c)
      /\ p \in Procs /\ inFlight[p][c] = k /\ c \notin receipts[p]
  BY CallsOf DEF CallOK, Holding
<1>1. runs[p][c] = half[p][c] /\ runs \in [Procs -> [Cmds -> Nat]] /\ half \in [Procs -> [Cmds -> Nat]] /\ runs[p][c] \in Nat
  BY <1>0 DEF CmdsInv, LedgersOK, RunsOK, CmdsTypes
<1>2. runs' = [runs EXCEPT ![p][c] = runs[p][c] + 1] /\ runs[p][c] + 1 \in Nat
  BY <1>1
<1>5. /\ runs' \in [Procs -> [Cmds -> Nat]] /\ runs'[p][c] = runs[p][c] + 1 /\ \A q \in Procs \ {p} : runs'[q] = runs[q]
      /\ \A d \in Cmds \ {c} : runs'[p][d] = runs[p][d]
  <2> HIDE DEF c, p
  <2> QED BY <1>0, <1>1, <1>2, SetEntry
<1>6. /\ receipts' \in [Procs -> SUBSET Cmds] /\ half' \in [Procs -> [Cmds -> Nat]]
      /\ \/ receipts'[p] = receipts[p] \cup {c} /\ UNCHANGED half
         \/ UNCHANGED receipts /\ half'[p][c] = half[p][c] + 1
      /\ \A q \in Procs \ {p} : receipts'[q] = receipts[q] /\ half'[q] = half[q]
      /\ \A d \in Cmds \ {c} : (d \in receipts'[p] <=> d \in receipts[p]) /\ half'[p][d] = half[p][d]
  <2>1. CASE receipts' = [receipts EXCEPT ![p] = @ \cup {c}] /\ UNCHANGED half
    BY <1>0, <1>1, <2>1 DEF CmdsTypes
  <2>2. CASE half' = [half EXCEPT ![p][c] = @ + 1] /\ UNCHANGED receipts
    <3>1. half' = [half EXCEPT ![p][c] = half[p][c] + 1] /\ half[p][c] + 1 \in Nat /\ receipts \in [Procs -> SUBSET Cmds]
      BY <1>0, <1>1, <2>2 DEF CmdsTypes
    <3> HIDE DEF c, p
    <3>2. /\ half' \in [Procs -> [Cmds -> Nat]] /\ half'[p][c] = half[p][c] + 1 /\ \A q \in Procs \ {p} : half'[q] = half[q]
          /\ \A d \in Cmds \ {c} : half'[p][d] = half[p][d]
      BY <1>0, <1>1, <3>1, SetEntry
    <3> QED BY <2>2, <3>1, <3>2
  <2> QED BY <2>1, <2>2
<1>7. CmdsTypes'
  BY <1>0, <1>5, <1>6, LeaveOnly DEF CmdsTypes
<1>8. \A d \in Cmds \ {c} : HasRun(d)' <=> HasRun(d)
  BY <1>0, <1>5 DEF HasRun
<1>9. CallOK(k)'
  BY <1>0 DEF CallOK, Holding
<1>10. ASSUME NEW j \in Calls \ {k} PROVE CallOK(j)'
  <2>0. CallOK(j) /\ call[j] \in CallRec
    BY CallsOf
  <2>1. CASE call'[j] = call[j]
    <3>1. call[j].st = "applying" => /\ inFlight'[call[j].at][call[j].cmd] = j
                                     /\ call[j].at \in Procs /\ call[j].cmd \in Cmds
                                     /\ ~(call[j].at = p /\ call[j].cmd = c)
      BY <1>0, <2>0, LeaveOnly DEF CallOK, Holding
    <3>2. call[j].st = "applying" => call[j].cmd \notin receipts'[call[j].at]
      BY <1>6, <2>0, <3>1 DEF CallOK
    <3>3. call[j].st \in Holding => call[j].cmd \in Cmds \ {c}
      BY <1>0, <2>0 DEF CallOK, Holding
    <3> QED BY <1>0, <1>8, <2>0, <2>1, <3>1, <3>2, <3>3, SameCall
  <2>2. CASE call'[j] # call[j]
    BY <1>0, <2>0, <2>2 DEF CallOK, Holding
  <2> QED BY <2>1, <2>2
<1>11. HolderIsAlone'
  <2>1. \A j \in Calls : call'[j].st \in Holding => call[j].st \in Holding /\ call'[j].cmd = call[j].cmd
    BY <1>0 DEF Holding
  <2> QED BY <2>1 DEF CmdsInv, HolderIsAlone
<1>12. LedgersOK'
  <2>1. ASSUME NEW d \in Cmds PROVE LedgerOK(d)' /\ \A q \in Procs : RunsOK(q, d)'
    <3>0. LedgerOK(d) /\ (\A q \in Procs : RunsOK(q, d)) /\ \A q \in Procs : half[q][d] \in Nat
      BY <1>1 DEF CmdsInv, LedgersOK
    <3>1. CASE d = c
      <4>1. LedgerOK(d)'
        BY <1>0, <3>1 DEF LedgerOK
      <4>2. ASSUME NEW q \in Procs \ {p} PROVE RunsOK(q, d)'
        <5>1. runs'[q][d] = runs[q][d] /\ half'[q][d] = half[q][d] /\ (d \in receipts'[q] <=> d \in receipts[q])
          BY <1>5, <1>6
        <5>2. RunsOK(q, d)
          BY <3>0
        <5> QED BY <5>1, <5>2 DEF RunsOK
      <4>3. ASSUME NEW q \in Procs, q = p PROVE RunsOK(q, d)'
        <5>1. half[q][d] \in Nat /\ runs[q][d] = half[q][d] /\ runs'[q][d] = runs[q][d] + 1 /\ ~Kept(d)
          BY <1>0, <1>1, <1>5, <3>1, <4>3
        <5>2. CASE receipts'[p] = receipts[p] \cup {c} /\ UNCHANGED half
          BY <3>1, <4>3, <5>1, <5>2 DEF RunsOK
        <5>3. CASE UNCHANGED receipts /\ half'[p][c] = half[p][c] + 1
          BY <3>1, <4>3, <5>1, <5>3 DEF RunsOK
        <5> QED BY <1>6, <5>2, <5>3
      <4> QED BY <4>1, <4>2, <4>3
    <3>2. CASE d # c
      <4>1. ASSUME NEW q \in Procs
            PROVE  runs'[q][d] = runs[q][d] /\ half'[q][d] = half[q][d] /\ (d \in receipts'[q] <=> d \in receipts[q])
        <5> HIDE DEF c, p
        <5>0. d \in Cmds \ {c}
          BY <3>2
        <5>1. CASE q = p
          <6>1. runs'[p][d] = runs[p][d]
            BY <1>5, <5>0
          <6>2. half'[p][d] = half[p][d] /\ (d \in receipts'[p] <=> d \in receipts[p])
            BY <1>6, <5>0
          <6> QED BY <5>1, <6>1, <6>2
        <5>2. CASE q # p
          BY <1>5, <1>6, <5>2
        <5> QED BY <5>1, <5>2
      <4>2. \A q \in Procs : RunsOK(q, d)'
        BY <3>0, <4>1 DEF RunsOK
      <4>3. LedgerOK(d)'
        BY <1>0, <1>8, <3>0, <3>2, <4>1 DEF LedgerOK
      <4> QED BY <4>2, <4>3
    <3> QED BY <3>1, <3>2
  <2> QED BY <2>1 DEF LedgersOK, CmdsInv
<1>13. NoneTold'
  <2> SUFFICES ASSUME NEW i \in Calls, NEW j \in Calls, call'[i].st = "drafted", call'[j].cmd = call'[i].cmd
               PROVE  ~Ran(call'[j].ans)
    BY DEF NoneTold
  <2>1. call'[i] = call[i] /\ Kept(call[i].cmd)
    BY CallsOf DEF CallOK, Holding
  <2>2. call'[j] = call[j]
    BY <1>0, <2>1
  <2> QED BY <2>1, <2>2 DEF CmdsInv, NoneTold
<1> QED BY <1>0, <1>7, <1>9, <1>10, <1>11, <1>12, <1>13, DecisionStill DEF CmdsInv

LEMMA ApplyKeeps ==
    ASSUME CmdsInv, NEW k \in Calls,
           \/ applyCommand(k)
           \/ /\ applyFails(k) /\ runs' = [runs EXCEPT ![call[k].at][call[k].cmd] = @ + 1]
              /\ half' = [half EXCEPT ![call[k].at][call[k].cmd] = @ + 1]
    PROVE  CmdsInv'
<1> DEFINE A(ans) == AnswerJoined(k, ans)
           D(ans) == [call[k] EXCEPT !.st = "done", !.ans = IF @ = None THEN ans ELSE @]
<1>0. CmdsTypes /\ call[k] \in CallRec /\ call[k].st = "applying" /\ call[k].cmd \in Cmds /\ Leave(k)
      /\ UNCHANGED <<ledger, task, draft, left>>
  BY CallsOf DEF applyCommand, applyFails, CallOK
<1>1. ASSUME NEW ans \in Answers
      PROVE  /\ A(ans) \in [Calls -> CallRec] /\ A(ans)[k] = call[k]
             /\ \A j \in Calls \ {k} :
                   \/ A(ans)[j] = call[j]
                   \/ /\ call[j].st = "joined" /\ call[j].cmd = call[k].cmd
                      /\ A(ans)[j].st = "done" /\ A(ans)[j].cmd = call[k].cmd
  BY <1>0, JoinedCalls
<1>2. PICK a \in Answers, b \in Answers : call' = [A(a) EXCEPT ![k] = D(b)]
  <2>1. CASE applyCommand(k)
    <3>0. A("duplicate") \in [Calls -> CallRec] /\ A("duplicate")[k] = call[k]
      BY <1>1 DEF Answers
    <3>1. call' = [A("duplicate") EXCEPT ![k] = D("applied")]
      BY <3>0, <2>1 DEF applyCommand
    <3> HIDE DEF A, D
    <3> QED BY <3>1 DEF Answers
  <2>2. CASE applyFails(k)
    <3>0. A("unknown") \in [Calls -> CallRec] /\ A("unknown")[k] = call[k]
      BY <1>1 DEF Answers
    <3>1. call' = [A("unknown") EXCEPT ![k] = D("unknown")]
      BY <3>0, <2>2 DEF applyFails
    <3> HIDE DEF A, D
    <3> QED BY <3>1 DEF Answers
  <2> QED BY <2>1, <2>2
<1>3. D(b) \in CallRec /\ D(b).st = "done" /\ D(b).cmd = call[k].cmd
  BY <1>0, Answering
<1> HIDE DEF A, D
<1>4. /\ call' \in [Calls -> CallRec] /\ call'[k].st = "done" /\ call'[k].cmd = call[k].cmd
      /\ \A j \in Calls \ {k} :
            \/ call'[j] = call[j]
            \/ call[j].st = "joined" /\ call[j].cmd = call[k].cmd /\ call'[j].st = "done" /\ call'[j].cmd = call[k].cmd
  BY <1>1, <1>2, <1>3
<1>5. /\ runs' = [runs EXCEPT ![call[k].at][call[k].cmd] = @ + 1]
      /\ \/ receipts' = [receipts EXCEPT ![call[k].at] = @ \cup {call[k].cmd}] /\ UNCHANGED half
         \/ half' = [half EXCEPT ![call[k].at][call[k].cmd] = @ + 1] /\ UNCHANGED receipts
  BY DEF applyCommand, applyFails
<1> QED BY <1>0, <1>4, <1>5, ExecutedKeeps

\* A process that ends forgets what it had applied, and its calls end with an unknown outcome.
LEMMA LoseKeeps == ASSUME CmdsInv, NEW p \in Procs, Lose(p) PROVE CmdsInv'
<1>0. CmdsTypes /\ UNCHANGED <<ledger, task, draft, left>>
  BY DEF CmdsInv, Lose
<1>1. /\ inFlight' = [inFlight EXCEPT ![p] = [c \in Cmds |-> None]]
      /\ receipts' = [receipts EXCEPT ![p] = {}]
      /\ runs' = [runs EXCEPT ![p] = [c \in Cmds |-> IF Kept(c) THEN runs[p][c] ELSE 0]]
      /\ half' = [half EXCEPT ![p] = [c \in Cmds |-> 0]]
  BY <1>0 DEF Lose, CmdsTypes
<1>2. ASSUME NEW k \in Calls
      PROVE  /\ [call[k] EXCEPT !.st = "done", !.ans = IF @ = None THEN "unknown" ELSE @] \in CallRec
             /\ [call[k] EXCEPT !.st = "done", !.ans = IF @ = None THEN "unknown" ELSE @].st = "done"
             /\ [call[k] EXCEPT !.st = "done", !.ans = IF @ = None THEN "unknown" ELSE @].cmd = call[k].cmd
             /\ [call[k] EXCEPT !.st = "done", !.ans = IF @ = None THEN "unknown" ELSE @].ans \in {call[k].ans, "unknown"}
             /\ call[k] \in CallRec
  <2>1. "unknown" \in Answers /\ call[k] \in CallRec
    BY <1>0 DEF CmdsTypes, Answers
  <2> QED BY <2>1, Answering
<1>3. /\ call' \in [Calls -> CallRec]
      /\ \A k \in Calls : IF call[k].at = p /\ call[k].st # "done"
                          THEN call'[k].st = "done" /\ call'[k].cmd = call[k].cmd /\ call'[k].ans \in {call[k].ans, "unknown"}
                          ELSE call'[k] = call[k]
  BY <1>2 DEF Lose
<1>4. /\ runs' \in [Procs -> [Cmds -> Nat]] /\ \A q \in Procs \ {p} : runs'[q] = runs[q]
      /\ \A c \in Cmds : runs'[p][c] = IF Kept(c) THEN runs[p][c] ELSE 0
      /\ half' \in [Procs -> [Cmds -> Nat]] /\ (\A q \in Procs \ {p} : half'[q] = half[q]) /\ \A c \in Cmds : half'[p][c] = 0
  BY <1>0, <1>1 DEF CmdsTypes
<1>5. CmdsTypes'
  BY <1>0, <1>1, <1>3, <1>4 DEF CmdsTypes
<1>6. \A c \in Cmds : Kept(c) => /\ HasRun(c)' <=> HasRun(c)
                                 /\ \A q \in Procs : runs'[q][c] = runs[q][c]
  BY <1>0, <1>4 DEF HasRun
<1>7. \A q \in Procs \ {p} : inFlight'[q] = inFlight[q] /\ receipts'[q] = receipts[q]
  BY <1>0, <1>1 DEF CmdsTypes
<1>8. ASSUME NEW k \in Calls PROVE CallOK(k)'
  <2>0. CallOK(k)
    BY CallsOf
  <2>1. CASE call[k].at = p /\ call[k].st # "done"
    <3>1. call[k].st = "none" => call'[k].ans \in {None, "unknown"} /\ call'[k].cmd = call[k].cmd
      BY <1>3, <2>0, <2>1 DEF CallOK
    <3>2. call[k].st # "none"
      BY <2>0, <2>1, NoneAssumption DEF CallOK
    <3> QED BY <1>0, <1>3, <1>6, <2>0, <2>1, <3>1, <3>2 DEF CallOK, Holding, Ran
  <2>2. CASE ~(call[k].at = p /\ call[k].st # "done")
    <3>1. call'[k] = call[k] /\ (call[k].st \in Holding \cup {"applying"} => call[k].at # p)
      BY <1>3, <2>2 DEF Holding
    <3>2. call[k].st \in Holding => call[k].cmd \in Cmds /\ Kept(call[k].cmd)
      BY <2>0 DEF CallOK, Holding
    <3>3. call[k].st = "applying" => /\ call[k].at \in Procs \ {p} /\ inFlight[call[k].at][call[k].cmd] = k
                                     /\ call[k].cmd \notin receipts[call[k].at]
      BY <2>0, <3>1 DEF CallOK
    <3> QED BY <1>0, <1>6, <1>7, <2>0, <3>1, <3>2, <3>3, SameCall
  <2> QED BY <2>1, <2>2
<1>9. HolderIsAlone'
  <2>1. \A j \in Calls : call'[j].st \in Holding => call[j].st \in Holding /\ call'[j].cmd = call[j].cmd
    BY <1>3 DEF Holding
  <2> QED BY <2>1 DEF CmdsInv, HolderIsAlone
<1>10. LedgersOK'
  <2>1. ASSUME NEW d \in Cmds PROVE LedgerOK(d)' /\ \A q \in Procs : RunsOK(q, d)'
    <3>0. LedgerOK(d) /\ \A q \in Procs : RunsOK(q, d)
      BY DEF CmdsInv, LedgersOK
    <3>1. LedgerOK(d)'
      BY <1>0, <1>6, <3>0 DEF LedgerOK
    <3>2. RunsOK(p, d)'
      BY <1>4, <3>0 DEF RunsOK, CmdsTypes
    <3>3. \A q \in Procs \ {p} : RunsOK(q, d)'
      BY <1>4, <1>7, <3>0 DEF RunsOK
    <3> QED BY <3>1, <3>2, <3>3
  <2> QED BY <1>0, <2>1 DEF LedgersOK, CmdsInv
<1>11. NoneTold'
  <2>1. \A j \in Calls : call'[j].cmd = call[j].cmd /\ call'[j].ans \in {call[j].ans, "unknown"}
                         /\ (call'[j].st = "drafted" => call[j].st = "drafted")
    BY <1>3
  <2> QED BY <2>1 DEF CmdsInv, NoneTold, Ran
<1> QED BY <1>0, <1>5, <1>8, <1>9, <1>10, <1>11, DecisionStill DEF CmdsInv

\* The candidate is edited and decided, the task is shown, confirmed and executed.
LEMMA TaskKeeps ==
    ASSUME CmdsInv,
           \/ EditDraft \/ DecideOnPanel
           \/ \E c \in Cmds : validateTarget(c) \/ confirm(c) \/ loadCandidate(c) \/ approveCandidate(c)
                              \/ writeApprovalDecision(c)
    PROVE  CmdsInv'
<1>0. /\ UNCHANGED <<call, ledger, inFlight, receipts, runs, half, left>> /\ CmdsTypes /\ DecisionOK /\ draft \in DraftRec
      /\ \A c \in Cmds : task[c] \in [st : TaskStates, ver : Nat, got : Nat]
  BY DEF CmdsInv, CmdsTypes, EditDraft, DecideOnPanel, validateTarget, confirm, loadCandidate, approveCandidate,
         writeApprovalDecision
<1>1. CASE EditDraft \/ DecideOnPanel
  <2>1. UNCHANGED task /\ draft' \in DraftRec /\ draft'.by = draft.by
        /\ (draft'.decided = draft.decided \/ draft.decided = None)
    BY <1>0, <1>1 DEF EditDraft, DecideOnPanel, DraftRec
  <2>2. draft.by # None => draft.decided # None
    BY <1>0, CallAssumption DEF DecisionOK, DraftRec
  <2>3. DecisionOK'
    BY <1>0, <2>1, <2>2 DEF DecisionOK
  <2> QED BY <1>0, <2>1, <2>3, CallsStill DEF CmdsInv, CmdsTypes
<1>2. ASSUME NEW c \in Cmds,
             \/ validateTarget(c) \/ confirm(c) \/ loadCandidate(c) \/ approveCandidate(c) \/ writeApprovalDecision(c)
      PROVE  CmdsInv'
  <2>1. PICK t \in [st : TaskStates \ {"none"}, ver : Nat, got : Nat] :
          /\ task' = [task EXCEPT ![c] = t] /\ t.ver = task[c].ver /\ task[c].st # "none"
          /\ t.st \in {"loaded", "deciding"} => t.got = t.ver
    <3>1. CASE validateTarget(c) \/ confirm(c) \/ writeApprovalDecision(c)
      <4>1. PICK st \in {"valid", "queued", "ended"} : task' = [task EXCEPT ![c] = [task[c] EXCEPT !.st = st]]
                                                        /\ task[c].st # "none"
        BY <1>0, <3>1 DEF validateTarget, confirm, writeApprovalDecision, TaskGoes, CmdsTypes
      <4>2. [task[c] EXCEPT !.st = st] \in [st : TaskStates \ {"none"}, ver : Nat, got : Nat]
        BY <1>0 DEF TaskStates
      <4> QED BY <1>0, <4>1, <4>2
    <3>2. CASE loadCandidate(c)
      <4>1. CASE SameVersion(c)
        <5>1. task' = [task EXCEPT ![c] = [task[c] EXCEPT !.st = "loaded", !.got = draft.ver]] /\ draft.ver = task[c].ver
              /\ task[c].st = "queued"
          BY <1>0, <3>2, <4>1 DEF loadCandidate, SameVersion, CmdsTypes
        <5>2. [task[c] EXCEPT !.st = "loaded", !.got = draft.ver] \in [st : TaskStates \ {"none"}, ver : Nat, got : Nat]
          BY <1>0 DEF TaskStates, DraftRec
        <5> QED BY <1>0, <5>1, <5>2
      <4>2. CASE ~SameVersion(c)
        <5>1. task' = [task EXCEPT ![c] = [task[c] EXCEPT !.st = "failed"]] /\ task[c].st = "queued"
          BY <1>0, <3>2, <4>2 DEF loadCandidate, TaskGoes, CmdsTypes
        <5>2. [task[c] EXCEPT !.st = "failed"] \in [st : TaskStates \ {"none"}, ver : Nat, got : Nat]
          BY <1>0 DEF TaskStates
        <5> QED BY <1>0, <5>1, <5>2
      <4> QED BY <4>1, <4>2
    <3>3. CASE approveCandidate(c)
      <4>1. PICK st \in {"deciding", "failed"} : task' = [task EXCEPT ![c] = [task[c] EXCEPT !.st = st]]
                                                  /\ task[c].st = "loaded"
        BY <1>0, <3>3 DEF approveCandidate, TaskGoes, CmdsTypes
      <4>2. [task[c] EXCEPT !.st = st] \in [st : TaskStates \ {"none"}, ver : Nat, got : Nat]
        BY <1>0 DEF TaskStates
      <4> QED BY <1>0, <4>1, <4>2 DEF DecisionOK
    <3> QED BY <1>2, <3>1, <3>2, <3>3
  <2>2. /\ task'[c] = t /\ \A d \in Cmds \ {c} : task'[d] = task[d]
        /\ task' \in [Cmds -> [st : TaskStates, ver : Nat, got : Nat]]
    BY <1>0, <2>1 DEF CmdsTypes
  <2>3. \/ UNCHANGED draft
        \/ draft' = [draft EXCEPT !.decided = task[c].got, !.by = c] /\ task[c].st = "deciding"
    BY <1>2 DEF validateTarget, confirm, loadCandidate, approveCandidate, writeApprovalDecision
  <2>4. draft' \in DraftRec
    BY <1>0, <2>3 DEF DraftRec
  <2>5. draft'.by # None => task'[draft'.by].st # "none" /\ draft'.decided = task'[draft'.by].ver
    <3>1. CASE UNCHANGED draft
      <4>1. draft.by # None => draft.by \in Cmds
        BY <1>0 DEF DraftRec
      <4> QED BY <1>0, <2>1, <2>2, <3>1, <4>1 DEF DecisionOK
    <3>2. CASE draft' = [draft EXCEPT !.decided = task[c].got, !.by = c] /\ task[c].st = "deciding"
      <4>1. draft'.by = c /\ draft'.decided = task[c].got
        BY <1>0, <3>2 DEF DraftRec
      <4> QED BY <1>0, <2>1, <2>2, <3>2, <4>1 DEF DecisionOK
    <3> QED BY <2>3, <3>1, <3>2
  <2>6. DecisionOK'
    BY <1>0, <2>1, <2>2, <2>5 DEF DecisionOK
  <2> QED BY <1>0, <2>2, <2>4, <2>6, CallsStill DEF CmdsInv, CmdsTypes
<1> QED BY <1>1, <1>2

LEMMA CmdsStill == ASSUME CmdsInv, UNCHANGED cmds PROVE CmdsInv'
BY CallsStill, DecisionStill DEF CmdsInv, CmdsTypes, cmds

LEMMA CommandStepKeeps == ASSUME CmdsInv, CommandStep PROVE CmdsInv'
<1>1. ASSUME NEW k \in Calls, NEW p \in Procs,
             \/ handle(k, p) \/ parseApiDirectEnvelope(k, p) \/ delegatedTaskTextInput(k, p) \/ pairedInput(k, p)
      PROVE  CmdsInv'
  BY <1>1, OutsideKeeps DEF handle, parseApiDirectEnvelope, delegatedTaskTextInput, pairedInput
<1>2. ASSUME NEW k \in Calls, (\E c \in Cmds : Send(k, c)) \/ badReceipt(k) \/ request(k) PROVE CmdsInv'
  BY <1>2, OutsideKeeps
<1>3. ASSUME NEW k \in Calls, NEW p \in Procs, claim(k, p) \/ runCommand(k, p) PROVE CmdsInv'
  BY <1>3, ClaimKeeps, AdmitKeeps
<1>4. ASSUME NEW k \in Calls, runText(k) \/ prepareTarget(k) \/ createRefused(k) \/ runFails(k) PROVE CmdsInv'
  <2>1. CASE runFails(k)
    <3>1. UNCHANGED <<task, runs>> \/ (call[k].st = "prepared" /\ Drafted(k))
      BY <2>1 DEF runFails
    <3> QED BY <2>1, <3>1, RunKeeps, DraftLostKeeps
  <2> QED BY <1>4, <2>1, RunKeeps
<1>5. ASSUME NEW k \in Calls, createDraft(k) \/ settleApplied(k) \/ settleRejected(k) PROVE CmdsInv'
  BY <1>5, CreateKeeps, SettleKeeps
<1>50. ASSUME NEW k \in Calls, autoConfirm(k) \/ autoConfirmRefused(k) PROVE CmdsInv'
  BY <1>50, AutoConfirmKeeps, LeftKeeps
<1>6. ASSUME NEW k \in Calls, applyCommand(k) \/ applyFails(k) PROVE CmdsInv'
  <2>1. CASE applyFails(k)
    <3>1. \/ UNCHANGED <<runs, half>>
          \/ /\ runs' = [runs EXCEPT ![call[k].at][call[k].cmd] = @ + 1]
             /\ half' = [half EXCEPT ![call[k].at][call[k].cmd] = @ + 1]
      BY <2>1 DEF applyFails
    <3> QED BY <2>1, <3>1, ApplyKeeps, ApplyFailsKeeps
  <2> QED BY <1>6, <2>1, ApplyKeeps
<1>7. ASSUME NEW p \in Procs, LedgerUnavailable(p) PROVE CmdsInv'
  BY <1>7, CallsStill, DecisionStill DEF LedgerUnavailable, CmdsInv, CmdsTypes
<1> QED BY <1>1, <1>2, <1>3, <1>4, <1>5, <1>50, <1>6, <1>7, TaskKeeps DEF CommandStep

-----------------------------------------------------------------------------
(* The whole *)

IInv == LifeInv /\ ReadsInv /\ CmdsInv

\* No command touches the life of a process.
LEMMA CommandsLeaveLife == ASSUME CommandStep PROVE UNCHANGED life
<1>1. ASSUME NEW k \in Calls, NEW p \in Procs,
             handle(k, p) \/ parseApiDirectEnvelope(k, p) \/ delegatedTaskTextInput(k, p) \/ pairedInput(k, p)
      PROVE  UNCHANGED life
  <2>1. RefusedBefore(k, p)
    BY <1>1 DEF handle, parseApiDirectEnvelope, delegatedTaskTextInput, pairedInput
  <2> QED BY <2>1 DEF RefusedBefore
<1>2. ASSUME NEW k \in Calls, NEW p \in Procs, claim(k, p) \/ runCommand(k, p) PROVE UNCHANGED life
  BY <1>2 DEF claim, runCommand
<1>3. ASSUME NEW k \in Calls, \E c \in Cmds : Send(k, c) PROVE UNCHANGED life
  BY <1>3 DEF Send
<1>4. ASSUME NEW k \in Calls, request(k) \/ badReceipt(k) \/ runText(k) \/ prepareTarget(k) PROVE UNCHANGED life
  BY <1>4 DEF request, badReceipt, runText, prepareTarget
<1>5. ASSUME NEW k \in Calls, createRefused(k) \/ createDraft(k) \/ settleApplied(k) \/ settleRejected(k)
      PROVE  UNCHANGED life
  BY <1>5 DEF createRefused, createDraft, settleApplied, settleRejected
<1>50. ASSUME NEW k \in Calls, autoConfirm(k) \/ autoConfirmRefused(k) PROVE UNCHANGED life
  BY <1>50 DEF autoConfirm, autoConfirmRefused
<1>6. ASSUME NEW k \in Calls, runFails(k) \/ applyCommand(k) \/ applyFails(k) PROVE UNCHANGED life
  BY <1>6 DEF runFails, applyCommand, applyFails
<1>7. ASSUME NEW c \in Cmds, validateTarget(c) \/ confirm(c) \/ loadCandidate(c) \/ approveCandidate(c) PROVE UNCHANGED life
  BY <1>7 DEF validateTarget, confirm, loadCandidate, approveCandidate
<1>8. ASSUME NEW c \in Cmds, writeApprovalDecision(c) PROVE UNCHANGED life
  BY <1>8 DEF writeApprovalDecision
<1>9. ASSUME (\E p \in Procs : LedgerUnavailable(p)) \/ EditDraft \/ DecideOnPanel PROVE UNCHANGED life
  BY <1>9 DEF LedgerUnavailable, EditDraft, DecideOnPanel
<1> QED BY <1>1, <1>2, <1>3, <1>4, <1>5, <1>50, <1>6, <1>7, <1>8, <1>9, ZenonT(30) DEF CommandStep

LEMMA NextIInv == ASSUME IInv, [Next]_vars PROVE IInv'
<1>0. LifeInv /\ ReadsInv /\ CmdsInv
  BY DEF IInv
<1>1. ASSUME NEW p \in Procs, LifeStep(p), UNCHANGED <<reads, cmds>> PROVE IInv'
  <2>1. LifeInv'
    BY <1>0, <1>1, BuildingKeeps, LockKeeps, EntryKeeps, WorkKeeps DEF LifeStep
  <2> QED BY <1>0, <1>1, <2>1, ReadsStill, CmdsStill DEF IInv
<1>2. ASSUME NEW p \in Procs, startBusinessIfReady(p) PROVE IInv'
  BY <1>0, <1>2, EntryKeeps, ReadsStill, CmdsStill DEF IInv, startBusinessIfReady
<1>3. ASSUME NEW p \in Procs, Ends(p) PROVE IInv'
  <2>1. Dies(p) /\ Forget(p) /\ Lose(p)
    BY <1>3 DEF Ends, Exit, BuildFails, Crash, startAgain
  <2> QED BY <1>0, <2>1, DiesKeeps, ForgetKeeps, LoseKeeps DEF IInv
<1>4. ASSUME NEW p \in Procs, ReadStep(p), UNCHANGED cmds PROVE IInv'
  <2>1. UNCHANGED life
    BY <1>4 DEF ReadStep, FactChanges, publishChanged, observe, emit, publishFails, deliver, currentRuntimeSnapshot,
                applyOwnerSnapshot, applyRoster, applyConfig, saveCheckpoint, restoreCheckpoints,
                refreshConsumerStream, refreshFails
  <2> QED BY <1>0, <1>4, <2>1, LifeStill, ReadStepKeeps, CmdsStill DEF IInv
<1>5. ASSUME ReadEnvironment, UNCHANGED cmds PROVE IInv'
  <2>1. UNCHANGED life
    BY <1>5 DEF ReadEnvironment, OtherTargetApplies, SourceChanges
  <2> QED BY <1>0, <1>5, <2>1, LifeStill, EnvironmentKeeps, CmdsStill DEF IInv
<1>6. ASSUME CommandStep, UNCHANGED reads PROVE IInv'
  <2>1. UNCHANGED life
    BY <1>6, CommandsLeaveLife
  <2> QED BY <1>0, <1>6, <2>1, LifeStill, ReadsStill, CommandStepKeeps DEF IInv
<1>7. CASE UNCHANGED vars
  BY <1>0, <1>7, LifeStill, ReadsStill, CmdsStill DEF IInv, vars
<1> QED BY <1>1, <1>2, <1>3, <1>4, <1>5, <1>6, <1>7 DEF Next

LEMMA Invariance == Spec => []IInv
<1>1. Init => IInv
  BY InitLifeInv, InitReadsInv, InitCmdsInv DEF Init, IInv
<1> QED BY <1>1, NextIInv, PTL DEF Spec

\* Nobody's interactions are open without the writer lock; other work outlives a loss or the stop,
\* but none begins once the lock was given back (writer-lock.ts, automation-service-entry.ts stopService).
THEOREM LockIsGuarding == Spec => []LockGuardsWork
<1>1. IInv => WorkIsExplained
  BY DEF IInv, LifeInv, WorkOK, WorkIsExplained, WriterIsBacked, Unblocked
<1>2. IInv => NoneBeginsAfterRelease
  BY DEF IInv, LifeInv, WorkOK, EntryOK, NoneBeginsAfterRelease
<1>3. IInv => LockGuardsWork
  BY <1>1, <1>2 DEF IInv, LifeInv, LockGuardsWork
<1> QED BY <1>3, Invariance, PTL

\* Of the processes that have heard of every loss at most one lets interactions pass
\* (automation-risk-foundation.ts interactionBlocked).
OneWriter == \A p, q \in Procs : Unblocked(p) /\ Unblocked(q) /\ {p, q} \cap notice = {} => p = q

THEOREM WritersExclude == Spec => []OneWriter
<1>1. IInv => OneWriter
  BY DEF IInv, LifeInv, WriterIsBacked, OneWriter
<1> QED BY <1>1, Invariance, PTL

\* A generation names one value, what counts as ready is announced, what is acknowledged is applied
\* (automation-sync-read-generation-store.ts observe, sync-read-changed-http.ts deliver).
THEOREM OwnedFactKept == Spec => []OwnedFactHolds
<1>1. IInv => GenerationNamesValue
  <2> SUFFICES ASSUME IInv,
                      NEW f \in {observed[p] : p \in Procs} \cup {api, [gen |-> row.gen, val |-> row.val]},
                      NEW g \in {observed[p] : p \in Procs} \cup {api, [gen |-> row.gen, val |-> row.val]},
                      f.gen = g.gen
               PROVE  f.val = g.val
    BY DEF GenerationNamesValue
  <2>1. GenerationsOK
    BY DEF IInv, ReadsInv, OwnerInv
  <2>2. CASE f \in {observed[p] : p \in Procs}
    BY <2>1, <2>2 DEF GenerationsOK, Newest, Agree
  <2>3. CASE f = api
    BY <2>1, <2>3 DEF GenerationsOK, Newest, Agree
  <2>4. CASE f = [gen |-> row.gen, val |-> row.val]
    BY <2>1, <2>4 DEF GenerationsOK, Newest, Agree
  <2> QED BY <2>2, <2>3, <2>4
<1>2. IInv => AnnouncedWhenReady /\ AcknowledgedIsApplied
  BY DEF IInv, ReadsInv, OwnerInv, AnnouncedWhenReady, PublicationOK
<1> QED BY <1>1, <1>2, Invariance, PTL DEF OwnedFactHolds

\* What a lookup hands out as fresh is in the durable state (account-projection-store.ts
\* applyOwnerSnapshot, automation-composition-root.ts refreshConsumerStream).
THEOREM ReadyIsDurable == Spec => []ReadyIsBacked
<1>1. IInv => ReadyIsBacked
  <2> SUFFICES ASSUME IInv, NEW p \in Procs
               PROVE  /\ accountFor(p).value # None /\ fetch[p]["roster"] = None =>
                            accountFor(p).value <= checkpoint["roster"] /\ accountFor(p).value <= projection
                      /\ businessConfig(p).state = "fresh" /\ fetch[p]["config"] = None =>
                            businessConfig(p).value <= checkpoint["config"]
    BY DEF ReadyIsBacked
  <2>1. MirrorOK(p) /\ ConsumerTypes /\ checkpoint["roster"] <= projection /\ "roster" \in Streams
    BY DEF IInv, ReadsInv, ConsumerInv, Streams
  <2>2. mirror[p]["roster"].cur \in Nat /\ checkpoint["roster"] \in Nat /\ projection \in Nat
    BY <2>1, MirrorTypes
  <2>3. accountFor(p).value # None => accountFor(p).value = mirror[p]["roster"].cur
    BY DEF accountFor
  <2>4. businessConfig(p).state = "fresh" => mirror[p]["config"].ready /\ businessConfig(p).value = mirror[p]["config"].cur
    BY DEF businessConfig, deliveryState
  <2> QED BY <2>1, <2>2, <2>3, <2>4 DEF MirrorOK
<1> QED BY <1>1, Invariance, PTL

\* A text command is executed at most once over retries, restarts and processes, one in memory once
\* more for each failure that had an effect, and an answer says what happened but for slash commands
\* that were left (operator-command-receiver.ts createFromText, service.ts createDraft).
THEOREM CommandIsRunOnce == Spec => []CommandRunsOnce
<1>1. IInv => CommandRunsOnce
  <2> SUFFICES ASSUME IInv PROVE CommandRunsOnce
    OBVIOUS
  <2>0. CmdsTypes /\ LedgersOK /\ \A k \in Calls : CallOK(k)
    BY DEF IInv, CmdsInv
  <2>1. \A c \in Cmds : HasRun(c) /\ Kept(c) <=> RunsOf(c) # {}
    BY DEF HasRun, RunsOf
  <2>2. ASSUME NEW c \in Cmds PROVE Cardinality(RunsOf(c)) <= 1
    <3>1. CASE RunsOf(c) = {}
      BY <3>1, FS_EmptySet
    <3>2. CASE RunsOf(c) # {}
      <4>1. PICK p \in Procs : p \in RunsOf(c)
        BY <3>2 DEF RunsOf
      <4>2. RunsOf(c) = {p}
        BY <2>0, <4>1 DEF RunsOf, LedgersOK, LedgerOK
      <4> QED BY <4>2, FS_Singleton
    <3> QED BY <3>1, <3>2
  <2>3. \A k \in Calls :
          call[k].cmd \in Cmds /\ Kept(call[k].cmd) =>
              /\ Ran(call[k].ans) => RunsOf(call[k].cmd) # {}
              /\ call[k].ans = "rejected" => RunsOf(call[k].cmd) = {} \/ call[k].cmd \in left
    BY <2>0, <2>1 DEF CallOK, LedgersOK, LedgerOK
  <2>4. \A p \in Procs, c \in Cmds : runs[p][c] <= 1 + half[p][c] /\ (Kept(c) => half[p][c] = 0)
    BY <2>0 DEF LedgersOK, RunsOK
  <2>5. ASSUME NEW c \in left
        PROVE  KindOf[c] = "slash" /\ \A k \in Calls : call[k].cmd = c => ~Ran(call[k].ans)
    <3>1. KindOf[c] = "slash" /\ c \in Cmds
      BY <2>0 DEF LedgersOK, CmdsTypes
    <3>2. Kept(c)
      BY <3>1 DEF Kept
    <3> QED BY <2>0, <3>1, <3>2 DEF CallOK
  <2> QED BY <2>2, <2>3, <2>4, <2>5 DEF CommandRunsOnce
<1> QED BY <1>1, Invariance, PTL

\* A decision a task wrote is about the version that was confirmed (automation-main.ts prepareTarget,
\* executors.ts execute).
THEOREM DecisionIsConfirmed == Spec => []DecidedAsConfirmed
<1>1. IInv => DecidedAsConfirmed
  BY DEF IInv, CmdsInv, DecisionOK, DecidedAsConfirmed
<1> QED BY <1>1, Invariance, PTL

=============================================================================
