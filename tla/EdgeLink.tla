------------------------------ MODULE EdgeLink ------------------------------
(***************************************************************************)
(* The connections of the edges: the hello that is awaited while its       *)
(* socket may close, the runtime of each connection and the replacement of *)
(* an older one, the pause of an edge whose page is blocked with its alert *)
(* and its assisted clicks, the commands pushed to an edge, and the facts  *)
(* the message handler records from its frames.                            *)
(*                                                                         *)
(* Sources: src/src/comm/ws-server.ts, handler.ts, captcha-coordinator.ts, *)
(* captcha-assist.ts, operation-registry.ts, protocol.ts,                  *)
(* edge-resume-command-receiver.ts, src/src/automation-edge-access.ts,     *)
(* src/src/orchestrator/connection-runtime.ts, src/src/alerts.             *)
(*                                                                         *)
(* Frames of one socket are handled concurrently: every await of a handler *)
(* ends a step here.  Abstractions.  A page is blocked or not; a snapshot  *)
(* is its presence; an envelope is its class.  The edge is external: it    *)
(* reports a blocked page once and its end once, over an open socket.      *)
(***************************************************************************)
EXTENDS Naturals, Sequences, SequencesExt, Functions

CONSTANTS
    Sockets, Edges, NoNote,
    EdgeOf,          \* the edge that opens each socket
    Activities,      \* ids of searches
    Notes,           \* notes and videos
    MaxPending,      \* searches remembered per connection, 256 in the code
    MaxInputs        \* bound: frames, calls and closes from outside

ASSUME EdgeAssumption == EdgeOf \in [Sockets -> Edges] /\ MaxPending \in Nat \ {0} /\ NoNote \notin Notes

VARIABLES
    sock,       \* the state of each socket
    hello,      \* how far its hello has come
    edges,      \* the server's map of welcomed connections
    rt,         \* bySession: the runtime of each connection
    work,       \* sockets on which a task lease or command sequence runs
    paused,     \* pausedEdges
    detect, clear,      \* captcha frames of each edge in work
    alerted, alerts,    \* the alert cooldown, and open alert rows
    incident,   \* the assist incident of each edge
    recovery,   \* click and lease of the incident
    blocked,    \* the page of each edge
    search,     \* pending and completed searches of each connection
    view,       \* feed video and Reel frames of each connection
    note,       \* the current note of each connection
    inputs,
    facts,      \* history: searches, views and the last like recorded
    excuse      \* history: what overtook what

linkVars == <<sock, hello, edges, rt, work, paused, detect, clear, alerted, alerts, incident,
          recovery, blocked, search, view, note, inputs, facts, excuse>>

link == <<sock, hello, edges, rt, work>>
pause == <<paused, detect, clear, alerted, alerts, incident, blocked>>
page == <<pause, recovery>>
session == <<search, view, note, facts>>

SocketStates == {"none", "open", "closing", "closed"}
HelloStates == {"none", "handshake", "welcoming", "done", "refused"}
RuntimeStates == {"none", "transport", "welcomed", "active"}
IncidentStates == {"none", "detected", "capture_pending", "ready", "click_pending", "cleared",
                   "still_blocked", "failed", "expired"}
ClickResults == {"cleared", "still_blocked", "failed"}
SearchOutcomes == {"results_ready", "no_results", "failed_after_submit", "not_submitted", "invalid"}

LinkInit ==
    /\ sock = [s \in Sockets |-> "none"] /\ hello = [s \in Sockets |-> "none"]
    /\ edges = {} /\ rt = [s \in Sockets |-> "none"] /\ work = {}
    /\ paused = {} /\ detect = [e \in Edges |-> <<>>] /\ clear = [e \in Edges |-> 0]
    /\ alerted = {} /\ alerts = [e \in Edges |-> 0]
    /\ incident = [e \in Edges |-> "none"]
    /\ recovery = [e \in Edges |-> [shot |-> FALSE, asking |-> 0, lease |-> FALSE, entry |-> FALSE, freeing |-> FALSE]]
    /\ blocked = {}
    /\ search = [s \in Sockets |-> [pending |-> <<>>, completed |-> <<>>]]
    /\ view = [s \in Sockets |-> [counted |-> {}, reel |-> NoNote, storing |-> <<>>]]
    /\ note = [s \in Sockets |-> NoNote]
    /\ inputs = 0
    /\ facts = [sent |-> {}, search |-> <<>>, view |-> <<>>, like |-> {}]
    /\ excuse = [orphan |-> {}, captcha |-> {}, overlap |-> {}]

Input == inputs < MaxInputs /\ inputs' = inputs + 1

Live(e) == {s \in edges : EdgeOf[s] = e /\ sock[s] = "open"}

-----------------------------------------------------------------------------
(* Connections *)

Connect(s) ==
    /\ sock[s] = "none" /\ Input
    /\ sock' = [sock EXCEPT ![s] = "open"]
    /\ UNCHANGED <<hello, edges, rt, work, page, session, excuse>>

\* The fields of the session are set before anything is awaited.
Hello(s) ==
    /\ sock[s] = "open" /\ hello[s] = "none"
    /\ hello' = [hello EXCEPT ![s] = "handshake"]
    /\ UNCHANGED <<sock, edges, rt, work, page, session, inputs, excuse>>

\* A missing or retired account, a missing edge id, a wrong platform, or an authority that throws.
HandshakeRefused(s) ==
    /\ hello[s] = "handshake"
    /\ hello' = [hello EXCEPT ![s] = "refused"]
    /\ sock' = [sock EXCEPT ![s] = IF @ = "open" THEN "closing" ELSE @]
    /\ UNCHANGED <<edges, rt, work, page, session, inputs, excuse>>

\* The awaits of onHandshake end and the runtime is registered, whether or not the socket is still open.
onHandshake(s) ==
    /\ hello[s] = "handshake"
    /\ hello' = [hello EXCEPT ![s] = "welcoming"]
    /\ rt' = [rt EXCEPT ![s] = "transport"]
    /\ excuse' = [excuse EXCEPT !.orphan = IF sock[s] = "closed" THEN @ \cup {s} ELSE @]
    /\ UNCHANGED <<sock, edges, work, page, session, inputs>>

\* The other welcomed connections of the edge, which a new one replaces.
Replaced(s) == {t \in Sockets \ {s} : rt[t] \in {"welcomed", "active"} /\ EdgeOf[t] = EdgeOf[s]}

\* Mutant: the replaced connections stay open.
closeNone(ts) == sock

closeEdge(ts) == [t \in Sockets |-> IF t \in ts \cap edges /\ sock[t] = "open" THEN "closing" ELSE sock[t]]

\* The pending offboard and the runtime controls are read, the connection is registered, the welcome
\* sent and onWelcomed run in one turn; a dispatcher is built unless the platform has no browsing or it throws.
Welcome(s) ==
    /\ hello[s] = "welcoming"
    /\ hello' = [hello EXCEPT ![s] = "done"]
    /\ edges' = edges \cup {s}
    /\ IF rt[s] = "transport"
       THEN /\ \E st \in {"welcomed", "active"} : rt' = [rt EXCEPT ![s] = st]
            /\ sock' = closeEdge(Replaced(s))
       ELSE UNCHANGED <<rt, sock>>
    /\ UNCHANGED <<work, page, session, inputs, excuse>>

\* By session id for the map and the runtime, but by edge id for leases and command sequences.
onClose(s) ==
    /\ sock' = [sock EXCEPT ![s] = "closed"]
    /\ edges' = edges \ {s}
    /\ work' = IF hello[s] = "none" THEN work ELSE {t \in work : EdgeOf[t] # EdgeOf[s]}
    /\ rt' = [rt EXCEPT ![s] = "none"]
    /\ recovery' = IF hello[s] = "none" THEN recovery ELSE [recovery EXCEPT ![EdgeOf[s]].lease = FALSE]
    /\ UNCHANGED <<hello, pause, session, excuse>>

PeerClose(s) == sock[s] = "open" /\ Input /\ onClose(s)

CloseEvent(s) == sock[s] = "closing" /\ onClose(s) /\ UNCHANGED inputs

-----------------------------------------------------------------------------
(* Pushing to an edge *)

\* The classes the registry of operations, the pause and the gate tell apart: task.release is a control
\* envelope, the end of a session and the offboarding of a Wechat account are of the class that ends things.
Classes == {"page", "lease", "assist", "control", "end"}
bypassPause(cl) == cl # "page"
GateStates == {"allowed", "blocked", "unknown"}
canPushToEdge(cl, gate) ==
    cl = "end" \/ gate = "allowed" \/ (gate = "unknown" /\ cl \in {"assist", "control"})

\* The connections pushToEdges sends to.
Targets(e, cl, gate) ==
    {s \in Live(e) : canPushToEdge(cl, gate) /\ (bypassPause(cl) \/ e \notin paused)}

\* A lease or a command sequence starts.
StartWork(e) == \E cl \in {"page", "lease"}, gate \in GateStates :
    /\ Input /\ Targets(e, cl, gate) # {}
    /\ work' = work \cup Targets(e, cl, gate)
    /\ UNCHANGED <<sock, hello, edges, rt, page, session, excuse>>

EndWork(s) ==
    /\ s \in work /\ work' = work \ {s}
    /\ UNCHANGED <<sock, hello, edges, rt, page, session, inputs, excuse>>

\* Oldest out at the limit.
Remember(q, a) == Append(IF Len(q) >= MaxPending THEN Tail(q) ELSE q, a)

SendSearch(e, a) == \E gate \in GateStates :
    /\ Input /\ a \notin facts.sent
    /\ facts' = [facts EXCEPT !.sent = @ \cup {a}]
    /\ search' = [s \in Sockets |->
           IF s \in Targets(e, "page", gate)
           THEN [search[s] EXCEPT !.pending = Remember(@, a)] ELSE search[s]]
    /\ UNCHANGED <<link, page, view, note, excuse>>

-----------------------------------------------------------------------------
(* Frames that record facts *)

Framing(s) == sock[s] = "open" /\ hello[s] # "none" /\ Input

\* The ids are the keys of a map and a set: each is there once.
Delete(q, a) == RemoveAt(q, CHOOSE i \in DOMAIN q : q[i] = a)

\* Without an outcome the protocol names the id is not looked at; with one it is used up,
\* and the fact is recorded if it was known and the receipt does not contradict itself.
SearchCompleted(s, a, outcome) ==
    LET known == a \in Range(search[s].pending) /\ a \notin Range(search[s].completed)
    IN /\ Framing(s) /\ a \in facts.sent
       /\ search' = IF outcome # "invalid" /\ known
                    THEN [search EXCEPT ![s] = [pending |-> Delete(@.pending, a),
                                                completed |-> Remember(@.completed, a)]]
                    ELSE search
       /\ \E contradicts \in BOOLEAN :
            facts' = IF known /\ outcome \notin {"invalid", "not_submitted"} /\ ~contradicts
                     THEN [facts EXCEPT !.search = Append(@, a)] ELSE facts
       /\ UNCHANGED <<link, page, view, note, excuse>>

\* A Reel is on the screen: each report of one counts.
PageReel(s, v) ==
    /\ Framing(s)
    /\ view' = [view EXCEPT ![s].storing = Append(@, [v |-> v, from |-> "reels"])]
    /\ UNCHANGED <<link, page, search, note, facts, excuse>>

\* Any other list ends the Reel; one video on a feed page (v) is counted unless it was.
PageCards(s, v) ==
    /\ Framing(s)
    /\ view' = [view EXCEPT ![s].reel = NoNote,
                            ![s].storing = IF v \in view[s].counted \cup {NoNote} THEN @
                                           ELSE Append(@, [v |-> v, from |-> "feed"])]
    /\ excuse' = [excuse EXCEPT !.overlap =
           IF \E i \in DOMAIN view[s].storing : view[s].storing[i] = [v |-> v, from |-> "feed"]
           THEN @ \cup {<<s, v>>} ELSE @]
    /\ UNCHANGED <<link, page, search, note, facts>>

NoteDetail(s, v) ==
    /\ Framing(s)
    /\ note' = [note EXCEPT ![s] = v]
    /\ view' = IF v \in view[s].counted \cup {view[s].reel} THEN view
               ELSE [view EXCEPT ![s].storing = Append(@, [v |-> v, from |-> "detail"])]
    /\ UNCHANGED <<link, page, search, facts, excuse>>

\* enqueueRiskFact is done, in any order, or throws; the mark is set afterwards.
FactStored(s) == \E i \in DOMAIN view[s].storing : \E ok \in BOOLEAN :
    LET f == view[s].storing[i]
    IN /\ view' = [view EXCEPT ![s] =
           [counted |-> IF ok /\ f.from = "feed" THEN @.counted \cup {f.v} ELSE @.counted,
            reel |-> IF ok /\ f.from = "reels" THEN f.v ELSE @.reel, storing |-> RemoveAt(@.storing, i)]]
       /\ facts' = IF ok THEN [facts EXCEPT !.view = Append(@, [s |-> s, v |-> f.v, from |-> f.from,
                                                     again |-> f.v \in view[s].counted])]
                   ELSE facts
       /\ UNCHANGED <<link, page, search, note, inputs, excuse>>

\* What the receipt of a like may carry besides its outcome.
LikeReceipts == [note : Notes, named : BOOLEAN, witness : {"none", "bare", "full"}, surface : {"inline", "detail"}]

\* The witness is held against the card of the current note; a bare one agrees with any card.
witnessVerdict(s, r) ==
    IF note[s] = NoNote THEN "unknown"
    ELSE IF r.witness = "full" /\ note[s] # r.note THEN "mismatch" ELSE "match"

\* Mutant: an unnamed receipt is put down to the current note, as on a detail surface.
attributeToCurrent(s, r) == IF r.named THEN r.note ELSE note[s]

attributeNoteScopedNoteId(s, r) ==
    LET derived == IF r.named THEN r.note ELSE NoNote
    IN IF r.witness # "none"
       THEN IF witnessVerdict(s, r) # "match" THEN NoNote
            ELSE IF derived # NoNote THEN derived ELSE note[s]
       ELSE IF derived # NoNote \/ r.surface = "inline" THEN derived ELSE note[s]

LikeCompleted(s, r) ==
    /\ Framing(s)
    /\ facts' = [facts EXCEPT !.like = {[receipt |-> r, target |-> attributeNoteScopedNoteId(s, r)]}]
    /\ UNCHANGED <<link, page, search, view, note, excuse>>

-----------------------------------------------------------------------------
(* A blocked page: captcha.detected and captcha.cleared *)

pauseEdge(e) == paused \cup {e}
resumeEdge(e) == paused \ {e}

Reporting(e) == \E s \in Sockets : EdgeOf[s] = e /\ sock[s] = "open" /\ hello[s] # "none"

\* The report starts to be handled, or there is no connection to send it on.
Blocked(e) ==
    /\ e \notin blocked /\ Input
    /\ blocked' = blocked \cup {e}
    /\ detect' = IF Reporting(e) THEN [detect EXCEPT ![e] = Append(@, "sample")] ELSE detect
    /\ UNCHANGED <<link, session, paused, clear, alerted, alerts, incident, recovery, excuse>>

\* recordOverlaySample, whether or not it succeeds.
SampleRecorded(e) == \E i \in DOMAIN detect[e] :
    /\ detect[e][i] = "sample"
    /\ detect' = [detect EXCEPT ![e][i] = "signal"]
    /\ UNCHANGED <<link, session, paused, clear, alerted, alerts, incident, recovery, blocked, inputs, excuse>>

\* The state after requestCapture: a screen that shows a snapshot may be kept.
requestCapture(e, sent) == IF sent THEN "capture_pending" ELSE "detected"

\* The incident a new report renews; a cleared or expired one is followed by another, without a snapshot.
findActiveByEdge(e) == incident[e] \notin {"none", "cleared", "expired"}

openIncident(e, gate) ==
    /\ incident' = [incident EXCEPT ![e] = requestCapture(e, Targets(e, "assist", gate) # {})]
    /\ recovery' = [recovery EXCEPT ![e].shot = @ /\ findActiveByEdge(e)]

maybeAlert(e, i) ==
    /\ detect' = [detect EXCEPT ![e] = IF e \in alerted THEN RemoveAt(@, i) ELSE [@ EXCEPT ![i] = "raise"]]
    /\ alerted' = alerted \cup {e}

\* The risk signal is applied or fails; then the edge is paused, the incident opened or renewed
\* and the cooldown of the alert taken in one turn.
SignalApplied(e) == \E i \in DOMAIN detect[e] : \E gate \in GateStates :
    /\ detect[e][i] = "signal"
    /\ paused' = pauseEdge(e)
    /\ openIncident(e, gate)
    /\ maybeAlert(e, i)
    /\ UNCHANGED <<link, session, clear, alerts, blocked, inputs, excuse>>

AlertRaised(e) == \E i \in DOMAIN detect[e] : \E ok \in BOOLEAN :
    /\ detect[e][i] = "raise"
    /\ detect' = [detect EXCEPT ![e] = RemoveAt(@, i)]
    /\ alerts' = [alerts EXCEPT ![e] = IF ok THEN @ + 1 ELSE @]
    /\ UNCHANGED <<link, session, paused, clear, alerted, incident, recovery, blocked, inputs, excuse>>

\* Mutant: the edge is not resumed when the overlay is gone.
UnblockedStaysPaused(e) ==
    /\ e \in blocked /\ Input /\ Reporting(e)
    /\ blocked' = blocked \ {e}
    /\ clear' = [clear EXCEPT ![e] = @ + 1]
    /\ UNCHANGED <<link, session, paused, detect, alerted, alerts, incident, recovery, excuse>>

\* Resume, incident and cooldown at once; the alert rows after an await.
Unblocked(e) ==
    /\ e \in blocked /\ Input
    /\ blocked' = blocked \ {e}
    /\ IF Reporting(e)
       THEN /\ paused' = resumeEdge(e)
            /\ incident' = [incident EXCEPT ![e] = IF @ = "none" THEN @ ELSE "cleared"]
            /\ alerted' = alerted \ {e}
            /\ clear' = [clear EXCEPT ![e] = @ + 1]
       ELSE UNCHANGED <<paused, incident, alerted, clear>>
    /\ excuse' = [excuse EXCEPT !.captcha =
           IF ~Reporting(e) \/ detect[e] # <<>> THEN @ \cup {e} ELSE @]
    /\ UNCHANGED <<link, session, detect, alerts, recovery>>

AlertsResolved(e) == \E ok \in BOOLEAN :
    /\ clear[e] > 0
    /\ clear' = [clear EXCEPT ![e] = @ - 1]
    /\ alerts' = [alerts EXCEPT ![e] = IF ok THEN 0 ELSE @]
    /\ excuse' = [excuse EXCEPT !.captcha = IF ok THEN @ ELSE @ \cup {e}]
    /\ UNCHANGED <<link, session, paused, detect, alerted, incident, recovery, blocked, inputs>>

CooldownOver(e) ==
    /\ e \in alerted /\ Input /\ alerted' = alerted \ {e}
    /\ UNCHANGED <<link, session, paused, detect, clear, alerts, incident, recovery, blocked, excuse>>

\* An operator resumes the edges of an account: the ones in the server's map.
resumeEdgesForAccount(e) ==
    /\ e \in paused /\ Input /\ \E s \in edges : EdgeOf[s] = e
    /\ paused' = resumeEdge(e)
    /\ UNCHANGED <<link, session, detect, clear, alerted, alerts, incident, recovery, blocked, excuse>>

-----------------------------------------------------------------------------
(* Assisted clicks *)

Assist == <<link, session, paused, detect, clear, alerted, alerts, blocked, excuse>>

onSnapshot(e) ==
    /\ findActiveByEdge(e) /\ Reporting(e) /\ Input
    /\ incident' = [incident EXCEPT ![e] = "ready"]
    /\ recovery' = [recovery EXCEPT ![e].shot = TRUE]
    /\ UNCHANGED Assist

markExpired(e) ==
    /\ findActiveByEdge(e) /\ Input
    /\ incident' = [incident EXCEPT ![e] = "expired"]
    /\ UNCHANGED <<Assist, recovery>>

\* The checks of submitClick, then the wait for a recovery lease.
submitClick(e) ==
    /\ incident[e] \notin {"none", "expired"} /\ recovery[e].shot /\ ~recovery[e].entry /\ Input
    /\ recovery' = [recovery EXCEPT ![e].asking = @ + 1]
    /\ UNCHANGED <<Assist, incident>>

\* The edge grants one lease at a time; the click goes out in the same turn.
LeaseGranted(e) == \E gate \in GateStates :
    LET sent == Targets(e, "assist", gate) # {}
    IN /\ recovery[e].asking > 0 /\ ~recovery[e].lease /\ Reporting(e)
       /\ incident' = [incident EXCEPT ![e] = IF sent THEN "click_pending" ELSE "ready"]
       /\ recovery' = [recovery EXCEPT ![e].asking = @ - 1, ![e].lease = TRUE,
                                       ![e].entry = @ \/ sent, ![e].freeing = @ \/ ~sent]
       /\ UNCHANGED <<Assist, inputs>>

LeaseRefused(e) ==
    /\ recovery[e].asking > 0
    /\ recovery' = [recovery EXCEPT ![e].asking = @ - 1]
    /\ UNCHANGED <<Assist, incident, inputs>>

releaseRecoveryLease(e) ==
    recovery' = [recovery EXCEPT ![e].entry = FALSE, ![e].freeing = @ \/ recovery[e].entry]

\* Whatever state the incident has.
onClickResult(e) == \E st \in ClickResults :
    /\ recovery[e].entry /\ Reporting(e)
    /\ incident' = [incident EXCEPT ![e] = st]
    /\ releaseRecoveryLease(e)
    /\ UNCHANGED <<Assist, inputs>>

RecoveryTimer(e) ==
    /\ recovery[e].entry /\ releaseRecoveryLease(e)
    /\ UNCHANGED <<Assist, incident, inputs>>

LeaseReleased(e) ==
    /\ recovery[e].freeing
    /\ recovery' = [recovery EXCEPT ![e].freeing = FALSE, ![e].lease = FALSE]
    /\ UNCHANGED <<Assist, incident, inputs>>

LinkNext ==
    \/ \E s \in Sockets :
        \/ Connect(s) \/ Hello(s) \/ HandshakeRefused(s) \/ onHandshake(s) \/ Welcome(s)
        \/ PeerClose(s) \/ CloseEvent(s) \/ EndWork(s) \/ FactStored(s)
        \/ \E a \in Activities, o \in SearchOutcomes : SearchCompleted(s, a, o)
        \/ \E n \in Notes : PageReel(s, n) \/ NoteDetail(s, n)
        \/ \E n \in Notes \cup {NoNote} : PageCards(s, n)
        \/ \E r \in LikeReceipts : LikeCompleted(s, r)
    \/ \E e \in Edges :
        \/ StartWork(e) \/ Blocked(e) \/ SampleRecorded(e) \/ SignalApplied(e) \/ AlertRaised(e)
        \/ Unblocked(e) \/ AlertsResolved(e) \/ CooldownOver(e) \/ resumeEdgesForAccount(e)
        \/ onSnapshot(e) \/ markExpired(e) \/ submitClick(e) \/ LeaseGranted(e) \/ LeaseRefused(e)
        \/ onClickResult(e) \/ RecoveryTimer(e) \/ LeaseReleased(e)
        \/ \E a \in Activities : SendSearch(e, a)

LinkSpec == LinkInit /\ [][LinkNext]_linkVars

-----------------------------------------------------------------------------
\* Type correctness; the pending and completed searches stay within their cap.
LinkTypeOK ==
    /\ sock \in [Sockets -> SocketStates] /\ hello \in [Sockets -> HelloStates]
    /\ rt \in [Sockets -> RuntimeStates] /\ edges \subseteq Sockets /\ work \subseteq Sockets
    /\ paused \subseteq Edges /\ alerted \subseteq Edges /\ blocked \subseteq Edges
    /\ incident \in [Edges -> IncidentStates]
    /\ \A s \in Sockets : Len(search[s].pending) <= MaxPending /\ Len(search[s].completed) <= MaxPending

\* At most one open connection of an edge is registered, and a runtime that outlives its socket is one
\* whose socket closed inside its hello, before onHandshake put it into the registry.
OneDriver ==
    /\ \A e \in Edges : \A s, t \in Live(e) : s = t
    /\ \A s \in Sockets : rt[s] # "none" => sock[s] # "closed" \/ s \in excuse.orphan

\* No lease or command sequence outlives the connection it was started on (onClose of the edge access).
WorkEndsWithConnection == \A s \in work : sock[s] # "closed"

\* Once its frames are handled, an edge is paused and has open alerts only while its page is blocked, unless
\* captcha.cleared overtook captcha.detected, could not be sent, or could not be stored.
PauseSettles == \A e \in Edges :
    detect[e] = <<>> /\ clear[e] = 0 /\ e \notin excuse.captcha
        => (e \in paused \/ alerts[e] > 0 => e \in blocked)

\* A granted recovery lease always has someone who will release it.
LeaseTracked == \A e \in Edges : recovery[e].lease => recovery[e].entry \/ recovery[e].freeing

\* What a connection drives, starts and borrows ends with it (OneDriver, WorkEndsWithConnection, LeaseTracked).
ConnectionOwnsWork == OneDriver /\ WorkEndsWithConnection /\ LeaseTracked

\* A search is recorded once however often its receipt arrives; a feed video once per connection unless its
\* frames overlap; and a like is recorded for the note that was liked, unless the receipt says nothing of it.
FactsAreTrue ==
    /\ \A i, j \in DOMAIN facts.search : facts.search[i] = facts.search[j] => i = j
    /\ \A i \in DOMAIN facts.view : LET f == facts.view[i] IN
          f.again => f.from # "feed" \/ <<f.s, f.v>> \in excuse.overlap
    /\ \A l \in facts.like : l.target \in {NoNote, l.receipt.note} \/ l.receipt.witness = "bare"
          \/ (l.receipt.surface = "detail" /\ ~l.receipt.named)

=============================================================================
