--------------------------- MODULE MCEventOutbox ---------------------------
(* Instances of EventOutbox for TLC. *)
EXTENDS EventOutbox, TLC

CONSTANTS t1, t2, t3, t4, panel, audit, c1, w1, w2

MCTopic == [t \in Txs |-> IF t \in {t3, t4} THEN audit ELSE panel]
MCConsumerOf == [w \in Workers |-> c1]
MCSubs == [c \in Consumers |-> Topics]
MCPanelRequired == [tp \in Topics |-> IF tp = panel THEN Consumers ELSE {}]

\* Bounds: one fault or one crash; the second instance runs one plain round each
\* time it is started; nobody prunes the other topic; of the two panel events
\* the one that emits first is called t1; the poison event comes
\* beside one instance or one panel event, the other audit event beside t1 alone and one instance.
PeerIsPlain ==
    /\ ~failed[w2] /\ ~pending[w2] /\ ~full[w2]
    /\ faults + crashes <= 1
    /\ pr.topic # audit
    /\ eid[t2] > 0 => eid[t1] > 0 /\ eid[t1] < eid[t2]
    /\ tx[t4] # "idle" => tx[t2] = "idle" /\ tx[t3] = "idle" /\ pc[w2] = "down"
    /\ tx[t3] # "idle" => tx[t2] = "idle" \/ pc[w2] = "down"
PeerRunsOnce == pc[w2] = "idle" => pc'[w2] # "topic"

\* Nothing is assumed of the second instance: it may stop at any point.
MCFairSpec ==
    /\ Spec
    /\ \A t \in Txs : WF_vars(Produce(t) /\ Settle(t))
    /\ WF_vars(Start(w1)) /\ WF_vars(TimerFires(w1)) /\ WF_vars(Step(w1))
=============================================================================
