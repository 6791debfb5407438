----------------------------- MODULE MCNetwork ------------------------------
(* The loop's timers and three clients of the loop, checked in one run: each *)
(* behaviour is a behaviour of one of them, the others do not move.          *)
EXTENDS Timers, AsyncHttpClient, Kcp, Mqtt

VARIABLE part
Parts == {"timers", "http", "kcp", "mqtt"}

TimersTurn == part = "timers" /\ TNext /\ UNCHANGED <<part, hvars, kvars, mvars>>
HttpTurn == part = "http" /\ HNext /\ UNCHANGED <<part, tvars, kvars, mvars>>
KcpTurn == part = "kcp" /\ KNext /\ UNCHANGED <<part, tvars, hvars, mvars>>
MqttTurn == part = "mqtt" /\ MNext /\ UNCHANGED <<part, tvars, hvars, kvars>>

(* A part that does not move has only one initial state. *)
NetworkInit ==
    /\ part \in Parts /\ TInit /\ HInit /\ KInit /\ MInit
    /\ part # "http" =>
        \A t, u \in Task : target[t] = target[u] /\ \A n \in RetryCounts : retry_count[t] <= n

NetworkNext == TimersTurn \/ HttpTurn \/ KcpTurn \/ MqttTurn

NetworkSpec ==
    /\ NetworkInit /\ [][NetworkNext]_<<part, tvars, hvars, kvars, mvars>>
    /\ WF_tvars(part = "timers" /\ TimerSteps)
    /\ WF_hvars(part = "http" /\ HttpSteps)
    /\ \A t \in Task : WF_hvars(part = "http" /\ Expire(t))
    /\ WF_kvars(part = "kcp" /\ SenderFlushes(1, snd_buf, TRUE))
    /\ WF_kvars(part = "kcp" /\ ReceiverFlushes)
    /\ \A s \in Sn : WF_kvars(part = "kcp" /\ PushArrives(s))
    /\ WF_kvars(part = "kcp" /\ AskArrives)
    /\ WF_kvars(part = "kcp" /\ \E d \in acks : AckArrives(d))
    /\ WF_kvars(part = "kcp" /\ \E n \in 1..MaxSegs : ikcp_recv(n))
    /\ \A u \in User : WF_mvars(part = "mqtt" /\ Calls(u))
    /\ WF_mvars(part = "mqtt" /\ reconnect_timer_cb)
    /\ WF_mvars(part = "mqtt" /\ (closing \/ conn = "broken") /\ Ends)
    /\ WF_mvars(part = "mqtt" /\ on_connect)

(* What the variables of the four parts hold. *)
NetworkTypesOK == TTypeOK /\ HTypeOK /\ KTypeOK /\ MTypeOK

MCRepeats == {1, 2, INFINITE}
=============================================================================
