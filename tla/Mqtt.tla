-------------------------------- MODULE Mqtt --------------------------------
(* mqtt/mqtt_client.c: the loop thread, which connects, logs in, answers,    *)
(* pings and reconnects, and other threads, which publish, subscribe and     *)
(* disconnect.  cli->io is the connection of the moment.  Retries have no    *)
(* limit (DEFAULT_RECONNECT_MAX_RETRY_CNT) and delays no length; on_close    *)
(* reads reconn_setting at one point.                                        *)
EXTENDS Naturals, Sequences

CONSTANTS
    User,            \* threads other than the loop's
    LoopThread,      \* the loop thread
    Nobody,          \* mutex_ is free
    Careful,         \* no disconnect while the reconnect timer is armed
    MaxWrites        \* writes on a connection that pings, answers and new calls allow

ASSUME MqttAssumption ==
    /\ LoopThread \notin User /\ Nobody \notin User \cup {LoopThread}
    /\ Careful \in BOOLEAN /\ MaxWrites \in Nat

VARIABLES
    conn,            \* cli->io: connecting, open, broken (writes fail) or closed
    reconn_setting,  \* is there one
    reconn_timer,    \* is it armed
    connected, ping_cnt, heartbeat,
    closing,         \* a close event for this connection is posted
    mutex_,
    wrote,           \* what was written to this connection: part and thread
    call,            \* where each user is in a call
    disconnected     \* mqtt_client_disconnect has returned

mvars == <<conn, reconn_setting, reconn_timer, connected, ping_cnt, heartbeat,
           closing, mutex_, wrote, call, disconnected>>
settings == <<reconn_setting, reconn_timer>>
login == <<connected, ping_cnt, heartbeat>>

(* Parts of packets: a publish is a head and a payload. *)
Part == {"CONNECT", "head", "payload", "SUBSCRIBE", "DISCONNECT", "PINGREQ", "reply"}
Stage == {"idle", "publish", "payload", "subscribe", "disconnect", "close"}

MInit ==
    /\ conn = "connecting" /\ reconn_setting = TRUE /\ reconn_timer = FALSE
    /\ connected = FALSE /\ ping_cnt = 0 /\ heartbeat = FALSE
    /\ closing = FALSE /\ mutex_ = Nobody /\ wrote = <<>>
    /\ call = [u \in User |-> "idle"] /\ disconnected = FALSE

(* hio_write: queued or sent, or refused. *)
Writable == conn \in {"connecting", "open"}
WritesPart(part, by) == wrote' = IF Writable THEN Append(wrote, <<part, by>>) ELSE wrote

(* mqtt_client_send from the loop thread *)
LoopSends(part) == mutex_ = Nobody /\ WritesPart(part, LoopThread)
Room == Len(wrote) < MaxWrites

-----------------------------------------------------------------------------
(* The loop thread. *)

on_connect ==
    /\ conn = "connecting" /\ conn' = "open"
    /\ LoopSends("CONNECT")
    /\ UNCHANGED <<settings, login, closing, mutex_, call, disconnected>>

LoggedIn == \E i \in DOMAIN wrote : wrote[i] = <<"CONNECT", LoopThread>>

(* on_packet: CONNACK *)
on_connack ==
    /\ conn = "open" /\ LoggedIn /\ ~connected
    /\ connected' = TRUE /\ heartbeat' = TRUE
    /\ UNCHANGED <<conn, settings, ping_cnt, closing, mutex_, wrote, call, disconnected>>

(* on_packet: PUBLISH, PUBREC, PUBREL or PINGREQ, to be answered *)
on_request ==
    /\ conn = "open" /\ connected /\ Room
    /\ LoopSends("reply")
    /\ UNCHANGED <<conn, settings, login, closing, mutex_, call, disconnected>>

(* on_packet: PINGRESP *)
on_pong ==
    /\ conn = "open" /\ <<"PINGREQ", LoopThread>> \in {wrote[i] : i \in DOMAIN wrote}
    /\ ping_cnt # 0 /\ ping_cnt' = 0
    /\ UNCHANGED <<conn, settings, connected, heartbeat, closing, mutex_, wrote, call, disconnected>>


(* on_close arms the reconnect timer. *)
Rearms == reconn_setting

on_close ==
    /\ conn' = "closed" /\ closing' = FALSE
    /\ connected' = FALSE /\ heartbeat' = FALSE
    /\ reconn_timer' = Rearms
    /\ UNCHANGED <<reconn_setting, mutex_, wrote, call, disconnected>>

(* The connection fails, the broker ends it or refuses the login, a packet   *)
(* is malformed, or a posted close comes up.                                 *)
Ends ==
    /\ conn # "closed" /\ on_close /\ UNCHANGED ping_cnt

(* mqtt_send_ping, the heartbeat.  ping_cnt outlives the connection. *)
mqtt_send_ping ==
    /\ conn = "open" /\ heartbeat
    /\ ping_cnt' = IF ping_cnt > 3 THEN ping_cnt ELSE ping_cnt + 1
    /\ \/ ping_cnt >= 3 /\ on_close
       \/ /\ ping_cnt < 3 /\ Room /\ LoopSends("PINGREQ")
          /\ UNCHANGED <<conn, settings, connected, heartbeat, closing, mutex_, call, disconnected>>

(* The peer has reset the connection and the loop has not seen it yet. *)
Breaks ==
    /\ conn = "open" /\ conn' = "broken"
    /\ UNCHANGED <<settings, login, closing, mutex_, wrote, call, disconnected>>

(* No publish or subscribe lasts as long as the delay.                       *)
ShorterThanDelay == \A u \in User : call[u] \in {"idle", "disconnect", "close"}

(* reconnect_timer_cb and mqtt_client_connect: a new connection *)
reconnect_timer_cb ==
    /\ reconn_timer /\ reconn_timer' = FALSE
    /\ ShorterThanDelay
    /\ conn' = "connecting" /\ wrote' = <<>> /\ closing' = FALSE
    /\ UNCHANGED <<reconn_setting, login, mutex_, call, disconnected>>

(* The same when hio_create_socket fails, as for a host that does not        *)
(* resolve: nothing is tried again.                                          *)
ResolveFails ==
    /\ reconn_timer /\ reconn_timer' = FALSE
    /\ UNCHANGED <<conn, reconn_setting, login, closing, mutex_, wrote, call, disconnected>>

-----------------------------------------------------------------------------
(* Another thread u. *)

Proceeds(u, from, to) == call[u] = from /\ call' = [call EXCEPT ![u] = to]

(* mqtt_client_publish and mqtt_client_subscribe test connected first. *)
Starts(u) ==
    /\ connected /\ Room /\ (Proceeds(u, "idle", "publish") \/ Proceeds(u, "idle", "subscribe"))
    /\ UNCHANGED <<conn, settings, login, closing, mutex_, wrote, disconnected>>

KeepsMutex_not(u) == UNCHANGED mutex_

(* mutex_ stays locked between head and payload. *)
KeepsMutex(u) == mutex_' = u

(* A head that is refused ends the call. *)
PublishHead(u) ==
    /\ mutex_ = Nobody /\ WritesPart("head", u)
    /\ IF Writable THEN Proceeds(u, "publish", "payload") /\ KeepsMutex(u)
                   ELSE Proceeds(u, "publish", "idle") /\ UNCHANGED mutex_
    /\ UNCHANGED <<conn, settings, login, closing, disconnected>>

PublishPayload(u) ==
    /\ WritesPart("payload", u) /\ Proceeds(u, "payload", "idle") /\ mutex_' = Nobody
    /\ UNCHANGED <<conn, settings, login, closing, disconnected>>

Subscribe(u) ==
    /\ mutex_ = Nobody /\ WritesPart("SUBSCRIBE", u) /\ Proceeds(u, "subscribe", "idle")
    /\ UNCHANGED <<conn, settings, login, closing, mutex_, disconnected>>

(* mqtt_client_disconnect: mqtt_client_set_reconnect(NULL), a DISCONNECT and *)
(* hio_close, which posts an event.                                          *)
Disconnect(u) ==
    /\ Careful => ~reconn_timer
    /\ Proceeds(u, "idle", "disconnect") /\ reconn_setting' = FALSE
    /\ UNCHANGED <<conn, reconn_timer, login, closing, mutex_, wrote, disconnected>>

SendDisconnect(u) ==
    /\ mutex_ = Nobody /\ WritesPart("DISCONNECT", u) /\ Proceeds(u, "disconnect", "close")
    /\ UNCHANGED <<conn, settings, login, closing, mutex_, disconnected>>

Close(u) ==
    /\ Proceeds(u, "close", "idle") /\ disconnected' = TRUE
    /\ closing' = (closing \/ conn # "closed")
    /\ UNCHANGED <<conn, settings, login, mutex_, wrote>>

-----------------------------------------------------------------------------
Calls(u) ==
    \/ PublishHead(u) \/ PublishPayload(u) \/ Subscribe(u)
    \/ SendDisconnect(u) \/ Close(u)

MNext ==
    \/ on_connect \/ on_connack \/ on_request \/ on_pong \/ Ends \/ mqtt_send_ping
    \/ Breaks \/ reconnect_timer_cb
    \/ \E u \in User : Starts(u) \/ Calls(u) \/ (~disconnected /\ Disconnect(u))

(* Calls return, timers fire, posted events are handled, a broken connection *)
(* is noticed, and connecting comes to an end.                               *)
MFair ==
    /\ \A u \in User : WF_mvars(Calls(u))
    /\ WF_mvars(reconnect_timer_cb)
    /\ WF_mvars((closing \/ conn = "broken") /\ Ends)
    /\ WF_mvars(on_connect)

MSpec == MInit /\ [][MNext]_mvars /\ MFair

UnresolvedSpec == MInit /\ [][MNext \/ ResolveFails]_mvars /\ MFair

-----------------------------------------------------------------------------
(* Properties. *)

(* What the variables hold. *)
MTypeOK ==
    /\ conn \in {"connecting", "open", "broken", "closed"}
    /\ {reconn_setting, reconn_timer, connected, heartbeat, closing, disconnected} \subseteq BOOLEAN
    /\ ping_cnt \in 0..4 /\ mutex_ \in User \cup {Nobody}
    /\ wrote \in Seq(Part \X (User \cup {LoopThread})) /\ call \in [User -> Stage]

(* A broker reads whole packets: after the head of a message comes its       *)
(* payload, whoever else writes, and never a payload without its head.       *)
WholePackets ==
    \A i \in DOMAIN wrote :
        /\ wrote[i][1] = "head" /\ i < Len(wrote) => wrote[i + 1] = <<"payload", wrote[i][2]>>
        /\ wrote[i][1] = "payload" => i > 1 /\ wrote[i - 1] = <<"head", wrote[i][2]>>

(* The first packet of a connection is CONNECT, unless a user is leaving:    *)
(* no call that looked at connected before the last connection ended writes  *)
(* to the next one ahead of the login.                                       *)
LoginFirst == wrote = <<>> \/ wrote[1][1] \in {"CONNECT", "DISCONNECT"}

PacketsSound == WholePackets /\ LoginFirst


(* mqtt_client_disconnect cancels the reconnection: after it has returned no *)
(* connection is begun.                                                      *)
DisconnectIsFinal == [][disconnected => ~(conn = "closed" /\ conn' = "connecting")]_mvars
=============================================================================
