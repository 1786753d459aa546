------------------------------- MODULE MqttOutput -------------------------------
(***************************************************************************)
(* The MQTT output (src/idf/rtl433_core/src/output_mqtt.c) with quality of *)
(* service 1 or 2: it publishes events to a broker, keeps each until it    *)
(* is acknowledged, resends what is overdue, and connects again whenever   *)
(* the connection ends.  One timer serves both, reconnecting and           *)
(* resending.  All of it runs on the main task.                            *)
(*                                                                         *)
(* A connection is two wires that keep the order, and lose what is on them *)
(* when it ends.  The broker (external) is one that keeps its session over *)
(* connections, as the client asks for (no clean session).                 *)
(***************************************************************************)
EXTENDS Integers, Sequences, FiniteSets

CONSTANTS
  Width,         \* message_id wraps here: 2^16
  MaxEvents,     \* bound: messages published
  MaxLosses,     \* bound: connections that end or fail
  WireCap        \* bound: packets under way, replies not counted

ASSUME ConstantsAssumption ==
  Width \in Nat \ {0} /\ {MaxEvents, MaxLosses, WireCap} \subseteq Nat

VARIABLES
  qos,       \* 1 or 2
  conn,      \* ctx->conn: "none", "connecting", or "open": its proto_handler is set
  timer,     \* 1 if ctx->timer is set
  id,        \* ctx->message_id
  inflight,  \* ctx->inflight
  up, down,  \* packets on their way to the broker, and back
  events,    \* messages published so far
  stored,    \* broker: ids received and not yet released (QoS 2)
  passed,    \* broker: how often it passed each message on, at most 2
  losses     \* connections that ended or failed

client == <<conn, timer, id, inflight>>
broker == <<stored, passed>>
vars == <<qos, client, up, down, events, broker, losses>>

Messages == 1 .. MaxEvents
Ids == 0 .. Width - 1

(* topic and msg are freed, kept = 0, once the broker has received it;
   due = 1: its timeout is over. *)
Elems == [msg : Messages, mid : Ids, kept : {0, 1}, due : {0, 1}]
Packets == [type : {"connect", "publish", "pubrel", "connack", "puback", "pubrec", "pubcomp"},
            mid : Ids, msg : 0 .. MaxEvents]
Packet(t, mid, m) == [type |-> t, mid |-> mid, msg |-> m]
Short(t, mid) == Packet(t, mid, 0)

TypeOK ==
  /\ qos \in {1, 2} /\ conn \in {"none", "connecting", "open"} /\ timer \in {0, 1}
  /\ id \in Ids /\ inflight \in Seq(Elems)
  /\ up \in Seq(Packets) /\ down \in Seq(Packets)
  /\ events \in 0 .. MaxEvents /\ stored \subseteq Ids
  /\ passed \in [Messages -> 0 .. 2] /\ losses \in 0 .. MaxLosses

(* mqtt_client_init() begins to connect; ids are about to wrap, or start. *)
Init ==
  /\ qos \in {1, 2} /\ conn = "connecting" /\ timer = 0
  /\ id \in {0, Width - 1} /\ inflight = <<>> /\ up = <<>> /\ down = <<>> /\ events = 0
  /\ stored = {} /\ passed = [m \in Messages |-> 0] /\ losses = 0

NextId == (id + 1) % Width

-----------------------------------------------------------------------------
(* The list of messages in flight. *)

(* The last one takes the place of the one removed. *)
RemoveLast(s, i) == SubSeq(s, 1, Len(s) - 1)                       \* a mutant
RemoveAt(s, i) == SubSeq([s EXCEPT ![i] = s[Len(s)]], 1, Len(s) - 1)
ReleaseNothing(s, i) == s                                         \* a mutant
ReleaseAt(s, i) == [s EXCEPT ![i] = [s[i] EXCEPT !.kept = 0]]

(* The first element with this id. *)
IsAt(s, mid, i) ==
  /\ i \in DOMAIN s /\ s[i].mid = mid
  /\ \A j \in 1 .. i - 1 : s[j].mid # mid
Unknown(s, mid) == \A i \in DOMAIN s : s[i].mid # mid

-----------------------------------------------------------------------------
(* The client. *)

(* Bounds: there is room on the wires, and an id comes round again, 2^16 messages
   later, only when nothing of its former use is left. *)
RoomFor(n) == Len(up) + Len(down) + n <= WireCap
IsFree(mid) ==
  /\ Unknown(inflight, mid) /\ Unknown(up, mid) /\ Unknown(down, mid) /\ mid \notin stored

(* mqtt_client_publish(): sent at once if there is a connection. *)
Publish ==
  /\ events < MaxEvents /\ events' = events + 1 /\ IsFree(NextId)
  /\ id' = NextId
  /\ inflight' = Append(inflight, [msg |-> events', mid |-> NextId, kept |-> 1, due |-> 0])
  /\ IF conn = "open"
       THEN RoomFor(1) /\ up' = Append(up, Packet("publish", NextId, events'))
       ELSE UNCHANGED up
  /\ UNCHANGED <<qos, conn, timer, down, broker, losses>>

(* MG_EV_CONNECT: the handshake goes first, the timer is set to resend. *)
Connected ==
  /\ conn = "connecting" /\ conn' = "open" /\ timer' = 1
  /\ up' = Append(up, Short("connect", 0))
  /\ UNCHANGED <<qos, id, inflight, down, events, broker, losses>>

(* MG_EV_TIMER without a connection: connect. *)
Reconnect ==
  /\ timer = 1 /\ conn = "none" /\ conn' = "connecting" /\ timer' = 0
  /\ UNCHANGED <<qos, id, inflight, up, down, events, broker, losses>>

(* ... and with one: resend what is overdue, set the timer again. *)
Resent(e) == IF e.kept = 1 THEN Packet("publish", e.mid, e.msg) ELSE Short("pubrel", e.mid)
Late == {i \in DOMAIN inflight : inflight[i].due = 1}
SendLate ==
  /\ \E late \in [1 .. Cardinality(Late) -> Late] :
       /\ \A a, b \in DOMAIN late : a < b => late[a] < late[b]
       /\ up' = up \o [k \in DOMAIN late |-> Resent(inflight[late[k]])]
  /\ inflight' = [i \in DOMAIN inflight |-> [inflight[i] EXCEPT !.due = 0]]
ResendOnce ==                                                     \* a mutant
  /\ timer = 1 /\ conn = "open" /\ timer' = 0
  /\ RoomFor(Cardinality(Late)) /\ SendLate
  /\ UNCHANGED <<qos, conn, id, down, events, broker, losses>>
Resend ==
  /\ timer = 1 /\ conn = "open" /\ timer' = 1
  /\ RoomFor(Cardinality(Late)) /\ SendLate
  /\ UNCHANGED <<qos, conn, id, down, events, broker, losses>>

(* 1.2 s have passed since a message was sent, or all of them. *)
TimePasses ==
  /\ \E late \in {DOMAIN inflight} \cup {{i} : i \in DOMAIN inflight} :
       inflight' = [i \in DOMAIN inflight |->
                      IF i \in late THEN [inflight[i] EXCEPT !.due = 1] ELSE inflight[i]]
  /\ UNCHANGED <<qos, conn, timer, id, up, down, events, broker, losses>>

(* MG_EV_CLOSE, of a connection that was made or not. *)
Close ==
  /\ conn # "none" /\ losses < MaxLosses /\ losses' = losses + 1
  /\ conn' = "none" /\ timer' = 1 /\ up' = <<>> /\ down' = <<>>
  /\ UNCHANGED <<qos, id, inflight, events, broker>>

(* The broker's replies.  A CONNACK is answered with the availability, if it
   has a topic, which takes an id. *)
Reply(type) == conn = "open" /\ down # <<>> /\ Head(down).type = type /\ down' = Tail(down)
Answered == Head(down).mid

ConnAck == Reply("connack") /\ id' \in {id, NextId} /\ UNCHANGED <<inflight, up>>
PubAck ==
  /\ Reply("puback") \/ Reply("pubcomp")
  /\ \/ \E i \in DOMAIN inflight : IsAt(inflight, Answered, i) /\ inflight' = RemoveAt(inflight, i)
     \/ Unknown(inflight, Answered) /\ UNCHANGED inflight
  /\ UNCHANGED <<id, up>>
PubRec ==
  /\ Reply("pubrec")
  /\ \/ /\ \E i \in DOMAIN inflight : IsAt(inflight, Answered, i) /\ inflight' = ReleaseAt(inflight, i)
        /\ up' = Append(up, Short("pubrel", Answered))
     \/ Unknown(inflight, Answered) /\ UNCHANGED <<inflight, up>>
  /\ UNCHANGED id
ReplyComes ==
  /\ ConnAck \/ PubAck \/ PubRec
  /\ UNCHANGED <<qos, conn, timer, events, broker, losses>>

-----------------------------------------------------------------------------
(* The broker (external): passes a message on when it comes, with QoS 2 only
   if its id is not one it has stored already. *)
More(n) == IF n < 2 THEN n + 1 ELSE 2
PassOn(m) == passed' = [passed EXCEPT ![m] = More(passed[m])]
Answer(t) == down' = Append(down, Short(t, Head(up).mid))
BrokerTakes ==
  /\ up # <<>> /\ up' = Tail(up)
  /\ LET p == Head(up) IN
     \/ p.type = "connect" /\ Answer("connack") /\ UNCHANGED broker
     \/ p.type = "publish" /\ qos = 1 /\ PassOn(p.msg) /\ Answer("puback") /\ UNCHANGED stored
     \/ /\ p.type = "publish" /\ qos = 2 /\ Answer("pubrec") /\ stored' = stored \cup {p.mid}
        /\ IF p.mid \in stored THEN UNCHANGED passed ELSE PassOn(p.msg)
     \/ p.type = "pubrel" /\ Answer("pubcomp") /\ stored' = stored \ {p.mid} /\ UNCHANGED passed
  /\ UNCHANGED <<qos, client, events, losses>>

-----------------------------------------------------------------------------
Tick == Reconnect \/ Resend
Next == Publish \/ Connected \/ Tick \/ TimePasses \/ Close \/ ReplyComes \/ BrokerTakes
Spec == Init /\ [][Next]_vars

(* The socket loop serves connections and timers, the broker and the wires
   deliver, and time passes.  SF for the timer only because a resend waits
   for room on the bounded wires, which the code does not. *)
AllLate ==
  /\ inflight' = [i \in DOMAIN inflight |-> [inflight[i] EXCEPT !.due = 1]]
  /\ TimePasses
FairSpec ==
  /\ Spec /\ SF_vars(Tick) /\ WF_vars(AllLate)
  /\ WF_vars(Connected) /\ WF_vars(ReplyComes) /\ WF_vars(BrokerTakes)

-----------------------------------------------------------------------------
(* Properties. *)

(* A message the broker has not got yet is kept with its topic, to be sent
   again, whatever connections are lost and in whatever order replies
   remove others from the list. *)
NoneLost ==
  \A m \in 1 .. events : passed[m] > 0 \/ \E i \in DOMAIN inflight : inflight[i].msg = m /\ inflight[i].kept = 1

(* With QoS 2 the broker passes no message on twice, although the client
   sends it again while the broker's receipt may be on its way or lost. *)
OnceOnly == qos = 2 => \A m \in Messages : passed[m] <= 1

(* Every message is acknowledged in the end and leaves the list. *)
Waits(m) == \E i \in DOMAIN inflight : inflight[i].msg = m
AllAcknowledged == \A m \in Messages : events >= m ~> ~Waits(m)
=============================================================================
