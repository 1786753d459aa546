--------------------------- MODULE MqttOutput_proofs ---------------------------
(***************************************************************************)
(* The MQTT output, for any number of messages and lost connections and    *)
(* wires of any length: no message is dropped before the broker has it,    *)
(* and with QoS 2 the broker passes none on twice.                         *)
(*                                                                         *)
(* Whatever is under way about a message must agree with its element of    *)
(* the list, if it still has one.  So the invariant goes through the       *)
(* places that hold an id, the list, the two wires and the broker's store, *)
(* each as an operator of what it relates.                                 *)
(***************************************************************************)
EXTENDS MqttOutput, FiniteSetTheorems, TLAPS

(* The list has one element for a message and an id; a topic is freed only
   of messages passed on. *)
List(l, p) ==
  /\ \A i, j \in DOMAIN l : l[i].mid = l[j].mid \/ l[i].msg = l[j].msg => i = j
  /\ \A i \in DOMAIN l : l[i].msg <= events
  /\ \A i \in DOMAIN l : l[i].kept = 0 => p[l[i].msg] > 0

(* Receipts and stored ids are of messages passed on. *)
Receipts(d, l, p) ==
  \A k \in DOMAIN d, i \in DOMAIN l :
    d[k].type # "connack" /\ d[k].mid = l[i].mid => p[l[i].msg] > 0
Store(st, l, p) == \A i \in DOMAIN l : l[i].mid \in st => p[l[i].msg] > 0

(* A message under way has its element's id, a release an element without a topic. *)
Sent(u, l) ==
  /\ \A k \in DOMAIN u : u[k].type = "publish" => u[k].msg \in 1 .. events
  /\ \A k \in DOMAIN u, i \in DOMAIN l :
       u[k].type = "publish" => (u[k].mid = l[i].mid <=> u[k].msg = l[i].msg)
  /\ \A k \in DOMAIN u, i \in DOMAIN l :
       u[k].type = "pubrel" /\ u[k].mid = l[i].mid => l[i].kept = 0

Unpublished(p) == \A m \in Messages : m > events => p[m] = 0

(* With QoS 2: what has been passed on, and may come again, is in the store,
   for no release of its id is in front of it. *)
Wire(u) ==
  /\ \A j, k \in DOMAIN u :
       u[j].type = "pubrel" /\ u[k].type = "publish" /\ u[j].mid = u[k].mid => k < j
  /\ \A j, k \in DOMAIN u :
       u[j].type = "publish" /\ u[k].type = "publish" /\ u[j].msg = u[k].msg => u[j].mid = u[k].mid
Guarded(u, st, p) == \A k \in DOMAIN u : u[k].type = "publish" => p[u[k].msg] = 0 \/ u[k].mid \in st
Held(l, st, p) == \A i \in DOMAIN l : l[i].kept = 1 => p[l[i].msg] = 0 \/ l[i].mid \in st
Twice(l, u, st, p) == qos = 2 => Wire(u) /\ Guarded(u, st, p) /\ Held(l, st, p)

IInv ==
  /\ TypeOK /\ NoneLost /\ OnceOnly
  /\ List(inflight, passed) /\ Receipts(down, inflight, passed) /\ Store(stored, inflight, passed)
  /\ Sent(up, inflight) /\ Unpublished(passed) /\ Twice(inflight, up, stored, passed)

-----------------------------------------------------------------------------
(* A list with fewer elements, or with topics freed of messages passed on. *)

Under(n, o, p) ==
  \E g \in [DOMAIN n -> DOMAIN o] :
    /\ \A i, j \in DOMAIN n : g[i] = g[j] => i = j
    /\ \A i \in DOMAIN n :
         /\ n[i].msg = o[g[i]].msg /\ n[i].mid = o[g[i]].mid
         /\ n[i].kept = o[g[i]].kept \/ (n[i].kept = 0 /\ p[n[i].msg] > 0)

LEMMA UnderKeeps ==
  ASSUME NEW n, NEW o, NEW u, NEW d, NEW st, NEW p, Under(n, o, p)
  PROVE  /\ List(o, p) => List(n, p)
         /\ Receipts(d, o, p) => Receipts(d, n, p)
         /\ Store(st, o, p) => Store(st, n, p)
         /\ Sent(u, o) => Sent(u, n)
         /\ Held(o, st, p) => Held(n, st, p)
  <1>1. PICK g \in [DOMAIN n -> DOMAIN o] :
          /\ \A i, j \in DOMAIN n : g[i] = g[j] => i = j
          /\ \A i \in DOMAIN n :
               /\ n[i].msg = o[g[i]].msg /\ n[i].mid = o[g[i]].mid
               /\ n[i].kept = o[g[i]].kept \/ (n[i].kept = 0 /\ p[n[i].msg] > 0)
    BY DEF Under
  <1>2. \A i \in DOMAIN n : g[i] \in DOMAIN o
    BY <1>1
  <1>3. List(o, p) => List(n, p)
    BY <1>1, <1>2 DEF List
  <1>4. Receipts(d, o, p) => Receipts(d, n, p)
    BY <1>1, <1>2 DEF Receipts
  <1>5. Store(st, o, p) => Store(st, n, p)
    BY <1>1, <1>2 DEF Store
  <1>6. Sent(u, o) => Sent(u, n)
    BY <1>1, <1>2 DEF Sent
  <1>7. Held(o, st, p) => Held(n, st, p)
    BY <1>1, <1>2 DEF Held
  <1> QED
    BY <1>3, <1>4, <1>5, <1>6, <1>7

(* Removing an element leaves the others. *)
LEMMA Removed ==
  ASSUME NEW s \in Seq(Elems), NEW i \in DOMAIN s, NEW p
  PROVE  /\ RemoveAt(s, i) \in Seq(Elems) /\ Under(RemoveAt(s, i), s, p)
         /\ \A j \in DOMAIN s : j # i => \E k \in DOMAIN RemoveAt(s, i) : RemoveAt(s, i)[k] = s[j]
  <1> DEFINE t == [s EXCEPT ![i] = s[Len(s)]]
             r == SubSeq(t, 1, Len(s) - 1)
             g == [k \in DOMAIN r |-> IF k = i THEN Len(s) ELSE k]
  <1>1. /\ Len(s) \in Nat \ {0} /\ DOMAIN s = 1 .. Len(s) /\ i \in 1 .. Len(s)
        /\ t \in Seq(Elems) /\ Len(t) = Len(s)
        /\ \A k \in 1 .. Len(s) : t[k] = IF k = i THEN s[Len(s)] ELSE s[k]
    OBVIOUS
  <1> HIDE DEF t
  <1>2. /\ r \in Seq(Elems) /\ DOMAIN r = 1 .. Len(s) - 1
        /\ \A k \in 1 .. Len(s) - 1 : r[k] = IF k = i THEN s[Len(s)] ELSE s[k]
    BY <1>1
  <1>3. RemoveAt(s, i) = r
    BY <1>1 DEF RemoveAt, t
  <1> HIDE DEF r
  <1>4. Under(r, s, p)
    <2>1. /\ g \in [DOMAIN r -> DOMAIN s] /\ \A k, j \in DOMAIN r : g[k] = g[j] => k = j
          /\ \A k \in DOMAIN r : r[k] = s[g[k]]
      BY <1>1, <1>2
    <2> QED
      BY <2>1 DEF Under
  <1>5. ASSUME NEW j \in DOMAIN s, j # i PROVE \E k \in DOMAIN r : r[k] = s[j]
    <2>1. CASE j = Len(s)
      BY <1>1, <1>2, <1>5, <2>1
    <2>2. CASE j # Len(s)
      BY <1>1, <1>2, <1>5, <2>2
    <2> QED
      BY <2>1, <2>2
  <1> QED
    BY <1>2, <1>3, <1>4, <1>5

(* Freeing the topic of a message passed on. *)
LEMMA Released ==
  ASSUME NEW s \in Seq(Elems), NEW i \in DOMAIN s, NEW p, p[s[i].msg] > 0
  PROVE  /\ ReleaseAt(s, i) \in Seq(Elems) /\ Under(ReleaseAt(s, i), s, p)
         /\ DOMAIN ReleaseAt(s, i) = DOMAIN s /\ ReleaseAt(s, i)[i].kept = 0
         /\ \A j \in DOMAIN s : ReleaseAt(s, i)[j].msg = s[j].msg /\ ReleaseAt(s, i)[j].mid = s[j].mid
         /\ \A j \in DOMAIN s : j # i => ReleaseAt(s, i)[j] = s[j]
  <1> DEFINE e == [s[i] EXCEPT !.kept = 0]
             r == [s EXCEPT ![i] = e]
             g == [k \in DOMAIN r |-> k]
  <1>1. s[i] \in Elems
    OBVIOUS
  <1>2. e \in Elems /\ e.kept = 0 /\ e.msg = s[i].msg /\ e.mid = s[i].mid
    BY <1>1 DEF Elems
  <1>3. ReleaseAt(s, i) = r
    BY DEF ReleaseAt
  <1> HIDE DEF e
  <1>4. r \in Seq(Elems) /\ DOMAIN r = DOMAIN s /\ r[i] = e /\ \A j \in DOMAIN s : j # i => r[j] = s[j]
    BY <1>2
  <1> HIDE DEF r
  <1>5. \A j \in DOMAIN s : r[j].msg = s[j].msg /\ r[j].mid = s[j].mid
    BY <1>2, <1>4
  <1>6. Under(r, s, p)
    <2>1. g \in [DOMAIN r -> DOMAIN s] /\ \A k \in DOMAIN r : g[k] = k
      BY <1>4
    <2>2. \A k \in DOMAIN r : r[k].kept = s[k].kept \/ (r[k].kept = 0 /\ p[r[k].msg] > 0)
      BY <1>2, <1>4
    <2> HIDE DEF g
    <2> QED
      BY <1>4, <1>5, <2>1, <2>2 DEF Under
  <1> QED
    BY <1>2, <1>3, <1>4, <1>5, <1>6

(* Only what is due changes. *)
LEMMA DueOnly ==
  ASSUME NEW s \in Seq(Elems), NEW r \in [DOMAIN s -> Elems], NEW p,
         \A i \in DOMAIN s : r[i].msg = s[i].msg /\ r[i].mid = s[i].mid /\ r[i].kept = s[i].kept
  PROVE  r \in Seq(Elems) /\ DOMAIN r = DOMAIN s /\ Under(r, s, p)
  <1> DEFINE g == [k \in DOMAIN r |-> k]
  <1>1. r \in Seq(Elems) /\ DOMAIN r = DOMAIN s
    <2>1. DOMAIN s = 1 .. Len(s) /\ Len(s) \in Nat
      OBVIOUS
    <2> QED
      BY <2>1
  <1>2. g \in [DOMAIN r -> DOMAIN s] /\ \A k \in DOMAIN r : g[k] = k
    BY <1>1
  <1> HIDE DEF g
  <1> QED
    BY <1>1, <1>2 DEF Under

-----------------------------------------------------------------------------
(* The wires: a packet is taken from the front, others are put behind. *)

LEMMA PacketsPut ==
  ASSUME NEW u \in Seq(Packets), NEW v \in Seq(Packets)
  PROVE  /\ u \o v \in Seq(Packets) /\ Len(u) \in Nat /\ Len(v) \in Nat
         /\ DOMAIN u = 1 .. Len(u) /\ DOMAIN v = 1 .. Len(v)
         /\ DOMAIN (u \o v) = 1 .. Len(u) + Len(v)
         /\ \A k \in 1 .. Len(u) : (u \o v)[k] = u[k]
         /\ \A k \in Len(u) + 1 .. Len(u) + Len(v) :
              k - Len(u) \in DOMAIN v /\ (u \o v)[k] = v[k - Len(u)]
  OBVIOUS

LEMMA PacketPut ==
  ASSUME NEW u \in Seq(Packets), NEW x \in Packets
  PROVE  Append(u, x) = u \o <<x>> /\ <<x>> \in Seq(Packets) /\ Append(u, x) \in Seq(Packets)
  OBVIOUS

LEMMA PacketTaken ==
  ASSUME NEW u \in Seq(Packets), u # <<>>
  PROVE  /\ Tail(u) \in Seq(Packets) /\ Head(u) \in Packets /\ Head(u) = u[1] /\ 1 \in DOMAIN u
         /\ \A k \in DOMAIN Tail(u) : k + 1 \in DOMAIN u /\ Tail(u)[k] = u[k + 1] /\ k \in Nat \ {0}
  OBVIOUS

LEMMA TakingKeeps ==
  ASSUME NEW u \in Seq(Packets), u # <<>>, NEW l, NEW p, NEW st
  PROVE  /\ Receipts(u, l, p) => Receipts(Tail(u), l, p)
         /\ Sent(u, l) => Sent(Tail(u), l)
         /\ Wire(u) => Wire(Tail(u))
         /\ Guarded(u, st, p) => Guarded(Tail(u), st, p)
  <1>1. \A k \in DOMAIN Tail(u) : k + 1 \in DOMAIN u /\ Tail(u)[k] = u[k + 1] /\ k \in Nat
    BY PacketTaken
  <1>2. Receipts(u, l, p) => Receipts(Tail(u), l, p)
    BY <1>1 DEF Receipts
  <1>3. Sent(u, l) => Sent(Tail(u), l)
    BY <1>1 DEF Sent
  <1>4. Wire(u) => Wire(Tail(u))
    <2> SUFFICES ASSUME Wire(u) PROVE Wire(Tail(u))
      OBVIOUS
    <2>1. ASSUME NEW j \in DOMAIN Tail(u), NEW k \in DOMAIN Tail(u), Tail(u)[j].type = "pubrel",
                 Tail(u)[k].type = "publish", Tail(u)[j].mid = Tail(u)[k].mid
          PROVE  k < j
      <3>1. k + 1 < j + 1 /\ k \in Nat /\ j \in Nat
        BY <1>1, <2>1 DEF Wire
      <3> QED
        BY <3>1
    <2>2. ASSUME NEW j \in DOMAIN Tail(u), NEW k \in DOMAIN Tail(u), Tail(u)[j].type = "publish",
                 Tail(u)[k].type = "publish", Tail(u)[j].msg = Tail(u)[k].msg
          PROVE  Tail(u)[j].mid = Tail(u)[k].mid
      BY <1>1, <2>2 DEF Wire
    <2> QED
      BY <2>1, <2>2 DEF Wire
  <1>5. Guarded(u, st, p) => Guarded(Tail(u), st, p)
    BY <1>1 DEF Guarded
  <1> QED
    BY <1>2, <1>3, <1>4, <1>5

LEMMA PuttingKeeps ==
  ASSUME NEW u \in Seq(Packets), NEW v \in Seq(Packets), NEW l, NEW p, NEW st
  PROVE  /\ Receipts(u, l, p) /\ Receipts(v, l, p) => Receipts(u \o v, l, p)
         /\ Sent(u, l) /\ Sent(v, l) => Sent(u \o v, l)
         /\ Guarded(u, st, p) /\ Guarded(v, st, p) => Guarded(u \o v, st, p)
  <1> DEFINE w == u \o v
  <1>1. ASSUME NEW k \in DOMAIN w
        PROVE  (\E j \in DOMAIN u : w[k] = u[j]) \/ (\E j \in DOMAIN v : w[k] = v[j])
    <2>1. k \in 1 .. Len(u) + Len(v) /\ Len(u) \in Nat /\ Len(v) \in Nat
      BY PacketsPut
    <2>2. CASE k <= Len(u)
      BY <2>1, <2>2, PacketsPut
    <2>3. CASE k > Len(u)
      <3>1. k \in Len(u) + 1 .. Len(u) + Len(v)
        BY <2>1, <2>3
      <3> QED
        BY <3>1, PacketsPut
    <2> QED
      BY <2>1, <2>2, <2>3
  <1> HIDE DEF w
  <1>2. Receipts(u, l, p) /\ Receipts(v, l, p) => Receipts(w, l, p)
    BY <1>1 DEF Receipts
  <1>3. Sent(u, l) /\ Sent(v, l) => Sent(w, l)
    BY <1>1 DEF Sent
  <1>4. Guarded(u, st, p) /\ Guarded(v, st, p) => Guarded(w, st, p)
    BY <1>1 DEF Guarded
  <1> QED
    BY <1>2, <1>3, <1>4 DEF w

(* No message is put behind a release of its id. *)
Behind(u, v) ==
  /\ \A j \in DOMAIN u, k \in DOMAIN v :
       u[j].type = "pubrel" /\ v[k].type = "publish" => u[j].mid # v[k].mid
  /\ \A j \in DOMAIN u, k \in DOMAIN v :
       u[j].type = "publish" /\ v[k].type = "publish" /\ u[j].msg = v[k].msg => u[j].mid = v[k].mid

LEMMA PuttingKeepsOrder ==
  ASSUME NEW u \in Seq(Packets), NEW v \in Seq(Packets), Wire(u), Wire(v), Behind(u, v)
  PROVE  Wire(u \o v)
  <1> DEFINE w == u \o v
             n == Len(u)
             Old(k) == k \in DOMAIN u /\ w[k] = u[k] /\ k <= n
             New(k) == k - n \in DOMAIN v /\ w[k] = v[k - n] /\ k > n
  <1>1. \A k \in DOMAIN w : k \in Nat /\ n \in Nat /\ (Old(k) \/ New(k))
    BY PacketsPut
  <1> HIDE DEF w, n
  <1>2. ASSUME NEW j \in DOMAIN w, NEW k \in DOMAIN w,
               w[j].type = "pubrel", w[k].type = "publish", w[j].mid = w[k].mid
        PROVE  k < j
    <2>1. CASE Old(j) /\ Old(k)
      BY <1>2, <2>1 DEF Wire
    <2>2. CASE New(j) /\ Old(k)
      BY <1>1, <2>2
    <2>3. CASE Old(j) /\ New(k)
      BY <1>2, <2>3 DEF Behind
    <2>4. CASE New(j) /\ New(k)
      <3>1. k - n < j - n
        BY <1>2, <2>4 DEF Wire
      <3> QED
        BY <1>1, <3>1
    <2> QED
      BY <1>1, <2>1, <2>2, <2>3, <2>4
  <1>3. ASSUME NEW j \in DOMAIN w, NEW k \in DOMAIN w,
               w[j].type = "publish", w[k].type = "publish", w[j].msg = w[k].msg
        PROVE  w[j].mid = w[k].mid
    <2>1. CASE Old(j) /\ Old(k)
      BY <1>3, <2>1 DEF Wire
    <2>2. CASE New(j) /\ Old(k)
      BY <1>3, <2>2 DEF Behind
    <2>3. CASE Old(j) /\ New(k)
      BY <1>3, <2>3 DEF Behind
    <2>4. CASE New(j) /\ New(k)
      BY <1>3, <2>4 DEF Wire
    <2> QED
      BY <1>1, <2>1, <2>2, <2>3, <2>4
  <1>4. Wire(w)
    BY <1>2, <1>3 DEF Wire
  <1> QED
    BY <1>4 DEF w
-----------------------------------------------------------------------------
(* Types. *)

LEMMA PacketIn ==
  ASSUME NEW t \in {"connect", "publish", "pubrel", "connack", "puback", "pubrec", "pubcomp"},
         NEW i \in Ids, NEW m \in 0 .. MaxEvents
  PROVE  /\ Packet(t, i, m) \in Packets
         /\ Packet(t, i, m).type = t /\ Packet(t, i, m).mid = i /\ Packet(t, i, m).msg = m
  BY DEF Packet, Packets

LEMMA ShortIn ==
  ASSUME NEW t \in {"connect", "publish", "pubrel", "connack", "puback", "pubrec", "pubcomp"},
         NEW i \in Ids
  PROVE  Short(t, i) \in Packets /\ Short(t, i).type = t /\ Short(t, i).mid = i
  <1>1. 0 \in 0 .. MaxEvents
    BY ConstantsAssumption
  <1> QED
    BY <1>1, PacketIn DEF Short

LEMMA NextIdIn == ASSUME TypeOK PROVE NextId \in Ids
  BY ConstantsAssumption DEF TypeOK, NextId, Ids

LEMMA InitTyped == Init => TypeOK
  BY ConstantsAssumption DEF Init, TypeOK, Ids, Messages

LEMMA PublishTyped == ASSUME TypeOK, Publish PROVE TypeOK'
  <1> DEFINE e == [msg |-> events', mid |-> NextId, kept |-> 1, due |-> 0]
  <1>1. events' \in Messages /\ events' \in 0 .. MaxEvents /\ NextId \in Ids
    BY NextIdIn, ConstantsAssumption DEF TypeOK, Publish, Messages
  <1>2. e \in Elems
    BY <1>1 DEF Elems
  <1>3. inflight' \in Seq(Elems)
    <2>1. inflight' = Append(inflight, e)
      BY DEF Publish
    <2> HIDE DEF e
    <2> QED
      BY <1>2, <2>1 DEF TypeOK
  <1>4. up' \in Seq(Packets)
    <2>1. Packet("publish", NextId, events') \in Packets
      BY <1>1, PacketIn
    <2>2. up \in Seq(Packets)
      BY DEF TypeOK
    <2>3. up' = up \/ up' = Append(up, Packet("publish", NextId, events'))
      BY DEF Publish
    <2> QED
      BY <2>1, <2>2, <2>3, PacketPut
  <1> QED
    BY <1>1, <1>3, <1>4 DEF TypeOK, Publish, broker

LEMMA ConnectionTyped == ASSUME TypeOK, Connected \/ Reconnect \/ Close PROVE TypeOK'
  <1>1. CASE Connected
    <2>1. Short("connect", 0) \in Packets
      BY ShortIn, ConstantsAssumption DEF Ids
    <2>2. up' \in Seq(Packets)
      BY <1>1, <2>1 DEF TypeOK, Connected
    <2> QED
      BY <1>1, <2>2 DEF TypeOK, Connected, broker
  <1>2. CASE Reconnect
    BY <1>2 DEF TypeOK, Reconnect, broker
  <1>3. CASE Close
    <2>1. losses' \in 0 .. MaxLosses
      BY <1>3, ConstantsAssumption DEF TypeOK, Close
    <2> QED
      BY <1>3, <2>1 DEF TypeOK, Close, broker
  <1> QED
    BY <1>1, <1>2, <1>3

(* Time passes for some messages, and only what is due changes. *)
LEMMA TimeIs ==
  ASSUME TypeOK, TimePasses
  PROVE  /\ inflight' \in [DOMAIN inflight -> Elems]
         /\ \A i \in DOMAIN inflight : /\ inflight'[i].msg = inflight[i].msg
                                       /\ inflight'[i].mid = inflight[i].mid
                                       /\ inflight'[i].kept = inflight[i].kept
  <1>1. PICK late : inflight' = [i \in DOMAIN inflight |->
                      IF i \in late THEN [inflight[i] EXCEPT !.due = 1] ELSE inflight[i]]
    BY DEF TimePasses
  <1>2. ASSUME NEW i \in DOMAIN inflight
        PROVE  /\ inflight'[i] \in Elems /\ inflight'[i].msg = inflight[i].msg
               /\ inflight'[i].mid = inflight[i].mid /\ inflight'[i].kept = inflight[i].kept
    <2>1. inflight[i] \in Elems
      BY DEF TypeOK
    <2>2. CASE i \in late
      BY <1>1, <2>1, <2>2 DEF Elems
    <2>3. CASE i \notin late
      BY <1>1, <2>1, <2>3
    <2> QED
      BY <2>2, <2>3
  <1> QED
    BY <1>1, <1>2

(* The packets of a resend are one of an element each, in order. *)
LEMMA ResendIs ==
  ASSUME TypeOK, Resend
  PROVE  /\ inflight' \in [DOMAIN inflight -> Elems]
         /\ \A i \in DOMAIN inflight : /\ inflight'[i].msg = inflight[i].msg
                                       /\ inflight'[i].mid = inflight[i].mid
                                       /\ inflight'[i].kept = inflight[i].kept
         /\ \E v \in Seq(Packets) :
              /\ up' = up \o v
              /\ \A k \in DOMAIN v : \E i \in DOMAIN inflight : v[k] = Resent(inflight[i])
  <1>1. /\ inflight' = [i \in DOMAIN inflight |-> [inflight[i] EXCEPT !.due = 0]]
        /\ \E late \in [1 .. Cardinality(Late) -> Late] :
             up' = up \o [k \in DOMAIN late |-> Resent(inflight[late[k]])]
    BY DEF Resend, SendLate
  <1>2. \A i \in DOMAIN inflight :
           /\ inflight'[i] \in Elems /\ inflight'[i].msg = inflight[i].msg
           /\ inflight'[i].mid = inflight[i].mid /\ inflight'[i].kept = inflight[i].kept
    <2>1. \A i \in DOMAIN inflight : inflight[i] \in Elems
      BY DEF TypeOK
    <2> QED
      BY <1>1, <2>1 DEF Elems
  <1>3. \A i \in DOMAIN inflight : Resent(inflight[i]) \in Packets
    <2> SUFFICES ASSUME NEW i \in DOMAIN inflight PROVE Resent(inflight[i]) \in Packets
      OBVIOUS
    <2>1. inflight[i] \in Elems
      BY DEF TypeOK
    <2>2. inflight[i].mid \in Ids /\ inflight[i].msg \in 0 .. MaxEvents
      BY <2>1, ConstantsAssumption DEF Elems, Messages
    <2> QED
      BY <2>2, PacketIn, ShortIn DEF Resent
  <1>4. Cardinality(Late) \in Nat
    <2>1. DOMAIN inflight = 1 .. Len(inflight) /\ Len(inflight) \in Nat
      BY DEF TypeOK
    <2>2. IsFiniteSet(DOMAIN inflight) /\ Late \subseteq DOMAIN inflight
      BY <2>1, FS_Interval DEF Late
    <2> QED
      BY <2>2, FS_Subset, FS_CardinalityType
  <1>5. PICK late \in [1 .. Cardinality(Late) -> Late] :
          up' = up \o [k \in DOMAIN late |-> Resent(inflight[late[k]])]
    BY <1>1
  <1> DEFINE v == [k \in DOMAIN late |-> Resent(inflight[late[k]])]
  <1>6. DOMAIN late = 1 .. Cardinality(Late) /\ \A k \in DOMAIN late : late[k] \in DOMAIN inflight
    BY <1>5 DEF Late
  <1>7. \A k \in DOMAIN v : v[k] = Resent(inflight[late[k]]) /\ late[k] \in DOMAIN inflight
    BY <1>6
  <1>8. v \in Seq(Packets)
    BY <1>3, <1>4, <1>6
  <1> HIDE DEF v
  <1>9. up' = up \o v
    BY <1>5 DEF v
  <1> QED
    BY <1>1, <1>2, <1>7, <1>8, <1>9

LEMMA ListTyped == ASSUME TypeOK, TimePasses \/ Resend PROVE TypeOK'
  <1>1. inflight' \in [DOMAIN inflight -> Elems]
    BY TimeIs, ResendIs
  <1>2. inflight' \in Seq(Elems)
    <2>1. DOMAIN inflight = 1 .. Len(inflight) /\ Len(inflight) \in Nat
      BY DEF TypeOK
    <2> QED
      BY <1>1, <2>1
  <1>3. up' \in Seq(Packets)
    <2>1. CASE TimePasses
      BY <2>1 DEF TypeOK, TimePasses
    <2>2. CASE Resend
      <3>1. PICK v \in Seq(Packets) : up' = up \o v
        BY <2>2, ResendIs
      <3> QED
        BY <3>1, PacketsPut DEF TypeOK
    <2> QED
      BY <2>1, <2>2
  <1> QED
    BY <1>2, <1>3 DEF TypeOK, TimePasses, Resend, broker

(* A reply is taken from the front. *)
LEMMA ReplyIs ==
  ASSUME TypeOK, down # <<>>
  PROVE  Head(down) \in Packets /\ Answered \in Ids /\ Tail(down) \in Seq(Packets)
  BY PacketTaken DEF TypeOK, Answered, Packets

LEMMA ReplyTyped == ASSUME TypeOK, ReplyComes PROVE TypeOK'
  <1>1. down # <<>> /\ down' = Tail(down) /\ down' \in Seq(Packets) /\ Answered \in Ids
    BY ReplyIs DEF ReplyComes, ConnAck, PubAck, PubRec, Reply
  <1>2. id' \in Ids
    BY NextIdIn DEF TypeOK, ReplyComes, ConnAck, PubAck, PubRec
  <1>3. inflight' \in Seq(Elems)
    <2>1. CASE ConnAck
      BY <2>1 DEF TypeOK, ConnAck
    <2>2. CASE PubAck
      BY <2>2, Removed DEF TypeOK, PubAck, IsAt
    <2>3. CASE PubRec
      <3>1. CASE UNCHANGED inflight
        BY <3>1 DEF TypeOK
      <3>2. CASE \E i \in DOMAIN inflight : inflight' = ReleaseAt(inflight, i)
        <4>1. PICK i \in DOMAIN inflight : inflight' = ReleaseAt(inflight, i)
          BY <3>2
        <4>2. inflight[i] \in Elems
          BY DEF TypeOK
        <4>3. [inflight[i] EXCEPT !.kept = 0] \in Elems
          BY <4>2 DEF Elems
        <4> QED
          BY <4>1, <4>3 DEF TypeOK, ReleaseAt
      <3> QED
        BY <2>3, <3>1, <3>2 DEF PubRec
    <2> QED
      BY <2>1, <2>2, <2>3 DEF ReplyComes
  <1>4. up' \in Seq(Packets)
    <2>1. Short("pubrel", Answered) \in Packets
      BY <1>1, ShortIn
    <2>2. up \in Seq(Packets)
      BY DEF TypeOK
    <2>3. up' = up \/ up' = Append(up, Short("pubrel", Answered))
      BY DEF ReplyComes, ConnAck, PubAck, PubRec
    <2> QED
      BY <2>1, <2>2, <2>3, PacketPut
  <1> QED
    BY <1>1, <1>2, <1>3, <1>4 DEF TypeOK, ReplyComes, broker
LEMMA AnswerIs ==
  ASSUME TypeOK, up # <<>>,
         NEW t \in {"connack", "puback", "pubrec", "pubcomp"}, Answer(t)
  PROVE  /\ <<Short(t, Head(up).mid)>> \in Seq(Packets) /\ Head(up).mid \in Ids
         /\ down' = down \o <<Short(t, Head(up).mid)>> /\ down' \in Seq(Packets)
         /\ Short(t, Head(up).mid).type = t /\ Short(t, Head(up).mid).mid = Head(up).mid
  <1>1. up \in Seq(Packets) /\ down \in Seq(Packets)
    BY DEF TypeOK
  <1>2. Head(up).mid \in Ids
    BY <1>1, PacketTaken DEF Packets
  <1>3. Short(t, Head(up).mid) \in Packets
    BY <1>2, ShortIn
  <1> QED
    BY <1>1, <1>2, <1>3, ShortIn, PacketPut DEF Answer

(* A message passed on. *)
LEMMA PassedIs ==
  ASSUME NEW m, PassOn(m), TypeOK
  PROVE  /\ passed' \in [Messages -> 0 .. 2]
         /\ \A n \in Messages : n # m => passed'[n] = passed[n]
         /\ m \in Messages => passed'[m] > 0 /\ (passed[m] = 0 => passed'[m] = 1)
  <1>1. passed \in [Messages -> 0 .. 2] /\ passed' = [passed EXCEPT ![m] = More(passed[m])]
    BY DEF PassOn, TypeOK
  <1>2. \A x \in 0 .. 2 : More(x) \in 0 .. 2 /\ More(x) > 0 /\ (x = 0 => More(x) = 1)
    BY DEF More
  <1>3. CASE m \in Messages
    BY <1>1, <1>2, <1>3
  <1>4. CASE m \notin Messages
    BY <1>1, <1>4
  <1> QED
    BY <1>3, <1>4

LEMMA BrokerTyped == ASSUME TypeOK, BrokerTakes PROVE TypeOK'
  <1> DEFINE p == Head(up)
  <1>1. up # <<>> /\ up' = Tail(up) /\ up' \in Seq(Packets) /\ p.mid \in Ids
    BY PacketTaken DEF TypeOK, BrokerTakes, Packets
  <1>2. down' \in Seq(Packets)
    <2>1. PICK t \in {"connack", "puback", "pubrec", "pubcomp"} : Answer(t)
      BY DEF BrokerTakes
    <2> QED
      BY <1>1, <2>1, AnswerIs
  <1>3. stored' \subseteq Ids
    BY <1>1 DEF TypeOK, BrokerTakes, broker
  <1>4. passed' \in [Messages -> 0 .. 2]
    <2>1. passed' = passed \/ PassOn(p.msg)
      BY DEF BrokerTakes, broker
    <2> QED
      BY <2>1, PassedIs DEF TypeOK
  <1> QED
    BY <1>1, <1>2, <1>3, <1>4 DEF TypeOK, BrokerTakes, client

LEMMA NextTyped == ASSUME TypeOK, [Next]_vars PROVE TypeOK'
  <1>1. CASE UNCHANGED vars
    BY <1>1 DEF TypeOK, vars, client, broker
  <1>2. CASE Next
    BY <1>2, PublishTyped, ConnectionTyped, ListTyped, ReplyTyped, BrokerTyped DEF Next, Tick
  <1> QED
    BY <1>1, <1>2

(* Every field of the client, the wires and the broker stays in its type, for
   any number of messages and losses. *)
THEOREM TypeCorrect == Spec => []TypeOK
  <1>1. Init => TypeOK
    BY InitTyped
  <1>2. TypeOK /\ [Next]_vars => TypeOK'
    BY NextTyped
  <1> QED
    BY <1>1, <1>2, PTL DEF Spec
-----------------------------------------------------------------------------
(* The client's steps that publish nothing new: they shorten the list, free
   topics, take a reply or put packets on the wire. *)

Remains ==
  \A j \in DOMAIN inflight :
    \/ \E k \in DOMAIN inflight' : /\ inflight'[k].msg = inflight[j].msg
                                   /\ inflight'[k].kept = inflight[j].kept
    \/ passed[inflight[j].msg] > 0

LEMMA ClientStep ==
  ASSUME IInv, TypeOK', UNCHANGED <<qos, events, broker>>,
         Under(inflight', inflight, passed), Remains,
         NEW v \in Seq(Packets), up' = up \o v, Sent(v, inflight'),
         qos = 2 => Wire(v) /\ Behind(up, v) /\ Guarded(v, stored, passed),
         down' = down \/ (down # <<>> /\ down' = Tail(down))
  PROVE  IInv'
  <1>1. up \in Seq(Packets) /\ down \in Seq(Packets)
    BY DEF IInv, TypeOK
  <1>2. /\ qos' = qos /\ events' = events /\ stored' = stored /\ passed' = passed
    BY DEF broker
  <1>3. NoneLost'
    <2> SUFFICES ASSUME NEW m \in 1 .. events, ~(passed[m] > 0)
                 PROVE  \E k \in DOMAIN inflight' : inflight'[k].msg = m /\ inflight'[k].kept = 1
      BY <1>2 DEF NoneLost
    <2>1. PICK j \in DOMAIN inflight : inflight[j].msg = m /\ inflight[j].kept = 1
      BY DEF IInv, NoneLost
    <2> QED
      BY <2>1 DEF Remains
  <1>4. OnceOnly' /\ Unpublished(passed)'
    BY <1>2 DEF IInv, OnceOnly, Unpublished
  <1>5. Receipts(down', inflight', passed)
    <2>1. Receipts(down, inflight', passed)
      BY UnderKeeps DEF IInv
    <2> QED
      BY <1>1, <2>1, TakingKeeps
  <1>6. Sent(up', inflight')
    <2>1. Sent(up, inflight')
      BY UnderKeeps DEF IInv
    <2> QED
      BY <1>1, <2>1, PuttingKeeps
  <1>7. Twice(inflight', up', stored, passed)
    <2> SUFFICES ASSUME qos = 2
                 PROVE  Wire(up') /\ Guarded(up', stored, passed) /\ Held(inflight', stored, passed)
      BY DEF Twice
    <2>1. Wire(up) /\ Guarded(up, stored, passed) /\ Held(inflight, stored, passed)
      BY DEF IInv, Twice
    <2>2. Wire(up')
      BY <1>1, <2>1, PuttingKeepsOrder
    <2>3. Guarded(up', stored, passed)
      BY <1>1, <2>1, PuttingKeeps
    <2>4. Held(inflight', stored, passed)
      BY <2>1, UnderKeeps
    <2> QED
      BY <2>2, <2>3, <2>4
  <1>8. List(inflight, passed)' /\ Receipts(down, inflight, passed)' /\ Store(stored, inflight, passed)'
    <2>1. List(inflight', passed) /\ Store(stored, inflight', passed)
      BY UnderKeeps DEF IInv
    <2> QED
      BY <1>2, <1>5, <2>1 DEF List, Receipts, Store
  <1>9. Sent(up, inflight)' /\ Twice(inflight, up, stored, passed)'
    BY <1>2, <1>6, <1>7 DEF Sent, Twice, Wire, Guarded, Held
  <1> QED
    BY <1>3, <1>4, <1>8, <1>9 DEF IInv

LEMMA SameList ==
  ASSUME UNCHANGED inflight PROVE Under(inflight', inflight, passed) /\ Remains
  <1> DEFINE g == [k \in DOMAIN inflight |-> k]
  <1>1. g \in [DOMAIN inflight' -> DOMAIN inflight] /\ \A k \in DOMAIN inflight : g[k] = k
    OBVIOUS
  <1> HIDE DEF g
  <1> QED
    BY <1>1 DEF Under, Remains

(* Nothing put on the wire. *)
LEMMA PutNothing ==
  ASSUME TypeOK, NEW l
  PROVE  /\ <<>> \in Seq(Packets) /\ up = up \o <<>> /\ Sent(<<>>, l)
         /\ Wire(<<>>) /\ Behind(up, <<>>) /\ Guarded(<<>>, stored, passed)
  <1>1. up \in Seq(Packets)
    BY DEF TypeOK
  <1> QED
    BY <1>1 DEF Sent, Wire, Behind, Guarded

(* One packet that is not a message put on the wire. *)
LEMMA PutOne ==
  ASSUME TypeOK, NEW x \in Packets, x.type # "publish", NEW l,
         x.type = "pubrel" => \A i \in DOMAIN l : x.mid = l[i].mid => l[i].kept = 0
  PROVE  /\ <<x>> \in Seq(Packets) /\ Append(up, x) = up \o <<x>> /\ Sent(<<x>>, l)
         /\ Wire(<<x>>) /\ Behind(up, <<x>>) /\ Guarded(<<x>>, stored, passed)
  <1>1. up \in Seq(Packets)
    BY DEF TypeOK
  <1>2. \A k \in DOMAIN <<x>> : <<x>>[k] = x
    OBVIOUS
  <1> QED
    BY <1>1, <1>2, PacketPut DEF Sent, Wire, Behind, Guarded

LEMMA ConnectedKeeps == ASSUME IInv, TypeOK', Connected PROVE IInv'
  <1> DEFINE x == Short("connect", 0)
  <1>1. x \in Packets /\ x.type = "connect"
    BY ShortIn, ConstantsAssumption DEF Ids
  <1>2. TypeOK /\ up' = Append(up, x) /\ UNCHANGED <<qos, events, broker, inflight, down>>
    BY DEF IInv, Connected
  <1> HIDE DEF x
  <1> QED
    BY <1>1, <1>2, PutOne, SameList, ClientStep

LEMMA ReconnectKeeps == ASSUME IInv, TypeOK', Reconnect PROVE IInv'
  <1>1. TypeOK /\ UNCHANGED <<qos, events, broker, inflight, up, down>>
    BY DEF IInv, Reconnect
  <1> QED
    BY <1>1, PutNothing, SameList, ClientStep

LEMMA TimeKeeps == ASSUME IInv, TypeOK', TimePasses PROVE IInv'
  <1>1. TypeOK /\ UNCHANGED <<qos, events, broker, up, down>> /\ inflight \in Seq(Elems)
    BY DEF IInv, TypeOK, TimePasses
  <1>2. Under(inflight', inflight, passed) /\ Remains
    BY <1>1, TimeIs, DueOnly DEF Remains
  <1> QED
    BY <1>1, <1>2, PutNothing, ClientStep

LEMMA ConnAckKeeps ==
  ASSUME IInv, TypeOK', ReplyComes, ConnAck PROVE IInv'
  <1>1. TypeOK /\ UNCHANGED <<qos, events, broker, inflight, up>> /\ down # <<>> /\ down' = Tail(down)
    BY DEF IInv, ReplyComes, ConnAck, Reply
  <1> QED
    BY <1>1, PutNothing, SameList, ClientStep

LEMMA PubAckKeeps ==
  ASSUME IInv, TypeOK', ReplyComes, PubAck PROVE IInv'
  <1>1. TypeOK /\ UNCHANGED <<qos, events, broker, up>> /\ down # <<>> /\ down' = Tail(down)
    BY DEF IInv, ReplyComes, PubAck, Reply
  <1>2. Under(inflight', inflight, passed) /\ Remains
    <2>1. CASE UNCHANGED inflight
      BY <2>1, SameList
    <2>2. CASE \E i \in DOMAIN inflight : IsAt(inflight, Answered, i) /\ inflight' = RemoveAt(inflight, i)
      <3>1. PICK i \in DOMAIN inflight : inflight[i].mid = Answered /\ inflight' = RemoveAt(inflight, i)
        BY <2>2 DEF IsAt
      <3>2. passed[inflight[i].msg] > 0
        <4>1. down \in Seq(Packets) /\ Head(down).type # "connack"
          BY DEF IInv, TypeOK, PubAck, Reply
        <4>2. 1 \in DOMAIN down /\ down[1].type # "connack" /\ down[1].mid = inflight[i].mid
          BY <1>1, <3>1, <4>1, PacketTaken DEF Answered
        <4> QED
          BY <4>2 DEF IInv, Receipts
      <3>3. inflight \in Seq(Elems)
        BY <1>1 DEF TypeOK
      <3> QED
        BY <3>1, <3>2, <3>3, Removed DEF Remains
    <2> QED
      BY <2>1, <2>2 DEF PubAck
  <1> QED
    BY <1>1, <1>2, PutNothing, ClientStep

LEMMA PubRecKeeps ==
  ASSUME IInv, TypeOK', ReplyComes, PubRec PROVE IInv'
  <1>1. TypeOK /\ UNCHANGED <<qos, events, broker>> /\ down # <<>> /\ down' = Tail(down)
    BY DEF IInv, ReplyComes, PubRec, Reply
  <1>2. CASE UNCHANGED <<inflight, up>>
    BY <1>1, <1>2, PutNothing, SameList, ClientStep
  <1>3. CASE /\ \E i \in DOMAIN inflight : IsAt(inflight, Answered, i) /\ inflight' = ReleaseAt(inflight, i)
             /\ up' = Append(up, Short("pubrel", Answered))
    <2>1. PICK i \in DOMAIN inflight : inflight[i].mid = Answered /\ inflight' = ReleaseAt(inflight, i)
      BY <1>3 DEF IsAt
    <2>2. inflight \in Seq(Elems) /\ down \in Seq(Packets) /\ Head(down).type = "pubrec"
      BY DEF IInv, TypeOK, PubRec, Reply
    <2>3. passed[inflight[i].msg] > 0
      <3>1. 1 \in DOMAIN down /\ down[1].type # "connack" /\ down[1].mid = inflight[i].mid
        BY <1>1, <2>1, <2>2, PacketTaken DEF Answered
      <3> QED
        BY <3>1 DEF IInv, Receipts
    <2>4. /\ Under(inflight', inflight, passed) /\ DOMAIN inflight' = DOMAIN inflight /\ inflight'[i].kept = 0
          /\ \A j \in DOMAIN inflight : inflight'[j].msg = inflight[j].msg /\ inflight'[j].mid = inflight[j].mid
          /\ \A j \in DOMAIN inflight : j # i => inflight'[j] = inflight[j]
      BY <2>1, <2>2, <2>3, Released
    <2>5. Remains
      BY <2>3, <2>4 DEF Remains
    <2>6. \A j \in DOMAIN inflight' : inflight'[j].mid = Answered => inflight'[j].kept = 0
      <3> SUFFICES ASSUME NEW j \in DOMAIN inflight', inflight'[j].mid = Answered
                   PROVE  inflight'[j].kept = 0
        OBVIOUS
      <3>1. j = i
        BY <2>1, <2>4 DEF IInv, List
      <3> QED
        BY <2>4, <3>1
    <2> DEFINE x == Short("pubrel", Answered)
    <2>7. x \in Packets /\ x.type = "pubrel" /\ x.mid = Answered
      BY <1>1, ReplyIs, ShortIn
    <2>8. up' = Append(up, x)
      BY <1>3
    <2> HIDE DEF x
    <2>9. /\ <<x>> \in Seq(Packets) /\ up' = up \o <<x>> /\ Sent(<<x>>, inflight')
          /\ Wire(<<x>>) /\ Behind(up, <<x>>) /\ Guarded(<<x>>, stored, passed)
      BY <1>1, <2>6, <2>7, <2>8, PutOne
    <2> QED
      BY <1>1, <2>4, <2>5, <2>9, ClientStep
  <1> QED
    BY <1>2, <1>3 DEF PubRec
(* A message is sent again only with its topic, so before any release of it. *)
LEMMA ResendKeeps == ASSUME IInv, TypeOK', Resend PROVE IInv'
  <1>1. TypeOK /\ UNCHANGED <<qos, events, broker, down>> /\ inflight \in Seq(Elems)
    BY DEF IInv, TypeOK, Resend
  <1>2. Under(inflight', inflight, passed) /\ Remains /\ DOMAIN inflight' = DOMAIN inflight
    BY <1>1, ResendIs, DueOnly DEF Remains
  <1>3. PICK v \in Seq(Packets) :
          /\ up' = up \o v
          /\ \A k \in DOMAIN v : \E i \in DOMAIN inflight : v[k] = Resent(inflight[i])
    BY <1>1, ResendIs
  <1>4. ASSUME NEW k \in DOMAIN v
        PROVE  \E i \in DOMAIN inflight :
                 /\ v[k].mid = inflight[i].mid
                 /\ \/ v[k].type = "publish" /\ v[k].msg = inflight[i].msg /\ inflight[i].kept = 1
                    \/ v[k].type = "pubrel" /\ inflight[i].kept = 0
    <2>1. PICK i \in DOMAIN inflight : v[k] = Resent(inflight[i])
      BY <1>3
    <2>2. inflight[i] \in Elems
      BY <1>1
    <2>3. inflight[i].mid \in Ids /\ inflight[i].msg \in 0 .. MaxEvents /\ inflight[i].kept \in {0, 1}
      BY <2>2, ConstantsAssumption DEF Elems, Messages
    <2>4. CASE inflight[i].kept = 1
      BY <2>1, <2>3, <2>4, PacketIn DEF Resent
    <2>5. CASE inflight[i].kept = 0
      BY <2>1, <2>3, <2>5, ShortIn DEF Resent
    <2> QED
      BY <2>3, <2>4, <2>5
  <1>5. Sent(v, inflight)
    <2>1. ASSUME NEW k \in DOMAIN v, v[k].type = "publish" PROVE v[k].msg \in 1 .. events
      <3>1. PICK i \in DOMAIN inflight : v[k].msg = inflight[i].msg
        BY <1>4, <2>1
      <3>2. inflight[i] \in Elems /\ inflight[i].msg <= events /\ events \in 0 .. MaxEvents
        BY <1>1 DEF IInv, List, TypeOK
      <3> QED
        BY <3>1, <3>2, ConstantsAssumption DEF Elems, Messages
    <2>2. ASSUME NEW k \in DOMAIN v, NEW i \in DOMAIN inflight, v[k].type = "publish"
          PROVE  v[k].mid = inflight[i].mid <=> v[k].msg = inflight[i].msg
      <3>1. PICK j \in DOMAIN inflight : v[k].mid = inflight[j].mid /\ v[k].msg = inflight[j].msg
        BY <1>4, <2>2
      <3> QED
        BY <3>1 DEF IInv, List
    <2>3. ASSUME NEW k \in DOMAIN v, NEW i \in DOMAIN inflight, v[k].type = "pubrel", v[k].mid = inflight[i].mid
          PROVE  inflight[i].kept = 0
      <3>1. PICK j \in DOMAIN inflight : v[k].mid = inflight[j].mid /\ inflight[j].kept = 0
        BY <1>4, <2>3
      <3> QED
        BY <2>3, <3>1 DEF IInv, List
    <2> QED
      BY <2>1, <2>2, <2>3 DEF Sent
  <1>6. Sent(v, inflight')
    BY <1>2, <1>5, UnderKeeps
  <1>7. ASSUME qos = 2 PROVE Wire(v) /\ Behind(up, v) /\ Guarded(v, stored, passed)
    <2>1. ASSUME NEW j \in DOMAIN v, NEW k \in DOMAIN v,
                 v[j].type = "pubrel", v[k].type = "publish", v[j].mid = v[k].mid
          PROVE  FALSE
      <3>1. PICK a \in DOMAIN inflight : v[j].mid = inflight[a].mid /\ inflight[a].kept = 0
        BY <1>4, <2>1
      <3>2. PICK b \in DOMAIN inflight : v[k].mid = inflight[b].mid /\ inflight[b].kept = 1
        BY <1>4, <2>1
      <3>3. a = b
        BY <2>1, <3>1, <3>2 DEF IInv, List
      <3> QED
        BY <3>1, <3>2, <3>3
    <2>2. ASSUME NEW j \in DOMAIN v, NEW k \in DOMAIN v,
                 v[j].type = "publish", v[k].type = "publish", v[j].msg = v[k].msg
          PROVE  v[j].mid = v[k].mid
      <3>1. PICK a \in DOMAIN inflight : v[j].mid = inflight[a].mid /\ v[j].msg = inflight[a].msg
        BY <1>4, <2>2
      <3> QED
        BY <1>5, <2>2, <3>1 DEF Sent
    <2>3. Wire(v)
      BY <2>1, <2>2 DEF Wire
    <2>4. Behind(up, v)
      <3>1. ASSUME NEW j \in DOMAIN up, NEW k \in DOMAIN v, up[j].type = "pubrel", v[k].type = "publish"
            PROVE  up[j].mid # v[k].mid
        <4>1. PICK a \in DOMAIN inflight : v[k].mid = inflight[a].mid /\ inflight[a].kept = 1
          BY <1>4, <3>1
        <4> QED
          BY <3>1, <4>1 DEF IInv, Sent
      <3>2. ASSUME NEW j \in DOMAIN up, NEW k \in DOMAIN v,
                   up[j].type = "publish", v[k].type = "publish", up[j].msg = v[k].msg
            PROVE  up[j].mid = v[k].mid
        <4>1. PICK a \in DOMAIN inflight : v[k].mid = inflight[a].mid /\ v[k].msg = inflight[a].msg
          BY <1>4, <3>2
        <4> QED
          BY <3>2, <4>1 DEF IInv, Sent
      <3> QED
        BY <3>1, <3>2 DEF Behind
    <2>5. Guarded(v, stored, passed)
      <3> SUFFICES ASSUME NEW k \in DOMAIN v, v[k].type = "publish"
                   PROVE  passed[v[k].msg] = 0 \/ v[k].mid \in stored
        BY DEF Guarded
      <3>1. PICK a \in DOMAIN inflight :
              v[k].mid = inflight[a].mid /\ v[k].msg = inflight[a].msg /\ inflight[a].kept = 1
        BY <1>4
      <3> QED
        BY <1>7, <3>1 DEF IInv, Twice, Held
    <2> QED
      BY <2>3, <2>4, <2>5
  <1> QED
    BY <1>1, <1>2, <1>3, <1>6, <1>7, ClientStep

-----------------------------------------------------------------------------
(* A connection that ends takes the wires with it. *)

LEMMA CloseKeeps == ASSUME IInv, TypeOK', Close PROVE IInv'
  <1>1. up' = <<>> /\ down' = <<>> /\ UNCHANGED <<qos, events, inflight, broker>>
    BY DEF Close
  <1>2. /\ qos' = qos /\ events' = events /\ inflight' = inflight
        /\ stored' = stored /\ passed' = passed
    BY <1>1 DEF broker
  <1>3. NoneLost' /\ OnceOnly' /\ Unpublished(passed)'
    BY <1>2 DEF IInv, NoneLost, OnceOnly, Unpublished
  <1>4. List(inflight, passed)' /\ Store(stored, inflight, passed)'
    BY <1>2 DEF IInv, List, Store
  <1>5. Receipts(down, inflight, passed)' /\ Sent(up, inflight)'
    BY <1>1 DEF Receipts, Sent
  <1>6. Twice(inflight, up, stored, passed)'
    BY <1>1, <1>2 DEF IInv, Twice, Wire, Guarded, Held
  <1> QED
    BY <1>3, <1>4, <1>5, <1>6 DEF IInv
-----------------------------------------------------------------------------
(* A new message: its number and its id are new everywhere. *)

LEMMA AppendIs ==
  ASSUME NEW S, NEW s \in Seq(S), NEW y \in S
  PROVE  /\ Len(s) \in Nat /\ DOMAIN s = 1 .. Len(s) /\ DOMAIN Append(s, y) = 1 .. Len(s) + 1
         /\ Append(s, y)[Len(s) + 1] = y /\ \A i \in 1 .. Len(s) : Append(s, y)[i] = s[i]
  OBVIOUS

LEMMA PublishKeeps == ASSUME IInv, TypeOK', Publish PROVE IInv'
  <1> DEFINE e == [msg |-> events', mid |-> NextId, kept |-> 1, due |-> 0]
             x == Packet("publish", NextId, events')
             n == Len(inflight)
  <1>1. /\ events \in Nat /\ events' = events + 1 /\ events' \in Messages /\ NextId \in Ids
        /\ passed \in [Messages -> 0 .. 2] /\ up \in Seq(Packets) /\ inflight \in Seq(Elems)
    BY NextIdIn, ConstantsAssumption DEF IInv, TypeOK, Publish, Messages
  <1>2. qos' = qos /\ down' = down /\ stored' = stored /\ passed' = passed
    BY DEF Publish, broker
  <1>3. /\ \A i \in DOMAIN inflight : inflight[i].mid # NextId
        /\ \A k \in DOMAIN up : up[k].mid # NextId
        /\ \A k \in DOMAIN down : down[k].mid # NextId
        /\ NextId \notin stored
    BY DEF Publish, IsFree, Unknown
  <1>4. e \in Elems /\ e.msg = events' /\ e.mid = NextId /\ e.kept = 1
    BY <1>1 DEF Elems
  <1>5. x \in Packets /\ x.type = "publish" /\ x.mid = NextId /\ x.msg = events'
    <2>1. events' \in 0 .. MaxEvents
      BY <1>1, ConstantsAssumption DEF Messages
    <2> QED
      BY <1>1, <2>1, PacketIn
  <1>6. inflight' = Append(inflight, e) /\ (up' = up \/ up' = Append(up, x))
    BY DEF Publish
  <1> HIDE DEF e, x
  <1>7. /\ n \in Nat /\ DOMAIN inflight = 1 .. n /\ DOMAIN inflight' = 1 .. n + 1
        /\ inflight'[n + 1] = e /\ \A i \in 1 .. n : inflight'[i] = inflight[i]
    BY <1>1, <1>4, <1>6, AppendIs
  <1> HIDE DEF n
  <1>8. \A i \in DOMAIN inflight' :
           \/ inflight'[i] = e /\ i = n + 1
           \/ i \in DOMAIN inflight /\ inflight'[i] = inflight[i]
    BY <1>7
  <1>9. \A i \in DOMAIN inflight : inflight[i].msg < events' /\ inflight[i].msg \in Nat
    <2> SUFFICES ASSUME NEW i \in DOMAIN inflight PROVE inflight[i].msg < events' /\ inflight[i].msg \in Nat
      OBVIOUS
    <2>1. inflight[i] \in Elems /\ inflight[i].msg <= events
      BY <1>1 DEF IInv, List
    <2>2. inflight[i].msg \in Nat
      BY <2>1 DEF Elems, Messages
    <2> QED
      BY <1>1, <2>1, <2>2
  <1>10. NoneLost'
    <2> SUFFICES ASSUME NEW m \in 1 .. events', ~(passed[m] > 0)
                 PROVE  \E i \in DOMAIN inflight' : inflight'[i].msg = m /\ inflight'[i].kept = 1
      BY <1>2 DEF NoneLost
    <2>1. CASE m = events'
      BY <1>4, <1>7, <2>1
    <2>2. CASE m # events'
      <3>1. m \in 1 .. events
        BY <1>1, <2>2
      <3>2. PICK i \in DOMAIN inflight : inflight[i].msg = m /\ inflight[i].kept = 1
        BY <3>1 DEF IInv, NoneLost
      <3> QED
        BY <1>7, <3>2
    <2> QED
      BY <2>1, <2>2
  <1>11. OnceOnly' /\ Unpublished(passed)'
    <2>1. OnceOnly'
      BY <1>2 DEF IInv, OnceOnly
    <2>2. ASSUME NEW m \in Messages, m > events' PROVE passed[m] = 0
      <3>1. m > events
        BY <1>1, <2>2 DEF Messages
      <3> QED
        BY <3>1 DEF IInv, Unpublished
    <2> QED
      BY <1>2, <2>1, <2>2 DEF Unpublished
  <1>12. List(inflight, passed)'
    <2>1. ASSUME NEW i \in DOMAIN inflight', NEW j \in DOMAIN inflight',
                 inflight'[i].mid = inflight'[j].mid \/ inflight'[i].msg = inflight'[j].msg
          PROVE  i = j
      <3>1. CASE i \in DOMAIN inflight /\ inflight'[i] = inflight[i]
                 /\ j \in DOMAIN inflight /\ inflight'[j] = inflight[j]
        BY <2>1, <3>1 DEF IInv, List
      <3>2. \A a \in DOMAIN inflight : inflight[a].mid # e.mid /\ inflight[a].msg # e.msg
        BY <1>1, <1>3, <1>4, <1>9
      <3> QED
        BY <1>8, <2>1, <3>1, <3>2
    <2>2. \A i \in DOMAIN inflight' : inflight'[i].msg <= events'
      BY <1>1, <1>4, <1>8, <1>9
    <2>3. \A i \in DOMAIN inflight' : inflight'[i].kept = 0 => passed[inflight'[i].msg] > 0
      BY <1>4, <1>8 DEF IInv, List
    <2> QED
      BY <1>2, <2>1, <2>2, <2>3 DEF List
  <1>13. Receipts(down, inflight, passed)' /\ Store(stored, inflight, passed)'
    BY <1>2, <1>3, <1>4, <1>8 DEF IInv, Receipts, Store
  <1>14. ASSUME NEW k \in DOMAIN up'
         PROVE  (k \in DOMAIN up /\ up'[k] = up[k]) \/ (up'[k] = x /\ k \notin DOMAIN up)
    <2>1. CASE up' = up
      BY <1>14, <2>1
    <2>2. CASE up' = Append(up, x)
      <3>1. /\ DOMAIN up = 1 .. Len(up) /\ Len(up) \in Nat /\ DOMAIN up' = 1 .. Len(up) + 1
            /\ up'[Len(up) + 1] = x /\ \A j \in 1 .. Len(up) : up'[j] = up[j]
        BY <1>1, <1>5, <2>2
      <3> QED
        BY <1>14, <3>1
    <2> QED
      BY <1>6, <2>1, <2>2
  <1>15. \A k \in DOMAIN up : up[k].type = "publish" => up[k].msg < events' /\ up[k].msg \in 1 .. events
    BY <1>1 DEF IInv, Sent
  <1>16. Sent(up, inflight)'
    <2>1. \A k \in DOMAIN up' : up'[k].type = "publish" => up'[k].msg \in 1 .. events'
      BY <1>1, <1>5, <1>14, <1>15
    <2>2. ASSUME NEW k \in DOMAIN up', NEW i \in DOMAIN inflight', up'[k].type = "publish"
          PROVE  up'[k].mid = inflight'[i].mid <=> up'[k].msg = inflight'[i].msg
      <3>1. CASE up'[k] = x
        BY <1>1, <1>3, <1>4, <1>5, <1>8, <1>9, <3>1
      <3>2. CASE k \in DOMAIN up /\ up'[k] = up[k] /\ inflight'[i] = e
        BY <1>1, <1>3, <1>4, <1>15, <2>2, <3>2
      <3>3. CASE k \in DOMAIN up /\ up'[k] = up[k] /\ i \in DOMAIN inflight /\ inflight'[i] = inflight[i]
        BY <2>2, <3>3 DEF IInv, Sent
      <3> QED
        BY <1>8, <1>14, <3>1, <3>2, <3>3
    <2>3. ASSUME NEW k \in DOMAIN up', NEW i \in DOMAIN inflight',
                 up'[k].type = "pubrel", up'[k].mid = inflight'[i].mid
          PROVE  inflight'[i].kept = 0
      <3>1. k \in DOMAIN up /\ up'[k] = up[k] /\ up[k].mid # NextId
        BY <1>3, <1>5, <1>14, <2>3
      <3>2. i \in DOMAIN inflight /\ inflight'[i] = inflight[i]
        BY <1>4, <1>8, <2>3, <3>1
      <3> QED
        BY <2>3, <3>1, <3>2 DEF IInv, Sent
    <2> QED
      BY <2>1, <2>2, <2>3 DEF Sent
  <1>17. Twice(inflight, up, stored, passed)'
    <2> SUFFICES ASSUME qos = 2 PROVE (Wire(up) /\ Guarded(up, stored, passed) /\ Held(inflight, stored, passed))'
      BY <1>2 DEF Twice
    <2>1. Wire(up) /\ Guarded(up, stored, passed) /\ Held(inflight, stored, passed)
      BY DEF IInv, Twice
    <2>2. passed[events'] = 0
      BY <1>1 DEF IInv, Unpublished, Messages
    <2>3. Guarded(up', stored, passed)
      BY <1>5, <1>14, <2>1, <2>2 DEF Guarded
    <2>4. Held(inflight', stored, passed)
      BY <1>4, <1>8, <2>1, <2>2 DEF Held
    <2>5. Wire(up')
      <3>1. CASE up' = up
        BY <2>1, <3>1
      <3>2. CASE up' = Append(up, x)
        <4>1. Append(up, x) = up \o <<x>> /\ <<x>> \in Seq(Packets)
          BY <1>1, <1>5, PacketPut
        <4>2. DOMAIN <<x>> = {1} /\ <<x>>[1] = x
          OBVIOUS
        <4>3. Wire(<<x>>) /\ Behind(up, <<x>>)
          BY <1>1, <1>3, <1>5, <1>15, <4>2 DEF Wire, Behind
        <4> QED
          BY <1>1, <2>1, <3>2, <4>1, <4>3, PuttingKeepsOrder
      <3> QED
        BY <1>6, <3>1, <3>2
    <2> QED
      BY <1>2, <2>3, <2>4, <2>5
  <1> QED
    BY <1>10, <1>11, <1>12, <1>13, <1>16, <1>17 DEF IInv
-----------------------------------------------------------------------------
(* The broker takes a packet. *)

(* A message passed on makes what holds of its element hold, and disturbs
   nothing that is said of others. *)
LEMMA PassedMore ==
  ASSUME NEW l \in Seq(Elems), NEW d, NEW q,
         \A m \in Messages : passed[m] > 0 => q[m] > 0
  PROVE  /\ List(l, passed) => List(l, q)
         /\ Receipts(d, l, passed) => Receipts(d, l, q)
         /\ Store(stored, l, passed) => Store(stored, l, q)
  <1>1. \A i \in DOMAIN l : l[i] \in Elems
    OBVIOUS
  <1>2. \A i \in DOMAIN l : l[i].msg \in Messages
    BY <1>1 DEF Elems
  <1> QED
    BY <1>2 DEF List, Receipts, Store

LEMMA BrokerStep ==
  ASSUME IInv, TypeOK', BrokerTakes,
         \A m \in Messages : passed[m] > 0 => passed'[m] > 0,
         NEW t \in {"connack", "puback", "pubrec", "pubcomp"}, Answer(t),
         t # "connack" => \A i \in DOMAIN inflight : inflight[i].mid = Head(up).mid => passed'[inflight[i].msg] > 0,
         Store(stored', inflight, passed'), OnceOnly', Unpublished(passed'),
         qos = 2 => Guarded(Tail(up), stored', passed') /\ Held(inflight, stored', passed')
  PROVE  IInv'
  <1> DEFINE a == <<Short(t, Head(up).mid)>>
  <1>1. /\ TypeOK /\ up # <<>> /\ up' = Tail(up) /\ up \in Seq(Packets) /\ down \in Seq(Packets)
        /\ inflight \in Seq(Elems)
    BY DEF IInv, TypeOK, BrokerTakes
  <1>2. qos' = qos /\ events' = events /\ inflight' = inflight
    BY DEF BrokerTakes, client
  <1>3. NoneLost'
    <2> SUFFICES ASSUME NEW m \in 1 .. events, ~(passed'[m] > 0)
                 PROVE  \E i \in DOMAIN inflight : inflight[i].msg = m /\ inflight[i].kept = 1
      BY <1>2 DEF NoneLost
    <2>1. m \in Messages
      BY <1>1, ConstantsAssumption DEF TypeOK, Messages
    <2> QED
      BY <2>1 DEF IInv, NoneLost
  <1>4. List(inflight, passed') /\ Receipts(down, inflight, passed')
    BY <1>1, PassedMore DEF IInv
  <1>5. Receipts(down', inflight, passed')
    <2>1. a \in Seq(Packets) /\ down' = down \o a /\ DOMAIN a = {1} /\ a[1].type = t /\ a[1].mid = Head(up).mid
      BY <1>1, AnswerIs
    <2> HIDE DEF a
    <2>2. Receipts(a, inflight, passed')
      BY <2>1 DEF Receipts
    <2> QED
      BY <1>1, <1>4, <2>1, <2>2, PuttingKeeps
  <1>6. Sent(up', inflight)
    BY <1>1, TakingKeeps DEF IInv
  <1>7. qos = 2 => Wire(up')
    BY <1>1, TakingKeeps DEF IInv, Twice
  <1>8. Unpublished(passed)' /\ Store(stored, inflight, passed)'
    BY <1>2 DEF Unpublished, Store
  <1>9. List(inflight, passed)' /\ Receipts(down, inflight, passed)' /\ Sent(up, inflight)'
    BY <1>2, <1>4, <1>5, <1>6 DEF List, Receipts, Sent
  <1>10. Twice(inflight, up, stored, passed)'
    BY <1>1, <1>2, <1>7 DEF Twice, Wire, Guarded, Held
  <1> QED
    BY <1>3, <1>8, <1>9, <1>10 DEF IInv

LEMMA BrokerKeeps == ASSUME IInv, TypeOK', BrokerTakes PROVE IInv'
  <1> DEFINE p == Head(up)
  <1>1. /\ TypeOK /\ up # <<>> /\ up' = Tail(up) /\ up \in Seq(Packets) /\ qos' = qos
        /\ p \in Packets /\ 1 \in DOMAIN up /\ up[1] = p
        /\ \A k \in DOMAIN Tail(up) : k + 1 \in DOMAIN up /\ Tail(up)[k] = up[k + 1] /\ k \in Nat \ {0}
    BY PacketTaken DEF IInv, TypeOK, BrokerTakes
  <1>2. /\ OnceOnly /\ Unpublished(passed) /\ Store(stored, inflight, passed) /\ passed \in [Messages -> 0 .. 2]
        /\ qos = 2 => Guarded(up, stored, passed) /\ Held(inflight, stored, passed) /\ Wire(up)
        /\ Guarded(up, stored, passed) => Guarded(Tail(up), stored, passed)
    BY <1>1, TakingKeeps DEF IInv, TypeOK, Twice
  <1>3. \A i \in DOMAIN inflight : inflight[i].msg \in Messages
    <2>1. \A i \in DOMAIN inflight : inflight[i] \in Elems
      BY <1>1 DEF TypeOK
    <2> QED
      BY <2>1 DEF Elems
  <1> HIDE DEF p
  <1>4. p.type = "publish" => p.msg \in Messages /\ p.msg \in 1 .. events /\ events \in Nat
    <2>1. p.type = "publish" => p.msg \in 1 .. events /\ events \in 0 .. MaxEvents
      BY <1>1 DEF IInv, Sent, TypeOK
    <2> QED
      BY <2>1, ConstantsAssumption DEF Messages
  <1>5. CASE p.type = "connect" /\ Answer("connack") /\ UNCHANGED broker
    <2>1. stored' = stored /\ passed' = passed
      BY <1>5 DEF broker
    <2>2. OnceOnly'
      BY <1>1, <1>2, <2>1 DEF OnceOnly
    <2> QED
      BY <1>2, <1>5, <2>1, <2>2, BrokerStep
  <1>6. CASE p.type = "publish" /\ qos = 1 /\ PassOn(p.msg) /\ Answer("puback") /\ UNCHANGED stored
    <2>1. /\ \A m \in Messages : m # p.msg => passed'[m] = passed[m]
          /\ passed'[p.msg] > 0
      BY <1>1, <1>4, <1>6, PassedIs
    <2>2. \A m \in Messages : passed[m] > 0 => passed'[m] > 0
      BY <2>1
    <2>3. \A i \in DOMAIN inflight : inflight[i].mid = p.mid => passed'[inflight[i].msg] > 0
      BY <1>1, <1>6, <2>1 DEF IInv, Sent
    <2>4. Store(stored', inflight, passed')
      BY <1>1, <1>2, <1>6, <2>2, PassedMore DEF TypeOK
    <2>5. OnceOnly' /\ Unpublished(passed')
      BY <1>1, <1>2, <1>4, <1>6, <2>1 DEF OnceOnly, Unpublished, Messages
    <2> QED
      BY <1>6, <2>2, <2>3, <2>4, <2>5, BrokerStep DEF p
  <1>7. CASE /\ p.type = "publish" /\ qos = 2 /\ Answer("pubrec") /\ stored' = stored \cup {p.mid}
             /\ p.mid \in stored /\ UNCHANGED passed
    <2>1. stored' = stored /\ passed' = passed
      BY <1>7
    <2>2. \A i \in DOMAIN inflight : inflight[i].mid = p.mid => passed'[inflight[i].msg] > 0
      BY <1>2, <1>7, <2>1 DEF Store
    <2>3. OnceOnly'
      BY <1>1, <1>2, <2>1 DEF OnceOnly
    <2> QED
      BY <1>2, <1>7, <2>1, <2>2, <2>3, BrokerStep DEF p
  <1>8. CASE /\ p.type = "publish" /\ qos = 2 /\ Answer("pubrec") /\ stored' = stored \cup {p.mid}
             /\ p.mid \notin stored /\ PassOn(p.msg)
    <2>1. passed[p.msg] = 0
      BY <1>1, <1>2, <1>8 DEF Guarded
    <2>2. /\ \A m \in Messages : m # p.msg => passed'[m] = passed[m]
          /\ passed'[p.msg] = 1
      BY <1>1, <1>4, <1>8, <2>1, PassedIs
    <2>3. \A m \in Messages : passed[m] > 0 => passed'[m] > 0
      BY <2>2
    <2>4. \A i \in DOMAIN inflight : inflight[i].mid = p.mid <=> p.msg = inflight[i].msg
      BY <1>1, <1>8 DEF IInv, Sent
    <2>5. \A i \in DOMAIN inflight : inflight[i].mid = p.mid => passed'[inflight[i].msg] > 0
      BY <2>2, <2>4
    <2>6. Store(stored', inflight, passed')
      BY <1>2, <1>3, <1>8, <2>3, <2>5 DEF Store
    <2>7. OnceOnly' /\ Unpublished(passed')
      <3>1. \A m \in Messages : passed[m] <= 1
        BY <1>2, <1>8 DEF OnceOnly
      <3>2. OnceOnly'
        BY <2>2, <3>1 DEF OnceOnly
      <3>3. Unpublished(passed')
        BY <1>2, <1>4, <1>8, <2>2 DEF Unpublished, Messages
      <3> QED
        BY <3>2, <3>3
    <2>8. Guarded(Tail(up), stored', passed')
      <3> SUFFICES ASSUME NEW k \in DOMAIN Tail(up), Tail(up)[k].type = "publish"
                   PROVE  passed'[Tail(up)[k].msg] = 0 \/ Tail(up)[k].mid \in stored'
        BY DEF Guarded
      <3>1. k + 1 \in DOMAIN up /\ Tail(up)[k] = up[k + 1]
        BY <1>1
      <3>2. up[k + 1].msg \in Messages
        <4>1. up[k + 1].msg \in 1 .. events /\ events \in 0 .. MaxEvents
          BY <1>1, <3>1 DEF IInv, Sent, TypeOK
        <4> QED
          BY <4>1, ConstantsAssumption DEF Messages
      <3>3. CASE up[k + 1].msg = p.msg
        BY <1>1, <1>2, <1>8, <3>1, <3>3 DEF Wire
      <3>4. CASE up[k + 1].msg # p.msg
        BY <1>2, <1>8, <2>2, <3>1, <3>2, <3>4 DEF Guarded
      <3> QED
        BY <3>3, <3>4
    <2>9. Held(inflight, stored', passed')
      <3> SUFFICES ASSUME NEW i \in DOMAIN inflight, inflight[i].kept = 1
                   PROVE  passed'[inflight[i].msg] = 0 \/ inflight[i].mid \in stored'
        BY DEF Held
      <3>1. CASE inflight[i].msg = p.msg
        BY <1>8, <2>4, <3>1
      <3>2. CASE inflight[i].msg # p.msg
        BY <1>2, <1>3, <1>8, <2>2, <3>2 DEF Held
      <3> QED
        BY <3>1, <3>2
    <2> QED
      BY <1>8, <2>3, <2>5, <2>6, <2>7, <2>8, <2>9, BrokerStep DEF p
  <1>9. CASE p.type = "pubrel" /\ Answer("pubcomp") /\ stored' = stored \ {p.mid} /\ UNCHANGED passed
    <2>1. passed' = passed /\ stored' = stored \ {p.mid}
      BY <1>9
    <2>2. ASSUME NEW i \in DOMAIN inflight, inflight[i].mid = p.mid
          PROVE  inflight[i].kept = 0 /\ passed[inflight[i].msg] > 0
      <3>1. inflight[i].kept = 0
        BY <1>1, <1>9, <2>2 DEF IInv, Sent
      <3> QED
        BY <3>1 DEF IInv, List
    <2>3. Store(stored', inflight, passed')
      BY <1>2, <2>1 DEF Store
    <2>4. OnceOnly'
      BY <1>1, <1>2, <2>1 DEF OnceOnly
    <2>5. ASSUME qos = 2 PROVE Guarded(Tail(up), stored', passed')
      <3> SUFFICES ASSUME NEW k \in DOMAIN Tail(up), Tail(up)[k].type = "publish"
                   PROVE  passed[Tail(up)[k].msg] = 0 \/ Tail(up)[k].mid \in stored \ {p.mid}
        BY <2>1 DEF Guarded
      <3>1. k + 1 \in DOMAIN up /\ Tail(up)[k] = up[k + 1] /\ k \in Nat \ {0}
        BY <1>1
      <3>2. up[k + 1].mid # p.mid
        <4>1. up[k + 1].mid = p.mid => k + 1 < 1
          BY <1>1, <1>2, <1>9, <2>5, <3>1 DEF Wire
        <4> QED
          BY <3>1, <4>1
      <3> QED
        BY <1>2, <2>5, <3>1, <3>2 DEF Guarded
    <2>6. qos = 2 => Held(inflight, stored', passed')
      BY <1>2, <2>1, <2>2 DEF Held
    <2> QED
      BY <1>2, <1>9, <2>1, <2>2, <2>3, <2>4, <2>5, <2>6, BrokerStep DEF p
  <1> QED
    BY <1>5, <1>6, <1>7, <1>8, <1>9 DEF BrokerTakes, p

-----------------------------------------------------------------------------
LEMMA InitHolds == Init => IInv
  <1> SUFFICES ASSUME Init PROVE IInv
    OBVIOUS
  <1>1. /\ qos \in {1, 2} /\ inflight = <<>> /\ up = <<>> /\ down = <<>> /\ events = 0 /\ stored = {}
        /\ \A m \in Messages : passed[m] = 0
    BY DEF Init
  <1>2. NoneLost /\ OnceOnly /\ Unpublished(passed)
    BY <1>1 DEF NoneLost, OnceOnly, Unpublished
  <1>3. /\ List(inflight, passed) /\ Receipts(down, inflight, passed) /\ Store(stored, inflight, passed)
        /\ Sent(up, inflight)
    BY <1>1 DEF List, Receipts, Store, Sent
  <1>4. Twice(inflight, up, stored, passed)
    BY <1>1 DEF Twice, Wire, Guarded, Held
  <1> QED
    BY <1>2, <1>3, <1>4, InitTyped DEF IInv

LEMMA Inductive == IInv /\ [Next]_vars => IInv'
  <1> SUFFICES ASSUME IInv, [Next]_vars PROVE IInv'
    OBVIOUS
  <1>1. TypeOK'
    BY NextTyped DEF IInv
  <1>2. CASE Publish
    BY <1>1, <1>2, PublishKeeps
  <1>3. CASE Connected
    BY <1>1, <1>3, ConnectedKeeps
  <1>4. CASE Tick
    BY <1>1, <1>4, ReconnectKeeps, ResendKeeps DEF Tick
  <1>5. CASE TimePasses
    BY <1>1, <1>5, TimeKeeps
  <1>6. CASE Close
    BY <1>1, <1>6, CloseKeeps
  <1>7. CASE ReplyComes
    <2>1. ConnAck \/ PubAck \/ PubRec
      BY <1>7 DEF ReplyComes
    <2> QED
      BY <1>1, <1>7, <2>1, ConnAckKeeps, PubAckKeeps, PubRecKeeps
  <1>8. CASE BrokerTakes
    BY <1>1, <1>8, BrokerKeeps
  <1>9. CASE UNCHANGED vars
    <2>1. TypeOK /\ UNCHANGED <<qos, events, broker, inflight, up, down>>
      BY <1>9 DEF IInv, vars, client
    <2> QED
      BY <1>1, <2>1, PutNothing, SameList, ClientStep
  <1> QED
    BY <1>2, <1>3, <1>4, <1>5, <1>6, <1>7, <1>8, <1>9 DEF Next

(* No message is dropped before the broker has passed it on: until then it is
   on the list with its topic, whatever connections end and in whatever order
   receipts come. *)
THEOREM NoMessageIsLost == Spec => []NoneLost
  <1>1. IInv => NoneLost
    BY DEF IInv
  <1> QED
    BY <1>1, InitHolds, Inductive, PTL DEF Spec

(* With QoS 2 no message is passed on twice, however often it is sent. *)
THEOREM NoMessageTwice == Spec => []OnceOnly
  <1>1. IInv => OnceOnly
    BY DEF IInv
  <1> QED
    BY <1>1, InitHolds, Inductive, PTL DEF Spec
=============================================================================
