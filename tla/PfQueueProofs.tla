--------------------------- MODULE PfQueueProofs ----------------------------
(***************************************************************************)
(* Proofs about PfQueue for every set of packets, size, rate and limit.    *)
(*                                                                         *)
(* LinkInv carries LinkKnown.  That preempt_current_transmission finds     *)
(* both events of the transmission pending rests on ArrivalsBehind: the    *)
(* packet arrives no earlier than its transmission ends, which cut-through *)
(* does not respect.  PlaceInv carries OnePlace: what a preemption cancels *)
(* is the arrival of the packet it puts back, and each step moves a packet *)
(* between places that have none in common.  OrderInv carries FlowOrder:   *)
(* when the link takes a packet, those before it have left the link.       *)
(***************************************************************************)
EXTENDS PfQueue, SequencesExt, SequenceTheorems, FiniteSetTheorems, TLAPS

-----------------------------------------------------------------------------
(* Sequences *)

\* What is left of a sequence without its i-th element.
LEMMA RemoveAtProperties ==
    ASSUME NEW S, NEW s \in Seq(S), NEW i \in 1 .. Len(s)
    PROVE  /\ RemoveAt(s, i) \in Seq(S)
           /\ Len(RemoveAt(s, i)) = Len(s) - 1
           /\ \A k \in 1 .. Len(s) - 1 :
                RemoveAt(s, i)[k] = IF k < i THEN s[k] ELSE s[k + 1]
<1> DEFINE front == SubSeq(s, 1, i - 1)
           back  == SubSeq(s, i + 1, Len(s))
<1>1. Len(s) \in Nat /\ \A k \in 1 .. Len(s) : s[k] \in S
    BY LenProperties, ElementOfSeq
<1>2. /\ front \in Seq(S) /\ Len(front) = i - 1
      /\ \A k \in 1 .. i - 1 : front[k] = s[k]
    <2>1. \A k \in 1 .. i - 1 : s[k] \in S
        BY <1>1
    <2>2. 1 \in Int /\ i - 1 \in Int
        BY <1>1
    <2>3. /\ front \in Seq(S)
          /\ Len(front) = IF 1 <= i - 1 THEN (i - 1) - 1 + 1 ELSE 0
          /\ \A k \in 1 .. (i - 1) - 1 + 1 : front[k] = s[1 + k - 1]
        BY <2>1, <2>2, SubSeqProperties
    <2>4. QED
        BY <1>1, <2>3
<1>3. /\ back \in Seq(S) /\ Len(back) = Len(s) - i
      /\ \A k \in 1 .. Len(s) - i : back[k] = s[i + k]
    <2>1. \A k \in i + 1 .. Len(s) : s[k] \in S
        BY <1>1
    <2>2. i + 1 \in Int /\ Len(s) \in Int
        BY <1>1
    <2>3. /\ back \in Seq(S)
          /\ Len(back) = IF i + 1 <= Len(s) THEN Len(s) - (i + 1) + 1 ELSE 0
          /\ \A k \in 1 .. Len(s) - (i + 1) + 1 : back[k] = s[(i + 1) + k - 1]
        BY <2>1, <2>2, SubSeqProperties
    <2>4. QED
        BY <1>1, <2>3
<1>4. RemoveAt(s, i) = front \o back
    BY DEF RemoveAt
<1>5. /\ front \o back \in Seq(S)
      /\ Len(front \o back) = Len(front) + Len(back)
      /\ \A k \in 1 .. Len(front) + Len(back) :
            (front \o back)[k] = IF k <= Len(front) THEN front[k]
                                 ELSE back[k - Len(front)]
    BY <1>2, <1>3, ConcatProperties
<1> HIDE DEF front, back
<1>6. Len(front) + Len(back) = Len(s) - 1
    BY <1>1, <1>2, <1>3
<1>7. ASSUME NEW k \in 1 .. Len(s) - 1
      PROVE  (front \o back)[k] = IF k < i THEN s[k] ELSE s[k + 1]
    <2>1. CASE k < i
        BY <1>1, <1>2, <1>5, <1>6, <2>1
    <2>2. CASE ~(k < i)
        <3>1. k - (i - 1) \in 1 .. Len(s) - i /\ ~(k <= Len(front))
            BY <1>1, <1>2, <2>2
        <3>2. (front \o back)[k] = back[k - (i - 1)]
            BY <1>2, <1>5, <1>6, <3>1
        <3>3. back[k - (i - 1)] = s[i + (k - (i - 1))]
            BY <1>3, <3>1
        <3>4. i + (k - (i - 1)) = k + 1
            BY <1>1
        <3>5. QED
            BY <2>2, <3>2, <3>3, <3>4
    <2>3. QED
        BY <2>1, <2>2
<1>8. QED
    BY <1>4, <1>5, <1>6, <1>7

\* The elements of a sequence, one of them appended.
LEMMA AppendSet ==
    ASSUME NEW S, NEW s \in Seq(S), NEW x \in S
    PROVE  /\ ToSet(Append(s, x)) = ToSet(s) \cup {x}
           /\ IsInjective(s) /\ x \notin ToSet(s) => IsInjective(Append(s, x))
<1>1. Len(s) \in Nat /\ DOMAIN s = 1 .. Len(s)
    BY LenProperties
<1>2. /\ Append(s, x) \in Seq(S) /\ Len(Append(s, x)) = Len(s) + 1
      /\ \A i \in 1 .. Len(s) : Append(s, x)[i] = s[i]
      /\ Append(s, x)[Len(s) + 1] = x
    BY AppendProperties
<1>3. DOMAIN Append(s, x) = 1 .. Len(s) + 1
    BY <1>2, LenProperties
<1>4. \A i \in 1 .. Len(s) + 1 : i \in 1 .. Len(s) \/ i = Len(s) + 1
    BY <1>1
<1>5. 1 .. Len(s) \subseteq 1 .. Len(s) + 1 /\ Len(s) + 1 \in 1 .. Len(s) + 1
    BY <1>1
<1>6. ToSet(Append(s, x)) = {Append(s, x)[i] : i \in 1 .. Len(s) + 1}
    BY <1>3 DEF ToSet
<1>7. ToSet(s) = {s[i] : i \in 1 .. Len(s)}
    BY <1>1 DEF ToSet
<1>8. ToSet(Append(s, x)) = ToSet(s) \cup {x}
    BY <1>2, <1>4, <1>5, <1>6, <1>7
<1>9. ASSUME IsInjective(s), x \notin ToSet(s) PROVE IsInjective(Append(s, x))
    <2>1. \A i \in 1 .. Len(s) : s[i] # x
        BY <1>7, <1>9
    <2>2. \A i, j \in 1 .. Len(s) : s[i] = s[j] => i = j
        BY <1>1, <1>9 DEF IsInjective
    <2>3. \A i, j \in 1 .. Len(s) + 1 : Append(s, x)[i] = Append(s, x)[j] => i = j
        BY <1>2, <1>4, <2>1, <2>2
    <2>4. QED
        BY <1>3, <2>3 DEF IsInjective
<1>10. QED
    BY <1>8, <1>9

\* The elements of a sequence without duplicates, one of them removed.
LEMMA RemoveAtSet ==
    ASSUME NEW S, NEW s \in Seq(S), NEW i \in DOMAIN s, IsInjective(s)
    PROVE  /\ ToSet(RemoveAt(s, i)) = ToSet(s) \ {s[i]}
           /\ IsInjective(RemoveAt(s, i))
<1> DEFINE t == RemoveAt(s, i)
<1>1. Len(s) \in Nat /\ DOMAIN s = 1 .. Len(s) /\ i \in 1 .. Len(s)
    BY LenProperties
<1>2. /\ t \in Seq(S) /\ Len(t) = Len(s) - 1
      /\ \A k \in 1 .. Len(s) - 1 : t[k] = IF k < i THEN s[k] ELSE s[k + 1]
    BY <1>1, RemoveAtProperties
<1>3. DOMAIN t = 1 .. Len(s) - 1
    BY <1>2, LenProperties
<1> HIDE DEF t
<1>4. \A j, k \in 1 .. Len(s) : s[j] = s[k] => j = k
    BY <1>1 DEF IsInjective
<1>5. ASSUME NEW k \in 1 .. Len(s) - 1
      PROVE  \E j \in 1 .. Len(s) : j # i /\ t[k] = s[j]
    <2>1. k \in 1 .. Len(s) /\ k + 1 \in 1 .. Len(s)
        BY <1>1
    <2>2. CASE k < i
        BY <1>1, <1>2, <2>1, <2>2
    <2>3. CASE ~(k < i)
        <3>1. k + 1 # i
            BY <1>1, <2>3
        <3>2. QED
            BY <1>2, <2>1, <2>3, <3>1
    <2>4. QED
        BY <2>2, <2>3
<1>6. ASSUME NEW j \in 1 .. Len(s), j # i
      PROVE  \E k \in 1 .. Len(s) - 1 : t[k] = s[j]
    <2>1. CASE j < i
        <3>1. j \in 1 .. Len(s) - 1
            BY <1>1, <2>1
        <3>2. QED
            BY <1>2, <2>1, <3>1
    <2>2. CASE ~(j < i)
        <3>1. j - 1 \in 1 .. Len(s) - 1 /\ ~(j - 1 < i) /\ (j - 1) + 1 = j
            BY <1>1, <1>6, <2>2
        <3>2. t[j - 1] = s[(j - 1) + 1]
            BY <1>2, <3>1
        <3>3. QED
            BY <3>1, <3>2
    <2>3. QED
        BY <2>1, <2>2
<1>7. ToSet(t) = {t[k] : k \in 1 .. Len(s) - 1} /\ ToSet(s) = {s[j] : j \in 1 .. Len(s)}
    BY <1>1, <1>3 DEF ToSet
<1>8. ToSet(t) \subseteq ToSet(s) \ {s[i]}
    <2>1. SUFFICES ASSUME NEW k \in 1 .. Len(s) - 1 PROVE t[k] \in ToSet(s) \ {s[i]}
        BY <1>7
    <2>2. QED
        BY <1>1, <1>4, <1>5, <1>7
<1>9. ToSet(s) \ {s[i]} \subseteq ToSet(t)
    <2>1. SUFFICES ASSUME NEW j \in 1 .. Len(s), s[j] # s[i] PROVE s[j] \in ToSet(t)
        BY <1>7
    <2>2. QED
        BY <1>6, <1>7, <2>1
<1>10. ASSUME NEW k \in 1 .. Len(s) - 1, NEW l \in 1 .. Len(s) - 1, t[k] = t[l]
       PROVE  k = l
    <2>1. /\ k \in 1 .. Len(s) /\ k + 1 \in 1 .. Len(s)
          /\ l \in 1 .. Len(s) /\ l + 1 \in 1 .. Len(s)
        BY <1>1
    <2>2. /\ t[k] = IF k < i THEN s[k] ELSE s[k + 1]
          /\ t[l] = IF l < i THEN s[l] ELSE s[l + 1]
        BY <1>2
    <2>3. CASE k < i /\ l < i
        BY <1>4, <1>10, <2>1, <2>2, <2>3
    <2>4. CASE k < i /\ ~(l < i)
        <3>1. k = l + 1
            BY <1>4, <1>10, <2>1, <2>2, <2>4
        <3>2. QED
            BY <1>1, <2>4, <3>1
    <2>5. CASE ~(k < i) /\ l < i
        <3>1. k + 1 = l
            BY <1>4, <1>10, <2>1, <2>2, <2>5
        <3>2. QED
            BY <1>1, <2>5, <3>1
    <2>6. CASE ~(k < i) /\ ~(l < i)
        <3>1. k + 1 = l + 1
            BY <1>4, <1>10, <2>1, <2>2, <2>6
        <3>2. QED
            BY <3>1
    <2>7. QED
        BY <2>3, <2>4, <2>5, <2>6
<1>11. IsInjective(t)
    BY <1>3, <1>10 DEF IsInjective
<1>12. QED
    BY <1>8, <1>9, <1>11 DEF t

-----------------------------------------------------------------------------
(* The buffer *)

\* Enqueueing keeps packets.
LEMMA BuffersType ==
    ASSUME NEW s \in Seq(Packet), NEW p \in Packet, NEW t \in Buffers(s, p)
    PROVE  t \in Seq(Packet)
<1>1. Append(s, p) \in Seq(Packet)
    BY AppendProperties
<1>2. CASE t = Append(s, p)
    BY <1>1, <1>2
<1>3. CASE \E i \in DOMAIN Append(s, p) : t = RemoveAt(Append(s, p), i)
    <2>1. PICK i \in DOMAIN Append(s, p) : t = RemoveAt(Append(s, p), i)
        BY <1>3
    <2>2. i \in 1 .. Len(Append(s, p))
        BY <1>1, <2>1, LenProperties
    <2>3. QED
        BY <1>1, <2>1, <2>2, RemoveAtProperties
<1>4. QED
    BY <1>2, <1>3 DEF Buffers

\* Putting a packet back keeps packets.
LEMMA PutBackType ==
    ASSUME packets \in Seq(Packet), NEW p \in Packet, NEW t \in PutBack(p)
    PROVE  t \in Seq(Packet)
<1>1. CASE t \in Buffers(packets, p)
    BY <1>1, BuffersType
<1>2. CASE \E i \in DOMAIN packets : t \in Buffers(RemoveAt(packets, i), p)
    <2>1. PICK i \in DOMAIN packets : t \in Buffers(RemoveAt(packets, i), p)
        BY <1>2
    <2>2. i \in 1 .. Len(packets)
        BY <2>1, LenProperties
    <2>3. RemoveAt(packets, i) \in Seq(Packet)
        BY <2>2, RemoveAtProperties
    <2>4. QED
        BY <2>1, <2>3, BuffersType
<1>3. QED
    BY <1>1, <1>2 DEF PutBack

\* What enqueueing loses are packets.
LEMMA LostType ==
    ASSUME NEW s \in Seq(Packet), NEW p \in Packet, NEW t
    PROVE  Lost(s, p, t) \subseteq Packet
<1>1. ToSet(s) \subseteq Packet
    <2>1. ASSUME NEW i \in DOMAIN s PROVE s[i] \in Packet
        BY <2>1, ElementOfSeq, LenProperties
    <2>2. QED
        BY <2>1 DEF ToSet
<1>2. QED
    BY <1>1 DEF Lost

\* Taking a packet keeps the types of packets and dropped.
LEMMA TakeType ==
    ASSUME NEW s \in Seq(Packet), NEW p \in Packet, NEW lost \in SUBSET Packet,
           dropped \subseteq Packet, Take(s, p, lost)
    PROVE  packets' \in Seq(Packet) /\ dropped' \subseteq Packet
<1>1. PICK t \in Buffers(s, p) :
        packets' = t /\ dropped' = dropped \cup lost \cup Lost(s, p, t)
    BY DEF Take
<1>2. t \in Seq(Packet)
    BY <1>1, BuffersType
<1>3. Lost(s, p, t) \subseteq Packet
    BY LostType
<1>4. QED
    BY <1>1, <1>2, <1>3

-----------------------------------------------------------------------------
(* The events *)

\* Events that are posted and cancelled are events.
LEMMA EventsType ==
    ASSUME NEW es \in [EventIds -> EventType]
    PROVE  /\ \A ids : Without(es, ids) \in [EventIds -> EventType]
           /\ \A e \in EventIds, due \in Nat :
                Post(es, e, "QUEUE", NoPacket, due) \in [EventIds -> EventType]
           /\ \A e \in EventIds, p \in Packet, due \in Nat :
                Post(es, e, "ARRIVAL", p, due) \in [EventIds -> EventType]
<1>1. NoEvent \in EventType
    BY DEF EventType
<1>2. \A due \in Nat :
        [kind |-> "QUEUE", packet |-> NoPacket, due |-> due] \in EventType
    BY DEF EventType
<1>3. \A p \in Packet, due \in Nat :
        [kind |-> "ARRIVAL", packet |-> p, due |-> due] \in EventType
    BY DEF EventType
<1>4. QED
    BY <1>1, <1>2, <1>3 DEF Without, Post

\* The kinds of the three sorts of events.
LEMMA EventKinds ==
    ASSUME NEW ev \in EventType
    PROVE  /\ ev.kind \in {"NONE", "QUEUE", "ARRIVAL"} /\ ev.due \in Nat
           /\ ev.kind = "NONE" <=> ev = NoEvent
           /\ ev.kind = "ARRIVAL" => ev.packet \in Packet
BY DEF EventType, NoEvent

\* Setting the link to work on p, with no other QueueProcessingEvent pending.
LEMMA StartLinkKeeps ==
    ASSUME NEW es \in [EventIds -> EventType], NEW p \in Packet, StartLink(es, p),
           \A e \in EventIds : es[e].kind # "QUEUE"
    PROVE  /\ events' \in [EventIds -> EventType]
           /\ queue_proc_event' \in EventIds /\ busy' = TRUE
           /\ packet_transmitting' = p
           /\ LinkKnown'
           /\ events'[queue_proc_event'].due = 0
<1>1. PICK n \in EventIds :
        /\ IsNew(n, es)
        /\ events' = Post(es, n, "QUEUE", NoPacket, 0)
        /\ queue_proc_event' = n
        /\ busy' = TRUE /\ packet_transmitting' = p
    BY DEF StartLink
<1>2. events' \in [EventIds -> EventType]
    BY <1>1, EventsType
<1>3. /\ events'[n].kind = "QUEUE" /\ events'[n].due = 0
      /\ \A e \in EventIds : e # n => events'[e] = es[e]
    BY <1>1 DEF Post
<1>4. n # NULL
    BY PfBoundsAssumption DEF NULL
<1>5. LinkKnown'
    BY <1>1, <1>3, <1>4 DEF LinkKnown, Transmitting
<1>6. QED
    BY <1>1, <1>2, <1>3, <1>5

-----------------------------------------------------------------------------
(* LinkInv *)

LEMMA InitLink == Init => LinkInv
<1> SUFFICES ASSUME Init PROVE LinkInv
    OBVIOUS
<1>1. << >> \in Seq(Packet) /\ NoEvent \in EventType /\ NoEvent.kind = "NONE"
    BY EmptySeq DEF NoEvent, EventType
<1>2. TypeOK
    <2>1. packets \in Seq(Packet) /\ delivered \in Seq(Packet)
        BY <1>1 DEF Init
    <2>2. events \in [EventIds -> EventType]
        BY <1>1 DEF Init
    <2>3. arrivals \in 0 .. MaxArrivals
        BY PfBoundsAssumption DEF Init
    <2>4. /\ preemptive_queue \in BOOLEAN /\ normal_host \in BOOLEAN /\ busy \in BOOLEAN
          /\ queue_proc_event \in EventIds \cup {NULL} /\ busy_events \subseteq EventIds
          /\ packet_transmitting \in Packet \cup {NoPacket} /\ dropped \subseteq Packet
        BY DEF Init
    <2>5. QED
        BY <2>1, <2>2, <2>3, <2>4 DEF TypeOK
<1>3. LinkKnown /\ ArrivalsBehind /\ PacketKnown
    BY <1>1 DEF Init, LinkKnown, Transmitting, ArrivalsBehind, PacketKnown
<1>4. QED
    BY <1>2, <1>3 DEF LinkInv

LEMMA ArriveKeeps ==
    ASSUME LinkInv, NEW kind \in Kinds, ArrivePacket(kind)
    PROVE  LinkInv'
<1> DEFINE p == [serial |-> arrivals + 1, kind |-> kind]
<1>1. TypeOK /\ LinkKnown /\ ArrivalsBehind /\ PacketKnown
    BY DEF LinkInv
<1>2. /\ arrivals' \in 0 .. MaxArrivals /\ arrivals + 1 \in 1 .. MaxArrivals
      /\ UNCHANGED << preemptive_queue, normal_host, delivered >>
    BY <1>1, PfBoundsAssumption DEF ArrivePacket, TypeOK, params
<1>3. p \in Packet
    BY <1>2 DEF Packet
<1>4. CASE ~busy /\ StartLink(events, p) /\ UNCHANGED busy_events /\ Take(packets, p, {})
    <2>1. \A e \in EventIds : events[e].kind # "QUEUE"
        BY <1>1, <1>4 DEF LinkKnown
    <2>2. packets' \in Seq(Packet) /\ dropped' \subseteq Packet
        BY <1>1, <1>3, <1>4, TakeType DEF TypeOK
    <2> HIDE DEF p
    <2>3. /\ events' \in [EventIds -> EventType]
          /\ queue_proc_event' \in EventIds /\ busy' = TRUE /\ packet_transmitting' = p
          /\ LinkKnown' /\ events'[queue_proc_event'].due = 0
        BY <1>1, <1>3, <1>4, <2>1, StartLinkKeeps DEF TypeOK
    <2>4. TypeOK'
        BY <1>1, <1>2, <1>3, <1>4, <2>2, <2>3 DEF TypeOK
    <2>5. ArrivalsBehind'
        <3>1. \A e \in busy_events' : events'[e].due \in Nat
            BY <1>1, <1>4, <2>3, EventKinds DEF TypeOK
        <3>2. QED
            BY <2>3, <3>1 DEF ArrivalsBehind
    <2>6. PacketKnown'
        BY <1>3, <2>3 DEF PacketKnown
    <2>7. QED
        BY <2>3, <2>4, <2>5, <2>6 DEF LinkInv
<1>5. CASE busy /\ UNCHANGED << events, link >> /\ Take(packets, p, {})
    <2>1. packets' \in Seq(Packet) /\ dropped' \subseteq Packet
        BY <1>1, <1>3, <1>5, TakeType DEF TypeOK
    <2>2. UNCHANGED << events, busy, queue_proc_event, busy_events, packet_transmitting >>
        BY <1>5 DEF link
    <2>3. TypeOK'
        BY <1>1, <1>2, <2>1, <2>2 DEF TypeOK
    <2>4. LinkKnown' /\ ArrivalsBehind' /\ PacketKnown'
        BY <1>1, <2>2 DEF LinkKnown, Transmitting, ArrivalsBehind, PacketKnown
    <2>5. QED
        BY <2>3, <2>4 DEF LinkInv
<1>6. CASE Preempts(p) /\ Preempt(p)
    <2> DEFINE es == Without(events, Cancelled(busy_events))
    <2>1. busy /\ packet_transmitting \in Packet
        BY <1>1, <1>6 DEF Preempts, PacketKnown
    <2>2. es \in [EventIds -> EventType]
        BY <1>1, EventsType DEF TypeOK
    <2>3. \A e \in EventIds : es[e].kind # "QUEUE"
        BY <1>1, <2>1 DEF Without, Cancelled, LinkKnown, NoEvent
    <2>4. StartLink(es, p) /\ busy_events' = {}
        BY <1>6 DEF Preempt
    <2>5. packets' \in Seq(Packet) /\ dropped' \subseteq Packet
        <3>1. PICK rest \in PutBack(packet_transmitting) :
                Take(rest, p, Lost(packets, packet_transmitting, rest))
            BY <1>6 DEF Preempt
        <3>2. rest \in Seq(Packet)
            BY <1>1, <2>1, PutBackType DEF TypeOK
        <3>3. Lost(packets, packet_transmitting, rest) \in SUBSET Packet
            BY <1>1, <2>1, LostType DEF TypeOK
        <3>4. QED
            BY <1>1, <1>3, <3>1, <3>2, <3>3, TakeType DEF TypeOK
    <2> HIDE DEF p, es
    <2>6. /\ events' \in [EventIds -> EventType]
          /\ queue_proc_event' \in EventIds /\ busy' = TRUE /\ packet_transmitting' = p
          /\ LinkKnown'
        BY <1>3, <2>2, <2>3, <2>4, StartLinkKeeps
    <2>7. TypeOK'
        BY <1>1, <1>2, <1>3, <2>4, <2>5, <2>6 DEF TypeOK
    <2>8. ArrivalsBehind' /\ PacketKnown'
        BY <1>3, <2>4, <2>6 DEF ArrivalsBehind, PacketKnown
    <2>9. QED
        BY <2>6, <2>7, <2>8 DEF LinkInv
<1>7. QED
    BY <1>4, <1>5, <1>6 DEF ArrivePacket

LEMMA TransmitKeeps ==
    ASSUME ~CutThrough, LinkInv, NEW e \in EventIds, Due(e, "QUEUE"),
           NEW i \in DOMAIN packets, Transmit(e, i),
           UNCHANGED << params, arrivals, delivered, dropped >>
    PROVE  LinkInv'
<1> DEFINE p == packets[i]
<1>1. TypeOK /\ LinkKnown
    BY DEF LinkInv
<1>2. i \in 1 .. Len(packets) /\ p \in Packet
    BY <1>1, LenProperties, ElementOfSeq DEF TypeOK
<1>3. packets' = RemoveAt(packets, i) /\ packets' \in Seq(Packet)
    BY <1>1, <1>2, RemoveAtProperties DEF TypeOK, Transmit
<1>4. Ticks(p) \in Nat /\ Latency(p) \in Nat /\ Latency(p) >= Ticks(p)
    BY <1>2, PfSizesAssumption DEF Ticks, Size, Latency, Packet
<1>5. PICK q \in EventIds, a \in EventIds :
        /\ IsNew(q, events)
        /\ IsNew(a, Post(events, q, "QUEUE", NoPacket, Ticks(p)))
        /\ events' = Without(Post(Post(events, q, "QUEUE", NoPacket, Ticks(p)),
                                  a, "ARRIVAL", p, Latency(p)), {e})
        /\ queue_proc_event' = q /\ busy_events' = {q, a}
        /\ packet_transmitting' = p /\ busy' = TRUE
    BY DEF Transmit
<1> HIDE DEF p
<1>6. /\ q # e /\ a # e /\ a # q /\ q # NULL
    <2>1. events[q].kind = "NONE" /\ events[e].kind = "QUEUE"
        BY <1>5 DEF IsNew, Free, Due
    <2>2. Post(events, q, "QUEUE", NoPacket, Ticks(p))[a].kind = "NONE"
        BY <1>5 DEF IsNew, Free
    <2>3. Post(events, q, "QUEUE", NoPacket, Ticks(p))[q].kind = "QUEUE"
        BY <1>1 DEF Post, TypeOK
    <2>4. Post(events, q, "QUEUE", NoPacket, Ticks(p))[e].kind = "QUEUE"
        BY <1>1, <2>1 DEF Post, TypeOK
    <2>5. QED
        BY <2>1, <2>2, <2>3, <2>4, PfBoundsAssumption DEF NULL
<1>7. events' \in [EventIds -> EventType]
    BY <1>1, <1>2, <1>4, <1>5, EventsType DEF TypeOK
<1>8. /\ events'[q].kind = "QUEUE" /\ events'[q].due = Ticks(p)
      /\ events'[a].kind = "ARRIVAL" /\ events'[a].due = Latency(p)
      /\ events'[e].kind = "NONE"
      /\ \A f \in EventIds : f \notin {e, q, a} => events'[f] = events[f]
    BY <1>1, <1>5, <1>6 DEF TypeOK, Post, Without, NoEvent
<1>9. \A f \in EventIds : events[f].kind = "QUEUE" => f = e
    BY <1>1 DEF LinkKnown, Due
<1>10. TypeOK'
    BY <1>1, <1>2, <1>3, <1>5, <1>7 DEF TypeOK, params
<1>11. LinkKnown'
    BY <1>5, <1>6, <1>8, <1>9 DEF LinkKnown, Transmitting
<1>12. ArrivalsBehind' /\ PacketKnown'
    BY <1>2, <1>4, <1>5, <1>8 DEF ArrivalsBehind, PacketKnown
<1>13. QED
    BY <1>10, <1>11, <1>12 DEF LinkInv

LEMMA StopKeeps ==
    ASSUME LinkInv, NEW e \in EventIds, Due(e, "QUEUE"), Stop(e),
           UNCHANGED << params, arrivals, delivered, dropped >>
    PROVE  LinkInv'
<1>1. TypeOK /\ LinkKnown
    BY DEF LinkInv
<1>2. /\ events' = Without(events, {e}) /\ queue_proc_event' = NULL /\ busy_events' = {}
      /\ packet_transmitting' = NoPacket /\ busy' = FALSE /\ packets' = packets
    BY DEF Stop
<1>3. events' \in [EventIds -> EventType]
    BY <1>1, <1>2, EventsType DEF TypeOK
<1>4. TypeOK'
    BY <1>1, <1>2, <1>3 DEF TypeOK, params
<1>5. \A f \in EventIds : events'[f].kind # "QUEUE"
    BY <1>1, <1>2 DEF LinkKnown, Due, Without, NoEvent
<1>6. LinkKnown' /\ ArrivalsBehind' /\ PacketKnown'
    BY <1>2, <1>5 DEF LinkKnown, Transmitting, ArrivalsBehind, PacketKnown
<1>7. QED
    BY <1>4, <1>6 DEF LinkInv

LEMMA DeliverKeeps ==
    ASSUME LinkInv, NEW e \in EventIds, Deliver(e)
    PROVE  LinkInv'
<1>1. TypeOK /\ LinkKnown /\ ArrivalsBehind /\ PacketKnown
    BY DEF LinkInv
<1>2. /\ events[e].kind = "ARRIVAL" /\ events[e].due = 0
      /\ delivered' = Append(delivered, events[e].packet)
      /\ events' = Without(events, {e})
      /\ UNCHANGED << preemptive_queue, normal_host, packets, busy, queue_proc_event,
                      busy_events, packet_transmitting, arrivals, dropped >>
    BY DEF Deliver, Due, params, link
<1>3. events' \in [EventIds -> EventType]
    BY <1>1, <1>2, EventsType DEF TypeOK
<1>4. events[e].packet \in Packet
    BY <1>1, <1>2, EventKinds DEF TypeOK
<1>5. delivered' \in Seq(Packet)
    BY <1>1, <1>2, <1>4, AppendProperties DEF TypeOK
<1>6. TypeOK'
    BY <1>1, <1>2, <1>3, <1>5 DEF TypeOK
<1>7. /\ events'[e].kind = "NONE"
      /\ \A f \in EventIds : f # e => events'[f] = events[f]
    BY <1>2 DEF Without, NoEvent
<1>8. busy => queue_proc_event \in EventIds /\ queue_proc_event # e
    BY <1>1, <1>2 DEF TypeOK, LinkKnown
<1>9. Transmitting' => Transmitting /\ e \notin busy_events
    <2>1. SUFFICES ASSUME Transmitting' PROVE Transmitting /\ e \notin busy_events
        OBVIOUS
    <2>2. Transmitting
        BY <1>2, <1>7, <1>8, <2>1 DEF Transmitting
    <2>3. events[queue_proc_event].due \in Nat
        BY <1>1, <1>8, <2>2, EventKinds DEF TypeOK, Transmitting
    <2>4. QED
        BY <1>1, <1>2, <2>2, <2>3 DEF Transmitting, ArrivalsBehind
<1>10. LinkKnown'
    <2>1. \A f \in EventIds : events'[f].kind = "QUEUE" => busy' /\ f = queue_proc_event'
        <3>1. ASSUME NEW f \in EventIds, events'[f].kind = "QUEUE"
              PROVE  busy' /\ f = queue_proc_event'
            <4>1. f # e /\ events'[f] = events[f]
                BY <1>7, <3>1
            <4>2. QED
                BY <1>1, <1>2, <3>1, <4>1 DEF LinkKnown
        <3>2. QED
            BY <3>1
    <2>2. busy' => queue_proc_event' # NULL /\ events'[queue_proc_event'].kind = "QUEUE"
        BY <1>1, <1>2, <1>7, <1>8 DEF LinkKnown
    <2>3. Transmitting' => \A f \in busy_events' : events'[f].kind # "NONE"
        BY <1>1, <1>2, <1>7, <1>9 DEF LinkKnown, TypeOK
    <2>4. QED
        BY <2>1, <2>2, <2>3 DEF LinkKnown
<1>11. ArrivalsBehind'
    <2>1. SUFFICES ASSUME busy, NEW f \in busy_events, events'[f].kind = "ARRIVAL"
                   PROVE  events'[f].due >= events'[queue_proc_event].due
        BY <1>2 DEF ArrivalsBehind
    <2>2. f \in EventIds /\ f # e
        BY <1>1, <1>7, <2>1 DEF TypeOK
    <2>3. events'[f] = events[f] /\ events'[queue_proc_event] = events[queue_proc_event]
        BY <1>7, <1>8, <2>1, <2>2
    <2>4. QED
        BY <1>1, <2>1, <2>3 DEF ArrivalsBehind
<1>12. PacketKnown'
    BY <1>1, <1>2 DEF PacketKnown
<1>13. QED
    BY <1>6, <1>10, <1>11, <1>12 DEF LinkInv

\* Time changes nothing about an event but when it is due.
LEMMA TickEvents ==
    ASSUME TypeOK, Tick
    PROVE  \A f \in EventIds :
            /\ events'[f] \in EventType
            /\ events'[f].kind = events[f].kind /\ events'[f].packet = events[f].packet
            /\ events[f].kind # "NONE" => events'[f].due = events[f].due - 1
<1>1. /\ \A f \in EventIds : events[f].kind # "NONE" => events[f].due > 0
      /\ events' = [f \in EventIds |-> IF events[f].kind = "NONE" THEN NoEvent
                                       ELSE [events[f] EXCEPT !.due = @ - 1]]
    BY DEF Tick
<1>2. ASSUME NEW f \in EventIds
      PROVE  /\ events'[f] \in EventType
             /\ events'[f].kind = events[f].kind /\ events'[f].packet = events[f].packet
             /\ events[f].kind # "NONE" => events'[f].due = events[f].due - 1
    <2>1. events[f] \in EventType
        BY DEF TypeOK
    <2>2. CASE events[f].kind = "NONE"
        BY <1>1, <2>1, <2>2, EventKinds
    <2>3. CASE events[f].kind # "NONE"
        <3>1. events'[f] = [events[f] EXCEPT !.due = @ - 1] /\ events[f].due > 0
            BY <1>1, <2>3
        <3>2. CASE events[f] \in [kind : {"QUEUE"}, packet : {NoPacket}, due : Nat]
            <4>1. events'[f] \in [kind : {"QUEUE"}, packet : {NoPacket}, due : Nat]
                BY <3>1, <3>2
            <4>2. QED
                BY <3>1, <3>2, <4>1 DEF EventType
        <3>3. CASE events[f] \in [kind : {"ARRIVAL"}, packet : Packet, due : Nat]
            <4>1. events'[f] \in [kind : {"ARRIVAL"}, packet : Packet, due : Nat]
                BY <3>1, <3>3
            <4>2. QED
                BY <3>1, <3>3, <4>1 DEF EventType
        <3>4. QED
            BY <2>1, <2>3, <3>2, <3>3 DEF EventType, NoEvent
    <2>4. QED
        BY <2>2, <2>3
<1>3. QED
    BY <1>2

LEMMA TickKeeps ==
    ASSUME LinkInv, Tick
    PROVE  LinkInv'
<1>1. TypeOK /\ LinkKnown /\ ArrivalsBehind /\ PacketKnown
    BY DEF LinkInv
<1>2. /\ \A f \in EventIds : events[f].kind # "NONE" => events[f].due > 0
      /\ events' = [f \in EventIds |-> IF events[f].kind = "NONE" THEN NoEvent
                                       ELSE [events[f] EXCEPT !.due = @ - 1]]
      /\ UNCHANGED << preemptive_queue, normal_host, packets, busy, queue_proc_event,
                      busy_events, packet_transmitting, arrivals, delivered, dropped >>
    BY DEF Tick, params, link
<1>3. \A f \in EventIds :
        /\ events'[f] \in EventType /\ events'[f].kind = events[f].kind
        /\ events[f].kind # "NONE" => events'[f].due = events[f].due - 1
    BY <1>1, TickEvents
<1>4. events' \in [EventIds -> EventType]
    BY <1>2, <1>3
<1>5. TypeOK'
    BY <1>1, <1>2, <1>4 DEF TypeOK
<1>6. busy => /\ queue_proc_event \in EventIds
              /\ events'[queue_proc_event].due = events[queue_proc_event].due - 1
              /\ events[queue_proc_event].due > 0
              /\ events[queue_proc_event].due \in Nat
    BY <1>1, <1>2, <1>3, EventKinds DEF TypeOK, LinkKnown
<1>7. LinkKnown'
    BY <1>1, <1>2, <1>3, <1>6 DEF LinkKnown, TypeOK, Transmitting
<1>8. ArrivalsBehind'
    <2>1. SUFFICES ASSUME busy, NEW f \in busy_events, events'[f].kind = "ARRIVAL"
                   PROVE  events'[f].due >= events'[queue_proc_event].due
        BY <1>2 DEF ArrivalsBehind
    <2>2. f \in EventIds /\ events[f].kind = "ARRIVAL" /\ events[f].due \in Nat
        BY <1>1, <1>3, <2>1, EventKinds DEF TypeOK
    <2>3. QED
        BY <1>1, <1>3, <1>6, <2>1, <2>2 DEF ArrivalsBehind
<1>9. PacketKnown'
    BY <1>1, <1>2 DEF PacketKnown
<1>10. QED
    BY <1>5, <1>7, <1>8, <1>9 DEF LinkInv

LEMMA NextLink ==
    ASSUME ~CutThrough, LinkInv, [Next]_vars
    PROVE  LinkInv'
<1>1. ASSUME NEW kind \in Kinds, ArrivePacket(kind) PROVE LinkInv'
    BY <1>1, ArriveKeeps
<1>2. ASSUME NEW e \in EventIds, ProcessQueue(e) PROVE LinkInv'
    BY <1>2, StopKeeps, TransmitKeeps DEF ProcessQueue
<1>3. ASSUME NEW e \in EventIds, Deliver(e) PROVE LinkInv'
    BY <1>3, DeliverKeeps
<1>4. CASE Tick
    BY <1>4, TickKeeps
<1>5. CASE UNCHANGED vars
    BY <1>5 DEF vars, params, link, LinkInv, TypeOK, LinkKnown, Transmitting,
                ArrivalsBehind, PacketKnown
<1>6. QED
    BY <1>1, <1>2, <1>3, <1>4, <1>5 DEF Next

-----------------------------------------------------------------------------
(* PlaceInv *)

\* Enqueueing keeps a buffer without duplicates, and adds nothing but p.
LEMMA BuffersPlaces ==
    ASSUME NEW s \in Seq(Packet), IsInjective(s), NEW p \in Packet, p \notin ToSet(s),
           NEW t \in Buffers(s, p)
    PROVE  IsInjective(t) /\ ToSet(t) \subseteq ToSet(s) \cup {p}
<1> DEFINE u == Append(s, p)
<1>1. u \in Seq(Packet) /\ IsInjective(u) /\ ToSet(u) = ToSet(s) \cup {p}
    BY AppendProperties, AppendSet
<1>2. t = u \/ \E i \in DOMAIN u : t = RemoveAt(u, i)
    BY DEF Buffers
<1> HIDE DEF u
<1>3. QED
    BY <1>1, <1>2, RemoveAtSet

\* Taking a packet: nothing of s, p and lost is forgotten.
LEMMA TakePlaces ==
    ASSUME NEW s \in Seq(Packet), IsInjective(s), NEW p \in Packet, p \notin ToSet(s),
           NEW lost, Take(s, p, lost)
    PROVE  /\ IsInjective(packets') /\ InBuffer' \subseteq ToSet(s) \cup {p}
           /\ dropped' = dropped \cup lost \cup ((ToSet(s) \cup {p}) \ InBuffer')
<1>1. PICK t \in Buffers(s, p) :
        packets' = t /\ dropped' = dropped \cup lost \cup Lost(s, p, t)
    BY DEF Take
<1>2. IsInjective(t) /\ ToSet(t) \subseteq ToSet(s) \cup {p}
    BY BuffersPlaces
<1>3. InBuffer' = ToSet(t)
    BY <1>1 DEF InBuffer
<1>4. QED
    BY <1>1, <1>2, <1>3 DEF Lost

\* What is in the four places are packets.
LEMMA PlacesType ==
    ASSUME TypeOK
    PROVE  /\ InBuffer \subseteq Packet /\ InFlight \subseteq Packet
           /\ Arrived \subseteq Packet /\ dropped \subseteq Packet
<1>1. ASSUME NEW s \in Seq(Packet) PROVE ToSet(s) \subseteq Packet
    <2>1. ASSUME NEW i \in DOMAIN s PROVE s[i] \in Packet
        BY <2>1, ElementOfSeq, LenProperties
    <2>2. QED
        BY <2>1 DEF ToSet
<1>2. InFlight \subseteq Packet
    BY EventKinds DEF TypeOK, InFlight, Flying
<1>3. QED
    BY <1>1, <1>2 DEF TypeOK, InBuffer, Arrived

\* A packet that comes has a serial no other one has.
LEMMA NewPacket ==
    ASSUME PlaceInv, arrivals \in Nat, NEW p, p.serial = arrivals + 1
    PROVE  p \notin InBuffer \cup InFlight \cup Arrived \cup dropped
BY DEF PlaceInv, Placed, Numbered

\* All that came, and one more.
LEMMA NumberedNext ==
    ASSUME NEW S, NEW n \in Nat, Numbered(S, n), NEW p, p.serial = n + 1
    PROVE  Numbered(S \cup {p}, n + 1)
<1>1. /\ \A x \in S : x.serial \in 1 .. n
      /\ \A x, y \in S : x.serial = y.serial => x = y
      /\ \A k \in 1 .. n : \E x \in S : x.serial = k
    BY DEF Numbered
<1>2. \A k \in 1 .. n + 1 : k \in 1 .. n \/ k = n + 1
    OBVIOUS
<1>3. n + 1 \notin 1 .. n /\ n + 1 \in 1 .. n + 1 /\ 1 .. n \subseteq 1 .. n + 1
    OBVIOUS
<1>4. \A x \in S \cup {p} : x.serial \in 1 .. n + 1
    BY <1>1, <1>3
<1>5. \A x, y \in S \cup {p} : x.serial = y.serial => x = y
    BY <1>1, <1>3
<1>6. \A k \in 1 .. n + 1 : \E x \in S \cup {p} : x.serial = k
    BY <1>1, <1>2
<1>7. QED
    BY <1>4, <1>5, <1>6 DEF Numbered

\* Packets in flight do not change when the link is set to work.
LEMMA StartLinkFlight ==
    ASSUME NEW es \in [EventIds -> EventType], NEW p, StartLink(es, p)
    PROVE  /\ Flying' = {e \in EventIds : es[e].kind = "ARRIVAL"}
           /\ \A e \in Flying' : events'[e] = es[e]
           /\ ~Transmitting'
<1>1. PICK n \in EventIds :
        /\ IsNew(n, es)
        /\ events' = Post(es, n, "QUEUE", NoPacket, 0)
        /\ queue_proc_event' = n
    BY DEF StartLink
<1>2. es[n].kind = "NONE"
    BY <1>1 DEF IsNew, Free
<1>3. /\ events'[n].kind = "QUEUE" /\ events'[n].due = 0
      /\ \A e \in EventIds : e # n => events'[e] = es[e]
    BY <1>1 DEF Post
<1>4. QED
    BY <1>1, <1>2, <1>3 DEF Flying, Transmitting

LEMMA InitPlaces == Init => PlaceInv
<1> SUFFICES ASSUME Init PROVE PlaceInv
    OBVIOUS
<1>1. packets = << >> /\ delivered = << >> /\ dropped = {} /\ arrivals = 0 /\ ~busy
    BY DEF Init
<1>2. << >> \in Seq(Packet) /\ Len(<< >>) = 0 /\ DOMAIN << >> = {}
    BY EmptySeq, LenProperties
<1>3. IsInjective(packets) /\ IsInjective(delivered) /\ InBuffer = {} /\ Arrived = {}
    BY <1>1, <1>2 DEF IsInjective, InBuffer, Arrived, ToSet
<1>4. Flying = {} /\ InFlight = {}
    BY DEF Init, Flying, InFlight, NoEvent
<1>5. PlacedOnce
    BY <1>3, <1>4 DEF PlacedOnce, FliesOnce
<1>6. ArrivalKnown
    BY <1>1 DEF ArrivalKnown, Transmitting
<1>7. Placed(InBuffer, InFlight, Arrived, dropped, arrivals)
    <2>1. 1 .. arrivals = {}
        BY <1>1
    <2>2. QED
        BY <1>1, <1>3, <1>4, <2>1 DEF Placed, Apart, Numbered
<1>8. QED
    BY <1>5, <1>6, <1>7 DEF PlaceInv

\* A packet that comes is enqueued, or another one is dropped for it.
LEMMA ArrivePlaces ==
    ASSUME LinkInv, PlaceInv, NEW kind \in Kinds, ArrivePacket(kind)
    PROVE  PlaceInv'
<1> DEFINE p == [serial |-> arrivals + 1, kind |-> kind]
           B == InBuffer
           F == InFlight
           D == Arrived
           X == dropped
<1>1. TypeOK /\ arrivals \in Nat
    BY PfBoundsAssumption DEF LinkInv, TypeOK
<1>2. /\ arrivals' = arrivals + 1 /\ arrivals + 1 \in 1 .. MaxArrivals
      /\ delivered' = delivered
    BY <1>1, PfBoundsAssumption DEF ArrivePacket
<1>3. p \in Packet /\ p.serial = arrivals + 1
    BY <1>2 DEF Packet
<1>4. p \notin B \cup F \cup D \cup X
    BY <1>1, <1>3, NewPacket
<1>5. /\ IsInjective(packets) /\ FliesOnce /\ IsInjective(delivered)
      /\ Apart(B, F, D, X) /\ Numbered(B \cup F \cup D \cup X, arrivals)
    BY DEF PlaceInv, PlacedOnce, Placed
<1>6. packets \in Seq(Packet) /\ events \in [EventIds -> EventType]
    BY <1>1 DEF TypeOK
<1>7. Arrived' = D /\ IsInjective(delivered)'
    BY <1>2, <1>5 DEF Arrived
<1>8. Numbered(B \cup F \cup D \cup X \cup {p}, arrivals + 1)
    BY <1>1, <1>3, <1>5, NumberedNext
<1> HIDE DEF p
<1>9. ASSUME ~Preempts(p), Take(packets, p, {}), Flying' = Flying,
             \A e \in Flying' : events'[e] = events[e], ArrivalKnown'
      PROVE  PlaceInv'
    <2>1. /\ IsInjective(packets') /\ InBuffer' \subseteq B \cup {p}
          /\ dropped' = X \cup ((B \cup {p}) \ InBuffer')
        BY <1>3, <1>4, <1>5, <1>6, <1>9, TakePlaces DEF InBuffer
    <2>2. InFlight' = F /\ FliesOnce'
        BY <1>5, <1>9 DEF InFlight, FliesOnce
    <2>3. Apart(InBuffer', F, D, dropped')
        BY <1>4, <1>5, <2>1 DEF Apart
    <2>4. InBuffer' \cup F \cup D \cup dropped' = B \cup F \cup D \cup X \cup {p}
        BY <2>1
    <2>5. QED
        BY <1>2, <1>7, <1>8, <1>9, <2>1, <2>2, <2>3, <2>4 DEF PlaceInv, PlacedOnce, Placed
<1>10. CASE ~busy /\ StartLink(events, p) /\ UNCHANGED busy_events /\ Take(packets, p, {})
    <2>1. /\ Flying' = Flying /\ \A e \in Flying' : events'[e] = events[e]
          /\ ArrivalKnown'
        BY <1>6, <1>10, StartLinkFlight DEF Flying, ArrivalKnown
    <2>2. ~Preempts(p)
        BY <1>10 DEF Preempts
    <2>3. QED
        BY <1>9, <1>10, <2>1, <2>2
<1>11. CASE busy /\ ~Preempts(p) /\ UNCHANGED << events, link >> /\ Take(packets, p, {})
    <2>1. /\ Flying' = Flying /\ \A e \in Flying' : events'[e] = events[e]
          /\ ArrivalKnown'
        BY <1>11 DEF Flying, ArrivalKnown, Transmitting, link, PlaceInv
    <2>2. QED
        BY <1>9, <1>11, <2>1
<1>12. CASE Preempts(p) /\ Preempt(p)
    <2> DEFINE x == packet_transmitting
               es == Without(events, Cancelled(busy_events))
    <2>1. busy /\ Transmitting
        BY <1>12 DEF Preempts, Transmitting
    <2>2. PICK a \in EventIds : /\ busy_events = {queue_proc_event, a}
                                /\ events[a].kind = "ARRIVAL" /\ events[a].packet = x
        BY <2>1 DEF PlaceInv, ArrivalKnown
    <2>3. a \in Flying /\ x \in F /\ x \in Packet
        BY <1>1, <2>2, PlacesType DEF Flying, InFlight
    <2>4. events[queue_proc_event].kind = "QUEUE"
        BY <2>1 DEF LinkInv, LinkKnown
    <2>5. es \in [EventIds -> EventType]
        BY <1>6, EventsType
    <2>6. StartLink(es, p)
        BY <1>12 DEF Preempt
    <2>7. \A e \in EventIds :
            es[e] = IF e \in {queue_proc_event, a} THEN NoEvent ELSE events[e]
        BY <2>2 DEF Without, Cancelled
    <2> HIDE DEF es
    <2>8. /\ Flying' = {e \in EventIds : es[e].kind = "ARRIVAL"}
          /\ \A e \in Flying' : events'[e] = es[e]
          /\ ~Transmitting'
        BY <2>5, <2>6, StartLinkFlight
    <2>9. Flying' = Flying \ {a} /\ \A e \in Flying' : events'[e] = events[e]
        BY <2>4, <2>7, <2>8 DEF Flying, NoEvent
    <2>10. InFlight' = F \ {x} /\ FliesOnce'
        <3>1. \A e \in Flying : events[e].packet = x => e = a
            BY <1>5, <2>2, <2>3 DEF FliesOnce
        <3>2. FliesOnce'
            BY <1>5, <2>9 DEF FliesOnce
        <3>3. InFlight' = {events[e].packet : e \in Flying \ {a}}
            BY <2>9 DEF InFlight
        <3>4. QED
            BY <2>2, <3>1, <3>2, <3>3 DEF InFlight
    <2>11. PICK rest \in PutBack(x) : Take(rest, p, Lost(packets, x, rest))
        BY <1>12 DEF Preempt
    <2>12. x \notin B /\ x # p
        BY <1>4, <1>5, <2>3 DEF Apart
    <2>13. {i \in DOMAIN packets : packets[i] = x} = {}
        BY <2>12 DEF InBuffer, ToSet
    <2>14. rest \in Buffers(packets, x)
        BY <2>11, <2>13 DEF PutBack
    <2>15. rest \in Seq(Packet) /\ IsInjective(rest) /\ ToSet(rest) \subseteq B \cup {x}
        BY <1>5, <1>6, <2>3, <2>12, <2>14, BuffersType, BuffersPlaces DEF InBuffer
    <2>16. p \notin ToSet(rest)
        BY <1>4, <2>12, <2>15
    <2>17. /\ IsInjective(packets') /\ InBuffer' \subseteq ToSet(rest) \cup {p}
           /\ dropped' = X \cup ((B \cup {x}) \ ToSet(rest))
                           \cup ((ToSet(rest) \cup {p}) \ InBuffer')
        BY <1>3, <2>11, <2>15, <2>16, TakePlaces DEF Lost, InBuffer
    <2> HIDE DEF x
    <2>18. Apart(InBuffer', F \ {x}, D, dropped')
        BY <1>4, <1>5, <2>3, <2>15, <2>17 DEF Apart
    <2>19. InBuffer' \cup (F \ {x}) \cup D \cup dropped' = B \cup F \cup D \cup X \cup {p}
        BY <2>3, <2>15, <2>17
    <2>20. ArrivalKnown'
        BY <2>8 DEF ArrivalKnown
    <2>21. QED
        BY <1>2, <1>7, <1>8, <2>10, <2>17, <2>18, <2>19, <2>20
        DEF PlaceInv, PlacedOnce, Placed
<1>13. QED
    BY <1>10, <1>11, <1>12 DEF ArrivePacket, p

\* A transmission posts its own end, and the arrival of its packet.
LEMMA TransmitEvents ==
    ASSUME TypeOK, NEW e \in EventIds, Due(e, "QUEUE"), NEW i \in DOMAIN packets, Transmit(e, i)
    PROVE  \E a \in EventIds :
            /\ a \notin Flying /\ Flying' = Flying \cup {a}
            /\ \A f \in Flying : events'[f] = events[f]
            /\ events'[a].kind = "ARRIVAL"
            /\ events'[a].packet = packets[i] /\ events'[a].due = Latency(packets[i])
            /\ busy_events' = {queue_proc_event', a} /\ packet_transmitting' = packets[i]
            /\ busy' /\ events'[queue_proc_event'].due = Ticks(packets[i])
<1> DEFINE p == packets[i]
<1>1. events \in [EventIds -> EventType]
    BY DEF TypeOK
<1>2. PICK q \in EventIds, a \in EventIds :
        /\ IsNew(q, events)
        /\ IsNew(a, Post(events, q, "QUEUE", NoPacket, Ticks(p)))
        /\ events' = Without(Post(Post(events, q, "QUEUE", NoPacket, Ticks(p)),
                                  a, "ARRIVAL", p, Latency(p)), {e})
        /\ queue_proc_event' = q /\ busy_events' = {q, a}
        /\ packet_transmitting' = p /\ busy' = TRUE
    BY DEF Transmit
<1> HIDE DEF p
<1>3. events[q].kind = "NONE" /\ events[a].kind = "NONE" /\ a # q /\ a # e /\ q # e
    <2>1. events[q].kind = "NONE" /\ events[e].kind = "QUEUE"
        BY <1>2 DEF IsNew, Free, Due
    <2>2. Post(events, q, "QUEUE", NoPacket, Ticks(p))[a].kind = "NONE"
        BY <1>2 DEF IsNew, Free
    <2>3. Post(events, q, "QUEUE", NoPacket, Ticks(p))[q].kind = "QUEUE"
        BY <1>1 DEF Post
    <2>4. \A f \in EventIds : f # q =>
            Post(events, q, "QUEUE", NoPacket, Ticks(p))[f] = events[f]
        BY <1>1 DEF Post
    <2>5. QED
        BY <2>1, <2>2, <2>3, <2>4
<1>4. /\ events'[a].kind = "ARRIVAL" /\ events'[a].packet = p
      /\ events'[a].due = Latency(p) /\ events'[q].due = Ticks(p)
      /\ events'[q].kind # "ARRIVAL" /\ events'[e].kind # "ARRIVAL"
      /\ \A f \in EventIds : f \notin {e, q, a} => events'[f] = events[f]
    BY <1>1, <1>2, <1>3 DEF Post, Without, NoEvent
<1>5. events[e].kind = "QUEUE"
    BY DEF Due
<1>6. /\ Flying' = Flying \cup {a} /\ a \notin Flying
      /\ \A f \in Flying : events'[f] = events[f]
    BY <1>3, <1>4, <1>5 DEF Flying
<1>7. QED
    BY <1>2, <1>4, <1>6 DEF p

\* A packet leaves the buffer for the link.
LEMMA TransmitPlaces ==
    ASSUME LinkInv, PlaceInv, NEW e \in EventIds, Due(e, "QUEUE"),
           NEW i \in DOMAIN packets, Transmit(e, i),
           UNCHANGED << params, arrivals, delivered, dropped >>
    PROVE  PlaceInv'
<1> DEFINE p == packets[i]
           B == InBuffer
           F == InFlight
<1>1. TypeOK /\ packets \in Seq(Packet) /\ events \in [EventIds -> EventType]
    BY DEF LinkInv, TypeOK
<1>2. p \in B
    BY DEF InBuffer, ToSet
<1>3. /\ IsInjective(packets) /\ FliesOnce /\ IsInjective(delivered)
      /\ Apart(B, F, Arrived, dropped)
      /\ Numbered(B \cup F \cup Arrived \cup dropped, arrivals)
    BY DEF PlaceInv, PlacedOnce, Placed
<1>4. InBuffer' = B \ {p} /\ IsInjective(packets')
    BY <1>1, <1>3, RemoveAtSet DEF Transmit, InBuffer
<1>5. PICK a \in EventIds :
        /\ a \notin Flying /\ Flying' = Flying \cup {a}
        /\ \A f \in Flying : events'[f] = events[f]
        /\ events'[a].kind = "ARRIVAL" /\ events'[a].packet = p
        /\ busy_events' = {queue_proc_event', a} /\ packet_transmitting' = p
    BY <1>1, TransmitEvents
<1> HIDE DEF p
<1>6. InFlight' = F \cup {p}
    BY <1>5 DEF InFlight
<1>7. p \notin F
    BY <1>2, <1>3 DEF Apart
<1>8. FliesOnce'
    <2>1. \A f \in Flying : events'[f].packet # p
        BY <1>5, <1>7 DEF InFlight
    <2>2. QED
        BY <1>3, <1>5, <2>1 DEF FliesOnce
<1>9. ArrivalKnown'
    BY <1>5 DEF ArrivalKnown
<1>10. /\ Apart(B \ {p}, F \cup {p}, Arrived, dropped)
       /\ (B \ {p}) \cup (F \cup {p}) \cup Arrived \cup dropped
             = B \cup F \cup Arrived \cup dropped
    BY <1>2, <1>3 DEF Apart
<1>11. Arrived' = Arrived /\ dropped' = dropped /\ arrivals' = arrivals /\ delivered' = delivered
    BY DEF Arrived
<1>12. QED
    BY <1>3, <1>4, <1>6, <1>8, <1>9, <1>10, <1>11 DEF PlaceInv, PlacedOnce, Placed

\* An idle queue moves no packet.
LEMMA StopPlaces ==
    ASSUME PlaceInv, NEW e \in EventIds, Due(e, "QUEUE"), Stop(e),
           UNCHANGED << params, arrivals, delivered, dropped >>
    PROVE  PlaceInv'
<1>1. /\ \A f \in EventIds : events'[f] = IF f = e THEN NoEvent ELSE events[f]
      /\ events[e].kind = "QUEUE" /\ NoEvent.kind = "NONE"
    BY DEF Stop, Without, Due, NoEvent
<1>2. Flying' = Flying /\ \A f \in Flying : events'[f] = events[f]
    BY <1>1 DEF Flying
<1>3. InFlight' = InFlight /\ (FliesOnce => FliesOnce')
    BY <1>2 DEF InFlight, FliesOnce
<1>4. ArrivalKnown'
    BY DEF Stop, ArrivalKnown, Transmitting
<1>5. InBuffer' = InBuffer /\ Arrived' = Arrived /\ UNCHANGED << packets, delivered >>
    BY DEF Stop, InBuffer, Arrived
<1>6. QED
    BY <1>3, <1>4, <1>5 DEF PlaceInv, PlacedOnce, Placed

\* A packet leaves the link, and is delivered.
LEMMA DeliverPlaces ==
    ASSUME LinkInv, PlaceInv, NEW e \in EventIds, Deliver(e)
    PROVE  PlaceInv'
<1> DEFINE p == events[e].packet
           F == InFlight
           D == Arrived
<1>1. TypeOK /\ LinkKnown /\ ArrivalsBehind
    BY DEF LinkInv
<1>2. /\ events[e].kind = "ARRIVAL" /\ events[e].due = 0
      /\ delivered' = Append(delivered, p)
      /\ UNCHANGED << packets, busy, queue_proc_event, busy_events,
                      packet_transmitting, arrivals, dropped >>
      /\ \A f \in EventIds : events'[f] = IF f = e THEN NoEvent ELSE events[f]
    BY DEF Deliver, Due, link, Without
<1>3. e \in Flying /\ p \in F /\ p \in Packet
    BY <1>1, <1>2, PlacesType DEF Flying, InFlight
<1>4. /\ IsInjective(packets) /\ FliesOnce /\ IsInjective(delivered)
      /\ Apart(InBuffer, F, D, dropped)
      /\ Numbered(InBuffer \cup F \cup D \cup dropped, arrivals)
    BY DEF PlaceInv, PlacedOnce, Placed
<1>5. p \notin D /\ delivered \in Seq(Packet)
    BY <1>1, <1>3, <1>4 DEF Apart, TypeOK
<1>6. IsInjective(delivered') /\ Arrived' = D \cup {p}
    BY <1>2, <1>3, <1>4, <1>5, AppendSet DEF Arrived
<1>7. Flying' = Flying \ {e} /\ \A f \in Flying' : events'[f] = events[f]
    BY <1>2 DEF Flying, NoEvent
<1>8. InFlight' = F \ {p} /\ FliesOnce'
    <2>1. \A f \in Flying : events[f].packet = p => f = e
        BY <1>3, <1>4 DEF FliesOnce
    <2>2. FliesOnce'
        BY <1>4, <1>7 DEF FliesOnce
    <2>3. InFlight' = {events[f].packet : f \in Flying \ {e}}
        BY <1>7 DEF InFlight
    <2>4. QED
        BY <2>1, <2>2, <2>3 DEF InFlight
<1>9. ArrivalKnown'
    <2>1. SUFFICES ASSUME Transmitting'
                   PROVE  \E a \in EventIds :
                            /\ busy_events' = {queue_proc_event', a}
                            /\ events'[a].kind = "ARRIVAL"
                            /\ events'[a].packet = packet_transmitting'
        BY DEF ArrivalKnown
    <2>2. busy /\ queue_proc_event \in EventIds /\ queue_proc_event # e
        BY <1>1, <1>2, <2>1 DEF Transmitting, TypeOK, LinkKnown
    <2>3. events[queue_proc_event].due > 0
        BY <1>2, <2>1, <2>2 DEF Transmitting
    <2>4. PICK a \in EventIds : /\ busy_events = {queue_proc_event, a}
                                /\ events[a].kind = "ARRIVAL"
                                /\ events[a].packet = packet_transmitting
        BY <2>2, <2>3 DEF PlaceInv, ArrivalKnown, Transmitting
    <2>5. events[queue_proc_event].due \in Nat
        BY <1>1, <2>2, EventKinds DEF TypeOK
    <2>6. a # e
        BY <1>1, <1>2, <2>2, <2>3, <2>4, <2>5 DEF ArrivalsBehind
    <2>7. QED
        BY <1>2, <2>4, <2>6
<1>10. InBuffer' = InBuffer
    BY <1>2 DEF InBuffer
<1> HIDE DEF p
<1>11. /\ Apart(InBuffer, F \ {p}, D \cup {p}, dropped)
       /\ InBuffer \cup (F \ {p}) \cup (D \cup {p}) \cup dropped
             = InBuffer \cup F \cup D \cup dropped
    BY <1>3, <1>4 DEF Apart
<1>12. QED
    BY <1>2, <1>4, <1>6, <1>8, <1>9, <1>10, <1>11 DEF PlaceInv, PlacedOnce, Placed

\* Time moves no packet.
LEMMA TickPlaces ==
    ASSUME LinkInv, PlaceInv, Tick
    PROVE  PlaceInv'
<1>1. TypeOK /\ LinkKnown
    BY DEF LinkInv
<1>2. /\ \A f \in EventIds : events[f].kind # "NONE" => events[f].due > 0
      /\ events' = [f \in EventIds |-> IF events[f].kind = "NONE" THEN NoEvent
                                       ELSE [events[f] EXCEPT !.due = @ - 1]]
      /\ UNCHANGED << packets, busy, queue_proc_event, busy_events,
                      packet_transmitting, arrivals, delivered, dropped >>
    BY DEF Tick, params, link
<1>3. \A f \in EventIds :
        events'[f].kind = events[f].kind /\ events'[f].packet = events[f].packet
    BY <1>1, TickEvents
<1>4. Flying' = Flying /\ InFlight' = InFlight /\ (FliesOnce => FliesOnce')
    BY <1>3 DEF Flying, InFlight, FliesOnce
<1>5. busy => queue_proc_event \in EventIds /\ events[queue_proc_event].due > 0
    BY <1>1, <1>2 DEF TypeOK, LinkKnown
<1>6. ArrivalKnown'
    <2>1. ArrivalKnown /\ (Transmitting' => Transmitting)
        BY <1>2, <1>5 DEF PlaceInv, Transmitting
    <2>2. QED
        BY <1>2, <1>3, <2>1 DEF ArrivalKnown
<1>7. InBuffer' = InBuffer /\ Arrived' = Arrived
    BY <1>2 DEF InBuffer, Arrived
<1>8. QED
    BY <1>2, <1>4, <1>6, <1>7 DEF PlaceInv, PlacedOnce, Placed

LEMMA NextPlaces ==
    ASSUME LinkInv, PlaceInv, [Next]_vars
    PROVE  PlaceInv'
<1>1. ASSUME NEW kind \in Kinds, ArrivePacket(kind) PROVE PlaceInv'
    BY <1>1, ArrivePlaces
<1>2. ASSUME NEW e \in EventIds, ProcessQueue(e) PROVE PlaceInv'
    BY <1>2, StopPlaces, TransmitPlaces DEF ProcessQueue
<1>3. ASSUME NEW e \in EventIds, Deliver(e) PROVE PlaceInv'
    BY <1>3, DeliverPlaces
<1>4. CASE Tick
    BY <1>4, TickPlaces
<1>5. CASE UNCHANGED vars
    BY <1>5 DEF vars, link, PlaceInv, PlacedOnce, FliesOnce, Flying, InFlight, InBuffer,
                Arrived, ArrivalKnown, Transmitting
<1>6. QED
    BY <1>1, <1>2, <1>3, <1>4, <1>5 DEF Next

\* Counting: one packet for each serial, in one place, once.
LEMMA PlacedIsOnePlace ==
    ASSUME TypeOK, PlaceInv
    PROVE  OnePlace
<1> SUFFICES ASSUME NEW n \in 1 .. arrivals
             PROVE  Cardinality(Waiting(n)) + Cardinality(OnLink(n))
                        + Cardinality(Delivered(n)) + Cardinality(Dropped(n)) = 1
    BY DEF OnePlace
<1>1. /\ IsInjective(packets) /\ FliesOnce /\ IsInjective(delivered)
      /\ Apart(InBuffer, InFlight, Arrived, dropped)
      /\ Numbered(InBuffer \cup InFlight \cup Arrived \cup dropped, arrivals)
    BY DEF PlaceInv, PlacedOnce, Placed
<1>2. PICK p \in InBuffer \cup InFlight \cup Arrived \cup dropped : p.serial = n
    BY <1>1 DEF Numbered
<1>3. \A r \in InBuffer \cup InFlight \cup Arrived \cup dropped : r.serial = n => r = p
    BY <1>1, <1>2 DEF Numbered
<1>4. /\ \A i \in DOMAIN packets : packets[i] \in InBuffer
      /\ \A i \in DOMAIN delivered : delivered[i] \in Arrived
    BY DEF InBuffer, Arrived, ToSet
<1>5. ASSUME NEW e \in EventIds, events[e].packet.serial = n
      PROVE  e \in Flying /\ events[e].packet \in InFlight
    <2>1. events[e] \in EventType
        BY DEF TypeOK
    <2>2. events[e].packet # NoPacket
        BY <1>5 DEF NoPacket
    <2>3. events[e].kind = "ARRIVAL"
        BY <2>1, <2>2 DEF EventType, NoEvent
    <2>4. QED
        BY <2>3 DEF Flying, InFlight
<1>6. /\ Cardinality({}) = 0
      /\ \A x : Cardinality({x}) = 1
    BY FS_EmptySet, FS_Singleton
<1>7. /\ p \notin InBuffer => Waiting(n) = {}
      /\ p \notin InFlight => OnLink(n) = {}
      /\ p \notin Arrived => Delivered(n) = {}
      /\ p \notin dropped => Dropped(n) = {}
    BY <1>3, <1>4, <1>5 DEF Waiting, OnLink, Delivered, Dropped
<1>8. CASE p \in InBuffer
    <2>1. PICK i \in DOMAIN packets : packets[i] = p
        BY <1>8 DEF InBuffer, ToSet
    <2>2. Waiting(n) = {i}
        BY <1>1, <1>2, <1>3, <1>4, <2>1 DEF Waiting, IsInjective
    <2>3. p \notin InFlight /\ p \notin Arrived /\ p \notin dropped
        BY <1>1, <1>8 DEF Apart
    <2>4. /\ Cardinality(Waiting(n)) = 1 /\ Cardinality(OnLink(n)) = 0
          /\ Cardinality(Delivered(n)) = 0 /\ Cardinality(Dropped(n)) = 0
        BY <1>6, <1>7, <2>2, <2>3
    <2>5. QED
        BY <2>4
<1>9. CASE p \in InFlight
    <2>1. PICK e \in Flying : events[e].packet = p
        BY <1>9 DEF InFlight
    <2>2. OnLink(n) = {e}
        BY <1>1, <1>2, <1>3, <1>5, <2>1 DEF OnLink, FliesOnce, Flying
    <2>3. p \notin InBuffer /\ p \notin Arrived /\ p \notin dropped
        BY <1>1, <1>9 DEF Apart
    <2>4. /\ Cardinality(Waiting(n)) = 0 /\ Cardinality(OnLink(n)) = 1
          /\ Cardinality(Delivered(n)) = 0 /\ Cardinality(Dropped(n)) = 0
        BY <1>6, <1>7, <2>2, <2>3
    <2>5. QED
        BY <2>4
<1>10. CASE p \in Arrived
    <2>1. PICK i \in DOMAIN delivered : delivered[i] = p
        BY <1>10 DEF Arrived, ToSet
    <2>2. Delivered(n) = {i}
        BY <1>1, <1>2, <1>3, <1>4, <2>1 DEF Delivered, IsInjective
    <2>3. p \notin InBuffer /\ p \notin InFlight /\ p \notin dropped
        BY <1>1, <1>10 DEF Apart
    <2>4. /\ Cardinality(Waiting(n)) = 0 /\ Cardinality(OnLink(n)) = 0
          /\ Cardinality(Delivered(n)) = 1 /\ Cardinality(Dropped(n)) = 0
        BY <1>6, <1>7, <2>2, <2>3
    <2>5. QED
        BY <2>4
<1>11. CASE p \in dropped
    <2>1. Dropped(n) = {p}
        BY <1>2, <1>3, <1>11 DEF Dropped
    <2>2. p \notin InBuffer /\ p \notin InFlight /\ p \notin Arrived
        BY <1>1, <1>11 DEF Apart
    <2>3. /\ Cardinality(Waiting(n)) = 0 /\ Cardinality(OnLink(n)) = 0
          /\ Cardinality(Delivered(n)) = 0 /\ Cardinality(Dropped(n)) = 1
        BY <1>6, <1>7, <2>1, <2>2
    <2>4. QED
        BY <2>3
<1>12. QED
    BY <1>2, <1>8, <1>9, <1>10, <1>11

-----------------------------------------------------------------------------
(* OrderInv: a flow keeps its order.                                       *)

\* A packet's priority and size are numbers.
LEMMA PacketNumbers ==
    ASSUME NEW p \in Packet
    PROVE  Priority(p) \in Nat /\ Ticks(p) \in Nat \ {0} /\ p.serial \in Nat
BY PfSizesAssumption DEF Packet, Priority, Ticks, Size

\* Packets stay in order when one of them is taken away.
LEMMA RemoveInOrder ==
    ASSUME NEW s \in Seq(Packet), NEW i \in 1 .. Len(s), InOrder(s)
    PROVE  InOrder(RemoveAt(s, i))
<1> DEFINE t == RemoveAt(s, i)
           at(k) == IF k < i THEN k ELSE k + 1
<1>1. Len(s) \in Nat /\ DOMAIN s = 1 .. Len(s)
    BY LenProperties
<1>2. /\ t \in Seq(Packet) /\ Len(t) = Len(s) - 1
      /\ \A k \in 1 .. Len(s) - 1 : t[k] = IF k < i THEN s[k] ELSE s[k + 1]
    BY RemoveAtProperties
<1>3. DOMAIN t = 1 .. Len(s) - 1
    BY <1>2, LenProperties
<1> HIDE DEF t
<1>4. \A k \in 1 .. Len(s) - 1 : at(k) \in 1 .. Len(s) /\ t[k] = s[at(k)]
    BY <1>1, <1>2
<1>5. \A j, k \in 1 .. Len(s) - 1 : j < k => at(j) < at(k)
    BY <1>1
<1> HIDE DEF at
<1>6. InOrder(t)
    BY <1>1, <1>3, <1>4, <1>5 DEF InOrder
<1>7. QED
    BY <1>6 DEF t

\* Packets stay in order when one that came after all of its flow is added.
LEMMA AppendInOrder ==
    ASSUME NEW s \in Seq(Packet), NEW p \in Packet, InOrder(s),
           \A x \in ToSet(s) : Flow(x) = Flow(p) => x.serial < p.serial
    PROVE  InOrder(Append(s, p))
<1> DEFINE t == Append(s, p)
<1>1. Len(s) \in Nat /\ DOMAIN s = 1 .. Len(s)
    BY LenProperties
<1>2. /\ t \in Seq(Packet) /\ Len(t) = Len(s) + 1
      /\ \A k \in 1 .. Len(s) : t[k] = s[k]
      /\ t[Len(s) + 1] = p
    BY AppendProperties
<1>3. DOMAIN t = 1 .. Len(s) + 1
    BY <1>2, LenProperties
<1> HIDE DEF t
<1>4. SUFFICES ASSUME NEW i \in 1 .. Len(s) + 1, NEW j \in 1 .. Len(s) + 1, i < j,
                      Flow(t[i]) = Flow(t[j])
               PROVE  t[i].serial < t[j].serial
    BY <1>3 DEF InOrder, t
<1>5. i \in 1 .. Len(s) /\ t[i] = s[i] /\ s[i] \in ToSet(s)
    BY <1>1, <1>2, <1>4 DEF ToSet
<1>6. CASE j \in 1 .. Len(s)
    BY <1>1, <1>2, <1>4, <1>5, <1>6 DEF InOrder
<1>7. CASE j = Len(s) + 1
    BY <1>2, <1>4, <1>5, <1>7
<1>8. QED
    BY <1>1, <1>4, <1>6, <1>7

\* A buffer in order is in order when the last packet of all is enqueued.
LEMMA BuffersInOrder ==
    ASSUME NEW s \in Seq(Packet), NEW p \in Packet, InOrder(s),
           \A x \in ToSet(s) : x.serial < p.serial, NEW t \in Buffers(s, p)
    PROVE  InOrder(t)
<1> DEFINE u == Append(s, p)
<1>1. u \in Seq(Packet) /\ InOrder(u)
    BY AppendProperties, AppendInOrder
<1>2. t = u \/ \E i \in DOMAIN u : t = RemoveAt(u, i)
    BY DEF Buffers
<1> HIDE DEF u
<1>3. DOMAIN u = 1 .. Len(u)
    BY <1>1, LenProperties
<1>4. QED
    BY <1>1, <1>2, <1>3, RemoveInOrder

LEMMA InitOrder == Init => OrderInv
<1> SUFFICES ASSUME Init PROVE OrderInv
    OBVIOUS
<1>1. packets = << >> /\ delivered = << >> /\ Flying = {}
    BY DEF Init, Flying, NoEvent
<1>2. DOMAIN << >> = {}
    BY EmptySeq, LenProperties
<1>3. InBuffer = {} /\ Arrived = {} /\ InFlight = {}
    BY <1>1, <1>2 DEF InBuffer, Arrived, ToSet, InFlight
<1>4. QED
    BY <1>1, <1>2, <1>3 DEF OrderInv, InOrder, FliesInOrder, OffTheLinkIn, Before

\* The arrivals of packets are due at some time.
LEMMA FlyingTypes ==
    ASSUME TypeOK
    PROVE  \A f \in Flying : /\ f \in EventIds /\ events[f].kind = "ARRIVAL"
                             /\ events[f].packet \in Packet /\ events[f].packet \in InFlight
                             /\ events[f].due \in Nat
BY EventKinds DEF TypeOK, Flying, InFlight

\* A packet that comes is behind all the others.
LEMMA ArriveOrder ==
    ASSUME LinkInv, PlaceInv, OrderInv, NEW kind \in Kinds, ArrivePacket(kind)
    PROVE  OrderInv'
<1> DEFINE p == [serial |-> arrivals + 1, kind |-> kind]
<1>1. TypeOK /\ packets \in Seq(Packet) /\ events \in [EventIds -> EventType]
      /\ arrivals \in Nat
    BY PfBoundsAssumption DEF LinkInv, TypeOK
<1>2. /\ UNCHANGED << normal_host, preemptive_queue, delivered >>
      /\ arrivals + 1 \in 1 .. MaxArrivals
    BY <1>1, PfBoundsAssumption DEF ArrivePacket, params
<1>3. SUFFICES ASSUME normal_host, ~preemptive_queue
               PROVE  /\ InOrder(delivered)' /\ InOrder(packets)'
                      /\ FliesInOrder' /\ OffTheLinkIn'
                      /\ Before(Arrived, InFlight)' /\ Before(Arrived, InBuffer)'
                      /\ Before(InFlight, InBuffer)'
    BY <1>2 DEF OrderInv
<1>4. /\ InOrder(delivered) /\ InOrder(packets) /\ FliesInOrder /\ OffTheLinkIn
      /\ Before(Arrived, InFlight) /\ Before(Arrived, InBuffer) /\ Before(InFlight, InBuffer)
    BY <1>3 DEF OrderInv
<1>5. p \in Packet /\ p.serial = arrivals + 1
    BY <1>2 DEF Packet
<1>6. /\ ~Preempts(p) /\ Take(packets, p, {})
      /\ \/ ~busy /\ StartLink(events, p)
         \/ UNCHANGED << events, link >>
    BY <1>3 DEF ArrivePacket, Preempts
<1> HIDE DEF p
<1>7. \A x \in InBuffer \cup InFlight \cup Arrived : x.serial \in Nat /\ x.serial < p.serial
    BY <1>1, <1>5 DEF PlaceInv, Placed, Numbered
<1>8. p \notin InBuffer /\ IsInjective(packets)
    BY <1>1, <1>5, NewPacket DEF PlaceInv, PlacedOnce
<1>9. InOrder(packets')
    BY <1>1, <1>4, <1>5, <1>6, <1>7, BuffersInOrder DEF Take, InBuffer
<1>10. InBuffer' \subseteq InBuffer \cup {p}
    BY <1>1, <1>5, <1>6, <1>8, TakePlaces DEF InBuffer
<1>11. /\ Flying' = Flying /\ \A e \in Flying : events'[e] = events[e]
       /\ OffTheLinkIn'
    <2>1. CASE ~busy /\ StartLink(events, p)
        <3>1. /\ Flying' = Flying /\ \A e \in Flying : events'[e] = events[e]
            BY <1>1, <2>1, StartLinkFlight DEF Flying
        <3>2. busy' /\ events'[queue_proc_event'].due = 0
            BY <1>1, <2>1 DEF StartLink, Post
        <3>3. QED
            BY <1>4, <2>1, <3>1, <3>2 DEF OffTheLinkIn
    <2>2. CASE UNCHANGED << events, link >>
        BY <1>4, <2>2 DEF Flying, OffTheLinkIn, link
    <2>3. QED
        BY <1>6, <2>1, <2>2
<1>12. InFlight' = InFlight /\ FliesInOrder' /\ Arrived' = Arrived
    BY <1>2, <1>4, <1>11 DEF InFlight, FliesInOrder, Sooner, Arrived
<1>13. Before(Arrived, InBuffer)' /\ Before(InFlight, InBuffer)'
    BY <1>4, <1>7, <1>10, <1>12 DEF Before
<1>14. QED
    BY <1>2, <1>4, <1>9, <1>11, <1>12, <1>13

\* The link takes the oldest packet of a flow, which comes behind those on
\* their way: all of them have left the link.
LEMMA TransmitOrder ==
    ASSUME ~CutThrough, LinkInv, PlaceInv, OrderInv, NEW e \in EventIds, Due(e, "QUEUE"),
           NEW i \in DOMAIN packets, IsNext(i, packets), Transmit(e, i),
           UNCHANGED << params, arrivals, delivered, dropped >>
    PROVE  OrderInv'
<1> DEFINE p == packets[i]
<1>1. TypeOK /\ LinkKnown /\ packets \in Seq(Packet)
    BY DEF LinkInv, TypeOK
<1>2. UNCHANGED << normal_host, preemptive_queue, delivered >> /\ Arrived' = Arrived
    BY DEF params, Arrived
<1>3. SUFFICES ASSUME normal_host, ~preemptive_queue
               PROVE  /\ InOrder(delivered)' /\ InOrder(packets)'
                      /\ FliesInOrder' /\ OffTheLinkIn'
                      /\ Before(Arrived, InFlight)' /\ Before(Arrived, InBuffer)'
                      /\ Before(InFlight, InBuffer)'
    BY <1>2 DEF OrderInv
<1>4. /\ InOrder(delivered) /\ InOrder(packets) /\ FliesInOrder /\ OffTheLinkIn
      /\ Before(Arrived, InFlight) /\ Before(Arrived, InBuffer) /\ Before(InFlight, InBuffer)
    BY <1>3 DEF OrderInv
<1>5. DOMAIN packets = 1 .. Len(packets) /\ Len(packets) \in Nat
      /\ p \in Packet /\ p \in InBuffer
    BY <1>1, LenProperties, ElementOfSeq DEF InBuffer, ToSet
<1>6. packets' = RemoveAt(packets, i)
    BY DEF Transmit
<1>7. InBuffer' = InBuffer \ {p}
    BY <1>1, <1>6, RemoveAtSet DEF PlaceInv, PlacedOnce, InBuffer
<1>8. InOrder(packets')
    BY <1>1, <1>4, <1>5, <1>6, RemoveInOrder
<1>9. \A x \in InBuffer' : Flow(x) = Flow(p) => p.serial < x.serial
    <2>1. SUFFICES ASSUME NEW j \in DOMAIN packets, j # i, Flow(packets[j]) = Flow(p)
                   PROVE  p.serial < packets[j].serial
        BY <1>7 DEF InBuffer, ToSet
    <2>2. ~(j \in 1 .. i - 1)
        BY <1>3, <2>1 DEF IsNext
    <2>3. i < j
        BY <1>5, <2>1, <2>2
    <2>4. QED
        BY <1>4, <2>1, <2>3 DEF InOrder
<1>10. PICK a \in EventIds :
        /\ a \notin Flying /\ Flying' = Flying \cup {a}
        /\ \A f \in Flying : events'[f] = events[f]
        /\ events'[a].packet = p /\ events'[a].due = Latency(p)
        /\ busy' /\ events'[queue_proc_event'].due = Ticks(p)
    BY <1>1, TransmitEvents
<1> HIDE DEF p
<1>11. Ticks(p) \in Nat \ {0} /\ PropTicks \in Nat /\ Latency(p) = Ticks(p) + PropTicks
    BY <1>5, PacketNumbers, PfSizesAssumption DEF Latency
<1>12. \A f \in Flying : events[f].due \in Nat /\ events[f].due <= PropTicks
    <2>1. busy /\ events[queue_proc_event].due = 0
        BY <1>1 DEF LinkKnown, Due
    <2>2. QED
        BY <1>1, <1>4, <1>11, <2>1, FlyingTypes DEF OffTheLinkIn
<1>13. OffTheLinkIn'
    BY <1>10, <1>11, <1>12 DEF OffTheLinkIn
<1>14. InFlight' = InFlight \cup {p}
    BY <1>10 DEF InFlight
<1>15. FliesInOrder'
    <2>1. \A f \in Flying : Flow(events[f].packet) = Flow(p) => Sooner(f, a)'
        BY <1>1, <1>4, <1>5, <1>10, <1>11, <1>12, FlyingTypes DEF Before, Sooner
    <2>2. \A f, g \in Flying : Sooner(f, g) => Sooner(f, g)'
        BY <1>10 DEF Sooner
    <2>3. QED
        BY <1>4, <1>10, <2>1, <2>2 DEF FliesInOrder
<1>16. Before(Arrived, InFlight)' /\ Before(Arrived, InBuffer)' /\ Before(InFlight, InBuffer)'
    BY <1>2, <1>4, <1>5, <1>7, <1>9, <1>14 DEF Before
<1>17. QED
    BY <1>2, <1>4, <1>8, <1>13, <1>15, <1>16

\* The link stops when its last packet has left it.
LEMMA StopOrder ==
    ASSUME LinkInv, OrderInv, NEW e \in EventIds, Due(e, "QUEUE"), Stop(e),
           UNCHANGED << params, arrivals, delivered, dropped >>
    PROVE  OrderInv'
<1>1. /\ \A f \in EventIds : events'[f] = IF f = e THEN NoEvent ELSE events[f]
      /\ events[e].kind = "QUEUE" /\ events[e].due = 0 /\ NoEvent.kind = "NONE"
      /\ ~busy' /\ UNCHANGED << packets, delivered, normal_host, preemptive_queue >>
    BY DEF Stop, Without, Due, NoEvent, params
<1>2. busy /\ events[queue_proc_event].due = 0
    BY <1>1 DEF LinkInv, LinkKnown
<1>3. Flying' = Flying /\ \A f \in Flying : events'[f] = events[f]
    BY <1>1 DEF Flying
<1>4. InFlight' = InFlight /\ (FliesInOrder => FliesInOrder') /\ (OffTheLinkIn => OffTheLinkIn')
    BY <1>1, <1>2, <1>3 DEF InFlight, FliesInOrder, Sooner, OffTheLinkIn
<1>5. InBuffer' = InBuffer /\ Arrived' = Arrived
    BY <1>1 DEF InBuffer, Arrived
<1>6. QED
    BY <1>1, <1>4, <1>5 DEF OrderInv

\* The packet that reaches the next hop is the oldest of its flow on the way.
LEMMA DeliverOrder ==
    ASSUME LinkInv, PlaceInv, OrderInv, NEW e \in EventIds, Deliver(e)
    PROVE  OrderInv'
<1> DEFINE p == events[e].packet
<1>1. TypeOK /\ LinkKnown /\ delivered \in Seq(Packet)
    BY DEF LinkInv, TypeOK
<1>2. /\ events[e].kind = "ARRIVAL" /\ events[e].due = 0
      /\ delivered' = Append(delivered, p)
      /\ UNCHANGED << packets, busy, queue_proc_event, normal_host, preemptive_queue >>
      /\ \A f \in EventIds : events'[f] = IF f = e THEN NoEvent ELSE events[f]
    BY DEF Deliver, Due, link, Without, params
<1>3. SUFFICES ASSUME normal_host, ~preemptive_queue
               PROVE  /\ InOrder(delivered)' /\ InOrder(packets)'
                      /\ FliesInOrder' /\ OffTheLinkIn'
                      /\ Before(Arrived, InFlight)' /\ Before(Arrived, InBuffer)'
                      /\ Before(InFlight, InBuffer)'
    BY <1>2 DEF OrderInv
<1>4. /\ InOrder(delivered) /\ InOrder(packets) /\ FliesInOrder /\ OffTheLinkIn
      /\ Before(Arrived, InFlight) /\ Before(Arrived, InBuffer) /\ Before(InFlight, InBuffer)
    BY <1>3 DEF OrderInv
<1>5. e \in Flying /\ p \in InFlight /\ p \in Packet
    BY <1>1, <1>2, FlyingTypes DEF Flying
<1>6. Flying' = Flying \ {e} /\ \A f \in Flying' : events'[f] = events[f]
    BY <1>2 DEF Flying, NoEvent
<1>7. InFlight' \subseteq InFlight
    BY <1>6 DEF InFlight
<1>8. \A x \in InFlight' : Flow(x) = Flow(p) => p.serial < x.serial
    <2>1. SUFFICES ASSUME NEW f \in Flying, f # e, Flow(events[f].packet) = Flow(p)
                   PROVE  p.serial < events[f].packet.serial
        BY <1>6 DEF InFlight
    <2>2. events[f].due \in Nat
        BY <1>1, FlyingTypes
    <2>3. ~Sooner(f, e)
        BY <1>2, <2>2 DEF Sooner
    <2>4. Sooner(e, f)
        BY <1>4, <1>5, <2>1, <2>3 DEF FliesInOrder
    <2>5. QED
        BY <2>4 DEF Sooner
<1> HIDE DEF p
<1>9. InOrder(delivered')
    BY <1>1, <1>2, <1>4, <1>5, AppendInOrder DEF Before, Arrived
<1>10. Arrived' = Arrived \cup {p} /\ InBuffer' = InBuffer
    BY <1>1, <1>2, <1>5, AppendSet DEF Arrived, InBuffer
<1>11. Before(Arrived, InFlight)' /\ Before(Arrived, InBuffer)' /\ Before(InFlight, InBuffer)'
    BY <1>4, <1>5, <1>7, <1>8, <1>10 DEF Before
<1>12. FliesInOrder'
    BY <1>4, <1>6 DEF FliesInOrder, Sooner
<1>13. OffTheLinkIn'
    <2>1. busy => queue_proc_event \in EventIds /\ queue_proc_event # e
        BY <1>1, <1>2 DEF TypeOK, LinkKnown
    <2>2. QED
        BY <1>2, <1>4, <1>6, <2>1 DEF OffTheLinkIn
<1>14. QED
    BY <1>2, <1>4, <1>9, <1>11, <1>12, <1>13

\* Time brings all packets nearer by as much.
LEMMA TickOrder ==
    ASSUME LinkInv, OrderInv, Tick
    PROVE  OrderInv'
<1>1. TypeOK /\ LinkKnown
    BY DEF LinkInv
<1>2. \A f \in EventIds :
        /\ events'[f].kind = events[f].kind /\ events'[f].packet = events[f].packet
        /\ events[f].kind # "NONE" => events'[f].due = events[f].due - 1
    BY <1>1, TickEvents
<1>3. UNCHANGED << packets, delivered, normal_host, preemptive_queue, busy, queue_proc_event >>
    BY DEF Tick, params, link
<1>4. Flying' = Flying
    BY <1>2 DEF Flying
<1>5. \A f \in Flying : /\ events'[f].packet = events[f].packet
                        /\ events'[f].due = events[f].due - 1
                        /\ events[f].due \in Nat /\ f \in EventIds
    BY <1>1, <1>2, FlyingTypes
<1>6. InFlight' = InFlight
    BY <1>4, <1>5 DEF InFlight
<1>7. FliesInOrder => FliesInOrder'
    <2>1. \A f, g \in Flying : Sooner(f, g) => Sooner(f, g)'
        BY <1>5 DEF Sooner
    <2>2. QED
        BY <1>4, <1>5, <2>1 DEF FliesInOrder
<1>8. OffTheLinkIn => OffTheLinkIn'
    <2>1. busy => /\ events'[queue_proc_event].due = events[queue_proc_event].due - 1
                  /\ events[queue_proc_event].due \in Nat
        BY <1>1, <1>2, EventKinds DEF TypeOK, LinkKnown
    <2>2. PropTicks \in Nat
        BY PfSizesAssumption
    <2>3. QED
        BY <1>3, <1>4, <1>5, <2>1, <2>2 DEF OffTheLinkIn
<1>9. InBuffer' = InBuffer /\ Arrived' = Arrived
    BY <1>3 DEF InBuffer, Arrived
<1>10. QED
    BY <1>3, <1>6, <1>7, <1>8, <1>9 DEF OrderInv

LEMMA NextOrder ==
    ASSUME ~CutThrough, LinkInv, PlaceInv, OrderInv, [Next]_vars
    PROVE  OrderInv'
<1>1. ASSUME NEW kind \in Kinds, ArrivePacket(kind) PROVE OrderInv'
    BY <1>1, ArriveOrder
<1>2. ASSUME NEW e \in EventIds, ProcessQueue(e) PROVE OrderInv'
    BY <1>2, StopOrder, TransmitOrder DEF ProcessQueue
<1>3. ASSUME NEW e \in EventIds, Deliver(e) PROVE OrderInv'
    BY <1>3, DeliverOrder
<1>4. CASE Tick
    BY <1>4, TickOrder
<1>5. CASE UNCHANGED vars
    BY <1>5 DEF vars, params, link, OrderInv, FliesInOrder, Sooner, OffTheLinkIn, Flying,
                InFlight, InBuffer, Arrived
<1>6. QED
    BY <1>1, <1>2, <1>3, <1>4, <1>5 DEF Next

-----------------------------------------------------------------------------
(* NoInversion, which is inductive beside LinkInv and PlaceInv.            *)

\* The packets of S that are better than the one on the link let an older one
\* of a flow that is as good go first.
NoneInverted(S) ==
    \A x \in S :
        Priority(x) < Priority(packet_transmitting) =>
            /\ normal_host
            /\ \E y \in S : Flow(y) = Flow(packet_transmitting) /\ Priority(y) <= Priority(x)

\* NoInversion speaks of the packets in the buffer, not of their places in it.
LEMMA InversionByPacket ==
    NoInversion <=> (preemptive_queue /\ Transmitting => NoneInverted(InBuffer))
BY DEF NoInversion, NoneInverted, InBuffer, ToSet

\* Enqueueing drops no packet that is better than the one that comes.
LEMMA BetterStays ==
    ASSUME NEW s \in Seq(Packet), IsInjective(s), NEW p \in Packet, p \notin ToSet(s),
           NEW t \in Buffers(s, p), NEW y \in ToSet(s), Priority(y) < Priority(p)
    PROVE  y \in ToSet(t)
<1> DEFINE u == Append(s, p)
<1>1. u \in Seq(Packet) /\ IsInjective(u) /\ ToSet(u) = ToSet(s) \cup {p}
    BY AppendProperties, AppendSet
<1>2. t = u \/ \E i \in DOMAIN u : IsWorst(i, u) /\ t = RemoveAt(u, i)
    BY DEF Buffers
<1> HIDE DEF u
<1>3. DOMAIN u = 1 .. Len(u) /\ \A i \in DOMAIN u : u[i] \in Packet
    BY <1>1, LenProperties, ElementOfSeq
<1>4. ASSUME NEW i \in DOMAIN u, IsWorst(i, u) PROVE u[i] # y
    <2>1. PICK j \in DOMAIN u : u[j] = p
        BY <1>1 DEF ToSet
    <2>2. Priority(p) <= Priority(u[i])
        BY <1>3, <1>4, <2>1, PacketNumbers DEF IsWorst
    <2>3. Priority(p) \in Nat /\ Priority(u[i]) \in Nat
        BY <1>3, PacketNumbers
    <2>4. QED
        BY <2>2, <2>3
<1>5. QED
    BY <1>1, <1>2, <1>4, RemoveAtSet

\* An arrival that does not preempt is no better than the packet on the link,
\* and pushes no better one out of the buffer.
LEMMA ArriveNoInversion ==
    ASSUME LinkInv, PlaceInv, NoInversion, NEW kind \in Kinds, ArrivePacket(kind)
    PROVE  NoInversion'
<1> DEFINE p == [serial |-> arrivals + 1, kind |-> kind]
<1>1. /\ TypeOK /\ PacketKnown /\ packets \in Seq(Packet) /\ arrivals \in Nat
      /\ events \in [EventIds -> EventType]
    BY PfBoundsAssumption DEF LinkInv, TypeOK
<1>2. arrivals + 1 \in 1 .. MaxArrivals /\ UNCHANGED << normal_host, preemptive_queue >>
    BY <1>1, PfBoundsAssumption DEF ArrivePacket, params
<1>3. p \in Packet /\ p.serial = arrivals + 1
    BY <1>2 DEF Packet
<1>4. \/ ~busy /\ StartLink(events, p)
      \/ busy /\ ~Preempts(p) /\ UNCHANGED << events, link >> /\ Take(packets, p, {})
      \/ StartLink(Without(events, Cancelled(busy_events)), p)
    BY DEF ArrivePacket, Preempt
<1> HIDE DEF p
<1>5. CASE \E es \in [EventIds -> EventType] : StartLink(es, p)
    <2>1. ~Transmitting'
        BY <1>5, StartLinkFlight
    <2>2. QED
        BY <2>1 DEF NoInversion
<1>6. CASE busy /\ ~Preempts(p) /\ UNCHANGED << events, link >> /\ Take(packets, p, {})
    <2> DEFINE x == packet_transmitting
    <2>1. SUFFICES ASSUME preemptive_queue, Transmitting, NEW y \in InBuffer',
                          Priority(y) < Priority(x)
                   PROVE  /\ normal_host
                          /\ \E z \in InBuffer' : Flow(z) = Flow(x) /\ Priority(z) <= Priority(y)
        <3>1. /\ Transmitting' = Transmitting /\ packet_transmitting' = packet_transmitting
            BY <1>6 DEF Transmitting, link
        <3>2. (NoInversion <=> (preemptive_queue /\ Transmitting => NoneInverted(InBuffer)))'
            BY InversionByPacket, PTL
        <3>3. QED
            BY <1>2, <3>1, <3>2 DEF NoneInverted
    <2>2. x \in Packet /\ ~Better(p)
        BY <1>1, <1>6, <2>1 DEF PacketKnown, Preempts, Transmitting
    <2>3. Priority(x) <= Priority(p)
        BY <1>3, <2>2, PacketNumbers DEF Better
    <2>4. p \notin InBuffer /\ IsInjective(packets)
        BY <1>1, <1>3, NewPacket DEF PlaceInv, PlacedOnce
    <2>5. InBuffer \subseteq Packet
        BY <1>1, PlacesType
    <2>6. y \in InBuffer
        <3>1. InBuffer' \subseteq InBuffer \cup {p}
            BY <1>1, <1>3, <1>6, <2>4, TakePlaces DEF InBuffer
        <3>2. y # p
            BY <1>3, <2>1, <2>2, <2>3, PacketNumbers
        <3>3. QED
            BY <3>1, <3>2
    <2>7. /\ normal_host
          /\ \E z \in InBuffer : Flow(z) = Flow(x) /\ Priority(z) <= Priority(y)
        BY <2>1, <2>6, InversionByPacket DEF NoneInverted
    <2>8. PICK z \in InBuffer : Flow(z) = Flow(x) /\ Priority(z) <= Priority(y)
        BY <2>7
    <2>9. Priority(z) < Priority(p)
        <3>1. /\ Priority(z) \in Nat /\ Priority(y) \in Nat
              /\ Priority(x) \in Nat /\ Priority(p) \in Nat
            BY <1>3, <2>2, <2>5, <2>6, PacketNumbers
        <3>2. QED
            BY <2>1, <2>3, <2>8, <3>1
    <2>10. packets' \in Buffers(packets, p)
        BY <1>6 DEF Take
    <2>11. z \in InBuffer'
        BY <1>1, <1>3, <2>4, <2>9, <2>10, BetterStays DEF InBuffer
    <2>12. QED
        BY <2>7, <2>8, <2>11
<1>7. QED
    BY <1>1, <1>4, <1>5, <1>6, EventsType

\* The link takes the best packet, or an older one of the same flow: the best
\* one then stays.
LEMMA TransmitNoInversion ==
    ASSUME LinkInv, PlaceInv, NEW e \in EventIds, Due(e, "QUEUE"),
           NEW i \in DOMAIN packets, IsNext(i, packets), Transmit(e, i),
           UNCHANGED << params, arrivals, delivered, dropped >>
    PROVE  NoInversion'
<1> DEFINE p == packets[i]
<1>1. packets \in Seq(Packet) /\ normal_host' = normal_host /\ TypeOK
    BY DEF LinkInv, TypeOK, params
<1>2. InBuffer' = InBuffer \ {p} /\ packet_transmitting' = p
    BY <1>1, RemoveAtSet DEF Transmit, PlaceInv, PlacedOnce, InBuffer
<1>3. \A j \in DOMAIN packets : packets[j] \in InBuffer /\ Priority(packets[j]) \in Nat
    BY <1>1, LenProperties, ElementOfSeq, PacketNumbers DEF InBuffer, ToSet
<1>4. ASSUME NEW x \in InBuffer', Priority(x) < Priority(p)
      PROVE  /\ normal_host
             /\ \E y \in InBuffer' : Flow(y) = Flow(p) /\ Priority(y) <= Priority(x)
    <2>1. PICK j \in DOMAIN packets : x = packets[j]
        BY <1>2 DEF InBuffer, ToSet
    <2>2. PICK b \in DOMAIN packets :
            /\ IsBest(b, packets)
            /\ (~normal_host /\ b = i) \/ (normal_host /\ Flow(p) = Flow(packets[b]))
        BY DEF IsNext
    <2>3. Priority(packets[b]) <= Priority(x)
        BY <1>3, <2>1, <2>2 DEF IsBest
    <2>4. packets[b] # p
        BY <1>3, <1>4, <2>1, <2>3
    <2>5. packets[b] \in InBuffer'
        BY <1>2, <1>3, <2>4
    <2>6. QED
        BY <2>2, <2>3, <2>4, <2>5
<1> HIDE DEF p
<1>5. (NoInversion <=> (preemptive_queue /\ Transmitting => NoneInverted(InBuffer)))'
    BY InversionByPacket, PTL
<1>6. QED
    BY <1>1, <1>2, <1>4, <1>5 DEF NoneInverted

LEMMA NextNoInversion ==
    ASSUME LinkInv, PlaceInv, NoInversion, [Next]_vars
    PROVE  NoInversion'
<1>1. TypeOK /\ LinkKnown
    BY DEF LinkInv
<1>2. ASSUME NEW kind \in Kinds, ArrivePacket(kind) PROVE NoInversion'
    BY <1>2, ArriveNoInversion
<1>3. ASSUME NEW e \in EventIds, ProcessQueue(e) PROVE NoInversion'
    <2>1. CASE Stop(e)
        BY <2>1 DEF Stop, NoInversion, Transmitting
    <2>2. CASE \E i \in DOMAIN packets : IsNext(i, packets) /\ Transmit(e, i)
        BY <1>3, <2>2, TransmitNoInversion DEF ProcessQueue
    <2>3. QED
        BY <1>3, <2>1, <2>2 DEF ProcessQueue
<1>4. ASSUME UNCHANGED << params, packets, link >>, Transmitting' => Transmitting
      PROVE  NoInversion'
    BY <1>4 DEF NoInversion, params, link
<1>5. ASSUME NEW e \in EventIds, Deliver(e) PROVE NoInversion'
    <2>1. /\ UNCHANGED << params, packets, link >> /\ events[e].kind = "ARRIVAL"
          /\ \A f \in EventIds : f # e => events'[f] = events[f]
        BY <1>5 DEF Deliver, Due, Without
    <2>2. busy => queue_proc_event \in EventIds /\ queue_proc_event # e
        BY <1>1, <2>1 DEF TypeOK, LinkKnown
    <2>3. Transmitting' => Transmitting
        BY <2>1, <2>2 DEF Transmitting, link
    <2>4. QED
        BY <1>4, <2>1, <2>3
<1>6. CASE Tick
    <2>1. UNCHANGED << params, packets, link >>
        BY <1>6 DEF Tick
    <2>2. busy => /\ queue_proc_event \in EventIds /\ events[queue_proc_event].kind # "NONE"
        BY <1>1 DEF TypeOK, LinkKnown
    <2>3. busy => events[queue_proc_event].due > 0
        BY <1>6, <2>2 DEF Tick
    <2>4. Transmitting' => Transmitting
        BY <2>1, <2>3 DEF Transmitting, link
    <2>5. QED
        BY <1>4, <2>1, <2>4
<1>7. CASE UNCHANGED vars
    BY <1>4, <1>7 DEF vars, link, Transmitting
<1>8. QED
    BY <1>2, <1>3, <1>5, <1>6, <1>7 DEF Next

-----------------------------------------------------------------------------
(* The theorems, for a link without cut-through.                           *)

\* The inductive invariant of a link (coresim/event.cpp:302-388,
\* coresim/queue.cpp:316-343) holds whatever comes, preempts and is dropped.
THEOREM LinkInvariant == ASSUME ~CutThrough PROVE Spec => []LinkInv
<1>1. LinkInv /\ [Next]_vars => LinkInv'
    BY NextLink
<1>2. QED
    BY InitLink, <1>1, PTL DEF Spec

\* Type correctness of the queue (ext/pfabricqueue.cpp:17-95).
THEOREM PfTypes == ASSUME ~CutThrough PROVE Spec => []TypeOK
<1>1. LinkInv => TypeOK
    BY DEF LinkInv
<1>2. QED
    BY LinkInvariant, <1>1, PTL

\* The queue always knows the one chain of events that drives its link, and
\* what preempt_current_transmission cancels is pending.
THEOREM LinkStaysKnown == ASSUME ~CutThrough PROVE Spec => []LinkKnown
<1>1. LinkInv => LinkKnown
    BY DEF LinkInv
<1>2. QED
    BY LinkInvariant, <1>1, PTL

\* A packet is in the buffer, on its way, beyond it or dropped, and in one of
\* these places only, whatever preemptions cancel and put back
\* (coresim/queue.cpp:316-343).
THEOREM PacketsKept == ASSUME ~CutThrough PROVE Spec => []OnePlace
<1>1. LinkInv /\ PlaceInv /\ [Next]_vars => PlaceInv'
    BY NextPlaces
<1>2. LinkInv /\ PlaceInv => OnePlace
    BY PlacedIsOnePlace DEF LinkInv
<1>3. QED
    BY LinkInvariant, InitPlaces, <1>1, <1>2, PTL DEF Spec


\* Without preemption, and with normal hosts, a flow's packets reach the next
\* hop in the order they came to the queue, although the link serves the
\* flows by priority (ext/pfabricqueue.cpp:49-99, coresim/event.cpp:302-388).
THEOREM FlowsStayInOrder == ASSUME ~CutThrough PROVE Spec => []FlowOrder
<1>1. LinkInv /\ PlaceInv /\ [Next]_vars => PlaceInv'
    BY NextPlaces
<1>2. LinkInv /\ PlaceInv /\ OrderInv /\ [Next]_vars => OrderInv'
    BY NextOrder
<1>3. OrderInv => FlowOrder
    BY DEF OrderInv, InOrder, FlowOrder
<1>4. QED
    BY LinkInvariant, InitPlaces, InitOrder, <1>1, <1>2, <1>3, PTL DEF Spec

\* With preemption the link transmits no packet while a better one waits, save
\* an older packet of the flow whose better one waits (coresim/event.cpp:204-234,
\* ext/pfabricqueue.cpp:17-99).
THEOREM NoPacketInverted == ASSUME ~CutThrough PROVE Spec => []NoInversion
<1>1. LinkInv /\ PlaceInv /\ [Next]_vars => PlaceInv'
    BY NextPlaces
<1>2. LinkInv /\ PlaceInv /\ NoInversion /\ [Next]_vars => NoInversion'
    BY NextNoInversion
<1>3. Init => NoInversion
    BY DEF Init, NoInversion, Transmitting
<1>4. QED
    BY LinkInvariant, InitPlaces, <1>1, <1>2, <1>3, PTL DEF Spec
=============================================================================
