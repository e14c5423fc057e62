------------------------------ MODULE PfQueue -------------------------------
(***************************************************************************)
(* One pFabric queue (ext/pfabricqueue.cpp), with the preemption of        *)
(* coresim/queue.cpp and the queue events of coresim/event.cpp.            *)
(*                                                                         *)
(* The buffer is unsorted.  A full one drops its worst packet; the link    *)
(* takes the best one, and with normal hosts the oldest packet of the same *)
(* flow in its place.  A transmission is two events: the                   *)
(* QueueProcessingEvent that ends it, and the arrival of the packet at the *)
(* next hop.  A better packet may preempt it: both events are cancelled    *)
(* and the packet goes back to the buffer.                                 *)
(*                                                                         *)
(* Time is counted in ticks; the last hundredth of a transmission, in      *)
(* which nothing preempts, is its last instant (due = 0).                  *)
(***************************************************************************)
EXTENDS Naturals, FiniteSets, SequencesExt

CONSTANTS
    Kinds,        \* the packets that come: [flow, pf_priority, size]
    LimitBytes,   \* limit_bytes
    HdrTicks,     \* transmission time of a header
    PropTicks,    \* propagation_delay
    CutThrough,   \* params.cut_through
    EventIds,     \* bound: events pending at one time, 1 .. n
    MaxArrivals   \* bound: packets that are sent to this queue

ASSUME PfSizesAssumption ==
    /\ \A k \in Kinds : k.pf_priority \in Nat /\ k.size \in Nat \ {0}
    /\ LimitBytes \in Nat /\ HdrTicks \in Nat \ {0} /\ PropTicks \in Nat

ASSUME PfBoundsAssumption ==
    /\ CutThrough \in BOOLEAN
    /\ EventIds \subseteq Nat \ {0} /\ MaxArrivals \in Nat

VARIABLES
    preemptive_queue,     \* params.preemptive_queue
    normal_host,          \* params.host_type = NORMAL_HOST
    packets,              \* the buffer
    events,               \* id |-> the pending event
    busy,
    queue_proc_event,     \* id of an event, or NULL
    busy_events,          \* ids of events
    packet_transmitting,  \* a packet, or NoPacket
    arrivals,             \* packets sent to the queue so far
    delivered,            \* packets that reached the next hop, in order
    dropped               \* packets that were dropped

params == << preemptive_queue, normal_host >>
link   == << busy, queue_proc_event, busy_events, packet_transmitting >>
vars   == << params, packets, events, link, arrivals, delivered, dropped >>

\* serial numbers the packets in the order they come to the queue.
Packet   == [serial : 1 .. MaxArrivals, kind : Kinds]
NoPacket == [serial |-> 0]
NULL     == 0

Flow(p)     == p.kind.flow
Priority(p) == p.kind.pf_priority
Size(p)     == p.kind.size

\* kind "QUEUE" is a QueueProcessingEvent, "ARRIVAL" a PacketArrivalEvent or,
\* at a switch, the PacketQueuingEvent of the next queue.
NoEvent   == [kind |-> "NONE", packet |-> NoPacket, due |-> 0]
EventType == {NoEvent} \cup [kind : {"QUEUE"}, packet : {NoPacket}, due : Nat]
                       \cup [kind : {"ARRIVAL"}, packet : Packet, due : Nat]

\* get_transmission_delay: a tick for a unit of size.
Ticks(p) == Size(p)

-----------------------------------------------------------------------------
Init ==
    /\ preemptive_queue \in BOOLEAN /\ normal_host \in BOOLEAN
    /\ packets = << >>
    /\ events = [e \in EventIds |-> NoEvent]
    /\ busy = FALSE /\ queue_proc_event = NULL /\ busy_events = {}
    /\ packet_transmitting = NoPacket
    /\ arrivals = 0
    /\ delivered = << >> /\ dropped = {}

-----------------------------------------------------------------------------
(* The buffer *)

\* bytes_in_queue, which enque and deque keep up to date.
Bytes(s) == FoldSeq(LAMBDA p, sum : Size(p) + sum, 0, s)

\* The last packet of the highest pf_priority.
IsWorst(i, s) ==
    \A j \in DOMAIN s : \/ Priority(s[j]) < Priority(s[i])
                        \/ Priority(s[j]) = Priority(s[i]) /\ j <= i

\* The first packet of the lowest pf_priority.
IsBest(i, s) ==
    \A j \in DOMAIN s : \/ Priority(s[i]) < Priority(s[j])
                        \/ Priority(s[i]) = Priority(s[j]) /\ i <= j

\* Mutant: deque does not look for the oldest packet of the flow.
IsNextBest(i, s) == IsBest(i, s)

\* PFabricQueue::deque takes the best packet, or the oldest one of its flow.
IsNext(i, s) ==
    \/ ~normal_host /\ IsBest(i, s)
    \/ /\ normal_host
       /\ \E b \in DOMAIN s : IsBest(b, s) /\ Flow(s[i]) = Flow(s[b])
       /\ \A j \in 1 .. i - 1 : Flow(s[j]) # Flow(s[i])

\* PFabricQueue::enque: the buffer is s with p at its end, and without the
\* worst packet if that is too much.
Buffers(s, p) ==
    LET t == Append(s, p)
    IN  IF Bytes(t) > LimitBytes
        THEN {RemoveAt(t, i) : i \in {j \in DOMAIN t : IsWorst(j, t)}}
        ELSE {t}

\* The packets of s and p that are not in t.
Lost(s, p, t) == (ToSet(s) \cup {p}) \ ToSet(t)

-----------------------------------------------------------------------------
(* The events *)

Free(es) == {e \in EventIds : es[e].kind = "NONE"}
IsNew(e, es) == e \in Free(es) /\ \A f \in Free(es) : e <= f

Post(es, e, kind, p, due) == [es EXCEPT ![e] = [kind |-> kind, packet |-> p, due |-> due]]

Due(e, kind) == events[e].kind = kind /\ events[e].due = 0

\* A cancelled event is skipped by the event loop: here it is gone at once.
Without(es, ids) == [e \in EventIds |-> IF e \in ids THEN NoEvent ELSE es[e]]

\* Mutant: preemption forgets the packet that is on its way to the next hop.
CancelledLink(ids) == {queue_proc_event}

\* The events that preempt_current_transmission cancels.
Cancelled(ids) == {queue_proc_event} \cup ids

\* The buffer of preempt_current_transmission: p leaves it if it is there, and
\* is enqueued again.
PutBack(p) ==
    LET at == {i \in DOMAIN packets : packets[i] = p}
    IN  IF at = {} THEN Buffers(packets, p)
        ELSE UNION {Buffers(RemoveAt(packets, i), p) : i \in at}

\* Mutant: only packets of the first priority preempt.
BetterAck(p) == Priority(p) = 0 /\ Priority(packet_transmitting) # 0

\* The arrival has a better priority than the packet in transmission.
Better(p) == Priority(p) < Priority(packet_transmitting)

Preempts(p) ==
    /\ busy /\ preemptive_queue /\ Better(p)
    /\ events[queue_proc_event].due > 0

-----------------------------------------------------------------------------
(* The operations *)

\* queue_proc_event = new QueueProcessingEvent(now), for p.
StartLink(es, p) ==
    \E e \in EventIds :
        /\ IsNew(e, es)
        /\ events' = Post(es, e, "QUEUE", NoPacket, 0)
        /\ queue_proc_event' = e
        /\ busy' = TRUE
        /\ packet_transmitting' = p

\* enque of p, with lost dropped before it.
Take(s, p, lost) ==
    \E t \in Buffers(s, p) :
        /\ packets' = t
        /\ dropped' = dropped \cup lost \cup Lost(s, p, t)

\* preempt_current_transmission, and the packet p in its place.
Preempt(p) ==
    /\ StartLink(Without(events, Cancelled(busy_events)), p)
    /\ busy_events' = {}
    /\ \E rest \in PutBack(packet_transmitting) :
            Take(rest, p, Lost(packets, packet_transmitting, rest))

\* PacketQueuingEvent: an idle queue is set to work, a transmission may be
\* preempted, and the packet is enqueued.
ArrivePacket(kind) ==
    LET p == [serial |-> arrivals + 1, kind |-> kind]
    IN  /\ arrivals < MaxArrivals
        /\ arrivals' = arrivals + 1
        /\ \/ ~busy /\ StartLink(events, p) /\ UNCHANGED busy_events /\ Take(packets, p, {})
           \/ busy /\ ~Preempts(p) /\ UNCHANGED << events, link >> /\ Take(packets, p, {})
           \/ Preempts(p) /\ Preempt(p)
        /\ UNCHANGED << params, delivered >>

\* When the packet of a transmission that starts now is at the next hop.
Latency(p) == (IF CutThrough THEN HdrTicks ELSE Ticks(p)) + PropTicks

\* QueueProcessingEvent with a packet: transmit it.
Transmit(e, i) ==
    LET p == packets[i]
    IN  \E q, a \in EventIds :
            /\ IsNew(q, events)
            /\ IsNew(a, Post(events, q, "QUEUE", NoPacket, Ticks(p)))
            /\ events' = Without(Post(Post(events, q, "QUEUE", NoPacket, Ticks(p)),
                                      a, "ARRIVAL", p, Latency(p)), {e})
            /\ queue_proc_event' = q
            /\ busy_events' = {q, a}
            /\ packets' = RemoveAt(packets, i)
            /\ packet_transmitting' = p
            /\ busy' = TRUE

\* Mutant: the queue stays busy.
StopBusy(e) ==
    /\ events' = Without(events, {e})
    /\ queue_proc_event' = e /\ busy_events' = {}
    /\ UNCHANGED << packets, packet_transmitting, busy >>

\* QueueProcessingEvent without a packet.
Stop(e) ==
    /\ events' = Without(events, {e})
    /\ queue_proc_event' = NULL /\ busy_events' = {}
    /\ packet_transmitting' = NoPacket /\ busy' = FALSE
    /\ UNCHANGED packets

ProcessQueue(e) ==
    /\ Due(e, "QUEUE")
    /\ \/ packets = << >> /\ Stop(e)
       \/ \E i \in DOMAIN packets : IsNext(i, packets) /\ Transmit(e, i)
    /\ UNCHANGED << params, arrivals, delivered, dropped >>

\* The packet is at the next hop.
Deliver(e) ==
    /\ Due(e, "ARRIVAL")
    /\ delivered' = Append(delivered, events[e].packet)
    /\ events' = Without(events, {e})
    /\ UNCHANGED << params, packets, link, arrivals, dropped >>

\* The event loop moves on when nothing is due now.
Tick ==
    /\ \A e \in EventIds : events[e].kind # "NONE" => events[e].due > 0
    /\ events' = [e \in EventIds |-> IF events[e].kind = "NONE" THEN NoEvent
                                     ELSE [events[e] EXCEPT !.due = @ - 1]]
    /\ UNCHANGED << params, packets, link, arrivals, delivered, dropped >>

Next ==
    \/ \E kind \in Kinds : ArrivePacket(kind)
    \/ \E e \in EventIds : ProcessQueue(e)
    \/ \E e \in EventIds : Deliver(e)
    \/ Tick

Spec == Init /\ [][Next]_vars

\* The event loop processes every event it holds; arrivals are up to the rest
\* of the network and need not happen.
Fairness == /\ \A e \in EventIds : WF_vars(ProcessQueue(e)) /\ WF_vars(Deliver(e))
            /\ WF_vars(Tick)

FairSpec == Spec /\ Fairness

-----------------------------------------------------------------------------
(* Properties *)

\* The type invariant.
TypeOK ==
    /\ preemptive_queue \in BOOLEAN /\ normal_host \in BOOLEAN
    /\ packets \in Seq(Packet)
    /\ events \in [EventIds -> EventType]
    /\ busy \in BOOLEAN
    /\ queue_proc_event \in EventIds \cup {NULL} /\ busy_events \subseteq EventIds
    /\ packet_transmitting \in Packet \cup {NoPacket}
    /\ arrivals \in 0 .. MaxArrivals
    /\ delivered \in Seq(Packet) /\ dropped \subseteq Packet

\* The places a packet can be in, each counted as often as it is there.
Waiting(n)   == {i \in DOMAIN packets : packets[i].serial = n}
OnLink(n)    == {e \in EventIds : events[e].packet.serial = n}
Delivered(n) == {i \in DOMAIN delivered : delivered[i].serial = n}
Dropped(n)   == {p \in dropped : p.serial = n}

\* However often it is preempted, put back and dropped, a packet is in one
\* place: it is neither lost nor duplicated.
OnePlace ==
    \A n \in 1 .. arrivals :
        Cardinality(Waiting(n)) + Cardinality(OnLink(n))
            + Cardinality(Delivered(n)) + Cardinality(Dropped(n)) = 1

Transmitting == busy /\ events[queue_proc_event].due > 0

\* The link has one chain of events, and the queue knows it: whatever
\* preempt_current_transmission cancels is still pending, and no second
\* QueueProcessingEvent transmits beside the known one.
LinkKnown ==
    /\ \A e \in EventIds : events[e].kind = "QUEUE" => busy /\ e = queue_proc_event
    /\ busy => queue_proc_event # NULL /\ events[queue_proc_event].kind = "QUEUE"
    /\ Transmitting => \A e \in busy_events : events[e].kind # "NONE"

\* With preemption no packet waits for a worse one of another flow, unless a
\* better packet of that flow is waiting behind it.
NoInversion ==
    preemptive_queue /\ Transmitting =>
        \A i \in DOMAIN packets :
            Priority(packets[i]) < Priority(packet_transmitting) =>
                /\ normal_host
                /\ \E j \in DOMAIN packets :
                        /\ Flow(packets[j]) = Flow(packet_transmitting)
                        /\ Priority(packets[j]) <= Priority(packets[i])

\* Without preemption the packets of a flow keep their order, although the
\* link picks them by priority: deque sends the oldest one of the best flow.
FlowOrder ==
    normal_host /\ ~preemptive_queue =>
        \A i, j \in DOMAIN delivered :
            i < j /\ Flow(delivered[i]) = Flow(delivered[j])
                => delivered[i].serial < delivered[j].serial

\* When no more packets come, every one in the queue is delivered or dropped.
Drains == <>[](packets = << >> /\ ~busy)

\* The buffer holds what fits: one packet is dropped for one that comes.
LimitKept == Bytes(packets) <= LimitBytes

\* As FlowOrder, with preemption too.
FlowAlwaysInOrder ==
    normal_host =>
        \A i, j \in DOMAIN delivered :
            i < j /\ Flow(delivered[i]) = Flow(delivered[j])
                => delivered[i].serial < delivered[j].serial

-----------------------------------------------------------------------------
(* The inductive invariant behind LinkKnown.                               *)

\* The packet in transmission arrives when its transmission ends, or later.
ArrivalsBehind ==
    busy => \A e \in busy_events :
        events[e].kind = "ARRIVAL" => events[e].due >= events[queue_proc_event].due

\* A busy queue has a packet, whose priority an arrival is compared with.
PacketKnown == busy => packet_transmitting \in Packet

LinkInv == TypeOK /\ LinkKnown /\ ArrivalsBehind /\ PacketKnown

-----------------------------------------------------------------------------
(* The inductive invariant behind OnePlace.                                *)

\* The packets in the buffer, on their way to the next hop, and beyond it.
InBuffer == ToSet(packets)
Flying   == {e \in EventIds : events[e].kind = "ARRIVAL"}
InFlight == {events[e].packet : e \in Flying}
Arrived  == ToSet(delivered)

\* No packet is in two of the four places.
Apart(buffer, flight, arrived, lost) ==
    /\ buffer \cap flight = {} /\ buffer \cap arrived = {} /\ buffer \cap lost = {}
    /\ flight \cap arrived = {} /\ flight \cap lost = {} /\ arrived \cap lost = {}

\* All that came is somewhere: S holds one packet for each serial up to n.
Numbered(S, n) ==
    /\ \A p \in S : p.serial \in 1 .. n
    /\ \A p, q \in S : p.serial = q.serial => p = q
    /\ \A k \in 1 .. n : \E p \in S : p.serial = k

Placed(buffer, flight, arrived, lost, n) ==
    /\ Apart(buffer, flight, arrived, lost)
    /\ Numbered(buffer \cup flight \cup arrived \cup lost, n)

\* No packet is twice in one place.
FliesOnce == \A e, f \in Flying : events[e].packet = events[f].packet => e = f
PlacedOnce == IsInjective(packets) /\ FliesOnce /\ IsInjective(delivered)

\* While a packet is transmitted, the queue knows its arrival and can cancel it.
ArrivalKnown ==
    Transmitting => \E a \in EventIds :
        /\ busy_events = {queue_proc_event, a}
        /\ events[a].kind = "ARRIVAL" /\ events[a].packet = packet_transmitting

PlaceInv == /\ PlacedOnce /\ ArrivalKnown
            /\ Placed(InBuffer, InFlight, Arrived, dropped, arrivals)

-----------------------------------------------------------------------------
(* The inductive invariant behind FlowOrder.                               *)

\* The packets of a flow are in the order they came in; those of S came before those of T.
InOrder(s) ==
    \A i, j \in DOMAIN s : i < j /\ Flow(s[i]) = Flow(s[j]) => s[i].serial < s[j].serial
Before(S, T) == \A p \in S, q \in T : Flow(p) = Flow(q) => p.serial < q.serial

\* Two packets of a flow that are on their way arrive in the order they came in.
Sooner(e, f) ==
    events[e].packet.serial < events[f].packet.serial /\ events[e].due < events[f].due
FliesInOrder ==
    \A e, f \in Flying :
        e # f /\ Flow(events[e].packet) = Flow(events[f].packet) => Sooner(e, f) \/ Sooner(f, e)

\* A packet that has left the link is at the next hop within the propagation delay.
OffTheLinkIn ==
    \A e \in Flying :
        events[e].due <= PropTicks + (IF busy THEN events[queue_proc_event].due ELSE 0)

OrderInv ==
    normal_host /\ ~preemptive_queue =>
        /\ InOrder(delivered) /\ InOrder(packets) /\ FliesInOrder /\ OffTheLinkIn
        /\ Before(Arrived, InFlight) /\ Before(Arrived, InBuffer) /\ Before(InFlight, InBuffer)
=============================================================================
