------------------------------ MODULE SnsQueue ------------------------------
(***************************************************************************)
(* One SNS queue, the output port of a host or a switch (coresim/queue.cpp *)
(* and the queue events of coresim/event.cpp).                             *)
(*                                                                         *)
(* A SIM waits in sim_packets until a token admits it to packets, the one  *)
(* buffer all classes share; other packets enter packets at once.  Tokens  *)
(* come from FillTokenBucketEvents; a SIM is admitted by one of the        *)
(* SnsQueueProcessingEvents that its arrival or a fill posts.              *)
(*                                                                         *)
(* The link is a chain of QueueProcessingEvents: each one dequeues the     *)
(* next packet by priority and posts its successor at the end of the       *)
(* transmission.  The queue knows one of its pending events,               *)
(* queue_proc_event, and whether it believes to be transmitting, busy.     *)
(*                                                                         *)
(* Time is counted in ticks.  An INFINITESIMAL_TIME is less than a tick,   *)
(* and an event posted for "now" goes before one posted for "now plus      *)
(* INFINITESIMAL_TIME".                                                    *)
(***************************************************************************)
EXTENDS Naturals, FiniteSets, SequencesExt

CONSTANTS
    HdrSize,      \* bytes of a SIM, SIM_ACK or DATA_ACK
    DataSize,     \* bytes of a DATA packet
    LimitBytes,   \* limit_bytes, the capacity of packets
    ParamB,       \* params.param_b, the capacity of sim_packets
    HdrTicks,     \* transmission time of a header
    DataTicks,    \* transmission time of a DATA packet
    FillTicks,    \* period of FillTokenBucketEvent
    Chains,       \* bound: chains of QueueProcessingEvents at one time, 1 .. n
    MaxArrivals   \* bound: packets that are sent to this queue

ASSUME SizesAssumption ==
    /\ HdrSize \in Nat \ {0} /\ DataSize \in Nat \ {0}
    /\ LimitBytes \in Nat /\ ParamB \in Nat
    /\ HdrTicks \in Nat \ {0} /\ DataTicks \in Nat \ {0}
    /\ FillTicks \in Nat \ {0}

ASSUME BoundsAssumption ==
    /\ Chains \subseteq Nat \ {0} /\ MaxArrivals \in Nat

VARIABLES
    packets,           \* the shared buffer
    sim_packets,       \* SIMs that wait for a token
    free_tokens,
    token_bucket_run,
    fill,              \* ticks until the pending FillTokenBucketEvent
    sns_events,        \* pending SnsQueueProcessingEvents
    events,            \* chain |-> its pending QueueProcessingEvent
    queue_proc_event,  \* the chain whose event the queue knows, or NULL
    busy,
    arrivals,          \* packets sent to the queue so far
    departed           \* class |-> serial number of the last one transmitted

vars == << packets, sim_packets, free_tokens, token_bucket_run, fill, sns_events,
           events, queue_proc_event, busy, arrivals, departed >>

bucket == << free_tokens, token_bucket_run, fill, sns_events >>
link   == << events, queue_proc_event, busy, departed >>

Kinds  == {"SIM", "SIM_ACK", "DATA_ACK", "DATA"}
Packet == [kind : Kinds, serial : Nat]

\* due: ticks until the event; tx: it ends a transmission.
EventType == [pending : BOOLEAN, due : Nat, tx : BOOLEAN]
NoEvent == [pending |-> FALSE, due |-> 0, tx |-> FALSE]
NULL == 0

Size(p)  == IF p.kind = "DATA" THEN DataSize ELSE HdrSize
Ticks(p) == IF p.kind = "DATA" THEN DataTicks ELSE HdrTicks

-----------------------------------------------------------------------------
Init ==
    /\ packets = << >> /\ sim_packets = << >>
    /\ free_tokens = 0 /\ token_bucket_run = FALSE /\ fill = 0
    /\ sns_events = 0
    /\ events = [c \in Chains |-> NoEvent]
    /\ queue_proc_event = NULL /\ busy = FALSE
    /\ arrivals = 0
    /\ departed = [k \in Kinds |-> 0]

-----------------------------------------------------------------------------
(* Helpers *)

DataPositions == {i \in 1 .. Len(packets) : packets[i].kind = "DATA"}

\* bytes_in_queue, which enque and deque keep up to date.
BytesInQueue ==
    DataSize * Cardinality(DataPositions)
        + HdrSize * (Len(packets) - Cardinality(DataPositions))

\* Queue::enque: the tail of packets, unless p does not fit.
Enque(p) ==
    packets' = IF BytesInQueue + Size(p) <= LimitBytes
               THEN Append(packets, p) ELSE packets

\* The order of the classes in SnsQueue::deque.
Rank == [SIM_ACK |-> 1, SIM |-> 2, DATA_ACK |-> 3, DATA |-> 4]

\* Mutant: of a class, the packet that came last goes first.
IsNextFromTail(i) ==
    \A j \in 1 .. Len(packets) :
        \/ Rank[packets[i].kind] < Rank[packets[j].kind]
        \/ packets[i].kind = packets[j].kind /\ j <= i

\* SnsQueue::deque takes the first packet of the first class that has one.
IsNext(i) ==
    \A j \in 1 .. Len(packets) :
        \/ Rank[packets[i].kind] < Rank[packets[j].kind]
        \/ packets[i].kind = packets[j].kind /\ i <= j

\* A chain with no pending event: a new event of the queue.
IsNew(c) == /\ ~events[c].pending
            /\ \A d \in Chains : d < c => events[d].pending

\* queue_proc_event = new QueueProcessingEvent(now + ticks).
PostQueueEvent(ticks) ==
    \E c \in Chains :
        /\ IsNew(c)
        /\ events' = [events EXCEPT ![c] = [pending |-> TRUE, due |-> ticks, tx |-> FALSE]]
        /\ queue_proc_event' = c

\* Mutant: an admitted SIM relies on the next arrival to start the link.
RestartNever(ticks) == UNCHANGED << events, queue_proc_event >>

\* A queue without an event it knows is set to work.
Restart(ticks) ==
    \/ queue_proc_event # NULL /\ UNCHANGED << events, queue_proc_event >>
    \/ queue_proc_event = NULL /\ PostQueueEvent(ticks)

\* The bucket holds two tokens.
Filled(n) == IF n < 2 THEN n + 1 ELSE n

\* Mutant: a full bucket wakes the SIMs, the first token does not.
WakesWhenFull(n) == n = 2

\* A fill that ends a shortage posts an SnsQueueProcessingEvent.
Wakes(n) == n = 1

-----------------------------------------------------------------------------
(* The operations *)

\* SnsQueue::enque of a packet that is not a SIM, or of a SIM.
SnsEnque(p) ==
    IF p.kind # "SIM"
    THEN Enque(p) /\ UNCHANGED << sim_packets, sns_events >>
    ELSE /\ IF Len(sim_packets) < ParamB
            THEN sim_packets' = Append(sim_packets, p) /\ sns_events' = sns_events + 1
            ELSE UNCHANGED << sim_packets, sns_events >>
         /\ UNCHANGED packets

\* PacketQueuingEvent: an idle queue is set to work, then takes the packet.
\* The first packet of all starts the token bucket.
ArrivePacket(kind) ==
    LET p == [kind |-> kind, serial |-> arrivals + 1]
    IN  /\ arrivals < MaxArrivals
        /\ arrivals' = arrivals + 1
        /\ \/ busy /\ UNCHANGED << events, queue_proc_event >>
           \/ ~busy /\ PostQueueEvent(0)
        /\ busy' = TRUE
        /\ SnsEnque(p)
        /\ token_bucket_run' = TRUE
        /\ UNCHANGED << free_tokens, fill, departed >>

\* QueueProcessingEvent::process_event without a packet.
Stop ==
    /\ queue_proc_event' = NULL
    /\ busy' = FALSE

\* QueueProcessingEvent: transmit the next packet and post the end of its
\* transmission, or stop when there is none.
ProcessQueue(c) ==
    /\ events[c].pending /\ events[c].due = 0
    /\ \/ /\ packets = << >>
          /\ events' = [events EXCEPT ![c] = NoEvent]
          /\ Stop
          /\ UNCHANGED << packets, departed >>
       \/ /\ \E i \in 1 .. Len(packets) :
                /\ IsNext(i)
                /\ packets' = RemoveAt(packets, i)
                /\ departed' = [departed EXCEPT ![packets[i].kind] = packets[i].serial]
                /\ events' = [events EXCEPT ![c] =
                        [pending |-> TRUE, due |-> Ticks(packets[i]), tx |-> TRUE]]
          /\ queue_proc_event' = c
          /\ busy' = TRUE
    /\ UNCHANGED << sim_packets, bucket, arrivals >>

\* An event posted for "now" is still to be processed.
QueueEventDue == \E c \in Chains : events[c].pending /\ events[c].due = 0

\* SnsQueueProcessingEvent: a token admits the first SIM to packets.  A queue
\* without a pending event is set to work again, but not marked busy.
ProcessSns ==
    /\ sns_events > 0 /\ ~QueueEventDue
    /\ sns_events' = sns_events - 1
    /\ \/ /\ free_tokens < 1 \/ sim_packets = << >>
          /\ UNCHANGED << packets, sim_packets, free_tokens, events, queue_proc_event >>
       \/ /\ free_tokens >= 1 /\ sim_packets # << >>
          /\ free_tokens' = free_tokens - 1
          /\ sim_packets' = Tail(sim_packets)
          /\ Enque(Head(sim_packets))
          /\ Restart(Ticks(Head(sim_packets)))
    /\ UNCHANGED << token_bucket_run, fill, busy, arrivals, departed >>

\* FillTokenBucketEvent.
FillTokenBucket ==
    /\ token_bucket_run /\ fill = 0
    /\ free_tokens' = Filled(free_tokens)
    /\ fill' = FillTicks
    /\ sns_events' = IF Wakes(free_tokens') THEN sns_events + 1 ELSE sns_events
    /\ UNCHANGED << packets, sim_packets, token_bucket_run, link, arrivals >>

\* The event loop moves on when nothing is due now.
Tick ==
    /\ ~QueueEventDue /\ sns_events = 0
    /\ token_bucket_run => fill > 0
    /\ events' = [c \in Chains |-> IF events[c].pending
                                   THEN [events[c] EXCEPT !.due = @ - 1]
                                   ELSE events[c]]
    /\ fill' = IF token_bucket_run THEN fill - 1 ELSE fill
    /\ UNCHANGED << packets, sim_packets, free_tokens, token_bucket_run,
                    sns_events, queue_proc_event, busy, arrivals, departed >>

Next ==
    \/ \E kind \in Kinds : ArrivePacket(kind)
    \/ \E c \in Chains : ProcessQueue(c)
    \/ ProcessSns
    \/ FillTokenBucket
    \/ Tick

Spec == Init /\ [][Next]_vars

\* The event loop processes every event it holds; arrivals are up to the rest
\* of the network and need not happen.
Fairness == /\ \A c \in Chains : WF_vars(ProcessQueue(c))
            /\ WF_vars(ProcessSns) /\ WF_vars(FillTokenBucket) /\ WF_vars(Tick)

FairSpec == Spec /\ Fairness

-----------------------------------------------------------------------------
(* Properties *)

\* The type invariant.
TypeOK ==
    /\ packets \in Seq(Packet) /\ sim_packets \in Seq(Packet)
    /\ free_tokens \in 0 .. 2 /\ token_bucket_run \in BOOLEAN
    /\ fill \in 0 .. FillTicks /\ sns_events \in Nat
    /\ events \in [Chains -> EventType]
    /\ queue_proc_event \in Chains \cup {NULL} /\ busy \in BOOLEAN
    /\ arrivals \in Nat /\ departed \in [Kinds -> Nat]

\* A SIM never waits beside a free token without an event that will admit it:
\* FillTokenBucketEvent posts one only for the first token, so the events of
\* the arrivals must cover all the other SIMs.
TokensNeverIdle ==
    sim_packets # << >> /\ free_tokens >= 1 => sns_events > 0

\* Within a class, packets is sorted by arrival ...
PacketsSorted ==
    \A i, j \in 1 .. Len(packets) :
        i < j /\ packets[i].kind = packets[j].kind
            => packets[i].serial < packets[j].serial

\* ... after everything that was transmitted ...
DepartedFirst ==
    \A i \in 1 .. Len(packets) : departed[packets[i].kind] < packets[i].serial

\* ... and before every SIM that still waits for a token.
SimsBehind ==
    \A i \in 1 .. Len(packets), j \in 1 .. Len(sim_packets) :
        packets[i].kind = "SIM" => packets[i].serial < sim_packets[j].serial

\* No packet is stranded: while packets holds one, a QueueProcessingEvent is
\* pending, although several places start and end the chain.
PacketsServed == packets # << >> => \E c \in Chains : events[c].pending

\* A busy queue has a pending event that it knows.  Hosts rely on this:
\* SnsHost::schedule_host_proc_evt reads queue_proc_event->time when busy.
BusyHasEvent ==
    busy => /\ queue_proc_event # NULL
            /\ events[queue_proc_event].pending

\* Packets of a class leave in the order they came, also the SIMs, which pass
\* through two buffers.
ClassOrder == PacketsSorted /\ DepartedFirst /\ SimsBehind

\* When no more packets come, every one in the queue is transmitted or dropped.
Drains == <>[](packets = << >> /\ sim_packets = << >>)

\* The link transmits one packet at a time (README.md:91, "Link bandwidth").
OneTransmission ==
    \A c, d \in Chains : /\ events[c].pending /\ events[c].tx /\ events[c].due > 0
                         /\ events[d].pending /\ events[d].tx /\ events[d].due > 0
                         => c = d

\* SIMs have buffers of their own: DATA never pushes out a SIM that has its
\* token (docs/report.md:43, "dedicated buffers").
SimsHaveOwnBuffer ==
    [][Len(sim_packets') < Len(sim_packets) => Len(packets') > Len(packets)]_vars

-----------------------------------------------------------------------------
(* The inductive invariants behind the safety properties.                  *)

\* Either every waiting SIM has an event, or there is one token, just filled,
\* and an event to spend it.
TokensCovered ==
    free_tokens >= 1 =>
        \/ Len(sim_packets) <= sns_events
        \/ free_tokens = 1 /\ sns_events >= 1 /\ fill = FillTicks

KnownEvent == queue_proc_event # NULL => events[queue_proc_event].pending

QueueInv == TypeOK /\ TokensCovered /\ KnownEvent /\ BusyHasEvent /\ PacketsServed

\* Every serial number was given to an arrival.
SerialsGiven ==
    /\ \A i \in 1 .. Len(packets) : packets[i].serial <= arrivals
    /\ \A j \in 1 .. Len(sim_packets) : sim_packets[j].serial <= arrivals

\* The SIMs that wait for a token are sorted, after the last one transmitted.
SimsSorted ==
    /\ \A j \in 1 .. Len(sim_packets) : /\ sim_packets[j].kind = "SIM"
                                        /\ departed["SIM"] < sim_packets[j].serial
    /\ \A i, j \in 1 .. Len(sim_packets) :
          i < j => sim_packets[i].serial < sim_packets[j].serial

OrderInv == /\ TypeOK /\ SerialsGiven /\ SimsSorted
            /\ PacketsSorted /\ DepartedFirst /\ SimsBehind
            /\ \A k \in Kinds : departed[k] <= arrivals
=============================================================================
