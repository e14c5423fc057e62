--------------------------- MODULE SnsQueueProofs ---------------------------
(***************************************************************************)
(* Proofs about SnsQueue for every size, rate, capacity and pattern of     *)
(* arrivals.                                                               *)
(*                                                                         *)
(* QueueInv carries TokensNeverIdle, PacketsServed and BusyHasEvent.  That *)
(* a token never waits beside a SIM rests on TokensCovered: a SIM brings   *)
(* its own event, and the event of a fill is spent before the clock can    *)
(* reach the next fill, so the second token never finds an uncovered SIM.  *)
(*                                                                         *)
(* OrderInv carries ClassOrder: serial numbers grow from departed over     *)
(* packets and sim_packets to arrivals, class by class.                    *)
(***************************************************************************)
EXTENDS SnsQueue, SequencesExt, SequenceTheorems, TLAPS

-----------------------------------------------------------------------------
(* Sequences *)

\* What is left of a sequence without its i-th element.
LEMMA RemoveAtProperties ==
    ASSUME NEW S, NEW s \in Seq(S), NEW i \in 1 .. Len(s)
    PROVE  /\ RemoveAt(s, i) \in Seq(S)
           /\ Len(RemoveAt(s, i)) = Len(s) - 1
           /\ \A k \in 1 .. Len(s) - 1 :
                RemoveAt(s, i)[k] = IF k < i THEN s[k] ELSE s[k + 1]
<1> DEFINE front == SubSeq(s, 1, i - 1)
           back  == SubSeq(s, i + 1, Len(s))
<1>1. Len(s) \in Nat /\ \A k \in 1 .. Len(s) : s[k] \in S
    BY LenProperties, ElementOfSeq
<1>2. /\ front \in Seq(S) /\ Len(front) = i - 1
      /\ \A k \in 1 .. i - 1 : front[k] = s[k]
    <2>1. \A k \in 1 .. i - 1 : s[k] \in S
        BY <1>1
    <2>2. 1 \in Int /\ i - 1 \in Int
        BY <1>1
    <2>3. /\ front \in Seq(S)
          /\ Len(front) = IF 1 <= i - 1 THEN (i - 1) - 1 + 1 ELSE 0
          /\ \A k \in 1 .. (i - 1) - 1 + 1 : front[k] = s[1 + k - 1]
        BY <2>1, <2>2, SubSeqProperties
    <2>4. QED
        BY <1>1, <2>3
<1>3. /\ back \in Seq(S) /\ Len(back) = Len(s) - i
      /\ \A k \in 1 .. Len(s) - i : back[k] = s[i + k]
    <2>1. \A k \in i + 1 .. Len(s) : s[k] \in S
        BY <1>1
    <2>2. i + 1 \in Int /\ Len(s) \in Int
        BY <1>1
    <2>3. /\ back \in Seq(S)
          /\ Len(back) = IF i + 1 <= Len(s) THEN Len(s) - (i + 1) + 1 ELSE 0
          /\ \A k \in 1 .. Len(s) - (i + 1) + 1 : back[k] = s[(i + 1) + k - 1]
        BY <2>1, <2>2, SubSeqProperties
    <2>4. QED
        BY <1>1, <2>3
<1>4. RemoveAt(s, i) = front \o back
    BY DEF RemoveAt
<1>5. /\ front \o back \in Seq(S)
      /\ Len(front \o back) = Len(front) + Len(back)
      /\ \A k \in 1 .. Len(front) + Len(back) :
            (front \o back)[k] = IF k <= Len(front) THEN front[k]
                                 ELSE back[k - Len(front)]
    BY <1>2, <1>3, ConcatProperties
<1> HIDE DEF front, back
<1>6. Len(front) + Len(back) = Len(s) - 1
    BY <1>1, <1>2, <1>3
<1>7. ASSUME NEW k \in 1 .. Len(s) - 1
      PROVE  (front \o back)[k] = IF k < i THEN s[k] ELSE s[k + 1]
    <2>1. CASE k < i
        BY <1>1, <1>2, <1>5, <1>6, <2>1
    <2>2. CASE ~(k < i)
        <3>1. k - (i - 1) \in 1 .. Len(s) - i /\ ~(k <= Len(front))
            BY <1>1, <1>2, <2>2
        <3>2. (front \o back)[k] = back[k - (i - 1)]
            BY <1>2, <1>5, <1>6, <3>1
        <3>3. back[k - (i - 1)] = s[i + (k - (i - 1))]
            BY <1>3, <3>1
        <3>4. i + (k - (i - 1)) = k + 1
            BY <1>1
        <3>5. QED
            BY <2>2, <3>2, <3>3, <3>4
    <2>3. QED
        BY <2>1, <2>2
<1>8. QED
    BY <1>4, <1>5, <1>6, <1>7

-----------------------------------------------------------------------------
(* The two buffers *)

\* Enque appends the packet or changes nothing.
LEMMA EnqueCases ==
    ASSUME packets \in Seq(Packet), NEW p \in Packet, Enque(p)
    PROVE  /\ packets' \in Seq(Packet)
           /\ \/ packets' = packets
              \/ packets' = Append(packets, p)
BY AppendProperties DEF Enque

-----------------------------------------------------------------------------
(* Posting an event *)

\* Posting leaves the queue with the new event, and no event is lost.
LEMMA PostKeeps ==
    ASSUME events \in [Chains -> EventType], NEW ticks \in Nat, PostQueueEvent(ticks)
    PROVE  /\ events' \in [Chains -> EventType]
           /\ queue_proc_event' \in Chains /\ queue_proc_event' # NULL
           /\ events'[queue_proc_event'].pending
<1>1. PICK c \in Chains :
        /\ events' = [events EXCEPT ![c] = [pending |-> TRUE, due |-> ticks, tx |-> FALSE]]
        /\ queue_proc_event' = c
    BY DEF PostQueueEvent
<1>2. [pending |-> TRUE, due |-> ticks, tx |-> FALSE] \in EventType
    BY DEF EventType
<1>3. c # NULL
    BY BoundsAssumption DEF NULL
<1>4. QED
    BY <1>1, <1>2, <1>3

-----------------------------------------------------------------------------
(* QueueInv *)

LEMMA InitQueue == Init => QueueInv
<1> SUFFICES ASSUME Init PROVE QueueInv
    OBVIOUS
<1>1. << >> \in Seq(Packet) /\ NoEvent \in EventType
    BY EmptySeq DEF NoEvent, EventType
<1>2. TypeOK
    <2>1. packets \in Seq(Packet) /\ sim_packets \in Seq(Packet)
        BY <1>1 DEF Init
    <2>2. events \in [Chains -> EventType] /\ departed \in [Kinds -> Nat]
        BY <1>1 DEF Init
    <2>3. free_tokens \in 0 .. 2 /\ fill \in 0 .. FillTicks /\ sns_events \in Nat
          /\ arrivals \in Nat
        BY SizesAssumption DEF Init
    <2>4. token_bucket_run \in BOOLEAN /\ busy \in BOOLEAN
          /\ queue_proc_event \in Chains \cup {NULL}
        BY DEF Init
    <2>5. QED
        BY <2>1, <2>2, <2>3, <2>4 DEF TypeOK
<1>3. QED
    BY <1>2 DEF Init, QueueInv, TokensCovered, KnownEvent, BusyHasEvent, PacketsServed

LEMMA ArrivePacketKeeps ==
    ASSUME QueueInv, NEW kind \in Kinds, ArrivePacket(kind)
    PROVE  QueueInv'
<1> DEFINE p == [kind |-> kind, serial |-> arrivals + 1]
<1>1. TypeOK /\ TokensCovered /\ KnownEvent /\ BusyHasEvent /\ PacketsServed
    BY DEF QueueInv
<1>2. /\ arrivals' = arrivals + 1 /\ busy' = TRUE /\ token_bucket_run' = TRUE
      /\ free_tokens' = free_tokens /\ fill' = fill /\ departed' = departed
      /\ SnsEnque(p)
    BY DEF ArrivePacket
<1>3. p \in Packet
    BY <1>1 DEF TypeOK, Packet
<1>4. /\ events' \in [Chains -> EventType]
      /\ queue_proc_event' \in Chains \cup {NULL}
      /\ queue_proc_event' # NULL /\ events'[queue_proc_event'].pending
    <2>1. CASE busy /\ UNCHANGED << events, queue_proc_event >>
        BY <1>1, <2>1 DEF TypeOK, BusyHasEvent
    <2>2. CASE PostQueueEvent(0)
        BY <1>1, <2>2, PostKeeps DEF TypeOK
    <2>3. QED
        BY <2>1, <2>2 DEF ArrivePacket
<1> HIDE DEF p
<1>5. /\ packets' \in Seq(Packet) /\ sim_packets' \in Seq(Packet)
      /\ sns_events' \in Nat /\ TokensCovered'
    <2>1. CASE p.kind # "SIM"
        <3>1. Enque(p) /\ UNCHANGED << sim_packets, sns_events >>
            BY <1>2, <2>1 DEF SnsEnque
        <3>2. QED
            BY <1>1, <1>2, <1>3, <3>1, EnqueCases DEF TypeOK, TokensCovered
    <2>2. CASE p.kind = "SIM"
        <3>1. /\ packets' = packets
              /\ \/ sim_packets' = Append(sim_packets, p) /\ sns_events' = sns_events + 1
                 \/ sim_packets' = sim_packets /\ sns_events' = sns_events
            BY <1>2, <2>2 DEF SnsEnque
        <3>2. CASE sim_packets' = sim_packets /\ sns_events' = sns_events
            BY <1>1, <1>2, <3>1, <3>2 DEF TypeOK, TokensCovered
        <3>3. CASE sim_packets' = Append(sim_packets, p) /\ sns_events' = sns_events + 1
            <4>1. sim_packets' \in Seq(Packet) /\ Len(sim_packets') = Len(sim_packets) + 1
                BY <1>1, <1>3, <3>3, AppendProperties DEF TypeOK
            <4>2. Len(sim_packets) \in Nat
                BY <1>1, LenProperties DEF TypeOK
            <4>3. QED
                BY <1>1, <1>2, <3>1, <3>3, <4>1, <4>2 DEF TypeOK, TokensCovered
        <3>4. QED
            BY <3>1, <3>2, <3>3
    <2>3. QED
        BY <2>1, <2>2
<1>6. TypeOK'
    BY <1>1, <1>2, <1>4, <1>5 DEF TypeOK
<1>7. KnownEvent' /\ BusyHasEvent' /\ PacketsServed'
    BY <1>4 DEF KnownEvent, BusyHasEvent, PacketsServed
<1>8. QED
    BY <1>5, <1>6, <1>7 DEF QueueInv

LEMMA ProcessQueueKeeps ==
    ASSUME QueueInv, NEW c \in Chains, ProcessQueue(c)
    PROVE  QueueInv'
<1>1. TypeOK /\ TokensCovered
    BY DEF QueueInv
<1>2. UNCHANGED << sim_packets, free_tokens, token_bucket_run, fill, sns_events, arrivals >>
    BY DEF ProcessQueue, bucket
<1>3. TokensCovered'
    BY <1>1, <1>2 DEF TokensCovered
<1>4. CASE packets = << >> /\ events' = [events EXCEPT ![c] = NoEvent] /\ Stop
           /\ UNCHANGED << packets, departed >>
    <2>1. NoEvent \in EventType
        BY DEF NoEvent, EventType
    <2>2. queue_proc_event' = NULL /\ busy' = FALSE /\ packets' = << >>
        BY <1>4 DEF Stop
    <2>3. TypeOK'
        BY <1>1, <1>2, <1>4, <2>1, <2>2 DEF TypeOK
    <2>4. QED
        BY <1>3, <2>2, <2>3 DEF QueueInv, KnownEvent, BusyHasEvent, PacketsServed
<1>5. CASE /\ \E i \in 1 .. Len(packets) :
                /\ packets' = RemoveAt(packets, i)
                /\ departed' = [departed EXCEPT ![packets[i].kind] = packets[i].serial]
                /\ events' = [events EXCEPT ![c] =
                        [pending |-> TRUE, due |-> Ticks(packets[i]), tx |-> TRUE]]
           /\ queue_proc_event' = c
           /\ busy' = TRUE
    <2>1. PICK i \in 1 .. Len(packets) :
            /\ packets' = RemoveAt(packets, i)
            /\ departed' = [departed EXCEPT ![packets[i].kind] = packets[i].serial]
            /\ events' = [events EXCEPT ![c] =
                    [pending |-> TRUE, due |-> Ticks(packets[i]), tx |-> TRUE]]
        BY <1>5
    <2>2. packets[i] \in Packet
        BY <1>1, ElementOfSeq DEF TypeOK
    <2>3. [pending |-> TRUE, due |-> Ticks(packets[i]), tx |-> TRUE] \in EventType
        BY SizesAssumption DEF EventType, Ticks
    <2>4. packets' \in Seq(Packet)
        BY <1>1, <2>1, RemoveAtProperties DEF TypeOK
    <2>5. departed' \in [Kinds -> Nat]
        BY <1>1, <2>1, <2>2 DEF TypeOK, Packet
    <2>6. events' \in [Chains -> EventType] /\ events'[c].pending
        BY <1>1, <2>1, <2>3 DEF TypeOK
    <2>7. c # NULL
        BY BoundsAssumption DEF NULL
    <2>8. TypeOK'
        BY <1>1, <1>2, <1>5, <2>4, <2>5, <2>6 DEF TypeOK
    <2>9. QED
        BY <1>3, <1>5, <2>6, <2>7, <2>8
        DEF QueueInv, KnownEvent, BusyHasEvent, PacketsServed
<1>6. QED
    BY <1>4, <1>5 DEF ProcessQueue

LEMMA ProcessSnsKeeps == QueueInv /\ ProcessSns => QueueInv'
<1> SUFFICES ASSUME QueueInv, ProcessSns PROVE QueueInv'
    OBVIOUS
<1>1. TypeOK /\ TokensCovered /\ KnownEvent /\ BusyHasEvent /\ PacketsServed
    BY DEF QueueInv
<1>2. /\ sns_events > 0 /\ sns_events' = sns_events - 1
      /\ UNCHANGED << token_bucket_run, fill, busy, arrivals, departed >>
    BY DEF ProcessSns
<1>3. sns_events' \in Nat /\ Len(sim_packets) \in Nat
    BY <1>1, <1>2, LenProperties DEF TypeOK
<1>4. CASE /\ free_tokens < 1 \/ sim_packets = << >>
           /\ UNCHANGED << packets, sim_packets, free_tokens, events, queue_proc_event >>
    <2>1. TypeOK'
        BY <1>1, <1>2, <1>3, <1>4 DEF TypeOK
    <2>2. TokensCovered'
        <3>1. CASE free_tokens < 1
            BY <1>1, <1>4, <3>1 DEF TypeOK, TokensCovered
        <3>2. CASE sim_packets = << >>
            BY <1>3, <1>4, <3>2, EmptySeq DEF TokensCovered
        <3>3. QED
            BY <1>4, <3>1, <3>2
    <2>3. QED
        BY <1>1, <1>2, <1>4, <2>1, <2>2 DEF QueueInv, KnownEvent, BusyHasEvent, PacketsServed
<1>5. CASE /\ free_tokens >= 1 /\ sim_packets # << >>
           /\ free_tokens' = free_tokens - 1
           /\ sim_packets' = Tail(sim_packets)
           /\ Enque(Head(sim_packets))
           /\ Restart(Ticks(Head(sim_packets)))
    <2>1. /\ Head(sim_packets) \in Packet /\ sim_packets' \in Seq(Packet)
          /\ Len(sim_packets') = Len(sim_packets) - 1
        BY <1>1, <1>5, HeadTailProperties DEF TypeOK
    <2>2. packets' \in Seq(Packet)
        BY <1>1, <1>5, <2>1, EnqueCases DEF TypeOK
    <2>3. Ticks(Head(sim_packets)) \in Nat
        BY SizesAssumption DEF Ticks
    <2>4. /\ events' \in [Chains -> EventType]
          /\ queue_proc_event' \in Chains \cup {NULL}
          /\ queue_proc_event' # NULL /\ events'[queue_proc_event'].pending
        <3>1. CASE queue_proc_event # NULL /\ UNCHANGED << events, queue_proc_event >>
            BY <1>1, <3>1 DEF TypeOK, KnownEvent
        <3>2. CASE PostQueueEvent(Ticks(Head(sim_packets)))
            BY <1>1, <2>3, <3>2, PostKeeps DEF TypeOK
        <3>3. QED
            BY <1>5, <3>1, <3>2 DEF Restart
    <2>5. TypeOK'
        BY <1>1, <1>2, <1>3, <1>5, <2>1, <2>2, <2>4 DEF TypeOK
    <2>6. TokensCovered'
        BY <1>1, <1>2, <1>3, <1>5, <2>1 DEF TypeOK, TokensCovered
    <2>7. KnownEvent' /\ BusyHasEvent' /\ PacketsServed'
        BY <2>4 DEF KnownEvent, BusyHasEvent, PacketsServed
    <2>8. QED
        BY <2>5, <2>6, <2>7 DEF QueueInv
<1>6. QED
    BY <1>4, <1>5 DEF ProcessSns

LEMMA FillTokenBucketKeeps == QueueInv /\ FillTokenBucket => QueueInv'
<1> SUFFICES ASSUME QueueInv, FillTokenBucket PROVE QueueInv'
    OBVIOUS
<1>1. TypeOK /\ TokensCovered /\ KnownEvent /\ BusyHasEvent /\ PacketsServed
    BY DEF QueueInv
<1>2. /\ fill = 0 /\ fill' = FillTicks
      /\ free_tokens' = Filled(free_tokens)
      /\ sns_events' = IF Wakes(free_tokens') THEN sns_events + 1 ELSE sns_events
      /\ UNCHANGED << packets, sim_packets, token_bucket_run, events,
                      queue_proc_event, busy, departed, arrivals >>
    BY DEF FillTokenBucket, link
<1>3. free_tokens \in 0 .. 2 /\ sns_events \in Nat /\ Len(sim_packets) \in Nat
    BY <1>1, LenProperties DEF TypeOK
<1>4. free_tokens' \in 0 .. 2 /\ sns_events' \in Nat /\ fill' \in 0 .. FillTicks
    BY <1>2, <1>3, SizesAssumption DEF Filled
<1>5. TypeOK'
    BY <1>1, <1>2, <1>4 DEF TypeOK
<1>6. TokensCovered'
    <2>1. CASE free_tokens = 0
        BY <1>2, <1>3, <2>1 DEF TokensCovered, Filled, Wakes
    <2>2. CASE free_tokens >= 1
        <3>1. Len(sim_packets) <= sns_events
            BY <1>1, <1>2, <2>2, SizesAssumption DEF TokensCovered
        <3>2. sns_events' >= sns_events
            BY <1>2, <1>3
        <3>3. QED
            BY <1>2, <1>3, <1>4, <3>1, <3>2 DEF TokensCovered
    <2>3. QED
        BY <1>3, <2>1, <2>2
<1>7. QED
    BY <1>1, <1>2, <1>5, <1>6 DEF QueueInv, KnownEvent, BusyHasEvent, PacketsServed

LEMMA TickKeeps == QueueInv /\ Tick => QueueInv'
<1> SUFFICES ASSUME QueueInv, Tick PROVE QueueInv'
    OBVIOUS
<1>1. TypeOK /\ TokensCovered /\ KnownEvent /\ BusyHasEvent /\ PacketsServed
    BY DEF QueueInv
<1>2. /\ \A c \in Chains : events[c].pending => events[c].due # 0
      /\ sns_events = 0 /\ (token_bucket_run => fill > 0)
      /\ events' = [c \in Chains |-> IF events[c].pending
                                     THEN [events[c] EXCEPT !.due = @ - 1]
                                     ELSE events[c]]
      /\ fill' = IF token_bucket_run THEN fill - 1 ELSE fill
      /\ UNCHANGED << packets, sim_packets, free_tokens, token_bucket_run,
                      sns_events, queue_proc_event, busy, arrivals, departed >>
    BY DEF Tick, QueueEventDue
<1>3. \A c \in Chains : /\ events'[c] \in EventType
                        /\ events'[c].pending = events[c].pending
    <2>1. ASSUME NEW c \in Chains
          PROVE  events'[c] \in EventType /\ events'[c].pending = events[c].pending
        <3>1. events[c] \in EventType
            BY <1>1 DEF TypeOK
        <3>2. CASE events[c].pending
            <4>1. events[c].due - 1 \in Nat
                BY <1>2, <3>1, <3>2 DEF EventType
            <4>2. events'[c] = [events[c] EXCEPT !.due = @ - 1]
                BY <1>2, <3>2
            <4>3. QED
                BY <3>1, <4>1, <4>2 DEF EventType
        <3>3. CASE ~events[c].pending
            BY <1>2, <3>1, <3>3
        <3>4. QED
            BY <3>2, <3>3
    <2>2. QED
        BY <2>1
<1>4. events' \in [Chains -> EventType]
    BY <1>2, <1>3
<1>5. fill' \in 0 .. FillTicks
    BY <1>1, <1>2, SizesAssumption DEF TypeOK
<1>6. TypeOK'
    BY <1>1, <1>2, <1>4, <1>5 DEF TypeOK
<1>7. TokensCovered'
    BY <1>1, <1>2 DEF TokensCovered
<1>8. KnownEvent' /\ BusyHasEvent' /\ PacketsServed'
    BY <1>1, <1>2, <1>3 DEF TypeOK, KnownEvent, BusyHasEvent, PacketsServed
<1>9. QED
    BY <1>6, <1>7, <1>8 DEF QueueInv

LEMMA NextKeeps == QueueInv /\ [Next]_vars => QueueInv'
<1> SUFFICES ASSUME QueueInv, [Next]_vars PROVE QueueInv'
    OBVIOUS
<1>1. ASSUME NEW kind \in Kinds, ArrivePacket(kind) PROVE QueueInv'
    BY <1>1, ArrivePacketKeeps
<1>2. ASSUME NEW c \in Chains, ProcessQueue(c) PROVE QueueInv'
    BY <1>2, ProcessQueueKeeps
<1>3. CASE ProcessSns
    BY <1>3, ProcessSnsKeeps
<1>4. CASE FillTokenBucket
    BY <1>4, FillTokenBucketKeeps
<1>5. CASE Tick
    BY <1>5, TickKeeps
<1>6. CASE UNCHANGED vars
    BY <1>6 DEF vars, QueueInv, TypeOK, TokensCovered, KnownEvent, BusyHasEvent,
                PacketsServed
<1>7. QED
    BY <1>1, <1>2, <1>3, <1>4, <1>5, <1>6 DEF Next

-----------------------------------------------------------------------------
(* OrderInv *)

\* A packet younger than all of its class joins packets at the end.
LEMMA AppendKeepsOrder ==
    ASSUME packets \in Seq(Packet), NEW p \in Packet, departed \in [Kinds -> Nat],
           PacketsSorted, DepartedFirst, UNCHANGED departed,
           \A i \in 1 .. Len(packets) :
                packets[i].kind = p.kind => packets[i].serial < p.serial,
           departed[p.kind] < p.serial,
           packets' = packets \/ packets' = Append(packets, p)
    PROVE  PacketsSorted' /\ DepartedFirst'
<1>1. CASE packets' = packets
    BY <1>1 DEF PacketsSorted, DepartedFirst
<1>2. CASE packets' = Append(packets, p)
    <2>1. /\ Len(packets') = Len(packets) + 1 /\ Len(packets) \in Nat
          /\ \A i \in 1 .. Len(packets) : packets'[i] = packets[i]
          /\ packets'[Len(packets) + 1] = p
        BY <1>2, AppendProperties, LenProperties
    <2>2. \A i \in 1 .. Len(packets') : i \in 1 .. Len(packets) \/ i = Len(packets) + 1
        BY <2>1
    <2>3. PacketsSorted'
        <3>1. ASSUME NEW i \in 1 .. Len(packets'), NEW j \in 1 .. Len(packets'), i < j,
                     packets'[i].kind = packets'[j].kind
              PROVE  packets'[i].serial < packets'[j].serial
            <4>1. i \in 1 .. Len(packets) /\ packets'[i] = packets[i]
                BY <2>1, <2>2, <3>1
            <4>2. CASE j \in 1 .. Len(packets)
                BY <2>1, <3>1, <4>1, <4>2 DEF PacketsSorted
            <4>3. CASE j = Len(packets) + 1
                BY <2>1, <3>1, <4>1, <4>3
            <4>4. QED
                BY <2>2, <4>2, <4>3
        <3>2. QED
            BY <3>1 DEF PacketsSorted
    <2>4. DepartedFirst'
        BY <2>1, <2>2 DEF DepartedFirst
    <2>5. QED
        BY <2>3, <2>4
<1>3. QED
    BY <1>1, <1>2

LEMMA InitOrder == Init => OrderInv
<1> SUFFICES ASSUME Init PROVE OrderInv
    OBVIOUS
<1>1. TypeOK
    BY InitQueue DEF QueueInv
<1>2. Len(packets) = 0 /\ Len(sim_packets) = 0
    BY EmptySeq DEF Init
<1>3. \A k \in Kinds : departed[k] <= arrivals
    BY DEF Init
<1>4. QED
    BY <1>1, <1>2, <1>3 DEF OrderInv, SerialsGiven, SimsSorted, PacketsSorted,
                            DepartedFirst, SimsBehind

LEMMA ArrivePacketOrdered ==
    ASSUME OrderInv, TypeOK', NEW kind \in Kinds, ArrivePacket(kind)
    PROVE  OrderInv'
<1> DEFINE p == [kind |-> kind, serial |-> arrivals + 1]
<1>1. /\ TypeOK /\ SerialsGiven /\ SimsSorted /\ PacketsSorted /\ DepartedFirst
      /\ SimsBehind /\ \A k \in Kinds : departed[k] <= arrivals
    BY DEF OrderInv
<1>2. arrivals' = arrivals + 1 /\ departed' = departed /\ SnsEnque(p)
    BY DEF ArrivePacket
<1>3. /\ packets \in Seq(Packet) /\ sim_packets \in Seq(Packet)
      /\ departed \in [Kinds -> Nat] /\ arrivals \in Nat
    BY <1>1 DEF TypeOK
<1>4. p \in Packet /\ p.kind \in Kinds /\ p.serial = arrivals + 1
    BY <1>3 DEF Packet
<1> HIDE DEF p
<1>5. \A i \in 1 .. Len(packets) : packets[i].serial \in Nat /\ packets[i].serial < p.serial
    <2>1. \A i \in 1 .. Len(packets) : packets[i] \in Packet
        BY <1>3, ElementOfSeq
    <2>2. \A i \in 1 .. Len(packets) : packets[i].serial \in Nat
        BY <2>1 DEF Packet
    <2>3. QED
        BY <1>1, <1>3, <1>4, <2>1, <2>2 DEF SerialsGiven
<1>6. \A j \in 1 .. Len(sim_packets) :
            sim_packets[j].serial \in Nat /\ sim_packets[j].serial < p.serial
    <2>1. \A j \in 1 .. Len(sim_packets) : sim_packets[j] \in Packet
        BY <1>3, ElementOfSeq
    <2>2. \A j \in 1 .. Len(sim_packets) : sim_packets[j].serial \in Nat
        BY <2>1 DEF Packet
    <2>3. QED
        BY <1>1, <1>3, <1>4, <2>1, <2>2 DEF SerialsGiven
<1>7. \A k \in Kinds : departed[k] < p.serial /\ departed'[k] <= arrivals'
    BY <1>1, <1>2, <1>3, <1>4
<1>8. CASE p.kind # "SIM"
    <2>1. Enque(p) /\ UNCHANGED sim_packets
        BY <1>2, <1>8 DEF SnsEnque
    <2>2. packets' = packets \/ packets' = Append(packets, p)
        BY <1>3, <1>4, <2>1, EnqueCases
    <2>3. PacketsSorted' /\ DepartedFirst'
        BY <1>1, <1>2, <1>3, <1>4, <1>5, <1>7, <2>2, AppendKeepsOrder
    <2>4. \A i \in 1 .. Len(packets') :
             \/ packets'[i] = p
             \/ i \in 1 .. Len(packets) /\ packets'[i] = packets[i]
        BY <1>3, <1>4, <2>2, AppendProperties, LenProperties
    <2>5. SerialsGiven'
        <3>1. \A i \in 1 .. Len(packets') : packets'[i].serial <= arrivals'
            BY <1>2, <1>3, <1>4, <1>5, <2>4
        <3>2. \A j \in 1 .. Len(sim_packets') : sim_packets'[j].serial <= arrivals'
            BY <1>2, <1>3, <1>4, <1>6, <2>1
        <3>3. QED
            BY <3>1, <3>2 DEF SerialsGiven
    <2>6. SimsSorted'
        BY <1>1, <1>2, <2>1 DEF SimsSorted
    <2>7. SimsBehind'
        BY <1>1, <1>8, <2>1, <2>4 DEF SimsBehind
    <2>8. QED
        BY <1>7, <2>3, <2>5, <2>6, <2>7 DEF OrderInv
<1>9. CASE p.kind = "SIM"
    <2>1. packets' = packets
          /\ (sim_packets' = sim_packets \/ sim_packets' = Append(sim_packets, p))
        BY <1>2, <1>9 DEF SnsEnque
    <2>2. \A j \in 1 .. Len(sim_packets') :
             \/ j = Len(sim_packets) + 1 /\ sim_packets'[j] = p
             \/ j \in 1 .. Len(sim_packets) /\ sim_packets'[j] = sim_packets[j]
        <3>1. Len(sim_packets) \in Nat
            BY <1>3, LenProperties
        <3>2. CASE sim_packets' = sim_packets
            BY <3>2
        <3>3. CASE sim_packets' = Append(sim_packets, p)
            <4>1. /\ Len(sim_packets') = Len(sim_packets) + 1
                  /\ \A j \in 1 .. Len(sim_packets) : sim_packets'[j] = sim_packets[j]
                  /\ sim_packets'[Len(sim_packets) + 1] = p
                BY <1>3, <1>4, <3>3, AppendProperties
            <4>2. QED
                BY <3>1, <4>1
        <3>4. QED
            BY <2>1, <3>2, <3>3
    <2>3. Len(sim_packets) \in Nat
        BY <1>3, LenProperties
    <2>4. PacketsSorted' /\ DepartedFirst'
        BY <1>1, <1>2, <2>1 DEF PacketsSorted, DepartedFirst
    <2>5. SerialsGiven'
        <3>1. \A i \in 1 .. Len(packets') : packets'[i].serial <= arrivals'
            BY <1>2, <1>3, <1>4, <1>5, <2>1
        <3>2. \A j \in 1 .. Len(sim_packets') : sim_packets'[j].serial <= arrivals'
            BY <1>2, <1>3, <1>4, <1>6, <2>2
        <3>3. QED
            BY <3>1, <3>2 DEF SerialsGiven
    <2>6. SimsBehind'
        BY <1>1, <1>5, <2>1, <2>2 DEF SimsBehind
    <2>7. SimsSorted'
        <3>1. \A j \in 1 .. Len(sim_packets') :
                 sim_packets'[j].kind = "SIM" /\ departed'["SIM"] < sim_packets'[j].serial
            BY <1>1, <1>2, <1>4, <1>7, <1>9, <2>2 DEF SimsSorted
        <3>2. ASSUME NEW i \in 1 .. Len(sim_packets'), NEW j \in 1 .. Len(sim_packets'), i < j
              PROVE  sim_packets'[i].serial < sim_packets'[j].serial
            <4>1. i \in 1 .. Len(sim_packets) /\ sim_packets'[i] = sim_packets[i]
                BY <2>2, <2>3, <3>2
            <4>2. CASE j = Len(sim_packets) + 1 /\ sim_packets'[j] = p
                BY <1>6, <4>1, <4>2
            <4>3. CASE j \in 1 .. Len(sim_packets) /\ sim_packets'[j] = sim_packets[j]
                BY <1>1, <3>2, <4>1, <4>3 DEF SimsSorted
            <4>4. QED
                BY <2>2, <4>2, <4>3
        <3>3. QED
            BY <3>1, <3>2 DEF SimsSorted
    <2>8. QED
        BY <1>7, <2>4, <2>5, <2>6, <2>7 DEF OrderInv
<1>10. QED
    BY <1>8, <1>9

LEMMA ProcessQueueOrdered ==
    ASSUME OrderInv, TypeOK', NEW c \in Chains, ProcessQueue(c)
    PROVE  OrderInv'
<1>1. /\ TypeOK /\ SerialsGiven /\ SimsSorted /\ PacketsSorted /\ DepartedFirst
      /\ SimsBehind /\ \A k \in Kinds : departed[k] <= arrivals
    BY DEF OrderInv
<1>2. sim_packets' = sim_packets /\ arrivals' = arrivals
    BY DEF ProcessQueue
<1>3. CASE UNCHANGED << packets, departed >>
    BY <1>1, <1>2, <1>3 DEF OrderInv, SerialsGiven, SimsSorted, PacketsSorted,
                            DepartedFirst, SimsBehind
<1>4. ASSUME NEW i \in 1 .. Len(packets), IsNext(i), packets' = RemoveAt(packets, i),
             departed' = [departed EXCEPT ![packets[i].kind] = packets[i].serial]
      PROVE  OrderInv'
    <2>1. packets \in Seq(Packet) /\ departed \in [Kinds -> Nat] /\ Len(packets) \in Nat
        BY <1>1, LenProperties DEF TypeOK
    <2>2. \A j \in 1 .. Len(packets) : /\ packets[j] \in Packet
                                       /\ packets[j].kind \in Kinds
                                       /\ packets[j].serial \in Nat
        <3>1. \A j \in 1 .. Len(packets) : packets[j] \in Packet
            BY <2>1, ElementOfSeq
        <3>2. QED
            BY <3>1 DEF Packet
    <2>3. \A j \in 1 .. Len(packets) : packets[j].kind = packets[i].kind => i <= j
        BY <1>4, <2>2 DEF IsNext, Rank, Kinds
    <2>4. /\ Len(packets') = Len(packets) - 1
          /\ \A k \in 1 .. Len(packets) - 1 :
                packets'[k] = IF k < i THEN packets[k] ELSE packets[k + 1]
        BY <1>4, <2>1, RemoveAtProperties
    <2> DEFINE At(k) == IF k < i THEN k ELSE k + 1
    <2>5. \A k \in 1 .. Len(packets') :
            At(k) \in 1 .. Len(packets) /\ At(k) # i /\ packets'[k] = packets[At(k)]
        BY <2>1, <2>4
    <2>6. \A k, l \in 1 .. Len(packets') : k < l => At(k) < At(l)
        BY <2>1, <2>4
    <2> HIDE DEF At
    <2>7. PacketsSorted'
        BY <1>1, <2>5, <2>6 DEF PacketsSorted
    <2>8. DepartedFirst'
        <3>1. ASSUME NEW k \in 1 .. Len(packets')
              PROVE  departed'[packets'[k].kind] < packets'[k].serial
            <4>1. CASE packets'[k].kind = packets[i].kind
                <5>1. i < At(k)
                    BY <2>3, <2>5, <4>1
                <5>2. packets[i].serial < packets[At(k)].serial
                    BY <1>1, <2>5, <4>1, <5>1 DEF PacketsSorted
                <5>3. departed'[packets'[k].kind] = packets[i].serial
                    BY <1>4, <2>1, <2>2, <4>1
                <5>4. QED
                    BY <2>5, <5>2, <5>3
            <4>2. CASE packets'[k].kind # packets[i].kind
                <5>1. departed'[packets'[k].kind] = departed[packets'[k].kind]
                    BY <1>4, <2>1, <2>2, <2>5, <4>2
                <5>2. QED
                    BY <1>1, <2>5, <5>1 DEF DepartedFirst
            <4>3. QED
                BY <4>1, <4>2
        <3>2. QED
            BY <3>1 DEF DepartedFirst
    <2>9. SimsBehind'
        BY <1>1, <1>2, <2>5 DEF SimsBehind
    <2>10. SerialsGiven'
        BY <1>1, <1>2, <2>5 DEF SerialsGiven
    <2>11. \A k \in Kinds : departed'[k] <= arrivals'
        BY <1>1, <1>2, <1>4, <2>1, <2>2 DEF SerialsGiven
    <2>12. SimsSorted'
        <3>1. \A j \in 1 .. Len(sim_packets) : departed'["SIM"] < sim_packets[j].serial
            <4>1. CASE packets[i].kind = "SIM"
                <5>1. departed'["SIM"] = packets[i].serial
                    BY <1>4, <2>1, <2>2, <4>1
                <5>2. QED
                    BY <1>1, <4>1, <5>1 DEF SimsBehind
            <4>2. CASE packets[i].kind # "SIM"
                <5>1. departed'["SIM"] = departed["SIM"]
                    BY <1>4, <2>1, <4>2 DEF Kinds
                <5>2. QED
                    BY <1>1, <5>1 DEF SimsSorted
            <4>3. QED
                BY <4>1, <4>2
        <3>2. QED
            BY <1>1, <1>2, <3>1 DEF SimsSorted
    <2>13. QED
        BY <2>7, <2>8, <2>9, <2>10, <2>11, <2>12 DEF OrderInv
<1>5. QED
    BY <1>3, <1>4 DEF ProcessQueue

LEMMA ProcessSnsOrdered == OrderInv /\ TypeOK' /\ ProcessSns => OrderInv'
<1> SUFFICES ASSUME OrderInv, TypeOK', ProcessSns PROVE OrderInv'
    OBVIOUS
<1>1. /\ TypeOK /\ SerialsGiven /\ SimsSorted /\ PacketsSorted /\ DepartedFirst
      /\ SimsBehind /\ \A k \in Kinds : departed[k] <= arrivals
    BY DEF OrderInv
<1>2. departed' = departed /\ arrivals' = arrivals
    BY DEF ProcessSns
<1>3. CASE UNCHANGED << packets, sim_packets >>
    BY <1>1, <1>2, <1>3 DEF OrderInv, SerialsGiven, SimsSorted, PacketsSorted,
                            DepartedFirst, SimsBehind
<1>4. CASE sim_packets # << >> /\ sim_packets' = Tail(sim_packets)
           /\ Enque(Head(sim_packets))
    <2> DEFINE p == Head(sim_packets)
    <2>1. packets \in Seq(Packet) /\ sim_packets \in Seq(Packet)
          /\ departed \in [Kinds -> Nat]
        BY <1>1 DEF TypeOK
    <2>2. /\ p \in Packet /\ Len(sim_packets') = Len(sim_packets) - 1
          /\ \A j \in 1 .. Len(sim_packets') : sim_packets'[j] = sim_packets[j + 1]
        BY <1>4, <2>1, HeadTailProperties
    <2>3. Len(sim_packets) \in Nat /\ Len(sim_packets) > 0 /\ p = sim_packets[1]
        BY <1>4, <2>1, EmptySeq, LenProperties
    <2>4. packets' = packets \/ packets' = Append(packets, p)
        BY <1>4, <2>1, <2>2, EnqueCases
    <2> HIDE DEF p
    <2>5. 1 \in 1 .. Len(sim_packets)
        BY <2>3
    <2>6. p.kind = "SIM" /\ departed["SIM"] < p.serial /\ p.serial <= arrivals
        BY <1>1, <2>3, <2>5 DEF SimsSorted, SerialsGiven
    <2>7. \A j \in 1 .. Len(sim_packets') :
             j + 1 \in 1 .. Len(sim_packets) /\ p.serial < sim_packets'[j].serial
        BY <1>1, <2>2, <2>3, <2>5 DEF SimsSorted
    <2>8. \A i \in 1 .. Len(packets) : packets[i].kind = p.kind => packets[i].serial < p.serial
        BY <1>1, <2>3, <2>5, <2>6 DEF SimsBehind
    <2>9. PacketsSorted' /\ DepartedFirst'
        BY <1>1, <1>2, <2>1, <2>2, <2>4, <2>6, <2>8, AppendKeepsOrder
    <2>10. \A i \in 1 .. Len(packets') :
             \/ packets'[i] = p
             \/ i \in 1 .. Len(packets) /\ packets'[i] = packets[i]
        BY <2>1, <2>2, <2>4, AppendProperties, LenProperties
    <2>11. SerialsGiven'
        BY <1>1, <1>2, <2>2, <2>6, <2>7, <2>10 DEF SerialsGiven
    <2>12. SimsSorted'
        <3>1. \A j \in 1 .. Len(sim_packets') : /\ sim_packets'[j].kind = "SIM"
                                                /\ departed'["SIM"] < sim_packets'[j].serial
            BY <1>1, <1>2, <2>2, <2>7 DEF SimsSorted
        <3>2. \A i, j \in 1 .. Len(sim_packets') :
                i < j => sim_packets'[i].serial < sim_packets'[j].serial
            <4>1. ASSUME NEW i \in 1 .. Len(sim_packets'), NEW j \in 1 .. Len(sim_packets'), i < j
                  PROVE  sim_packets'[i].serial < sim_packets'[j].serial
                <5>1. i + 1 \in 1 .. Len(sim_packets) /\ j + 1 \in 1 .. Len(sim_packets)
                      /\ i + 1 < j + 1
                    BY <2>7, <4>1
                <5>2. QED
                    BY <1>1, <2>2, <5>1 DEF SimsSorted
            <4>2. QED
                BY <4>1
        <3>3. QED
            BY <3>1, <3>2 DEF SimsSorted
    <2>13. SimsBehind'
        BY <1>1, <2>2, <2>7, <2>10 DEF SimsBehind
    <2>14. QED
        BY <1>1, <1>2, <2>9, <2>11, <2>12, <2>13 DEF OrderInv
<1>5. QED
    BY <1>3, <1>4 DEF ProcessSns

LEMMA NextOrdered == OrderInv /\ TypeOK' /\ [Next]_vars => OrderInv'
<1> SUFFICES ASSUME OrderInv, TypeOK', [Next]_vars PROVE OrderInv'
    OBVIOUS
<1>1. ASSUME NEW kind \in Kinds, ArrivePacket(kind) PROVE OrderInv'
    BY <1>1, ArrivePacketOrdered
<1>2. ASSUME NEW c \in Chains, ProcessQueue(c) PROVE OrderInv'
    BY <1>2, ProcessQueueOrdered
<1>3. CASE ProcessSns
    BY <1>3, ProcessSnsOrdered
<1>4. CASE FillTokenBucket \/ Tick \/ UNCHANGED vars
    <2>1. UNCHANGED << packets, sim_packets, departed, arrivals >>
        BY <1>4 DEF FillTokenBucket, Tick, vars, link
    <2>2. QED
        BY <2>1 DEF OrderInv, SerialsGiven, SimsSorted, PacketsSorted, DepartedFirst,
                    SimsBehind
<1>5. QED
    BY <1>1, <1>2, <1>3, <1>4 DEF Next

-----------------------------------------------------------------------------
(* The theorems *)

\* QueueInv holds in every state.
THEOREM QueueInvariant == Spec => []QueueInv
<1>1. Init => QueueInv
    BY InitQueue
<1>2. QueueInv /\ [Next]_vars => QueueInv'
    BY NextKeeps
<1>3. QED
    BY <1>1, <1>2, PTL DEF Spec

\* Type correctness of the buffers, the bucket and the events.
THEOREM QueueTypes == Spec => []TypeOK
<1>1. QueueInv => TypeOK
    BY DEF QueueInv
<1>2. QED
    BY <1>1, QueueInvariant, PTL

\* The token bucket is work conserving.
THEOREM BucketWorkConserving == Spec => []TokensNeverIdle
<1>1. ASSUME QueueInv, sim_packets # << >>, free_tokens >= 1 PROVE sns_events > 0
    <2>1. sim_packets \in Seq(Packet) /\ sns_events \in Nat
        BY <1>1 DEF QueueInv, TypeOK
    <2>2. Len(sim_packets) > 0 /\ Len(sim_packets) \in Nat
        BY <1>1, <2>1, EmptySeq, LenProperties
    <2>3. QED
        BY <1>1, <2>1, <2>2 DEF QueueInv, TokensCovered
<1>2. QueueInv => TokensNeverIdle
    BY <1>1 DEF TokensNeverIdle
<1>3. QED
    BY <1>2, QueueInvariant, PTL

\* No packet is stranded in a queue without a pending event.
THEOREM NoPacketStranded == Spec => []PacketsServed
<1>1. QueueInv => PacketsServed
    BY DEF QueueInv
<1>2. QED
    BY <1>1, QueueInvariant, PTL

\* A busy queue has a pending event that it knows.
THEOREM BusyIsBacked == Spec => []BusyHasEvent
<1>1. QueueInv => BusyHasEvent
    BY DEF QueueInv
<1>2. QED
    BY <1>1, QueueInvariant, PTL

\* Each class leaves the queue in the order it came.
THEOREM ClassesInOrder == Spec => []ClassOrder
<1>1. Init => OrderInv
    BY InitOrder
<1>2. OrderInv /\ TypeOK' /\ [Next]_vars => OrderInv'
    BY NextOrdered
<1>3. OrderInv => ClassOrder
    BY DEF OrderInv, ClassOrder
<1>4. QED
    BY <1>1, <1>2, <1>3, QueueTypes, PTL DEF Spec
=============================================================================
