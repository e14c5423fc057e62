--------------------------- MODULE TcpFlowProofs ---------------------------
(***************************************************************************)
(* Proofs about TcpFlow, for every size of flow, window, order of packets  *)
(* and number of losses: the type invariant, that ACKs are true, that      *)
(* completion is true and announced once, that a timer is pending while    *)
(* something is not acknowledged, and that the flow is a safe transfer.    *)
(*                                                                         *)
(* An ACK is true because recv_till is the first missing packet (TillInv)  *)
(* and received only grows, so it stays true however late it comes.  The   *)
(* timer is known because nothing is sent without one (SentHasTimer): an   *)
(* ACK for a first packet finds the timer of that packet.                  *)
(***************************************************************************)
EXTENDS TcpFlow, FiniteSetTheorems, WellFoundedInduction, TLAPS

-----------------------------------------------------------------------------
(* Sets of packets, and the first one that is missing                      *)

\* A set of packets is finite, its size is at most N and N only for all of
\* them, and one new packet makes it one larger.
LEMMA PacketSets ==
    ASSUME NEW s \in SUBSET Seqs
    PROVE  /\ IsFiniteSet(s) /\ Cardinality(s) \in 0 .. N
           /\ Cardinality(Seqs) = N
           /\ \A i \in Seqs \ s : Cardinality(s \cup {i}) = Cardinality(s) + 1
<1>1. IsFiniteSet(Seqs) /\ Cardinality(Seqs) = N
    <2>1. N \in Nat /\ 0 \in Int /\ N - 1 \in Int
        BY FlowAssumption
    <2>2. IsFiniteSet(0 .. N - 1) /\ Cardinality(0 .. N - 1) = IF 0 > N - 1 THEN 0 ELSE N - 1 - 0 + 1
        BY <2>1, FS_Interval
    <2>3. QED
        BY <2>1, <2>2, FlowAssumption DEF Seqs
<1>2. IsFiniteSet(s) /\ Cardinality(s) <= Cardinality(Seqs)
    BY <1>1, FS_Subset
<1>3. Cardinality(s) \in Nat
    BY <1>2, FS_CardinalityType
<1>4. ASSUME NEW i \in Seqs \ s PROVE Cardinality(s \cup {i}) = Cardinality(s) + 1
    BY <1>2, FS_AddElement
<1>5. QED
    BY <1>1, <1>2, <1>3, <1>4, FlowAssumption

\* A non-empty set of numbers has a least element.
LEMMA LeastNumber ==
    ASSUME NEW s \in SUBSET Nat, s # {}
    PROVE  \E i \in s : \A j \in s : i <= j
<1>1. PICK i \in s : \A j \in s : ~ (<<j, i>> \in OpToRel(<, Nat))
    BY NatLessThanWellFounded, WFMin
<1>2. \A j \in s : ~ (j < i)
    BY <1>1 DEF OpToRel
<1>3. QED
    BY <1>2

\* Till finds the first packet that is missing.
LEMMA TillIsFirstMissing ==
    ASSUME NEW rcv \in SUBSET Seqs, recv_till \in 0 .. N
    PROVE  /\ Till(rcv) \in recv_till .. N /\ Till(rcv) \notin rcv
           /\ \A j \in recv_till .. Till(rcv) - 1 : j \in rcv
<1> DEFINE gaps == {i \in recv_till .. N : i \notin rcv}
<1>1. N \in gaps /\ gaps \in SUBSET Nat
    BY FlowAssumption DEF Seqs
<1>2. PICK i \in gaps : \A j \in gaps : i <= j
    BY <1>1, LeastNumber
<1>3. \A j \in recv_till .. i - 1 : j \in rcv
    BY <1>2, <1>1, FlowAssumption
<1>4. QED
    BY <1>2, <1>3 DEF Till

-----------------------------------------------------------------------------
(* Bags of packets *)

\* Sending adds to the packets in the network, and a reply is an answer to one
\* of them.
LEMMA NetAfter ==
    ASSUME NEW p, NEW packets
    PROVE  /\ Send(packets) => BagToSet(net') = BagToSet(net) \cup packets
           /\ Reply(p, packets) => BagToSet(net') \subseteq BagToSet(net) \cup packets
<1>1. \A B : BagToSet(B (+) SetToBag(packets)) = BagToSet(B) \cup packets
    BY DEF BagToSet, SetToBag, (+)
<1>2. BagToSet(net (-) SetToBag({p})) \subseteq BagToSet(net)
    BY DEF BagToSet, (-)
<1>3. QED
    BY <1>1, <1>2 DEF Send, Reply

\* What a packet is.
LEMMA PacketKinds ==
    /\ Syn \in Packet /\ SynAck \in Packet
    /\ \A i \in Seqs : Data(i) \in Packet
    /\ \A i \in 0 .. N, s \in 0 .. N : Ack(i, s) \in Packet
    /\ Syn.type = "SYN" /\ SynAck.type = "SYNACK"
    /\ \A i : Data(i).type = "DATA"
    /\ \A i, s : Ack(i, s).type = "ACK" /\ Ack(i, s).seq = i
    /\ \A p \in Packet : /\ p.seq \in 0 .. N /\ p.sack \in 0 .. N
                         /\ p.type = "DATA" => p.seq \in Seqs
<1>1. /\ \A i : Data(i).type = "DATA" /\ Data(i).seq = i /\ Data(i).sack = 0
      /\ \A i, s : Ack(i, s).type = "ACK" /\ Ack(i, s).seq = i /\ Ack(i, s).sack = s
      /\ Syn.type = "SYN" /\ Syn.seq = 0 /\ Syn.sack = 0
      /\ SynAck.type = "SYNACK" /\ SynAck.seq = 0 /\ SynAck.sack = 0
    BY DEF Syn, SynAck, Data, Ack
<1>2. /\ Syn \in Packet /\ SynAck \in Packet
      /\ \A i \in Seqs : Data(i) \in Packet
      /\ \A i \in 0 .. N, s \in 0 .. N : Ack(i, s) \in Packet
    BY DEF Packet
<1>3. ASSUME NEW p \in Packet
      PROVE  /\ p.seq \in 0 .. N /\ p.sack \in 0 .. N
             /\ p.type = "DATA" => p.seq \in Seqs
    <2>1. CASE p \in {Syn, SynAck}
        BY <1>1, <2>1, FlowAssumption
    <2>2. CASE \E i \in Seqs : p = Data(i)
        BY <1>1, <2>2, FlowAssumption DEF Seqs
    <2>3. CASE \E i \in 0 .. N, s \in 0 .. N : p = Ack(i, s)
        BY <1>1, <2>3
    <2>4. QED
        BY <2>1, <2>2, <2>3 DEF Packet
<1>4. QED
    BY <1>1, <1>2, <1>3

-----------------------------------------------------------------------------
(* The sender                                                              *)

\* The loop of send_pending_data stays between next_seq_no and size, and does
\* not turn when the receiver has everything.
LEMMA UntilBounds ==
    ASSUME NEW next \in 0 .. N, NEW unacked \in 0 .. N, NEW width \in Nat
    PROVE  /\ Until(next, unacked, width) \in next .. N
           /\ Until(next, unacked, width) # next => received_bytes < N
BY FlowAssumption DEF Until

\* What the loop sends is DATA, and nothing if it does not turn.
LEMMA MissingPackets ==
    ASSUME NEW next \in 0 .. N, NEW until \in next .. N
    PROVE  /\ \A p \in Missing(next, until) : p \in Packet /\ p.type = "DATA"
           /\ until = next => Missing(next, until) = {}
<1>1. \A i \in next .. until - 1 : i \in Seqs
    BY FlowAssumption DEF Seqs
<1>2. until = next => next .. until - 1 = {}
    BY FlowAssumption
<1>3. QED
    BY <1>1, <1>2, PacketKinds DEF Missing

\* What is acknowledged has been received: when all is, the flow has all its bytes.
LEMMA AllAckedAllReceived ==
    ASSUME FlowInv, last_unacked_seq = N
    PROVE  received_bytes = N
<1>1. CASE finished
    BY <1>1 DEF FlowInv, CompleteIsTrue
<1>2. CASE ~finished
    <2>1. received = Seqs
        <3>1. received \subseteq Seqs /\ \A i \in Seqs : i < N => i \in received
            BY <1>2 DEF FlowInv, TypeOK, AckedIsReceived
        <3>2. \A i \in Seqs : i < N
            BY FlowAssumption DEF Seqs
        <3>3. QED
            BY <3>1, <3>2
    <2>2. QED
        BY <1>2, <2>1, PacketSets DEF FlowInv, CompleteIsTrue
<1>3. QED
    BY <1>1, <1>2

LEMMA InitFlow == Init => FlowInv
<1> SUFFICES ASSUME Init PROVE FlowInv
    OBVIOUS
<1>1. BagToSet(net) = {}
    BY DEF Init, BagToSet, EmptyBag, SetToBag
<1>2. Cardinality(received) = 0
    BY FS_EmptySet DEF Init
<1>3. TypeOK
    <2>1. flow_type \in Classes
        BY DEF Init
    <2>2. started \in BOOLEAN /\ retx_event \in BOOLEAN /\ finished \in BOOLEAN
        <3>1. started = FALSE /\ retx_event = FALSE /\ finished = FALSE
            BY DEF Init
        <3>2. QED
            BY <3>1, Zenon
    <2>3. /\ next_seq_no \in 0 .. N /\ last_unacked_seq \in 0 .. N /\ scoreboard_sack \in 0 .. N
          /\ cwnd_mss \in 1 .. MaxCwnd /\ recv_till \in 0 .. N
        BY FlowAssumption DEF Init
    <2>4. /\ ssthresh \in Nat \ {0, 1} /\ count_ack_additive_increase \in Nat
          /\ timers \in Nat /\ received_bytes \in Nat /\ finish_events \in Nat
          /\ received \subseteq Seqs /\ losses \in 0 .. MaxLoss
        BY BoundsAssumption DEF Init
    <2>5. QED
        BY <1>1, <2>1, <2>2, <2>3, <2>4 DEF TypeOK
<1>4. QED
    BY <1>1, <1>2, <1>3, FlowAssumption
    DEF Init, FlowInv, AckedIsReceived, CompleteIsTrue, OneTimer, TillInv, SentHasTimer, Seqs

\* send_pending_data outside of an ACK: the first time and after the SYNACK.
LEMMA SendPendingDataKeeps ==
    ASSUME FlowInv, SendPendingData,
           UNCHANGED << last_unacked_seq, window, scoreboard_sack, receiver, ending, losses >>,
           started' \in BOOLEAN,
           BagToSet(net') \subseteq BagToSet(net) \cup FirstPackets
    PROVE  FlowInv'
<1> DEFINE until == Until(next_seq_no, last_unacked_seq, cwnd_mss + scoreboard_sack)
<1>1. /\ next_seq_no \in 0 .. N /\ last_unacked_seq \in 0 .. N
      /\ cwnd_mss + scoreboard_sack \in Nat /\ TypeOK
    BY FlowAssumption DEF FlowInv, TypeOK
<1>2. until \in next_seq_no .. N /\ (until # next_seq_no => received_bytes < N)
    BY <1>1, UntilBounds
<1>3. /\ \A p \in FirstPackets : p \in Packet /\ p.type = "DATA"
      /\ until = next_seq_no => FirstPackets = {}
    BY <1>1, <1>2, MissingPackets DEF FirstPackets
<1>4. next_seq_no' = until /\ ArmTimer(until # next_seq_no)
    BY DEF SendPendingData
<1>5. BagToSet(net') \subseteq Packet
    BY <1>1, <1>3 DEF TypeOK
<1>6. UNCHANGED << flow_type, last_unacked_seq, cwnd_mss, ssthresh, count_ack_additive_increase, scoreboard_sack,
                   received, received_bytes, recv_till, finished, finish_events, losses >>
    BY DEF window, receiver, ending
<1>7. retx_event' \in BOOLEAN /\ timers' \in Nat
    <2>1. \/ retx_event' = TRUE /\ timers' = timers + 1
          \/ retx_event' = retx_event /\ timers' = timers
        BY <1>4 DEF ArmTimer, timer
    <2>2. retx_event \in BOOLEAN /\ timers \in Nat
        BY <1>1 DEF TypeOK
    <2>3. retx_event' \in BOOLEAN
        BY <2>1, <2>2, Zenon
    <2>4. QED
        BY <2>1, <2>2, <2>3
<1>8. TypeOK'
    BY <1>1, <1>2, <1>4, <1>5, <1>6, <1>7, FlowAssumption DEF TypeOK
<1>9. last_unacked_seq = N => until = next_seq_no
    BY <1>1, <1>2, AllAckedAllReceived
<1>10. last_unacked_seq < N /\ until # next_seq_no => retx_event'
    BY <1>4 DEF ArmTimer, timer
<1>11. OneTimer'
    <2>1. CASE until # next_seq_no
        <3>1. last_unacked_seq < N /\ ~finished /\ last_unacked_seq # N
            BY <1>1, <1>9, <2>1, FlowAssumption DEF FlowInv, SentHasTimer
        <3>2. retx_event' /\ timers' = 1
            BY <1>4, <2>1, <3>1 DEF ArmTimer, timer, FlowInv, OneTimer
        <3>3. QED
            BY <1>6, <3>1, <3>2 DEF OneTimer
    <2>2. CASE until = next_seq_no
        <3>1. next_seq_no' = next_seq_no /\ retx_event' = retx_event /\ timers' = timers
            BY <1>4, <2>2 DEF ArmTimer, timer
        <3>2. QED
            BY <1>6, <3>1 DEF FlowInv, OneTimer
    <2>3. QED
        BY <2>1, <2>2
<1>12. AckedIsReceived'
    BY <1>3, <1>6 DEF FlowInv, AckedIsReceived
<1>13. SentHasTimer'
    BY <1>3, <1>4, <1>6, <1>10 DEF FlowInv, SentHasTimer, ArmTimer, timer
<1>14. QED
    BY <1>6, <1>8, <1>11, <1>12, <1>13 DEF FlowInv, CompleteIsTrue, TillInv

LEMMA StartFlowKeeps == FlowInv /\ StartFlow => FlowInv'
<1> SUFFICES ASSUME FlowInv, StartFlow PROVE FlowInv'
    OBVIOUS
<1>1. CASE flow_type # "TCP_FLOW"
    <2>1. BagToSet(net') \subseteq BagToSet(net) \cup FirstPackets
        BY <1>1, NetAfter DEF StartFlow
    <2>2. QED
        BY <1>1, <2>1, SendPendingDataKeeps DEF StartFlow
<1>2. CASE flow_type = "TCP_FLOW"
    <2>1. BagToSet(net') = BagToSet(net) \cup {Syn}
        BY <1>2, NetAfter DEF StartFlow
    <2>2. UNCHANGED << sender, timer, receiver, ending, losses >> /\ started' = TRUE
        BY <1>2 DEF StartFlow
    <2>3. QED
        BY <2>1, <2>2, PacketKinds
        DEF FlowInv, TypeOK, AckedIsReceived, CompleteIsTrue, OneTimer, TillInv, SentHasTimer,
            sender, timer, receiver, ending, window
<1>3. QED
    BY <1>1, <1>2 DEF FlowInv, TypeOK, Classes

\* The window stays between one and max_cwnd.
LEMMA IncreaseCwndType ==
    ASSUME TypeOK, IncreaseCwnd
    PROVE  /\ cwnd_mss' \in 1 .. MaxCwnd
           /\ count_ack_additive_increase' \in Nat
           /\ ssthresh' = ssthresh /\ flow_type' = flow_type
<1>1. /\ cwnd_mss \in 1 .. MaxCwnd /\ count_ack_additive_increase \in Nat
      /\ MaxCwnd \in Nat \ {0}
    BY FlowAssumption DEF TypeOK
<1>2. Capped(cwnd_mss) \in 1 .. MaxCwnd /\ Capped(cwnd_mss + 1) \in 1 .. MaxCwnd
    BY <1>1 DEF Capped
<1>3. CASE GrowCwnd
    BY <1>1, <1>2, <1>3 DEF GrowCwnd
<1>4. CASE ShrinkCwnd
    BY <1>1, <1>4 DEF ShrinkCwnd
<1>5. QED
    BY <1>3, <1>4 DEF IncreaseCwnd

\* A timeout goes back to what is not acknowledged, and keeps the timer.
LEMMA HandleTimeoutKeeps == FlowInv /\ HandleTimeout => FlowInv'
<1> SUFFICES ASSUME FlowInv, HandleTimeout PROVE FlowInv'
    OBVIOUS
<1> DEFINE until == Until(last_unacked_seq, last_unacked_seq, 1 + scoreboard_sack)
<1> DEFINE again == Missing(last_unacked_seq, until)
<1>1. TypeOK /\ last_unacked_seq \in 0 .. N /\ 1 + scoreboard_sack \in Nat
    BY FlowAssumption DEF FlowInv, TypeOK
<1>2. until \in last_unacked_seq .. N
    BY <1>1, UntilBounds
<1>3. \A p \in again : p \in Packet /\ p.type = "DATA"
    BY <1>1, <1>2, MissingPackets
<1>4. BagToSet(net') = BagToSet(net) \cup again
    BY NetAfter DEF HandleTimeout
<1>5. UNCHANGED << flow_type, started, last_unacked_seq, count_ack_additive_increase, scoreboard_sack,
                   received, received_bytes, recv_till, finished, finish_events, losses >>
    BY DEF HandleTimeout, receiver, ending
<1>6. /\ next_seq_no' = until /\ cwnd_mss' = 1 /\ timers > 0
      /\ timers' = IF last_unacked_seq < N THEN timers ELSE timers - 1
      /\ retx_event' = (last_unacked_seq < N)
    BY DEF HandleTimeout
<1>7. TypeOK'
    <2>1. ssthresh' \in Nat \ {0, 1}
        <3>1. cwnd_mss \in Nat /\ ssthresh \in Nat \ {0, 1}
            BY <1>1, FlowAssumption DEF TypeOK
        <3>2. cwnd_mss \div 2 \in Nat
            BY <3>1
        <3>3. QED
            BY <3>1, <3>2 DEF HandleTimeout
    <2>2. retx_event' \in BOOLEAN /\ timers' \in Nat
        <3>1. timers \in Nat
            BY <1>1 DEF TypeOK
        <3>2. timers' \in Nat
            BY <3>1, <1>6
        <3>3. retx_event' \in BOOLEAN
            BY <1>6
        <3>4. QED
            BY <3>2, <3>3
    <2>3. next_seq_no' \in 0 .. N /\ cwnd_mss' \in 1 .. MaxCwnd
        BY <1>1, <1>2, <1>6, FlowAssumption
    <2>4. BagToSet(net') \subseteq Packet
        BY <1>1, <1>3, <1>4 DEF TypeOK
    <2>5. QED
        BY <1>1, <1>5, <2>1, <2>2, <2>3, <2>4 DEF TypeOK
<1>8. AckedIsReceived'
    BY <1>3, <1>4, <1>5 DEF FlowInv, AckedIsReceived
<1>9. retx_event /\ timers = 1 /\ ~finished
    BY <1>6 DEF FlowInv, OneTimer
<1>10. last_unacked_seq < N
    BY <1>1, <1>9, FlowAssumption DEF FlowInv, OneTimer
<1>11. OneTimer' /\ SentHasTimer'
    <2>1. retx_event' /\ timers' = 1 /\ ~finished'
        BY <1>5, <1>6, <1>9, <1>10
    <2>2. last_unacked_seq' # N
        BY <1>1, <1>5, <1>10, FlowAssumption
    <2>3. QED
        BY <2>1, <2>2 DEF OneTimer, SentHasTimer
<1>12. QED
    BY <1>5, <1>7, <1>8, <1>11 DEF FlowInv, CompleteIsTrue, TillInv

-----------------------------------------------------------------------------
(* ACKs                                                                    *)

\* What an ACK of an unfinished flow says.
LEMMA AckSays ==
    ASSUME FlowInv, NEW p \in BagToSet(net), p.type = "ACK", ~finished
    PROVE  /\ p.seq \in 0 .. N /\ p.sack \in 0 .. N
           /\ \A i \in Seqs : i < p.seq => i \in received
           /\ p.seq = N => received_bytes = N
<1>1. p \in Packet /\ received \in SUBSET Seqs
    BY DEF FlowInv, TypeOK
<1>2. \A i \in Seqs : i < p.seq => i \in received
    BY DEF FlowInv, AckedIsReceived
<1>3. ASSUME p.seq = N PROVE received_bytes = N
    <2>1. received = Seqs
        <3>1. \A i \in Seqs : i < p.seq
            BY <1>3, FlowAssumption DEF Seqs
        <3>2. QED
            BY <1>1, <1>2, <3>1
    <2>2. QED
        BY <1>1, <2>1, PacketSets DEF FlowInv, CompleteIsTrue
<1>4. QED
    BY <1>1, <1>2, <1>3, PacketKinds

\* An ACK finishes the flow when it is for all of it.
LEMMA ReceiveAckKeeps ==
    ASSUME FlowInv, NEW p \in BagToSet(net), ReceiveAck(p)
    PROVE  FlowInv'
<1>1. /\ p.type = "ACK" /\ ~finished /\ scoreboard_sack' = p.sack
      /\ NewAck(p) \/ OldAck(p)
      /\ UNCHANGED << started, received_bytes, recv_till, losses >>
    BY DEF ReceiveAck
<1>2. /\ p.seq \in 0 .. N /\ p.sack \in 0 .. N
      /\ \A i \in Seqs : i < p.seq => i \in received
      /\ p.seq = N => received_bytes = N
    BY <1>1, AckSays
<1>3. /\ AckedAll(p) => p.seq = N /\ finished' = TRUE /\ received' = {} /\ finish_events' = finish_events + 1
      /\ ~AckedAll(p) => finished' = finished /\ received' = received /\ finish_events' = finish_events
    BY <1>1 DEF ReceiveAck, FinishIf, AckedAll
<1>4. TypeOK /\ last_unacked_seq \in 0 .. N /\ finish_events = 0
    BY <1>1 DEF FlowInv, TypeOK, CompleteIsTrue
<1>5. CompleteIsTrue'
    BY <1>1, <1>2, <1>3, <1>4 DEF FlowInv, CompleteIsTrue
<1>6. TillInv'
    BY <1>1, <1>3 DEF FlowInv, TillInv
<1>7. finished' \in BOOLEAN /\ received' \subseteq Seqs /\ finish_events' \in Nat
    <2>1. finished' \in BOOLEAN
        <3>1. finished' = TRUE \/ finished' = finished
            BY <1>3
        <3>2. finished \in BOOLEAN
            BY <1>4 DEF TypeOK
        <3>3. QED
            BY <3>1, <3>2, Zenon
    <2>2. QED
        BY <2>1, <1>3, <1>4 DEF TypeOK
<1>8. CASE NewAck(p)
    <2> DEFINE next == IF next_seq_no < p.seq THEN p.seq ELSE next_seq_no
    <2> DEFINE until == Until(next, p.seq, cwnd_mss' + p.sack)
    <2> DEFINE armed == retx_event \/ (until # next /\ p.seq < N)
    <2>1. /\ p.seq > last_unacked_seq /\ last_unacked_seq' = p.seq
          /\ IncreaseCwnd /\ next_seq_no' = until /\ MoveTimer(armed, p.seq)
          /\ Reply(p, Missing(next, until))
        BY <1>8 DEF NewAck
    <2>2. /\ cwnd_mss' \in 1 .. MaxCwnd /\ count_ack_additive_increase' \in Nat
          /\ ssthresh' = ssthresh /\ flow_type' = flow_type
        BY <1>4, <2>1, IncreaseCwndType
    <2>3. next \in 0 .. N /\ cwnd_mss' + p.sack \in Nat
        BY <1>2, <1>4, <2>2, FlowAssumption DEF TypeOK
    <2>4. until \in next .. N
        BY <1>2, <2>3, UntilBounds
    <2>5. /\ \A q \in Missing(next, until) : q \in Packet /\ q.type = "DATA"
          /\ until = next => Missing(next, until) = {}
        BY <2>3, <2>4, MissingPackets
    <2>6. BagToSet(net') \subseteq BagToSet(net) \cup Missing(next, until)
        BY <2>1, NetAfter
    <2>7. retx_event
        <3>1. last_unacked_seq \in 0 .. N /\ 0 \in Seqs
            BY <1>4, FlowAssumption DEF TypeOK, Seqs
        <3>2. 0 \in received /\ last_unacked_seq < N
            BY <1>2, <2>1, <3>1, FlowAssumption
        <3>3. QED
            BY <3>2, <1>1 DEF FlowInv, SentHasTimer
    <2>8. timers = 1 /\ retx_event' = (p.seq < N) /\ timers' = IF p.seq < N THEN 1 ELSE 0
        <3>1. timers = 1
            BY <2>7 DEF FlowInv, OneTimer
        <3>2. QED
            BY <2>1, <2>7, <3>1 DEF MoveTimer
    <2>9. retx_event' \in BOOLEAN /\ timers' \in Nat
        BY <2>8
    <2>10. TypeOK'
        <3>1. BagToSet(net') \subseteq Packet
            BY <1>4, <2>5, <2>6 DEF TypeOK
        <3>2. next_seq_no' \in 0 .. N /\ last_unacked_seq' \in 0 .. N
            BY <1>2, <2>1, <2>3, <2>4
        <3>3. QED
            BY <1>1, <1>2, <1>4, <1>7, <2>2, <2>9, <3>1, <3>2 DEF TypeOK
    <2>11. AckedIsReceived'
        BY <1>1, <1>2, <1>3, <2>1, <2>5, <2>6 DEF FlowInv, AckedIsReceived
    <2>12. OneTimer' /\ SentHasTimer'
        <3>1. CASE p.seq = N
            <4>1. ~(p.seq < N)
                BY <3>1, FlowAssumption
            <4>2. ~retx_event' /\ timers' = 0
                BY <2>8, <4>1
            <4>3. last_unacked_seq' = N /\ ~(last_unacked_seq' < N)
                BY <2>1, <3>1, <4>1
            <4>4. QED
                BY <4>2, <4>3 DEF OneTimer, SentHasTimer
        <3>2. CASE p.seq # N
            <4>1. p.seq < N
                BY <1>2, <3>2, FlowAssumption
            <4>2. ~finished' /\ last_unacked_seq' < N /\ last_unacked_seq' # N
                BY <1>1, <1>3, <2>1, <3>2, <4>1
            <4>3. retx_event' /\ timers' = 1
                BY <2>8, <4>1
            <4>4. QED
                BY <4>2, <4>3 DEF OneTimer, SentHasTimer
        <3>3. QED
            BY <3>1, <3>2
    <2>13. QED
        BY <1>5, <1>6, <2>10, <2>11, <2>12 DEF FlowInv
<1>9. CASE OldAck(p)
    <2>1. /\ p.seq <= last_unacked_seq /\ Reply(p, {})
          /\ next_seq_no' = IF next_seq_no < p.seq THEN p.seq ELSE next_seq_no
          /\ UNCHANGED << flow_type, last_unacked_seq, cwnd_mss, ssthresh, count_ack_additive_increase,
                          retx_event, timers >>
        BY <1>9 DEF OldAck, window, timer
    <2>2. last_unacked_seq \in 0 .. N /\ next_seq_no \in 0 .. N
        BY <1>4 DEF TypeOK
    <2>3. finished' => last_unacked_seq = N
        <3>1. CASE AckedAll(p)
            <4>1. p.seq = N
                BY <1>3, <3>1
            <4>2. QED
                BY <2>1, <2>2, <4>1, FlowAssumption
        <3>2. CASE ~AckedAll(p)
            BY <1>1, <1>3, <3>2
        <3>3. QED
            BY <3>1, <3>2
    <2>4. BagToSet(net') \subseteq BagToSet(net)
        BY <2>1, NetAfter
    <2>5. TypeOK'
        BY <1>1, <1>2, <1>4, <1>7, <2>1, <2>2, <2>4 DEF TypeOK
    <2>6. AckedIsReceived'
        BY <1>1, <1>3, <2>1, <2>4 DEF FlowInv, AckedIsReceived
    <2>7. SentHasTimer'
        <3>1. finished' => ~(last_unacked_seq < N)
            BY <2>3, FlowAssumption
        <3>2. ~finished' => received' = received
            BY <1>3
        <3>3. QED
            BY <1>1, <2>1, <2>3, <2>4, <3>1, <3>2 DEF FlowInv, SentHasTimer
    <2>8. OneTimer'
        <3>1. next_seq_no' > 0 /\ last_unacked_seq < N => retx_event
            <4>1. CASE next_seq_no < p.seq
                <5>1. 0 \in Seqs /\ 0 < p.seq
                    BY <1>2, <2>2, <4>1, FlowAssumption DEF Seqs
                <5>2. 0 \in received
                    BY <1>2, <5>1
                <5>3. QED
                    BY <5>2, <1>1 DEF FlowInv, SentHasTimer
            <4>2. CASE ~(next_seq_no < p.seq)
                BY <1>1, <2>1, <4>2 DEF FlowInv, OneTimer
            <4>3. QED
                BY <4>1, <4>2
        <3>2. QED
            BY <2>1, <2>3, <3>1 DEF FlowInv, OneTimer
    <2>9. QED
        BY <1>5, <1>6, <2>5, <2>6, <2>7, <2>8 DEF FlowInv
<1>10. QED
    BY <1>1, <1>8, <1>9

-----------------------------------------------------------------------------
(* The other packets and the network                                       *)

\* A step that changes neither end and brings no DATA and no ACK.
LEMMA NetOnlyKeeps ==
    ASSUME FlowInv,
           UNCHANGED << started, sender, timer, receiver, ending >>,
           losses' \in 0 .. MaxLoss,
           \A q \in BagToSet(net') :
               q \in BagToSet(net) \/ (q \in Packet /\ q.type \notin {"DATA", "ACK"})
    PROVE  FlowInv'
<1>1. UNCHANGED << flow_type, started, next_seq_no, last_unacked_seq, cwnd_mss, ssthresh,
                   count_ack_additive_increase, scoreboard_sack, retx_event, timers,
                   received, received_bytes, recv_till, finished, finish_events >>
    BY DEF sender, timer, receiver, ending, window
<1>2. TypeOK'
    BY <1>1 DEF FlowInv, TypeOK
<1>3. AckedIsReceived' /\ SentHasTimer'
    BY <1>1 DEF FlowInv, AckedIsReceived, SentHasTimer
<1>4. CompleteIsTrue' /\ OneTimer' /\ TillInv'
    BY <1>1 DEF FlowInv, CompleteIsTrue, OneTimer, TillInv
<1>5. QED
    BY <1>2, <1>3, <1>4 DEF FlowInv

LEMMA ReceiveSynKeeps ==
    ASSUME FlowInv, NEW p \in BagToSet(net), ReceiveSyn(p)
    PROVE  FlowInv'
<1>1. BagToSet(net') \subseteq BagToSet(net) \cup {SynAck}
    BY NetAfter DEF ReceiveSyn
<1>2. UNCHANGED << started, sender, timer, receiver, ending >> /\ losses' \in 0 .. MaxLoss
    BY DEF ReceiveSyn, FlowInv, TypeOK
<1>3. QED
    BY <1>1, <1>2, PacketKinds, NetOnlyKeeps

LEMMA ReceiveSynAckKeeps ==
    ASSUME FlowInv, NEW p \in BagToSet(net), ReceiveSynAck(p)
    PROVE  FlowInv'
<1>1. BagToSet(net') \subseteq BagToSet(net) \cup FirstPackets
    BY NetAfter DEF ReceiveSynAck
<1>2. started' \in BOOLEAN
    BY DEF ReceiveSynAck, FlowInv, TypeOK
<1>3. QED
    BY <1>1, <1>2, SendPendingDataKeeps DEF ReceiveSynAck

LEMMA IgnoreKeeps ==
    ASSUME FlowInv, NEW p \in BagToSet(net), Ignore(p)
    PROVE  FlowInv'
<1>1. BagToSet(net') \subseteq BagToSet(net)
    BY NetAfter DEF Ignore
<1>2. UNCHANGED << started, sender, timer, receiver, ending >> /\ losses' \in 0 .. MaxLoss
    BY DEF Ignore, FlowInv, TypeOK
<1>3. QED
    BY <1>1, <1>2, NetOnlyKeeps

LEMMA LoseKeeps ==
    ASSUME FlowInv, NEW p \in BagToSet(net), Lose(p)
    PROVE  FlowInv'
<1>1. BagToSet(net') \subseteq BagToSet(net)
    BY NetAfter DEF Lose
<1>2. UNCHANGED << started, sender, timer, receiver, ending >>
    BY DEF Lose
<1>3. losses' \in 0 .. MaxLoss
    BY BoundsAssumption DEF Lose, FlowInv, TypeOK
<1>4. QED
    BY <1>1, <1>2, <1>3, NetOnlyKeeps

\* A DATA packet is counted if it is new, and acknowledged up to the first one
\* that is missing.
LEMMA ReceiveDataKeeps ==
    ASSUME FlowInv, NEW p \in BagToSet(net), ReceiveData(p)
    PROVE  FlowInv'
<1> DEFINE rcv == received \cup {p.seq}
<1> DEFINE ack == Ack(Till(rcv), Cardinality(Sacked(rcv)))
<1>1. /\ p.type = "DATA" /\ ~finished /\ received' = rcv
      /\ received_bytes' = Counted(p.seq) /\ recv_till' = Till(rcv)
      /\ Reply(p, {ack})
      /\ UNCHANGED << flow_type, started, next_seq_no, last_unacked_seq, cwnd_mss, ssthresh,
                      count_ack_additive_increase, scoreboard_sack, retx_event, timers,
                      finished, finish_events, losses >>
    BY DEF ReceiveData, sender, timer, ending, window
<1>2. TypeOK /\ received \in SUBSET Seqs /\ rcv \in SUBSET Seqs /\ recv_till \in 0 .. N
    BY <1>1, PacketKinds DEF FlowInv, TypeOK
<1>3. /\ Till(rcv) \in recv_till .. N /\ Till(rcv) \notin rcv
      /\ \A j \in recv_till .. Till(rcv) - 1 : j \in rcv
    BY <1>2, TillIsFirstMissing
<1>4. ASSUME NEW i \in Seqs, i < Till(rcv) PROVE i \in rcv
    <2>1. i < recv_till => i \in received
        BY <1>1 DEF FlowInv, TillInv
    <2>2. ~(i < recv_till) => i \in recv_till .. Till(rcv) - 1
        BY <1>2, <1>3, <1>4, FlowAssumption DEF Seqs
    <2>3. QED
        BY <1>3, <2>1, <2>2
<1>5. Till(rcv) \in 0 .. N
    BY <1>2, <1>3, FlowAssumption
<1>6. Cardinality(Sacked(rcv)) \in 0 .. N
    <2>1. Sacked(rcv) \in SUBSET Seqs
        BY <1>2 DEF Sacked
    <2>2. QED
        BY <2>1, PacketSets
<1>7. ack \in Packet /\ ack.type = "ACK" /\ ack.seq = Till(rcv)
    BY <1>5, <1>6, PacketKinds
<1>8. BagToSet(net') \subseteq BagToSet(net) \cup {ack}
    BY <1>1, NetAfter
<1>9. received_bytes = Cardinality(received) /\ received_bytes' = Cardinality(rcv)
    <2>1. received_bytes = Cardinality(received)
        BY <1>1 DEF FlowInv, CompleteIsTrue
    <2>2. CASE p.seq \in received
        <3>1. rcv = received
            BY <2>2
        <3>2. QED
            BY <1>1, <2>1, <2>2, <3>1 DEF Counted
    <2>3. CASE p.seq \notin received
        BY <1>1, <1>2, <2>1, <2>3, PacketSets DEF Counted
    <2>4. QED
        BY <2>1, <2>2, <2>3
<1>10. TypeOK'
    <2>1. received_bytes' \in Nat
        BY <1>2, <1>9, PacketSets, FlowAssumption
    <2>2. BagToSet(net') \subseteq Packet
        BY <1>2, <1>7, <1>8 DEF TypeOK
    <2>3. QED
        BY <1>1, <1>2, <1>5, <2>1, <2>2 DEF TypeOK
<1>11. AckedIsReceived'
    BY <1>1, <1>4, <1>7, <1>8 DEF FlowInv, AckedIsReceived
<1>12. TillInv'
    BY <1>1, <1>3, <1>4 DEF TillInv
<1>13. CompleteIsTrue' /\ OneTimer'
    BY <1>1, <1>9 DEF FlowInv, CompleteIsTrue, OneTimer
<1>14. SentHasTimer'
    BY <1>1 DEF FlowInv, SentHasTimer
<1>15. QED
    BY <1>10, <1>11, <1>12, <1>13, <1>14 DEF FlowInv

LEMMA NextKeeps == FlowInv /\ [Next]_vars => FlowInv'
<1> SUFFICES ASSUME FlowInv, [Next]_vars PROVE FlowInv'
    OBVIOUS
<1>1. CASE StartFlow
    BY <1>1, StartFlowKeeps
<1>2. ASSUME NEW p \in BagToSet(net), Receive(p) PROVE FlowInv'
    BY <1>2, ReceiveSynKeeps, ReceiveSynAckKeeps, ReceiveDataKeeps, ReceiveAckKeeps,
       IgnoreKeeps DEF Receive
<1>3. ASSUME NEW p \in BagToSet(net), Lose(p) PROVE FlowInv'
    BY <1>3, LoseKeeps
<1>4. CASE HandleTimeout
    BY <1>4, HandleTimeoutKeeps
<1>5. CASE UNCHANGED vars
    BY <1>5 DEF vars, window, FlowInv, TypeOK, AckedIsReceived, CompleteIsTrue, OneTimer,
                TillInv, SentHasTimer
<1>6. QED
    BY <1>1, <1>2, <1>3, <1>4, <1>5 DEF Next

-----------------------------------------------------------------------------
(* The theorems                                                            *)

\* FlowInv holds in every state of every flow, whatever the network does.
THEOREM FlowInvariant == Spec => []FlowInv
<1>1. Init => FlowInv
    BY InitFlow
<1>2. FlowInv /\ [Next]_vars => FlowInv'
    BY NextKeeps
<1>3. QED
    BY <1>1, <1>2, PTL DEF Spec

\* Type correctness: the window stays within max_cwnd, numbers within the flow.
THEOREM FlowTypes == Spec => []TypeOK
<1>1. FlowInv => TypeOK
    BY DEF FlowInv
<1>2. QED
    BY <1>1, FlowInvariant, PTL

\* The sender never takes a packet for received that the receiver lacks
\* (receive_ack, receive_data_pkt).
THEOREM AcksAreTrue == Spec => []AckedIsReceived
<1>1. FlowInv => AckedIsReceived
    BY DEF FlowInv
<1>2. QED
    BY <1>1, FlowInvariant, PTL

\* The flow is announced as finished once, with every packet received and
\* counted once (receive_ack, receive_data_pkt).
THEOREM CompletionIsTrue == Spec => []CompleteIsTrue
<1>1. FlowInv => CompleteIsTrue
    BY DEF FlowInv
<1>2. QED
    BY <1>1, FlowInvariant, PTL

\* While packets are not acknowledged, one timer is pending and known
\* (set_timeout, cancel_retx_event, handle_timeout).
THEOREM TimerIsKept == Spec => []OneTimer
<1>1. FlowInv => OneTimer
    BY DEF FlowInv
<1>2. QED
    BY <1>1, FlowInvariant, PTL

-----------------------------------------------------------------------------
(* The flow is a transfer                                                  *)

Transferred == INSTANCE AckedTransfer WITH
    PacketCount <- N,
    delivered   <- received_bytes,
    complete    <- finished,
    announced   <- finish_events

\* A packet that comes for the first time is delivered; one that comes again
\* leaves the transfer as it is.
LEMMA DataDelivers ==
    ASSUME FlowInv, FlowInv', NEW p, ReceiveData(p)
    PROVE  Transferred!Deliver \/ UNCHANGED Transferred!transferVars
<1>1. /\ ~finished /\ received_bytes' = Counted(p.seq)
      /\ finished' = finished /\ finish_events' = finish_events
    BY DEF ReceiveData, ending
<1>2. received_bytes \in Nat /\ received_bytes' <= N
    <2>1. received' \in SUBSET Seqs /\ received_bytes \in Nat
        BY DEF FlowInv, TypeOK
    <2>2. received_bytes' = Cardinality(received')
        BY <1>1 DEF FlowInv, CompleteIsTrue
    <2>3. QED
        BY <2>1, <2>2, PacketSets, FlowAssumption
<1>3. CASE p.seq \in received
    BY <1>1, <1>3 DEF Counted, Transferred!transferVars
<1>4. CASE p.seq \notin received
    <2>1. received_bytes' = received_bytes + 1
        BY <1>1, <1>4 DEF Counted
    <2>2. received_bytes < N
        BY <1>2, <2>1, FlowAssumption
    <2>3. QED
        BY <1>1, <2>1, <2>2 DEF Transferred!Deliver
<1>5. QED
    BY <1>3, <1>4

\* The ACK of size completes the transfer, once everything is delivered.
LEMMA AckCompletes ==
    ASSUME FlowInv, NEW p \in BagToSet(net), ReceiveAck(p)
    PROVE  Transferred!Complete \/ UNCHANGED Transferred!transferVars
<1>1. p.type = "ACK" /\ ~finished /\ received_bytes' = received_bytes /\ FinishIf(AckedAll(p))
    BY DEF ReceiveAck
<1>2. CASE AckedAll(p)
    <2>1. received_bytes = N
        BY <1>1, <1>2, AckSays DEF AckedAll
    <2>2. QED
        BY <1>1, <1>2, <2>1 DEF FinishIf, Transferred!Complete
<1>3. CASE ~AckedAll(p)
    BY <1>1, <1>3 DEF FinishIf, Transferred!transferVars
<1>4. QED
    BY <1>2, <1>3

\* The flow implements the safe part of the transfer with acknowledgements
\* (Flow::receive and what it calls): packets are delivered one at a time and
\* counted once, completion comes after the last one and is announced once.
THEOREM FlowIsTransfer == Spec => Transferred!SafeTransfer
<1>1. Init => Transferred!TransferInit
    BY DEF Init, Transferred!TransferInit
<1>2. ASSUME FlowInv, FlowInv', [Next]_vars
      PROVE  [Transferred!TransferNext]_(Transferred!transferVars)
    <2> SUFFICES ASSUME ~ UNCHANGED Transferred!transferVars
                 PROVE  Transferred!TransferNext
        OBVIOUS
    <2>1. UNCHANGED << receiver, ending >> => UNCHANGED Transferred!transferVars
        BY DEF receiver, ending, Transferred!transferVars
    <2>2. CASE StartFlow \/ HandleTimeout
        BY <2>1, <2>2 DEF StartFlow, HandleTimeout
    <2>3. ASSUME NEW p \in BagToSet(net), Receive(p)
          PROVE  Transferred!TransferNext
        <3>1. ~ReceiveSyn(p) /\ ~ReceiveSynAck(p) /\ ~Ignore(p)
            BY <2>1 DEF ReceiveSyn, ReceiveSynAck, Ignore
        <3>2. QED
            BY <1>2, <2>3, <3>1, DataDelivers, AckCompletes DEF Receive, Transferred!TransferNext
    <2>4. ASSUME NEW p \in BagToSet(net), Lose(p)
          PROVE  Transferred!TransferNext
        BY <2>1, <2>4 DEF Lose
    <2>5. CASE UNCHANGED vars
        BY <2>1, <2>5 DEF vars, receiver, ending
    <2>6. QED
        BY <1>2, <2>2, <2>3, <2>4, <2>5 DEF Next
<1>3. QED
    BY <1>1, <1>2, FlowInvariant, PTL DEF Spec, Transferred!SafeTransfer
=============================================================================
