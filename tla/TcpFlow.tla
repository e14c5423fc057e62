------------------------------ MODULE TcpFlow ------------------------------
(***************************************************************************)
(* A window-based flow (coresim/flow.cpp), with the handshake of TCPFlow   *)
(* (ext/tcpflow.cpp), the window of PFabricFlow (ext/pfabricflow.cpp), or  *)
(* the window of DctcpFlow (ext/dctcpFlow.cpp), which follows the marks.   *)
(*                                                                         *)
(* The sender keeps a window of cwnd_mss packets beyond last_unacked_seq,  *)
(* widened by what the last ACK reported as received out of order.  The    *)
(* receiver answers every packet with a cumulative ACK.  Both ends are one *)
(* Flow object: the sender reads the receiver's received and               *)
(* received_bytes.                                                         *)
(*                                                                         *)
(* Sequence numbers and bytes are counted in packets: a sequence number is *)
(* a multiple of mss, or size, which stands for N here.                    *)
(*                                                                         *)
(* net abstracts queues and links: packets stay in it for an arbitrary     *)
(* time, leave it in any order (packets are sprayed over paths) and may be *)
(* dropped.  A timer may fire at any time after it has been set.           *)
(***************************************************************************)
EXTENDS Naturals, FiniteSets, Bags

CONSTANTS
    N,            \* size_in_pkt
    ShortLast,    \* size is no multiple of mss
    InitialCwnd,  \* params.initial_cwnd
    MaxCwnd,      \* params.max_cwnd
    Lossy,        \* the types of packets that can be lost
    MaxLoss,      \* bound: packets the network drops
    MaxNet        \* bound: packets in the network when a timer fires

ASSUME FlowAssumption ==
    /\ N \in Nat \ {0} /\ InitialCwnd \in Nat \ {0} /\ MaxCwnd \in Nat \ {0}
    /\ InitialCwnd <= MaxCwnd

ASSUME LastAssumption == ShortLast \in BOOLEAN

ASSUME BoundsAssumption == MaxLoss \in Nat /\ MaxNet \in Nat

VARIABLES
    flow_type,        \* the class of the flow
    started,
    next_seq_no,
    last_unacked_seq,
    cwnd_mss,
    ssthresh,
    count_ack_additive_increase,
    scoreboard_sack,  \* packets of scoreboard_sack_bytes
    retx_event,       \* the pointer is not NULL
    timers,           \* pending RetxTimeoutEvents that are not cancelled
    received,
    received_bytes,   \* in packets
    recv_till,
    finished,
    finish_events,    \* FlowFinishedEvents posted to the event queue
    net,              \* the bag of packets under way
    losses

vars == << flow_type, started, next_seq_no, last_unacked_seq, cwnd_mss, ssthresh,
           count_ack_additive_increase, scoreboard_sack, retx_event, timers,
           received, received_bytes, recv_till, finished, finish_events, net, losses >>

window   == << flow_type, cwnd_mss, ssthresh, count_ack_additive_increase >>
sender   == << next_seq_no, last_unacked_seq, window, scoreboard_sack >>
timer    == << retx_event, timers >>
receiver == << received, received_bytes, recv_till >>
ending   == << finished, finish_events >>

Seqs == 0 .. N - 1
Classes == {"TCP_FLOW", "PFABRIC_FLOW", "DCTCP_FLOW"}

\* seq is the packet's own number or, in an ACK, the first one missing; sack is
\* the size of sack_list.
Syn          == [type |-> "SYN",    seq |-> 0, sack |-> 0]
SynAck       == [type |-> "SYNACK", seq |-> 0, sack |-> 0]
Data(i)      == [type |-> "DATA",   seq |-> i, sack |-> 0]
Ack(i, sack) == [type |-> "ACK",    seq |-> i, sack |-> sack]

Packet == {Syn, SynAck} \cup {Data(i) : i \in Seqs}
              \cup {Ack(i, sack) : i \in 0 .. N, sack \in 0 .. N}

Send(packets) == net' = net (+) SetToBag(packets)
Reply(p, packets) == net' = (net (-) SetToBag({p})) (+) SetToBag(packets)

-----------------------------------------------------------------------------
Init ==
    /\ flow_type \in Classes /\ started = FALSE
    /\ next_seq_no = 0 /\ last_unacked_seq = 0 /\ scoreboard_sack = 0
    /\ cwnd_mss = IF flow_type = "TCP_FLOW" THEN 1 ELSE InitialCwnd
    /\ ssthresh = 100000 /\ count_ack_additive_increase = 0
    /\ retx_event = FALSE /\ timers = 0
    /\ received = {} /\ received_bytes = 0 /\ recv_till = 0
    /\ finished = FALSE /\ finish_events = 0
    /\ net = EmptyBag /\ losses = 0

-----------------------------------------------------------------------------
(* The sender *)

\* send_pending_data with these values of next_seq_no, last_unacked_seq, the
\* window and the scoreboard: where its loop ends ...
Until(next, unacked, width) ==
    LET end == IF unacked + width < N THEN unacked + width ELSE N
    IN  IF received_bytes < N /\ next < end THEN end ELSE next

\* ... and the packets it sends on the way: those that the receiver lacks.
Missing(next, until) == {Data(i) : i \in (next .. until - 1) \ received}

\* set_timeout while no timer is known, if the loop has turned at all.
ArmTimer(turned) ==
    IF turned /\ ~retx_event /\ last_unacked_seq < N
    THEN retx_event' = TRUE /\ timers' = timers + 1
    ELSE UNCHANGED timer

\* send_pending_data when nothing else has changed: at the start.
SendPendingData ==
    LET until == Until(next_seq_no, last_unacked_seq, cwnd_mss + scoreboard_sack)
    IN  /\ next_seq_no' = until
        /\ ArmTimer(until # next_seq_no)

FirstPackets ==
    Missing(next_seq_no, Until(next_seq_no, last_unacked_seq, cwnd_mss + scoreboard_sack))

\* start_flow: TCPFlow sends a SYN, others send their first window.
StartFlow ==
    /\ ~started /\ started' = TRUE
    /\ \/ /\ flow_type = "TCP_FLOW"
          /\ Send({Syn})
          /\ UNCHANGED << sender, timer >>
       \/ /\ flow_type # "TCP_FLOW"
          /\ SendPendingData
          /\ Send(FirstPackets)
          /\ UNCHANGED << last_unacked_seq, window, scoreboard_sack >>
    /\ UNCHANGED << receiver, ending, losses >>

\* The window after it has grown.
Capped(w) == IF w > MaxCwnd THEN MaxCwnd ELSE w

\* increase_cwnd: by one for each ACK, after slow start for each window.
GrowCwnd ==
    LET slow  == flow_type = "TCP_FLOW" \/ cwnd_mss < ssthresh
        count == count_ack_additive_increase + 1
    IN  /\ flow_type # "DCTCP_FLOW"
        /\ cwnd_mss' = IF slow \/ count >= cwnd_mss THEN Capped(cwnd_mss + 1) ELSE Capped(cwnd_mss)
        /\ count_ack_additive_increase' =
              IF slow THEN count_ack_additive_increase
              ELSE IF count >= cwnd_mss THEN 0 ELSE count
        /\ UNCHANGED << flow_type, ssthresh >>

\* DctcpFlow's, which only shrinks: dctcp_alpha is a discounted sum of whether all of a
\* window of ACKs was marked, and below 1.  It is left open, and so are the marks: the
\* sender makes plain Packets, on which a mark is undefined.
ShrinkCwnd ==
    /\ flow_type = "DCTCP_FLOW"
    /\ cwnd_mss' \in (cwnd_mss + 1) \div 2 .. cwnd_mss
    /\ UNCHANGED << flow_type, ssthresh, count_ack_additive_increase >>

IncreaseCwnd == GrowCwnd \/ ShrinkCwnd

\* Mutant: the pending event is not cancelled.
MoveTimerOnly(armed, ack) ==
    IF armed
    THEN retx_event' = (ack < N) /\ timers' = timers + 1
    ELSE UNCHANGED timer

\* cancel_retx_event and set_timeout, when a timer is known by now.
MoveTimer(armed, ack) ==
    IF armed
    THEN /\ retx_event' = (ack < N)
         /\ timers' = (IF retx_event THEN timers - 1 ELSE timers)
                          + (IF ack < N THEN 1 ELSE 0)
    ELSE UNCHANGED timer

\* DctcpFlow does not cap recv_till at size: its last ACK is beyond it.
AckPassesSize == ShortLast /\ flow_type = "DCTCP_FLOW"

\* An ACK of size.
AckedAll(p) == p.seq = N /\ ~AckPassesSize

\* The end of receive_ack.
FinishIf(done) ==
    IF done /\ ~finished
    THEN finished' = TRUE /\ received' = {} /\ finish_events' = finish_events + 1
    ELSE UNCHANGED << finished, received, finish_events >>

\* receive_ack of an ACK for more than last_unacked_seq: the window grows and
\* moves.  A timeout may have left next_seq_no behind the ACK.
NewAck(p) ==
    LET next  == IF next_seq_no < p.seq THEN p.seq ELSE next_seq_no
        until == Until(next, p.seq, cwnd_mss' + p.sack)
    IN  /\ p.seq > last_unacked_seq
        /\ last_unacked_seq' = p.seq
        /\ IncreaseCwnd
        /\ next_seq_no' = until
        /\ MoveTimer(retx_event \/ (until # next /\ p.seq < N), p.seq)
        /\ Reply(p, Missing(next, until))

\* ... and of any other ACK: only the scoreboard follows it.
OldAck(p) ==
    /\ p.seq <= last_unacked_seq
    /\ next_seq_no' = IF next_seq_no < p.seq THEN p.seq ELSE next_seq_no
    /\ Reply(p, {})
    /\ UNCHANGED << last_unacked_seq, window, timer >>

ReceiveAck(p) ==
    /\ p.type = "ACK" /\ ~finished
    /\ scoreboard_sack' = p.sack
    /\ NewAck(p) \/ OldAck(p)
    /\ FinishIf(AckedAll(p))
    /\ UNCHANGED << started, received_bytes, recv_till, losses >>

\* RetxTimeoutEvent: handle_timeout goes back to last_unacked_seq with
\* a window of one packet.
HandleTimeout ==
    LET until == Until(last_unacked_seq, last_unacked_seq, 1 + scoreboard_sack)
    IN  /\ timers > 0 /\ BagCardinality(net) < MaxNet
        /\ cwnd_mss' = 1
        /\ ssthresh' = IF flow_type # "PFABRIC_FLOW" THEN ssthresh
                       ELSE IF cwnd_mss \div 2 < 2 THEN 2 ELSE cwnd_mss \div 2
        /\ next_seq_no' = until
        /\ Send(Missing(last_unacked_seq, until))
        /\ retx_event' = (last_unacked_seq < N)
        /\ timers' = IF last_unacked_seq < N THEN timers ELSE timers - 1
        /\ UNCHANGED << flow_type, started, last_unacked_seq, count_ack_additive_increase,
                        scoreboard_sack, receiver, ending, losses >>

\* TCPFlow::receive of the SYNACK.
ReceiveSynAck(p) ==
    /\ p.type = "SYNACK"
    /\ SendPendingData
    /\ Reply(p, FirstPackets)
    /\ UNCHANGED << started, last_unacked_seq, window, scoreboard_sack, receiver,
                    ending, losses >>

-----------------------------------------------------------------------------
(* The receiver *)

\* TCPFlow::receive of the SYN.
ReceiveSyn(p) ==
    /\ p.type = "SYN"
    /\ Reply(p, {SynAck})
    /\ UNCHANGED << started, sender, timer, receiver, ending, losses >>

\* Mutant: acknowledges up to the highest number received.
TillHighest(rcv) == IF rcv = {} THEN 0
                    ELSE (CHOOSE i \in rcv : \A j \in rcv : j <= i) + 1

\* recv_till after the loop of receive_data_pkt: the first packet that is
\* missing, or size.
Till(rcv) ==
    CHOOSE i \in recv_till .. N :
        /\ i \notin rcv
        /\ \A j \in recv_till .. i - 1 : j \in rcv

\* sack_list: what was received beyond that.
Sacked(rcv) == {i \in rcv : i > Till(rcv)}

\* Mutant: bytes of a packet that comes twice are counted twice.
CountedAlways(i) == received_bytes + 1

\* received_bytes with packet i.
Counted(i) == IF i \in received THEN received_bytes ELSE received_bytes + 1

\* receive_data_pkt.
ReceiveData(p) ==
    LET rcv == received \cup {p.seq}
    IN  /\ p.type = "DATA" /\ ~finished
        /\ received' = rcv
        /\ received_bytes' = Counted(p.seq)
        /\ recv_till' = Till(rcv)
        /\ Reply(p, {Ack(Till(rcv), Cardinality(Sacked(rcv)))})
        /\ UNCHANGED << started, sender, timer, ending, losses >>

\* A finished flow ignores DATA and ACKs.
Ignore(p) ==
    /\ p.type \in {"DATA", "ACK"} /\ finished
    /\ Reply(p, {})
    /\ UNCHANGED << started, sender, timer, receiver, ending, losses >>

Receive(p) ==
    ReceiveSyn(p) \/ ReceiveSynAck(p) \/ ReceiveData(p) \/ ReceiveAck(p) \/ Ignore(p)

-----------------------------------------------------------------------------
(* The network *)

Lose(p) ==
    /\ p.type \in Lossy /\ losses < MaxLoss
    /\ losses' = losses + 1
    /\ Reply(p, {})
    /\ UNCHANGED << started, sender, timer, receiver, ending >>

Next ==
    \/ StartFlow
    \/ \E p \in BagToSet(net) : Receive(p) \/ Lose(p)
    \/ HandleTimeout

Spec == Init /\ [][Next]_vars

\* The event loop starts the flow, delivers what is not lost, and lets a timer
\* fire that is not cancelled.
Fairness ==
    /\ WF_vars(StartFlow)
    /\ \A p \in Packet : WF_vars(BagIn(p, net) /\ Receive(p))
    /\ WF_vars(HandleTimeout)

FairSpec == Spec /\ Fairness

-----------------------------------------------------------------------------
(* Properties *)

\* The type invariant.
TypeOK ==
    /\ flow_type \in Classes /\ started \in BOOLEAN
    /\ next_seq_no \in 0 .. N /\ last_unacked_seq \in 0 .. N
    /\ cwnd_mss \in 1 .. MaxCwnd /\ ssthresh \in Nat \ {0, 1}
    /\ count_ack_additive_increase \in Nat /\ scoreboard_sack \in 0 .. N
    /\ retx_event \in BOOLEAN /\ timers \in Nat
    /\ received \subseteq Seqs /\ received_bytes \in Nat /\ recv_till \in 0 .. N
    /\ finished \in BOOLEAN /\ finish_events \in Nat
    /\ BagToSet(net) \subseteq Packet /\ losses \in 0 .. MaxLoss

\* The sender never believes that the receiver has a packet it lacks, and no
\* ACK under way says so, in whatever order they come.
AckedIsReceived ==
    ~finished => /\ \A i \in Seqs : i < last_unacked_seq => i \in received
                 /\ \A p \in BagToSet(net) : p.type = "ACK" =>
                        \A i \in Seqs : i < p.seq => i \in received

\* A flow is announced as finished once, when every packet has been received
\* and counted once.
CompleteIsTrue ==
    /\ finish_events = IF finished THEN 1 ELSE 0
    /\ finished => received_bytes = N
    /\ ~finished => received_bytes = Cardinality(received)

\* A flow with unacknowledged packets has one retransmission timer and knows
\* it; one that has all acknowledged has none.
OneTimer ==
    /\ timers = IF retx_event THEN 1 ELSE 0
    /\ next_seq_no > 0 /\ last_unacked_seq < N => retx_event
    /\ last_unacked_seq = N \/ finished => ~retx_event

\* Every flow completes; one of DCTCP only if its size is a multiple of mss.
EventuallyFinished == <>finished

-----------------------------------------------------------------------------
(* The inductive invariants behind the safety properties.                  *)

\* recv_till is the first packet that is missing.
TillInv == ~finished => /\ recv_till \notin received
                        /\ \A i \in Seqs : i < recv_till => i \in received

\* Without a timer nothing has been sent, or all has been acknowledged.
SentHasTimer ==
    /\ ~finished /\ last_unacked_seq < N =>
          retx_event \/ (received = {} /\ \A p \in BagToSet(net) : p.type # "DATA")
    /\ finished => last_unacked_seq = N

FlowInv == TypeOK /\ AckedIsReceived /\ CompleteIsTrue /\ OneTimer /\ TillInv /\ SentHasTimer

=============================================================================
