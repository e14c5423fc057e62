--------------------------- MODULE SnsFlowProofs ---------------------------
(***************************************************************************)
(* Proofs about SnsFlow, for every size of flow, window, batch and network *)
(* delay: the type invariant, that a sender which stops has had everything *)
(* delivered, that bytes are counted once and completion announced once.   *)
(*                                                                         *)
(* StopMeansFinished is not inductive by itself.  A sender stops when all  *)
(* slots are marked, so the argument follows a mark back: a slot is marked *)
(* because the id equal to its index was acknowledged (MarkedMeansAcked),  *)
(* only received ids are acknowledged (AcksAreReceived), and each received *)
(* id counts one Mss (BytesCountedOnce).  SizeInPkt marks therefore stand  *)
(* for SizeInPkt * Mss >= Size bytes, enough for check_and_set_to_finished.*)
(*                                                                         *)
(* ReservationInv carries the promises about reservations: a message has   *)
(* one slot, and one of a probe, an answer and scheduled DATA, so that its *)
(* slot gets the time of the release once and keeps it.                    *)
(***************************************************************************)
EXTENDS SnsFlow, FiniteSetTheorems, TLAPS

-----------------------------------------------------------------------------
(* Sets of message ids *)

\* A set of message ids is finite, its size is a number, and one new id makes
\* it one larger.
LEMMA IdSets ==
    ASSUME NEW s \in SUBSET Ids
    PROVE  /\ IsFiniteSet(s) /\ Cardinality(s) \in Nat
           /\ \A i \in Ids \ s : Cardinality(s \cup {i}) = Cardinality(s) + 1
<1>1. IsFiniteSet(Ids)
    BY FS_Interval, ParametersAssumption DEF Ids
<1>2. IsFiniteSet(s)
    BY <1>1, FS_Subset
<1>3. Cardinality(s) \in Nat
    BY <1>2, FS_CardinalityType
<1>4. ASSUME NEW i \in Ids \ s PROVE Cardinality(s \cup {i}) = Cardinality(s) + 1
    BY <1>2, FS_AddElement
<1>5. QED
    BY <1>2, <1>3, <1>4

\* A product grows with its first factor.
LEMMA ProductMonotone ==
    ASSUME NEW a \in Nat, NEW b \in Nat, NEW m \in Nat, a <= b
    PROVE  a * m <= b * m
<1>1. PICK d \in Nat : b = a + d
    <2>1. b - a \in Nat /\ b = a + (b - a)
        OBVIOUS
    <2>2. QED
        BY <2>1
<1>2. b * m = a * m + d * m
    BY <1>1
<1>3. d * m \in Nat /\ a * m \in Nat
    BY <1>1
<1>4. QED
    BY <1>2, <1>3

\* When the ids of all slots were received, the flow has enough bytes.
LEMMA AllSlotsAreEnough ==
    ASSUME NEW s \in SUBSET Ids, Slots \subseteq s
    PROVE  Enough(Cardinality(s) * Mss)
<1>1. Cardinality(Slots) = SizeInPkt
    BY FS_Interval, SizesAssumption DEF Slots
<1>2. IsFiniteSet(s) /\ Cardinality(s) \in Nat
    BY IdSets
<1>3. Cardinality(Slots) <= Cardinality(s)
    BY <1>2, FS_Subset
<1>4. SizeInPkt * Mss <= Cardinality(s) * Mss
    BY <1>1, <1>2, <1>3, ProductMonotone, SizesAssumption
<1>5. SizeInPkt * Mss \in Nat /\ Cardinality(s) * Mss \in Nat
    BY <1>2, SizesAssumption
<1>6. QED
    BY <1>4, <1>5, SizesAssumption DEF Enough

-----------------------------------------------------------------------------
(* check_and_set_to_finished *)

\* Called with well-typed arguments, and with the sender stopped only when the
\* bytes are enough, it keeps what relates the completion flags, and an
\* unfinished flow keeps the caller's received and received_bytes.
LEMMA CheckKeeps ==
    ASSUME TypeOK, StopMeansFinished, AnnouncedOnce,
           NEW bytes \in Nat, NEW rcv \in SUBSET Ids, NEW stop \in BOOLEAN,
           stop => finished \/ Enough(bytes),
           CheckAndSetToFinished(bytes, rcv, stop)
    PROVE  /\ finished' \in BOOLEAN /\ stop_sending_sim' \in BOOLEAN
           /\ received' \subseteq Ids /\ received_bytes' = bytes
           /\ finish_events' \in Nat
           /\ StopMeansFinished' /\ AnnouncedOnce'
           /\ ~finished' => /\ ~finished /\ ~stop_sending_sim'
                            /\ received' = rcv
<1> DEFINE now == ~finished /\ Enough(bytes)
<1>1. /\ finished' = (finished \/ now)
      /\ stop_sending_sim' = (stop \/ now)
      /\ received' = IF now THEN {} ELSE rcv
      /\ received_bytes' = bytes
      /\ finish_events' = IF now THEN finish_events + 1 ELSE finish_events
    BY DEF CheckAndSetToFinished
<1>2. finished \in BOOLEAN /\ finish_events \in Nat
    BY DEF TypeOK
<1>3. now \in BOOLEAN
    BY <1>2
<1> HIDE DEF now
<1>4. StopMeansFinished'
    BY <1>1, <1>2 DEF StopMeansFinished, now
<1>5. AnnouncedOnce' /\ finish_events' \in Nat
    <2>1. CASE now
        <3>1. finish_events = 0
            BY <2>1 DEF AnnouncedOnce, now
        <3>2. finished' /\ finish_events' = finish_events + 1
            BY <1>1, <2>1
        <3>3. QED
            BY <3>1, <3>2 DEF AnnouncedOnce
    <2>2. CASE ~now
        <3>1. finished' = finished /\ finish_events' = finish_events
            BY <1>1, <1>2, <2>2
        <3>2. QED
            BY <1>2, <3>1 DEF AnnouncedOnce
    <2>3. QED
        BY <2>1, <2>2
<1>6. ~finished' => ~finished /\ ~stop_sending_sim' /\ ~now
    BY <1>1, <1>4 DEF StopMeansFinished
<1>7. QED
    BY <1>1, <1>2, <1>3, <1>4, <1>5, <1>6

-----------------------------------------------------------------------------
(* Each action keeps the inductive invariant *)

LEMMA InitFlow == Init => FlowInv
<1> SUFFICES ASSUME Init PROVE FlowInv
    OBVIOUS
<1>1. Cardinality({}) = 0
    BY FS_EmptySet
<1>2. EmptySlot \in SlotType /\ EmptySlot.status = "INIT"
    BY DEF EmptySlot, SlotType, Statuses
<1>3. TypeOK
    <2>1. sim_window \in [Slots -> SlotType] /\ sim_age \in [Ids -> Nat]
        BY <1>2 DEF Init
    <2>2. 0 \in 0 .. MaxMsgId /\ 0 \in 0 .. MaxLoss /\ 0 \in 0 .. AckEvery - 1
        BY ParametersAssumption
    <2>3. QED
        BY <2>1, <2>2 DEF Init, TypeOK
<1>4. AcksAreReceived
    BY DEF Init, AcksAreReceived
<1>5. MarkedMeansAcked
    BY <1>2 DEF Init, MarkedMeansAcked
<1>6. BytesCountedOnce
    BY <1>1, SizesAssumption DEF Init, BytesCountedOnce
<1>7. StopMeansFinished /\ AnnouncedOnce
    BY DEF Init, StopMeansFinished, AnnouncedOnce
<1>8. QED
    BY <1>3, <1>4, <1>5, <1>6, <1>7 DEF FlowInv

\* Searching the window for a free slot keeps its type and marks no slot.
LEMMA WindowSearchedKeeps ==
    ASSUME sim_window \in [Slots -> SlotType], NEW wait \in Waits
    PROVE  LET w == WindowSearched(sim_window, wait)
           IN  /\ w \in [Slots -> SlotType]
               /\ \A i \in Slots : w[i].status = "DATA_ACK_RECEIVED"
                                   => sim_window[i].status = "DATA_ACK_RECEIVED"
<1>1. EmptySlot \in SlotType /\ EmptySlot.status = "INIT"
    BY DEF EmptySlot, SlotType, Statuses
<1>2. CASE FreeSlots(sim_window) # {} \/ AllAcked(sim_window)
    BY <1>2 DEF WindowSearched
<1>3. CASE ~(FreeSlots(sim_window) # {} \/ AllAcked(sim_window))
    <2>1. WindowSearched(sim_window, wait) = DropSimIfTimeoutPass(sim_window, wait)
        BY <1>3 DEF WindowSearched
    <2>2. QED
        BY <1>1, <2>1 DEF DropSimIfTimeoutPass
<1>4. QED
    BY <1>2, <1>3

\* A sender that finds every slot acknowledged has enough bytes delivered.
LEMMA AllAckedIsEnough ==
    ASSUME FlowInv, ~finished, AllAcked(sim_window)
    PROVE  Enough(received_bytes)
<1>1. \A i \in Slots : i \in acked_msg_ids
    BY DEF FlowInv, MarkedMeansAcked, AllAcked
<1>2. acked_msg_ids \subseteq received /\ received_bytes = Cardinality(received) * Mss
    BY DEF FlowInv, AcksAreReceived, BytesCountedOnce
<1>3. received \in SUBSET Ids
    BY DEF FlowInv, TypeOK
<1>4. QED
    BY <1>1, <1>2, <1>3, AllSlotsAreEnough

LEMMA SendSimulationKeeps ==
    ASSUME FlowInv, NEW wait \in Waits, SendSimulation(wait),
           UNCHANGED << direct, receiver, acked_msg_ids, losses >>
    PROVE  FlowInv'
<1> DEFINE w    == WindowSearched(sim_window, wait)
           stop == stop_sending_sim \/ AllAcked(sim_window)
<1>1. TypeOK /\ StopMeansFinished /\ AnnouncedOnce /\ MarkedMeansAcked
      /\ AcksAreReceived /\ BytesCountedOnce
    BY DEF FlowInv
<1>2. /\ w \in [Slots -> SlotType]
      /\ \A i \in Slots : w[i].status = "DATA_ACK_RECEIVED"
                          => sim_window[i].status = "DATA_ACK_RECEIVED"
    BY <1>1, WindowSearchedKeeps DEF TypeOK
<1>3. stop \in BOOLEAN
    BY <1>1 DEF TypeOK, AllAcked
<1>4. stop => finished \/ Enough(received_bytes)
    BY <1>1, AllAckedIsEnough DEF StopMeansFinished
<1>5. CheckAndSetToFinished(received_bytes, received, stop)
    BY DEF SendSimulation
<1>6. received_bytes \in Nat /\ received \in SUBSET Ids
    BY <1>1 DEF TypeOK
<1>7. /\ finished' \in BOOLEAN /\ stop_sending_sim' \in BOOLEAN
      /\ received' \subseteq Ids /\ received_bytes' = received_bytes
      /\ finish_events' \in Nat
      /\ StopMeansFinished' /\ AnnouncedOnce'
      /\ ~finished' => /\ ~finished /\ ~stop_sending_sim'
                       /\ received' = received
    <2> HIDE DEF stop
    <2> QED
        BY <1>1, <1>3, <1>4, <1>5, <1>6, CheckKeeps
<1>8. UNCHANGED << direct, data_ids_recived, receptions, acked_msg_ids, losses, releases >>
    BY DEF SendSimulation, receiver
<1> HIDE DEF w, stop
<1>9. CASE sim_window' = w /\ UNCHANGED << msg_id, net, sim_age >>
    <2>1. TypeOK'
        BY <1>1, <1>2, <1>7, <1>8, <1>9 DEF TypeOK
    <2>2. AcksAreReceived' /\ MarkedMeansAcked'
        BY <1>1, <1>2, <1>8, <1>9 DEF AcksAreReceived, MarkedMeansAcked
    <2>3. QED
        BY <1>1, <1>7, <1>8, <2>1, <2>2 DEF FlowInv, BytesCountedOnce
<1>10. ASSUME NEW slot \in Slots, msg_id < MaxMsgId,
              sim_window' = [w EXCEPT ![slot] =
                    [age |-> 0, id |-> msg_id, status |-> "SIM_SENT"]],
              net' = net \cup {Sim(msg_id)},
              msg_id' = msg_id + 1,
              sim_age' = [sim_age EXCEPT ![msg_id] = 0]
       PROVE  FlowInv'
    <2>1. msg_id \in Ids /\ msg_id' \in 0 .. MaxMsgId
        BY <1>1, <1>10, ParametersAssumption DEF TypeOK, Ids
    <2>2. [age |-> 0, id |-> msg_id, status |-> "SIM_SENT"] \in SlotType
        BY <2>1 DEF SlotType, Statuses
    <2>3. Sim(msg_id) \in Packets /\ Sim(msg_id).acks = {}
        BY <2>1 DEF Sim, Packets
    <2>4. sim_window' \in [Slots -> SlotType]
        BY <1>2, <1>10, <2>2
    <2>5. net' \subseteq Packets /\ sim_age' \in [Ids -> Nat]
        BY <1>1, <1>10, <2>1, <2>3 DEF TypeOK
    <2>6. TypeOK'
        BY <1>1, <1>7, <1>8, <2>1, <2>4, <2>5 DEF TypeOK
    <2>7. AcksAreReceived'
        BY <1>1, <1>8, <1>10, <2>3 DEF AcksAreReceived
    <2>8. MarkedMeansAcked'
        BY <1>1, <1>2, <1>8, <1>10 DEF MarkedMeansAcked
    <2>9. QED
        BY <1>1, <1>7, <1>8, <2>6, <2>7, <2>8 DEF FlowInv, BytesCountedOnce
<1>11. QED
    BY <1>9, <1>10 DEF SendSimulation, w

LEMMA SendPendingDataKeeps == FlowInv /\ SendPendingData => FlowInv'
<1> SUFFICES ASSUME FlowInv, SendPendingData PROVE FlowInv'
    OBVIOUS
<1>1. CASE SendDirect
    <2>1. TypeOK /\ StopMeansFinished /\ AnnouncedOnce /\ MarkedMeansAcked
          /\ AcksAreReceived /\ BytesCountedOnce
        BY DEF FlowInv
    <2>2. received_bytes \in Nat /\ received \in SUBSET Ids
          /\ stop_sending_sim \in BOOLEAN
        BY <2>1 DEF TypeOK
    <2>3. stop_sending_sim => finished \/ Enough(received_bytes)
        BY <2>1 DEF StopMeansFinished
    <2>4. CheckAndSetToFinished(received_bytes, received, stop_sending_sim)
        BY <1>1 DEF SendDirect
    <2>5. /\ finished' \in BOOLEAN /\ stop_sending_sim' \in BOOLEAN
          /\ received' \subseteq Ids /\ received_bytes' = received_bytes
          /\ finish_events' \in Nat
          /\ StopMeansFinished' /\ AnnouncedOnce'
          /\ ~finished' => /\ ~finished /\ ~stop_sending_sim'
                           /\ received' = received
        BY <2>1, <2>2, <2>3, <2>4, CheckKeeps
    <2>6. msg_id \in Ids /\ msg_id' \in 0 .. MaxMsgId
        BY <1>1, <2>1, ParametersAssumption DEF SendDirect, TypeOK, Ids
    <2>7. releases' \subseteq Releases
        BY <1>1, <2>1, <2>6 DEF SendDirect, TypeOK, Releases
    <2>8. UNCHANGED << direct, sim_window, net, sim_age, data_ids_recived, receptions,
                       acked_msg_ids, losses >>
        BY <1>1 DEF SendPendingData, SendDirect, receiver
    <2>9. TypeOK'
        BY <2>1, <2>5, <2>6, <2>7, <2>8 DEF TypeOK
    <2>10. AcksAreReceived' /\ MarkedMeansAcked'
        BY <2>1, <2>8 DEF AcksAreReceived, MarkedMeansAcked
    <2>11. QED
        BY <2>1, <2>5, <2>8, <2>9, <2>10 DEF FlowInv, BytesCountedOnce
<1>2. ASSUME NEW wait \in Waits, SendSimulation(wait) PROVE FlowInv'
    BY <1>2, SendSimulationKeeps DEF SendPendingData
<1>3. QED
    BY <1>1, <1>2 DEF SendPendingData

\* What check_and_set_to_finished does at the head of receive.
LEMMA CheckOnEntry ==
    ASSUME FlowInv, CheckAndSetToFinished(received_bytes, received, stop_sending_sim)
    PROVE  /\ finished' \in BOOLEAN /\ stop_sending_sim' \in BOOLEAN
           /\ received' \subseteq Ids /\ received_bytes' = received_bytes
           /\ finish_events' \in Nat
           /\ StopMeansFinished' /\ AnnouncedOnce'
           /\ ~finished' => /\ ~finished /\ ~stop_sending_sim'
                            /\ received' = received
<1>1. TypeOK /\ StopMeansFinished /\ AnnouncedOnce
    BY DEF FlowInv
<1>2. received_bytes \in Nat /\ received \in SUBSET Ids /\ stop_sending_sim \in BOOLEAN
    BY <1>1 DEF TypeOK
<1>3. stop_sending_sim => finished \/ Enough(received_bytes)
    BY <1>1 DEF StopMeansFinished
<1>4. QED
    BY <1>1, <1>2, <1>3, CheckKeeps

LEMMA ReceiveSimKeeps ==
    ASSUME FlowInv, NEW p \in net, ReceiveSim(p)
    PROVE  FlowInv'
<1>1. TypeOK /\ MarkedMeansAcked /\ AcksAreReceived /\ BytesCountedOnce
    BY DEF FlowInv
<1>2. /\ finished' \in BOOLEAN /\ stop_sending_sim' \in BOOLEAN
      /\ received' \subseteq Ids /\ received_bytes' = received_bytes
      /\ finish_events' \in Nat
      /\ StopMeansFinished' /\ AnnouncedOnce'
      /\ ~finished' => /\ ~finished /\ ~stop_sending_sim'
                       /\ received' = received
    BY CheckOnEntry DEF ReceiveSim
<1>3. UNCHANGED << direct, sim_window, msg_id, data_ids_recived, receptions, acked_msg_ids,
                   releases, losses, sim_age >>
    BY DEF ReceiveSim, sender, receiver
<1>4. net' = (net \ {p}) \cup {SimAck(p.id)}
    BY DEF ReceiveSim
<1>5. SimAck(p.id) \in Packets /\ SimAck(p.id).acks = {}
    BY <1>1 DEF TypeOK, Packets, SimAck, ReceiveSim
<1>6. TypeOK'
    BY <1>1, <1>2, <1>3, <1>4, <1>5 DEF TypeOK
<1>7. AcksAreReceived' /\ MarkedMeansAcked'
    BY <1>1, <1>3, <1>4, <1>5 DEF AcksAreReceived, MarkedMeansAcked
<1>8. QED
    BY <1>1, <1>2, <1>3, <1>6, <1>7 DEF FlowInv, BytesCountedOnce

LEMMA ReceiveSimAckKeeps ==
    ASSUME FlowInv, NEW p \in net, ReceiveSimAck(p)
    PROVE  FlowInv'
<1>1. TypeOK /\ MarkedMeansAcked /\ AcksAreReceived /\ BytesCountedOnce
    BY DEF FlowInv
<1>2. /\ finished' \in BOOLEAN /\ stop_sending_sim' \in BOOLEAN
      /\ received' \subseteq Ids /\ received_bytes' = received_bytes
      /\ finish_events' \in Nat
      /\ StopMeansFinished' /\ AnnouncedOnce'
      /\ ~finished' => /\ ~finished /\ ~stop_sending_sim'
                       /\ received' = received
    BY CheckOnEntry DEF ReceiveSimAck
<1>3. UNCHANGED << direct, msg_id, data_ids_recived, receptions, acked_msg_ids, losses, sim_age >>
    BY DEF ReceiveSimAck, receiver
<1>4. net' = net \ {p}
    BY DEF ReceiveSimAck
<1>5. p.id \in Ids
    BY <1>1 DEF TypeOK, Packets, ReceiveSimAck
<1>6. sim_window' \in [Slots -> SlotType] /\ releases' \subseteq Releases /\ MarkedMeansAcked'
    <2>1. CASE LateSimAck(p)
        <3>1. sim_window' = sim_window /\ releases' = releases \cup ReleasesOf(p.id, 0)
            BY <2>1 DEF LateSimAck
        <3>2. ReleasesOf(p.id, 0) \subseteq Releases
            BY <1>5, ParametersAssumption DEF ReleasesOf, Releases
        <3>3. QED
            BY <1>1, <1>3, <3>1, <3>2 DEF TypeOK, MarkedMeansAcked
    <2>2. CASE HeldSimAck(p)
        <3>1. PICK slot \in Slots :
                /\ sim_window[slot].id = p.id
                /\ sim_window' = [sim_window EXCEPT ![slot] =
                        [age |-> -ReleaseDelay(slot), id |-> p.id,
                         status |-> "SIM_ACK_RECEIVED"]]
                /\ releases' = releases \cup ReleasesOf(p.id, ReleaseDelay(slot))
            BY <2>2 DEF HeldSimAck, IsFirst, SlotsById
        <3>2. ReleaseDelay(slot) \in Nat
            <4>1. sim_window[slot].age \in Int /\ WorstRtt \in Nat
                BY <1>1, ParametersAssumption DEF TypeOK, SlotType
            <4>2. QED
                BY <4>1 DEF ReleaseDelay
        <3>3. ReleasesOf(p.id, ReleaseDelay(slot)) \subseteq Releases
            BY <1>5, <3>2, ParametersAssumption DEF ReleasesOf, Releases
        <3>4. sim_window' \in [Slots -> SlotType]
            <4>1. sim_window \in [Slots -> SlotType]
                BY <1>1 DEF TypeOK
            <4>2. [age |-> -ReleaseDelay(slot), id |-> p.id,
                   status |-> "SIM_ACK_RECEIVED"] \in SlotType
                BY <1>5, <3>2 DEF SlotType, Statuses
            <4>3. QED
                BY <3>1, <4>1, <4>2
        <3>5. \A i \in Slots : sim_window'[i].status = "DATA_ACK_RECEIVED"
                                => sim_window[i].status = "DATA_ACK_RECEIVED"
            BY <1>1, <3>1 DEF TypeOK, SlotType
        <3>6. QED
            BY <1>1, <1>3, <3>1, <3>3, <3>4, <3>5 DEF TypeOK, MarkedMeansAcked
    <2>3. QED
        BY <2>1, <2>2 DEF ReceiveSimAck
<1>7. TypeOK'
    BY <1>1, <1>2, <1>3, <1>4, <1>6 DEF TypeOK
<1>8. AcksAreReceived'
    BY <1>1, <1>3, <1>4 DEF AcksAreReceived
<1>9. QED
    BY <1>1, <1>2, <1>3, <1>6, <1>7, <1>8 DEF FlowInv, BytesCountedOnce

LEMMA ReceiveDataAckKeeps ==
    ASSUME FlowInv, NEW p \in net, ReceiveDataAck(p)
    PROVE  FlowInv'
<1> DEFINE new == {i \in p.acks : i < SizeInPkt} \ acked_msg_ids
<1>1. TypeOK /\ MarkedMeansAcked /\ AcksAreReceived /\ BytesCountedOnce
    BY DEF FlowInv
<1>2. /\ finished' \in BOOLEAN /\ stop_sending_sim' \in BOOLEAN
      /\ received' \subseteq Ids /\ received_bytes' = received_bytes
      /\ finish_events' \in Nat
      /\ StopMeansFinished' /\ AnnouncedOnce'
      /\ ~finished' => /\ ~finished /\ ~stop_sending_sim'
                       /\ received' = received
    BY CheckOnEntry DEF ReceiveDataAck
<1>3. UNCHANGED << direct, msg_id, data_ids_recived, receptions, releases, losses, sim_age >>
    BY DEF ReceiveDataAck, receiver
<1>4. /\ acked_msg_ids' = acked_msg_ids \cup new
      /\ sim_window' = [i \in Slots |->
                IF i \in new
                THEN [sim_window[i] EXCEPT !.status = "DATA_ACK_RECEIVED"]
                ELSE sim_window[i]]
      /\ net' = net \ {p}
    BY DEF ReceiveDataAck
<1>5. new \subseteq data_ids_recived
    BY <1>1 DEF AcksAreReceived
<1> HIDE DEF new
<1>6. sim_window' \in [Slots -> SlotType]
    BY <1>1, <1>4 DEF TypeOK, SlotType, Statuses
<1>7. TypeOK'
    BY <1>1, <1>2, <1>3, <1>4, <1>5, <1>6 DEF TypeOK
<1>8. AcksAreReceived'
    BY <1>1, <1>3, <1>4, <1>5 DEF AcksAreReceived
<1>9. MarkedMeansAcked'
    BY <1>1, <1>4 DEF MarkedMeansAcked
<1>10. QED
    BY <1>1, <1>2, <1>3, <1>7, <1>8, <1>9 DEF FlowInv, BytesCountedOnce

LEMMA ReceiveDataKeeps ==
    ASSUME FlowInv, NEW p \in net, ReceiveData(p)
    PROVE  FlowInv'
<1> DEFINE done == finished \/ Enough(received_bytes)
           ids  == data_ids_recived \cup {p.id}
           ack  == ~done /\ Counted(receptions) = 0
<1>1. TypeOK /\ MarkedMeansAcked /\ AcksAreReceived /\ BytesCountedOnce
      /\ StopMeansFinished /\ AnnouncedOnce
    BY DEF FlowInv
<1>2. p.id \in Ids
    BY <1>1 DEF TypeOK, Packets, ReceiveData
<1>3. /\ data_ids_recived' = ids
      /\ receptions' = Counted(receptions)
      /\ net' = (net \ {p}) \cup (IF ack THEN {DataAck(ids)} ELSE {})
    BY DEF ReceiveData
<1>4. UNCHANGED << direct, sim_window, msg_id, acked_msg_ids, releases, losses, sim_age >>
    BY DEF ReceiveData, sender
<1>5. ids \subseteq Ids /\ data_ids_recived \subseteq ids
    BY <1>1, <1>2 DEF TypeOK
<1>6. DataAck(ids) \in Packets /\ DataAck(ids).acks = ids
    BY <1>5 DEF DataAck, Packets
<1>7. receptions' \in 0 .. AckEvery - 1
    BY <1>1, <1>3, ParametersAssumption DEF TypeOK, Counted
<1>8. net' \subseteq Packets /\ AcksAreReceived'
    <2> HIDE DEF ids, ack
    <2> QED
        BY <1>1, <1>3, <1>4, <1>5, <1>6 DEF TypeOK, AcksAreReceived
<1>9. MarkedMeansAcked'
    BY <1>1, <1>4 DEF MarkedMeansAcked
<1>10. /\ finished' \in BOOLEAN /\ stop_sending_sim' \in BOOLEAN
       /\ received' \subseteq Ids /\ received_bytes' \in Nat
       /\ finish_events' \in Nat
       /\ StopMeansFinished' /\ AnnouncedOnce' /\ BytesCountedOnce'
    <2>1. stop_sending_sim => finished
        BY <1>1 DEF StopMeansFinished
    <2>2. received_bytes \in Nat /\ received \in SUBSET Ids /\ stop_sending_sim \in BOOLEAN
          /\ finished \in BOOLEAN
        BY <1>1 DEF TypeOK
    <2>3. CASE done
        <3>1. CheckAndSetToFinished(received_bytes, received, stop_sending_sim)
            BY <2>3 DEF ReceiveData
        <3>2. finished'
            BY <2>2, <2>3, <3>1 DEF CheckAndSetToFinished
        <3>3. Cardinality(data_ids_recived) <= Cardinality(ids)
            BY <1>5, IdSets, FS_Subset
        <3>4. Cardinality(data_ids_recived) * Mss <= Cardinality(ids) * Mss
            BY <1>5, <3>3, IdSets, ProductMonotone, SizesAssumption
        <3>5. received_bytes <= Cardinality(ids) * Mss
            <4>1. Cardinality(data_ids_recived) * Mss \in Nat /\ Cardinality(ids) * Mss \in Nat
                BY <1>5, IdSets, SizesAssumption
            <4>2. QED
                BY <1>1, <2>2, <3>4, <4>1 DEF BytesCountedOnce
        <3>6. QED
            BY <1>3, <2>2, <3>1, <3>2, <3>5, CheckOnEntry DEF BytesCountedOnce
    <2>4. CASE ~done /\ ~Fresh(p.id)
        <3>1. CheckAndSetToFinished(received_bytes, received, stop_sending_sim)
            BY <2>4 DEF ReceiveData
        <3>2. data_ids_recived' = data_ids_recived
            BY <1>1, <1>3, <2>4 DEF BytesCountedOnce, Fresh
        <3>3. QED
            BY <1>1, <2>2, <3>1, <3>2, CheckOnEntry DEF BytesCountedOnce
    <2>5. CASE ~done /\ Fresh(p.id)
        <3>1. CheckAndSetToFinished(received_bytes + Mss, received \cup {p.id},
                                    stop_sending_sim)
            BY <2>5 DEF ReceiveData
        <3>2. received_bytes + Mss \in Nat /\ received \cup {p.id} \in SUBSET Ids
            BY <1>2, <2>2, SizesAssumption
        <3>3. /\ finished' \in BOOLEAN /\ stop_sending_sim' \in BOOLEAN
              /\ received' \subseteq Ids /\ received_bytes' = received_bytes + Mss
              /\ finish_events' \in Nat
              /\ StopMeansFinished' /\ AnnouncedOnce'
              /\ ~finished' => received' = received \cup {p.id}
            BY <1>1, <2>1, <2>2, <3>1, <3>2, CheckKeeps
        <3>4. received_bytes + Mss = Cardinality(received \cup {p.id}) * Mss
            <4>1. received_bytes = Cardinality(received) * Mss
                BY <1>1, <2>5 DEF BytesCountedOnce
            <4>2. Cardinality(received) \in Nat
                  /\ Cardinality(received \cup {p.id}) = Cardinality(received) + 1
                BY <1>2, <2>2, <2>5, IdSets DEF Fresh
            <4>3. QED
                BY <4>1, <4>2, SizesAssumption
        <3>5. ids = received \cup {p.id}
            BY <1>1, <2>5 DEF BytesCountedOnce
        <3>6. received_bytes' = Cardinality(data_ids_recived') * Mss
            BY <1>3, <3>3, <3>4, <3>5
        <3>7. received_bytes' \in Nat
            BY <3>2, <3>3
        <3>8. BytesCountedOnce'
            <4>1. received_bytes' <= Cardinality(data_ids_recived') * Mss
                <5> HIDE DEF ids
                <5> QED
                    BY <3>6, <3>7
            <4>2. ~finished' => received' = data_ids_recived'
                BY <1>3, <3>3, <3>5
            <4>3. QED
                BY <3>6, <4>1, <4>2 DEF BytesCountedOnce
        <3>9. QED
            BY <3>3, <3>7, <3>8
    <2>6. QED
        BY <2>3, <2>4, <2>5
<1> HIDE DEF ids, ack
<1>11. TypeOK'
    BY <1>1, <1>3, <1>4, <1>5, <1>7, <1>8, <1>10 DEF TypeOK
<1>12. QED
    BY <1>8, <1>9, <1>10, <1>11 DEF FlowInv

LEMMA ReleaseDataKeeps ==
    ASSUME FlowInv, NEW r \in releases, ReleaseData(r)
    PROVE  FlowInv'
<1>1. TypeOK /\ MarkedMeansAcked /\ AcksAreReceived /\ BytesCountedOnce
      /\ StopMeansFinished /\ AnnouncedOnce
    BY DEF FlowInv
<1>2. Data(r.id, r.copy) \in Packets /\ Data(r.id, r.copy).acks = {}
    BY <1>1 DEF TypeOK, Releases, Data, Packets
<1>3. UNCHANGED << direct, sim_window, msg_id, stop_sending_sim, finished, received,
                   received_bytes, data_ids_recived, receptions, acked_msg_ids,
                   finish_events, losses, sim_age >>
    BY DEF ReleaseData, sender, receiver
<1>4. releases' = releases \ {r} /\ net' = net \cup {Data(r.id, r.copy)}
    BY DEF ReleaseData
<1>5. TypeOK'
    BY <1>1, <1>2, <1>3, <1>4 DEF TypeOK
<1>6. AcksAreReceived' /\ MarkedMeansAcked'
    BY <1>1, <1>2, <1>3, <1>4 DEF AcksAreReceived, MarkedMeansAcked
<1>7. BytesCountedOnce' /\ StopMeansFinished' /\ AnnouncedOnce'
    BY <1>1, <1>3 DEF BytesCountedOnce, StopMeansFinished, AnnouncedOnce
<1>8. QED
    BY <1>5, <1>6, <1>7 DEF FlowInv

LEMMA LoseKeeps ==
    ASSUME FlowInv, NEW p \in net, Lose(p)
    PROVE  FlowInv'
<1>1. TypeOK /\ MarkedMeansAcked /\ AcksAreReceived /\ BytesCountedOnce
      /\ StopMeansFinished /\ AnnouncedOnce
    BY DEF FlowInv
<1>2. UNCHANGED << direct, sim_window, msg_id, stop_sending_sim, finished, received,
                   received_bytes, data_ids_recived, receptions, acked_msg_ids,
                   finish_events, releases, sim_age >>
    BY DEF Lose, sender, receiver
<1>3. net' = net \ {p}
    BY DEF Lose
<1>4. losses' \in 0 .. MaxLoss
    BY <1>1, ParametersAssumption DEF Lose, TypeOK
<1>5. TypeOK'
    BY <1>1, <1>2, <1>3, <1>4 DEF TypeOK
<1>6. AcksAreReceived' /\ MarkedMeansAcked'
    BY <1>1, <1>2, <1>3 DEF AcksAreReceived, MarkedMeansAcked
<1>7. BytesCountedOnce' /\ StopMeansFinished' /\ AnnouncedOnce'
    BY <1>1, <1>2 DEF BytesCountedOnce, StopMeansFinished, AnnouncedOnce
<1>8. QED
    BY <1>5, <1>6, <1>7 DEF FlowInv

LEMMA TickKeeps == FlowInv /\ Tick => FlowInv'
<1> SUFFICES ASSUME FlowInv, Tick PROVE FlowInv'
    OBVIOUS
<1>1. TypeOK /\ MarkedMeansAcked /\ AcksAreReceived /\ BytesCountedOnce
      /\ StopMeansFinished /\ AnnouncedOnce
    BY DEF FlowInv
<1>2. UNCHANGED << direct, msg_id, stop_sending_sim, finished, received, received_bytes,
                   data_ids_recived, receptions, acked_msg_ids, finish_events,
                   net, losses >>
    BY DEF Tick, receiver
<1>3. sim_window' = [i \in Slots |->
            IF sim_window[i].status = "INIT" THEN sim_window[i]
            ELSE [sim_window[i] EXCEPT !.age = Older(@)]]
    BY DEF Tick
<1>4. sim_window' \in [Slots -> SlotType]
    <2>1. ASSUME NEW i \in Slots
          PROVE  [sim_window[i] EXCEPT !.age = Older(@)] \in SlotType
        <3>1. sim_window[i] \in SlotType
            BY <1>1 DEF TypeOK
        <3>2. Older(sim_window[i].age) \in Int
            BY <3>1, ClockAssumption DEF Older, SlotType
        <3>3. QED
            BY <3>1, <3>2 DEF SlotType
    <2>2. QED
        BY <1>1, <1>3, <2>1 DEF TypeOK
<1>5. releases' \subseteq Releases
    <2>1. releases' = {[r EXCEPT !.left = @ - 1] : r \in releases}
          /\ \A r \in releases : r.left > 0
        BY DEF Tick
    <2>2. ASSUME NEW r \in releases PROVE [r EXCEPT !.left = @ - 1] \in Releases
        <3>1. r \in Releases /\ r.left > 0
            BY <1>1, <2>1 DEF TypeOK
        <3>2. r.left - 1 \in Nat
            BY <3>1 DEF Releases
        <3>3. QED
            BY <3>1, <3>2 DEF Releases
    <2>3. QED
        BY <2>1, <2>2
<1>6. sim_age' \in [Ids -> Nat]
    BY <1>1 DEF Tick, TypeOK
<1>7. TypeOK'
    BY <1>1, <1>2, <1>4, <1>5, <1>6 DEF TypeOK
<1>8. \A i \in Slots : sim_window'[i].status = "DATA_ACK_RECEIVED"
                        => sim_window[i].status = "DATA_ACK_RECEIVED"
    BY <1>1, <1>3 DEF TypeOK, SlotType
<1>9. AcksAreReceived' /\ MarkedMeansAcked'
    BY <1>1, <1>2, <1>8 DEF AcksAreReceived, MarkedMeansAcked
<1>10. BytesCountedOnce' /\ StopMeansFinished' /\ AnnouncedOnce'
    BY <1>1, <1>2 DEF BytesCountedOnce, StopMeansFinished, AnnouncedOnce
<1>11. QED
    BY <1>7, <1>9, <1>10 DEF FlowInv

LEMMA NextKeeps == FlowInv /\ [Next]_vars => FlowInv'
<1> SUFFICES ASSUME FlowInv, [Next]_vars PROVE FlowInv'
    OBVIOUS
<1>1. CASE SendPendingData
    BY <1>1, SendPendingDataKeeps
<1>2. ASSUME NEW p \in net, Receive(p) PROVE FlowInv'
    BY <1>2, ReceiveSimKeeps, ReceiveSimAckKeeps, ReceiveDataAckKeeps,
       ReceiveDataKeeps DEF Receive
<1>3. ASSUME NEW r \in releases, ReleaseData(r) PROVE FlowInv'
    BY <1>3, ReleaseDataKeeps
<1>4. ASSUME NEW p \in net, Lose(p) PROVE FlowInv'
    BY <1>4, LoseKeeps
<1>5. CASE Tick
    BY <1>5, TickKeeps
<1>6. CASE UNCHANGED vars
    BY <1>6 DEF vars, FlowInv, TypeOK, AcksAreReceived, MarkedMeansAcked,
                BytesCountedOnce, StopMeansFinished, AnnouncedOnce
<1>7. QED
    BY <1>1, <1>2, <1>3, <1>4, <1>5, <1>6 DEF Next

-----------------------------------------------------------------------------
(* ReservationInv: each message holds one slot, and is in one stage.       *)

LEMMA InitReservation == Init => ReservationInv
<1> SUFFICES ASSUME Init PROVE ReservationInv
    OBVIOUS
<1>1. /\ \A i \in Slots : sim_window[i] = EmptySlot
      /\ msg_id = 0 /\ releases = {} /\ Probes = {}
    BY DEF Init, Probes
<1>2. EmptySlot.id = NoId /\ NoId = -1 /\ NoId \notin Ids
    BY DEF EmptySlot, NoId, Ids
<1>3. IdsDrawn /\ OneSlotEach
    BY <1>1, <1>2 DEF IdsDrawn, OneSlotEach
<1>4. OneStageEach /\ AgesAgree /\ ReservationKept /\ ReleasedOnTime
    BY <1>1, <1>2 DEF OneStageEach, AgesAgree, ReservationKept, ReleasedOnTime
<1>5. QED
    BY <1>3, <1>4 DEF ReservationInv

\* What the arguments about a slot, a probe and a release need of their types.
LEMMA ReservationTypes ==
    ASSUME TypeOK
    PROVE  /\ \A i \in Slots : /\ sim_window[i].id \in Ids \cup {NoId}
                               /\ sim_window[i].age \in Int
           /\ \A p \in Probes : p \in net /\ p.id \in Ids
           /\ \A r \in releases : r.id \in Ids /\ r.left \in Nat
           /\ \A i \in Ids : sim_age[i] \in Nat
           /\ \A i \in Ids : i \in Int /\ i >= 0 /\ i # NoId
           /\ msg_id \in Nat /\ NoId < msg_id
<1>1. MaxMsgId \in Nat
    BY ParametersAssumption
<1>2. \A p \in Probes : p \in net /\ p.id \in Ids
    BY DEF Probes, TypeOK, Packets
<1>3. \A r \in releases : r.id \in Ids /\ r.left \in Nat
    BY DEF TypeOK, Releases
<1>4. \A i \in Slots : sim_window[i].id \in Ids \cup {NoId} /\ sim_window[i].age \in Int
    BY DEF TypeOK, SlotType
<1>5. /\ \A i \in Ids : i \in Int /\ i >= 0 /\ i # NoId
      /\ \A i \in Ids : sim_age[i] \in Nat
      /\ msg_id \in Nat /\ NoId < msg_id
    BY <1>1 DEF TypeOK, Ids, NoId
<1>6. QED
    BY <1>2, <1>3, <1>4, <1>5

\* A step that adds no probe and no release, and leaves every slot its message
\* and its time.
LEMMA QuietStep ==
    ASSUME ReservationInv, TypeOK,
           Probes' \subseteq Probes, releases' \subseteq releases, UNCHANGED << msg_id, sim_age >>,
           \A i \in Slots : /\ sim_window'[i].id = sim_window[i].id
                            /\ sim_window'[i].age = sim_window[i].age
                            /\ sim_window'[i].status = "INIT" => sim_window[i].status = "INIT"
    PROVE  ReservationInv'
<1>1. IdsDrawn' /\ OneSlotEach' /\ OneStageEach' /\ AgesAgree'
    BY DEF ReservationInv, IdsDrawn, OneSlotEach, OneStageEach, AgesAgree
<1>2. ReservationKept'
    BY DEF ReservationInv, ReservationKept
<1>3. \A r \in releases : SlotsById(r.id)' = SlotsById(r.id)
    BY DEF SlotsById
<1>4. Synced => ReleasedOnTime'
    BY <1>3 DEF ReservationInv, ReleasedOnTime
<1>5. QED
    BY <1>1, <1>2, <1>4 DEF ReservationInv

\* A search of the window empties no slot whose DATA waits for its release.
LEMMA SearchedSlots ==
    ASSUME NEW wait \in Waits, NEW i \in Slots
    PROVE  LET w == WindowSearched(sim_window, wait)
           IN  w[i] = sim_window[i] \/ (w[i] = EmptySlot /\ sim_window[i].age > wait)
BY DEF WindowSearched, DropSimIfTimeoutPass

LEMMA SendSimulationReserves ==
    ASSUME ReservationInv, TypeOK, NEW wait \in Waits, SendSimulation(wait)
    PROVE  ReservationInv'
<1> DEFINE w == WindowSearched(sim_window, wait)
<1>1. \A i \in Slots : w[i] = sim_window[i] \/ (w[i] = EmptySlot /\ sim_window[i].age > wait)
    BY SearchedSlots
<1>2. EmptySlot.id = NoId /\ EmptySlot.age = 0 /\ wait \in Nat
    BY ClockAssumption DEF EmptySlot
<1>3. /\ IdsDrawn /\ OneSlotEach /\ OneStageEach /\ AgesAgree
      /\ ReservationKept /\ (Synced => ReleasedOnTime)
    BY DEF ReservationInv
<1>4. /\ \A i \in Slots : /\ sim_window[i].id \in Ids \cup {NoId}
                          /\ sim_window[i].age \in Int
      /\ \A p \in Probes : p \in net /\ p.id \in Ids
      /\ \A r \in releases : r.id \in Ids /\ r.left \in Nat
      /\ \A i \in Ids : sim_age[i] \in Nat
      /\ \A i \in Ids : i \in Int /\ i >= 0 /\ i # NoId
      /\ msg_id \in Nat /\ NoId < msg_id
    BY ReservationTypes
<1>5. releases' = releases
    BY DEF SendSimulation
<1>6. w \in [Slots -> SlotType]
    BY WindowSearchedKeeps DEF TypeOK
<1> HIDE DEF w
<1>7. /\ \A i \in Slots : w[i].id < msg_id
      /\ \A i \in Slots : w[i].status = "INIT" => w[i].id = NoId
      /\ \A i, j \in Slots : i # j /\ w[i].id = w[j].id => w[i].id = NoId
      /\ \A i \in Slots : w[i].id # NoId => w[i] = sim_window[i]
    BY <1>1, <1>2, <1>3, <1>4 DEF IdsDrawn, OneSlotEach
<1>8. ASSUME NEW r \in releases, r.left > 0
      PROVE  \E i \in Slots : /\ w[i].id = r.id /\ w[i].age = -r.left
                              /\ w[i].status # "INIT"
    <2>1. PICK i \in Slots : /\ sim_window[i].id = r.id /\ sim_window[i].age = -r.left
                             /\ sim_window[i].status # "INIT"
        BY <1>3, <1>8 DEF ReservationKept
    <2>2. ~(sim_window[i].age > wait)
        BY <1>2, <1>4, <1>8, <2>1
    <2>3. QED
        BY <1>1, <2>1, <2>2
<1>9. CASE sim_window' = w /\ UNCHANGED << msg_id, net, sim_age >>
    <2>1. Probes' = Probes
        BY <1>9 DEF Probes
    <2>2. IdsDrawn' /\ OneSlotEach' /\ OneStageEach'
        BY <1>3, <1>5, <1>7, <1>9, <2>1 DEF IdsDrawn, OneSlotEach, OneStageEach
    <2>3. AgesAgree'
        BY <1>3, <1>4, <1>7, <1>9 DEF AgesAgree
    <2>4. ReservationKept'
        BY <1>5, <1>8, <1>9 DEF ReservationKept
    <2>5. Synced => ReleasedOnTime'
        BY <1>3, <1>4, <1>5, <1>7, <1>9 DEF ReleasedOnTime, SlotsById
    <2>6. QED
        BY <2>2, <2>3, <2>4, <2>5 DEF ReservationInv
<1>10. ASSUME NEW slot \in Slots, w[slot].status = "INIT", msg_id < MaxMsgId,
              sim_window' = [w EXCEPT ![slot] =
                    [age |-> 0, id |-> msg_id, status |-> "SIM_SENT"]],
              net' = net \cup {Sim(msg_id)},
              msg_id' = msg_id + 1,
              sim_age' = [sim_age EXCEPT ![msg_id] = 0]
       PROVE  ReservationInv'
    <2>1. /\ \A i \in Slots : i # slot => sim_window'[i] = w[i]
          /\ sim_window'[slot].id = msg_id /\ sim_window'[slot].age = 0
          /\ sim_window'[slot].status # "INIT"
        BY <1>6, <1>10
    <2>2. msg_id \in Ids
        BY <1>4, <1>10, ParametersAssumption DEF Ids
    <2>3. /\ sim_age'[msg_id] = 0
          /\ \A i \in Ids : i # msg_id => sim_age'[i] = sim_age[i]
        BY <1>10, <2>2 DEF TypeOK
    <2>4. Probes' = Probes \cup {Sim(msg_id)} /\ Sim(msg_id).id = msg_id
        BY <1>10 DEF Probes, Sim
    <2>5. IdsDrawn'
        <3>1. \A i \in Slots : sim_window'[i].id < msg_id + 1
            <4>1. \A i \in Slots : w[i].id \in Int
                BY <1>4, <1>6 DEF SlotType, NoId
            <4>2. QED
                BY <1>4, <1>7, <2>1, <4>1
        <3>2. /\ \A p \in Probes' : p.id < msg_id + 1
              /\ \A r \in releases' : r.id < msg_id + 1
            BY <1>3, <1>4, <1>5, <2>4 DEF IdsDrawn
        <3>3. QED
            BY <1>10, <3>1, <3>2 DEF IdsDrawn
    <2>6. OneSlotEach'
        BY <1>4, <1>7, <2>1 DEF OneSlotEach
    <2>7. OneStageEach'
        BY <1>3, <1>4, <1>5, <2>4 DEF OneStageEach, IdsDrawn
    <2>8. AgesAgree'
        <3>1. ASSUME NEW i \in Slots, i # slot, w[i].id \in Ids
              PROVE  sim_age'[w[i].id] >= WorstRtt \/ sim_age'[w[i].id] >= w[i].age
            <4>1. w[i] = sim_window[i] /\ w[i].id # msg_id
                BY <1>4, <1>7, <3>1
            <4>2. sim_age'[w[i].id] = sim_age[w[i].id]
                BY <2>3, <3>1, <4>1
            <4>3. QED
                BY <1>3, <3>1, <4>1, <4>2 DEF AgesAgree
        <3>2. sim_age'[sim_window'[slot].id] >= sim_window'[slot].age
            BY <2>1, <2>3
        <3>3. QED
            BY <2>1, <3>1, <3>2 DEF AgesAgree
    <2>9. ReservationKept'
        BY <1>5, <1>8, <1>10, <2>1 DEF ReservationKept
    <2>10. Synced => ReleasedOnTime'
        <3>1. SUFFICES ASSUME Synced, NEW r \in releases, NEW i \in Slots,
                              sim_window'[i].id = r.id
                       PROVE  sim_age'[r.id] + r.left >= WorstRtt
            BY <1>5 DEF ReleasedOnTime, SlotsById
        <3>2. r.id \in Ids /\ r.id < msg_id
            BY <1>3, <1>4 DEF IdsDrawn
        <3>3. i # slot /\ sim_window[i].id = r.id /\ sim_age'[r.id] = sim_age[r.id]
            BY <1>4, <1>7, <2>1, <2>3, <3>1, <3>2
        <3>4. QED
            BY <1>3, <3>1, <3>3 DEF ReleasedOnTime, SlotsById
    <2>11. QED
        BY <2>5, <2>6, <2>7, <2>8, <2>9, <2>10 DEF ReservationInv
<1>11. QED
    BY <1>9, <1>10 DEF SendSimulation, IsFirst, FreeSlots, w

LEMMA SendDirectReserves ==
    ASSUME ReservationInv, TypeOK, SendDirect
    PROVE  ReservationInv'
<1> DEFINE d == [id |-> msg_id, copy |-> 1, left |-> 0]
<1>1. /\ IdsDrawn /\ OneSlotEach /\ OneStageEach /\ AgesAgree
      /\ ReservationKept /\ (Synced => ReleasedOnTime)
    BY DEF ReservationInv
<1>2. /\ \A i \in Slots : sim_window[i].id \in Ids \cup {NoId}
      /\ \A p \in Probes : p \in net /\ p.id \in Ids
      /\ \A r \in releases : r.id \in Ids /\ r.left \in Nat
      /\ \A i \in Ids : i \in Int /\ i >= 0 /\ i # NoId
      /\ msg_id \in Nat /\ NoId < msg_id
    BY ReservationTypes
<1>3. /\ releases' = releases \cup {d} /\ msg_id' = msg_id + 1
      /\ d.id = msg_id /\ d.left = 0
      /\ UNCHANGED << sim_window, net, sim_age >>
    BY DEF SendDirect
<1> HIDE DEF d
<1>4. Probes' = Probes
    BY <1>3 DEF Probes
<1>5. \A i \in Slots : sim_window[i].id \in Int /\ NoId \in Int
    BY <1>2 DEF NoId
<1>6. IdsDrawn'
    BY <1>1, <1>2, <1>3, <1>4, <1>5 DEF IdsDrawn
<1>7. OneSlotEach' /\ AgesAgree' /\ ReservationKept'
    BY <1>1, <1>3 DEF OneSlotEach, AgesAgree, ReservationKept
<1>8. OneStageEach'
    BY <1>1, <1>2, <1>3, <1>4 DEF OneStageEach, IdsDrawn
<1>9. SlotsById(d.id) = {}
    BY <1>1, <1>2, <1>3, <1>5 DEF SlotsById, IdsDrawn
<1>10. Synced => ReleasedOnTime'
    BY <1>1, <1>3, <1>9 DEF ReleasedOnTime, SlotsById
<1>11. QED
    BY <1>6, <1>7, <1>8, <1>10 DEF ReservationInv

LEMMA ReceiveSimReserves ==
    ASSUME ReservationInv, TypeOK, NEW p \in net, ReceiveSim(p)
    PROVE  ReservationInv'
<1>1. /\ IdsDrawn /\ OneSlotEach /\ OneStageEach /\ AgesAgree
      /\ ReservationKept /\ (Synced => ReleasedOnTime)
    BY DEF ReservationInv
<1>2. p \in Probes
    BY DEF Probes, ReceiveSim
<1>3. Probes' \subseteq (Probes \ {p}) \cup {SimAck(p.id)} /\ SimAck(p.id).id = p.id
    BY DEF Probes, ReceiveSim, SimAck
<1>4. UNCHANGED << sim_window, msg_id, releases, sim_age >>
    BY DEF ReceiveSim, sender
<1>5. IdsDrawn'
    BY <1>1, <1>2, <1>3, <1>4 DEF IdsDrawn
<1>6. OneStageEach'
    <2>1. \A q \in Probes \ {p} : q.id # p.id
        BY <1>1, <1>2 DEF OneStageEach
    <2>2. \A q, s \in Probes' : q.id = s.id => q = s
        BY <1>1, <1>2, <1>3, <2>1 DEF OneStageEach
    <2>3. \A q \in Probes', r \in releases' : q.id # r.id
        BY <1>1, <1>2, <1>3, <1>4 DEF OneStageEach
    <2>4. QED
        BY <2>2, <2>3 DEF OneStageEach
<1>7. OneSlotEach' /\ AgesAgree' /\ ReservationKept' /\ (Synced => ReleasedOnTime')
    BY <1>1, <1>4 DEF OneSlotEach, AgesAgree, ReservationKept, ReleasedOnTime, SlotsById
<1>8. QED
    BY <1>5, <1>6, <1>7 DEF ReservationInv

\* The SIM_ACK of a reservation hands its slot the time of the release.
LEMMA ReceiveSimAckReserves ==
    ASSUME ReservationInv, TypeOK, NEW p \in net, ReceiveSimAck(p)
    PROVE  ReservationInv'
<1>1. /\ IdsDrawn /\ OneSlotEach /\ OneStageEach /\ AgesAgree
      /\ ReservationKept /\ (Synced => ReleasedOnTime)
    BY DEF ReservationInv
<1>2. /\ \A i \in Slots : /\ sim_window[i].id \in Ids \cup {NoId}
                          /\ sim_window[i].age \in Int
      /\ \A r \in releases : r.id \in Ids /\ r.left \in Nat
      /\ \A i \in Ids : sim_age[i] \in Nat
      /\ \A i \in Ids : i \in Int /\ i >= 0 /\ i # NoId
      /\ WorstRtt \in Nat
    BY ReservationTypes, ParametersAssumption
<1>3. p \in Probes /\ p.id \in Ids
    BY ReservationTypes DEF Probes, ReceiveSimAck
<1>4. Probes' \subseteq Probes \ {p} /\ UNCHANGED << msg_id, sim_age >>
    BY DEF Probes, ReceiveSimAck
<1>5. \A q \in Probes' : q \in Probes /\ q.id # p.id
    BY <1>1, <1>3, <1>4 DEF OneStageEach
<1>6. \A r \in releases : r.id # p.id
    BY <1>1, <1>3 DEF OneStageEach
<1>7. \A left : \A r \in ReleasesOf(p.id, left) : r.id = p.id /\ r.left = left
    BY DEF ReleasesOf
<1>8. ASSUME NEW left, releases' = releases \cup ReleasesOf(p.id, left)
      PROVE  OneStageEach' /\ \A r \in releases' : r.id < msg_id'
    BY <1>1, <1>3, <1>4, <1>5, <1>7, <1>8 DEF OneStageEach, IdsDrawn
<1>9. ASSUME NEW slot \in Slots, sim_window[slot].id = p.id,
             sim_window' = [sim_window EXCEPT ![slot] =
                [age |-> -ReleaseDelay(slot), id |-> p.id, status |-> "SIM_ACK_RECEIVED"]],
             releases' = releases \cup ReleasesOf(p.id, ReleaseDelay(slot))
      PROVE  ReservationInv'
    <2> DEFINE delay == ReleaseDelay(slot)
    <2>1. /\ delay \in Nat
          /\ Synced => (delay >= WorstRtt - sim_window[slot].age)
        BY <1>2 DEF ReleaseDelay
    <2>2. /\ \A i \in Slots : i # slot => sim_window'[i] = sim_window[i]
          /\ sim_window'[slot].id = p.id /\ sim_window'[slot].age = -delay
          /\ sim_window'[slot].status = "SIM_ACK_RECEIVED"
          /\ releases' = releases \cup ReleasesOf(p.id, delay)
        BY <1>9 DEF TypeOK
    <2>3. \A r \in ReleasesOf(p.id, delay) : r.id = p.id /\ r.left = delay
        BY <1>7
    <2>4. OneStageEach' /\ \A r \in releases' : r.id < msg_id'
        BY <1>8, <1>9
    <2> HIDE DEF delay
    <2>5. \A i \in Slots : sim_window'[i].id = sim_window[i].id
        BY <1>9, <2>2
    <2>6. IdsDrawn'
        BY <1>1, <1>4, <1>5, <2>4, <2>5 DEF IdsDrawn
    <2>7. OneSlotEach'
        BY <1>1, <2>2, <2>5 DEF OneSlotEach
    <2>8. AgesAgree'
        <3>1. sim_age[p.id] \in Nat /\ sim_age[p.id] >= -delay
            BY <1>2, <1>3, <2>1
        <3>2. QED
            BY <1>1, <1>4, <2>2, <2>5, <3>1 DEF AgesAgree
    <2>9. ReservationKept'
        <3>1. ASSUME NEW r \in releases, r.left > 0
              PROVE  \E i \in Slots : /\ sim_window'[i].id = r.id
                                      /\ sim_window'[i].age = -r.left
                                      /\ sim_window'[i].status # "INIT"
            <4>1. PICK i \in Slots : /\ sim_window[i].id = r.id
                                     /\ sim_window[i].age = -r.left
                                     /\ sim_window[i].status # "INIT"
                BY <1>1, <3>1 DEF ReservationKept
            <4>2. i # slot
                BY <1>6, <1>9, <4>1
            <4>3. QED
                BY <2>2, <4>1, <4>2
        <3>2. QED
            BY <2>2, <2>3, <3>1 DEF ReservationKept
    <2>10. Synced => ReleasedOnTime'
        <3>1. SUFFICES ASSUME Synced, NEW r \in releases', SlotsById(r.id)' # {}
                       PROVE  sim_age[r.id] + r.left >= WorstRtt
            BY <1>4 DEF ReleasedOnTime
        <3>2. SlotsById(r.id)' = SlotsById(r.id)
            BY <2>5 DEF SlotsById
        <3>3. CASE r \in releases
            BY <1>1, <3>1, <3>2, <3>3 DEF ReleasedOnTime
        <3>4. CASE r \in ReleasesOf(p.id, delay)
            <4>1. sim_age[p.id] >= WorstRtt \/ sim_age[p.id] >= sim_window[slot].age
                BY <1>1, <1>3, <1>9 DEF AgesAgree
            <4>2. r.id = p.id /\ r.left = delay
                BY <2>3, <3>4
            <4>3. sim_age[p.id] \in Nat /\ sim_window[slot].age \in Int
                BY <1>2, <1>3
            <4>4. QED
                BY <1>2, <2>1, <3>1, <4>1, <4>2, <4>3
        <3>5. QED
            BY <2>2, <3>1, <3>3, <3>4
    <2>11. QED
        BY <2>4, <2>6, <2>7, <2>8, <2>9, <2>10 DEF ReservationInv
<1>10. CASE LateSimAck(p)
    <2>1. /\ sim_window' = sim_window /\ SlotsById(p.id) = {}
          /\ releases' = releases \cup ReleasesOf(p.id, 0)
        BY <1>10 DEF LateSimAck
    <2>2. OneStageEach' /\ \A r \in releases' : r.id < msg_id'
        BY <1>8, <2>1
    <2>3. IdsDrawn' /\ OneSlotEach' /\ AgesAgree'
        BY <1>1, <1>4, <1>5, <2>1, <2>2 DEF IdsDrawn, OneSlotEach, AgesAgree
    <2>4. ReservationKept'
        BY <1>1, <1>7, <2>1 DEF ReservationKept
    <2>5. Synced => ReleasedOnTime'
        <3>1. \A r : SlotsById(r.id)' = SlotsById(r.id)
            BY <2>1 DEF SlotsById
        <3>2. QED
            BY <1>1, <1>4, <1>7, <2>1, <3>1 DEF ReleasedOnTime
    <2>6. QED
        BY <2>2, <2>3, <2>4, <2>5 DEF ReservationInv
<1>11. QED
    BY <1>9, <1>10 DEF ReceiveSimAck, HeldSimAck, IsFirst, SlotsById

LEMMA TickReserves ==
    ASSUME ReservationInv, TypeOK, Tick
    PROVE  ReservationInv'
<1>1. /\ IdsDrawn /\ OneSlotEach /\ OneStageEach /\ AgesAgree
      /\ ReservationKept /\ (Synced => ReleasedOnTime)
    BY DEF ReservationInv
<1>2. /\ \A i \in Slots : /\ sim_window[i].id \in Ids \cup {NoId}
                          /\ sim_window[i].age \in Int
      /\ \A r \in releases : r.id \in Ids /\ r.left \in Nat
      /\ \A i \in Ids : sim_age[i] \in Nat
      /\ \A i \in Ids : i \in Int /\ i >= 0 /\ i # NoId
      /\ WorstRtt \in Nat /\ AgeCap \in Nat
    BY ReservationTypes, ParametersAssumption, ClockAssumption
<1>3. /\ \A r \in releases : r.left > 0
      /\ releases' = {[r EXCEPT !.left = @ - 1] : r \in releases}
      /\ UNCHANGED << msg_id, net >>
    BY DEF Tick
<1>4. ASSUME NEW i \in Slots
      PROVE  /\ sim_window'[i].id = sim_window[i].id
             /\ sim_window'[i].status = sim_window[i].status
             /\ sim_window[i].status # "INIT" => sim_window'[i].age = Older(sim_window[i].age)
    <2>1. sim_window[i] \in SlotType
        BY DEF TypeOK
    <2>2. sim_window'[i] = IF sim_window[i].status = "INIT" THEN sim_window[i]
                           ELSE [sim_window[i] EXCEPT !.age = Older(@)]
        BY DEF Tick
    <2>3. QED
        BY <2>1, <2>2 DEF SlotType
<1>5. \A i \in Ids : sim_age'[i] = IF i < msg_id /\ sim_age[i] < WorstRtt
                                   THEN sim_age[i] + 1 ELSE sim_age[i]
    BY DEF Tick
<1>6. \A s \in releases' : \E r \in releases : s.id = r.id /\ s.left = r.left - 1
    BY <1>3 DEF TypeOK, Releases
<1>7. Probes' = Probes
    BY <1>3 DEF Probes
<1>8. IdsDrawn' /\ OneSlotEach' /\ OneStageEach'
    BY <1>1, <1>3, <1>4, <1>6, <1>7 DEF IdsDrawn, OneSlotEach, OneStageEach
<1>9. AgesAgree'
    <2>1. SUFFICES ASSUME NEW i \in Slots, sim_window[i].id \in Ids
                   PROVE  \/ sim_age'[sim_window[i].id] >= WorstRtt
                          \/ sim_age'[sim_window[i].id] >= sim_window'[i].age
        BY <1>4 DEF AgesAgree
    <2> DEFINE id == sim_window[i].id
    <2>2. id < msg_id /\ sim_window[i].status # "INIT" /\ sim_age[id] \in Nat
        BY <1>1, <1>2, <2>1 DEF IdsDrawn, OneSlotEach
    <2>3. sim_window'[i].age <= sim_window[i].age + 1 /\ sim_window'[i].age \in Int
        BY <1>2, <1>4, <2>2 DEF Older
    <2>4. sim_age[id] >= WorstRtt \/ sim_age[id] >= sim_window[i].age
        BY <1>1, <2>1 DEF AgesAgree
    <2>5. sim_age'[id] = IF sim_age[id] < WorstRtt THEN sim_age[id] + 1 ELSE sim_age[id]
        BY <1>5, <2>1, <2>2
    <2>6. QED
        BY <1>2, <2>2, <2>3, <2>4, <2>5
<1>10. ReservationKept'
    <2>1. SUFFICES ASSUME NEW r \in releases, r.left - 1 > 0
                   PROVE  \E i \in Slots : /\ sim_window'[i].id = r.id
                                           /\ sim_window'[i].age = -(r.left - 1)
                                           /\ sim_window'[i].status # "INIT"
        BY <1>6 DEF ReservationKept
    <2>2. PICK i \in Slots : /\ sim_window[i].id = r.id
                             /\ sim_window[i].age = -r.left
                             /\ sim_window[i].status # "INIT"
        BY <1>1, <1>3 DEF ReservationKept
    <2>3. sim_window'[i].age = -(r.left - 1)
        BY <1>2, <1>3, <1>4, <2>2 DEF Older
    <2>4. QED
        BY <1>4, <2>2, <2>3
<1>11. Synced => ReleasedOnTime'
    <2>1. SUFFICES ASSUME Synced, NEW r \in releases, SlotsById(r.id)' # {}
                   PROVE  sim_age'[r.id] + (r.left - 1) >= WorstRtt
        BY <1>6 DEF ReleasedOnTime, SlotsById
    <2>2. SlotsById(r.id) # {}
        BY <1>4, <2>1 DEF SlotsById
    <2>3. sim_age[r.id] + r.left >= WorstRtt
        BY <1>1, <2>1, <2>2 DEF ReleasedOnTime
    <2>4. sim_age'[r.id] = IF sim_age[r.id] < WorstRtt THEN sim_age[r.id] + 1 ELSE sim_age[r.id]
        BY <1>1, <1>2, <1>5 DEF IdsDrawn
    <2>5. sim_age[r.id] \in Nat /\ r.left \in Nat /\ r.left > 0
        BY <1>2, <1>3
    <2>6. QED
        BY <1>2, <2>3, <2>4, <2>5
<1>12. QED
    BY <1>8, <1>9, <1>10, <1>11 DEF ReservationInv

LEMMA NextReserves ==
    ASSUME ReservationInv, TypeOK, [Next]_vars
    PROVE  ReservationInv'
<1>1. CASE SendPendingData
    BY <1>1, SendDirectReserves, SendSimulationReserves DEF SendPendingData
<1>2. ASSUME NEW p \in net, Receive(p) PROVE ReservationInv'
    <2>1. CASE ReceiveSim(p)
        BY <2>1, ReceiveSimReserves
    <2>2. CASE ReceiveSimAck(p)
        BY <2>2, ReceiveSimAckReserves
    <2>3. CASE ReceiveDataAck(p)
        <3>1. Probes' \subseteq Probes /\ UNCHANGED << msg_id, sim_age, releases >>
            BY <2>3 DEF ReceiveDataAck, Probes
        <3>2. \A i \in Slots :
                /\ sim_window'[i].id = sim_window[i].id
                /\ sim_window'[i].age = sim_window[i].age
                /\ sim_window'[i].status = "INIT" => sim_window[i].status = "INIT"
            BY <2>3 DEF ReceiveDataAck, TypeOK, SlotType
        <3>3. QED
            BY <3>1, <3>2, QuietStep
    <2>4. CASE ReceiveData(p)
        <3>1. Probes' \subseteq Probes /\ UNCHANGED << msg_id, sim_age, releases, sim_window >>
            BY <2>4 DEF ReceiveData, Probes, DataAck, sender
        <3>2. QED
            BY <3>1, QuietStep
    <2>5. QED
        BY <1>2, <2>1, <2>2, <2>3, <2>4 DEF Receive
<1>3. ASSUME NEW r \in releases, ReleaseData(r) PROVE ReservationInv'
    <2>1. /\ Probes' \subseteq Probes /\ releases' \subseteq releases
          /\ UNCHANGED << msg_id, sim_age, sim_window >>
        BY <1>3 DEF ReleaseData, Probes, Data, sender
    <2>2. QED
        BY <2>1, QuietStep
<1>4. ASSUME NEW p \in net, Lose(p) PROVE ReservationInv'
    <2>1. Probes' \subseteq Probes /\ UNCHANGED << msg_id, sim_age, releases, sim_window >>
        BY <1>4 DEF Lose, Probes, sender
    <2>2. QED
        BY <2>1, QuietStep
<1>5. CASE Tick
    BY <1>5, TickReserves
<1>6. CASE UNCHANGED vars
    <2>1. Probes' \subseteq Probes /\ UNCHANGED << msg_id, sim_age, releases, sim_window >>
        BY <1>6 DEF vars, Probes
    <2>2. QED
        BY <2>1, QuietStep
<1>7. QED
    BY <1>1, <1>2, <1>3, <1>4, <1>5, <1>6 DEF Next

-----------------------------------------------------------------------------
(* The theorems *)

\* FlowInv holds in every state of every flow.
THEOREM FlowInvariant == Spec => []FlowInv
<1>1. Init => FlowInv
    BY InitFlow
<1>2. FlowInv /\ [Next]_vars => FlowInv'
    BY NextKeeps
<1>3. QED
    BY <1>1, <1>2, PTL DEF Spec

\* Type correctness of the window, the bookkeeping and the packets.
THEOREM FlowTypes == Spec => []TypeOK
<1>1. FlowInv => TypeOK
    BY DEF FlowInv
<1>2. QED
    BY <1>1, FlowInvariant, PTL

\* A sender that has stopped probing has had its whole flow delivered, for
\* every window size, batch size, loss pattern and timing.
THEOREM StopIsSafe == Spec => []StopMeansFinished
<1>1. FlowInv => StopMeansFinished
    BY DEF FlowInv
<1>2. QED
    BY <1>1, FlowInvariant, PTL

\* Duplicates, retransmissions and bursts never count a byte twice.
THEOREM NoByteCountedTwice == Spec => []BytesCountedOnce
<1>1. FlowInv => BytesCountedOnce
    BY DEF FlowInv
<1>2. QED
    BY <1>1, FlowInvariant, PTL

\* The event loop hears of each completion exactly once.
THEOREM CompletionAnnouncedOnce == Spec => []AnnouncedOnce
<1>1. FlowInv => AnnouncedOnce
    BY DEF FlowInv
<1>2. QED
    BY <1>1, FlowInvariant, PTL


\* While DATA waits for its release, drop_sim_if_timeout_pass leaves it its
\* slot, whatever timeouts pass and probes are lost (ext/snsflow.cpp:136-181,
\* 459-541): no packet on its way out is probed again.
THEOREM ReservationsKept == Spec => []ReservationKept
<1>1. FlowInv => TypeOK
    BY DEF FlowInv
<1>2. TypeOK /\ ReservationInv /\ [Next]_vars => ReservationInv'
    BY NextReserves
<1>3. ReservationInv => ReservationKept
    BY DEF ReservationInv
<1>4. QED
    BY InitReservation, FlowInvariant, <1>1, <1>2, <1>3, PTL DEF Spec

\* In synced mode DATA whose reservation is in the window leaves no earlier
\* than t_sim + get_worst_rtt(), for every delay of its SIM and SIM_ACK
\* (ext/snsflow.cpp:486-541).
THEOREM DataReleasedOnTime == ASSUME Synced PROVE Spec => []ReleasedOnTime
<1>1. FlowInv => TypeOK
    BY DEF FlowInv
<1>2. TypeOK /\ ReservationInv /\ [Next]_vars => ReservationInv'
    BY NextReserves
<1>3. ReservationInv => ReleasedOnTime
    BY DEF ReservationInv
<1>4. QED
    BY InitReservation, FlowInvariant, <1>1, <1>2, <1>3, PTL DEF Spec


-----------------------------------------------------------------------------
(* The abstract transfer                                                   *)

\* The transfer that MCSnsFlow checks the flow against, liveness included.
Transferred == INSTANCE Transfer WITH
    PacketCount <- SizeInPkt,
    delivered   <- received_bytes \div Mss,
    complete    <- finished,
    announced   <- finish_events

\* check_and_set_to_finished is called after each packet that is counted: an
\* unfinished flow has not enough bytes.
NotEnoughYet == ~finished => ~Enough(received_bytes)

\* The packets of received_bytes, when these are whole packets.
LEMMA WholePackets ==
    ASSUME NEW k \in Nat
    PROVE  (k * Mss) \div Mss = k
<1>1. Mss \in Nat \ {0}
    BY SizesAssumption
<1>2. \A m \in Nat \ {0} : (k * m) \div m = k
    OBVIOUS
<1>3. QED
    BY <1>1, <1>2

\* A flow whose last packet holds more than a byte has enough bytes with all of
\* its packets and with no fewer.
LEMMA EnoughIsAll ==
    ASSUME (SizeInPkt - 1) * Mss < Size - 1, NEW k \in Nat, ~Enough(k * Mss)
    PROVE  Enough((k + 1) * Mss) <=> k + 1 = SizeInPkt
<1>1. SizeInPkt \in Nat \ {0} /\ Mss \in Nat \ {0} /\ Size \in Nat \ {0}
      /\ Size <= SizeInPkt * Mss
    BY SizesAssumption
<1>2. /\ k * Mss \in Nat /\ (k + 1) * Mss \in Nat /\ SizeInPkt * Mss \in Nat
      /\ (SizeInPkt - 1) * Mss \in Nat
    BY <1>1
<1>3. k + 1 <= SizeInPkt
    <2>1. SUFFICES ASSUME SizeInPkt <= k PROVE FALSE
        BY <1>1
    <2>2. SizeInPkt * Mss <= k * Mss
        BY <1>1, <2>1, ProductMonotone
    <2>3. QED
        BY <1>1, <1>2, <2>2 DEF Enough
<1>4. CASE k + 1 = SizeInPkt
    BY <1>1, <1>2, <1>4 DEF Enough
<1>5. CASE k + 1 < SizeInPkt
    <2>1. (k + 1) * Mss <= (SizeInPkt - 1) * Mss
        <3>1. k + 1 \in Nat /\ SizeInPkt - 1 \in Nat /\ k + 1 <= SizeInPkt - 1
            BY <1>1, <1>5
        <3>2. QED
            BY <1>1, <3>1, ProductMonotone
    <2>2. QED
        BY <1>1, <1>2, <1>5, <2>1 DEF Enough
<1>6. QED
    BY <1>1, <1>3, <1>4, <1>5

\* No call of check_and_set_to_finished leaves enough bytes unnoticed.
LEMMA NextNotEnoughYet ==
    ASSUME NotEnoughYet, [Next]_vars
    PROVE  NotEnoughYet'
<1>1. ASSUME NEW bytes, NEW rcv, NEW stop, CheckAndSetToFinished(bytes, rcv, stop)
      PROVE  NotEnoughYet'
    BY <1>1 DEF CheckAndSetToFinished, NotEnoughYet
<1>2. CASE UNCHANGED << finished, received_bytes >>
    BY <1>2 DEF NotEnoughYet
<1>3. CASE SendPendingData
    BY <1>1, <1>3 DEF SendPendingData, SendDirect, SendSimulation
<1>4. ASSUME NEW p \in net, Receive(p) PROVE NotEnoughYet'
    BY <1>1, <1>4 DEF Receive, ReceiveSim, ReceiveSimAck, ReceiveDataAck, ReceiveData
<1>5. QED
    BY <1>2, <1>3, <1>4 DEF Next, ReleaseData, Lose, Tick, vars

\* A step counts a packet of the transfer, or nothing.
LEMMA StepTransfers ==
    ASSUME (SizeInPkt - 1) * Mss < Size - 1, FlowInv, NotEnoughYet, [Next]_vars
    PROVE  [Transferred!Deliver]_(Transferred!transferVars)
<1>1. TypeOK /\ BytesCountedOnce
    BY DEF FlowInv
<1>2. CASE UNCHANGED << finished, received_bytes, finish_events >>
    BY <1>2 DEF Transferred!transferVars
<1>3. ASSUME NEW rcv, NEW stop, CheckAndSetToFinished(received_bytes, rcv, stop)
      PROVE  UNCHANGED << finished, received_bytes, finish_events >>
    BY <1>1, <1>3 DEF CheckAndSetToFinished, NotEnoughYet, TypeOK
<1>4. ASSUME NEW p \in net, ~finished, Fresh(p.id), p.id \in Ids, NEW rcv, NEW stop,
             CheckAndSetToFinished(received_bytes + Mss, rcv, stop)
      PROVE  Transferred!Deliver
    <2>1. PICK k \in Nat : received_bytes = k * Mss
        BY <1>1, <1>4, IdSets DEF BytesCountedOnce, TypeOK
    <2>2. received_bytes + Mss = (k + 1) * Mss
        BY <2>1, SizesAssumption
    <2>3. received_bytes \div Mss = k /\ (received_bytes + Mss) \div Mss = k + 1
        BY <2>1, <2>2, WholePackets
    <2>4. Enough(received_bytes + Mss) <=> k + 1 = SizeInPkt
        BY <1>4, <2>1, <2>2, EnoughIsAll DEF NotEnoughYet
    <2>5. /\ received_bytes' = received_bytes + Mss
          /\ finished' = (k + 1 = SizeInPkt)
          /\ finish_events' = IF finished' THEN finish_events + 1 ELSE finish_events
        BY <1>4, <2>4 DEF CheckAndSetToFinished
    <2>6. QED
        BY <1>4, <2>3, <2>5 DEF Transferred!Deliver
<1>5. CASE SendPendingData
    BY <1>2, <1>3, <1>5 DEF SendPendingData, SendDirect, SendSimulation
<1>6. ASSUME NEW p \in net, Receive(p) PROVE [Transferred!Deliver]_(Transferred!transferVars)
    <2>1. CASE ReceiveSim(p) \/ ReceiveSimAck(p) \/ ReceiveDataAck(p)
        BY <1>2, <1>3, <2>1 DEF ReceiveSim, ReceiveSimAck, ReceiveDataAck
    <2>2. CASE ReceiveData(p)
        <3>1. p.id \in Ids
            BY <1>1, <2>2 DEF TypeOK, Packets, ReceiveData
        <3>2. CASE finished \/ Enough(received_bytes) \/ ~Fresh(p.id)
            BY <1>2, <1>3, <2>2, <3>2 DEF ReceiveData
        <3>3. CASE ~finished /\ ~Enough(received_bytes) /\ Fresh(p.id)
            BY <1>4, <2>2, <3>1, <3>3 DEF ReceiveData
        <3>4. QED
            BY <3>2, <3>3
    <2>3. QED
        BY <1>6, <2>1, <2>2 DEF Receive
<1>7. QED
    BY <1>2, <1>5, <1>6 DEF Next, ReleaseData, Lose, Tick, vars

\* The flow implements the abstract transfer: its packets are counted one at a
\* time, and it completes with the last of them, once (ext/snsflow.cpp:182-198,
\* 564-632).  The last packet must hold more than a byte: received_bytes is
\* compared with size - 1, and a flow of n * mss + 1 bytes completes without it.
THEOREM FlowIsTransfer ==
    ASSUME (SizeInPkt - 1) * Mss < Size - 1
    PROVE  Spec => Transferred!SafeTransfer
<1>1. Init => NotEnoughYet /\ Transferred!TransferInit
    <2>1. SUFFICES ASSUME Init PROVE NotEnoughYet /\ Transferred!TransferInit
        OBVIOUS
    <2>2. finished = FALSE /\ received_bytes = 0 /\ finish_events = 0
        BY <2>1 DEF Init
    <2>3. ~Enough(0)
        <3>1. (SizeInPkt - 1) * Mss \in Nat
            BY SizesAssumption
        <3>2. QED
            BY <3>1, SizesAssumption DEF Enough
    <2>4. 0 \div Mss = 0
        BY SizesAssumption
    <2>5. QED
        BY <2>2, <2>3, <2>4 DEF NotEnoughYet, Transferred!TransferInit
<1>2. NotEnoughYet /\ [Next]_vars => NotEnoughYet'
    BY NextNotEnoughYet
<1>3. FlowInv /\ NotEnoughYet /\ [Next]_vars => [Transferred!Deliver]_(Transferred!transferVars)
    BY StepTransfers
<1>4. QED
    BY FlowInvariant, <1>1, <1>2, <1>3, PTL DEF Spec, Transferred!SafeTransfer
=============================================================================
