-------------------------- MODULE CapabilityProofs --------------------------
(***************************************************************************)
(* Proofs about Capability, for every set of flows, every size and window  *)
(* and every number of faults: a receiver never hands out more             *)
(* capabilities than packets were missing, without a fault one for each    *)
(* packet, and each flow is a safe transfer with acknowledgements.         *)
(*                                                                         *)
(* A flow waits for its resend timeout exactly when it has reached its     *)
(* goal (WaitsAtGoal), so that another capability is within it.  The goal  *)
(* grows after a resend timeout only, and without a fault the timeout      *)
(* finds the flow received: what it was granted is received or under way   *)
(* (NoneAskedTwice), and nothing is under way.                             *)
(***************************************************************************)
EXTENDS Capability, FiniteSetsExt, FiniteSetTheorems, WellFoundedInduction, TLAPS

-----------------------------------------------------------------------------
(* Sets of numbers *)

\* A set of the first n numbers is finite, its size is at most n and n only for
\* all of them, and one new number makes it one larger.
LEMMA NumberSets ==
    ASSUME NEW n \in Nat, NEW s \in SUBSET (0 .. n - 1)
    PROVE  /\ IsFiniteSet(s) /\ Cardinality(s) \in 0 .. n
           /\ Cardinality(s) = n <=> s = 0 .. n - 1
           /\ \A i \in 0 .. n - 1 : Cardinality(s \cup {i}) = IF i \in s THEN Cardinality(s) ELSE Cardinality(s) + 1
<1>1. IsFiniteSet(0 .. n - 1) /\ Cardinality(0 .. n - 1) = n
    <2>1. IsFiniteSet(0 .. n - 1) /\ Cardinality(0 .. n - 1) = IF 0 > n - 1 THEN 0 ELSE n - 1 - 0 + 1
        BY FS_Interval
    <2>2. QED
        BY <2>1
<1>2. /\ IsFiniteSet(s) /\ Cardinality(s) <= Cardinality(0 .. n - 1)
      /\ Cardinality(0 .. n - 1) = Cardinality(s) => 0 .. n - 1 = s
    BY <1>1, FS_Subset
<1>3. Cardinality(s) \in Nat
    BY <1>2, FS_CardinalityType
<1>4. \A i \in 0 .. n - 1 : Cardinality(s \cup {i}) = IF i \in s THEN Cardinality(s) ELSE Cardinality(s) + 1
    BY <1>2, FS_AddElement
<1>5. QED
    BY <1>1, <1>2, <1>3, <1>4

\* Min of a non-empty set of numbers is its least element.
LEMMA MinIsLeast ==
    ASSUME NEW s \in SUBSET Nat, s # {}
    PROVE  Min(s) \in s /\ \A j \in s : Min(s) <= j
<1>1. PICK i \in s : \A j \in s : ~ (<<j, i>> \in OpToRel(<, Nat))
    BY NatLessThanWellFounded, WFMin
<1>2. \A j \in s : ~(j < i)
    BY <1>1 DEF OpToRel
<1>3. \A j \in s : i <= j
    BY <1>2
<1>4. QED
    BY <1>3 DEF Min

-----------------------------------------------------------------------------
(* Packets                                                                 *)

\* The next capability asks for a packet that is missing; when the packets have been
\* asked for in order, for the next one in order.
LEMMA NextDataIsMissing ==
    ASSUME NEW f \in Flow, NEW F \in FlowStates, ~(0 .. Size[f] - 1 \subseteq F.packets_received)
    PROVE  /\ NextData(F, f) \in 0 .. Size[f] - 1
           /\ \A c \in 0 .. Size[f] - 1 :
                 F.last_capa_data_seq_num_sent = c - 1 /\ c \notin F.packets_received => NextData(F, f) = c
<1> DEFINE missing == 0 .. Size[f] - 1 \ F.packets_received
           ahead   == {d \in missing : d >= (F.last_capa_data_seq_num_sent + 1) % Size[f]}
<1>1. Size[f] \in Nat \ {0} /\ missing # {} /\ missing \in SUBSET Nat /\ ahead \in SUBSET Nat
    BY CapabilityAssumption
<1>2. /\ ahead # {} => Min(ahead) \in ahead /\ \A j \in ahead : Min(ahead) <= j
      /\ Min(missing) \in missing
    BY <1>1, MinIsLeast
<1>3. NextData(F, f) = IF ahead = {} THEN Min(missing) ELSE Min(ahead)
    BY DEF NextData
<1>4. NextData(F, f) \in 0 .. Size[f] - 1
    BY <1>2, <1>3
<1>5. ASSUME NEW c \in 0 .. Size[f] - 1, F.last_capa_data_seq_num_sent = c - 1, c \notin F.packets_received
      PROVE  NextData(F, f) = c
    <2>1. (F.last_capa_data_seq_num_sent + 1) % Size[f] = c
        BY <1>1, <1>5
    <2>2. ahead = {d \in missing : d >= c}
        BY <2>1
    <2>3. c \in ahead /\ \A j \in ahead : c <= j
        BY <1>5, <2>2
    <2>4. Min(ahead) \in Nat /\ Min(ahead) <= c /\ c <= Min(ahead)
        BY <1>1, <1>2, <2>3
    <2>5. QED
        BY <1>3, <2>3, <2>4
<1>6. QED
    BY <1>4, <1>5

\* What a packet is.
LEMMA PacketIs ==
    ASSUME NEW f \in Flow, NEW seq \in Nat, NEW data \in 0 .. Size[f] - 1,
           NEW type \in {"rts", "capability", "data", "ack"}
    PROVE  /\ Packet(type, f, seq, data) \in Packets
           /\ Packet(type, f, seq, data).type = type /\ Packet(type, f, seq, data).flow = f
           /\ Packet(type, f, seq, data).data = data
BY CapabilityAssumption DEF Packet, Packets

-----------------------------------------------------------------------------
(* What becomes of a flow object                                           *)

\* A field of a flow object changes within its type.
LEMMA FieldUpdate ==
    ASSUME NEW F \in FlowStates
    PROVE  /\ \A b \in BOOLEAN :
                 /\ [F EXCEPT !.started = b] \in FlowStates
                 /\ [F EXCEPT !.rts_received = b] \in FlowStates
                 /\ [F EXCEPT !.window_old = b] \in FlowStates
                 /\ [F EXCEPT !.finished = b] \in FlowStates
                 /\ [F EXCEPT !.finished_at_receiver = b] \in FlowStates
           /\ \A n \in Nat :
                 /\ [F EXCEPT !.received_count = n] \in FlowStates
                 /\ [F EXCEPT !.capability_count = n] \in FlowStates
                 /\ [F EXCEPT !.capability_goal = n] \in FlowStates
                 /\ [F EXCEPT !.finish_events = n] \in FlowStates
           /\ \A i \in Int :
                 /\ [F EXCEPT !.largest_cap_seq_received = i] \in FlowStates
                 /\ [F EXCEPT !.last_capa_data_seq_num_sent = i] \in FlowStates
           /\ \A s \in SUBSET Nat : [F EXCEPT !.packets_received = s] \in FlowStates
           /\ \A r \in {"none", "waiting", "met"} : [F EXCEPT !.redundancy = r] \in FlowStates
<1>1. \A b \in BOOLEAN : [F EXCEPT !.started = b] \in FlowStates
    BY DEF FlowStates
<1>2. \A b \in BOOLEAN : [F EXCEPT !.rts_received = b] \in FlowStates
    BY DEF FlowStates
<1>3. \A b \in BOOLEAN : [F EXCEPT !.window_old = b] \in FlowStates
    BY DEF FlowStates
<1>4. \A b \in BOOLEAN : [F EXCEPT !.finished = b] \in FlowStates
    BY DEF FlowStates
<1>5. \A b \in BOOLEAN : [F EXCEPT !.finished_at_receiver = b] \in FlowStates
    BY DEF FlowStates
<1>6. \A n \in Nat : [F EXCEPT !.received_count = n] \in FlowStates
    BY DEF FlowStates
<1>7. \A n \in Nat : [F EXCEPT !.capability_count = n] \in FlowStates
    BY DEF FlowStates
<1>8. \A n \in Nat : [F EXCEPT !.capability_goal = n] \in FlowStates
    BY DEF FlowStates
<1>9. \A n \in Nat : [F EXCEPT !.finish_events = n] \in FlowStates
    BY DEF FlowStates
<1>10. \A i \in Int : [F EXCEPT !.largest_cap_seq_received = i] \in FlowStates
    BY DEF FlowStates
<1>11. \A i \in Int : [F EXCEPT !.last_capa_data_seq_num_sent = i] \in FlowStates
    BY DEF FlowStates
<1>12. \A s \in SUBSET Nat : [F EXCEPT !.packets_received = s] \in FlowStates
    BY DEF FlowStates
<1>13. \A r \in {"none", "waiting", "met"} : [F EXCEPT !.redundancy = r] \in FlowStates
    BY DEF FlowStates
<1>14. QED
    BY <1>1, <1>2, <1>3, <1>4, <1>5, <1>6, <1>7, <1>8, <1>9, <1>10, <1>11, <1>12, <1>13

\* The sender's own capabilities are all or none.
LEMMA InitSize ==
    ASSUME NEW f \in Flow
    PROVE  /\ Size[f] \in Nat \ {0} /\ InitCapaSize(f) \in {0, Size[f]}
           /\ 0 \in 0 .. Size[f] - 1
BY CapabilityAssumption DEF InitCapaSize

\* An RTS, or the first DATA packet, counts them.
LEMMA CountedFlow ==
    ASSUME NEW f \in Flow, NEW F \in FlowStates, F.started, ~F.rts_received,
           CountOf(F, f), GoalOf(F, f)
    PROVE  /\ Counted(F, f) \in FlowStates
           /\ Counted(F, f).rts_received /\ Counted(F, f).started
           /\ Counted(F, f).finished = F.finished
           /\ Counted(F, f).finished_at_receiver = F.finished_at_receiver
           /\ Counted(F, f).packets_received = F.packets_received
           /\ Counted(F, f).received_count = F.received_count
           /\ Counted(F, f).finish_events = F.finish_events
           /\ CountOf(Counted(F, f), f) /\ GoalOf(Counted(F, f), f)
           /\ \A carried : OrderOf(F, f, carried) => OrderOf(Counted(F, f), f, carried)
<1> DEFINE G  == Counted(F, f)
           F0 == [F EXCEPT !.rts_received = TRUE]
           F1 == [F0 EXCEPT !.capability_count = InitCapaSize(f)]
           F2 == [F1 EXCEPT !.last_capa_data_seq_num_sent = InitCapaSize(f) - 1]
           F3 == [F2 EXCEPT !.redundancy = IF InitCapaSize(f) = F.capability_goal THEN "waiting" ELSE @]
<1>t. G \in FlowStates
    <2>1. G = F3
        BY DEF Counted
    <2>2. F1 \in FlowStates
        <3>1. F0 \in FlowStates
            BY FieldUpdate
        <3> HIDE DEF F0
        <3>2. InitCapaSize(f) \in Nat
            BY InitSize
        <3>3. QED
            BY <3>1, <3>2, FieldUpdate
    <2>3. F2 \in FlowStates
        <3> HIDE DEF F1
        <3> QED BY <2>2, InitSize DEF FlowStates
    <2>4. F3 \in FlowStates
        <3> HIDE DEF F2
        <3>1. F2.redundancy \in {"none", "waiting", "met"}
            BY <2>3 DEF FlowStates
        <3>2. QED
            BY <2>3, <3>1 DEF FlowStates
    <2>5. QED
        BY <2>1, <2>4
<1>1. /\ G.rts_received /\ G.started
      /\ G.capability_count = InitCapaSize(f) /\ G.last_capa_data_seq_num_sent = InitCapaSize(f) - 1
      /\ G.capability_goal = F.capability_goal
      /\ G.redundancy = IF InitCapaSize(f) = F.capability_goal THEN "waiting" ELSE F.redundancy
      /\ G.finished = F.finished /\ G.finished_at_receiver = F.finished_at_receiver
      /\ G.packets_received = F.packets_received /\ G.received_count = F.received_count
      /\ G.finish_events = F.finish_events
    BY InitSize DEF Counted, FlowStates
<1> HIDE DEF G
<1>2. F.capability_count = 0 /\ F.capability_goal = Size[f] /\ F.redundancy = "none"
    BY InitSize DEF GoalOf
<1>3. GoalOf(G, f)
    BY <1>1, <1>2, InitSize DEF GoalOf
<1>4. CountOf(G, f)
    BY <1>1 DEF CountOf
<1>5. ASSUME NEW carried, OrderOf(F, f, carried) PROVE OrderOf(G, f, carried)
    <2>1. Handed(G, f) = Handed(F, f)
        BY <1>1, <1>2, InitSize DEF Handed
    <2>2. QED
        BY <1>1, <1>2, <1>5, <2>1 DEF OrderOf
<1>6. QED
    BY <1>t, <1>1, <1>3, <1>4, <1>5 DEF G

\* send_capability looks at a flow.
LEMMA SeenFlow ==
    ASSUME NEW f \in Flow, NEW F \in FlowStates, F.rts_received, ~F.finished_at_receiver,
           CountOf(F, f), GoalOf(F, f)
    PROVE  /\ Seen(F, f) \in FlowStates /\ Seen(F, f).rts_received
           /\ Seen(F, f).redundancy = IF F.redundancy = "waiting" THEN "waiting" ELSE "none"
           /\ Seen(F, f).finished = F.finished /\ Seen(F, f).started = F.started
           /\ Seen(F, f).finished_at_receiver = F.finished_at_receiver
           /\ Seen(F, f).packets_received = F.packets_received
           /\ Seen(F, f).received_count = F.received_count
           /\ Seen(F, f).finish_events = F.finish_events
           /\ CountOf(Seen(F, f), f) /\ GoalOf(Seen(F, f), f)
           /\ \A carried : OrderOf(F, f, carried) => OrderOf(Seen(F, f), f, carried)
<1> DEFINE G  == Seen(F, f)
           goal == F.capability_goal + Size[f] - F.received_count
           F1 == IF F.redundancy # "met" THEN F ELSE [F EXCEPT !.redundancy = "none", !.capability_goal = goal]
<1>1. F.received_count < Size[f]
    BY InitSize DEF CountOf, FlowStates
<1>t. G \in FlowStates
    <2>1. goal \in Nat
        BY <1>1, InitSize DEF FlowStates
    <2>2. F1 \in FlowStates
        BY <2>1 DEF FlowStates
    <2>3. F.capability_count - Window \in Int
        BY CapabilityAssumption DEF FlowStates
    <2>4. [F1 EXCEPT !.largest_cap_seq_received = F.capability_count - Window] \in FlowStates
        <3> HIDE DEF F1
        <3> QED BY <2>2, <2>3 DEF FlowStates
    <2>5. QED
        BY <2>2, <2>4 DEF Seen
<1>2. /\ G.rts_received
      /\ G.redundancy = IF F.redundancy = "waiting" THEN "waiting" ELSE "none"
      /\ G.capability_goal = IF F.redundancy = "met" THEN F.capability_goal + Size[f] - F.received_count
                             ELSE F.capability_goal
      /\ G.capability_count = F.capability_count
      /\ G.last_capa_data_seq_num_sent = F.last_capa_data_seq_num_sent
      /\ G.finished = F.finished /\ G.started = F.started
      /\ G.finished_at_receiver = F.finished_at_receiver
      /\ G.packets_received = F.packets_received /\ G.received_count = F.received_count
      /\ G.finish_events = F.finish_events
    BY <1>1, InitSize, CapabilityAssumption DEF Seen, FlowStates, Gap
<1> HIDE DEF G
<1>3. GoalOf(G, f)
    BY <1>1, <1>2, InitSize DEF GoalOf, FlowStates
<1>4. CountOf(G, f)
    BY <1>2 DEF CountOf
<1>5. ASSUME NEW carried, OrderOf(F, f, carried) PROVE OrderOf(G, f, carried)
    <2>1. Handed(G, f) = Handed(F, f)
        BY <1>2 DEF Handed
    <2>2. QED
        BY <1>2, <1>5, <2>1 DEF OrderOf
<1>6. QED
    BY <1>t, <1>2, <1>3, <1>4, <1>5 DEF G

\* A capability for a flow below its goal.  In order, it asks for the next packet.
LEMMA WithCapabilityFlow ==
    ASSUME NEW f \in Flow, NEW F \in FlowStates, F.rts_received, ~F.finished_at_receiver,
           F.redundancy = "none", CountOf(F, f), GoalOf(F, f)
    PROVE  /\ WithCapability(F, f) \in FlowStates /\ WithCapability(F, f).rts_received
           /\ WithCapability(F, f).finished = F.finished /\ WithCapability(F, f).started = F.started
           /\ WithCapability(F, f).finished_at_receiver = F.finished_at_receiver
           /\ WithCapability(F, f).packets_received = F.packets_received
           /\ WithCapability(F, f).received_count = F.received_count
           /\ WithCapability(F, f).finish_events = F.finish_events
           /\ NextData(F, f) \in 0 .. Size[f] - 1
           /\ CountOf(WithCapability(F, f), f) /\ GoalOf(WithCapability(F, f), f)
           /\ \A carried : OrderOf(F, f, carried)
                           => OrderOf(WithCapability(F, f), f, carried \cup {NextData(F, f)})
<1> DEFINE G == WithCapability(F, f)
           F0 == [F EXCEPT !.capability_count = F.capability_count + 1]
           F1 == [F0 EXCEPT !.last_capa_data_seq_num_sent = NextData(F, f)]
           F2 == [F1 EXCEPT !.window_old = FALSE]
<1>1. ~(0 .. Size[f] - 1 \subseteq F.packets_received)
    <2>1. ~F.finished /\ F.packets_received \in SUBSET (0 .. Size[f] - 1)
          /\ Cardinality(F.packets_received) # Size[f]
        BY DEF CountOf
    <2>2. F.packets_received # 0 .. Size[f] - 1
        BY <2>1, NumberSets, InitSize
    <2>3. QED
        BY <2>1, <2>2
<1>2. NextData(F, f) \in 0 .. Size[f] - 1
    BY <1>1, NextDataIsMissing
<1>t. G \in FlowStates
    <2>1. F1 \in FlowStates
        <3>1. F.capability_count + 1 \in Nat
            BY DEF FlowStates
        <3>2. F0 \in FlowStates
            BY <3>1, FieldUpdate
        <3> HIDE DEF F0
        <3>3. NextData(F, f) \in Int
            BY <1>2, InitSize
        <3>4. QED
            BY <3>2, <3>3, FieldUpdate
    <2>2. F2 \in FlowStates
        <3> HIDE DEF F1
        <3> QED BY <2>1 DEF FlowStates
    <2>3. G = [F2 EXCEPT !.redundancy = IF Reached(F2) THEN "waiting" ELSE @]
        BY DEF WithCapability
    <2>4. QED
        <3> HIDE DEF F2
        <3>1. F2.redundancy \in {"none", "waiting", "met"}
            BY <2>2 DEF FlowStates
        <3>2. QED
            BY <2>2, <2>3, <3>1 DEF FlowStates
<1>3. /\ G.rts_received
      /\ G.redundancy = IF F.capability_count + 1 = F.capability_goal THEN "waiting" ELSE "none"
      /\ G.capability_goal = F.capability_goal
      /\ G.capability_count = F.capability_count + 1
      /\ G.last_capa_data_seq_num_sent = NextData(F, f)
      /\ G.finished = F.finished /\ G.started = F.started
      /\ G.finished_at_receiver = F.finished_at_receiver
      /\ G.packets_received = F.packets_received /\ G.received_count = F.received_count
      /\ G.finish_events = F.finish_events
    BY <1>2, InitSize DEF WithCapability, Reached, FlowStates
<1> HIDE DEF G
<1>4. F.capability_count < F.capability_goal /\ F.capability_count >= InitCapaSize(f) /\ F.started
    BY DEF GoalOf
<1>5. GoalOf(G, f)
    BY <1>3, <1>4, InitSize DEF GoalOf, FlowStates
<1>6. CountOf(G, f)
    BY <1>3 DEF CountOf
<1>7. ASSUME NEW carried, OrderOf(F, f, carried)
      PROVE  OrderOf(G, f, carried \cup {NextData(F, f)})
    <2>1. F.capability_count \in 0 .. Size[f] - 1 /\ F.capability_goal = Size[f]
        BY <1>4, <1>7, InitSize DEF OrderOf, FlowStates
    <2>2. Handed(F, f) = F.capability_count /\ Handed(G, f) = F.capability_count + 1
        BY <1>3, <1>4, <2>1, InitSize DEF Handed
    <2>3. F.packets_received \cup carried = 0 .. F.capability_count - 1
        BY <1>7, <2>2 DEF OrderOf
    <2>4. NextData(F, f) = F.capability_count
        <3>1. F.capability_count \notin F.packets_received
            BY <2>1, <2>3
        <3>2. F.last_capa_data_seq_num_sent = F.capability_count - 1
            BY <1>7 DEF OrderOf
        <3>3. QED
            BY <1>1, <2>1, <3>1, <3>2, NextDataIsMissing
    <2>5. F.packets_received \cup (carried \cup {NextData(F, f)}) = 0 .. F.capability_count
        BY <2>1, <2>3, <2>4
    <2>6. QED
        BY <1>3, <2>1, <2>2, <2>4, <2>5 DEF OrderOf
<1>8. QED
    BY <1>t, <1>2, <1>3, <1>5, <1>6, <1>7 DEF G

\* The flow object after a DATA packet.
Received(F, m) == [WithData(F, m) EXCEPT !.finished_at_receiver = WithData(F, m).received_count >= Size[m.flow]]

\* A DATA packet, before the flow is finished.
LEMMA WithDataFlow ==
    ASSUME NEW f \in Flow, NEW F \in FlowStates, NEW m \in Packets, m.flow = f,
           ~F.finished, F.rts_received, CountOf(F, f), GoalOf(F, f)
    PROVE  /\ Received(F, m) \in FlowStates /\ Received(F, m).rts_received
           /\ Received(F, m).started = F.started
           /\ Received(F, m).redundancy = F.redundancy
           /\ Received(F, m).finished = F.finished
           /\ Received(F, m).finished_at_receiver <=> WithData(F, m).received_count >= Size[f]
           /\ Received(F, m).finish_events = F.finish_events
           /\ F.finished_at_receiver => Received(F, m).finished_at_receiver
           /\ Received(F, m).packets_received = F.packets_received \cup {m.data}
           /\ Received(F, m).received_count = IF m.data \in F.packets_received THEN F.received_count
                                              ELSE F.received_count + 1
           /\ CountOf(Received(F, m), f) /\ GoalOf(Received(F, m), f)
           /\ \A carried, rest : OrderOf(F, f, carried) /\ m.data \in carried
                                 /\ carried = rest \cup {m.data} => OrderOf(Received(F, m), f, rest)
<1> DEFINE G == Received(F, m)
<1>1. /\ m.data \in 0 .. Size[f] - 1 /\ m.seq \in Nat /\ m.data \in Nat
    BY InitSize DEF Packets
<1>2. /\ F.packets_received \in SUBSET (0 .. Size[f] - 1)
      /\ F.received_count = Cardinality(F.packets_received)
    BY DEF CountOf
<1> DEFINE count == IF m.data \in F.packets_received THEN F.received_count ELSE F.received_count + 1
           F0 == [F EXCEPT !.packets_received = F.packets_received \cup {m.data}]
           F1 == [F0 EXCEPT !.received_count = count]
<1>t. WithData(F, m) \in FlowStates
    <2>1. F1 \in FlowStates
        <3>1. F.packets_received \cup {m.data} \in SUBSET Nat /\ count \in Nat
            BY <1>1 DEF FlowStates
        <3>2. F0 \in FlowStates
            BY <3>1, FieldUpdate
        <3> HIDE DEF F0, count
        <3>3. QED
            BY <3>1, <3>2, FieldUpdate
    <2>2. WithData(F, m) = [F1 EXCEPT !.largest_cap_seq_received = IF m.seq > @ THEN m.seq ELSE @]
        BY DEF WithData
    <2>3. QED
        <3> HIDE DEF F1
        <3>1. F1.largest_cap_seq_received \in Int
            BY <2>1 DEF FlowStates
        <3>2. QED
            BY <1>1, <2>1, <2>2, <3>1 DEF FlowStates
<1>3. /\ WithData(F, m).received_count = IF m.data \in F.packets_received THEN F.received_count
                                         ELSE F.received_count + 1
      /\ WithData(F, m).packets_received = F.packets_received \cup {m.data}
    BY <1>1 DEF WithData, FlowStates
<1>s. G \in FlowStates
    <2> DEFINE done == WithData(F, m).received_count >= Size[m.flow]
    <2>1. WithData(F, m).received_count \in Nat /\ Size[m.flow] \in Nat
        BY <1>t, InitSize DEF FlowStates
    <2>2. done \in BOOLEAN
        BY <2>1
    <2>3. G = [WithData(F, m) EXCEPT !.finished_at_receiver = done]
        BY DEF Received
    <2> HIDE DEF done, G
    <2>4. \A b \in BOOLEAN : [WithData(F, m) EXCEPT !.finished_at_receiver = b] \in FlowStates
        BY <1>t, FieldUpdate
    <2>5. QED
        BY <2>2, <2>3, <2>4, Zenon
<1>4. /\ G.rts_received /\ G.started = F.started
      /\ G.redundancy = F.redundancy
      /\ G.finished = F.finished
      /\ G.finished_at_receiver <=> WithData(F, m).received_count >= Size[f]
      /\ G.finish_events = F.finish_events
      /\ G.received_count = WithData(F, m).received_count
      /\ G.packets_received = F.packets_received \cup {m.data}
      /\ G.capability_count = F.capability_count /\ G.capability_goal = F.capability_goal
      /\ G.last_capa_data_seq_num_sent = F.last_capa_data_seq_num_sent
    BY <1>1, <1>3, <1>t DEF WithData, FlowStates, Received
<1> HIDE DEF G
<1>5. G.received_count = Cardinality(G.packets_received) /\ G.received_count \in 0 .. Size[f]
    <2>1. G.packets_received \in SUBSET (0 .. Size[f] - 1)
        BY <1>1, <1>2, <1>4
    <2>2. Cardinality(G.packets_received) = IF m.data \in F.packets_received THEN F.received_count
                                            ELSE F.received_count + 1
        <3>1. Cardinality(F.packets_received \cup {m.data}) = IF m.data \in F.packets_received
                                                              THEN Cardinality(F.packets_received)
                                                              ELSE Cardinality(F.packets_received) + 1
            <4>1. IsFiniteSet(F.packets_received)
                BY <1>2, NumberSets, InitSize
            <4>2. QED
                BY <4>1, FS_AddElement
        <3>2. QED
            BY <1>2, <1>4, <3>1
    <2>3. QED
        BY <1>3, <1>4, <2>1, <2>2, NumberSets, InitSize
<1>6. G.finished_at_receiver <=> G.received_count = Size[f]
    BY <1>4, <1>5, InitSize
<1>7. CountOf(G, f)
    BY <1>1, <1>2, <1>4, <1>5, <1>6 DEF CountOf
<1>8. F.finished_at_receiver => G.finished_at_receiver
    <2>1. F.finished_at_receiver => G.received_count >= Size[f]
        BY <1>3, <1>4, <1>5, InitSize DEF CountOf, FlowStates
    <2>2. QED
        BY <1>4, <2>1
<1>9. GoalOf(G, f)
    BY <1>4 DEF GoalOf
<1>10. ASSUME NEW carried, NEW rest, OrderOf(F, f, carried), m.data \in carried,
              carried = rest \cup {m.data}
       PROVE  OrderOf(G, f, rest)
    <2>1. Handed(G, f) = Handed(F, f)
        BY <1>4 DEF Handed
    <2>2. G.packets_received \cup rest = F.packets_received \cup carried
        BY <1>4, <1>10
    <2>3. QED
        BY <1>4, <1>8, <1>10, <2>1, <2>2 DEF OrderOf
<1>11. QED
    BY <1>s, <1>3, <1>4, <1>7, <1>8, <1>9, <1>10 DEF G

-----------------------------------------------------------------------------
(* The steps                                                               *)

\* The event without a timeout to wait for.
LEMMA NowWaitsForNothing ==
    /\ Now \in [ pending : BOOLEAN, waits : SUBSET (Flow \X {"resend", "window"}) ]
    /\ Now.waits = {}
BY DEF Now

\* One flow changes.
LEMMA OneFlowChanges ==
    ASSUME TypeOK, NEW f \in Flow, NEW G \in FlowStates, flow' = [flow EXCEPT ![f] = G]
    PROVE  /\ flow' \in [Flow -> FlowStates] /\ flow'[f] = G
           /\ \A g \in Flow : g # f => flow'[g] = flow[g]
BY DEF TypeOK

\* What is carried depends on the capabilities and the DATA packets only.
LEMMA CarriedIs ==
    ASSUME NEW f \in Flow
    PROVE  /\ \A d : d \in Carried(f) <=> \E m \in net \cup capabilities :
                        m.flow = f /\ m.type \in {"capability", "data"} /\ d = m.data
           /\ \A d : d \in Carried(f)' <=> \E m \in net' \cup capabilities' :
                        m.flow = f /\ m.type \in {"capability", "data"} /\ d = m.data
BY DEF Carried

\* An invariant's parts for one flow.
LEMMA PartsOf ==
    ASSUME CapabilityInv, NEW f \in Flow
    PROVE  /\ flow[f] \in FlowStates /\ CountOf(flow[f], f) /\ GoalOf(flow[f], f)
           /\ << f, "resend" >> \in evt.waits => flow[f].rts_received /\ flow[f].redundancy = "waiting"
           /\ faults = 0 => OrderOf(flow[f], f, Carried(f))
           /\ \A m \in net : m \in Packets /\ m.flow \in Flow /\ flow[m.flow].started
           /\ \A m \in capabilities : /\ m \in Packets /\ m.type = "capability"
                                        /\ m.flow \in Flow /\ flow[m.flow].started
BY CapabilityAssumption DEF CapabilityInv, TypeOK, CountsTrue, WaitsAtGoal, NoneAskedTwice, Packets

LEMMA InitInv == Init => CapabilityInv
<1> SUFFICES ASSUME Init PROVE CapabilityInv
    OBVIOUS
<1> USE DEF Init
<1>1. \A f \in Flow : NewFlow(f) \in FlowStates
    BY InitSize DEF NewFlow, FlowStates
<1>2. TypeOK
    <2>1. IsFiniteSet(capabilities)
        BY FS_EmptySet
    <2>2. QED
        BY <1>1, <2>1, CapabilityAssumption DEF TypeOK, NoEvent
<1>3. CountsTrue
    <2>1. ASSUME NEW f \in Flow PROVE CountOf(NewFlow(f), f)
        BY InitSize, FS_EmptySet DEF CountOf, NewFlow
    <2>2. QED
        BY <2>1 DEF CountsTrue
<1>4. WaitsAtGoal
    BY InitSize DEF WaitsAtGoal, GoalOf, NewFlow, NoEvent
<1>5. NoneAskedTwice
    <2>1. ASSUME NEW f \in Flow PROVE OrderOf(flow[f], f, Carried(f))
        <3>1. Carried(f) = {}
            BY CarriedIs
        <3>2. Handed(flow[f], f) = 0
            BY InitSize DEF Handed, NewFlow
        <3>3. QED
            BY <3>1, <3>2, InitSize DEF OrderOf, NewFlow
    <2>2. QED
        BY <2>1 DEF NoneAskedTwice
<1>6. QED
    BY <1>2, <1>3, <1>4, <1>5 DEF CapabilityInv

\* The RTS, and a short flow's own capabilities.
LEMMA StartFlowKeeps == ASSUME CapabilityInv, NEW f \in Flow, StartFlow(f) PROVE CapabilityInv'
<1> DEFINE G    == [flow[f] EXCEPT !.started = TRUE]
           own  == {Packet("capability", f, i, i) : i \in 0 .. InitCapaSize(f) - 1}
           rts  == Packet("rts", f, 0, 0)
<1> USE DEF StartFlow
<1>1. G \in FlowStates
    BY PartsOf, FieldUpdate
<1>2. /\ flow' = [flow EXCEPT ![f] = G] /\ ~flow[f].started
      /\ net' = net \cup {rts} /\ capabilities' = capabilities \cup own
    OBVIOUS
<1>3. /\ flow' \in [Flow -> FlowStates] /\ flow'[f] = G
      /\ \A g \in Flow : g # f => flow'[g] = flow[g]
    BY <1>1, <1>2, OneFlowChanges DEF CapabilityInv
<1>4. /\ G.started /\ G.rts_received = flow[f].rts_received /\ G.redundancy = flow[f].redundancy
      /\ G.finished = flow[f].finished /\ G.finished_at_receiver = flow[f].finished_at_receiver
      /\ G.packets_received = flow[f].packets_received /\ G.received_count = flow[f].received_count
      /\ G.finish_events = flow[f].finish_events /\ G.capability_count = flow[f].capability_count
      /\ G.capability_goal = flow[f].capability_goal
      /\ G.last_capa_data_seq_num_sent = flow[f].last_capa_data_seq_num_sent
    BY PartsOf DEF FlowStates
<1> HIDE DEF G
<1>5. \A i \in 0 .. InitCapaSize(f) - 1 :
          /\ Packet("capability", f, i, i) \in Packets /\ Packet("capability", f, i, i).type = "capability"
          /\ Packet("capability", f, i, i).flow = f /\ Packet("capability", f, i, i).data = i
    BY PacketIs, InitSize
<1>6. rts \in Packets /\ rts.type = "rts" /\ rts.flow = f
    BY PacketIs, InitSize
<1>7. IsFiniteSet(own)
    <2>1. IsFiniteSet(0 .. InitCapaSize(f) - 1)
        <3>1. InitCapaSize(f) \in Nat
            BY InitSize
        <3>2. 0 \in Int /\ InitCapaSize(f) - 1 \in Int
            BY <3>1
        <3>3. QED
            BY <3>2, FS_Interval
    <2>2. QED
        <3> DEFINE cap == [i \in 0 .. InitCapaSize(f) - 1 |-> Packet("capability", f, i, i)]
        <3>1. cap \in Surjection(0 .. InitCapaSize(f) - 1, own)
            BY DEF Surjection
        <3>2. QED
            BY <2>1, <3>1, FS_Surjection
<1>8. \A m \in own : m \in Packets /\ m.type = "capability" /\ m.flow = f /\ m.data \in 0 .. InitCapaSize(f) - 1
    BY <1>5
<1>9. \A i \in 0 .. InitCapaSize(f) - 1 : \E m \in own : m.type = "capability" /\ m.flow = f /\ m.data = i
    BY <1>5
<1> HIDE DEF own, rts
<1>10. TypeOK'
    <2>1. IsFiniteSet(capabilities')
        <3>1. IsFiniteSet(capabilities) /\ capabilities' = capabilities \cup own
            BY <1>2 DEF CapabilityInv, TypeOK
        <3>2. QED
            BY <1>7, <3>1, FS_Union
    <2>2. QED
        BY <1>2, <1>3, <1>6, <1>8, <2>1 DEF CapabilityInv, TypeOK
<1>11. CountsTrue'
    <2>1. CountOf(G, f)
        BY PartsOf, <1>4 DEF CountOf
    <2>2. QED
        BY <1>2, <1>3, <1>4, <1>6, <2>1, PartsOf DEF CapabilityInv, CountsTrue
<1>12. WaitsAtGoal'
    <2>1. GoalOf(G, f)
        BY PartsOf, <1>4 DEF GoalOf
    <2>2. ASSUME NEW g \in Flow
          PROVE  /\ GoalOf(flow'[g], g)
                 /\ flow[g].started => flow'[g].started
                 /\ << g, "resend" >> \in evt'.waits
                    => flow'[g].rts_received /\ flow'[g].redundancy = "waiting"
        BY <1>3, <1>4, <2>1, PartsOf
    <2>3. ASSUME NEW m \in net' \cup capabilities' PROVE flow'[m.flow].started
        BY <1>2, <1>3, <1>4, <1>6, <1>8, <2>2, PartsOf
    <2>4. QED
        BY <2>2, <2>3 DEF WaitsAtGoal
<1>13. NoneAskedTwice'
    <2>1. SUFFICES ASSUME faults = 0, NEW g \in Flow PROVE OrderOf(flow'[g], g, Carried(g)')
        BY DEF NoneAskedTwice
    <2>2. CASE g # f
        <3>1. Carried(g)' = Carried(g)
            BY <1>2, <1>6, <1>8, <2>2, CarriedIs
        <3>2. QED
            BY <1>3, <2>1, <2>2, <3>1, PartsOf
    <2>3. CASE g = f
        <3>0. \A m \in net \cup capabilities : m.flow # f
            BY <1>2, PartsOf
        <3>1. Carried(f) = {}
            BY <3>0, CarriedIs
        <3>2. Carried(f)' = 0 .. InitCapaSize(f) - 1
            <4> DEFINE first == 0 .. InitCapaSize(f) - 1
            <4> HIDE DEF first
            <4>1. ASSUME NEW d \in first PROVE d \in Carried(f)'
                BY <1>2, <1>9, <4>1, CarriedIs DEF first
            <4>2. ASSUME NEW d \in Carried(f)' PROVE d \in first
                BY <1>2, <1>6, <1>8, <3>0, <4>2, CarriedIs DEF first
            <4>3. QED
                BY <4>1, <4>2 DEF first
        <3>3. ~flow[f].rts_received /\ flow[f].capability_count = 0
            BY <1>2, PartsOf DEF GoalOf
        <3>4. Handed(flow[f], f) = 0 /\ Handed(G, f) = InitCapaSize(f)
            BY <1>2, <1>4, <3>3, InitSize DEF Handed
        <3>5. OrderOf(flow[f], f, {})
            BY <2>1, <3>1, PartsOf
        <3>6. OrderOf(G, f, 0 .. InitCapaSize(f) - 1)
            BY <1>4, <3>4, <3>5, InitSize DEF OrderOf
        <3>7. QED
            BY <1>3, <2>3, <3>2, <3>6
    <2>4. QED
        BY <2>2, <2>3
<1>14. QED
    BY <1>10, <1>11, <1>12, <1>13 DEF CapabilityInv

\* Packets move and the flows stay as they are: a packet in another's place has a flow that
\* has started, is acknowledged in time, and without a fault carries what the other carried.
LEMMA PacketsMove ==
    ASSUME CapabilityInv, UNCHANGED << flow, evt, hold_on >>,
           faults' \in 0 .. MaxFaults, faults' = 0 => faults = 0,
           net' \in SUBSET Packets, IsFiniteSet(capabilities'),
           capabilities' \in SUBSET {m \in Packets : m.type = "capability"},
           \A m \in net' \cup capabilities' : flow[m.flow].started,
           \A m \in net' : m.type = "ack" => flow[m.flow].finished_at_receiver,
           faults' = 0 => \A g \in Flow : flow[g].finished_at_receiver \/ Carried(g)' = Carried(g)
    PROVE  CapabilityInv'
<1>1. TypeOK'
    BY DEF CapabilityInv, TypeOK
<1>2. CountsTrue'
    BY DEF CapabilityInv, CountsTrue
<1>3. WaitsAtGoal'
    <2>1. ASSUME NEW g \in Flow
          PROVE  /\ GoalOf(flow'[g], g)
                 /\ << g, "resend" >> \in evt'.waits
                    => flow'[g].rts_received /\ flow'[g].redundancy = "waiting"
        BY PartsOf
    <2>2. QED
        BY <2>1 DEF WaitsAtGoal
<1>4. NoneAskedTwice'
    <2>1. SUFFICES ASSUME faults' = 0, NEW g \in Flow PROVE OrderOf(flow[g], g, Carried(g)')
        BY DEF NoneAskedTwice
    <2>2. OrderOf(flow[g], g, Carried(g))
        BY <2>1, PartsOf
    <2>3. flow[g].finished_at_receiver \/ Carried(g)' = Carried(g)
        BY <2>1
    <2>4. QED
        BY <2>2, <2>3 DEF OrderOf
<1>5. QED
    BY <1>1, <1>2, <1>3, <1>4 DEF CapabilityInv

\* A capability comes to the sender; that of a finished flow is dropped.
LEMMA ReceiveCapabilityKeeps ==
    ASSUME CapabilityInv, NEW m \in net, ReceiveCapability(m) PROVE CapabilityInv'
<1> USE DEF ReceiveCapability
<1>1. /\ m \in Packets /\ m.type = "capability" /\ m.flow \in Flow /\ flow[m.flow].started
      /\ net' = net \ {m} /\ capabilities' \subseteq capabilities \cup {m}
    BY InitSize, PartsOf DEF Packets, CapabilityInv, TypeOK
<1>2. IsFiniteSet(capabilities') /\ faults' \in 0 .. MaxFaults
    BY FS_AddElement DEF CapabilityInv, TypeOK
<1>3. ASSUME NEW g \in Flow PROVE flow[g].finished_at_receiver \/ Carried(g)' = Carried(g)
    <2>1. CASE flow[m.flow].finished /\ g = m.flow
        BY <2>1, PartsOf DEF CountOf
    <2>2. CASE ~flow[m.flow].finished \/ g # m.flow
        <3>1. ASSUME NEW d PROVE d \in Carried(g)' <=> d \in Carried(g)
            BY <2>2, CarriedIs
        <3>2. QED
            BY <3>1
    <2>3. QED
        BY <2>1, <2>2
<1>4. /\ net' \in SUBSET Packets /\ capabilities' \in SUBSET {c \in Packets : c.type = "capability"}
      /\ \A c \in net' \cup capabilities' : flow[c.flow].started
      /\ \A c \in net' : c.type = "ack" => flow[c.flow].finished_at_receiver
    BY <1>1 DEF CapabilityInv, TypeOK, WaitsAtGoal, CountsTrue
<1>5. QED
    BY <1>2, <1>3, <1>4, PacketsMove

\* The sender uses a capability, after those that have expired.
LEMMA SenderTurnKeeps == ASSUME CapabilityInv, SenderTurn PROVE CapabilityInv'
<1> USE DEF SenderTurn
<1>1. PICK old \in SUBSET capabilities :
          /\ faults' = faults + Cardinality(old) /\ faults' <= MaxFaults
          /\ \/ old = capabilities /\ capabilities' = {} /\ UNCHANGED net
             \/ \E c \in capabilities \ old :
                   /\ capabilities' = (capabilities \ old) \ {c}
                   /\ net' = net \cup {Packet("data", c.flow, c.seq, c.data)}
    OBVIOUS
<1>2. /\ IsFiniteSet(capabilities) /\ capabilities # {} /\ capabilities' \subseteq capabilities
      /\ net \in SUBSET Packets /\ faults \in 0 .. MaxFaults
      /\ capabilities \in SUBSET {m \in Packets : m.type = "capability"}
      /\ \A m \in net \cup capabilities : flow[m.flow].started
      /\ \A m \in net : m.type = "ack" => flow[m.flow].finished_at_receiver
    BY <1>1 DEF CapabilityInv, TypeOK, WaitsAtGoal, CountsTrue
<1>3. IsFiniteSet(old) /\ Cardinality(old) \in Nat /\ (Cardinality(old) = 0 => old = {})
    BY <1>1, <1>2, FS_Subset, FS_CardinalityType, FS_EmptySet
<1>4. IsFiniteSet(capabilities')
    BY <1>2, FS_Subset
<1>5. faults' \in 0 .. MaxFaults /\ (faults' = 0 => faults = 0 /\ old = {})
    BY <1>1, <1>2, <1>3, CapabilityAssumption
<1>6. CASE capabilities' = {} /\ UNCHANGED net /\ old = capabilities
    BY <1>2, <1>4, <1>5, <1>6, PacketsMove
<1>7. ASSUME NEW c \in capabilities \ old, capabilities' = (capabilities \ old) \ {c},
             net' = net \cup {Packet("data", c.flow, c.seq, c.data)}
      PROVE  CapabilityInv'
    <2> DEFINE p == Packet("data", c.flow, c.seq, c.data)
    <2>1. /\ c \in Packets /\ c.type = "capability" /\ c.flow \in Flow /\ c.seq \in Nat
          /\ c.data \in 0 .. Size[c.flow] - 1 /\ flow[c.flow].started
        BY <1>2, InitSize DEF Packets
    <2>2. p \in Packets /\ p.type = "data" /\ p.flow = c.flow /\ p.data = c.data
        BY <2>1, PacketIs
    <2> HIDE DEF p
    <2>3. /\ net' = net \cup {p} /\ net' \in SUBSET Packets
          /\ capabilities' \in SUBSET {m \in Packets : m.type = "capability"}
          /\ \A m \in net' \cup capabilities' : flow[m.flow].started
          /\ \A m \in net' : m.type = "ack" => flow[m.flow].finished_at_receiver
        BY <1>2, <1>7, <2>1, <2>2 DEF p
    <2>4. ASSUME faults' = 0, NEW g \in Flow PROVE Carried(g)' = Carried(g)
        <3>1. capabilities' = capabilities \ {c}
            BY <1>5, <1>7, <2>4
        <3>2. ASSUME NEW d PROVE d \in Carried(g)' <=> d \in Carried(g)
            BY <1>7, <2>1, <2>2, <2>3, <3>1, CarriedIs
        <3>3. QED
            BY <3>2
    <2>5. QED
        BY <1>4, <1>5, <2>3, <2>4, PacketsMove
<1>8. QED
    BY <1>1, <1>6, <1>7

\* A queue drops a packet.
LEMMA LoseKeeps == ASSUME CapabilityInv, NEW m \in net, Lose(m) PROVE CapabilityInv'
<1> USE DEF Lose
<1>1. /\ faults' \in 0 .. MaxFaults /\ faults' # 0 /\ net' \subseteq net
      /\ net' \in SUBSET Packets /\ IsFiniteSet(capabilities')
      /\ capabilities' \in SUBSET {c \in Packets : c.type = "capability"}
      /\ \A c \in net' \cup capabilities' : flow[c.flow].started
      /\ \A c \in net' : c.type = "ack" => flow[c.flow].finished_at_receiver
    BY CapabilityAssumption DEF CapabilityInv, TypeOK, WaitsAtGoal, CountsTrue
<1>2. QED
    BY <1>1, PacketsMove

\* One flow goes from F to G as the lemmas on flow objects say.  Packets leave the net and an
\* ACK may come; without a fault the flow's order is kept with what is still carried.
LEMMA OneFlowKeeps ==
    ASSUME CapabilityInv, NEW f \in Flow, NEW G \in FlowStates,
           flow' = [flow EXCEPT ![f] = G], CountOf(G, f), GoalOf(G, f),
           flow[f].started => G.started, flow[f].finished_at_receiver => G.finished_at_receiver,
           evt' \in [ pending : BOOLEAN, waits : SUBSET (Flow \X {"resend", "window"}) ],
           evt'.waits \subseteq evt.waits,
           << f, "resend" >> \in evt'.waits => G.rts_received /\ G.redundancy = "waiting",
           hold_on' \in Nat, faults' \in 0 .. MaxFaults, faults' = 0 => faults = 0,
           net' \in SUBSET Packets, capabilities' \subseteq capabilities,
           \A m \in net' : m \in net \/ (m.flow = f /\ m.type = "ack" /\ G.finished_at_receiver /\ G.started),
           faults' = 0 => /\ OrderOf(G, f, Carried(f)')
                          /\ \A g \in Flow : g # f => Carried(g)' = Carried(g)
    PROVE  CapabilityInv'
<1>1. /\ flow' \in [Flow -> FlowStates] /\ flow'[f] = G
      /\ \A g \in Flow : g # f => flow'[g] = flow[g]
    BY OneFlowChanges DEF CapabilityInv
<1>2. TypeOK'
    BY <1>1, FS_Subset DEF CapabilityInv, TypeOK
<1>3. ASSUME NEW g \in Flow
      PROVE  /\ CountOf(flow'[g], g)
             /\ GoalOf(flow'[g], g)
             /\ flow[g].started => flow'[g].started
             /\ flow[g].finished_at_receiver => flow'[g].finished_at_receiver
             /\ << g, "resend" >> \in evt'.waits
                => flow'[g].rts_received /\ flow'[g].redundancy = "waiting"
    BY <1>1, PartsOf
<1>4. CountsTrue'
    <2>1. ASSUME NEW m \in net', m.type = "ack" PROVE flow'[m.flow].finished_at_receiver
        <3>1. CASE m \in net
            BY <1>3, <2>1, <3>1 DEF CapabilityInv, CountsTrue, Packets
        <3>2. CASE m \notin net
            BY <1>1, <2>1, <3>2
        <3>3. QED
            BY <3>1, <3>2
    <2>2. QED
        BY <1>3, <2>1 DEF CountsTrue
<1>5. WaitsAtGoal'
    <2>1. ASSUME NEW m \in net' \cup capabilities' PROVE flow'[m.flow].started
        <3>1. CASE m \in net \cup capabilities
            BY <1>3, <3>1, PartsOf
        <3>2. CASE m \notin net \cup capabilities
            BY <1>1, <3>2
        <3>3. QED
            BY <3>1, <3>2
    <2>2. QED
        BY <1>3, <2>1 DEF WaitsAtGoal
<1>6. NoneAskedTwice'
    <2>1. SUFFICES ASSUME faults' = 0, NEW g \in Flow PROVE OrderOf(flow'[g], g, Carried(g)')
        BY DEF NoneAskedTwice
    <2>2. CASE g = f
        BY <1>1, <2>1, <2>2
    <2>3. CASE g # f
        BY <1>1, <2>1, <2>3, PartsOf
    <2>4. QED
        BY <2>2, <2>3
<1>7. QED
    BY <1>2, <1>4, <1>5, <1>6 DEF CapabilityInv

\* The ACK finishes a flow whose packets have all been received, once.
LEMMA ReceiveAckKeeps == ASSUME CapabilityInv, NEW m \in net, ReceiveAck(m) PROVE CapabilityInv'
<1>f. PICK f \in Flow : f = m.flow
    BY DEF CapabilityInv, TypeOK, Packets
<1> DEFINE F  == flow[f]
           F1 == [F EXCEPT !.packets_received = {}]
           F2 == [F1 EXCEPT !.finished = TRUE]
           G  == [F2 EXCEPT !.finish_events = F.finish_events + 1]
<1> USE DEF ReceiveAck
<1>1. /\ m \in Packets /\ m.type = "ack" /\ f = m.flow /\ F.started /\ F.finished_at_receiver
      /\ net' = net \ {m} /\ capabilities' = {c \in capabilities : c.flow # f}
      /\ faults' \in 0 .. MaxFaults /\ faults' = faults
      /\ hold_on' \in Nat /\ evt' \in [ pending : BOOLEAN, waits : SUBSET (Flow \X {"resend", "window"}) ]
    BY <1>f, PartsOf DEF Packets, CapabilityInv, TypeOK, CountsTrue
<1>2. ASSUME NEW g \in Flow, g # f PROVE Carried(g)' = Carried(g)
    <2>1. ASSUME NEW d PROVE d \in Carried(g)' <=> d \in Carried(g)
        BY <1>1, <1>2, CarriedIs
    <2>2. QED
        BY <2>1
<1>3. CASE F.finished
    <2>1. \A g \in Flow : flow[g].finished_at_receiver \/ Carried(g)' = Carried(g)
        BY <1>1, <1>2
    <2>2. /\ net' \in SUBSET Packets /\ IsFiniteSet(capabilities')
          /\ capabilities' \in SUBSET {c \in Packets : c.type = "capability"}
          /\ \A c \in net' \cup capabilities' : flow[c.flow].started
          /\ \A c \in net' : c.type = "ack" => flow[c.flow].finished_at_receiver
        BY <1>1, FS_Subset DEF CapabilityInv, TypeOK, WaitsAtGoal, CountsTrue
    <2>3. QED
        BY <1>f, <1>1, <1>3, <2>1, <2>2, PacketsMove
<1>4. CASE ~F.finished
    <2>1. F \in FlowStates /\ CountOf(F, f) /\ GoalOf(F, f)
        BY <1>1, PartsOf
    <2>2. F2 \in FlowStates /\ F.finish_events + 1 \in Nat
        <3> HIDE DEF F
        <3>1. F.finish_events + 1 \in Nat /\ {} \in SUBSET Nat
            BY <2>1 DEF FlowStates
        <3>2. F1 \in FlowStates
            BY <2>1, <3>1, FieldUpdate
        <3> HIDE DEF F1
        <3>3. QED
            BY <3>1, <3>2, FieldUpdate
    <2>3. G \in FlowStates
        <3> HIDE DEF F2
        <3>1. QED
            BY <2>2, FieldUpdate
    <2>4. flow' = [flow EXCEPT ![f] = G]
        BY <1>4, <1>f
    <2>5. /\ G.finished /\ G.finish_events = F.finish_events + 1 /\ G.received_count = F.received_count
          /\ G.finished_at_receiver = F.finished_at_receiver /\ G.started = F.started
          /\ G.capability_count = F.capability_count /\ G.capability_goal = F.capability_goal
          /\ G.redundancy = F.redundancy /\ G.rts_received = F.rts_received
          /\ G.last_capa_data_seq_num_sent = F.last_capa_data_seq_num_sent
        BY <2>1 DEF FlowStates
    <2> HIDE DEF G
    <2>6. CountOf(G, f)
        BY <1>1, <1>4, <2>1, <2>5 DEF CountOf
    <2>7. GoalOf(G, f)
        BY <2>1, <2>5 DEF GoalOf
    <2>8. ASSUME faults' = 0 PROVE OrderOf(G, f, Carried(f)')
        <3>1. OrderOf(F, f, Carried(f))
            BY <1>1, <2>8, PartsOf
        <3>2. QED
            BY <1>1, <2>5, <3>1 DEF OrderOf
    <2>9. /\ F.started => G.started
          /\ F.finished_at_receiver => G.finished_at_receiver
          /\ net' \in SUBSET Packets /\ capabilities' \subseteq capabilities
          /\ \A c \in net' : c \in net
          /\ evt'.waits \subseteq evt.waits
          /\ << f, "resend" >> \in evt'.waits => G.rts_received /\ G.redundancy = "waiting"
          /\ faults' = 0 => faults = 0
        BY <1>1, <2>5, PartsOf DEF CapabilityInv, TypeOK
    <2> HIDE DEF F, ReceiveAck
    <2>10. QED
        BY <1>1, <1>2, <2>3, <2>4, <2>5, <2>6, <2>7, <2>8, <2>9, OneFlowKeeps DEF F
<1>5. QED
    BY <1>3, <1>4

\* The RTS; after an earlier packet of the flow, or its end, it says nothing new.
LEMMA ReceiveRtsKeeps == ASSUME CapabilityInv, NEW m \in net, ReceiveRts(m) PROVE CapabilityInv'
<1>f. PICK f \in Flow : f = m.flow
    BY DEF CapabilityInv, TypeOK, Packets
<1> DEFINE F  == flow[f]
           G  == Counted(F, f)
           new == ~F.finished /\ ~F.rts_received
<1> USE DEF ReceiveRts
<1>1. /\ m \in Packets /\ m.type = "rts" /\ f = m.flow /\ F.started
      /\ net' = net \ {m} /\ capabilities' = capabilities
      /\ faults' \in 0 .. MaxFaults /\ faults' = faults
      /\ net' \in SUBSET Packets /\ capabilities' \subseteq capabilities
      /\ IsFiniteSet(capabilities') /\ capabilities' \in SUBSET {c \in Packets : c.type = "capability"}
      /\ \A c \in net' \cup capabilities' : flow[c.flow].started
      /\ \A c \in net' : c.type = "ack" => flow[c.flow].finished_at_receiver
    BY <1>f, PartsOf DEF Packets, CapabilityInv, TypeOK, CountsTrue, WaitsAtGoal
<1>2. ASSUME NEW g \in Flow PROVE Carried(g)' = Carried(g)
    <2>1. ASSUME NEW d PROVE d \in Carried(g)' <=> d \in Carried(g)
        BY <1>1, CarriedIs
    <2>2. QED
        BY <2>1
<1>3. CASE ~new
    BY <1>f, <1>1, <1>2, <1>3, PacketsMove
<1>4. CASE new
    <2>1. F \in FlowStates /\ CountOf(F, f) /\ GoalOf(F, f)
        BY <1>1, PartsOf
    <2>2. /\ G \in FlowStates /\ G.rts_received /\ G.started
          /\ G.finished_at_receiver = F.finished_at_receiver
          /\ CountOf(G, f) /\ GoalOf(G, f)
          /\ \A carried : OrderOf(F, f, carried) => OrderOf(G, f, carried)
        BY <1>1, <1>4, <2>1, CountedFlow
    <2>3. flow' = [flow EXCEPT ![f] = G] /\ evt' = Now /\ hold_on' \in Nat
        BY <1>1, <1>4, <1>f, InitSize
    <2> HIDE DEF G
    <2>4. /\ evt' \in [ pending : BOOLEAN, waits : SUBSET (Flow \X {"resend", "window"}) ]
          /\ evt'.waits = {}
        BY <2>3, NowWaitsForNothing
    <2>5. faults' = 0 => OrderOf(G, f, Carried(f)')
        BY <1>1, <1>2, <2>2, PartsOf
    <2>6. /\ \A c \in net' : c \in net
          /\ F.started => G.started
          /\ F.finished_at_receiver => G.finished_at_receiver
          /\ evt'.waits \subseteq evt.waits /\ << f, "resend" >> \notin evt'.waits
        BY <1>1, <2>2, <2>4
    <2> HIDE DEF F, ReceiveRts
    <2>7. QED
        BY <1>1, <1>2, <2>2, <2>3, <2>4, <2>5, <2>6, OneFlowKeeps DEF F
<1>5. QED
    BY <1>3, <1>4

\* A DATA packet; the last one that is missing is acknowledged, and every one after it.
LEMMA ReceiveDataKeeps == ASSUME CapabilityInv, NEW m \in net, ReceiveData(m) PROVE CapabilityInv'
<1>f. PICK f \in Flow : f = m.flow
    BY DEF CapabilityInv, TypeOK, Packets
<1> DEFINE F    == flow[f]
           C    == IF ~F.rts_received THEN Counted(F, f) ELSE F
           G    == Received(C, m)
           ack  == Packet("ack", f, m.seq, 0)
<1> USE DEF ReceiveData
<1>1. /\ m \in Packets /\ m.type = "data" /\ f = m.flow /\ F.started
      /\ capabilities' = capabilities /\ faults' = faults
      /\ faults' \in 0 .. MaxFaults
      /\ IsFiniteSet(capabilities') /\ capabilities' \in SUBSET {c \in Packets : c.type = "capability"}
    BY <1>f, PartsOf DEF Packets, CapabilityInv, TypeOK
<1>2. CASE F.finished
    <2>1. net' = net \ {m} /\ UNCHANGED << flow, evt, hold_on >>
        BY <1>2, <1>f
    <2>2. /\ net' \in SUBSET Packets
          /\ \A c \in net' \cup capabilities' : flow[c.flow].started
          /\ \A c \in net' : c.type = "ack" => flow[c.flow].finished_at_receiver
        BY <1>1, <2>1 DEF Packets, CapabilityInv, TypeOK, CountsTrue, WaitsAtGoal
    <2>3. ASSUME NEW g \in Flow PROVE flow[g].finished_at_receiver \/ Carried(g)' = Carried(g)
        <3>1. CASE g = f
            BY <1>2, <3>1, PartsOf DEF CountOf
        <3>2. CASE g # f
            <4>1. ASSUME NEW d PROVE d \in Carried(g)' <=> d \in Carried(g)
                BY <1>1, <2>1, <3>2, CarriedIs
            <4>2. QED
                BY <4>1
        <3>3. QED
            BY <3>1, <3>2
    <2> HIDE DEF ReceiveData
    <2>4. QED
        BY <1>1, <2>1, <2>2, <2>3, PacketsMove
<1>3. CASE ~F.finished
    <2>1. F \in FlowStates /\ CountOf(F, f) /\ GoalOf(F, f)
        BY <1>1, PartsOf
    <2>2. /\ C \in FlowStates /\ C.rts_received /\ ~C.finished /\ C.started
          /\ F.finished_at_receiver => C.finished_at_receiver
          /\ CountOf(C, f) /\ GoalOf(C, f)
        <3>1. CASE F.rts_received
            BY <1>1, <1>3, <2>1, <3>1
        <3>2. CASE ~F.rts_received
            BY <1>1, <1>3, <2>1, <3>2, CountedFlow
        <3>3. QED
            BY <3>1, <3>2
    <2>3. /\ F.rts_received => C.redundancy = F.redundancy
          /\ \A carried : OrderOf(F, f, carried) => OrderOf(C, f, carried)
        BY <1>1, <2>1, CountedFlow
    <2>4. /\ flow' = [flow EXCEPT ![f] = G]
          /\ net' = (net \ {m}) \cup (IF WithData(C, m).received_count >= Size[f] THEN {ack} ELSE {})
          /\ hold_on' \in Nat
          /\ evt' = IF ~F.rts_received THEN Now ELSE evt
        BY <1>3, <1>f, InitSize DEF CapabilityInv, TypeOK, Received
    <2> HIDE DEF C, F, G, ReceiveData
    <2>5. /\ G \in FlowStates /\ G.rts_received
          /\ G.started = C.started /\ G.redundancy = C.redundancy
          /\ G.finished_at_receiver <=> WithData(C, m).received_count >= Size[f]
          /\ C.finished_at_receiver => G.finished_at_receiver
          /\ CountOf(G, f) /\ GoalOf(G, f)
          /\ \A carried, rest : /\ OrderOf(C, f, carried) /\ m.data \in carried
                                /\ carried = rest \cup {m.data}
                                => OrderOf(G, f, rest)
        <3>1. m \in Packets /\ m.flow = f /\ C \in FlowStates /\ ~C.finished /\ C.rts_received
              /\ CountOf(C, f) /\ GoalOf(C, f)
            BY <1>1, <2>2
        <3>2. /\ G \in FlowStates /\ G.rts_received
              /\ G.started = C.started /\ G.redundancy = C.redundancy
              /\ G.finished_at_receiver <=> WithData(C, m).received_count >= Size[f]
              /\ C.finished_at_receiver => G.finished_at_receiver
              /\ CountOf(G, f) /\ GoalOf(G, f)
            BY <3>1, WithDataFlow DEF G
        <3>3. \A carried, rest : /\ OrderOf(C, f, carried) /\ m.data \in carried
                                 /\ carried = rest \cup {m.data}
                                 => OrderOf(G, f, rest)
            BY <3>1, WithDataFlow DEF G
        <3>4. QED
            BY <3>2, <3>3
    <2>6. ack \in Packets /\ ack.type = "ack" /\ ack.flow = f
        <3>1. m.seq \in Nat /\ 0 \in 0 .. Size[f] - 1
            BY <1>1, InitSize DEF Packets
        <3>2. QED
            BY <3>1, PacketIs
    <2> HIDE DEF ack
    <2>7. ASSUME NEW g \in Flow, g # f PROVE Carried(g)' = Carried(g)
        <3>1. ASSUME NEW d PROVE d \in Carried(g)' <=> d \in Carried(g)
            BY <1>1, <2>4, <2>6, <2>7, CarriedIs
        <3>2. QED
            BY <3>1
    <2>8. ASSUME faults' = 0 PROVE OrderOf(G, f, Carried(f)')
        <3>1. ASSUME NEW d PROVE d \in Carried(f) <=> d \in Carried(f)' \cup {m.data}
            BY <1>1, <2>4, <2>6, CarriedIs
        <3>2. OrderOf(C, f, Carried(f))
            BY <1>1, <2>3, <2>8, PartsOf DEF F
        <3>3. QED
            BY <2>5, <3>1, <3>2
    <2>9. /\ F.started => G.started
          /\ F.finished_at_receiver => G.finished_at_receiver
          /\ net' \in SUBSET Packets
          /\ \A c \in net' : c \in net \/ (c.flow = f /\ c.type = "ack" /\ G.finished_at_receiver /\ G.started)
        BY <1>1, <2>2, <2>4, <2>5, <2>6 DEF CapabilityInv, TypeOK
    <2>10. /\ evt' \in [ pending : BOOLEAN, waits : SUBSET (Flow \X {"resend", "window"}) ]
           /\ evt'.waits \subseteq evt.waits
           /\ << f, "resend" >> \in evt'.waits => G.rts_received /\ G.redundancy = "waiting"
        <3>1. CASE F.rts_received
            BY <2>3, <2>4, <2>5, <3>1, PartsOf DEF CapabilityInv, TypeOK, F
        <3>2. CASE ~F.rts_received
            BY <2>4, <3>2, NowWaitsForNothing
        <3>3. QED
            BY <3>1, <3>2
    <2>11. QED
        BY <1>1, <2>4, <2>5, <2>7, <2>8, <2>9, <2>10, OneFlowKeeps DEF F
<1>4. QED
    BY <1>2, <1>3

\* A timeout that passes is that of the event or not.
LEMMA ReachesEvent ==
    ASSUME CapabilityInv, NEW timeout \in Flow \X {"resend", "window"}, evt' = Reaches(timeout)
    PROVE  /\ evt' \in [ pending : BOOLEAN, waits : SUBSET (Flow \X {"resend", "window"}) ]
           /\ evt'.waits \subseteq evt.waits /\ timeout \notin evt'.waits
<1>1. CASE timeout \in evt.waits
    BY <1>1, NowWaitsForNothing DEF Reaches
<1>2. CASE timeout \notin evt.waits
    BY <1>2 DEF Reaches, CapabilityInv, TypeOK
<1>3. QED
    BY <1>1, <1>2

\* A timeout is a fault unless nothing of the flow is under way.
LEMMA TimelyFault ==
    ASSUME CapabilityInv, NEW f \in Flow, Timely(f)
    PROVE  /\ faults' \in 0 .. MaxFaults
           /\ faults' = 0 => faults = 0 /\ UnderWay(f) = {}
BY CapabilityAssumption DEF Timely, CapabilityInv, TypeOK

\* Without a fault, nothing is missing when a resend timeout passes.
LEMMA ResendFindsAll ==
    ASSUME CapabilityInv, NEW f \in Flow, faults = 0, UnderWay(f) = {},
           flow[f].rts_received, flow[f].redundancy = "waiting"
    PROVE  flow[f].finished_at_receiver
<1> DEFINE F == flow[f]
<1>1. SUFFICES ASSUME ~F.finished_at_receiver PROVE FALSE
    OBVIOUS
<1>2. F \in FlowStates /\ CountOf(F, f) /\ GoalOf(F, f) /\ OrderOf(F, f, Carried(f))
    BY PartsOf
<1>3. Carried(f) = {}
    <2>1. ASSUME NEW m \in net \cup capabilities, m.flow = f PROVE m.type = "ack"
        BY <2>1 DEF UnderWay
    <2>2. QED
        BY <2>1, CarriedIs
<1>4. F.capability_count = Size[f]
    BY <1>2, InitSize DEF GoalOf, OrderOf, FlowStates
<1>5. F.packets_received = 0 .. Size[f] - 1
    BY <1>1, <1>2, <1>3, <1>4, InitSize DEF OrderOf, Handed, GoalOf
<1>6. F.received_count = Size[f]
    <2>1. F.packets_received \in SUBSET (0 .. Size[f] - 1) /\ F.received_count = Cardinality(F.packets_received)
        BY <1>1, <1>2 DEF CountOf
    <2>2. QED
        BY <1>5, <2>1, NumberSets, InitSize
<1>7. QED
    BY <1>1, <1>2, <1>6 DEF CountOf

\* The resend timeout of a flow passes.  Without a fault it finds everything received.
LEMMA ResendTimeoutKeeps == ASSUME CapabilityInv, NEW f \in Flow, ResendTimeout(f) PROVE CapabilityInv'
<1> DEFINE F == flow[f]
           G == [F EXCEPT !.redundancy = "met"]
<1>1. /\ F.rts_received /\ F.redundancy = "waiting"
      /\ flow' = [flow EXCEPT ![f] = G] /\ evt' = Reaches(<< f, "resend" >>)
      /\ Timely(f) /\ hold_on' = hold_on /\ capabilities' = capabilities /\ net' = net
    BY PartsOf DEF ResendTimeout, Active
<1>2. F \in FlowStates /\ CountOf(F, f) /\ GoalOf(F, f)
    BY PartsOf
<1>3. /\ G \in FlowStates /\ G.redundancy = "met" /\ G.rts_received = F.rts_received
      /\ G.started = F.started /\ G.finished = F.finished
      /\ G.finished_at_receiver = F.finished_at_receiver
      /\ G.packets_received = F.packets_received /\ G.received_count = F.received_count
      /\ G.finish_events = F.finish_events /\ G.capability_count = F.capability_count
      /\ G.capability_goal = F.capability_goal
      /\ G.last_capa_data_seq_num_sent = F.last_capa_data_seq_num_sent
    BY <1>2 DEF FlowStates
<1> HIDE DEF G
<1>4. CountOf(G, f)
    BY <1>2, <1>3 DEF CountOf
<1>5. GoalOf(G, f)
    BY <1>1, <1>2, <1>3 DEF GoalOf
<1>6. /\ faults' \in 0 .. MaxFaults
      /\ faults' = 0 => faults = 0 /\ UnderWay(f) = {}
    BY <1>1, TimelyFault
<1>7. /\ evt' \in [ pending : BOOLEAN, waits : SUBSET (Flow \X {"resend", "window"}) ]
      /\ evt'.waits \subseteq evt.waits /\ << f, "resend" >> \notin evt'.waits
    <2>1. << f, "resend" >> \in Flow \X {"resend", "window"}
        OBVIOUS
    <2>2. QED
        BY <1>1, <2>1, ReachesEvent
<1>8. \A g \in Flow : Carried(g)' = Carried(g)
    BY <1>1 DEF Carried
<1>9. ASSUME faults' = 0 PROVE OrderOf(G, f, Carried(f)')
    <2>1. F.finished_at_receiver
        BY <1>1, <1>6, <1>9, ResendFindsAll
    <2>2. OrderOf(F, f, Carried(f))
        BY <1>6, <1>9, PartsOf
    <2>3. QED
        BY <1>3, <2>1, <2>2 DEF OrderOf
<1>10. /\ hold_on' \in Nat /\ net' \in SUBSET Packets /\ capabilities' \subseteq capabilities
       /\ \A m \in net' : m \in net
       /\ F.started => G.started
       /\ F.finished_at_receiver => G.finished_at_receiver
    BY <1>1, <1>3 DEF CapabilityInv, TypeOK
<1>11. QED
    BY <1>1, <1>3, <1>4, <1>5, <1>6, <1>7, <1>8, <1>9, <1>10, OneFlowKeeps

\* The window timeout of a flow passes.
LEMMA WindowTimeoutKeeps == ASSUME CapabilityInv, NEW f \in Flow, WindowTimeout(f) PROVE CapabilityInv'
<1> DEFINE F == flow[f]
           G == [F EXCEPT !.window_old = TRUE]
<1>1. /\ flow' = [flow EXCEPT ![f] = G] /\ evt' = Reaches(<< f, "window" >>)
      /\ Timely(f) /\ hold_on' = hold_on /\ capabilities' = capabilities /\ net' = net
    BY DEF WindowTimeout
<1>2. F \in FlowStates /\ CountOf(F, f) /\ GoalOf(F, f)
    BY PartsOf
<1>3. /\ G \in FlowStates /\ G.redundancy = F.redundancy /\ G.rts_received = F.rts_received
      /\ G.started = F.started /\ G.finished = F.finished
      /\ G.finished_at_receiver = F.finished_at_receiver
      /\ G.packets_received = F.packets_received /\ G.received_count = F.received_count
      /\ G.finish_events = F.finish_events /\ G.capability_count = F.capability_count
      /\ G.capability_goal = F.capability_goal
      /\ G.last_capa_data_seq_num_sent = F.last_capa_data_seq_num_sent
    BY <1>2 DEF FlowStates
<1> HIDE DEF G
<1>4. CountOf(G, f)
    BY <1>2, <1>3 DEF CountOf
<1>5. GoalOf(G, f)
    BY <1>2, <1>3 DEF GoalOf
<1>6. /\ faults' \in 0 .. MaxFaults
      /\ faults' = 0 => faults = 0
    BY <1>1, TimelyFault
<1>7. /\ evt' \in [ pending : BOOLEAN, waits : SUBSET (Flow \X {"resend", "window"}) ]
      /\ evt'.waits \subseteq evt.waits
      /\ << f, "resend" >> \in evt'.waits => G.rts_received /\ G.redundancy = "waiting"
    <2>1. << f, "window" >> \in Flow \X {"resend", "window"}
        OBVIOUS
    <2>2. /\ evt' \in [ pending : BOOLEAN, waits : SUBSET (Flow \X {"resend", "window"}) ]
          /\ evt'.waits \subseteq evt.waits
        BY <1>1, <2>1, ReachesEvent
    <2>3. QED
        BY <1>3, <2>2, PartsOf
<1>8. \A g \in Flow : Carried(g)' = Carried(g)
    BY <1>1 DEF Carried
<1>9. ASSUME faults' = 0 PROVE OrderOf(G, f, Carried(f)')
    <2>1. OrderOf(F, f, Carried(f))
        BY <1>6, <1>9, PartsOf
    <2>2. Handed(G, f) = Handed(F, f)
        BY <1>3 DEF Handed
    <2>3. QED
        BY <1>3, <1>8, <2>1, <2>2 DEF OrderOf
<1>10. /\ hold_on' \in Nat /\ net' \in SUBSET Packets /\ capabilities' \subseteq capabilities
       /\ \A m \in net' : m \in net
       /\ F.started => G.started
       /\ F.finished_at_receiver => G.finished_at_receiver
    BY <1>1, <1>3 DEF CapabilityInv, TypeOK
<1>11. QED
    BY <1>1, <1>3, <1>4, <1>5, <1>6, <1>7, <1>8, <1>9, <1>10, OneFlowKeeps

\* The turn of capa_proc_evt looks at flows, each of which stays within its goal.
LEMMA SeenKeeps ==
    ASSUME CapabilityInv, NEW g \in Active
    PROVE  /\ Seen(flow[g], g) \in FlowStates /\ Seen(flow[g], g).rts_received
           /\ ~Seen(flow[g], g).finished_at_receiver
           /\ Seen(flow[g], g).redundancy = IF flow[g].redundancy = "waiting" THEN "waiting" ELSE "none"
           /\ CountOf(Seen(flow[g], g), g) /\ GoalOf(Seen(flow[g], g), g)
           /\ flow[g].started => Seen(flow[g], g).started
           /\ \A carried : OrderOf(flow[g], g, carried) => OrderOf(Seen(flow[g], g), g, carried)
<1>1. g \in Flow /\ flow[g].rts_received /\ ~flow[g].finished_at_receiver
    BY DEF Active
<1>2. flow[g] \in FlowStates /\ CountOf(flow[g], g) /\ GoalOf(flow[g], g)
    BY <1>1, PartsOf
<1>3. QED
    BY <1>1, <1>2, SeenFlow

\* Flows change, each as the lemmas on flow objects say, and packets are added: the turn of
\* the event, which waits at most for flows at their goal.
LEMMA FlowsKeep ==
    ASSUME CapabilityInv, flow' \in [Flow -> FlowStates], hold_on' \in Nat,
           UNCHANGED << capabilities, faults >>,
           evt' \in [ pending : BOOLEAN, waits : SUBSET (Flow \X {"resend", "window"}) ],
           net' \in SUBSET Packets, \A m \in net' : m \in net \/ (m.type = "capability" /\ flow[m.flow].started),
           \A g \in Flow :
              /\ CountOf(flow'[g], g) /\ GoalOf(flow'[g], g)
              /\ flow[g].started => flow'[g].started
              /\ flow[g].finished_at_receiver => flow'[g].finished_at_receiver
              /\ << g, "resend" >> \in evt'.waits => flow'[g].rts_received /\ flow'[g].redundancy = "waiting"
              /\ faults = 0 => OrderOf(flow'[g], g, Carried(g)')
    PROVE  CapabilityInv'
<1>1. TypeOK'
    BY DEF CapabilityInv, TypeOK
<1>2. CountsTrue'
    <2>1. ASSUME NEW m \in net', m.type = "ack" PROVE flow'[m.flow].finished_at_receiver
        BY <2>1 DEF CapabilityInv, CountsTrue, Packets
    <2>2. QED
        BY <2>1 DEF CountsTrue
<1>3. WaitsAtGoal'
    <2>1. ASSUME NEW m \in net' \cup capabilities' PROVE flow'[m.flow].started
        <3>1. flow[m.flow].started /\ m.flow \in Flow
            <4>1. m \in Packets
                BY DEF CapabilityInv, TypeOK
            <4>2. QED
                BY <4>1 DEF Packets, CapabilityInv, WaitsAtGoal
        <3>2. QED
            BY <3>1
    <2>2. QED
        BY <2>1 DEF WaitsAtGoal
<1>4. NoneAskedTwice'
    BY DEF NoneAskedTwice
<1>5. QED
    BY <1>1, <1>2, <1>3, <1>4 DEF CapabilityInv

\* A capability for one flow.
LEMMA GiveKeeps ==
    ASSUME CapabilityInv, NEW seen,
           seen = [f \in Flow |-> IF f \in Active THEN Seen(flow[f], f) ELSE flow[f]],
           Give(seen), evt = Now, hold_on' = hold_on, UNCHANGED << capabilities, faults >>
    PROVE  CapabilityInv'
<1>1. PICK f \in {g \in Active : MaySend(seen[g])}, passed \in SUBSET {g \in Active : ~MaySend(seen[g])} :
          /\ flow' = [g \in Flow |-> IF g = f THEN WithCapability(seen[f], f)
                                     ELSE IF g \in passed THEN seen[g] ELSE flow[g]]
          /\ net' = net \cup {Packet("capability", f, seen[f].capability_count, NextData(seen[f], f))}
          /\ UNCHANGED << evt, hold_on >>
    BY DEF Give
<1>2. /\ f \in Active /\ f \in Flow /\ passed \subseteq Active /\ f \notin passed /\ seen[f] = Seen(flow[f], f)
      /\ \A g \in passed : g \in Flow /\ seen[g] = Seen(flow[g], g)
    BY <1>1 DEF Active
<1> DEFINE S == seen[f]
           G == WithCapability(S, f)
           d == NextData(S, f)
           p == Packet("capability", f, S.capability_count, d)
<1>3. /\ S \in FlowStates /\ S.rts_received /\ ~S.finished_at_receiver /\ S.redundancy = "none"
      /\ CountOf(S, f) /\ GoalOf(S, f)
      /\ flow[f].started => S.started
      /\ \A carried : OrderOf(flow[f], f, carried) => OrderOf(S, f, carried)
    <2>1. S.redundancy # "waiting"
        BY <1>1 DEF MaySend
    <2>2. QED
        BY <1>2, <2>1, SeenKeeps
<1> HIDE DEF S
<1>4. /\ G \in FlowStates /\ G.started = S.started
      /\ CountOf(G, f) /\ GoalOf(G, f) /\ d \in 0 .. Size[f] - 1
      /\ \A carried : OrderOf(S, f, carried) => OrderOf(G, f, carried \cup {d})
    BY <1>2, <1>3, WithCapabilityFlow
<1> HIDE DEF G, d
<1>5. p \in Packets /\ p.type = "capability" /\ p.flow = f /\ p.data = d
    <2>1. S.capability_count \in Nat
        BY <1>3 DEF FlowStates
    <2>2. QED
        BY <1>2, <1>4, <2>1, PacketIs
<1>6. /\ flow' = [g \in Flow |-> IF g = f THEN G ELSE IF g \in passed THEN Seen(flow[g], g) ELSE flow[g]]
      /\ net' = net \cup {p}
    BY <1>1, <1>2 DEF G, S, d
<1> HIDE DEF p
<1>7. flow' \in [Flow -> FlowStates]
    <2>1. \A g \in Flow : flow[g] \in FlowStates
        BY PartsOf
    <2>2. \A g \in passed : Seen(flow[g], g) \in FlowStates
        BY <1>2, SeenKeeps
    <2>3. QED
        BY <1>4, <1>6, <2>1, <2>2
<1>8. flow[f].started
    BY <1>2, PartsOf DEF Active, GoalOf
<1>9. \A m \in net' : m \in net \/ (m.type = "capability" /\ flow[m.flow].started)
    BY <1>5, <1>6, <1>8
<1>10. evt' = Now /\ evt'.waits = {}
    BY <1>1, NowWaitsForNothing
<1>11. ASSUME NEW g \in Flow
       PROVE  /\ CountOf(flow'[g], g) /\ GoalOf(flow'[g], g)
              /\ flow[g].started => flow'[g].started
              /\ flow[g].finished_at_receiver => flow'[g].finished_at_receiver
              /\ faults = 0 => OrderOf(flow'[g], g, Carried(g)')
    <2>1. CASE g = f
        <3>1. ~flow[f].finished_at_receiver /\ flow'[f] = G
            BY <1>2, <1>6 DEF Active
        <3>2. ASSUME faults = 0 PROVE OrderOf(G, f, Carried(f)')
            <4>1. OrderOf(G, f, Carried(f) \cup {d})
                BY <1>2, <1>3, <1>4, <3>2, PartsOf
            <4>2. \A x : x \in Carried(f)' <=> x \in Carried(f) \cup {d}
                BY <1>2, <1>5, <1>6, CarriedIs
            <4>3. Carried(f)' = Carried(f) \cup {d}
                BY <4>2
            <4>4. QED
                BY <4>1, <4>3
        <3>3. QED
            BY <1>3, <1>4, <2>1, <3>1, <3>2
    <2>2. CASE g # f
        <3>1. \A x : x \in Carried(g)' <=> x \in Carried(g)
            BY <1>5, <1>6, <2>2, CarriedIs
        <3>2. Carried(g)' = Carried(g)
            BY <3>1
        <3>3. CASE g \in passed
            <4>1. flow'[g] = Seen(flow[g], g) /\ g \in Active /\ ~flow[g].finished_at_receiver
                BY <1>2, <1>6, <2>2, <3>3 DEF Active
            <4>2. QED
                BY <3>2, <4>1, SeenKeeps, PartsOf
        <3>4. CASE g \notin passed
            <4>1. flow'[g] = flow[g]
                BY <1>6, <2>2, <3>4
            <4>2. QED
                BY <3>2, <4>1, PartsOf
        <3>5. QED
            BY <3>3, <3>4
    <2>3. QED
        BY <2>1, <2>2
<1>12. /\ net' \in SUBSET Packets /\ hold_on' \in Nat
       /\ evt' \in [ pending : BOOLEAN, waits : SUBSET (Flow \X {"resend", "window"}) ]
    BY <1>5, <1>6, <1>10, NowWaitsForNothing DEF CapabilityInv, TypeOK
<1>13. QED
    BY <1>7, <1>9, <1>10, <1>11, <1>12, FlowsKeep

\* No flow may have a capability: the event waits for their timeouts.
LEMMA WaitKeeps ==
    ASSUME CapabilityInv, NEW seen,
           seen = [f \in Flow |-> IF f \in Active THEN Seen(flow[f], f) ELSE flow[f]],
           Wait(seen), hold_on' = hold_on, UNCHANGED << capabilities, faults >>
    PROVE  CapabilityInv'
<1> DEFINE waits == UNION {Timeout(seen[f], f) : f \in Active}
<1>1. flow' = seen /\ evt' = [ pending |-> waits # {}, waits |-> waits ] /\ net' = net
    BY DEF Wait
<1>2. \A g \in Flow : flow[g] \in FlowStates
    BY PartsOf
<1>3. \A g \in Active : g \in Flow /\ ~flow[g].finished_at_receiver
    BY DEF Active
<1>4. flow' \in [Flow -> FlowStates]
    BY <1>1, <1>2, <1>3, SeenKeeps
<1>5. \A g \in Active : Timeout(seen[g], g) \subseteq Flow \X {"resend", "window"}
    BY <1>3 DEF Timeout
<1>6. evt' \in [ pending : BOOLEAN, waits : SUBSET (Flow \X {"resend", "window"}) ]
    <2>1. waits \in SUBSET (Flow \X {"resend", "window"})
        BY <1>5
    <2> HIDE DEF waits
    <2>2. (waits # {}) \in BOOLEAN
        OBVIOUS
    <2>3. QED
        BY <1>1, <2>1, <2>2
<1>7. ASSUME NEW g \in Flow, << g, "resend" >> \in evt'.waits
      PROVE  flow'[g].rts_received /\ flow'[g].redundancy = "waiting"
    <2>1. << g, "resend" >> \in waits
        BY <1>1, <1>7
    <2>2. PICK h \in Active : << g, "resend" >> \in Timeout(seen[h], h)
        BY <2>1
    <2>3. h = g /\ seen[g].redundancy = "waiting"
        BY <2>2 DEF Timeout
    <2>4. flow'[g] = Seen(flow[g], g)
        BY <1>1, <2>2, <2>3
    <2>5. QED
        BY <1>1, <2>2, <2>3, <2>4, SeenKeeps
<1>8. ASSUME NEW g \in Flow
      PROVE  /\ CountOf(flow'[g], g) /\ GoalOf(flow'[g], g)
             /\ flow[g].started => flow'[g].started
             /\ flow[g].finished_at_receiver => flow'[g].finished_at_receiver
             /\ faults = 0 => OrderOf(flow'[g], g, Carried(g)')
    <2>1. Carried(g)' = Carried(g)
        BY <1>1 DEF Carried
    <2>2. CASE g \in Active
        <3>1. flow'[g] = Seen(flow[g], g)
            BY <1>1, <2>2
        <3>2. QED
            BY <1>3, <2>1, <2>2, <3>1, SeenKeeps, PartsOf
    <2>3. CASE g \notin Active
        <3>1. flow'[g] = flow[g]
            BY <1>1, <2>3
        <3>2. QED
            BY <2>1, <3>1, PartsOf
    <2>4. QED
        BY <2>2, <2>3
<1>9. net' \in SUBSET Packets /\ hold_on' \in Nat
    BY <1>1 DEF CapabilityInv, TypeOK
<1>10. QED
    BY <1>1, <1>4, <1>6, <1>7, <1>8, <1>9, FlowsKeep

\* A turn of the event.
LEMMA SendCapabilityKeeps == ASSUME CapabilityInv, SendCapability PROVE CapabilityInv'
<1> DEFINE seen == [f \in Flow |-> IF f \in Active THEN Seen(flow[f], f) ELSE flow[f]]
<1>1. /\ evt = Now /\ UNCHANGED << capabilities, faults >>
      /\ \/ hold_on > 0 /\ hold_on' = hold_on - 1 /\ UNCHANGED << flow, evt, net >>
         \/ hold_on = 0 /\ Give(seen)
         \/ hold_on = 0 /\ Wait(seen)
    BY DEF SendCapability
<1>2. CASE hold_on > 0 /\ hold_on' = hold_on - 1 /\ UNCHANGED << flow, evt, net >>
    <2>1. hold_on' \in Nat
        BY <1>2 DEF CapabilityInv, TypeOK
    <2>2. \A g \in Flow : Carried(g)' = Carried(g)
        BY <1>1, <1>2 DEF Carried
    <2>3. QED
        BY <1>1, <1>2, <2>1, <2>2 DEF CapabilityInv, TypeOK, CountsTrue, WaitsAtGoal, NoneAskedTwice
<1>3. CASE hold_on = 0 /\ Give(seen)
    <2>1. hold_on' = hold_on
        BY <1>3 DEF Give
    <2> HIDE DEF seen
    <2>2. QED
        BY <1>1, <1>3, <2>1, GiveKeeps DEF seen
<1>4. CASE hold_on = 0 /\ Wait(seen)
    <2>1. hold_on' = hold_on
        BY <1>4 DEF Wait
    <2>2. QED
        BY <1>1, <1>4, <2>1, WaitKeeps
<1>5. QED
    BY <1>1, <1>2, <1>3, <1>4

\* Every step keeps the invariant.
LEMMA StepKeeps == CapabilityInv /\ [Next]_vars => CapabilityInv'
<1> SUFFICES ASSUME CapabilityInv, [Next]_vars PROVE CapabilityInv'
    OBVIOUS
<1>1. ASSUME NEW f \in Flow, StartFlow(f) PROVE CapabilityInv'
    BY <1>1, StartFlowKeeps
<1>2. ASSUME NEW f \in Flow, ResendTimeout(f) PROVE CapabilityInv'
    BY <1>2, ResendTimeoutKeeps
<1>3. ASSUME NEW f \in Flow, WindowTimeout(f) PROVE CapabilityInv'
    BY <1>3, WindowTimeoutKeeps
<1>4. ASSUME NEW m \in net, Receive(m) PROVE CapabilityInv'
    BY <1>4, ReceiveCapabilityKeeps, ReceiveAckKeeps, ReceiveRtsKeeps, ReceiveDataKeeps DEF Receive
<1>5. ASSUME NEW m \in net, Lose(m) PROVE CapabilityInv'
    BY <1>5, LoseKeeps
<1>6. CASE SenderTurn
    BY <1>6, SenderTurnKeeps
<1>7. CASE SendCapability
    BY <1>7, SendCapabilityKeeps
<1>8. CASE UNCHANGED vars
    <2>1. \A g \in Flow : Carried(g)' = Carried(g)
        BY <1>8 DEF vars, Carried
    <2>2. QED
        BY <1>8, <2>1 DEF vars, CapabilityInv, TypeOK, CountsTrue, WaitsAtGoal, NoneAskedTwice
<1>9. QED
    BY <1>1, <1>2, <1>3, <1>4, <1>5, <1>6, <1>7, <1>8 DEF Next

-----------------------------------------------------------------------------
(* The theorems                                                            *)

\* The invariant behind the theorems holds at all times, whatever is lost, expires or is
\* timed out early (send_capability, receive_rts and receive of capabilityhost.cpp and
\* capabilityflow.cpp).
THEOREM CapabilityInvariant == Spec => []CapabilityInv
<1>1. Init => CapabilityInv
    BY InitInv
<1>2. CapabilityInv /\ [Next]_vars => CapabilityInv'
    BY StepKeeps
<1>3. QED
    BY <1>1, <1>2, PTL DEF Spec

\* The variables stay within their types.
THEOREM CapabilityTypes == Spec => []TypeOK
<1>1. CapabilityInv => TypeOK
    BY DEF CapabilityInv
<1>2. QED
    BY <1>1, CapabilityInvariant, PTL

\* A receiver hands out no more capabilities than packets were missing when it began to, and
\* without a fault exactly one for each packet of a flow (capability_goal in send_capability).
THEOREM GoalIsKept == Spec => []GoalKept
<1>1. CapabilityInv => GoalKept
    <2>1. SUFFICES ASSUME CapabilityInv, NEW f \in Flow
                   PROVE  /\ flow[f].capability_count <= flow[f].capability_goal
                          /\ faults = 0 => flow[f].capability_goal = Size[f]
        BY DEF GoalKept
    <2>2. QED
        BY <2>1, PartsOf DEF GoalOf, OrderOf
<1>2. QED
    BY <1>1, CapabilityInvariant, PTL

-----------------------------------------------------------------------------
(* The transfer of each flow                                               *)

\* What a step of the receiver or of the sender leaves alone for the rest of the simulator.
Untold(F, G) ==
    /\ G.received_count = F.received_count
    /\ G.finished = F.finished
    /\ G.finish_events = F.finish_events

\* An RTS and the turns of the event say nothing to it.
LEMMA QuietFlow ==
    ASSUME CapabilityInv, NEW f \in Flow
    PROVE  /\ flow[f].started /\ ~flow[f].rts_received => Untold(flow[f], Counted(flow[f], f))
           /\ f \in Active => Untold(flow[f], Seen(flow[f], f))
           /\ f \in Active /\ MaySend(Seen(flow[f], f))
              => Untold(flow[f], WithCapability(Seen(flow[f], f), f))
<1> DEFINE F == flow[f]
<1>1. F \in FlowStates /\ CountOf(F, f) /\ GoalOf(F, f)
    BY PartsOf
<1>2. ASSUME F.started /\ ~F.rts_received PROVE Untold(F, Counted(F, f))
    BY <1>1, <1>2, CountedFlow DEF Untold
<1>3. ASSUME f \in Active PROVE Untold(F, Seen(F, f))
    <2>1. F.rts_received /\ ~F.finished_at_receiver
        BY <1>3 DEF Active
    <2> HIDE DEF F
    <2>2. QED
        BY <1>1, <2>1, SeenFlow DEF Untold
<1>4. ASSUME f \in Active, MaySend(Seen(F, f)) PROVE Untold(F, WithCapability(Seen(F, f), f))
    <2> DEFINE S == Seen(F, f)
    <2>1. /\ S \in FlowStates /\ S.rts_received /\ ~S.finished_at_receiver /\ S.redundancy = "none"
          /\ CountOf(S, f) /\ GoalOf(S, f)
        BY <1>4, SeenKeeps DEF MaySend
    <2>2. Untold(F, S)
        BY <1>3, <1>4
    <2> HIDE DEF S, F
    <2>3. Untold(S, WithCapability(S, f))
        BY <2>1, WithCapabilityFlow DEF Untold
    <2>4. QED
        BY <2>2, <2>3 DEF Untold, S
<1>5. QED
    BY <1>2, <1>3, <1>4

\* A step delivers a packet of a flow, or finishes the flow, or leaves it as it is.
Told(F, G, f) ==
    \/ Untold(F, G)
    \/ /\ F.received_count < Size[f] /\ G.received_count = F.received_count + 1
       /\ G.finished = F.finished /\ G.finish_events = F.finish_events
    \/ /\ F.received_count = Size[f] /\ ~F.finished /\ G.finished
       /\ G.received_count = F.received_count /\ G.finish_events = F.finish_events + 1

LEMMA DataTells ==
    ASSUME CapabilityInv, NEW m \in net, ReceiveData(m), NEW f \in Flow
    PROVE  Told(flow[f], flow'[f], f)
<1> DEFINE F == flow[f]
           C == IF ~F.rts_received THEN Counted(F, f) ELSE F
           G == Received(C, m)
<1>1. /\ m \in Packets /\ m.flow \in Flow /\ flow[m.flow].started
      /\ flow \in [Flow -> FlowStates]
    BY PartsOf DEF Packets, CapabilityInv, TypeOK
<1>2. CASE flow[m.flow].finished \/ m.flow # f
    <2>1. flow'[f] = F
        BY <1>1, <1>2 DEF ReceiveData
    <2>2. QED
        BY <2>1 DEF Told, Untold
<1>3. CASE ~flow[m.flow].finished /\ m.flow = f
    <2>1. F \in FlowStates /\ CountOf(F, f) /\ GoalOf(F, f)
        BY PartsOf
    <2>2. flow'[f] = G
        BY <1>1, <1>3 DEF ReceiveData, Received
    <2>3. /\ C \in FlowStates /\ C.rts_received /\ ~C.finished /\ Untold(F, C)
          /\ CountOf(C, f) /\ GoalOf(C, f)
        <3>1. CASE F.rts_received
            BY <1>3, <2>1, <3>1 DEF Untold
        <3>2. CASE ~F.rts_received
            BY <1>1, <1>3, <2>1, <3>2, CountedFlow DEF Untold
        <3>3. QED
            BY <3>1, <3>2
    <2> HIDE DEF C, F
    <2>4. /\ G \in FlowStates /\ CountOf(G, f)
          /\ G.received_count = IF m.data \in C.packets_received THEN C.received_count
                                ELSE C.received_count + 1
          /\ G.finished = C.finished /\ G.finish_events = C.finish_events
        BY <1>1, <1>3, <2>3, WithDataFlow
    <2> HIDE DEF G
    <2>5. G.received_count <= Size[f] /\ F.received_count \in Nat
        BY <2>1, <2>4 DEF CountOf, FlowStates
    <2>6. QED
        BY <2>2, <2>3, <2>4, <2>5, InitSize DEF Told, Untold, F
<1>4. QED
    BY <1>2, <1>3

LEMMA AckTells ==
    ASSUME CapabilityInv, NEW m \in net, ReceiveAck(m), NEW f \in Flow
    PROVE  Told(flow[f], flow'[f], f)
<1> DEFINE F == flow[f]
<1>1. /\ m \in Packets /\ flow[m.flow].finished_at_receiver
      /\ flow \in [Flow -> FlowStates]
    BY DEF ReceiveAck, Packets, CapabilityInv, TypeOK, CountsTrue
<1>2. CASE flow[m.flow].finished \/ m.flow # f
    <2>1. flow'[f] = F
        BY <1>1, <1>2 DEF ReceiveAck
    <2>2. QED
        BY <2>1 DEF Told, Untold
<1>3. CASE ~flow[m.flow].finished /\ m.flow = f
    <2>1. F.received_count = Size[f]
        BY <1>1, <1>3, PartsOf DEF CountOf
    <2>2. flow'[f].received_count = F.received_count /\ flow'[f].finished
          /\ flow'[f].finish_events = F.finish_events + 1
        BY <1>1, <1>3 DEF ReceiveAck, FlowStates
    <2>3. QED
        BY <1>3, <2>1, <2>2 DEF Told
<1>4. QED
    BY <1>2, <1>3

LEMMA TurnTells ==
    ASSUME CapabilityInv, SendCapability, NEW f \in Flow PROVE Untold(flow[f], flow'[f])
<1> DEFINE seen == [g \in Flow |-> IF g \in Active THEN Seen(flow[g], g) ELSE flow[g]]
<1>1. UNCHANGED flow \/ Give(seen) \/ Wait(seen)
    BY DEF SendCapability
<1>2. CASE UNCHANGED flow
    BY <1>2 DEF Untold
<1>3. CASE Give(seen)
    <2>1. PICK h \in {g \in Active : MaySend(seen[g])}, passed \in SUBSET {g \in Active : ~MaySend(seen[g])} :
              flow' = [g \in Flow |-> IF g = h THEN WithCapability(seen[h], h)
                                      ELSE IF g \in passed THEN seen[g] ELSE flow[g]]
        BY <1>3 DEF Give
    <2>2. CASE f = h
        <3>1. f \in Active /\ seen[f] = Seen(flow[f], f) /\ MaySend(seen[f])
            BY <2>1, <2>2
        <3>2. flow'[f] = WithCapability(Seen(flow[f], f), f)
            BY <2>1, <2>2, <3>1
        <3>3. QED
            BY <3>1, <3>2, QuietFlow
    <2>3. CASE f # h /\ f \in passed
        <3>1. flow'[f] = Seen(flow[f], f) /\ f \in Active
            BY <2>1, <2>3
        <3>2. QED
            BY <3>1, QuietFlow
    <2>4. CASE f # h /\ f \notin passed
        <3>1. flow'[f] = flow[f]
            BY <2>1, <2>4
        <3>2. QED
            BY <3>1 DEF Untold
    <2>5. QED
        BY <2>2, <2>3, <2>4
<1>4. CASE Wait(seen)
    <2>1. flow'[f] = IF f \in Active THEN Seen(flow[f], f) ELSE flow[f]
        BY <1>4 DEF Wait
    <2>2. CASE f \in Active
        BY <2>1, <2>2, QuietFlow
    <2>3. CASE f \notin Active
        BY <2>1, <2>3 DEF Untold
    <2>4. QED
        BY <2>2, <2>3
<1>5. QED
    BY <1>1, <1>2, <1>3, <1>4

LEMMA StepTells ==
    ASSUME CapabilityInv, [Next]_vars, NEW f \in Flow PROVE Told(flow[f], flow'[f], f)
<1>1. flow \in [Flow -> FlowStates]
    BY DEF CapabilityInv, TypeOK
<1>2. CASE UNCHANGED flow
    BY <1>2 DEF Told, Untold
<1>3. ASSUME NEW g \in Flow, StartFlow(g) \/ ResendTimeout(g) \/ WindowTimeout(g)
      PROVE  Told(flow[f], flow'[f], f)
    BY <1>1, <1>3 DEF StartFlow, ResendTimeout, WindowTimeout, FlowStates, Told, Untold
<1>4. ASSUME NEW m \in net, ReceiveRts(m) PROVE Told(flow[f], flow'[f], f)
    <2>1. m.flow \in Flow /\ flow[m.flow].started
        BY <1>4, PartsOf
    <2>2. CASE flow'[f] = flow[f]
        BY <2>2 DEF Told, Untold
    <2>3. CASE flow'[f] # flow[f]
        <3>1. m.flow = f /\ ~flow[f].rts_received /\ flow'[f] = Counted(flow[f], f)
            BY <1>1, <1>4, <2>1, <2>3 DEF ReceiveRts
        <3>2. QED
            BY <2>1, <3>1, QuietFlow DEF Told
    <2>4. QED
        BY <2>2, <2>3
<1>5. ASSUME NEW m \in net, Receive(m) \/ Lose(m) PROVE Told(flow[f], flow'[f], f)
    BY <1>2, <1>4, <1>5, DataTells, AckTells DEF Receive, ReceiveCapability, Lose
<1>6. CASE SendCapability
    BY <1>6, TurnTells DEF Told
<1>7. QED
    BY <1>2, <1>3, <1>5, <1>6 DEF Next, SenderTurn, vars

Transferred(f) == INSTANCE AckedTransfer WITH
    PacketCount <- Size[f],
    delivered   <- Delivered(f),
    complete    <- flow[f].finished,
    announced   <- flow[f].finish_events

\* Without its liveness, each flow is a transfer with acknowledgements: its packets are
\* counted one at a time and once each, and after all of them it finishes and posts the
\* FlowFinishedEvent once (receive of capabilityflow.cpp).
THEOREM FlowIsTransfer == ASSUME NEW f \in Flow PROVE Spec => Transferred(f)!SafeTransfer
<1>1. Init => Transferred(f)!TransferInit
    BY FS_EmptySet DEF Init, NewFlow, Delivered, Transferred!TransferInit
<1>2. CapabilityInv => Delivered(f) = flow[f].received_count
    BY PartsOf DEF CountOf, Delivered
<1>3. CapabilityInv /\ CapabilityInv' /\ [Next]_vars
      => [Transferred(f)!TransferNext]_(Transferred(f)!transferVars)
    <2> SUFFICES ASSUME CapabilityInv, CapabilityInv', [Next]_vars
                 PROVE  [Transferred(f)!TransferNext]_(Transferred(f)!transferVars)
        OBVIOUS
    <2>1. Delivered(f) = flow[f].received_count /\ Delivered(f)' = flow'[f].received_count
        BY <1>2 DEF CapabilityInv, CountsTrue, CountOf, Delivered
    <2>2. Told(flow[f], flow'[f], f)
        BY StepTells
    <2>3. QED
        BY <2>1, <2>2 DEF Told, Untold, Transferred!TransferNext, Transferred!Deliver,
                          Transferred!Complete, Transferred!transferVars
<1>4. QED
    BY <1>1, <1>3, CapabilityInvariant, PTL DEF Spec, Transferred!SafeTransfer
=============================================================================
