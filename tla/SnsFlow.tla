------------------------------- MODULE SnsFlow -------------------------------
(***************************************************************************)
(* One dcSIM flow (ext/snsflow.cpp): the sender's window of reservations,  *)
(* the receiver's bookkeeping, and everything between them.                *)
(*                                                                         *)
(* A SIM probe reserves a slot of sim_window.  Its SIM_ACK schedules the   *)
(* DATA of the reservation for t_sim + get_worst_rtt(), the receiver       *)
(* acknowledges every AckEvery receptions with the ids of all the DATA it  *)
(* has seen, and a slot that waits too long is emptied and probed again.   *)
(* The simulator keeps both ends of a flow in one SnsFlow object, so the   *)
(* receiver's "finished" is visible to the sender at once.                 *)
(*                                                                         *)
(* net abstracts the host lists, the switch queues and the links: packets  *)
(* stay in it for an arbitrary time, leave it in any order and may be      *)
(* dropped by a full queue.  Modules SnsHost and SnsQueue give the detail. *)
(*                                                                         *)
(* Time is counted in ticks relative to now: a slot's age is the code's    *)
(* get_current_time() - sim_window[i].time (negative while the time of the *)
(* slot is the future release of its DATA), and left is what remains until *)
(* an SnsAddToPktToBeSentEvt fires.                                        *)
(***************************************************************************)
EXTENDS Integers, FiniteSets

CONSTANTS
    Size,        \* bytes of the flow
    Mss,         \* payload bytes of a DATA packet
    SizeInPkt,   \* ceil(Size / Mss), the number of slots of the window
    AckEvery,    \* receptions between two DATA_ACKs: 16 in the code
    DataPerAck,  \* params.num_data_packets_per_sim_ack
    Synced,      \* params.synced_mode
    WorstRtt,    \* get_worst_rtt(), in ticks
    Waits,       \* the values min(1.5 * current_avg_rtt, 10 * flow_rtt) takes
    AgeCap,      \* ages are counted up to this bound
    MaxMsgId,    \* bound: message ids 0 .. MaxMsgId - 1 are used
    MaxLoss      \* bound: packets the network drops

ASSUME SizesAssumption ==
    /\ Size \in Nat \ {0} /\ Mss \in Nat \ {0} /\ SizeInPkt \in Nat \ {0}
    /\ (SizeInPkt - 1) * Mss < Size /\ Size <= SizeInPkt * Mss

ASSUME ParametersAssumption ==
    /\ AckEvery \in Nat \ {0} /\ DataPerAck \in Nat \ {0}
    /\ Synced \in BOOLEAN
    /\ WorstRtt \in Nat /\ MaxMsgId \in Nat /\ MaxLoss \in Nat

ASSUME ClockAssumption ==
    /\ Waits \subseteq Nat /\ AgeCap \in Nat /\ WorstRtt <= AgeCap
    /\ \A w \in Waits : w < AgeCap

VARIABLES
    direct,            \* collective_id = 99: DATA goes out without a reservation
    sim_window,        \* slot |-> [age, id, status]
    msg_id,            \* the id of the next SIM (of the next DATA if direct)
    stop_sending_sim,
    finished,
    received,          \* ids of the DATA counted in received_bytes
    received_bytes,
    data_ids_recived,  \* the ids in the code's multiset of the same name
    receptions,        \* the size of that multiset, modulo AckEvery
    acked_msg_ids,
    finish_events,     \* FlowFinishedEvents posted to the event queue
    releases,          \* pending SnsAddToPktToBeSentEvts
    net,
    losses,
    sim_age            \* history: ticks since each SIM was sent, at most WorstRtt

vars == << direct, sim_window, msg_id, stop_sending_sim, finished, received,
           received_bytes, data_ids_recived, receptions, acked_msg_ids,
           finish_events, releases, net, losses, sim_age >>

sender   == << sim_window, msg_id >>
receiver == << data_ids_recived, receptions >>

Slots == 0 .. SizeInPkt - 1
Ids   == 0 .. MaxMsgId - 1
NoId  == -1

Statuses == {"INIT", "SIM_SENT", "SIM_ACK_RECEIVED", "DATA_ACK_RECEIVED"}
SlotType == [age : Int, id : Ids \cup {NoId}, status : Statuses]

EmptySlot == [age |-> 0, id |-> NoId, status |-> "INIT"]

Packets ==
    [type : {"SIM", "SIM_ACK", "DATA"}, id : Ids, copy : Nat, acks : {{}}]
        \cup [type : {"DATA_ACK"}, id : {NoId}, copy : {0}, acks : SUBSET Ids]
Releases == [id : Ids, copy : Nat, left : Nat]

Sim(i)      == [type |-> "SIM",     id |-> i, copy |-> 0, acks |-> {}]
SimAck(i)   == [type |-> "SIM_ACK", id |-> i, copy |-> 0, acks |-> {}]
Data(i, c)  == [type |-> "DATA",    id |-> i, copy |-> c, acks |-> {}]
DataAck(s)  == [type |-> "DATA_ACK", id |-> NoId, copy |-> 0, acks |-> s]

\* Mutant: the flow completes a packet early.
EnoughEarly(bytes) == bytes + Mss >= Size

\* received_bytes >= size - 1
Enough(bytes) == bytes >= Size - 1

-----------------------------------------------------------------------------
Init ==
    /\ direct \in BOOLEAN
    /\ sim_window = [i \in Slots |-> EmptySlot]
    /\ msg_id = 0
    /\ stop_sending_sim = FALSE
    /\ finished = FALSE
    /\ received = {}
    /\ received_bytes = 0
    /\ data_ids_recived = {}
    /\ receptions = 0
    /\ acked_msg_ids = {}
    /\ finish_events = 0
    /\ releases = {}
    /\ net = {}
    /\ losses = 0
    /\ sim_age = [i \in Ids |-> 0]

-----------------------------------------------------------------------------
(* Helpers *)

\* check_and_set_to_finished with received_bytes = bytes and received = rcv;
\* stop is what the caller has made of stop_sending_sim.
CheckAndSetToFinished(bytes, rcv, stop) ==
    LET now == ~finished /\ Enough(bytes)
    IN  /\ finished' = (finished \/ now)
        /\ stop_sending_sim' = (stop \/ now)
        /\ received' = IF now THEN {} ELSE rcv
        /\ received_bytes' = bytes
        /\ finish_events' = IF now THEN finish_events + 1 ELSE finish_events

\* Mutant: a slot waiting for its DATA_ACK counts as acknowledged.
AllAnswered(w) ==
    \A i \in Slots : w[i].status \in {"SIM_ACK_RECEIVED", "DATA_ACK_RECEIVED"}

FreeSlots(w) == {i \in Slots : w[i].status = "INIT"}
AllAcked(w)  == \A i \in Slots : w[i].status = "DATA_ACK_RECEIVED"

\* Mutant: the age of a slot is not looked at.
DropAll(w, wait) ==
    [i \in Slots |-> IF w[i].status \notin {"INIT", "DATA_ACK_RECEIVED"}
                     THEN EmptySlot ELSE w[i]]

\* The window after drop_sim_if_timeout_pass with time_to_wait = wait.
DropSimIfTimeoutPass(w, wait) ==
    [i \in Slots |->
        IF w[i].status \notin {"INIT", "DATA_ACK_RECEIVED"} /\ w[i].age > wait
        THEN EmptySlot ELSE w[i]]

\* The window get_free_slot_in_window leaves behind.
WindowSearched(w, wait) ==
    IF FreeSlots(w) # {} \/ AllAcked(w) THEN w ELSE DropSimIfTimeoutPass(w, wait)

IsFirst(i, s) == i \in s /\ \A j \in s : i <= j

\* get_slot_by_id returns the first of these slots, or -1 when there is none.
SlotsById(i) == {s \in Slots : sim_window[s].id = i}

\* Mutant: the DATA follows its SIM_ACK at once.
NoDelay(slot) == 0

\* How long DATA waits for its release: until the time of its slot plus
\* get_worst_rtt(), unless that has passed or the sender is not synced.
ReleaseDelay(slot) ==
    LET until == WorstRtt - sim_window[slot].age
    IN  IF Synced /\ until > 0 THEN until ELSE 0

\* Mutant: an id that was received before is counted again.
CountAlways(id) == TRUE

\* The id has not been counted in received_bytes.
Fresh(id) == id \notin received

\* data_ids_recived.size() % 16, after one more reception.
Counted(n) == (n + 1) % AckEvery

Older(age) == IF age < AgeCap THEN age + 1 ELSE AgeCap

-----------------------------------------------------------------------------
(* The sender *)

\* send_simulation: probe from the first free slot, if there is one and the
\* sender has not stopped.  wait is this call's time_to_wait.
SendSimulation(wait) ==
    LET w    == WindowSearched(sim_window, wait)
        free == FreeSlots(w)
        stop == stop_sending_sim \/ AllAcked(sim_window)
    IN  /\ CheckAndSetToFinished(received_bytes, received, stop)
        /\ \/ /\ stop_sending_sim' \/ free = {}
              /\ sim_window' = w
              /\ UNCHANGED << msg_id, net, sim_age >>
           \/ /\ ~stop_sending_sim' /\ msg_id < MaxMsgId
              /\ \E slot \in Slots :
                    /\ IsFirst(slot, free)
                    /\ sim_window' = [w EXCEPT ![slot] =
                            [age |-> 0, id |-> msg_id, status |-> "SIM_SENT"]]
              /\ net' = net \cup {Sim(msg_id)}
              /\ msg_id' = msg_id + 1
              /\ sim_age' = [sim_age EXCEPT ![msg_id] = 0]
        /\ UNCHANGED releases

\* The collective_id = 99 branch of send_pending_data: a DATA packet with a
\* fresh id is handed over at once.
SendDirect ==
    /\ msg_id < MaxMsgId
    /\ CheckAndSetToFinished(received_bytes, received, stop_sending_sim)
    /\ releases' = releases \cup {[id |-> msg_id, copy |-> 1, left |-> 0]}
    /\ msg_id' = msg_id + 1
    /\ UNCHANGED << sim_window, net, sim_age >>

\* send_pending_data, called by the host while the flow is unfinished.
SendPendingData ==
    /\ ~finished
    /\ \/ direct /\ SendDirect
       \/ ~direct /\ \E wait \in Waits : SendSimulation(wait)
    /\ UNCHANGED << direct, receiver, acked_msg_ids, losses >>

\* The SnsAddToPktToBeSentEvts of message id, due in left ticks.
ReleasesOf(id, left) ==
    {[id |-> id, copy |-> c, left |-> left] : c \in 1 .. DataPerAck}

\* receive of a SIM_ACK whose message still holds a slot: the slot takes the
\* release of the DATA as its time.
HeldSimAck(p) ==
    \E slot \in Slots :
        /\ IsFirst(slot, SlotsById(p.id))
        /\ sim_window' = [sim_window EXCEPT ![slot] =
                [age |-> -ReleaseDelay(slot), id |-> p.id, status |-> "SIM_ACK_RECEIVED"]]
        /\ releases' = releases \cup ReleasesOf(p.id, ReleaseDelay(slot))

\* "Got SIM_ACK from deleted SIM": no slot carries the id any more, and the
\* DATA is released at once all the same.
LateSimAck(p) ==
    /\ SlotsById(p.id) = {}
    /\ releases' = releases \cup ReleasesOf(p.id, 0)
    /\ UNCHANGED sim_window

\* receive of a SIM_ACK: the reservation turns into DATA.
ReceiveSimAck(p) ==
    /\ p.type = "SIM_ACK"
    /\ CheckAndSetToFinished(received_bytes, received, stop_sending_sim)
    /\ HeldSimAck(p) \/ LateSimAck(p)
    /\ net' = net \ {p}
    /\ UNCHANGED << direct, msg_id, acked_msg_ids, receiver, losses, sim_age >>

\* receive of a DATA_ACK: an id that was not acknowledged before marks the
\* slot whose INDEX is the id, whatever id that slot now carries.
ReceiveDataAck(p) ==
    LET new == {i \in p.acks : i < SizeInPkt} \ acked_msg_ids
    IN  /\ p.type = "DATA_ACK"
        /\ CheckAndSetToFinished(received_bytes, received, stop_sending_sim)
        /\ acked_msg_ids' = acked_msg_ids \cup new
        /\ sim_window' = [i \in Slots |->
                IF i \in new
                THEN [sim_window[i] EXCEPT !.status = "DATA_ACK_RECEIVED"]
                ELSE sim_window[i]]
        /\ net' = net \ {p}
        /\ UNCHANGED << direct, msg_id, receiver, releases, losses, sim_age >>

\* SnsAddToPktToBeSentEvt: the DATA joins the host's packets_to_be_sent.
ReleaseData(r) ==
    /\ r.left = 0
    /\ releases' = releases \ {r}
    /\ net' = net \cup {Data(r.id, r.copy)}
    /\ UNCHANGED << direct, sender, stop_sending_sim, finished, received, received_bytes,
                    receiver, acked_msg_ids, finish_events, losses, sim_age >>

-----------------------------------------------------------------------------
(* The receiver *)

\* receive of a SIM: answered with a SIM_ACK of the same message id.
ReceiveSim(p) ==
    /\ p.type = "SIM"
    /\ CheckAndSetToFinished(received_bytes, received, stop_sending_sim)
    /\ net' = (net \ {p}) \cup {SimAck(p.id)}
    /\ UNCHANGED << direct, sender, receiver, acked_msg_ids, releases, losses, sim_age >>

\* receive of a DATA packet: the reception is recorded first; a finished flow
\* ignores the rest; every AckEvery-th reception sends a DATA_ACK; an id that
\* is not in received adds a full Mss, however short the packet's payload is.
ReceiveData(p) ==
    LET done  == finished \/ Enough(received_bytes)
        ids   == data_ids_recived \cup {p.id}
        ack   == ~done /\ Counted(receptions) = 0
    IN  /\ p.type = "DATA"
        /\ data_ids_recived' = ids
        /\ receptions' = Counted(receptions)
        /\ net' = (net \ {p}) \cup (IF ack THEN {DataAck(ids)} ELSE {})
        /\ IF done \/ ~Fresh(p.id)
           THEN CheckAndSetToFinished(received_bytes, received, stop_sending_sim)
           ELSE CheckAndSetToFinished(received_bytes + Mss, received \cup {p.id},
                                      stop_sending_sim)
        /\ UNCHANGED << direct, sender, acked_msg_ids, releases, losses, sim_age >>

-----------------------------------------------------------------------------
(* The network and the clock *)

Lose(p) ==
    /\ losses < MaxLoss
    /\ net' = net \ {p}
    /\ losses' = losses + 1
    /\ UNCHANGED << direct, sender, stop_sending_sim, finished, received, received_bytes,
                    receiver, acked_msg_ids, finish_events, releases, sim_age >>

\* The event loop advances to a later time only when no event is due now.
Tick ==
    /\ \A r \in releases : r.left > 0
    /\ sim_window' = [i \in Slots |->
            IF sim_window[i].status = "INIT" THEN sim_window[i]
            ELSE [sim_window[i] EXCEPT !.age = Older(@)]]
    /\ releases' = {[r EXCEPT !.left = @ - 1] : r \in releases}
    /\ sim_age' = [i \in Ids |-> IF i < msg_id /\ sim_age[i] < WorstRtt
                                 THEN sim_age[i] + 1 ELSE sim_age[i]]
    /\ UNCHANGED << direct, msg_id, stop_sending_sim, finished, received, received_bytes,
                    receiver, acked_msg_ids, finish_events, net, losses >>

Receive(p) ==
    ReceiveSim(p) \/ ReceiveSimAck(p) \/ ReceiveDataAck(p) \/ ReceiveData(p)

Next ==
    \/ SendPendingData
    \/ \E p \in net : Receive(p)
    \/ \E r \in releases : ReleaseData(r)
    \/ \E p \in net : Lose(p)
    \/ Tick

Spec == Init /\ [][Next]_vars

\* The event loop runs every event it holds: the host's periodic
\* HostProcessingEvent, the DATA releases, the deliveries, and time passes.
Fairness ==
    /\ WF_vars(SendPendingData)
    /\ WF_vars(\E r \in releases : ReleaseData(r))
    /\ \A i \in Ids : /\ WF_vars(Sim(i) \in net /\ Receive(Sim(i)))
                      /\ WF_vars(SimAck(i) \in net /\ Receive(SimAck(i)))
                      /\ \A c \in 1 .. DataPerAck :
                            WF_vars(Data(i, c) \in net /\ Receive(Data(i, c)))
    /\ WF_vars(Tick)

FairSpec == Spec /\ Fairness

-----------------------------------------------------------------------------
(* Properties *)

\* The type invariant.
TypeOK ==
    /\ direct \in BOOLEAN
    /\ sim_window \in [Slots -> SlotType]
    /\ msg_id \in 0 .. MaxMsgId
    /\ stop_sending_sim \in BOOLEAN
    /\ finished \in BOOLEAN
    /\ received \subseteq Ids
    /\ received_bytes \in Nat
    /\ data_ids_recived \subseteq Ids
    /\ receptions \in 0 .. AckEvery - 1
    /\ acked_msg_ids \subseteq Ids
    /\ finish_events \in Nat
    /\ releases \subseteq Releases
    /\ net \subseteq Packets
    /\ losses \in 0 .. MaxLoss
    /\ sim_age \in [Ids -> Nat]

\* A sender that stops probing (get_free_slot_in_window found every slot
\* acknowledged, or the flow completed) leaves nothing undelivered behind,
\* although the slots are marked by message id and not by slot.
StopMeansFinished == stop_sending_sim => finished

\* Every byte is counted once: whatever was lost, probed again or duplicated,
\* received_bytes never exceeds one Mss for each distinct id that reached the
\* receiver, and is that until the flow finishes.
BytesCountedOnce ==
    /\ received_bytes <= Cardinality(data_ids_recived) * Mss
    /\ ~finished => /\ received = data_ids_recived
                    /\ received_bytes = Cardinality(received) * Mss

\* The event loop learns of a completion once: it counts FlowFinishedEvents and
\* ends the simulation when their number reaches that of the flows.
AnnouncedOnce == finish_events = IF finished THEN 1 ELSE 0

\* While DATA waits for its release its reservation stays in the window, with
\* the release as its time: drop_sim_if_timeout_pass never frees the slot of a
\* packet that has not left, so nothing is probed again too early.
ReservationKept ==
    \A r \in releases :
        r.left > 0 => \E i \in Slots : /\ sim_window[i].id = r.id
                                       /\ sim_window[i].age = -r.left
                                       /\ sim_window[i].status # "INIT"

\* DATA whose reservation is still in the window leaves no earlier than
\* t_sim + get_worst_rtt() (synced mode).
ReleasedOnTime ==
    \A r \in releases :
        SlotsById(r.id) # {} => sim_age[r.id] + r.left >= WorstRtt

\* README.md:23 and report.md:43 promise the same of all DATA, also of DATA
\* whose SIM_ACK arrives after the slot has been freed.
AllReleasedOnTime ==
    \A r \in releases : sim_age[r.id] + r.left >= WorstRtt

\* A slot is marked DATA_ACK_RECEIVED only when the message it carries was
\* received (README.md:24, the DATA_ACK phase).
AckMarksOwnSlot ==
    \A i \in Slots : sim_window[i].status = "DATA_ACK_RECEIVED"
                        => sim_window[i].id \in data_ids_recived

\* A flow is not announced as finished before any of its data has arrived;
\* FlowFinishedEvent asserts that it took no less than the unloaded time.
NotFinishedUnserved == finish_events > 0 => data_ids_recived # {}

-----------------------------------------------------------------------------
(* The inductive invariant behind StopMeansFinished and BytesCountedOnce. *)

\* Only ids that were received are acknowledged, on the way or at the sender.
AcksAreReceived ==
    /\ acked_msg_ids \subseteq data_ids_recived
    /\ \A p \in net : p.acks \subseteq data_ids_recived

\* A slot is marked only when the id equal to its index was acknowledged.
MarkedMeansAcked ==
    \A i \in Slots : sim_window[i].status = "DATA_ACK_RECEIVED" => i \in acked_msg_ids

FlowInv == /\ TypeOK /\ AcksAreReceived /\ MarkedMeansAcked
           /\ BytesCountedOnce /\ StopMeansFinished /\ AnnouncedOnce

-----------------------------------------------------------------------------
(* The inductive invariant behind ReservationKept and ReleasedOnTime.      *)

\* The probes that are on the way, and the answers to them.
Probes == {p \in net : p.type \in {"SIM", "SIM_ACK"}}

\* The sender knows the ids that are in use: it has drawn them from msg_id.
IdsDrawn ==
    /\ \A i \in Slots : sim_window[i].id < msg_id
    /\ \A p \in Probes : p.id < msg_id
    /\ \A r \in releases : r.id < msg_id

\* A message has one slot, and a free slot has no message.
OneSlotEach ==
    /\ \A i \in Slots : sim_window[i].status = "INIT" => sim_window[i].id = NoId
    /\ \A i, j \in Slots : i # j /\ sim_window[i].id = sim_window[j].id
                             => sim_window[i].id = NoId

\* A message is probed, or answered, or its DATA is scheduled.
OneStageEach ==
    /\ \A p, q \in Probes : p.id = q.id => p = q
    /\ \A p \in Probes, r \in releases : p.id # r.id

\* A slot is no older than its SIM, as far as that is counted.
AgesAgree ==
    \A i \in Slots : sim_window[i].id \in Ids =>
        \/ sim_age[sim_window[i].id] >= WorstRtt
        \/ sim_age[sim_window[i].id] >= sim_window[i].age

ReservationInv == /\ IdsDrawn /\ OneSlotEach /\ OneStageEach /\ AgesAgree
                  /\ ReservationKept /\ (Synced => ReleasedOnTime)
=============================================================================
