------------------------------ MODULE SnsHost -------------------------------
(***************************************************************************)
(* The sending side of one SNS host (coresim/snshost.cpp and the host      *)
(* events of ext/schedulinghost.cpp).                                      *)
(*                                                                         *)
(* A chain of HostProcessingEvents gives one flow a turn at a time.  A     *)
(* turn puts a SIM into sims_to_be_sent; an event of its own moves the     *)
(* first SIM that waits there to packets_to_be_sent, where the answers of  *)
(* the flows and the released DATA wait too.  A chain of                   *)
(* SnsSendPacketProcessingEvents, the pump, takes them from there by       *)
(* class and hands them to the queue.                                      *)
(*                                                                         *)
(* The flows are environment: whether a turn finds a free slot, when a     *)
(* packet arrives and when a flow finishes is left open (module SnsFlow).  *)
(*                                                                         *)
(* Time is counted in ticks; events of one tick come in any order, but the *)
(* INFINITESIMAL_TIME that every turn adds keeps a turn behind the events  *)
(* of the turns before the last one of its chain.                          *)
(***************************************************************************)
EXTENDS Naturals, FiniteSets, SequencesExt

CONSTANTS
    Flows,          \* the flows this host sends
    NoFlow,         \* the value of last before the first turn
    collective_id,  \* flow |-> its collective
    NumData,        \* params.num_data_packets_per_sim_ack
    HdrTicks,       \* transmission time of a header on the host's link
    DataTicks,      \* transmission time of a DATA packet
    SimTicks,       \* td_sim, the spacing of SIMs
    MaxPackets,     \* bound: packets at the host, and probes in the network
    MaxPasses       \* bound: turns of one flow counted for another

ASSUME FlowsAssumption == collective_id \in [Flows -> Nat] /\ NoFlow \notin Flows

ASSUME TicksAssumption ==
    /\ NumData \in Nat \ {0}
    /\ HdrTicks \in Nat \ {0} /\ DataTicks \in Nat \ {0} /\ SimTicks \in Nat \ {0}

ASSUME BoundsAssumption == MaxPackets \in Nat /\ MaxPasses \in Nat \ {0, 1}

VARIABLES
    active_sending_flows,
    started,              \* flows that have arrived
    finished,             \* flows that are complete
    collective_flow_index,
    host_events,          \* ticks until each pending HostProcessingEvent
    host_proc_event,      \* the pointer is not NULL
    sims_to_be_sent,      \* of each SIM, the ticks until the event posted with it
    sim_events,           \* pending SnsSimulationHostProcessingEvents
    probes,               \* SIMs in the network that will be answered
    data_events,          \* pending SnsAddToPktToBeSentEvts
    packets_to_be_sent,   \* the class of each packet
    pump_events,          \* ticks until each SnsSendPacketProcessingEvent
    pump_known,           \* host_proc_sns_send_packet_event is not NULL
    pause,                \* ticks left of td_wait since the last turn
    line,                 \* ticks left of the transmission of the last packet
    passes,               \* passes[f][g]: turns of g since the last one of f
    last                  \* the flow of the last turn, or NoFlow

flowVars == << active_sending_flows, started, finished, collective_flow_index >>
turnVars == << host_events, host_proc_event, pause, passes, last >>
simVars  == << sims_to_be_sent, sim_events >>
dataVars == << probes, data_events >>
lineVars == << packets_to_be_sent, pump_events, pump_known, line >>

vars == << flowVars, turnVars, simVars, dataVars, lineVars >>

Kinds == {"SIM", "SIM_ACK", "DATA_ACK", "DATA"}

\* due: ticks until the event; order: its place in a tick with a turn.  It is
\* "tied" with the next turn, "first" before later ones, and "free" once its
\* chain of turns has ended.
SimEvent == [due : Nat, order : {"tied", "first", "free"}]

Collectives == {collective_id[f] : f \in Flows}

\* Collective 99 sends without reservations.
Direct(f) == collective_id[f] = 99

Ticks(kind) == IF kind = "DATA" THEN DataTicks ELSE HdrTicks

\* td_wait, from one turn to the next.
SendTicks == NumData * SimTicks

-----------------------------------------------------------------------------
Init ==
    /\ active_sending_flows = << >> /\ started = {} /\ finished = {}
    /\ collective_flow_index = [c \in Collectives |-> 0]
    /\ host_events = << >> /\ host_proc_event = FALSE
    /\ sims_to_be_sent = << >> /\ sim_events = << >>
    /\ probes = 0 /\ data_events = 0
    /\ packets_to_be_sent = << >> /\ pump_events = << >> /\ pump_known = FALSE
    /\ pause = 0 /\ line = 0
    /\ passes = [f \in Flows |-> [g \in Flows |-> 0]]
    /\ last = NoFlow

-----------------------------------------------------------------------------
(* The events of the SIMs *)

NewSimEvent(ticks) == [due |-> ticks, order |-> "tied"]

\* One more turn has begun ...
Older(s) == [e \in 1 .. Len(s) |->
                IF s[e].order = "tied" THEN [s[e] EXCEPT !.order = "first"] ELSE s[e]]

\* Mutant: an event is posted only when none is pending.
PostSimIfIdle(s, ticks) == IF s = << >> THEN << NewSimEvent(ticks) >> ELSE Older(s)

\* ... and posts an event for the SIMs.
PostSim(s, ticks) == Append(Older(s), NewSimEvent(ticks))

\* Or a new chain of turns begins.
Adrift(s) == [e \in 1 .. Len(s) |-> [s[e] EXCEPT !.order = "free"]]

-----------------------------------------------------------------------------
(* The turns of the flows *)

\* Mutant: every new flow starts a chain of its own.
PostAlways(ticks) == /\ host_events' = Append(host_events, ticks)
                     /\ host_proc_event' = TRUE
                     /\ UNCHANGED sim_events

\* start_flow: schedule_host_proc_evt unless an event is known.
PostIfIdle(ticks) ==
    IF host_proc_event
    THEN UNCHANGED << host_events, host_proc_event, sim_events >>
    ELSE /\ host_events' = Append(host_events, ticks)
         /\ host_proc_event' = TRUE
         /\ sim_events' = Adrift(sim_events)

\* A flow arrives.  When the queue holds more than one packet, the first turn
\* waits for the transmission of the first of them.
StartFlow(f) ==
    /\ f \notin started
    /\ started' = started \cup {f}
    /\ active_sending_flows' = Append(active_sending_flows, f)
    /\ \E ticks \in {0, HdrTicks, DataTicks} : PostIfIdle(ticks)
    /\ UNCHANGED << finished, collective_flow_index, pause, passes, last,
                    sims_to_be_sent, dataVars, lineVars >>

\* check_and_set_to_finished when a packet of the flow is received.
FinishFlow(f) ==
    /\ f \in started \ finished
    /\ finished' = finished \cup {f}
    /\ UNCHANGED << active_sending_flows, started, collective_flow_index, turnVars,
                    simVars, dataVars, lineVars >>

\* The positions of the flows that organize_flows_by_collective groups.
Unfinished == {i \in 1 .. Len(active_sending_flows) : active_sending_flows[i] \notin finished}

SingleCollective ==
    \A i, j \in Unfinished :
        collective_id[active_sending_flows[i]] = collective_id[active_sending_flows[j]]

\* Simple round-robin: the first unfinished flow.
PickFirst(i) == i \in Unfinished /\ \A j \in Unfinished : i <= j

\* The flow's own collective, in the order of active_sending_flows.
Members(i) == {j \in Unfinished : collective_id[active_sending_flows[j]]
                                      = collective_id[active_sending_flows[i]]}

\* Round-robin over collectives: current_collective_index has just been reset,
\* so the least collective gets the turn, and its flow_index picks the flow.
PickByIndex(i) ==
    /\ i \in Unfinished
    /\ \A j \in Unfinished : collective_id[active_sending_flows[i]]
                                <= collective_id[active_sending_flows[j]]
    /\ Cardinality({j \in Members(i) : j < i})
          = collective_flow_index[collective_id[active_sending_flows[i]]]
                % Cardinality(Members(i))

\* flow_index = (flow_index + 1) % size.
NextIndex(i) ==
    [collective_flow_index EXCEPT ![collective_id[active_sending_flows[i]]] =
        ((@ % Cardinality(Members(i))) + 1) % Cardinality(Members(i))]

\* Mutant: the flow keeps its place in front.
KeepInFront(rest, f) == << f >> \o rest

\* Mutant: a flow that had its turn is not kept.
NotPutBack(rest, f) == rest

\* The flow that had its turn goes to the end.
PutBack(rest, f) == Append(rest, f)

\* The turn of the flow at position i.  Simple round-robin drops the finished
\* flows in front of it for good.
TakeTurn(i) ==
    \/ /\ SingleCollective
       /\ PickFirst(i)
       /\ active_sending_flows' =
             PutBack(SubSeq(active_sending_flows, i + 1, Len(active_sending_flows)),
                     active_sending_flows[i])
       /\ UNCHANGED collective_flow_index
    \/ /\ ~SingleCollective
       /\ PickByIndex(i)
       /\ active_sending_flows' =
             PutBack(RemoveAt(active_sending_flows, i), active_sending_flows[i])
       /\ collective_flow_index' = NextIndex(i)

\* Every other flow that waits counts the turn of f.
Passed(f) ==
    [g \in Flows |-> IF g = f \/ g \notin started
                     THEN [h \in Flows |-> 0]
                     ELSE [passes[g] EXCEPT ![f] = IF @ < MaxPasses THEN @ + 1 ELSE @]]

\* need_to_wait for a SIM that has just joined sims_to_be_sent.
SimWait == SimTicks * (Len(sims_to_be_sent) + 1)

\* ... and for a turn without a free slot.
NoSlotWait == IF sims_to_be_sent = << >> THEN SimTicks
              ELSE SimTicks * Len(sims_to_be_sent)

\* SnsFlow::send_pending_data of a flow without reservations: DATA, even when
\* the flow turns out to be finished.
SendDirect(f) ==
    /\ Direct(f)
    /\ data_events + Len(packets_to_be_sent) < MaxPackets
    /\ data_events' = data_events + 1
    /\ finished' \in {finished, finished \cup {f}}
    /\ sim_events' = Older(sim_events)
    /\ UNCHANGED sims_to_be_sent

\* SnsFlow::send_pending_data with reservations: a SIM, or no free slot, or
\* the flow turns out to be finished.
SendSimulation(f) ==
    /\ ~Direct(f)
    /\ \/ /\ sims_to_be_sent' = Append(sims_to_be_sent, SimWait)
          /\ sim_events' = PostSim(sim_events, SimWait)
          /\ UNCHANGED finished
       \/ /\ sim_events' = PostSim(sim_events, NoSlotWait)
          /\ UNCHANGED << sims_to_be_sent, finished >>
       \/ /\ finished' = finished \cup {f}
          /\ sim_events' = Older(sim_events)
          /\ UNCHANGED sims_to_be_sent
    /\ UNCHANGED data_events

\* HostProcessingEvent: SnsHost::send gives a turn to the next flow, which
\* posts the next event; without an unfinished flow the chain ends.
HostProcess(e) ==
    /\ e \in 1 .. Len(host_events) /\ host_events[e] = 0
    /\ \A d \in 1 .. Len(sim_events) : sim_events[d] # [due |-> 0, order |-> "first"]
    /\ \/ /\ Unfinished = {}
          /\ active_sending_flows' = << >>
          /\ host_events' = RemoveAt(host_events, e) /\ host_proc_event' = FALSE
          /\ UNCHANGED << finished, collective_flow_index, pause, passes, last,
                          simVars, data_events >>
       \/ \E i \in Unfinished :
            LET f == active_sending_flows[i]
            IN  /\ TakeTurn(i)
                /\ SendDirect(f) \/ SendSimulation(f)
                /\ host_events' = Append(RemoveAt(host_events, e), SendTicks)
                /\ host_proc_event' = TRUE
                /\ pause' = SendTicks /\ passes' = Passed(f) /\ last' = f
    /\ UNCHANGED << started, probes, lineVars >>

-----------------------------------------------------------------------------
(* The packets to be sent *)

\* Mutant: no look at the pointer before another pump is started.
StartAlways == pump_events' = Append(pump_events, 0) /\ pump_known' = TRUE

\* Mutant: a pump is not started for a SIM.
StartNever == UNCHANGED << pump_events, pump_known >>

\* The pump is started unless its event is known.
StartPump ==
    IF pump_known
    THEN UNCHANGED << pump_events, pump_known >>
    ELSE pump_events' = Append(pump_events, 0) /\ pump_known' = TRUE

HasRoom == data_events + Len(packets_to_be_sent) < MaxPackets

\* SnsSimulationHostProcessingEvent: move_sim_to_packets.
MoveSim(e) ==
    /\ e \in 1 .. Len(sim_events) /\ sim_events[e].due = 0
    /\ sim_events' = RemoveAt(sim_events, e)
    /\ \/ /\ sims_to_be_sent = << >>
          /\ UNCHANGED << sims_to_be_sent, lineVars >>
       \/ /\ sims_to_be_sent # << >>
          /\ sims_to_be_sent' = Tail(sims_to_be_sent)
          /\ packets_to_be_sent' = Append(packets_to_be_sent, "SIM")
          /\ StartPump
          /\ UNCHANGED line
    /\ UNCHANGED << flowVars, turnVars, dataVars >>

\* A flow of this host receives a SIM_ACK: its DATA will be released.
ReceiveSimAck ==
    /\ probes > 0 /\ HasRoom
    /\ probes' = probes - 1
    /\ data_events' = data_events + NumData
    /\ StartPump
    /\ UNCHANGED << flowVars, turnVars, simVars, packets_to_be_sent, line >>

\* SnsAddToPktToBeSentEvt: DATA is released.
ReleaseData ==
    /\ data_events > 0
    /\ data_events' = data_events - 1
    /\ packets_to_be_sent' = Append(packets_to_be_sent, "DATA")
    /\ UNCHANGED << flowVars, turnVars, simVars, probes, pump_events, pump_known, line >>

\* A flow towards this host receives a SIM and answers it.
ReceiveSim ==
    /\ HasRoom
    /\ packets_to_be_sent' = Append(packets_to_be_sent, "SIM_ACK")
    /\ StartPump
    /\ UNCHANGED << flowVars, turnVars, simVars, dataVars, line >>

\* A flow towards this host acknowledges DATA: send_data_ack.
SendDataAck ==
    /\ HasRoom
    /\ packets_to_be_sent' = Append(packets_to_be_sent, "DATA_ACK")
    /\ UNCHANGED << flowVars, turnVars, simVars, dataVars, pump_events, pump_known, line >>

\* The order of get_sim_or_sim_ack; sim_turn is always true.
Rank == [SIM |-> 1, SIM_ACK |-> 2, DATA_ACK |-> 3, DATA |-> 4]

\* The first packet of the first class that has one.
IsNext(i) ==
    \A j \in 1 .. Len(packets_to_be_sent) :
        \/ Rank[packets_to_be_sent[i]] < Rank[packets_to_be_sent[j]]
        \/ packets_to_be_sent[i] = packets_to_be_sent[j] /\ i <= j

\* A SIM reaches its receiver, or it is lost.
Launched(kind) ==
    \/ UNCHANGED probes
    \/ kind = "SIM" /\ probes < MaxPackets /\ probes' = probes + 1

\* SnsSendPacketProcessingEvent: move_packets_to_queue hands one packet to the
\* queue and posts the next event at the end of its transmission, or stops.
MovePackets(e) ==
    /\ e \in 1 .. Len(pump_events) /\ pump_events[e] = 0
    /\ \/ /\ packets_to_be_sent = << >>
          /\ pump_events' = RemoveAt(pump_events, e) /\ pump_known' = FALSE
          /\ UNCHANGED << packets_to_be_sent, line, probes >>
       \/ \E i \in 1 .. Len(packets_to_be_sent) :
            /\ IsNext(i)
            /\ packets_to_be_sent' = RemoveAt(packets_to_be_sent, i)
            /\ pump_events' = Append(RemoveAt(pump_events, e), Ticks(packets_to_be_sent[i]))
            /\ pump_known' = TRUE
            /\ line' = Ticks(packets_to_be_sent[i])
            /\ Launched(packets_to_be_sent[i])
    /\ UNCHANGED << flowVars, turnVars, simVars, data_events >>

-----------------------------------------------------------------------------
AllLater(s) == \A e \in 1 .. Len(s) : s[e] > 0
Sooner(s)   == [e \in 1 .. Len(s) |-> s[e] - 1]
Less(n)     == IF n > 0 THEN n - 1 ELSE 0

\* The event loop moves on when nothing is due now.
Tick ==
    /\ AllLater(host_events) /\ AllLater(pump_events)
    /\ \A e \in 1 .. Len(sim_events) : sim_events[e].due > 0
    /\ host_events' = Sooner(host_events)
    /\ sim_events' = [e \in 1 .. Len(sim_events) |-> [sim_events[e] EXCEPT !.due = @ - 1]]
    /\ sims_to_be_sent' = [k \in 1 .. Len(sims_to_be_sent) |-> Less(sims_to_be_sent[k])]
    /\ pump_events' = Sooner(pump_events)
    /\ pause' = Less(pause) /\ line' = Less(line)
    /\ UNCHANGED << flowVars, host_proc_event, passes, last, dataVars,
                    packets_to_be_sent, pump_known >>

Next ==
    \/ \E f \in Flows : StartFlow(f) \/ FinishFlow(f)
    \/ \E e \in 1 .. Len(host_events) : HostProcess(e)
    \/ \E e \in 1 .. Len(sim_events) : MoveSim(e)
    \/ \E e \in 1 .. Len(pump_events) : MovePackets(e)
    \/ ReceiveSimAck \/ ReleaseData \/ ReceiveSim \/ SendDataAck
    \/ Tick

Spec == Init /\ [][Next]_vars

\* The event loop processes every event it holds; arrivals and completions are
\* up to the flows and need not happen.
Fairness ==
    /\ WF_vars(\E e \in 1 .. Len(host_events) : HostProcess(e))
    /\ WF_vars(\E e \in 1 .. Len(sim_events) : MoveSim(e))
    /\ WF_vars(\E e \in 1 .. Len(pump_events) : MovePackets(e))
    /\ WF_vars(ReleaseData) /\ WF_vars(Tick)

FairSpec == Spec /\ Fairness

-----------------------------------------------------------------------------
(* Properties *)

FlowsTyped ==
    /\ active_sending_flows \in Seq(Flows)
    /\ started \subseteq Flows /\ finished \subseteq Flows
    /\ collective_flow_index \in [Collectives -> Nat]

TurnsTyped ==
    /\ host_events \in Seq(Nat) /\ host_proc_event \in BOOLEAN
    /\ pause \in Nat
    /\ passes \in [Flows -> [Flows -> 0 .. MaxPasses]]
    /\ last \in Flows \cup {NoFlow}

SimsTyped ==
    /\ sims_to_be_sent \in Seq(Nat) /\ sim_events \in Seq(SimEvent)
    /\ probes \in Nat /\ data_events \in Nat

LineTyped ==
    /\ packets_to_be_sent \in Seq(Kinds)
    /\ pump_events \in Seq(Nat) /\ pump_known \in BOOLEAN
    /\ line \in Nat

\* The type invariant.
TypeOK == FlowsTyped /\ TurnsTyped /\ SimsTyped /\ LineTyped

Waiting(f) == f \in started \ finished

\* A host with an unfinished flow has a HostProcessingEvent pending: no flow
\* is forgotten, although the chain ends and starts again.
HostAwake == (\E f \in Flows : Waiting(f)) => host_events # << >>

\* A turn is never due within td_wait of the last one, also when the chain
\* ended in between and a new flow started it again.
TurnsPaced == (\E e \in 1 .. Len(host_events) : host_events[e] = 0) => pause = 0

\* Flows of one collective take turns: none has two turns while another one
\* waits for its next.
FlowsTakeTurns ==
    \A f, g \in Flows :
        Waiting(f) /\ f # g /\ collective_id[f] = collective_id[g] => passes[f][g] <= 1

\* Collectives take turns: none has two turns while another one, here of a
\* single flow, waits for its next.
CollectivesTakeTurns ==
    \A f, g \in Flows :
        /\ Waiting(f)
        /\ \A h \in Flows \ {f} : collective_id[h] # collective_id[f]
        => passes[f][g] <= 1

\* The k-th SIM that waits is moved by the event posted with it at the latest:
\* k events are due until then, although turns without a free slot post events
\* too and every event moves the first SIM, not its own.
SimsOnTime ==
    \A k \in 1 .. Len(sims_to_be_sent) :
        Cardinality({e \in 1 .. Len(sim_events) : sim_events[e].due <= sims_to_be_sent[k]}) >= k

\* The host never hands a packet to the queue before the transmission of the
\* last one has ended.
LineRateKept == (\E e \in 1 .. Len(pump_events) : pump_events[e] = 0) => line = 0

\* A SIM or a SIM_ACK never waits beside an idle pump.
ProbesServed ==
    (\E i \in 1 .. Len(packets_to_be_sent) : packets_to_be_sent[i] \in {"SIM", "SIM_ACK"})
        => pump_events # << >>

\* A flow that has arrived has turn after turn until it finishes, unless
\* a flow of an earlier collective is unfinished.
FlowsServed ==
    \A f \in Flows :
        f \in started ~> \/ last = f \/ f \in finished
                         \/ \E g \in Flows : Waiting(g) /\ collective_id[g] < collective_id[f]

\* Released DATA does not wait beside an idle pump while time passes.
DataSentOnTime ==
    [][Tick => \/ pump_events # << >>
               \/ \A i \in 1 .. Len(packets_to_be_sent) : packets_to_be_sent[i] # "DATA"]_vars

-----------------------------------------------------------------------------
(* The inductive invariants behind the safety properties.                  *)

\* There is one chain of turns at most, the pointer knows it, and its event is
\* not due before td_wait has passed.
ChainInv ==
    /\ host_proc_event <=> host_events # << >>
    /\ Len(host_events) <= 1
    /\ \A e \in 1 .. Len(host_events) : pause <= host_events[e]
    /\ host_events = << >> => pause = 0

\* An unfinished flow is in active_sending_flows, and the chain runs for it.
ActiveInv ==
    \A f \in Flows :
        Waiting(f) => /\ \E i \in 1 .. Len(active_sending_flows) : active_sending_flows[i] = f
                      /\ host_events # << >>

\* There is one pump at most, the pointer knows it, and its event is not due
\* before the line is free.
PumpInv ==
    /\ pump_known <=> pump_events # << >>
    /\ Len(pump_events) <= 1
    /\ \A e \in 1 .. Len(pump_events) : line <= pump_events[e]
    /\ pump_events = << >> => line = 0

HostInv == TypeOK /\ ChainInv /\ ActiveInv /\ PumpInv /\ ProbesServed

\* active_sending_flows holds arrived flows, each one once.
FlowsOnce ==
    /\ \A i \in 1 .. Len(active_sending_flows) : active_sending_flows[i] \in started
    /\ \A i, j \in 1 .. Len(active_sending_flows) :
          active_sending_flows[i] = active_sending_flows[j] => i = j

\* A flow that had a turn since the last one of f is behind f.
PassedBehind ==
    \A f, g \in Flows :
        Waiting(f) /\ f # g /\ passes[f][g] >= 1 =>
            \A i, j \in 1 .. Len(active_sending_flows) :
                active_sending_flows[i] = f /\ active_sending_flows[j] = g => i < j

\* What has not arrived was not passed.
PassedStarted == \A f \in Flows \ started : \A g \in Flows : passes[f][g] = 0

\* In a host of one collective.
TurnsInv == FlowsOnce /\ ActiveInv /\ PassedBehind /\ PassedStarted /\ FlowsTakeTurns

=============================================================================
