----------------------------- MODULE Capability -----------------------------
(***************************************************************************)
(* The capability transport (ext/capabilityflow.cpp, capabilityhost.cpp),  *)
(* with which the experiments stand in for pHost: a receiver hands out     *)
(* capabilities at the rate of its link, the sender uses each one for a    *)
(* DATA packet before it expires.                                          *)
(*                                                                         *)
(*     sender:    RTS ->                 DATA ->                           *)
(*     receiver:         capability ->             capability -> ... ACK ->*)
(*                                                                         *)
(* One event, capa_proc_evt, serves all flows of a receiver: after a       *)
(* capability it comes again at once, and when every flow has to wait it   *)
(* comes at the closest of their timeouts.  A flow waits when too many of  *)
(* its capabilities are unanswered (the window), and when it has as many   *)
(* as packets were missing (the resend timeout).                           *)
(*                                                                         *)
(* The model has the flows of one source and one receiver, which share the *)
(* flow objects.  Which flow is served first depends on numbers that       *)
(* change while it is in the heap, or on rand() for RANDOM_HOST: any order *)
(* may happen.                                                             *)
(***************************************************************************)
EXTENDS Integers, FiniteSets, FiniteSetsExt, TLC

CONSTANTS
    Flow,
    Size,                \* size_in_pkt
    CapabilityInitial,   \* params.capability_initial: a flow of this size or less has its own
    Window,              \* params.capability_window
    Lossy,               \* the kinds of packets that a queue may drop
    MaxFaults            \* bound: packets lost, capabilities expired, timeouts too early

ASSUME CapabilityAssumption ==
    /\ Size \in [Flow -> Nat \ {0}]
    /\ CapabilityInitial \in Nat /\ Window \in Nat \ {0}
    /\ Lossy \subseteq {"rts", "capability", "data", "ack"} /\ MaxFaults \in Nat

VARIABLES
    flow,                \* the CapabilityFlow objects
    evt,                 \* capa_proc_evt, and the timeouts whose closest it waits for
    hold_on,             \* turns that the receiver leaves to the packets of a short flow
    capabilities,        \* at the sender
    net,                 \* packets under way
    faults               \* packets lost, capabilities expired and timeouts too early so far

vars == << flow, evt, hold_on, capabilities, net, faults >>

\* redundancy stands for redundancy_ctrl_timeout: "none" for -1, "waiting" before that
\* time and "met" after it.  window_old: capability_window_timeout has passed since
\* latest_cap_sent_time.
NewFlow(f) ==
    [ started |-> FALSE, rts_received |-> FALSE, packets_received |-> {}, received_count |-> 0,
      capability_count |-> 0, capability_goal |-> Size[f], redundancy |-> "none", window_old |-> FALSE,
      largest_cap_seq_received |-> -1, last_capa_data_seq_num_sent |-> -1,
      finished_at_receiver |-> FALSE, finished |-> FALSE, finish_events |-> 0 ]

NoEvent == [ pending |-> FALSE, waits |-> {} ]
Now     == [ pending |-> TRUE, waits |-> {} ]

Init ==
    /\ flow = [f \in Flow |-> NewFlow(f)]
    /\ evt = NoEvent /\ hold_on = 0
    /\ capabilities = {} /\ net = {} /\ faults = 0

Packet(type, f, seq, data) == [ type |-> type, flow |-> f, seq |-> seq, data |-> data ]

InitCapaSize(f) == IF Size[f] <= CapabilityInitial THEN Size[f] ELSE 0

\* capability_gap.
Gap(F) == F.capability_count - F.largest_cap_seq_received

\* get_next_capa_seq_num: the next missing packet, and after the last one the first.
NextData(F, f) ==
    LET missing == 0 .. Size[f] - 1 \ F.packets_received
        ahead   == {d \in missing : d >= (F.last_capa_data_seq_num_sent + 1) % Size[f]}
    IN  IF ahead = {} THEN Min(missing) ELSE Min(ahead)

-----------------------------------------------------------------------------
(* The sender *)

\* start_flow: assign_init_capability and the RTS.
StartFlow(f) ==
    /\ ~flow[f].started
    /\ flow' = [flow EXCEPT ![f].started = TRUE]
    /\ capabilities' = capabilities \cup {Packet("capability", f, i, i) : i \in 0 .. InitCapaSize(f) - 1}
    /\ net' = net \cup {Packet("rts", f, 0, 0)}
    /\ UNCHANGED << evt, hold_on, faults >>

ReceiveCapability(m) ==
    /\ m.type = "capability"
    /\ net' = net \ {m}
    /\ capabilities' = IF flow[m.flow].finished THEN capabilities ELSE capabilities \cup {m}
    /\ UNCHANGED << flow, evt, hold_on, faults >>

\* CapabilityHost::send: capabilities that have expired are dropped up to one that has
\* not, and its DATA packet is sent.
SenderTurn ==
    /\ capabilities # {}
    /\ \E old \in SUBSET capabilities :
          /\ faults' = faults + Cardinality(old) /\ faults' <= MaxFaults
          /\ \/ old = capabilities /\ capabilities' = {} /\ UNCHANGED net
             \/ \E c \in capabilities \ old :
                   /\ capabilities' = (capabilities \ old) \ {c}
                   /\ net' = net \cup {Packet("data", c.flow, c.seq, c.data)}
    /\ UNCHANGED << flow, evt, hold_on >>

\* Every ACK that comes before the flow is finished posts a FlowFinishedEvent, which is
\* processed at once; send() does not look at a finished flow any more.
ReceiveAck(m) ==
    LET f == m.flow
    IN  /\ m.type = "ack"
        /\ net' = net \ {m}
        /\ flow' = IF flow[f].finished THEN flow
                   ELSE [flow EXCEPT ![f].packets_received = {}, ![f].finished = TRUE, ![f].finish_events = @ + 1]
        /\ capabilities' = {c \in capabilities : c.flow # f}
        /\ UNCHANGED << evt, hold_on, faults >>

-----------------------------------------------------------------------------
(* The receiver *)

\* set_capability_count: the sender has the first capabilities of a short flow.
Counted(F, f) ==
    [F EXCEPT !.rts_received = TRUE, !.capability_count = InitCapaSize(f),
              !.last_capa_data_seq_num_sent = InitCapaSize(f) - 1,
              !.redundancy = IF InitCapaSize(f) = F.capability_goal THEN "waiting" ELSE @]

\* receive_rts: an event that waits for a timeout is cancelled, for the new flow may
\* have a capability at once.
ReceiveRts(m) ==
    LET f   == m.flow
        new == ~flow[f].finished /\ ~flow[f].rts_received
    IN  /\ m.type = "rts"
        /\ net' = net \ {m}
        /\ flow' = IF new THEN [flow EXCEPT ![f] = Counted(@, f)] ELSE flow
        /\ hold_on' = IF new THEN InitCapaSize(f) ELSE hold_on
        /\ evt' = IF new THEN Now ELSE evt
        /\ UNCHANGED << capabilities, faults >>

\* active_receiving_flows, but those that send_capability takes out.
Active == {f \in Flow : flow[f].rts_received /\ ~flow[f].finished_at_receiver}

\* send_capability looks at a flow: after its resend timeout it starts again with what is
\* missing, and after the window timeout it takes older capabilities for lost.
Seen(F, f) ==
    LET again == IF F.redundancy # "met" THEN F
                 ELSE [F EXCEPT !.redundancy = "none", !.capability_goal = @ + Size[f] - F.received_count]
    IN  IF F.redundancy # "waiting" /\ Gap(F) > Window /\ F.window_old
        THEN [again EXCEPT !.largest_cap_seq_received = F.capability_count - Window]
        ELSE again

MaySend(F) == F.redundancy # "waiting" /\ Gap(F) <= Window

\* Mutant: the goal is noticed one capability late.
ReachedLate(F) == F.capability_count = F.capability_goal + 1

\* As many capabilities as packets were missing.
Reached(F) == F.capability_count = F.capability_goal

\* send_capability_pkt, and the resend timeout after the last one.
WithCapability(F, f) ==
    LET sent == [F EXCEPT !.capability_count = @ + 1, !.last_capa_data_seq_num_sent = NextData(F, f),
                          !.window_old = FALSE]
    IN  [sent EXCEPT !.redundancy = IF Reached(sent) THEN "waiting" ELSE @]

\* Mutant: a flow with a full window sets no timeout.
TimeoutResend(F, f) == IF F.redundancy = "waiting" THEN {<< f, "resend" >>} ELSE {}

\* What a flow that may not send waits for.
Timeout(F, f) == {<< f, IF F.redundancy = "waiting" THEN "resend" ELSE "window" >>}

\* A capability for one flow; those that were looked at before it may not send.
Give(seen) ==
    \E f \in {g \in Active : MaySend(seen[g])}, passed \in SUBSET {g \in Active : ~MaySend(seen[g])} :
        /\ flow' = [g \in Flow |-> IF g = f THEN WithCapability(seen[f], f)
                                   ELSE IF g \in passed THEN seen[g] ELSE flow[g]]
        /\ net' = net \cup {Packet("capability", f, seen[f].capability_count, NextData(seen[f], f))}
        /\ UNCHANGED << evt, hold_on >>

\* No flow may have a capability.
Wait(seen) ==
    LET waits == UNION {Timeout(seen[f], f) : f \in Active}
    IN  /\ \A f \in Active : ~MaySend(seen[f])
        /\ flow' = seen
        /\ evt' = [ pending |-> waits # {}, waits |-> waits ]
        /\ UNCHANGED << net, hold_on >>

\* CapabilityHost::send_capability.
SendCapability ==
    LET seen == [f \in Flow |-> IF f \in Active THEN Seen(flow[f], f) ELSE flow[f]]
    IN  /\ evt = Now
        /\ \/ hold_on > 0 /\ hold_on' = hold_on - 1 /\ UNCHANGED << flow, evt, net >>
           \/ hold_on = 0 /\ Give(seen)
           \/ hold_on = 0 /\ Wait(seen)
        /\ UNCHANGED << capabilities, faults >>

\* The DATA packet of a capability, of which a packet may have several.
WithData(F, m) ==
    [F EXCEPT !.packets_received = @ \cup {m.data},
              !.received_count = IF m.data \in F.packets_received THEN @ ELSE @ + 1,
              !.largest_cap_seq_received = IF m.seq > @ THEN m.seq ELSE @]

\* CapabilityFlow::receive of DATA: from its goal on every packet is acknowledged.  An
\* event that waits for the window goes on waiting.
ReceiveData(m) ==
    LET f    == m.flow
        new  == ~flow[f].rts_received
        F    == WithData(IF new THEN Counted(flow[f], f) ELSE flow[f], m)
        done == F.received_count >= Size[f]
    IN  /\ m.type = "data"
        /\ IF flow[f].finished
           THEN net' = net \ {m} /\ UNCHANGED << flow, evt, hold_on >>
           ELSE /\ flow' = [flow EXCEPT ![f] = [F EXCEPT !.finished_at_receiver = done]]
                /\ net' = (net \ {m}) \cup (IF done THEN {Packet("ack", f, m.seq, 0)} ELSE {})
                /\ hold_on' = IF new THEN InitCapaSize(f) ELSE hold_on
                /\ evt' = IF new THEN Now ELSE evt
        /\ UNCHANGED << capabilities, faults >>

-----------------------------------------------------------------------------
(* Time and losses *)

UnderWay(f) == {m \in net \cup capabilities : m.flow = f /\ m.type # "ack"}

\* A timeout comes after what it waits for is lost, or too early.
Timely(f) == faults' = (IF UnderWay(f) = {} THEN faults ELSE faults + 1) /\ faults' <= MaxFaults

\* The event comes at the closest of the timeouts.
Reaches(timeout) == IF timeout \in evt.waits THEN Now ELSE evt

\* capability_resend_timeout passes.
ResendTimeout(f) ==
    /\ (flow[f].redundancy = "waiting" /\ f \in Active) \/ << f, "resend" >> \in evt.waits
    /\ Timely(f)
    /\ flow' = [flow EXCEPT ![f].redundancy = "met"]
    /\ evt' = Reaches(<< f, "resend" >>)
    /\ UNCHANGED << hold_on, capabilities, net >>

\* capability_window_timeout passes.
WindowTimeout(f) ==
    /\ (~flow[f].window_old /\ f \in Active) \/ << f, "window" >> \in evt.waits
    /\ Timely(f)
    /\ flow' = [flow EXCEPT ![f].window_old = TRUE]
    /\ evt' = Reaches(<< f, "window" >>)
    /\ UNCHANGED << hold_on, capabilities, net >>

Lose(m) ==
    /\ m.type \in Lossy /\ faults < MaxFaults
    /\ faults' = faults + 1
    /\ net' = net \ {m}
    /\ UNCHANGED << flow, evt, hold_on, capabilities >>

Receive(m) == ReceiveCapability(m) \/ ReceiveAck(m) \/ ReceiveRts(m) \/ ReceiveData(m)

Next ==
    \/ \E f \in Flow : StartFlow(f) \/ ResendTimeout(f) \/ WindowTimeout(f)
    \/ \E m \in net : Receive(m) \/ Lose(m)
    \/ SenderTurn
    \/ SendCapability

\* Events are processed and timers run out.
Fairness ==
    /\ \A f \in Flow : WF_vars(StartFlow(f)) /\ WF_vars(ResendTimeout(f)) /\ WF_vars(WindowTimeout(f))
    /\ WF_vars(\E m \in net : Receive(m))
    /\ WF_vars(SenderTurn) /\ WF_vars(SendCapability)

Spec == Init /\ [][Next]_vars /\ Fairness

-----------------------------------------------------------------------------
(* Properties *)

\* A receiver hands out no more capabilities than packets were missing when it began to:
\* without a fault exactly one for each packet (capability_goal, send_capability).
GoalKept ==
    \A f \in Flow :
        /\ flow[f].capability_count <= flow[f].capability_goal
        /\ faults = 0 => flow[f].capability_goal = Size[f]

\* Distinct packets that have arrived; packets_received is cleared at the end.
Delivered(f) ==
    IF flow[f].finished THEN flow[f].received_count ELSE Cardinality(flow[f].packets_received)

-----------------------------------------------------------------------------
(* The inductive invariant behind GoalKept and the transfer (MCCapability) *)

Packets == {m \in [ type : {"rts", "capability", "data", "ack"}, flow : Flow, seq : Nat, data : Nat ] :
               m.data < Size[m.flow]}

FlowStates ==
    [ started : BOOLEAN, rts_received : BOOLEAN, packets_received : SUBSET Nat, received_count : Nat,
      capability_count : Nat, capability_goal : Nat, redundancy : {"none", "waiting", "met"},
      window_old : BOOLEAN, largest_cap_seq_received : Int, last_capa_data_seq_num_sent : Int,
      finished_at_receiver : BOOLEAN, finished : BOOLEAN, finish_events : Nat ]

\* The type invariant.
TypeOK ==
    /\ flow \in [Flow -> FlowStates]
    /\ evt \in [ pending : BOOLEAN, waits : SUBSET (Flow \X {"resend", "window"}) ]
    /\ hold_on \in Nat /\ faults \in 0 .. MaxFaults
    /\ capabilities \in SUBSET {m \in Packets : m.type = "capability"} /\ IsFiniteSet(capabilities)
    /\ net \in SUBSET Packets

\* A packet is counted once, and the receiver is done with the last one.  The sender
\* clears packets_received.
CountOf(F, f) ==
    /\ ~F.finished => /\ F.packets_received \subseteq 0 .. Size[f] - 1
                      /\ F.received_count = Cardinality(F.packets_received)
    /\ F.received_count <= Size[f]
    /\ F.finished_at_receiver <=> F.received_count = Size[f]
    /\ F.finished => F.finished_at_receiver
    /\ F.finish_events = IF F.finished THEN 1 ELSE 0

\* Only then does the receiver acknowledge.
CountsTrue ==
    /\ \A f \in Flow : CountOf(flow[f], f)
    /\ \A m \in net : m.type = "ack" => flow[m.flow].finished_at_receiver

\* A flow waits for its resend timeout exactly when it has reached its goal.
GoalOf(F, f) ==
    /\ F.capability_count <= F.capability_goal
    /\ F.redundancy = "none" <=> F.capability_count < F.capability_goal
    /\ ~F.rts_received => /\ F.capability_count = 0 /\ F.capability_goal = Size[f]
                          /\ F.last_capa_data_seq_num_sent = -1
    /\ F.rts_received => F.started /\ F.capability_count >= InitCapaSize(f)

WaitsAtGoal ==
    /\ \A f \in Flow :
          /\ GoalOf(flow[f], f)
          /\ << f, "resend" >> \in evt.waits => flow[f].rts_received /\ flow[f].redundancy = "waiting"
    /\ \A m \in net \cup capabilities : flow[m.flow].started

\* Capabilities that exist, with those that the sender gives itself.
Handed(F, f) == IF F.started /\ F.capability_count < InitCapaSize(f)
                THEN InitCapaSize(f) ELSE F.capability_count

Carried(f) == {m.data : m \in {m \in net \cup capabilities : m.flow = f /\ m.type \in {"capability", "data"}}}

\* Capabilities ask for the packets in order, and for each one either the packet has been
\* received or the capability or the packet is under way: nothing is left to ask for again.
OrderOf(F, f, carried) ==
    /\ F.capability_goal = Size[f]
    /\ ~F.finished_at_receiver =>
          /\ F.redundancy # "met"
          /\ F.last_capa_data_seq_num_sent = F.capability_count - 1
          /\ F.packets_received \cup carried = 0 .. Handed(F, f) - 1

NoneAskedTwice == faults = 0 => \A f \in Flow : OrderOf(flow[f], f, Carried(f))

CapabilityInv == TypeOK /\ CountsTrue /\ WaitsAtGoal /\ NoneAskedTwice
=============================================================================
