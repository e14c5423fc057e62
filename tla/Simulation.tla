----------------------------- MODULE Simulation -----------------------------
(***************************************************************************)
(* A simulation from its flows to its end (run_experiment, run_scenario).  *)
(* The flows that a generator has made are sorted by their start; each     *)
(* FlowArrivalEvent starts a flow and posts the event of the next one; the *)
(* loop over the event queue ends when as many FlowFinishedEvents have     *)
(* been counted as there are flows, or when no event is left.              *)
(*                                                                         *)
(* What a flow does between its start and its end is left open: it needs   *)
(* as long as the pipeline of its packets or longer, has a timer that it   *)
(* cancels at its end, and may be stuck for good.                          *)
(***************************************************************************)
EXTENDS FlowGenerator, FctOracle

CONSTANTS
    Congestion,    \* how much longer a flow takes than in an empty network
    Timeout,       \* of the timer of a flow
    MayStick,      \* whether flows may be stuck, a subset of BOOLEAN
    MayTwice       \* whether a flow may post FlowFinishedEvent twice, a subset of BOOLEAN

ASSUME SimulationAssumption ==
    Congestion \subseteq Nat /\ Timeout \in Nat \ {0} /\ MayStick \subseteq BOOLEAN /\ MayTwice \subseteq BOOLEAN

VARIABLES
    cut_through,
    flow_arrivals,          \* places in flows_to_schedule
    finish_time,            \* of the flows that are finished, by their place
    total_finished_flows,
    stuck                   \* flows that will not end

runvars == << cut_through, flow_arrivals, finish_time, total_finished_flows, stuck >>
simvars == << genvars, runvars >>

Event(type, n, time) == [ type |-> type, time |-> time, flow |-> n, cancelled |-> FALSE ]

StartOf(n) == flows_to_schedule[n].start_time

RunInit ==
    /\ GeneratorInit
    /\ cut_through \in (IF topo = "FatTree" THEN {FALSE} ELSE BOOLEAN)
    /\ flow_arrivals = <<>> /\ finish_time = <<>> /\ total_finished_flows = 0 /\ stuck = {}

\* A trace overrides params.num_flows_to_run.
NumFlowsToRun == IF generator = "Reader" THEN Len(flows_to_schedule) ELSE NumFlows

\* Mutant: the flows are taken as they come.
OrdersAsMade == {[i \in DOMAIN flows_to_schedule |-> i]}

\* std::sort by start_time.
Orders ==
    {p \in [DOMAIN flows_to_schedule -> DOMAIN flows_to_schedule] :
        \A i, j \in DOMAIN p : i < j => p[i] # p[j] /\ StartOf(p[i]) <= StartOf(p[j])}

\* IncastTM leaves current_time where its last event was.
BeginRun ==
    /\ phase = "create" /\ event_queue = {}
    /\ current_time' = IF generator = "Incast" THEN current_time ELSE 0
    /\ \E order \in Orders :
          /\ flow_arrivals' = IF order = <<>> THEN <<>> ELSE Tail(order)
          /\ event_queue' = IF order = <<>> THEN {} ELSE {Event(FLOW_ARRIVAL, order[1], StartOf(order[1]))}
    /\ phase' = "run"
    /\ UNCHANGED << topo, generator, smooth_cdf, host, drawn, flows_to_schedule, skips >>
    /\ UNCHANGED << cut_through, finish_time, total_finished_flows, stuck >>

\* The run ends after an event, or without one.
GoesOn(finished) == phase' = IF finished >= NumFlowsToRun THEN "done" ELSE "run"

\* The queue when e has been processed and posted others.
Posted(e, new) == event_queue' = (event_queue \ {e}) \cup new

\* Mutant: the next arrival is posted only while flows are under way.
NextArrivalIfBusy ==
    IF flow_arrivals = <<>> \/ Cardinality(event_queue) = 1 THEN {}
    ELSE {Event(FLOW_ARRIVAL, Head(flow_arrivals), StartOf(Head(flow_arrivals)))}

NextArrival ==
    IF flow_arrivals = <<>> THEN {}
    ELSE {Event(FLOW_ARRIVAL, Head(flow_arrivals), StartOf(Head(flow_arrivals)))}

\* FlowArrivalEvent, with start_flow.
FlowArrival(e) ==
    /\ e.type = FLOW_ARRIVAL
    /\ flow_arrivals' = IF flow_arrivals = <<>> THEN <<>> ELSE Tail(flow_arrivals)
    /\ \/ \E delay \in Congestion :
             LET f == flows_to_schedule[e.flow]
             IN  Posted(e, NextArrival \cup
                     {Event(PACKET_ARRIVAL, e.flow, e.time + Pipeline(topo, f, cut_through) + delay),
                      Event(RETX_TIMEOUT, e.flow, e.time + Timeout)})
          /\ UNCHANGED stuck
       \/ TRUE \in MayStick /\ stuck' = stuck \cup {e.flow} /\ Posted(e, NextArrival)
    /\ GoesOn(total_finished_flows)
    /\ UNCHANGED << finish_time, total_finished_flows >>

\* The last acknowledgement of a flow: the flow cancels its timer.
LastAck(e) ==
    /\ e.type = PACKET_ARRIVAL
    /\ LET timers == {t \in event_queue : t.type = RETX_TIMEOUT /\ t.flow = e.flow}
       IN  \E twice \in MayTwice :
             event_queue' = (event_queue \ (timers \cup {e})) \cup {[t EXCEPT !.cancelled = TRUE] : t \in timers}
                            \cup {Event(FLOW_FINISHED, e.flow, e.time)}
                            \cup (IF twice THEN {Event(FLOW_FINISHED, e.flow, e.time + 1)} ELSE {})
    /\ GoesOn(total_finished_flows)
    /\ UNCHANGED << flow_arrivals, finish_time, total_finished_flows, stuck >>

\* The timer of a flow, which sets it again.
RetxTimeout(e) ==
    /\ e.type = RETX_TIMEOUT
    /\ Posted(e, {Event(RETX_TIMEOUT, e.flow, e.time + Timeout)})
    /\ GoesOn(total_finished_flows)
    /\ UNCHANGED << flow_arrivals, finish_time, total_finished_flows, stuck >>

\* FlowFinishedEvent.
FlowFinished(e) ==
    /\ e.type = FLOW_FINISHED
    /\ finish_time' = [i \in DOMAIN finish_time \cup {e.flow} |-> IF i = e.flow THEN e.time ELSE finish_time[i]]
    /\ total_finished_flows' = total_finished_flows + 1
    /\ Posted(e, {})
    /\ GoesOn(total_finished_flows + 1)
    /\ UNCHANGED << flow_arrivals, stuck >>

\* The loop of run_scenario.
ProcessEvent ==
    /\ phase = "run"
    /\ \E e \in event_queue :
          /\ Top(e)
          /\ current_time' = e.time
          /\ IF e.cancelled THEN Posted(e, {}) /\ UNCHANGED << phase, runvars >>
             ELSE (FlowArrival(e) \/ LastAck(e) \/ RetxTimeout(e) \/ FlowFinished(e)) /\ UNCHANGED cut_through
    /\ UNCHANGED << topo, generator, smooth_cdf, host, drawn, flows_to_schedule, skips >>

NoEventLeft ==
    /\ phase = "run" /\ event_queue = {}
    /\ phase' = "done"
    /\ UNCHANGED << topo, generator, smooth_cdf, host, drawn, event_queue, current_time, flows_to_schedule, skips, runvars >>

RunNext == (Generate /\ UNCHANGED runvars) \/ BeginRun \/ ProcessEvent \/ NoEventLeft

\* The program is one thread: what can go on goes on, and a draw that fits comes some time.
RunSpec == RunInit /\ [][RunNext]_simvars /\ WF_simvars(RunNext)

-----------------------------------------------------------------------------
(* Properties *)

\* The pairs that talk are those of the traffic matrix: never a host with itself, each host
\* once on either side of a permutation, the sources of an incast, clusters that are apart;
\* and every flow is of such a pair.
MatrixAsPromised ==
    generator # "Reader" /\ phase # "draw" =>
        /\ Pairs \subseteq AllPairs
        /\ generator = "Permutation" =>
              \A h \in 0 .. N - 1 : Cardinality({p \in Pairs : p[1] = h}) = 1 /\ Cardinality({p \in Pairs : p[2] = h}) = 1
        /\ generator = "Incast" => Cardinality(Pairs) = Incast /\ Destinations = {0}
        /\ generator = "DcScale" => \A c, d \in drawn : c[1] = d[1] => c = d
        /\ \A i \in DOMAIN flows_to_schedule : << flows_to_schedule[i].src, flows_to_schedule[i].dst >> \in Pairs

\* The size of a flow is that of the first weight of the table that reaches what was drawn
\* (`always return an index whose value is >= u'), or lies between it and the one before.
SizesFollowTable ==
    generator # "Reader" =>
        \A i \in DOMAIN flows_to_schedule :
            LET f == flows_to_schedule[i]
            IN  \E k \in DOMAIN Table :
                    /\ Table[k].cdf >= f.draw /\ \A l \in 1 .. k - 1 : Table[l].cdf < f.draw
                    /\ f.size \in (IF smooth_cdf /\ k > 1 THEN Table[k - 1].val .. Table[k].val ELSE {Table[k].val})

\* No event of a run is posted in the past: flows are started in the order of their start,
\* and what an event posts comes after it.
NothingInThePast == [][phase = "run" => \A e \in event_queue' \ event_queue : e.time >= current_time']_simvars

\* The clock never goes back once flows are made (it does after IncastTM).
TimeForward == [][phase = "run" => current_time' >= current_time]_simvars

\* The run ends only when every flow of the simulation has been started and is finished,
\* but those that are stuck.
EndsComplete ==
    phase = "done" => /\ \A i \in DOMAIN flows_to_schedule : i \in DOMAIN finish_time \/ i \in stuck
                      /\ generator # "Reader" => Len(flows_to_schedule) = NumFlows

\* No flow beats get_oracle_fct (the assertion on slowdown in FlowFinishedEvent).
SlowdownAtLeastOne ==
    \A i \in DOMAIN finish_time :
        LET f == flows_to_schedule[i]
        IN  finish_time[i] - f.start_time >= Oracle(topo, f, cut_through)

\* A simulation comes to its end, whatever is drawn and whichever flows are stuck without
\* an event; but the draws of a permutation and of an outcast may have no end.
RunEnds == generator \notin {"Permutation", "Outcast"} => <>(phase = "done")

\* Those have one too.
EveryRunEnds == <>(phase = "done")
=============================================================================
