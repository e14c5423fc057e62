---------------------------- MODULE MCSimulation ----------------------------
(* Instances of Simulation for TLC. *)
EXTENDS Simulation

\* Sizes in bytes, in a table of weights.
MCTable == << [val |-> 0, cdf |-> 1], [val |-> 2, cdf |-> 3], [val |-> 3, cdf |-> 6] >>

TraceFlow(id, start, size, src, dst) ==
    [ kind |-> "flow", id |-> id, start_time |-> start, size |-> size, src |-> src, dst |-> dst ]

\* Traces out of order, with flows at the same time, with unknown hosts, cut short, empty.
MCTrace ==
    {<< TraceFlow(1, a, 1, 0, 1), [kind |-> "comment"], TraceFlow(2, b, 5, 1, 2), TraceFlow(3, c, 4, 0, 9) >> :
        a, b, c \in 1 .. 3}
    \cup {<< TraceFlow(7, 2, 4, 2, 0), [kind |-> "malformed"], TraceFlow(8, 1, 2, 0, 1) >>, << >>}
=============================================================================
