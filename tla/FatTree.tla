------------------------------ MODULE FatTree ------------------------------
(***************************************************************************)
(* The fat tree of arity K: how its constructor wires the queues, and the  *)
(* queue that get_next_hop answers.  Two classes do this with different    *)
(* indices of the core switches: SnsFatTreeTopology for dcSIM and          *)
(* FatTreeTopology for the others, which may have an arbiter.              *)
(*                                                                         *)
(* A node is << kind, index >>, and a queue << node, port >>: the place in *)
(* the vector queues of a switch, or ToArbiter.  A packet m has its source *)
(* and destination as numbers of hosts; the arbiter's is that of the hosts.*)
(***************************************************************************)
EXTENDS Integers

CONSTANT K          \* the arity, params.k

ASSUME ArityAssumption == K \in Nat /\ K > 0 /\ K % 2 = 0

ToArbiter == -1     \* queue_to_arbiter

Half       == K \div 2
FtHosts    == K * Half * Half
FtSwitches == K * Half          \* edge switches, and as many agg switches
FtCores    == Half * Half
FtArbiter  == FtHosts

FtPorts(kind) == IF kind = "host" THEN {0} ELSE 0 .. K - 1

-----------------------------------------------------------------------------
(* Wiring: the node at the other end of port j of switch i *)

\* Hosts and edge switches, alike in both classes.
EdgeLink(kind, i, j) ==
    CASE kind = "host"              -> << "edge", i \div Half >>
      [] kind = "edge" /\ j < Half  -> << "host", i * Half + j >>
      [] kind = "edge" /\ j >= Half -> << "agg", (i \div Half) * Half + (j - Half) >>

SnsFatTreeLink(kind, i, j) ==
    CASE kind \in {"host", "edge"}  -> EdgeLink(kind, i, j)
      [] kind = "agg" /\ j < Half   -> << "edge", (i \div Half) * Half + j >>
      [] kind = "agg" /\ j >= Half  -> << "core", ((j - Half) * Half + (i % Half)) % FtCores >>
      [] kind = "core"              -> << "agg", (Half * j + (i % Half)) % FtSwitches >>

\* Mutant: the core switches as in the other class.
FatTreeLinkMixed(kind, i, j) ==
    CASE kind = "host" /\ i = FtArbiter -> << "edge", 0 >>
      [] kind = "edge" /\ j = ToArbiter -> << "host", FtArbiter >>
      [] kind = "agg" /\ j < Half       -> << "edge", (i \div Half) * Half + j >>
      [] kind = "agg" /\ j >= Half      -> << "core", ((j - Half) + (i % Half) * Half) % FtCores >>
      [] kind = "core"                  -> SnsFatTreeLink(kind, i, j)
      [] OTHER                          -> EdgeLink(kind, i, j)

\* The arbiter is another host of the first edge switch.
FatTreeLink(kind, i, j) ==
    CASE kind = "host" /\ i = FtArbiter -> << "edge", 0 >>
      [] kind = "edge" /\ j = ToArbiter -> << "host", FtArbiter >>
      [] kind = "agg" /\ j < Half       -> << "edge", (i \div Half) * Half + j >>
      [] kind = "agg" /\ j >= Half      -> << "core", ((j - Half) + (i % Half) * Half) % FtCores >>
      [] kind = "core"                  -> << "agg", (Half * j + (i \div Half)) % FtSwitches >>
      [] OTHER                          -> EdgeLink(kind, i, j)

-----------------------------------------------------------------------------
(* Places of the hosts *)

FtRack(h) == IF h = FtArbiter THEN 0 ELSE h \div Half
FtPod(h)  == IF h = FtArbiter THEN 0 ELSE h \div (Half * Half)

FtSameRack(a, b) == FtRack(a) = FtRack(b)
FtSamePod(a, b)  == FtPod(a) = FtPod(b)

\* The hops that a packet is expected to take (get_host_next_hop).
FtHops(a, b) == IF FtSameRack(a, b) THEN 2 ELSE IF FtSamePod(a, b) THEN 4 ELSE 6

-----------------------------------------------------------------------------
(* get_next_hop for a packet m leaving a queue from node of kind `from' to a
   switch: the port of that switch.  up is the port that load balancing takes
   among the Half that go up. *)

\* The packet goes up at this switch, and load balancing has a say.
FtGoesUp(m, from) ==
    \/ from = "host" /\ ~FtSameRack(m.src, m.dst)
    \/ from = "edge" /\ ~FtSamePod(m.src, m.dst)

\* Up to the common ancestor is Half and more; down is by rack, pod and host.
SnsFatTreePort(m, from, to, up) ==
    IF FtGoesUp(m, from) THEN Half + up ELSE
    CASE from = "host"                  -> m.dst % Half
      [] from = "edge"                  -> FtRack(m.dst) % Half
      [] from = "agg" /\ to = "edge"    -> m.dst % Half
      [] from = "agg" /\ to = "core"    -> FtPod(m.dst)
      [] from = "core"                  -> FtRack(m.dst) % Half

FatTreePort(m, from, to, up) ==
    IF m.dst = FtArbiter /\ to = "edge" /\ ~FtGoesUp(m, from)
    THEN ToArbiter ELSE SnsFatTreePort(m, from, to, up)
=============================================================================
