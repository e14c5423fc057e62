----------------------------- MODULE LeafSpine -----------------------------
(***************************************************************************)
(* The network of two tiers: SnsLeafSpineTopology for dcSIM and            *)
(* LeafSpineTopology for the others, which may have an arbiter.  Nodes,    *)
(* queues and packets are as in FatTree.                                   *)
(***************************************************************************)
EXTENDS Integers

CONSTANTS NumHosts, NumAgg, NumCore

ASSUME LeafSpineAssumption ==
    /\ NumHosts \in Nat /\ NumAgg \in Nat \ {0} /\ NumCore \in Nat \ {0}
    /\ NumHosts > 0 /\ NumHosts % NumAgg = 0

LsToArbiter == -1   \* queue_to_arbiter
HostsPerAgg == NumHosts \div NumAgg
LsArbiter   == NumHosts

LsPorts(kind) ==
    CASE kind = "host" -> 0 .. 0
      [] kind = "agg"  -> 0 .. HostsPerAgg + NumCore - 1
      [] kind = "core" -> 0 .. NumAgg - 1

\* Wiring: the node at the other end of port j of switch i.
SnsLeafSpineLink(kind, i, j) ==
    CASE kind = "host"                    -> << "agg", i \div HostsPerAgg >>
      [] kind = "agg" /\ j < HostsPerAgg  -> << "host", i * HostsPerAgg + j >>
      [] kind = "agg" /\ j >= HostsPerAgg -> << "core", j - HostsPerAgg >>
      [] kind = "core"                    -> << "agg", j >>

\* The arbiter is another host of the first agg switch.
LeafSpineLink(kind, i, j) ==
    CASE kind = "host" /\ i = LsArbiter  -> << "agg", 0 >>
      [] kind = "agg" /\ j = LsToArbiter -> << "host", LsArbiter >>
      [] OTHER                           -> SnsLeafSpineLink(kind, i, j)

LsRack(h) == IF h = LsArbiter THEN 0 ELSE h \div HostsPerAgg
LsSameRack(a, b) == LsRack(a) = LsRack(b)
LsHops(a, b) == IF LsSameRack(a, b) THEN 2 ELSE 4

\* Load balancing has a say at the first switch only.
LsGoesUp(m, from) == from = "host" /\ ~LsSameRack(m.src, m.dst)

\* get_next_hop_inner: the port of the next switch.
SnsLeafSpinePort(m, from, up) ==
    IF LsGoesUp(m, from) THEN HostsPerAgg + up ELSE
    CASE from \in {"host", "core"} -> m.dst % HostsPerAgg
      [] from = "agg"              -> m.dst \div HostsPerAgg

\* Mutant: the arbiter is forgotten on the way down from a core switch.
LeafSpinePortHosts(m, from, up) ==
    CASE m.dst = LsArbiter /\ from = "agg"                        -> 0
      [] m.dst = LsArbiter /\ from = "host" /\ ~LsGoesUp(m, from) -> LsToArbiter
      [] OTHER                                                    -> SnsLeafSpinePort(m, from, up)

LeafSpinePort(m, from, up) ==
    IF m.dst # LsArbiter \/ LsGoesUp(m, from) THEN SnsLeafSpinePort(m, from, up)
    ELSE IF from = "agg" THEN 0 ELSE LsToArbiter
=============================================================================
