----------------------------- MODULE FctOracle -----------------------------
(***************************************************************************)
(* get_oracle_fct: the time a flow would need in an empty network, which   *)
(* FlowFinishedEvent asserts that no flow beats; and what it stands for,   *)
(* the pipeline of store-and-forward queues that a packet passes, with the *)
(* acknowledgement of the last packet.  Times are multiples of a unit in   *)
(* which both rates are whole numbers.                                     *)
(***************************************************************************)
EXTENDS LeafSpine, FatTree

CONSTANTS
    Mss, Hdr,              \* bytes
    AccessTime, CoreTime,  \* units for a byte at access_bw and at core_bw
    Propagation            \* units for a hop

ASSUME OracleAssumption ==
    /\ Mss \in Nat \ {0} /\ Hdr \in Nat /\ AccessTime \in Nat \ {0} /\ CoreTime \in Nat \ {0}
    /\ Propagation \in Nat

NumHops(topo, f) == IF topo = "FatTree" THEN FtHops(f.src, f.dst) ELSE LsHops(f.src, f.dst)

Np(f)       == f.size \div Mss
Leftover(f) == f.size % Mss

LastPayload(f) == IF Leftover(f) # 0 THEN Leftover(f) ELSE Mss

\* incl_overhead_bytes and the acknowledgement, at the first queue.
FirstHop(f) == ((Mss + Hdr) * Np(f) + Leftover(f) + (IF Leftover(f) > 0 THEN Hdr ELSE 0) + Hdr) * AccessTime

\* Both rates are the same.
FatTreeOracle(f) ==
    LET hops == FtHops(f.src, f.dst)
    IN  2 * hops * Propagation + FirstHop(f) + (hops - 1) * (LastPayload(f) + 2 * Hdr) * AccessTime

\* Mutant: the last packet is taken for a full one.
LeafSpineOracleFull(f, cut_through) ==
    LET far == LsHops(f.src, f.dst) = 4
    IN  2 * LsHops(f.src, f.dst) * Propagation +
        IF cut_through
        THEN (Np(f) * (Mss + Hdr) + 3 * Hdr) * AccessTime + (IF far THEN 4 * Hdr * CoreTime ELSE 0)
        ELSE FirstHop(f) + (IF far THEN 2 * (Mss + 2 * Hdr) * CoreTime ELSE 0) + (Mss + 2 * Hdr) * AccessTime

\* LeafSpineTopology, SnsLeafSpineTopology.
LeafSpineOracle(f, cut_through) ==
    LET far == LsHops(f.src, f.dst) = 4
    IN  2 * LsHops(f.src, f.dst) * Propagation +
        IF cut_through
        THEN (Np(f) * (Mss + Hdr) + 3 * Hdr) * AccessTime + (IF far THEN 4 * Hdr * CoreTime ELSE 0)
        ELSE FirstHop(f) + (IF far THEN 2 * (LastPayload(f) + 2 * Hdr) * CoreTime ELSE 0)
                         + (LastPayload(f) + 2 * Hdr) * AccessTime

SnsFatTreeOracle(f) == FatTreeOracle(f)

\* A fat tree asserts that cut_through is off.
Oracle(topo, f, cut_through) ==
    IF topo = "FatTree" THEN SnsFatTreeOracle(f) ELSE LeafSpineOracle(f, cut_through)

-----------------------------------------------------------------------------
(* The pipeline *)

\* Units for a byte at a queue of the path: the first and the last are of the access rate.
Rate(topo, f, queue) ==
    IF topo = "FatTree" \/ queue \in {1, NumHops(topo, f)} THEN AccessTime ELSE CoreTime

Packets(f) == Np(f) + (IF Leftover(f) > 0 THEN 1 ELSE 0)

Bytes(f, n) == Hdr + (IF n = Packets(f) THEN LastPayload(f) ELSE Mss)

\* QueueProcessingEvent: packet n is in the next queue when it has been sent, or as soon as
\* its header has with cut-through.
Ahead(topo, f, cut_through, n, queue) ==
    (IF cut_through /\ queue < NumHops(topo, f) THEN Hdr ELSE Bytes(f, n)) * Rate(topo, f, queue) + Propagation

\* When packet n begins at a queue, by << n, queue >>: a queue sends one packet at a time.
Begin(topo, f, cut_through) ==
    LET begin[p \in (1 .. Packets(f)) \X (1 .. NumHops(topo, f))] ==
            LET n     == p[1]
                queue == p[2]
                there == IF queue = 1 THEN 0 ELSE begin[<< n, queue - 1 >>] + Ahead(topo, f, cut_through, n, queue - 1)
                idle  == IF n = 1 THEN 0 ELSE begin[<< n - 1, queue >>] + Bytes(f, n - 1) * Rate(topo, f, queue)
            IN  IF there > idle THEN there ELSE idle
    IN  begin

\* How long the acknowledgement takes to pass the first queues on its way back.
Ack(topo, f) ==
    LET ack[queue \in 0 .. NumHops(topo, f)] ==
            IF queue = 0 THEN 0 ELSE ack[queue - 1] + Hdr * Rate(topo, f, queue) + Propagation
    IN  ack

Pipeline(topo, f, cut_through) ==
    LET packets == Packets(f)
        hops    == NumHops(topo, f)
    IN  Begin(topo, f, cut_through)[<< packets, hops >>] + Ahead(topo, f, cut_through, packets, hops) + Ack(topo, f)[hops]
=============================================================================
