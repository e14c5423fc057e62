------------------------------ MODULE Routing ------------------------------
(***************************************************************************)
(* Packets on their way through a network: QueueProcessingEvent asks       *)
(* get_next_hop for the next queue when a transmission starts, and takes   *)
(* the answer NULL for an arrival, wherever the packet is.                 *)
(*                                                                         *)
(* A dcSIM exchange goes over the network three times,                     *)
(*                                                                         *)
(*     SIM ->       SIM_ACK <-       DATA ->                               *)
(*                                                                         *)
(* and the ports that the SIM took are carried along (saved_hash_port,     *)
(* saved_hash_port_l2): the reservation that the SIM made is of use only   *)
(* on its path.  Other flows send data and are acknowledged.               *)
(*                                                                         *)
(* One flow, chosen at the start, has the network for itself: packets meet *)
(* only in the spray counters of the queues, which start at a random value.*)
(***************************************************************************)
EXTENDS FatTree, LeafSpine, Sequences, SequencesExt, FiniteSets, TLC

CONSTANTS
    Topology,        \* the classes
    LoadBalancing,   \* params.load_balancing: 0 a port for each packet, 1 for each flow, 3 the saved one
    Source,          \* hosts that send
    FlowId,          \* ids of the flow, which are hashed
    Exchanges        \* bound: exchanges of the flow

ASSUME RoutingAssumption ==
    /\ Topology \subseteq {"SnsFatTree", "FatTree", "SnsLeafSpine", "LeafSpine"}
    /\ LoadBalancing \subseteq 0 .. 3 /\ Source \cup FlowId \subseteq Nat /\ Exchanges \in Nat

VARIABLES
    topology, load_balancing, flow,
    spray,       \* spray_counter of the queues used so far, modulo the ports it is used for
    sent,        \* exchanges begun
    net,         \* packets under way, each with the queues it has been in
    arrived      \* packets that the flow has received

vars == << topology, load_balancing, flow, spray, sent, net, arrived >>

IsTree == topology \in {"SnsFatTree", "FatTree"}
IsSns  == topology \in {"SnsFatTree", "SnsLeafSpine"}

LastHost == (IF IsTree THEN FtHosts ELSE NumHosts) - (IF IsSns THEN 1 ELSE 0)

\* Queues, and the node that one leads to.
Switches(kind) ==
    CASE kind = "host" -> 0 .. LastHost
      [] kind = "edge" -> 0 .. FtSwitches - 1
      [] kind = "agg"  -> 0 .. (IF IsTree THEN FtSwitches ELSE NumAgg) - 1
      [] kind = "core" -> 0 .. (IF IsTree THEN FtCores ELSE NumCore) - 1

ToArbiterQueues ==
    IF IsSns THEN {} ELSE {<< << IF IsTree THEN "edge" ELSE "agg", 0 >>, ToArbiter >>}

Queues == ToArbiterQueues \cup
    UNION {{<< << kind, i >>, j >> : i \in Switches(kind), j \in IF IsTree THEN FtPorts(kind) ELSE LsPorts(kind)} :
           kind \in IF IsTree THEN {"host", "edge", "agg", "core"} ELSE {"host", "agg", "core"}}

EndOf(q) ==
    LET kind == q[1][1]  i == q[1][2]  j == q[2]
    IN  CASE topology = "SnsFatTree"   -> SnsFatTreeLink(kind, i, j)
          [] topology = "FatTree"      -> FatTreeLink(kind, i, j)
          [] topology = "SnsLeafSpine" -> SnsLeafSpineLink(kind, i, j)
          [] topology = "LeafSpine"    -> LeafSpineLink(kind, i, j)

\* A packet in the queue of the host that sends it.
NewPacket(type, id, src, dst, port, port_l2) ==
    [ type |-> type, id |-> id, src |-> src, dst |-> dst, port |-> port, port_l2 |-> port_l2,
      path |-> << << << "host", src >>, 0 >> >> ]

Init ==
    /\ topology \in Topology /\ load_balancing \in LoadBalancing
    /\ flow \in {f \in [ id : FlowId, src : Source \cap 0 .. LastHost, dst : 0 .. LastHost ] : f.src # f.dst}
    /\ spray = <<>> /\ sent = 0
    /\ net = {} /\ arrived = {}

\* SnsFlow::send_simulation; the path history is switched off, and the ports begin as 0.
\* A flow of collective 99 sends DATA at once.  Other flows have no ports to save.
Start ==
    /\ sent < Exchanges
    /\ sent' = sent + 1
    /\ \/ IsSns /\ net' = net \cup {NewPacket("sim", sent + 1, flow.src, flow.dst, 0, 0)}
       \/ net' = net \cup {NewPacket("data", sent + 1, flow.src, flow.dst, -1, -1)}
    /\ UNCHANGED << topology, load_balancing, flow, spray, arrived >>

-----------------------------------------------------------------------------

GoesUp(m, from) == IF IsTree THEN FtGoesUp(m, from) ELSE LsGoesUp(m, from)
UpPorts == IF IsTree THEN Half ELSE NumCore

\* The two classes of two tiers ask get_next_hop_inner twice.
Calls == IF IsTree THEN 1 ELSE 2

Counter(q) == IF q \in DOMAIN spray THEN {spray[q]} ELSE 0 .. UpPorts - 1

Saved(m, from) == IF from = "host" THEN m.port ELSE m.port_l2

\* hash_port.  The port -1 that is saved in no exchange is taken as it is.
HashPort(m, from, counter) ==
    CASE load_balancing = 0                              -> (counter + Calls - 1) % UpPorts
      [] load_balancing = 1                              -> (m.src + m.dst + flow.id) % UpPorts
      [] load_balancing = 3 /\ topology = "SnsFatTree"   -> Saved(m, from)
      [] OTHER                                           -> 0

\* DATA takes the port of its SIM.
Up(m, from, counter) ==
    IF IsSns /\ m.type = "data" /\ Saved(m, from) # -1 THEN Saved(m, from)
    ELSE HashPort(m, from, counter)

NextPort(m, from, to, up) ==
    CASE topology = "SnsFatTree"   -> SnsFatTreePort(m, from, to, up)
      [] topology = "FatTree"      -> FatTreePort(m, from, to, up)
      [] topology = "SnsLeafSpine" -> SnsLeafSpinePort(m, from, up)
      [] topology = "LeafSpine"    -> LeafSpinePort(m, from, up)

\* The packet on its next queue; a SIM remembers the port it took.
Moved(m, from, to, up) ==
    LET next  == << to, NextPort(m, from, to[1], up) >>
        saves == IsSns /\ m.type = "sim" /\ GoesUp(m, from)
    IN  [m EXCEPT !.path = Append(@, next),
                  !.port = IF saves /\ from = "host" THEN up ELSE @,
                  !.port_l2 = IF saves /\ from # "host" THEN up ELSE @]

\* QueueProcessingEvent when the packet is not at its end.
Forward(m) ==
    LET q == Last(m.path)  from == q[1][1]  to == EndOf(q)
    IN  /\ to[1] # "host"
        /\ IF GoesUp(m, from)
           THEN \E c \in Counter(q) :
                   /\ spray' = IF load_balancing = 0
                               THEN [p \in DOMAIN spray \cup {q} |-> IF p = q THEN (c + Calls) % UpPorts ELSE spray[p]]
                               ELSE spray
                   /\ net' = (net \ {m}) \cup {Moved(m, from, to, Up(m, from, c))}
           ELSE net' = (net \ {m}) \cup {Moved(m, from, to, 0)} /\ UNCHANGED spray
        /\ UNCHANGED << topology, load_balancing, flow, sent, arrived >>

\* Mutant: the second port is not carried on.
AnswerOnePort(m) ==
    CASE m.type = "sim"     -> {NewPacket("sim_ack", m.id, m.dst, m.src, m.port, m.port_l2)}
      [] m.type = "sim_ack" -> {NewPacket("data", m.id, m.dst, m.src, m.port, -1)}
      [] m.type = "data"    -> {NewPacket("ack", m.id, m.dst, m.src, -1, -1)}
      [] m.type = "ack"     -> {}

\* The answer of the flow: SIM_ACK and DATA carry the ports on, DATA_ACK does not.
Answer(m) ==
    CASE m.type = "sim"     -> {NewPacket("sim_ack", m.id, m.dst, m.src, m.port, m.port_l2)}
      [] m.type = "sim_ack" -> {NewPacket("data", m.id, m.dst, m.src, m.port, m.port_l2)}
      [] m.type = "data"    -> {NewPacket("ack", m.id, m.dst, m.src, -1, -1)}
      [] m.type = "ack"     -> {}

\* get_next_hop answers NULL before every host, and PacketArrivalEvent hands the packet
\* to its flow.
Arrive(m) ==
    /\ EndOf(Last(m.path))[1] = "host"
    /\ arrived' = arrived \cup {m}
    /\ net' = (net \ {m}) \cup Answer(m)
    /\ UNCHANGED << topology, load_balancing, flow, spray, sent >>

Next == Start \/ \E m \in net : Forward(m) \/ Arrive(m)

Spec == Init /\ [][Next]_vars

-----------------------------------------------------------------------------
(* Properties *)

Hops(m) == IF IsTree THEN FtHops(m.src, m.dst) ELSE LsHops(m.src, m.dst)

AtItsEnd(m) == EndOf(Last(m.path)) = << "host", m.dst >> /\ Len(m.path) = Hops(m)

\* What a flow receives has been carried to its host, over as many queues as the hosts
\* are apart (the assertions on the destination and on hop in get_next_hop_inner), and
\* no packet wanders on.
NoneAstray ==
    load_balancing # 3 =>
        /\ \A m \in arrived : AtItsEnd(m)
        /\ \A m \in net : Len(m.path) <= Hops(m)

\* Not so with the saved port, which DATA_ACK and the DATA of collective 99 lack.
NoneAstrayAtAll == \A m \in arrived : AtItsEnd(m)

\* DATA follows the path that its SIM has reserved.
DataOnSimPath ==
    \A d \in net \cup arrived, s \in arrived :
        d.type = "data" /\ s.type = "sim" /\ d.id = s.id => IsPrefix(d.path, s.path)

\* Links are laid in pairs, one each way, and none twice (the constructors).
LinksPaired ==
    sent = 0 => \A q \in Queues :
        /\ \E back \in Queues : back[1] = EndOf(q) /\ EndOf(back) = q[1]
        /\ \A other \in Queues \ {q} : other[1] = q[1] => EndOf(other) # EndOf(q)

\* A host that sprays its packets uses the ports in turn: of two packets that go up one
\* after the other, both do not go the same way.  Not so in two tiers, where the counter
\* moves twice for each packet.
Sprayed ==
    load_balancing = 0 /\ UpPorts > 1 /\ ~IsSns =>
        \A a, b \in arrived : a.type = "data" /\ b.type = "data" /\ b.id = a.id + 1 /\ Hops(a) > 2
                              => a.path[2] # b.path[2]

-----------------------------------------------------------------------------
(* The inductive invariant behind NoneAstray and DataOnSimPath.            *)

Ports  == 0 .. UpPorts - 1
Nodes  == {"host", "edge", "agg", "core"} \X Int

\* A packet is of the flow, and carries ports from its SIM or none.
IsPacket(m) ==
    /\ m = [ type |-> m.type, id |-> m.id, src |-> m.src, dst |-> m.dst, port |-> m.port, port_l2 |-> m.port_l2,
             path |-> m.path ]
    /\ m.id \in 1 .. sent
    /\ \/ m.type \in {"sim", "data"} /\ m.src = flow.src /\ m.dst = flow.dst
       \/ m.type \in {"sim_ack", "ack"} /\ m.src = flow.dst /\ m.dst = flow.src
    /\ \/ IsSns /\ m.type # "ack" /\ m.port \in Ports /\ m.port_l2 \in Ports
       \/ m.type \in {"data", "ack"} /\ m.port = -1 /\ m.port_l2 = -1

\* The type invariant.
TypeOK ==
    /\ topology \in Topology /\ load_balancing \in LoadBalancing /\ sent \in Nat
    /\ flow \in [ id : FlowId, src : 0 .. LastHost, dst : 0 .. LastHost ] /\ flow.src # flow.dst
    /\ \A q \in DOMAIN spray : spray[q] \in Ports
    /\ \A m \in net \cup arrived : IsPacket(m)

\* The i-th queue of a packet for which load balancing takes port p1 of the first switch
\* and p2 of the second.
TreePlace(m, p1, p2, i) ==
    CASE i = 1                      -> << << "host", m.src >>, 0 >>
      [] i = Hops(m)                -> << << "edge", FtRack(m.dst) >>,
                                          IF m.dst = FtArbiter THEN ToArbiter ELSE m.dst % Half >>
      [] i = 2 /\ Hops(m) > 2       -> << << "edge", FtRack(m.src) >>, Half + p1 >>
      [] i = 3 /\ Hops(m) = 6       -> << << "agg", FtPod(m.src) * Half + p1 >>, Half + p2 >>
      [] i = 4 /\ Hops(m) = 6       -> << << "core", IF IsSns THEN p2 * Half + p1 ELSE p1 * Half + p2 >>, FtPod(m.dst) >>
      [] i = Hops(m) - 1 /\ i > 2   -> << << "agg", FtPod(m.dst) * Half + p1 >>, FtRack(m.dst) % Half >>

LeafPlace(m, p1, i) ==
    CASE i = 1                      -> << << "host", m.src >>, 0 >>
      [] i = Hops(m)                -> << << "agg", LsRack(m.dst) >>,
                                          IF m.dst = LsArbiter THEN LsToArbiter ELSE m.dst % HostsPerAgg >>
      [] i = 2 /\ Hops(m) = 4       -> << << "agg", LsRack(m.src) >>, HostsPerAgg + p1 >>
      [] i = 3 /\ Hops(m) = 4       -> << << "core", p1 >>, LsRack(m.dst) >>

Place(m, p1, p2, i) == IF IsTree THEN TreePlace(m, p1, p2, i) ELSE LeafPlace(m, p1, i)

\* A packet keeps to such a way, and one that carries the ports of its SIM to theirs.
Keeps(m, p1, p2) ==
    /\ m.path \in Seq(Nodes \X Int) /\ Len(m.path) \in 1 .. Hops(m)
    /\ \A i \in 1 .. Len(m.path) : m.path[i] = Place(m, p1, p2, i)
    /\ m.type \in {"sim", "data"} /\ m.port # -1 => p1 = m.port /\ p2 = m.port_l2

OnTheWay ==
    \A m \in net \cup arrived :
        load_balancing # 3 \/ m.port # -1 =>
            /\ \E p1, p2 \in Ports : Keeps(m, p1, p2)
            /\ m \in arrived => Len(m.path) = Hops(m)

\* An exchange has one SIM or none, and its DATA the ports of that.
SimOnce ==
    \A s \in net \cup arrived : s.type = "sim" =>
        /\ s \notin net \cap arrived
        /\ \A m \in net \cup arrived : m.id = s.id =>
              /\ m.type = "sim" => m = s
              /\ m.type = "data" => m.port # -1

PortsCarried ==
    \A m \in net \cup arrived : m.type \in {"sim_ack", "data"} /\ m.port # -1 =>
        \E s \in arrived : s.type = "sim" /\ s.id = m.id /\ s.port = m.port /\ s.port_l2 = m.port_l2

RoutingInv == TypeOK /\ OnTheWay /\ SimOnce /\ PortsCarried
=============================================================================
