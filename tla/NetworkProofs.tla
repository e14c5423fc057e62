--------------------------- MODULE NetworkProofs ---------------------------
(***************************************************************************)
(* Proofs about Routing, for fat trees of every arity and two tiers of     *)
(* every size: links are laid in pairs, get_next_hop takes every packet to *)
(* its host over as many queues as the hosts are apart, and DATA along the *)
(* path of its SIM; and about Simulation, for every topology, generator and *)
(* table of sizes.                                                         *)
(*                                                                         *)
(* Place gives the i-th queue of a packet for the two ports that load      *)
(* balancing chooses.  The lemmas about the networks show that the queue   *)
(* behind the i-th, with the port that get_next_hop answers there, is the  *)
(* next one, which takes the arithmetic of the constructors: the number of *)
(* a switch is (pod, place in the pod), that of a core switch the places   *)
(* of the two ports.  The rest follows the packets.                        *)
(*                                                                         *)
(* A simulation starts from what a flow needs in an empty network: the     *)
(* pipeline of its packets is a table of << packet, queue >> that the      *)
(* lemmas read from below, and the oracle is never above it.  What is drawn *)
(* gives the pairs of the traffic matrix (GenInv), what is scheduled comes *)
(* in time (Timed), and each flow is in one place (Places): it waits, has  *)
(* one event, has ended or is stuck.                                       *)
(***************************************************************************)
EXTENDS Routing, Simulation, SequenceTheorems, FiniteSetTheorems, WellFoundedInduction, TLAPS

-----------------------------------------------------------------------------
(* Division                                                                *)

LEMMA DivMod ==
    ASSUME NEW a \in Nat, NEW n \in Nat \ {0}
    PROVE  /\ a \div n \in Nat /\ a % n \in 0 .. n - 1
           /\ a = (a \div n) * n + (a % n)
OBVIOUS

\* Quotient and remainder are unique.
LEMMA DivModUnique ==
    ASSUME NEW q \in Nat, NEW n \in Nat \ {0}, NEW r \in 0 .. n - 1
    PROVE  (q * n + r) \div n = q /\ (q * n + r) % n = r
<1> DEFINE a == q * n + r
           d == a \div n
           m == a % n
<1>1. a \in Nat
    OBVIOUS
<1>2. d \in Nat /\ m \in 0 .. n - 1 /\ a = d * n + m
    BY <1>1, DivMod
<1>3. ~(d < q)
    <2>1. SUFFICES ASSUME d + 1 <= q PROVE FALSE
        BY <1>2
    <2>2. (d + 1) * n <= q * n
        BY <1>2, <2>1
    <2>3. QED
        BY <1>2, <2>2
<1>4. ~(q < d)
    <2>1. SUFFICES ASSUME q + 1 <= d PROVE FALSE
        BY <1>2
    <2>2. (q + 1) * n <= d * n
        BY <1>2, <2>1
    <2>3. QED
        BY <1>2, <2>2
<1>5. QED
    BY <1>2, <1>3, <1>4

\* A number below b * n has a quotient below b, and a quotient and remainder below b and n
\* give a number below b * n.
LEMMA DivBelow ==
    ASSUME NEW a \in Nat, NEW n \in Nat \ {0}, NEW b \in Nat, a < b * n
    PROVE  a \div n \in 0 .. b - 1
<1>1. a \div n \in Nat /\ a % n \in 0 .. n - 1 /\ a = (a \div n) * n + (a % n)
    BY DivMod
<1>2. SUFFICES ASSUME b <= a \div n PROVE FALSE
    BY <1>1
<1>3. b * n <= (a \div n) * n
    BY <1>1, <1>2
<1>4. QED
    BY <1>1, <1>3

LEMMA ComposedBelow ==
    ASSUME NEW n \in Nat \ {0}, NEW b \in Nat, NEW q \in 0 .. b - 1, NEW r \in 0 .. n - 1
    PROVE  q * n + r \in 0 .. b * n - 1
<1>1. q * n <= (b - 1) * n
    OBVIOUS
<1>2. (b - 1) * n = b * n - n
    OBVIOUS
<1>3. q * n \in Nat /\ b * n \in Nat
    OBVIOUS
<1>4. QED
    BY <1>1, <1>2, <1>3

\* Dividing twice.
LEMMA DivTwice ==
    ASSUME NEW a \in Nat, NEW n \in Nat \ {0}
    PROVE  (a \div n) \div n = a \div (n * n)
<1> DEFINE x == a \div n
           y == x \div n
           r == a % n
           t == x % n
<1>1. x \in Nat /\ r \in 0 .. n - 1 /\ a = x * n + r
    BY DivMod
<1> HIDE DEF x, r
<1>2. y \in Nat /\ t \in 0 .. n - 1 /\ x = y * n + t
    BY <1>1, DivMod
<1> HIDE DEF y, t
<1>3. a = y * (n * n) + (t * n + r)
    BY <1>1, <1>2
<1>4. n * n \in Nat \ {0} /\ t * n + r \in 0 .. n * n - 1
    BY <1>1, <1>2, ComposedBelow
<1>5. (y * (n * n) + (t * n + r)) \div (n * n) = y
    BY <1>2, <1>4, DivModUnique
<1>6. QED
    BY <1>3, <1>5 DEF x, y

-----------------------------------------------------------------------------
(* The fat tree                                                            *)

LEMMA TreeNumbers ==
    /\ Half \in Nat \ {0} /\ K = 2 * Half
    /\ FtSwitches \in Nat \ {0} /\ FtSwitches = K * Half
    /\ FtHosts \in Nat \ {0} /\ FtHosts = FtSwitches * Half
    /\ FtHosts = K * (Half * Half)
    /\ FtCores \in Nat \ {0} /\ FtCores = Half * Half
<1>1. Half \in Nat \ {0} /\ K = 2 * Half
    BY ArityAssumption DEF Half
<1>2. K * Half \in Nat \ {0} /\ Half * Half \in Nat \ {0}
    BY <1>1
<1>3. K * Half * Half = (K * Half) * Half /\ (K * Half) * Half \in Nat \ {0} /\ K * Half * Half = K * (Half * Half)
    BY <1>1, <1>2
<1>4. QED
    BY <1>1, <1>2, <1>3 DEF FtSwitches, FtHosts, FtCores

\* A host is the (h % Half)-th of its rack, and its rack the (rack % Half)-th of its pod.
LEMMA TreeHosts ==
    ASSUME NEW h \in 0 .. FtHosts
    PROVE  /\ FtRack(h) \in 0 .. FtSwitches - 1 /\ FtPod(h) \in 0 .. K - 1
           /\ FtRack(h) % Half \in 0 .. Half - 1
           /\ FtRack(h) \div Half = FtPod(h)
           /\ FtRack(h) = FtPod(h) * Half + (FtRack(h) % Half)
           /\ h # FtArbiter => h % Half \in 0 .. Half - 1 /\ h = FtRack(h) * Half + (h % Half)
<1>1. CASE h = FtArbiter
    <2>1. FtRack(h) = 0 /\ FtPod(h) = 0
        BY <1>1 DEF FtRack, FtPod
    <2>2. 0 \div Half = 0 /\ 0 % Half = 0
        <3>1. (0 * Half + 0) \div Half = 0 /\ (0 * Half + 0) % Half = 0
            BY TreeNumbers, DivModUnique
        <3>2. QED
            BY <3>1, TreeNumbers
    <2>3. QED
        BY <1>1, <2>1, <2>2, TreeNumbers
<1>2. CASE h # FtArbiter
    <2>1. h \in Nat /\ h < FtSwitches * Half /\ FtRack(h) = h \div Half /\ FtPod(h) = h \div (Half * Half)
        BY <1>2, TreeNumbers DEF FtRack, FtPod, FtArbiter
    <2>2. FtRack(h) \in 0 .. FtSwitches - 1
        BY <2>1, TreeNumbers, DivBelow
    <2>3. h % Half \in 0 .. Half - 1 /\ h = FtRack(h) * Half + (h % Half)
        BY <2>1, TreeNumbers, DivMod
    <2>4. FtRack(h) \div Half = FtPod(h)
        BY <2>1, TreeNumbers, DivTwice
    <2>5. FtRack(h) < K * Half /\ FtRack(h) \in Nat
        BY <2>2, TreeNumbers
    <2>6. FtPod(h) \in 0 .. K - 1
        BY <2>4, <2>5, TreeNumbers, DivBelow
    <2>7. FtRack(h) % Half \in 0 .. Half - 1 /\ FtRack(h) = FtPod(h) * Half + (FtRack(h) % Half)
        BY <2>4, <2>5, TreeNumbers, DivMod
    <2>8. QED
        BY <1>2, <2>2, <2>3, <2>4, <2>6, <2>7
<1>3. QED
    BY <1>1, <1>2

\* The place-th switch of a pod, and the core switch with places p and r.
LEMMA TreeSwitch ==
    ASSUME NEW pod \in 0 .. K - 1, NEW place \in 0 .. Half - 1
    PROVE  /\ pod * Half + place \in 0 .. FtSwitches - 1
           /\ (pod * Half + place) \div Half = pod /\ (pod * Half + place) % Half = place
           /\ Half * pod = pod * Half
BY TreeNumbers, ComposedBelow, DivModUnique

LEMMA TreeCore ==
    ASSUME NEW p \in 0 .. Half - 1, NEW r \in 0 .. Half - 1
    PROVE  /\ p * Half + r \in 0 .. FtCores - 1
           /\ (p * Half + r) \div Half = p /\ (p * Half + r) % Half = r
BY TreeNumbers, ComposedBelow, DivModUnique

\* What is smaller than the modulus stays as it is.
LEMMA ModSmall ==
    ASSUME NEW n \in Nat \ {0}, NEW a \in 0 .. n - 1
    PROVE  a % n = a
<1>1. (0 * n + a) % n = a
    BY DivModUnique
<1>2. QED
    BY <1>1

\* Links of the tree, in terms of pods and places.
Core(p, r) == IF IsSns THEN r * Half + p ELSE p * Half + r

LEMMA TreeHostLink ==
    ASSUME IsTree, NEW h \in 0 .. LastHost
    PROVE  EndOf(<< << "host", h >>, 0 >>) = << "edge", FtRack(h) >>
<1>1. FtHosts \in Nat
    BY TreeNumbers
<1>2. CASE topology = "SnsFatTree"
    <2>1. LastHost = FtHosts - 1 /\ h # FtArbiter
        BY <1>1, <1>2 DEF LastHost, IsTree, IsSns, FtArbiter
    <2>2. EndOf(<< << "host", h >>, 0 >>) = << "edge", h \div Half >>
        BY <1>2 DEF EndOf, SnsFatTreeLink, EdgeLink
    <2>3. QED
        BY <2>1, <2>2 DEF FtRack
<1>3. CASE topology = "FatTree"
    <2>1. EndOf(<< << "host", h >>, 0 >>) = IF h = FtArbiter THEN << "edge", 0 >> ELSE << "edge", h \div Half >>
        BY <1>3 DEF EndOf, FatTreeLink, EdgeLink
    <2>2. QED
        BY <2>1 DEF FtRack
<1>4. QED
    BY <1>2, <1>3 DEF IsTree

LEMMA TreeEdgeLinks ==
    ASSUME IsTree, NEW pod \in 0 .. K - 1, NEW place \in 0 .. Half - 1, NEW j \in 0 .. Half - 1
    PROVE  /\ EndOf(<< << "edge", pod * Half + place >>, j >>) = << "host", (pod * Half + place) * Half + j >>
           /\ EndOf(<< << "edge", pod * Half + place >>, Half + j >>) = << "agg", pod * Half + j >>
<1> DEFINE i == pod * Half + place
<1>1. Half \in Nat \ {0} /\ i \in Nat /\ i \div Half = pod
    BY TreeNumbers, TreeSwitch
<1> HIDE DEF i
<1>2. /\ EdgeLink("edge", i, j) = << "host", i * Half + j >>
      /\ EdgeLink("edge", i, Half + j) = << "agg", pod * Half + j >>
    BY <1>1 DEF EdgeLink
<1>3. CASE topology = "SnsFatTree"
    BY <1>2, <1>3 DEF EndOf, SnsFatTreeLink, i
<1>4. CASE topology = "FatTree"
    <2>1. j # ToArbiter /\ Half + j # ToArbiter
        BY <1>1 DEF ToArbiter
    <2>2. QED
        BY <1>2, <1>4, <2>1 DEF EndOf, FatTreeLink, i
<1>5. QED
    BY <1>3, <1>4 DEF IsTree

LEMMA TreeAggLinks ==
    ASSUME IsTree, NEW pod \in 0 .. K - 1, NEW place \in 0 .. Half - 1, NEW j \in 0 .. Half - 1
    PROVE  /\ EndOf(<< << "agg", pod * Half + place >>, j >>) = << "edge", pod * Half + j >>
           /\ EndOf(<< << "agg", pod * Half + place >>, Half + j >>) = << "core", Core(place, j) >>
<1> DEFINE i == pod * Half + place
<1>1. Half \in Nat \ {0} /\ i \in Nat /\ i \div Half = pod /\ i % Half = place
    BY TreeNumbers, TreeSwitch
<1> HIDE DEF i
<1>2. (Half + j) - Half = j /\ ~(Half + j < Half) /\ j < Half /\ ~(j >= Half)
    BY <1>1
<1>3. /\ (j * Half + place) % FtCores = j * Half + place
      /\ (j + place * Half) % FtCores = place * Half + j
    <2>1. FtCores \in Nat \ {0} /\ j * Half + place \in 0 .. FtCores - 1 /\ place * Half + j \in 0 .. FtCores - 1
        BY TreeNumbers, TreeCore
    <2>2. j + place * Half = place * Half + j
        BY <1>1
    <2>3. QED
        BY <2>1, <2>2, ModSmall
<1>4. CASE topology = "SnsFatTree"
    <2>1. IsSns
        BY <1>4 DEF IsSns
    <2>2. /\ SnsFatTreeLink("agg", i, j) = << "edge", pod * Half + j >>
          /\ SnsFatTreeLink("agg", i, Half + j) = << "core", j * Half + place >>
        BY <1>1, <1>2, <1>3 DEF SnsFatTreeLink
    <2>3. QED
        BY <1>4, <2>1, <2>2 DEF EndOf, Core, i
<1>5. CASE topology = "FatTree"
    <2>1. ~IsSns
        BY <1>5 DEF IsSns
    <2>2. /\ FatTreeLink("agg", i, j) = << "edge", pod * Half + j >>
          /\ FatTreeLink("agg", i, Half + j) = << "core", place * Half + j >>
        BY <1>1, <1>2, <1>3 DEF FatTreeLink
    <2>3. QED
        BY <1>5, <2>1, <2>2 DEF EndOf, Core, i
<1>6. QED
    BY <1>4, <1>5 DEF IsTree

LEMMA TreeCoreLink ==
    ASSUME IsTree, NEW place \in 0 .. Half - 1, NEW j \in 0 .. Half - 1, NEW pod \in 0 .. K - 1
    PROVE  EndOf(<< << "core", Core(place, j) >>, pod >>) = << "agg", pod * Half + place >>
<1>1. Half * pod = pod * Half /\ pod * Half + place \in 0 .. FtSwitches - 1 /\ FtSwitches \in Nat \ {0}
    BY TreeNumbers, TreeSwitch
<1>2. (Half * pod + place) % FtSwitches = pod * Half + place
    BY <1>1, ModSmall
<1>3. CASE topology = "SnsFatTree"
    <2>1. Core(place, j) = j * Half + place /\ (j * Half + place) % Half = place
        BY <1>3, TreeCore DEF IsSns, Core
    <2>2. SnsFatTreeLink("core", Core(place, j), pod) = << "agg", (Half * pod + place) % FtSwitches >>
        BY <2>1 DEF SnsFatTreeLink
    <2>3. QED
        BY <1>2, <1>3, <2>2 DEF EndOf
<1>4. CASE topology = "FatTree"
    <2>1. Core(place, j) = place * Half + j /\ (place * Half + j) \div Half = place
        BY <1>4, TreeCore DEF IsSns, Core
    <2>2. FatTreeLink("core", Core(place, j), pod) = << "agg", (Half * pod + place) % FtSwitches >>
        BY <2>1 DEF FatTreeLink
    <2>3. QED
        BY <1>2, <1>4, <2>2 DEF EndOf
<1>5. QED
    BY <1>3, <1>4 DEF IsTree

\* The port of the queue to a host, and what get_next_hop answers elsewhere.
TreeDown(m) == IF m.dst = FtArbiter THEN ToArbiter ELSE m.dst % Half

LEMMA TreePort ==
    ASSUME IsTree, NEW m, m.dst \in 0 .. LastHost, NEW up
    PROVE  /\ FtGoesUp(m, "host") => NextPort(m, "host", "edge", up) = Half + up
           /\ FtGoesUp(m, "edge") => NextPort(m, "edge", "agg", up) = Half + up
           /\ ~FtGoesUp(m, "host") => NextPort(m, "host", "edge", up) = TreeDown(m)
           /\ ~FtGoesUp(m, "edge") => NextPort(m, "edge", "agg", up) = FtRack(m.dst) % Half
           /\ NextPort(m, "agg", "edge", up) = TreeDown(m)
           /\ NextPort(m, "agg", "core", up) = FtPod(m.dst)
           /\ NextPort(m, "core", "agg", up) = FtRack(m.dst) % Half
<1>1. ~FtGoesUp(m, "agg") /\ ~FtGoesUp(m, "core")
    BY DEF FtGoesUp
<1>2. /\ FtGoesUp(m, "host") => SnsFatTreePort(m, "host", "edge", up) = Half + up
      /\ FtGoesUp(m, "edge") => SnsFatTreePort(m, "edge", "agg", up) = Half + up
      /\ ~FtGoesUp(m, "host") => SnsFatTreePort(m, "host", "edge", up) = m.dst % Half
      /\ ~FtGoesUp(m, "edge") => SnsFatTreePort(m, "edge", "agg", up) = FtRack(m.dst) % Half
      /\ SnsFatTreePort(m, "agg", "edge", up) = m.dst % Half
      /\ SnsFatTreePort(m, "agg", "core", up) = FtPod(m.dst)
      /\ SnsFatTreePort(m, "core", "agg", up) = FtRack(m.dst) % Half
    BY <1>1 DEF SnsFatTreePort
<1>3. CASE topology = "SnsFatTree"
    <2>1. m.dst # FtArbiter
        BY <1>3, TreeNumbers DEF LastHost, IsTree, IsSns, FtArbiter
    <2>2. QED
        BY <1>2, <1>3, <2>1 DEF NextPort, TreeDown
<1>4. CASE topology = "FatTree"
    BY <1>1, <1>2, <1>4 DEF NextPort, FatTreePort, TreeDown
<1>5. QED
    BY <1>3, <1>4 DEF IsTree

\* The way of a packet with ports p1 and p2, queue by queue.
Chosen(m, from, p1, p2) == IF ~GoesUp(m, from) THEN 0 ELSE IF from = "host" THEN p1 ELSE p2

LeadsOn(m, p1, p2, i) ==
    LET q == Place(m, p1, p2, i)  from == q[1][1]  to == EndOf(q)
    IN  /\ to[1] # "host" /\ (from = "host" <=> i = 1)
        /\ GoesUp(m, from) <=> i \in {1, 2} /\ Hops(m) > 2 * i
        /\ Place(m, p1, p2, i + 1) = << to, NextPort(m, from, to[1], Chosen(m, from, p1, p2)) >>

LEMMA TreePlaces ==
    ASSUME IsTree, NEW m, NEW p1, NEW p2
    PROVE  /\ Hops(m) \in {2, 4, 6} /\ Place(m, p1, p2, 1) = << << "host", m.src >>, 0 >>
           /\ Place(m, p1, p2, Hops(m)) = << << "edge", FtRack(m.dst) >>, TreeDown(m) >>
           /\ Hops(m) > 2 => Place(m, p1, p2, 2) = << << "edge", FtRack(m.src) >>, Half + p1 >>
           /\ Hops(m) = 6 =>
                 /\ Place(m, p1, p2, 3) = << << "agg", FtPod(m.src) * Half + p1 >>, Half + p2 >>
                 /\ Place(m, p1, p2, 4) = << << "core", Core(p1, p2) >>, FtPod(m.dst) >>
                 /\ Place(m, p1, p2, 5) = << << "agg", FtPod(m.dst) * Half + p1 >>, FtRack(m.dst) % Half >>
           /\ Hops(m) = 4 =>
                 Place(m, p1, p2, 3) = << << "agg", FtPod(m.dst) * Half + p1 >>, FtRack(m.dst) % Half >>
<1>1. Hops(m) \in {2, 4, 6}
    BY DEF Hops, FtHops
<1>2. \A i : Place(m, p1, p2, i) = TreePlace(m, p1, p2, i)
    BY DEF Place
<1>3. CASE Hops(m) = 2
    BY <1>2, <1>3 DEF TreePlace, TreeDown
<1>4. CASE Hops(m) = 4
    BY <1>2, <1>4 DEF TreePlace, TreeDown
<1>5. CASE Hops(m) = 6
    BY <1>2, <1>5 DEF TreePlace, TreeDown, Core
<1>6. QED
    BY <1>1, <1>3, <1>4, <1>5

LEMMA TreeWay ==
    ASSUME IsTree, NEW m, m.src \in 0 .. LastHost, m.dst \in 0 .. LastHost,
           NEW p1 \in Ports, NEW p2 \in Ports
    PROVE  /\ \A i \in 1 .. Hops(m) - 1 : LeadsOn(m, p1, p2, i)
           /\ EndOf(Place(m, p1, p2, Hops(m))) = << "host", m.dst >>
<1> DEFINE s == FtPod(m.src)
           x == FtRack(m.src) % Half
           d == FtPod(m.dst)
           y == FtRack(m.dst) % Half
<1>1. p1 \in 0 .. Half - 1 /\ p2 \in 0 .. Half - 1 /\ Half \in Nat \ {0} /\ 0 \in 0 .. Half - 1
    BY TreeNumbers DEF Ports, UpPorts
<1>2. m.src \in 0 .. FtHosts /\ m.dst \in 0 .. FtHosts
    BY TreeNumbers DEF LastHost
<1>3. /\ s \in 0 .. K - 1 /\ x \in 0 .. Half - 1 /\ FtRack(m.src) = s * Half + x
      /\ d \in 0 .. K - 1 /\ y \in 0 .. Half - 1 /\ FtRack(m.dst) = d * Half + y
    BY <1>2, TreeHosts
<1> HIDE DEF s, x, d, y
<1>4. EndOf(Place(m, p1, p2, Hops(m))) = << "host", m.dst >>
    <2>1. Place(m, p1, p2, Hops(m)) = << << "edge", FtRack(m.dst) >>, TreeDown(m) >>
        BY TreePlaces
    <2>2. CASE m.dst # FtArbiter
        <3>1. m.dst % Half \in 0 .. Half - 1 /\ m.dst = FtRack(m.dst) * Half + (m.dst % Half)
            BY <1>2, <2>2, TreeHosts
        <3>2. EndOf(<< << "edge", d * Half + y >>, m.dst % Half >>)
                = << "host", (d * Half + y) * Half + (m.dst % Half) >>
            BY <1>3, <3>1, TreeEdgeLinks
        <3>3. QED
            BY <1>3, <2>1, <2>2, <3>1, <3>2 DEF TreeDown
    <2>3. CASE m.dst = FtArbiter
        <3>1. topology = "FatTree"
            BY <2>3, TreeNumbers DEF LastHost, IsTree, IsSns, FtArbiter
        <3>2. QED
            BY <2>1, <2>3, <3>1 DEF TreeDown, EndOf, FatTreeLink
    <2>4. QED
        BY <2>2, <2>3
<1>5. EndOf(Place(m, p1, p2, 1)) = << "edge", FtRack(m.src) >>
    BY TreeHostLink, TreePlaces
<1>6. Hops(m) > 2 => EndOf(Place(m, p1, p2, 2)) = << "agg", s * Half + p1 >>
    <2>1. EndOf(<< << "edge", s * Half + x >>, Half + p1 >>) = << "agg", s * Half + p1 >>
        BY <1>1, <1>3, TreeEdgeLinks
    <2>2. QED
        BY <1>3, <2>1, TreePlaces
<1>7. EndOf(<< << "agg", d * Half + p1 >>, y >>) = << "edge", FtRack(m.dst) >>
    <2>1. EndOf(<< << "agg", d * Half + p1 >>, y >>) = << "edge", d * Half + y >>
        BY <1>1, <1>3, TreeAggLinks
    <2>2. QED
        BY <1>3, <2>1
<1>8. EndOf(<< << "agg", s * Half + p1 >>, Half + p2 >>) = << "core", Core(p1, p2) >>
    BY <1>1, <1>3, TreeAggLinks
<1>9. EndOf(<< << "core", Core(p1, p2) >>, d >>) = << "agg", d * Half + p1 >>
    BY <1>1, <1>3, TreeCoreLink
<1>10. \A from : GoesUp(m, from) = FtGoesUp(m, from)
    BY DEF GoesUp
<1>11. ~FtGoesUp(m, "agg") /\ ~FtGoesUp(m, "core")
    BY DEF FtGoesUp
<1>12. CASE Hops(m) = 2
    <2>1. FtRack(m.src) = FtRack(m.dst) /\ ~FtGoesUp(m, "host")
        BY <1>12 DEF Hops, FtHops, FtGoesUp, FtSameRack
    <2>2. LeadsOn(m, p1, p2, 1)
        BY <1>5, <1>10, <1>12, <2>1, TreePlaces, TreePort DEF LeadsOn
    <2>3. QED
        BY <1>4, <1>12, <2>2
<1>13. CASE Hops(m) = 4
    <2>1. s = d /\ FtGoesUp(m, "host") /\ ~FtGoesUp(m, "edge")
        BY <1>13 DEF Hops, FtHops, FtGoesUp, FtSameRack, FtSamePod, s, d
    <2>2. LeadsOn(m, p1, p2, 1)
        BY <1>5, <1>10, <1>13, <2>1, TreePlaces, TreePort DEF LeadsOn, Chosen
    <2>3. LeadsOn(m, p1, p2, 2)
        BY <1>6, <1>10, <1>13, <2>1, TreePlaces, TreePort DEF LeadsOn, d, y
    <2>4. LeadsOn(m, p1, p2, 3)
        BY <1>7, <1>10, <1>11, <1>13, TreePlaces, TreePort DEF LeadsOn, d, y
    <2>5. QED
        BY <1>4, <1>13, <2>2, <2>3, <2>4
<1>14. CASE Hops(m) = 6
    <2>1. FtGoesUp(m, "host") /\ FtGoesUp(m, "edge")
        BY <1>14 DEF Hops, FtHops, FtGoesUp, FtSameRack, FtSamePod
    <2>2. LeadsOn(m, p1, p2, 1)
        BY <1>5, <1>10, <1>14, <2>1, TreePlaces, TreePort DEF LeadsOn, Chosen
    <2>3. LeadsOn(m, p1, p2, 2)
        BY <1>6, <1>10, <1>14, <2>1, TreePlaces, TreePort DEF LeadsOn, Chosen, s
    <2>4. LeadsOn(m, p1, p2, 3)
        BY <1>8, <1>10, <1>11, <1>14, TreePlaces, TreePort DEF LeadsOn, s
    <2>5. LeadsOn(m, p1, p2, 4)
        BY <1>9, <1>10, <1>11, <1>14, TreePlaces, TreePort DEF LeadsOn, d
    <2>6. LeadsOn(m, p1, p2, 5)
        BY <1>7, <1>10, <1>11, <1>14, TreePlaces, TreePort DEF LeadsOn, d, y
    <2>7. QED
        BY <1>4, <1>14, <2>2, <2>3, <2>4, <2>5, <2>6
<1>15. QED
    BY <1>12, <1>13, <1>14, TreePlaces

-----------------------------------------------------------------------------
(* Two tiers                                                               *)

IsLeaf == topology \in {"SnsLeafSpine", "LeafSpine"}

LEMMA LeafNumbers == HostsPerAgg \in Nat \ {0} /\ NumHosts = NumAgg * HostsPerAgg /\ NumHosts \in Nat \ {0}
<1>1. /\ NumHosts \div NumAgg \in Nat
      /\ NumHosts = (NumHosts \div NumAgg) * NumAgg + (NumHosts % NumAgg)
    BY LeafSpineAssumption, DivMod
<1>2. NumHosts = (NumHosts \div NumAgg) * NumAgg
    BY <1>1, LeafSpineAssumption
<1>3. NumHosts \div NumAgg # 0
    BY <1>2, LeafSpineAssumption
<1>4. QED
    BY <1>1, <1>2, <1>3, LeafSpineAssumption DEF HostsPerAgg

LEMMA LeafHosts ==
    ASSUME NEW h \in 0 .. NumHosts
    PROVE  /\ LsRack(h) \in 0 .. NumAgg - 1
           /\ h # LsArbiter => /\ h % HostsPerAgg \in 0 .. HostsPerAgg - 1 /\ LsRack(h) = h \div HostsPerAgg
                               /\ h = LsRack(h) * HostsPerAgg + (h % HostsPerAgg)
<1>1. CASE h = LsArbiter
    BY <1>1, LeafSpineAssumption DEF LsRack
<1>2. CASE h # LsArbiter
    <2>1. h \in Nat /\ h < NumAgg * HostsPerAgg /\ LsRack(h) = h \div HostsPerAgg
        BY <1>2, LeafNumbers DEF LsRack, LsArbiter
    <2>2. h \div HostsPerAgg \in 0 .. NumAgg - 1
        BY <2>1, LeafNumbers, LeafSpineAssumption, DivBelow
    <2>3. h % HostsPerAgg \in 0 .. HostsPerAgg - 1 /\ h = (h \div HostsPerAgg) * HostsPerAgg + (h % HostsPerAgg)
        BY <2>1, LeafNumbers, DivMod
    <2>4. QED
        BY <2>1, <2>2, <2>3
<1>3. QED
    BY <1>1, <1>2

LEMMA LeafLinks ==
    ASSUME IsLeaf
    PROVE  /\ \A h \in 0 .. LastHost : EndOf(<< << "host", h >>, 0 >>) = << "agg", LsRack(h) >>
           /\ \A i, j \in Nat : EndOf(<< << "agg", i >>, j >>) =
                 IF j < HostsPerAgg THEN << "host", i * HostsPerAgg + j >> ELSE << "core", j - HostsPerAgg >>
           /\ \A i, j \in Nat : EndOf(<< << "core", i >>, j >>) = << "agg", j >>
<1>1. HostsPerAgg \in Nat /\ NumHosts \in Nat
    BY LeafNumbers
<1>2. CASE topology = "SnsLeafSpine"
    <2>1. \A h \in 0 .. LastHost : h # LsArbiter
        BY <1>1, <1>2 DEF LastHost, IsTree, IsSns, LsArbiter
    <2>2. QED
        BY <1>1, <1>2, <2>1 DEF EndOf, SnsLeafSpineLink, LsRack
<1>3. CASE topology = "LeafSpine"
    <2>1. \A j \in Nat : j # LsToArbiter
        BY DEF LsToArbiter
    <2>2. \A h \in 0 .. LastHost : EndOf(<< << "host", h >>, 0 >>) = << "agg", LsRack(h) >>
        BY <1>3 DEF EndOf, LeafSpineLink, SnsLeafSpineLink, LsRack
    <2>3. QED
        BY <1>1, <1>3, <2>1, <2>2 DEF EndOf, LeafSpineLink, SnsLeafSpineLink
<1>4. QED
    BY <1>2, <1>3 DEF IsLeaf

LeafDown(m) == IF m.dst = LsArbiter THEN LsToArbiter ELSE m.dst % HostsPerAgg

LEMMA LeafPort ==
    ASSUME IsLeaf, NEW m, m.dst \in 0 .. LastHost, NEW up
    PROVE  /\ LsGoesUp(m, "host") => NextPort(m, "host", "agg", up) = HostsPerAgg + up
           /\ ~LsGoesUp(m, "host") => NextPort(m, "host", "agg", up) = LeafDown(m)
           /\ NextPort(m, "agg", "core", up) = LsRack(m.dst)
           /\ NextPort(m, "core", "agg", up) = LeafDown(m)
<1>1. ~LsGoesUp(m, "agg") /\ ~LsGoesUp(m, "core")
    BY DEF LsGoesUp
<1>2. /\ LsGoesUp(m, "host") => SnsLeafSpinePort(m, "host", up) = HostsPerAgg + up
      /\ ~LsGoesUp(m, "host") => SnsLeafSpinePort(m, "host", up) = m.dst % HostsPerAgg
      /\ SnsLeafSpinePort(m, "agg", up) = m.dst \div HostsPerAgg
      /\ SnsLeafSpinePort(m, "core", up) = m.dst % HostsPerAgg
    BY <1>1 DEF SnsLeafSpinePort
<1>3. CASE topology = "SnsLeafSpine"
    <2>1. m.dst # LsArbiter
        BY <1>3, LeafNumbers DEF LastHost, IsTree, IsSns, LsArbiter
    <2>2. QED
        BY <1>2, <1>3, <2>1 DEF NextPort, LeafDown, LsRack
<1>4. CASE topology = "LeafSpine"
    BY <1>1, <1>2, <1>4 DEF NextPort, LeafSpinePort, LeafDown, LsRack
<1>5. QED
    BY <1>3, <1>4 DEF IsLeaf

LEMMA LeafPlaces ==
    ASSUME IsLeaf, NEW m, NEW p1, NEW p2
    PROVE  /\ Hops(m) \in {2, 4} /\ Place(m, p1, p2, 1) = << << "host", m.src >>, 0 >>
           /\ Place(m, p1, p2, Hops(m)) = << << "agg", LsRack(m.dst) >>, LeafDown(m) >>
           /\ Hops(m) = 4 =>
                 /\ Place(m, p1, p2, 2) = << << "agg", LsRack(m.src) >>, HostsPerAgg + p1 >>
                 /\ Place(m, p1, p2, 3) = << << "core", p1 >>, LsRack(m.dst) >>
<1>1. ~IsTree
    BY DEF IsLeaf, IsTree
<1>2. Hops(m) \in {2, 4}
    BY <1>1 DEF Hops, LsHops
<1>3. \A i : Place(m, p1, p2, i) = LeafPlace(m, p1, i)
    BY <1>1 DEF Place
<1>4. CASE Hops(m) = 2
    BY <1>3, <1>4 DEF LeafPlace, LeafDown
<1>5. CASE Hops(m) = 4
    BY <1>3, <1>5 DEF LeafPlace, LeafDown
<1>6. QED
    BY <1>2, <1>4, <1>5

LEMMA LeafWay ==
    ASSUME IsLeaf, NEW m, m.src \in 0 .. LastHost, m.dst \in 0 .. LastHost,
           NEW p1 \in Ports, NEW p2 \in Ports
    PROVE  /\ \A i \in 1 .. Hops(m) - 1 : LeadsOn(m, p1, p2, i)
           /\ EndOf(Place(m, p1, p2, Hops(m))) = << "host", m.dst >>
<1>1. ~IsTree
    BY DEF IsLeaf, IsTree
<1>2. p1 \in Nat /\ HostsPerAgg \in Nat \ {0}
    BY LeafNumbers, LeafSpineAssumption, <1>1 DEF Ports, UpPorts
<1>3. m.src \in 0 .. NumHosts /\ m.dst \in 0 .. NumHosts
    BY <1>1, LeafNumbers DEF LastHost
<1>4. LsRack(m.src) \in Nat /\ LsRack(m.dst) \in Nat
    BY <1>3, LeafHosts
<1>5. EndOf(Place(m, p1, p2, Hops(m))) = << "host", m.dst >>
    <2>1. Place(m, p1, p2, Hops(m)) = << << "agg", LsRack(m.dst) >>, LeafDown(m) >>
        BY LeafPlaces
    <2>2. CASE m.dst # LsArbiter
        <3>1. m.dst % HostsPerAgg \in 0 .. HostsPerAgg - 1 /\ m.dst = LsRack(m.dst) * HostsPerAgg + (m.dst % HostsPerAgg)
            BY <1>3, <2>2, LeafHosts
        <3>2. m.dst % HostsPerAgg \in Nat /\ m.dst % HostsPerAgg < HostsPerAgg
            BY <1>2, <3>1
        <3>3. EndOf(<< << "agg", LsRack(m.dst) >>, m.dst % HostsPerAgg >>)
                = << "host", LsRack(m.dst) * HostsPerAgg + (m.dst % HostsPerAgg) >>
            BY <1>4, <3>2, LeafLinks
        <3>4. QED
            BY <2>1, <2>2, <3>1, <3>3 DEF LeafDown
    <2>3. CASE m.dst = LsArbiter
        <3>1. topology = "LeafSpine"
            BY <2>3, <1>1, LeafNumbers DEF LastHost, IsLeaf, IsSns, LsArbiter
        <3>2. QED
            BY <2>1, <2>3, <3>1 DEF LeafDown, EndOf, LeafSpineLink
    <2>4. QED
        BY <2>2, <2>3
<1>6. EndOf(Place(m, p1, p2, 1)) = << "agg", LsRack(m.src) >>
    BY LeafLinks, LeafPlaces
<1>7. EndOf(<< << "agg", LsRack(m.src) >>, HostsPerAgg + p1 >>) = << "core", p1 >>
    <2>1. HostsPerAgg + p1 \in Nat /\ ~(HostsPerAgg + p1 < HostsPerAgg) /\ (HostsPerAgg + p1) - HostsPerAgg = p1
        BY <1>2
    <2>2. QED
        BY <1>4, <2>1, LeafLinks
<1>8. EndOf(<< << "core", p1 >>, LsRack(m.dst) >>) = << "agg", LsRack(m.dst) >>
    BY <1>2, <1>4, LeafLinks
<1>9. \A from : GoesUp(m, from) = LsGoesUp(m, from)
    BY <1>1 DEF GoesUp
<1>10. ~LsGoesUp(m, "agg") /\ ~LsGoesUp(m, "core")
    BY DEF LsGoesUp
<1>11. CASE Hops(m) = 2
    <2>1. LsRack(m.src) = LsRack(m.dst) /\ ~LsGoesUp(m, "host")
        BY <1>1, <1>11 DEF Hops, LsHops, LsGoesUp, LsSameRack
    <2>2. LeadsOn(m, p1, p2, 1)
        BY <1>6, <1>9, <1>11, <2>1, LeafPlaces, LeafPort DEF LeadsOn
    <2>3. QED
        BY <1>5, <1>11, <2>2
<1>12. CASE Hops(m) = 4
    <2>1. LsGoesUp(m, "host")
        BY <1>1, <1>12 DEF Hops, LsHops, LsGoesUp, LsSameRack
    <2>2. LeadsOn(m, p1, p2, 1)
        BY <1>6, <1>9, <1>12, <2>1, LeafPlaces, LeafPort DEF LeadsOn, Chosen
    <2>3. LeadsOn(m, p1, p2, 2)
        BY <1>7, <1>9, <1>10, <1>12, LeafPlaces, LeafPort DEF LeadsOn
    <2>4. LeadsOn(m, p1, p2, 3)
        BY <1>8, <1>9, <1>10, <1>12, LeafPlaces, LeafPort DEF LeadsOn
    <2>5. QED
        BY <1>5, <1>12, <2>2, <2>3, <2>4
<1>13. QED
    BY <1>11, <1>12, LeafPlaces

-----------------------------------------------------------------------------
(* The way of a packet in any of the networks                              *)

LEMMA UpPortsPositive == UpPorts \in Nat \ {0} /\ Calls \in {1, 2}
BY TreeNumbers, LeafSpineAssumption DEF UpPorts, Calls

\* A queue of the way is determined by the hosts and the ports chosen before it.
LEMMA WayOf ==
    ASSUME topology \in Topology, NEW m, m.src \in 0 .. LastHost, m.dst \in 0 .. LastHost,
           NEW p1 \in Ports, NEW p2 \in Ports
    PROVE  /\ Hops(m) \in {2, 4, 6}
           /\ Place(m, p1, p2, 1) = << << "host", m.src >>, 0 >>
           /\ \A i \in 1 .. Hops(m) - 1 : LeadsOn(m, p1, p2, i)
           /\ EndOf(Place(m, p1, p2, Hops(m))) = << "host", m.dst >>
           /\ \A r1, r2 \in Ports : Place(m, r1, r2, 1) = Place(m, p1, p2, 1)
           /\ \A r2 \in Ports : Place(m, p1, r2, 2) = Place(m, p1, p2, 2)
<1>1. CASE IsTree
    <2>1. /\ \A i \in 1 .. Hops(m) - 1 : LeadsOn(m, p1, p2, i)
          /\ EndOf(Place(m, p1, p2, Hops(m))) = << "host", m.dst >>
        BY <1>1, TreeWay
    <2>2. Hops(m) \in {2, 4, 6} /\ \A r1, r2 \in Ports : Place(m, r1, r2, 1) = << << "host", m.src >>, 0 >>
        BY <1>1, TreePlaces
    <2>3. ASSUME NEW r2 \in Ports PROVE Place(m, p1, r2, 2) = Place(m, p1, p2, 2)
        <3>1. CASE Hops(m) = 2
            BY <1>1, <3>1, TreePlaces
        <3>2. CASE Hops(m) > 2
            BY <1>1, <3>2, TreePlaces
        <3>3. QED
            BY <2>2, <3>1, <3>2
    <2>4. QED
        BY <2>1, <2>2, <2>3
<1>2. CASE ~IsTree
    <2>1. IsLeaf
        BY <1>2, RoutingAssumption DEF IsTree, IsLeaf
    <2>2. /\ \A i \in 1 .. Hops(m) - 1 : LeadsOn(m, p1, p2, i)
          /\ EndOf(Place(m, p1, p2, Hops(m))) = << "host", m.dst >>
        BY <2>1, LeafWay
    <2>3. Hops(m) \in {2, 4} /\ \A r1, r2 \in Ports : Place(m, r1, r2, 1) = << << "host", m.src >>, 0 >>
        BY <2>1, LeafPlaces
    <2>4. \A r2 \in Ports : Place(m, p1, r2, 2) = Place(m, p1, p2, 2)
        BY <1>2 DEF Place
    <2>5. QED
        BY <2>2, <2>3, <2>4
<1>3. QED
    BY <1>1, <1>2

\* It is a queue of a node.
LEMMA PlaceIsQueue ==
    ASSUME topology \in Topology, NEW m, m.src \in 0 .. LastHost, m.dst \in 0 .. LastHost,
           NEW p1 \in Ports, NEW p2 \in Ports, NEW i \in 1 .. Hops(m)
    PROVE  Place(m, p1, p2, i) \in Nodes \X Int
<1>1. p1 \in Nat /\ p2 \in Nat
    BY DEF Ports
<1>2. CASE IsTree
    <2>1. m.src \in 0 .. FtHosts /\ m.dst \in 0 .. FtHosts
        BY <1>2, TreeNumbers DEF LastHost
    <2>2. /\ FtRack(m.src) \in Nat /\ FtRack(m.dst) \in Nat /\ FtPod(m.src) \in Nat /\ FtPod(m.dst) \in Nat
          /\ FtRack(m.dst) % Half \in Nat /\ (m.dst # FtArbiter => m.dst % Half \in Nat) /\ Half \in Nat
        BY <2>1, TreeHosts, TreeNumbers
    <2>3. TreeDown(m) \in Int
        BY <2>2 DEF TreeDown, ToArbiter
    <2>4. FtPod(m.src) * Half + p1 \in Int /\ FtPod(m.dst) * Half + p1 \in Int
        BY <1>1, <2>2
    <2>5. Core(p1, p2) \in Int /\ Half + p1 \in Int /\ Half + p2 \in Int
        BY <1>1, <2>2 DEF Core
    <2>6. i \in {1, 2, 3, 4, 5, 6} /\ i <= Hops(m) /\ Hops(m) \in {2, 4, 6}
        BY <1>2, TreePlaces
    <2>7. CASE i = Hops(m) \/ i = 1
        BY <1>2, <2>1, <2>2, <2>3, <2>7, TreePlaces DEF Nodes
    <2>8. CASE i = 2 /\ Hops(m) > 2
        BY <1>2, <2>2, <2>5, <2>8, TreePlaces DEF Nodes
    <2>9. CASE i = 3 /\ Hops(m) = 4
        <3>1. Place(m, p1, p2, i) = << << "agg", FtPod(m.dst) * Half + p1 >>, FtRack(m.dst) % Half >>
            BY <1>2, <2>9, TreePlaces
        <3>2. FtPod(m.dst) * Half + p1 \in Int /\ FtRack(m.dst) % Half \in Int
            BY <2>2, <2>4
        <3>3. QED
            BY <3>1, <3>2 DEF Nodes
    <2>10. CASE i \in {3, 4, 5} /\ Hops(m) = 6
        <3>1. /\ i = 3 => Place(m, p1, p2, i) = << << "agg", FtPod(m.src) * Half + p1 >>, Half + p2 >>
              /\ i = 4 => Place(m, p1, p2, i) = << << "core", Core(p1, p2) >>, FtPod(m.dst) >>
              /\ i = 5 => Place(m, p1, p2, i) = << << "agg", FtPod(m.dst) * Half + p1 >>, FtRack(m.dst) % Half >>
            BY <1>2, <2>10, TreePlaces
        <3>2. /\ FtPod(m.src) * Half + p1 \in Int /\ FtPod(m.dst) * Half + p1 \in Int
              /\ FtPod(m.dst) \in Int /\ FtRack(m.dst) % Half \in Int
            BY <2>2, <2>4
        <3>3. QED
            BY <2>5, <2>10, <3>1, <3>2 DEF Nodes
    <2>11. QED
        BY <2>6, <2>7, <2>8, <2>9, <2>10
<1>3. CASE ~IsTree
    <2>1. IsLeaf
        BY <1>3, RoutingAssumption DEF IsTree, IsLeaf
    <2>2. m.src \in 0 .. NumHosts /\ m.dst \in 0 .. NumHosts
        BY <1>3, LeafNumbers DEF LastHost
    <2>3. LsRack(m.src) \in Nat /\ LsRack(m.dst) \in Nat /\ (m.dst # LsArbiter => m.dst % HostsPerAgg \in Nat) /\ HostsPerAgg \in Nat
        BY <2>2, LeafHosts, LeafNumbers
    <2>4. LeafDown(m) \in Int
        BY <2>3 DEF LeafDown, LsToArbiter
    <2>5. i \in {1, 2, 3, 4} /\ i <= Hops(m) /\ Hops(m) \in {2, 4}
        BY <2>1, LeafPlaces
    <2>6. CASE i = Hops(m) \/ i = 1
        BY <2>1, <2>2, <2>3, <2>4, <2>6, LeafPlaces DEF Nodes
    <2>7. CASE i \in {2, 3} /\ Hops(m) = 4
        BY <1>1, <2>1, <2>3, <2>7, LeafPlaces DEF Nodes
    <2>8. QED
        BY <2>5, <2>6, <2>7
<1>4. QED
    BY <1>2, <1>3

\* Packets with the same ends have the same way.
LEMMA SameEnds ==
    ASSUME NEW m, NEW n, m.src = n.src, m.dst = n.dst
    PROVE  /\ Hops(m) = Hops(n)
           /\ \A p1, p2, i : Place(m, p1, p2, i) = Place(n, p1, p2, i)
<1>1. Hops(m) = Hops(n)
    BY DEF Hops
<1>2. QED
    BY <1>1 DEF Place, TreePlace, LeafPlace

\* A packet that is moved changes in its path and, a SIM that goes up, in one port.
LEMMA MovedFields ==
    ASSUME NEW m, IsPacket(m), NEW from, NEW to, NEW up
    PROVE  LET n == Moved(m, from, to, up)
               saves == IsSns /\ m.type = "sim" /\ GoesUp(m, from)
           IN  /\ n = [ type |-> n.type, id |-> n.id, src |-> n.src, dst |-> n.dst, port |-> n.port,
                        port_l2 |-> n.port_l2, path |-> n.path ]
               /\ n.type = m.type /\ n.id = m.id /\ n.src = m.src /\ n.dst = m.dst
               /\ n.path = Append(m.path, << to, NextPort(m, from, to[1], up) >>)
               /\ n.port = IF saves /\ from = "host" THEN up ELSE m.port
               /\ n.port_l2 = IF saves /\ from # "host" THEN up ELSE m.port_l2
<1> DEFINE next == << to, NextPort(m, from, to[1], up) >>
           saves == IsSns /\ m.type = "sim" /\ GoesUp(m, from)
           path == Append(m.path, next)
           port == IF saves /\ from = "host" THEN up ELSE m.port
           port_l2 == IF saves /\ from # "host" THEN up ELSE m.port_l2
<1>1. Moved(m, from, to, up) = [m EXCEPT !.path = path, !.port = port, !.port_l2 = port_l2]
    BY DEF Moved
<1> HIDE DEF next, saves, path, port, port_l2
<1>2. m = [ type |-> m.type, id |-> m.id, src |-> m.src, dst |-> m.dst, port |-> m.port, port_l2 |-> m.port_l2,
            path |-> m.path ]
    BY DEF IsPacket
<1>3. [m EXCEPT !.path = path, !.port = port, !.port_l2 = port_l2]
        = [ type |-> m.type, id |-> m.id, src |-> m.src, dst |-> m.dst, port |-> port, port_l2 |-> port_l2, path |-> path ]
    <2>1. PICK t, i, s, d, p, l, w :
             m = [ type |-> t, id |-> i, src |-> s, dst |-> d, port |-> p, port_l2 |-> l, path |-> w ]
        BY <1>2
    <2>2. m.type = t /\ m.id = i /\ m.src = s /\ m.dst = d
        BY <2>1
    <2>3. [[ type |-> t, id |-> i, src |-> s, dst |-> d, port |-> p, port_l2 |-> l, path |-> w ]
             EXCEPT !.path = path, !.port = port, !.port_l2 = port_l2]
           = [ type |-> t, id |-> i, src |-> s, dst |-> d, port |-> port, port_l2 |-> port_l2, path |-> path ]
        <3>1. [[ type |-> t, id |-> i, src |-> s, dst |-> d, port |-> p, port_l2 |-> l, path |-> w ] EXCEPT !.path = path]
                = [ type |-> t, id |-> i, src |-> s, dst |-> d, port |-> p, port_l2 |-> l, path |-> path ]
            OBVIOUS
        <3>2. [[ type |-> t, id |-> i, src |-> s, dst |-> d, port |-> p, port_l2 |-> l, path |-> path ] EXCEPT !.port = port]
                = [ type |-> t, id |-> i, src |-> s, dst |-> d, port |-> port, port_l2 |-> l, path |-> path ]
            OBVIOUS
        <3>3. [[ type |-> t, id |-> i, src |-> s, dst |-> d, port |-> port, port_l2 |-> l, path |-> path ] EXCEPT !.port_l2 = port_l2]
                = [ type |-> t, id |-> i, src |-> s, dst |-> d, port |-> port, port_l2 |-> port_l2, path |-> path ]
            OBVIOUS
        <3>4. QED
            BY <3>1, <3>2, <3>3
    <2>4. QED
        BY <2>1, <2>2, <2>3
<1>4. QED
    BY <1>1, <1>3 DEF next, saves, path, port, port_l2

-----------------------------------------------------------------------------
(* A step along the way                                                    *)

LEMMA PacketEnds ==
    ASSUME TypeOK, NEW m, IsPacket(m)
    PROVE  m.src \in 0 .. LastHost /\ m.dst \in 0 .. LastHost
BY DEF TypeOK, IsPacket

\* Load balancing answers a port that goes up, when it may.
LEMMA UpIsPort ==
    ASSUME TypeOK, NEW m, IsPacket(m), load_balancing # 3 \/ m.port # -1,
           NEW from, NEW q, NEW c \in Counter(q)
    PROVE  /\ Up(m, from, c) \in Ports
           /\ m.type = "data" /\ m.port # -1 => Up(m, from, c) = Saved(m, from)
<1>1. UpPorts \in Nat \ {0} /\ 0 \in Ports /\ Calls \in Int
    BY UpPortsPositive DEF Ports
<1>2. c \in Int
    BY <1>1 DEF Counter, TypeOK, Ports
<1>3. m.port # -1 => Saved(m, from) \in Ports /\ Saved(m, from) # -1 /\ IsSns
    BY <1>1 DEF IsPacket, Saved, Ports
<1>4. m.port = -1 => Saved(m, from) = -1
    BY <1>1 DEF IsPacket, Saved, Ports
<1>5. \A x \in Int : x % UpPorts \in Ports
    BY <1>1 DEF Ports
<1>6. m.src \in Int /\ m.dst \in Int /\ flow.id \in Int
    <2>1. m.src \in 0 .. LastHost /\ m.dst \in 0 .. LastHost
        BY PacketEnds
    <2>2. flow.id \in FlowId
        BY DEF TypeOK
    <2>3. QED
        BY <2>1, <2>2, RoutingAssumption
<1>7. HashPort(m, from, c) \in Ports
    <2>1. c + Calls - 1 \in Int /\ m.src + m.dst + flow.id \in Int
        BY <1>1, <1>2, <1>6
    <2>2. (c + Calls - 1) % UpPorts \in Ports /\ (m.src + m.dst + flow.id) % UpPorts \in Ports
        BY <1>5, <2>1
    <2>3. load_balancing = 3 => Saved(m, from) \in Ports
        BY <1>3
    <2>4. QED
        BY <1>1, <2>2, <2>3 DEF HashPort
<1>8. QED
    BY <1>3, <1>4, <1>7 DEF Up

LEMMA MovedKeeps ==
    ASSUME TypeOK, NEW m, IsPacket(m), NEW p1 \in Ports, NEW p2 \in Ports, Keeps(m, p1, p2),
           NEW q, q = Last(m.path), EndOf(q)[1] # "host", NEW up,
           IF GoesUp(m, q[1][1]) THEN up \in Ports ELSE up = 0,
           GoesUp(m, q[1][1]) /\ m.type = "data" /\ m.port # -1 => up = Saved(m, q[1][1])
    PROVE  LET n == Moved(m, q[1][1], EndOf(q), up)
           IN  \E r1, r2 \in Ports : Keeps(n, r1, r2)
<1> DEFINE from == q[1][1]
           to == EndOf(q)
           n == Moved(m, from, to, up)
           k == Len(m.path)
           next == << to, NextPort(m, from, to[1], up) >>
<1>1. m.src \in 0 .. LastHost /\ m.dst \in 0 .. LastHost /\ topology \in Topology
    BY PacketEnds DEF TypeOK
<1>2. /\ m.path \in Seq(Nodes \X Int) /\ k \in 1 .. Hops(m)
      /\ \A i \in 1 .. k : m.path[i] = Place(m, p1, p2, i)
      /\ m.type \in {"sim", "data"} /\ m.port # -1 => p1 = m.port /\ p2 = m.port_l2
    BY DEF Keeps
<1>3. q = Place(m, p1, p2, k)
    BY <1>2 DEF Last
<1>4. Hops(m) \in {2, 4, 6} /\ EndOf(Place(m, p1, p2, Hops(m)))[1] = "host"
    BY <1>1, WayOf
<1>5. k \in 1 .. Hops(m) - 1
    BY <1>2, <1>3, <1>4
<1>6. \A r1, r2 \in Ports : LeadsOn(m, r1, r2, k)
    BY <1>1, <1>5, WayOf
<1>7. /\ from = "host" <=> k = 1
      /\ GoesUp(m, from) <=> k \in {1, 2} /\ Hops(m) > 2 * k
    BY <1>3, <1>6 DEF LeadsOn
<1> DEFINE r1 == IF GoesUp(m, from) /\ k = 1 THEN up ELSE p1
           r2 == IF GoesUp(m, from) /\ k # 1 THEN up ELSE p2
<1>8. r1 \in Ports /\ r2 \in Ports
    OBVIOUS
<1>9. \A i \in 1 .. k : Place(m, r1, r2, i) = Place(m, p1, p2, i)
    <2>1. CASE ~GoesUp(m, from)
        BY <2>1
    <2>2. CASE GoesUp(m, from) /\ k = 1
        <3>1. Place(m, r1, r2, 1) = Place(m, p1, p2, 1)
            BY <1>1, <1>8, WayOf
        <3>2. QED
            BY <2>2, <3>1
    <2>3. CASE GoesUp(m, from) /\ k = 2
        <3>1. Place(m, r1, r2, 1) = Place(m, p1, p2, 1)
            BY <1>1, <1>8, WayOf
        <3>2. r1 = p1
            BY <2>3
        <3>3. Place(m, p1, r2, 2) = Place(m, p1, p2, 2)
            BY <1>1, <1>8, WayOf
        <3>4. \A i \in 1 .. k : i = 1 \/ i = 2
            BY <2>3
        <3>5. QED
            BY <3>1, <3>2, <3>3, <3>4
    <2>4. QED
        BY <1>7, <2>1, <2>2, <2>3
<1>10. Place(m, r1, r2, k) = q
    BY <1>3, <1>5, <1>9
<1>11. Chosen(m, from, r1, r2) = up
    BY <1>7 DEF Chosen
<1>12. Place(m, r1, r2, k + 1) = next
    <2>1. LeadsOn(m, r1, r2, k)
        BY <1>6, <1>8
    <2>2. QED
        BY <1>10, <1>11, <2>1 DEF LeadsOn
<1>13. next \in Nodes \X Int
    <2>1. k + 1 \in 1 .. Hops(m)
        BY <1>4, <1>5
    <2>2. Place(m, r1, r2, k + 1) \in Nodes \X Int
        BY <1>1, <1>8, <2>1, PlaceIsQueue
    <2>3. QED
        BY <1>12, <2>2
<1>14. /\ n.type = m.type /\ n.src = m.src /\ n.dst = m.dst /\ n.path = Append(m.path, next)
       /\ n.port = IF IsSns /\ m.type = "sim" /\ GoesUp(m, from) /\ from = "host" THEN up ELSE m.port
       /\ n.port_l2 = IF IsSns /\ m.type = "sim" /\ GoesUp(m, from) /\ from # "host" THEN up ELSE m.port_l2
    <2>1. n.type = m.type /\ n.src = m.src /\ n.dst = m.dst
        BY MovedFields
    <2>2. n.path = Append(m.path, next)
        BY MovedFields
    <2>3. n.port = IF IsSns /\ m.type = "sim" /\ GoesUp(m, from) /\ from = "host" THEN up ELSE m.port
        BY MovedFields
    <2>4. n.port_l2 = IF IsSns /\ m.type = "sim" /\ GoesUp(m, from) /\ from # "host" THEN up ELSE m.port_l2
        BY MovedFields
    <2>5. QED
        BY <2>1, <2>2, <2>3, <2>4
<1> HIDE DEF n
<1>15. Hops(n) = Hops(m) /\ \A i : Place(n, r1, r2, i) = Place(m, r1, r2, i)
    <2>1. n.src = m.src /\ n.dst = m.dst
        BY <1>14
    <2>2. Hops(n) = Hops(m) /\ \A a, b, i : Place(n, a, b, i) = Place(m, a, b, i)
        BY <2>1, SameEnds
    <2>3. QED
        BY <2>2
<1>16. n.type \in {"sim", "data"} /\ n.port # -1 => r1 = n.port /\ r2 = n.port_l2
    <2>1. CASE m.type = "sim"
        <3>1. IsSns /\ m.port # -1
            BY <2>1 DEF IsPacket, Ports
        <3>2. QED
            BY <1>2, <1>7, <1>14, <2>1, <3>1
    <2>2. CASE m.type = "data"
        BY <1>2, <1>7, <1>14, <2>2 DEF Saved
    <2>3. QED
        BY <1>14, <2>1, <2>2
<1> HIDE DEF next, r1, r2, from, to
<1>17. /\ n.path \in Seq(Nodes \X Int) /\ Len(n.path) = k + 1
       /\ \A i \in 1 .. k : n.path[i] = m.path[i]
       /\ n.path[k + 1] = next
    BY <1>2, <1>13, <1>14, AppendProperties
<1>18. \A i \in 1 .. k + 1 : n.path[i] = Place(n, r1, r2, i)
    <2>1. \A i \in 1 .. k + 1 : i \in 1 .. k \/ i = k + 1
        BY <1>2, <1>4
    <2>2. QED
        BY <1>2, <1>9, <1>12, <1>15, <1>17, <2>1
<1>19. Len(n.path) \in 1 .. Hops(n)
    BY <1>4, <1>5, <1>15, <1>17
<1>20. Keeps(n, r1, r2)
    BY <1>16, <1>17, <1>18, <1>19 DEF Keeps
<1>21. QED
    BY <1>8, <1>20 DEF n, from, to

-----------------------------------------------------------------------------
(* The invariant                                                           *)

\* What depends on the network alone.
LEMMA SameNetwork ==
    ASSUME topology' = topology
    PROVE  /\ LastHost' = LastHost /\ (IsSns' <=> IsSns) /\ Ports' = Ports
           /\ \A q : EndOf(q)' = EndOf(q)
           /\ \A m : Hops(m)' = Hops(m)
           /\ \A m, p1, p2, i : Place(m, p1, p2, i)' = Place(m, p1, p2, i)
           /\ \A m, p1, p2 : Keeps(m, p1, p2)' <=> Keeps(m, p1, p2)
<1>1. LastHost' = LastHost /\ (IsSns' <=> IsSns) /\ (IsTree' <=> IsTree)
    BY DEF LastHost, IsSns, IsTree
<1>2. Ports' = Ports
    BY <1>1 DEF Ports, UpPorts
<1>3. \A m : Hops(m)' = Hops(m)
    BY <1>1 DEF Hops
<1>4. \A m, p1, p2, i : Place(m, p1, p2, i)' = Place(m, p1, p2, i)
    <2>1. \A m, p1, p2, i : TreePlace(m, p1, p2, i)' = TreePlace(m, p1, p2, i)
        BY <1>1, <1>3 DEF TreePlace
    <2>2. \A m, p1, i : LeafPlace(m, p1, i)' = LeafPlace(m, p1, i)
        BY <1>1, <1>3 DEF LeafPlace
    <2>3. QED
        BY <1>1, <2>1, <2>2 DEF Place
<1>5. \A m, p1, p2 : Keeps(m, p1, p2)' <=> Keeps(m, p1, p2)
    BY <1>3, <1>4 DEF Keeps
<1>6. \A q : EndOf(q)' = EndOf(q)
    BY DEF EndOf
<1>7. QED
    BY <1>1, <1>2, <1>3, <1>4, <1>5, <1>6

LEMMA InitInv == Init => RoutingInv
<1> SUFFICES ASSUME Init PROVE RoutingInv
    OBVIOUS
<1>1. net = {} /\ arrived = {} /\ sent = 0 /\ topology \in Topology /\ load_balancing \in LoadBalancing
    BY DEF Init
<1>2. flow \in [ id : FlowId, src : 0 .. LastHost, dst : 0 .. LastHost ] /\ flow.src # flow.dst
    BY DEF Init
<1>3. \A q \in DOMAIN spray : spray[q] \in Ports
    BY DEF Init
<1>4. TypeOK
    BY <1>1, <1>2, <1>3 DEF TypeOK
<1>5. QED
    BY <1>1, <1>4 DEF RoutingInv, OnTheWay, SimOnce, PortsCarried

\* A packet where it starts has every way before it.
LEMMA NewPacketKeeps ==
    ASSUME topology \in Topology, NEW type, NEW id, NEW src \in 0 .. LastHost, NEW dst \in 0 .. LastHost,
           NEW port, NEW port_l2, NEW p1 \in Ports, NEW p2 \in Ports,
           type \in {"sim", "data"} /\ port # -1 => p1 = port /\ p2 = port_l2
    PROVE  Keeps(NewPacket(type, id, src, dst, port, port_l2), p1, p2)
<1> DEFINE n == NewPacket(type, id, src, dst, port, port_l2)
           q == << << "host", src >>, 0 >>
<1>1. n.type = type /\ n.src = src /\ n.dst = dst /\ n.port = port /\ n.port_l2 = port_l2 /\ n.path = << q >>
    BY DEF NewPacket
<1> HIDE DEF n
<1>2. Place(n, p1, p2, 1) = q /\ Hops(n) \in {2, 4, 6}
    BY <1>1, WayOf
<1>3. q \in Nodes \X Int
    BY DEF Nodes
<1> HIDE DEF q
<1>4. << q >> \in Seq(Nodes \X Int) /\ Len(<< q >>) = 1 /\ << q >>[1] = q
    BY <1>3
<1>5. QED
    BY <1>1, <1>2, <1>4 DEF Keeps, n

LEMMA NewPacketIs ==
    ASSUME NEW type, NEW id, NEW src, NEW dst, NEW port, NEW port_l2
    PROVE  LET n == NewPacket(type, id, src, dst, port, port_l2)
           IN  /\ n = [ type |-> n.type, id |-> n.id, src |-> n.src, dst |-> n.dst, port |-> n.port,
                        port_l2 |-> n.port_l2, path |-> n.path ]
               /\ n.type = type /\ n.id = id /\ n.src = src /\ n.dst = dst /\ n.port = port /\ n.port_l2 = port_l2
BY DEF NewPacket

LEMMA StartKeeps == RoutingInv /\ Start => RoutingInv'
<1> SUFFICES ASSUME RoutingInv, Start PROVE RoutingInv'
    OBVIOUS
<1>1. TypeOK /\ OnTheWay /\ SimOnce /\ PortsCarried
    BY DEF RoutingInv
<1>2. /\ topology' = topology /\ load_balancing' = load_balancing /\ flow' = flow /\ spray' = spray
      /\ arrived' = arrived /\ sent' = sent + 1 /\ sent \in Nat
    BY <1>1 DEF Start, TypeOK
<1>3. PICK n : /\ net' = net \cup {n}
               /\ \/ IsSns /\ n = NewPacket("sim", sent + 1, flow.src, flow.dst, 0, 0)
                  \/ n = NewPacket("data", sent + 1, flow.src, flow.dst, -1, -1)
    BY DEF Start
<1>4. /\ n = [ type |-> n.type, id |-> n.id, src |-> n.src, dst |-> n.dst, port |-> n.port,
               port_l2 |-> n.port_l2, path |-> n.path ]
      /\ n.id = sent + 1 /\ n.src = flow.src /\ n.dst = flow.dst
      /\ \/ IsSns /\ n.type = "sim" /\ n.port = 0 /\ n.port_l2 = 0
         \/ n.type = "data" /\ n.port = -1 /\ n.port_l2 = -1
    BY <1>3, NewPacketIs
<1>5. flow.src \in 0 .. LastHost /\ flow.dst \in 0 .. LastHost
    BY <1>1 DEF TypeOK
<1>6. UpPorts \in Nat \ {0} /\ 0 \in Ports
    BY UpPortsPositive DEF Ports
<1>7. Keeps(n, 0, 0)
    <2>1. topology \in Topology
        BY <1>1 DEF TypeOK
    <2>2. CASE n = NewPacket("sim", sent + 1, flow.src, flow.dst, 0, 0)
        BY <1>5, <1>6, <2>1, <2>2, NewPacketKeeps
    <2>3. CASE n = NewPacket("data", sent + 1, flow.src, flow.dst, -1, -1)
        BY <1>5, <1>6, <2>1, <2>3, NewPacketKeeps
    <2>4. QED
        BY <1>3, <2>2, <2>3
<1>8. net' \cup arrived' = (net \cup arrived) \cup {n}
    BY <1>2, <1>3
<1>9. \A m \in net \cup arrived : IsPacket(m) /\ m.id \in 1 .. sent /\ m.id # n.id
    BY <1>1, <1>2, <1>4 DEF TypeOK, IsPacket
<1>10. TypeOK'
    <2>1. \A m \in net \cup arrived : IsPacket(m)'
        BY <1>2, <1>9, SameNetwork DEF IsPacket
    <2>2. IsPacket(n)'
        <3>1. n.id \in 1 .. sent'
            BY <1>2, <1>4
        <3>2. \/ n.type \in {"sim", "data"} /\ n.src = flow'.src /\ n.dst = flow'.dst
              \/ n.type \in {"sim_ack", "ack"} /\ n.src = flow'.dst /\ n.dst = flow'.src
            BY <1>2, <1>4
        <3>3. \/ IsSns' /\ n.type # "ack" /\ n.port \in Ports' /\ n.port_l2 \in Ports'
              \/ n.type \in {"data", "ack"} /\ n.port = -1 /\ n.port_l2 = -1
            BY <1>2, <1>4, <1>6, SameNetwork
        <3>4. QED
            BY <1>4, <3>1, <3>2, <3>3 DEF IsPacket
    <2>3. QED
        BY <1>1, <1>2, <1>8, <2>1, <2>2, SameNetwork DEF TypeOK
<1>11. OnTheWay'
    <2>1. n \notin arrived
        BY <1>9
    <2>2. \A m \in net' \cup arrived' : load_balancing # 3 \/ m.port # -1 =>
             /\ \E p1, p2 \in Ports : Keeps(m, p1, p2)
             /\ m \in arrived' => Len(m.path) = Hops(m)
        BY <1>1, <1>2, <1>6, <1>7, <1>8, <2>1 DEF OnTheWay
    <2>3. QED
        BY <1>2, <2>2, SameNetwork DEF OnTheWay
<1>12. SimOnce'
    <2>1. SUFFICES ASSUME NEW s \in net' \cup arrived', s.type = "sim"
                   PROVE  /\ s \notin net' \cap arrived'
                          /\ \A m \in net' \cup arrived' : m.id = s.id =>
                                (m.type = "sim" => m = s) /\ (m.type = "data" => m.port # -1)
        BY DEF SimOnce
    <2>2. CASE s = n
        <3>1. n \notin arrived /\ n.type = "sim"
            BY <1>9, <2>1, <2>2
        <3>2. QED
            BY <1>2, <1>8, <1>9, <2>2, <3>1
    <2>3. CASE s \in net \cup arrived
        <3>1. /\ s \notin net \cap arrived
              /\ \A m \in net \cup arrived : m.id = s.id =>
                    (m.type = "sim" => m = s) /\ (m.type = "data" => m.port # -1)
            BY <1>1, <2>1, <2>3 DEF SimOnce
        <3>2. s # n
            BY <1>9, <2>3
        <3>3. s \notin net' \cap arrived'
            BY <1>2, <1>3, <3>1, <3>2
        <3>4. QED
            BY <1>8, <1>9, <2>3, <3>1, <3>3
    <2>4. QED
        BY <1>8, <2>1, <2>2, <2>3
<1>13. PortsCarried'
    BY <1>1, <1>2, <1>4, <1>8 DEF PortsCarried
<1>14. QED
    BY <1>10, <1>11, <1>12, <1>13 DEF RoutingInv

LEMMA ForwardKeeps == ASSUME RoutingInv, NEW m \in net, Forward(m) PROVE RoutingInv'
<1> DEFINE q == Last(m.path)
           from == q[1][1]
           to == EndOf(q)
<1>1. TypeOK /\ OnTheWay /\ SimOnce /\ PortsCarried
    BY DEF RoutingInv
<1>2. /\ topology' = topology /\ load_balancing' = load_balancing /\ flow' = flow /\ sent' = sent
      /\ arrived' = arrived /\ to[1] # "host" /\ IsPacket(m)
    BY <1>1 DEF Forward, TypeOK
<1>3. UpPorts \in Nat \ {0} /\ 0 \in Ports /\ Calls \in Int
    BY UpPortsPositive DEF Ports
<1>4. (\A x \in DOMAIN spray : spray[x] \in Ports)'
    <2>1. CASE GoesUp(m, from)
        <3>1. PICK c \in Counter(q) :
                 spray' = IF load_balancing = 0
                          THEN [p \in DOMAIN spray \cup {q} |-> IF p = q THEN (c + Calls) % UpPorts ELSE spray[p]]
                          ELSE spray
            BY <2>1 DEF Forward
        <3>2. c \in Int
            BY <1>1, <1>3 DEF Counter, TypeOK, Ports
        <3>3. (c + Calls) % UpPorts \in Ports
            BY <1>3, <3>2 DEF Ports
        <3>4. \A x \in DOMAIN spray' : spray'[x] \in Ports
            BY <1>1, <3>1, <3>3 DEF TypeOK
        <3>5. QED
            BY <1>2, <3>4, SameNetwork
    <2>2. CASE ~GoesUp(m, from)
        <3>1. spray' = spray
            BY <2>2 DEF Forward
        <3>2. QED
            BY <1>1, <1>2, <3>1, SameNetwork DEF TypeOK
    <2>3. QED
        BY <2>1, <2>2
<1>5. PICK up : /\ net' = (net \ {m}) \cup {Moved(m, from, to, up)}
                /\ load_balancing # 3 \/ m.port # -1 =>
                      /\ IF GoesUp(m, from) THEN up \in Ports ELSE up = 0
                      /\ GoesUp(m, from) /\ m.type = "data" /\ m.port # -1 => up = Saved(m, from)
    <2>1. CASE GoesUp(m, from)
        <3>1. PICK c \in Counter(q) : net' = (net \ {m}) \cup {Moved(m, from, to, Up(m, from, c))}
            BY <2>1 DEF Forward
        <3>2. load_balancing # 3 \/ m.port # -1 =>
                 /\ Up(m, from, c) \in Ports
                 /\ m.type = "data" /\ m.port # -1 => Up(m, from, c) = Saved(m, from)
            BY <1>1, <1>2, UpIsPort
        <3>3. QED
            BY <2>1, <3>1, <3>2
    <2>2. CASE ~GoesUp(m, from)
        BY <2>2 DEF Forward
    <2>3. QED
        BY <2>1, <2>2
<1> DEFINE n == Moved(m, from, to, up)
<1>6. /\ n = [ type |-> n.type, id |-> n.id, src |-> n.src, dst |-> n.dst, port |-> n.port,
               port_l2 |-> n.port_l2, path |-> n.path ]
      /\ n.type = m.type /\ n.id = m.id /\ n.src = m.src /\ n.dst = m.dst
      /\ m.type # "sim" => n.port = m.port /\ n.port_l2 = m.port_l2
      /\ n.port \in {m.port} \cup (IF m.type = "sim" /\ GoesUp(m, from) THEN {up} ELSE {})
      /\ n.port_l2 \in {m.port_l2} \cup (IF m.type = "sim" /\ GoesUp(m, from) THEN {up} ELSE {})
    BY <1>2, MovedFields
<1>7. m.type = "sim" => IsSns /\ m.port # -1 /\ m.port \in Ports /\ m.port_l2 \in Ports
    BY <1>2, <1>3 DEF IsPacket, Ports
<1>8. m.type = "sim" => n.port \in Ports /\ n.port_l2 \in Ports
    BY <1>5, <1>6, <1>7
<1>9. \A x \in Ports : x # -1
    BY <1>3 DEF Ports
<1>10. n.port # -1 <=> m.port # -1
    BY <1>6, <1>7, <1>8, <1>9
<1>11. load_balancing # 3 \/ m.port # -1 => \E r1, r2 \in Ports : Keeps(n, r1, r2)
    <2>1. SUFFICES ASSUME load_balancing # 3 \/ m.port # -1 PROVE \E r1, r2 \in Ports : Keeps(n, r1, r2)
        OBVIOUS
    <2>2. PICK p1, p2 \in Ports : Keeps(m, p1, p2)
        BY <1>1, <2>1 DEF OnTheWay
    <2>3. /\ IF GoesUp(m, q[1][1]) THEN up \in Ports ELSE up = 0
          /\ GoesUp(m, q[1][1]) /\ m.type = "data" /\ m.port # -1 => up = Saved(m, q[1][1])
        BY <1>5, <2>1
    <2>4. TypeOK /\ IsPacket(m) /\ EndOf(q)[1] # "host" /\ q = Last(m.path)
        BY <1>1, <1>2
    <2>5. QED
        BY <2>2, <2>3, <2>4, MovedKeeps
<1>12. IsPacket(n)
    <2>1. /\ m.id \in 1 .. sent
          /\ \/ m.type \in {"sim", "data"} /\ m.src = flow.src /\ m.dst = flow.dst
             \/ m.type \in {"sim_ack", "ack"} /\ m.src = flow.dst /\ m.dst = flow.src
        BY <1>2 DEF IsPacket
    <2>2. \/ IsSns /\ m.type # "ack" /\ m.port \in Ports /\ m.port_l2 \in Ports
          \/ m.type \in {"data", "ack"} /\ m.port = -1 /\ m.port_l2 = -1
        BY <1>2 DEF IsPacket
    <2>3. \/ IsSns /\ n.type # "ack" /\ n.port \in Ports /\ n.port_l2 \in Ports
          \/ n.type \in {"data", "ack"} /\ n.port = -1 /\ n.port_l2 = -1
        BY <1>6, <1>7, <1>8, <2>2
    <2>4. QED
        BY <1>6, <2>1, <2>3 DEF IsPacket
<1> HIDE DEF n, q, from, to
<1>13. net' = (net \ {m}) \cup {n}
    BY <1>5 DEF n
<1>14. TypeOK'
    <2>1. \A x \in net' \cup arrived' : IsPacket(x)
        BY <1>1, <1>2, <1>12, <1>13 DEF TypeOK
    <2>2. \A x \in net' \cup arrived' : IsPacket(x)'
        BY <1>2, <2>1, SameNetwork DEF IsPacket
    <2>3. QED
        BY <1>1, <1>2, <1>4, <2>2, SameNetwork DEF TypeOK
<1>15. OnTheWay'
    <2>1. ASSUME NEW x \in net' \cup arrived', load_balancing # 3 \/ x.port # -1
          PROVE  /\ \E p1, p2 \in Ports : Keeps(x, p1, p2)
                 /\ x \in arrived' => Len(x.path) = Hops(x)
        <3>1. CASE x \in net \cup arrived
            BY <1>1, <1>2, <2>1, <3>1 DEF OnTheWay
        <3>2. CASE x \notin net \cup arrived
            <4>1. x = n /\ x \notin arrived'
                BY <1>2, <1>13, <2>1, <3>2
            <4>2. QED
                BY <1>10, <1>11, <2>1, <4>1
        <3>3. QED
            BY <3>1, <3>2
    <2>2. QED
        BY <1>2, <2>1, SameNetwork DEF OnTheWay
<1>16. \A s \in net \cup arrived : s.type = "sim" =>
          /\ s \notin net \cap arrived
          /\ \A x \in net \cup arrived : x.id = s.id => (x.type = "sim" => x = s) /\ (x.type = "data" => x.port # -1)
    BY <1>1 DEF SimOnce
<1>17. SimOnce'
    <2>1. SUFFICES ASSUME NEW s \in net' \cup arrived', s.type = "sim"
                   PROVE  /\ s \notin net' \cap arrived'
                          /\ \A x \in net' \cup arrived' : x.id = s.id =>
                                (x.type = "sim" => x = s) /\ (x.type = "data" => x.port # -1)
        BY DEF SimOnce
    <2>2. CASE s = n
        <3>1. m.type = "sim" /\ m \in net \cup arrived
            BY <1>6, <2>1, <2>2
        <3>2. m \notin arrived /\ \A x \in net \cup arrived : x.id = m.id =>
                 (x.type = "sim" => x = m) /\ (x.type = "data" => x.port # -1)
            BY <1>16, <3>1
        <3>3. n \notin arrived
            <4>1. SUFFICES ASSUME n \in arrived PROVE FALSE
                OBVIOUS
            <4>2. n = m
                BY <1>6, <3>1, <3>2, <4>1
            <4>3. QED
                BY <3>2, <4>1, <4>2
        <3>4. \A x \in net' \cup arrived' : x = n \/ (x \in net \cup arrived /\ x # m)
            BY <1>2, <1>13, <3>2
        <3>5. QED
            BY <1>2, <1>6, <2>2, <3>1, <3>2, <3>3, <3>4
    <2>3. CASE s # n
        <3>1. s \in net \cup arrived /\ (s \in arrived \/ s # m)
            BY <1>2, <1>13, <2>1, <2>3
        <3>2. s \notin net \cap arrived /\ \A x \in net \cup arrived : x.id = s.id =>
                 (x.type = "sim" => x = s) /\ (x.type = "data" => x.port # -1)
            BY <1>16, <2>1, <3>1
        <3>3. s # m
            BY <3>1, <3>2
        <3>4. s \notin net' \cap arrived'
            BY <1>2, <1>13, <2>3, <3>2
        <3>5. n.id = s.id => n.type # "sim" /\ (n.type = "data" => n.port # -1)
            BY <1>6, <1>10, <3>2, <3>3
        <3>6. \A x \in net' \cup arrived' : x = n \/ x \in net \cup arrived
            BY <1>2, <1>13
        <3>7. QED
            BY <3>2, <3>4, <3>5, <3>6
    <2>4. QED
        BY <2>2, <2>3
<1>18. PortsCarried'
    <2>1. \A x \in net \cup arrived : x.type \in {"sim_ack", "data"} /\ x.port # -1 =>
             \E s \in arrived : s.type = "sim" /\ s.id = x.id /\ s.port = x.port /\ s.port_l2 = x.port_l2
        BY <1>1 DEF PortsCarried
    <2>2. n.type \in {"sim_ack", "data"} /\ n.port # -1 =>
             \E s \in arrived : s.type = "sim" /\ s.id = n.id /\ s.port = n.port /\ s.port_l2 = n.port_l2
        BY <1>6, <2>1
    <2>3. \A x \in net' \cup arrived' : x = n \/ x \in net \cup arrived
        BY <1>2, <1>13
    <2>4. QED
        BY <1>2, <2>1, <2>2, <2>3 DEF PortsCarried
<1>19. QED
    BY <1>14, <1>15, <1>17, <1>18 DEF RoutingInv

LEMMA ArriveKeeps == ASSUME RoutingInv, NEW m \in net, Arrive(m) PROVE RoutingInv'
<1>1. TypeOK /\ OnTheWay /\ SimOnce /\ PortsCarried
    BY DEF RoutingInv
<1>2. /\ topology' = topology /\ load_balancing' = load_balancing /\ flow' = flow /\ sent' = sent
      /\ spray' = spray /\ arrived' = arrived \cup {m} /\ net' = (net \ {m}) \cup Answer(m)
      /\ EndOf(Last(m.path))[1] = "host" /\ IsPacket(m)
    BY <1>1 DEF Arrive, TypeOK
<1>3. UpPorts \in Nat \ {0} /\ 0 \in Ports /\ \A x \in Ports : x # -1
    BY UpPortsPositive DEF Ports
<1>4. topology \in Topology /\ m.src \in 0 .. LastHost /\ m.dst \in 0 .. LastHost
    BY <1>1, <1>2, PacketEnds DEF TypeOK
<1>5. m.type \in {"sim", "sim_ack", "data", "ack"}
    BY <1>2 DEF IsPacket
<1>6. m.type \in {"sim", "sim_ack"} => IsSns /\ m.port \in Ports /\ m.port_l2 \in Ports
    BY <1>2 DEF IsPacket
\* The answer.
<1>7. ASSUME NEW n \in Answer(m)
      PROVE  /\ n = [ type |-> n.type, id |-> n.id, src |-> n.src, dst |-> n.dst, port |-> n.port,
                      port_l2 |-> n.port_l2, path |-> n.path ]
             /\ n.id = m.id /\ n.src = m.dst /\ n.dst = m.src
             /\ \/ m.type = "sim" /\ n.type = "sim_ack" /\ n.port = m.port /\ n.port_l2 = m.port_l2
                \/ m.type = "sim_ack" /\ n.type = "data" /\ n.port = m.port /\ n.port_l2 = m.port_l2
                \/ m.type = "data" /\ n.type = "ack" /\ n.port = -1 /\ n.port_l2 = -1
             /\ \E p1, p2 \in Ports : Keeps(n, p1, p2)
    <2>1. CASE m.type = "sim"
        <3>1. n = NewPacket("sim_ack", m.id, m.dst, m.src, m.port, m.port_l2)
            BY <2>1 DEF Answer
        <3>2. Keeps(n, 0, 0)
            BY <1>3, <1>4, <3>1, NewPacketKeeps
        <3>3. QED
            BY <1>3, <2>1, <3>1, <3>2, NewPacketIs
    <2>2. CASE m.type = "sim_ack"
        <3>1. n = NewPacket("data", m.id, m.dst, m.src, m.port, m.port_l2)
            BY <2>2 DEF Answer
        <3>2. m.port \in Ports /\ m.port_l2 \in Ports
            BY <1>6, <2>2
        <3>3. Keeps(n, m.port, m.port_l2)
            BY <1>4, <3>1, <3>2, NewPacketKeeps
        <3>4. QED
            BY <2>2, <3>1, <3>2, <3>3, NewPacketIs
    <2>3. CASE m.type = "data"
        <3>1. n = NewPacket("ack", m.id, m.dst, m.src, -1, -1)
            BY <2>3 DEF Answer
        <3>2. Keeps(n, 0, 0)
            BY <1>3, <1>4, <3>1, NewPacketKeeps
        <3>3. QED
            BY <1>3, <2>3, <3>1, <3>2, NewPacketIs
    <2>4. CASE m.type = "ack"
        BY <2>4 DEF Answer
    <2>5. QED
        BY <1>5, <2>1, <2>2, <2>3, <2>4
<1>8. \A x \in net' \cup arrived' : x \in net \cup arrived \/ x \in Answer(m)
    BY <1>2
<1>9. \A x : x \in net \cup arrived => x \in net' \cup arrived'
    BY <1>2
\* It has come to its end.
<1>10. load_balancing # 3 \/ m.port # -1 => Len(m.path) = Hops(m)
    <2>1. SUFFICES ASSUME load_balancing # 3 \/ m.port # -1 PROVE Len(m.path) = Hops(m)
        OBVIOUS
    <2>2. PICK p1, p2 \in Ports : Keeps(m, p1, p2)
        BY <1>1, <2>1 DEF OnTheWay
    <2>3. Last(m.path) = Place(m, p1, p2, Len(m.path)) /\ Len(m.path) \in 1 .. Hops(m)
        BY <2>2 DEF Keeps, Last
    <2>4. Hops(m) \in {2, 4, 6} /\ \A i \in 1 .. Hops(m) - 1 : LeadsOn(m, p1, p2, i)
        BY <1>4, WayOf
    <2>5. \A i \in 1 .. Hops(m) - 1 : EndOf(Place(m, p1, p2, i))[1] # "host"
        BY <2>4 DEF LeadsOn
    <2>6. Len(m.path) \notin 1 .. Hops(m) - 1
        BY <1>2, <2>3, <2>5
    <2>7. QED
        BY <2>3, <2>4, <2>6
<1>11. TypeOK'
    <2>1. ASSUME NEW x \in net' \cup arrived' PROVE IsPacket(x)
        <3>1. CASE x \in net \cup arrived
            BY <1>1, <3>1 DEF TypeOK
        <3>2. CASE x \in Answer(m)
            <4>1. m.id \in 1 .. sent
                BY <1>2 DEF IsPacket
            <4>2. \/ m.type \in {"sim", "data"} /\ m.src = flow.src /\ m.dst = flow.dst
                  \/ m.type \in {"sim_ack", "ack"} /\ m.src = flow.dst /\ m.dst = flow.src
                BY <1>2 DEF IsPacket
            <4>3. /\ x = [ type |-> x.type, id |-> x.id, src |-> x.src, dst |-> x.dst, port |-> x.port,
                           port_l2 |-> x.port_l2, path |-> x.path ]
                  /\ x.id = m.id /\ x.src = m.dst /\ x.dst = m.src
                  /\ \/ m.type = "sim" /\ x.type = "sim_ack" /\ x.port = m.port /\ x.port_l2 = m.port_l2
                     \/ m.type = "sim_ack" /\ x.type = "data" /\ x.port = m.port /\ x.port_l2 = m.port_l2
                     \/ m.type = "data" /\ x.type = "ack" /\ x.port = -1 /\ x.port_l2 = -1
                BY <1>7, <3>2
            <4>4. \/ x.type \in {"sim", "data"} /\ x.src = flow.src /\ x.dst = flow.dst
                  \/ x.type \in {"sim_ack", "ack"} /\ x.src = flow.dst /\ x.dst = flow.src
                BY <4>2, <4>3
            <4>5. \/ IsSns /\ x.type # "ack" /\ x.port \in Ports /\ x.port_l2 \in Ports
                  \/ x.type \in {"data", "ack"} /\ x.port = -1 /\ x.port_l2 = -1
                BY <1>6, <4>3
            <4>6. QED
                BY <4>1, <4>3, <4>4, <4>5 DEF IsPacket
        <3>3. QED
            BY <1>8, <3>1, <3>2
    <2>2. \A x \in net' \cup arrived' : IsPacket(x)'
        BY <1>2, <2>1, SameNetwork DEF IsPacket
    <2>3. QED
        BY <1>1, <1>2, <2>2, SameNetwork DEF TypeOK
<1>12. OnTheWay'
    <2>1. ASSUME NEW x \in net' \cup arrived', load_balancing # 3 \/ x.port # -1
          PROVE  /\ \E p1, p2 \in Ports : Keeps(x, p1, p2)
                 /\ x \in arrived' => Len(x.path) = Hops(x)
        <3>1. CASE x \in net \cup arrived
            <4>1. x \in arrived' => x \in arrived \/ x = m
                BY <1>2
            <4>2. QED
                BY <1>1, <1>10, <2>1, <3>1, <4>1 DEF OnTheWay
        <3>2. CASE x \notin net \cup arrived
            <4>1. x \in Answer(m) /\ x \notin arrived'
                BY <1>2, <1>8, <2>1, <3>2
            <4>2. QED
                BY <1>7, <4>1
        <3>3. QED
            BY <3>1, <3>2
    <2>2. QED
        BY <1>2, <2>1, SameNetwork DEF OnTheWay
<1>13. SimOnce'
    <2>1. SUFFICES ASSUME NEW s \in net' \cup arrived', s.type = "sim"
                   PROVE  /\ s \notin net' \cap arrived'
                          /\ \A x \in net' \cup arrived' : x.id = s.id =>
                                (x.type = "sim" => x = s) /\ (x.type = "data" => x.port # -1)
        BY DEF SimOnce
    <2>2. \A x \in Answer(m) : x.type # "sim" /\ (x.type = "data" => x.port # -1)
        BY <1>3, <1>6, <1>7
    <2>3. s \in net \cup arrived
        BY <1>8, <2>1, <2>2
    <2>4. s \notin net \cap arrived /\ \A x \in net \cup arrived : x.id = s.id =>
             (x.type = "sim" => x = s) /\ (x.type = "data" => x.port # -1)
        BY <1>1, <2>1, <2>3 DEF SimOnce
    <2>5. s \notin net' \cap arrived'
        BY <1>2, <2>1, <2>2, <2>4
    <2>6. QED
        BY <1>8, <2>2, <2>4, <2>5
<1>14. PortsCarried'
    <2>1. SUFFICES ASSUME NEW x \in net' \cup arrived', x.type \in {"sim_ack", "data"}, x.port # -1
                   PROVE  \E s \in arrived' : s.type = "sim" /\ s.id = x.id /\ s.port = x.port /\ s.port_l2 = x.port_l2
        BY DEF PortsCarried
    <2>2. CASE x \in net \cup arrived
        BY <1>1, <1>2, <2>1, <2>2 DEF PortsCarried
    <2>3. CASE x \in Answer(m) /\ m.type = "sim"
        BY <1>2, <1>7, <2>3
    <2>4. CASE x \in Answer(m) /\ m.type = "sim_ack"
        <3>1. m.port # -1 /\ x.id = m.id /\ x.port = m.port /\ x.port_l2 = m.port_l2
            BY <1>3, <1>6, <1>7, <2>4
        <3>2. PICK s \in arrived : s.type = "sim" /\ s.id = m.id /\ s.port = m.port /\ s.port_l2 = m.port_l2
            BY <1>1, <2>4, <3>1 DEF PortsCarried
        <3>3. QED
            BY <1>2, <3>1, <3>2
    <2>5. CASE x \in Answer(m) /\ m.type \notin {"sim", "sim_ack"}
        BY <1>7, <2>1, <2>5
    <2>6. QED
        BY <1>8, <2>1, <2>2, <2>3, <2>4, <2>5
<1>15. QED
    BY <1>11, <1>12, <1>13, <1>14 DEF RoutingInv

LEMMA StepKeeps == RoutingInv /\ [Next]_vars => RoutingInv'
<1> SUFFICES ASSUME RoutingInv, [Next]_vars PROVE RoutingInv'
    OBVIOUS
<1>1. CASE Start
    BY <1>1, StartKeeps
<1>2. CASE \E m \in net : Forward(m) \/ Arrive(m)
    BY <1>2, ForwardKeeps, ArriveKeeps
<1>3. CASE UNCHANGED vars
    <2>1. topology' = topology /\ load_balancing' = load_balancing /\ flow' = flow /\ sent' = sent
          /\ spray' = spray /\ arrived' = arrived /\ net' = net
        BY <1>3 DEF vars
    <2>2. TypeOK' <=> TypeOK
        BY <2>1, SameNetwork DEF TypeOK, IsPacket
    <2>3. OnTheWay' <=> OnTheWay
        BY <2>1, SameNetwork DEF OnTheWay
    <2>4. (SimOnce' <=> SimOnce) /\ (PortsCarried' <=> PortsCarried)
        BY <2>1 DEF SimOnce, PortsCarried
    <2>5. QED
        BY <2>2, <2>3, <2>4 DEF RoutingInv
<1>4. QED
    BY <1>1, <1>2, <1>3 DEF Next

\* Every packet is of the flow and on the way that its ports give, an exchange has one SIM,
\* and SIM_ACK and DATA carry the ports of theirs: in fat trees of every arity and leaf-spine
\* networks of every size, for any number of exchanges, under each way of load balancing.
THEOREM RoutingInvariant == Spec => []RoutingInv
<1>1. Init => RoutingInv
    BY InitInv
<1>2. RoutingInv /\ [Next]_vars => RoutingInv'
    BY StepKeeps
<1>3. QED
    BY <1>1, <1>2, PTL DEF Spec

\* Type correctness.
THEOREM RoutingTypes == Spec => []TypeOK
<1>1. RoutingInv => TypeOK
    BY DEF RoutingInv
<1>2. QED
    BY <1>1, RoutingInvariant, PTL

\* The assertions of get_next_hop_inner on the destination and on the number of hops hold
\* wherever load balancing computes the port.
THEOREM PacketsArrive == Spec => []NoneAstray
<1>1. RoutingInv => NoneAstray
    <2> SUFFICES ASSUME RoutingInv, load_balancing # 3
                 PROVE  (\A m \in arrived : AtItsEnd(m)) /\ (\A m \in net : Len(m.path) <= Hops(m))
        BY DEF NoneAstray
    <2>1. TypeOK /\ OnTheWay
        BY DEF RoutingInv
    <2>2. ASSUME NEW m \in net \cup arrived
          PROVE  Len(m.path) <= Hops(m) /\ (m \in arrived => AtItsEnd(m))
        <3>1. PICK p1, p2 \in Ports : Keeps(m, p1, p2)
            BY <2>1 DEF OnTheWay
        <3>2. m \in arrived => Len(m.path) = Hops(m)
            BY <2>1 DEF OnTheWay
        <3>3. Last(m.path) = Place(m, p1, p2, Len(m.path)) /\ Len(m.path) \in 1 .. Hops(m)
            BY <3>1 DEF Keeps, Last
        <3>4. topology \in Topology /\ m.src \in 0 .. LastHost /\ m.dst \in 0 .. LastHost
            BY <2>1, PacketEnds DEF TypeOK
        <3>5. Hops(m) \in {2, 4, 6} /\ EndOf(Place(m, p1, p2, Hops(m))) = << "host", m.dst >>
            BY <3>4, WayOf
        <3>6. QED
            BY <3>2, <3>3, <3>5 DEF AtItsEnd
    <2>3. QED
        BY <2>2
<1>2. QED
    BY <1>1, RoutingInvariant, PTL

\* DATA goes along the path of the SIM of its exchange: the reservations that the SIM made are
\* those that the DATA uses, queue by queue.
THEOREM DataFollowsSim == Spec => []DataOnSimPath
<1>1. RoutingInv => DataOnSimPath
    <2> SUFFICES ASSUME RoutingInv, NEW d \in net \cup arrived, NEW s \in arrived,
                        d.type = "data", s.type = "sim", d.id = s.id
                 PROVE  IsPrefix(d.path, s.path)
        BY DEF DataOnSimPath
    <2>1. TypeOK /\ OnTheWay /\ SimOnce /\ PortsCarried
        BY DEF RoutingInv
    <2>2. d.port # -1
        BY <2>1 DEF SimOnce
    <2>3. d.port = s.port /\ d.port_l2 = s.port_l2
        <3>1. PICK r \in arrived : r.type = "sim" /\ r.id = d.id /\ r.port = d.port /\ r.port_l2 = d.port_l2
            BY <2>1, <2>2 DEF PortsCarried
        <3>2. r = s
            BY <2>1, <3>1 DEF SimOnce
        <3>3. QED
            BY <3>1, <3>2
    <2>4. d.src = s.src /\ d.dst = s.dst
        <3>1. IsPacket(d) /\ IsPacket(s)
            BY <2>1 DEF TypeOK
        <3>2. d.src = flow.src /\ d.dst = flow.dst /\ s.src = flow.src /\ s.dst = flow.dst
            BY <3>1 DEF IsPacket
        <3>3. QED
            BY <3>2
    <2>5. Hops(d) = Hops(s) /\ \A p1, p2, i : Place(d, p1, p2, i) = Place(s, p1, p2, i)
        BY <2>4, SameEnds
    <2>6. Keeps(d, d.port, d.port_l2)
        <3>1. PICK p1, p2 \in Ports : Keeps(d, p1, p2)
            BY <2>1, <2>2 DEF OnTheWay
        <3>2. p1 = d.port /\ p2 = d.port_l2
            BY <2>2, <3>1 DEF Keeps
        <3>3. QED
            BY <3>1, <3>2
    <2>7. Keeps(s, s.port, s.port_l2) /\ Len(s.path) = Hops(s)
        <3>1. s.port # -1
            BY <2>2, <2>3
        <3>2. PICK p1, p2 \in Ports : Keeps(s, p1, p2)
            BY <2>1, <3>1 DEF OnTheWay
        <3>3. p1 = s.port /\ p2 = s.port_l2
            BY <3>1, <3>2 DEF Keeps
        <3>4. Len(s.path) = Hops(s)
            BY <2>1, <3>1 DEF OnTheWay
        <3>5. QED
            BY <3>2, <3>3, <3>4
    <2> DEFINE Q == Nodes \X Int
               a == d.path
               b == s.path
    <2>8. a \in Seq(Q) /\ b \in Seq(Q) /\ Len(a) <= Len(b) /\ \A i \in 1 .. Len(a) : a[i] = b[i]
        <3>1. a \in Seq(Q) /\ Len(a) \in 1 .. Hops(d) /\ \A i \in 1 .. Len(a) : a[i] = Place(d, d.port, d.port_l2, i)
            BY <2>6 DEF Keeps
        <3>2. b \in Seq(Q) /\ Len(b) = Hops(d) /\ \A i \in 1 .. Len(b) : b[i] = Place(d, d.port, d.port_l2, i)
            BY <2>3, <2>5, <2>7 DEF Keeps
        <3>3. QED
            BY <3>1, <3>2
    <2> HIDE DEF Q, a, b
    <2>9. SubSeq(a, 1, Len(a)) = SubSeq(b, 1, Len(a))
        <3>1. Len(a) \in Nat /\ Len(b) \in Nat /\ (\A i \in 1 .. Len(a) : a[i] \in Q /\ b[i] \in Q)
            BY <2>8
        <3>2. /\ SubSeq(a, 1, Len(a)) \in Seq(Q) /\ Len(SubSeq(a, 1, Len(a))) = Len(a)
              /\ \A i \in 1 .. Len(a) : SubSeq(a, 1, Len(a))[i] = a[i]
            BY <3>1, SubSeqProperties
        <3>3. /\ SubSeq(b, 1, Len(a)) \in Seq(Q) /\ Len(SubSeq(b, 1, Len(a))) = Len(a)
              /\ \A i \in 1 .. Len(a) : SubSeq(b, 1, Len(a))[i] = b[i]
            BY <3>1, SubSeqProperties
        <3>4. \A i \in 1 .. Len(a) : SubSeq(a, 1, Len(a))[i] = SubSeq(b, 1, Len(a))[i]
            BY <2>8, <3>2, <3>3
        <3>5. QED
            BY <3>2, <3>3, <3>4, SeqEqual
    <2>10. IsPrefix(a, b)
        BY <2>8, <2>9 DEF IsPrefix
    <2>11. QED
        BY <2>10 DEF a, b
<1>2. QED
    BY <1>1, RoutingInvariant, PTL

-----------------------------------------------------------------------------
(* Links in pairs                                                          *)

LEMMA QueueIs ==
    ASSUME NEW q
    PROVE  q \in Queues <=>
             \/ q \in ToArbiterQueues
             \/ \E kind \in IF IsTree THEN {"host", "edge", "agg", "core"} ELSE {"host", "agg", "core"} :
                   \E i \in Switches(kind), j \in IF IsTree THEN FtPorts(kind) ELSE LsPorts(kind) :
                      q = << << kind, i >>, j >>
BY DEF Queues

\* The queues of a tree, by pods and places.
LEMMA TreeQueues ==
    ASSUME IsTree
    PROVE  /\ \A h \in 0 .. LastHost : << << "host", h >>, 0 >> \in Queues
           /\ \A pod \in 0 .. K - 1, place, j \in 0 .. Half - 1 :
                 /\ << << "edge", pod * Half + place >>, j >> \in Queues
                 /\ << << "edge", pod * Half + place >>, Half + j >> \in Queues
                 /\ << << "agg", pod * Half + place >>, j >> \in Queues
                 /\ << << "agg", pod * Half + place >>, Half + j >> \in Queues
                 /\ << << "core", Core(place, j) >>, pod >> \in Queues
           /\ ~IsSns => << << "edge", 0 >>, ToArbiter >> \in Queues
<1>1. /\ Switches("host") = 0 .. LastHost /\ Switches("edge") = 0 .. FtSwitches - 1
      /\ Switches("agg") = 0 .. FtSwitches - 1 /\ Switches("core") = 0 .. FtCores - 1
    BY DEF Switches
<1>2. /\ FtPorts("host") = {0} /\ FtPorts("edge") = 0 .. K - 1
      /\ FtPorts("agg") = 0 .. K - 1 /\ FtPorts("core") = 0 .. K - 1
    BY DEF FtPorts
<1>3. \A kind \in {"host", "edge", "agg", "core"} : \A i, j : i \in Switches(kind) /\ j \in FtPorts(kind)
         => << << kind, i >>, j >> \in Queues
    BY QueueIs
<1>4. ASSUME NEW pod \in 0 .. K - 1, NEW place \in 0 .. Half - 1, NEW j \in 0 .. Half - 1
      PROVE  /\ pod * Half + place \in 0 .. FtSwitches - 1 /\ j \in 0 .. K - 1 /\ Half + j \in 0 .. K - 1
             /\ Core(place, j) \in 0 .. FtCores - 1
    <2>1. pod * Half + place \in 0 .. FtSwitches - 1
        BY TreeSwitch
    <2>2. Core(place, j) \in 0 .. FtCores - 1
        BY TreeCore DEF Core
    <2>3. QED
        BY <2>1, <2>2, TreeNumbers
<1>5. ~IsSns => << << "edge", 0 >>, ToArbiter >> \in Queues
    BY QueueIs DEF ToArbiterQueues
<1>6. QED
    BY <1>1, <1>2, <1>3, <1>4, <1>5

LEMMA TreeQueueForms ==
    ASSUME IsTree, NEW q \in Queues
    PROVE  \/ \E h \in 0 .. LastHost : q = << << "host", h >>, 0 >>
           \/ \E pod \in 0 .. K - 1, place, j \in 0 .. Half - 1 :
                 \/ q = << << "edge", pod * Half + place >>, j >>
                 \/ q = << << "edge", pod * Half + place >>, Half + j >>
                 \/ q = << << "agg", pod * Half + place >>, j >>
                 \/ q = << << "agg", pod * Half + place >>, Half + j >>
                 \/ q = << << "core", Core(place, j) >>, pod >>
           \/ ~IsSns /\ q = << << "edge", 0 >>, ToArbiter >>
<1>1. CASE q \in ToArbiterQueues
    BY <1>1 DEF ToArbiterQueues
<1>2. CASE q \notin ToArbiterQueues
    <2>1. PICK kind \in {"host", "edge", "agg", "core"} :
             \E i \in Switches(kind), j \in FtPorts(kind) : q = << << kind, i >>, j >>
        BY <1>2, QueueIs
    <2>2. PICK i \in Switches(kind), j \in FtPorts(kind) : q = << << kind, i >>, j >>
        BY <2>1
    <2>3. CASE kind = "host"
        BY <2>2, <2>3 DEF Switches, FtPorts
    <2>4. CASE kind \in {"edge", "agg"}
        <3>1. i \in 0 .. FtSwitches - 1 /\ j \in 0 .. K - 1
            BY <2>4 DEF Switches, FtPorts
        <3>2. PICK pod \in 0 .. K - 1, place \in 0 .. Half - 1 : i = pod * Half + place
            <4>1. i \in Nat /\ i < K * Half /\ K \in Nat /\ Half \in Nat \ {0}
                BY <3>1, TreeNumbers
            <4>2. i \div Half \in 0 .. K - 1
                BY <4>1, DivBelow
            <4>3. i % Half \in 0 .. Half - 1 /\ i = (i \div Half) * Half + (i % Half)
                BY <4>1, TreeNumbers, DivMod
            <4>4. QED
                BY <4>2, <4>3
        <3>3. j \in 0 .. Half - 1 \/ (j - Half \in 0 .. Half - 1 /\ j = Half + (j - Half))
            BY <3>1, TreeNumbers
        <3>4. QED
            BY <2>2, <2>4, <3>2, <3>3
    <2>5. CASE kind = "core"
        <3>1. i \in 0 .. FtCores - 1 /\ j \in 0 .. K - 1
            BY <2>5 DEF Switches, FtPorts
        <3>2. i \in Nat /\ i < Half * Half
            BY <3>1, TreeNumbers
        <3>3. i \div Half \in 0 .. Half - 1
            BY <3>2, TreeNumbers, DivBelow
        <3>4. i % Half \in 0 .. Half - 1 /\ i = (i \div Half) * Half + (i % Half)
            BY <3>2, TreeNumbers, DivMod
        <3>5. i = IF IsSns THEN Core(i % Half, i \div Half) ELSE Core(i \div Half, i % Half)
            BY <3>4 DEF Core
        <3>6. QED
            BY <2>2, <2>5, <3>1, <3>3, <3>4, <3>5
    <2>6. QED
        BY <2>1, <2>3, <2>4, <2>5
<1>3. QED
    BY <1>1, <1>2

\* There is a way back.
Back(q) == \E back \in Queues : back[1] = EndOf(q) /\ EndOf(back) = q[1]

LEMMA BackIs == ASSUME NEW q, NEW back \in Queues, back[1] = EndOf(q), EndOf(back) = q[1] PROVE Back(q)
BY DEF Back

LEMMA TreeBack == ASSUME IsTree, NEW q \in Queues PROVE Back(q)
<1>1. FtHosts \in Nat /\ Half \in Nat \ {0} /\ LastHost = IF IsSns THEN FtHosts - 1 ELSE FtHosts
    BY TreeNumbers DEF LastHost
<1>2. ASSUME NEW h \in 0 .. LastHost, q = << << "host", h >>, 0 >> PROVE Back(q)
    <2>1. EndOf(q) = << "edge", FtRack(h) >> /\ q[1] = << "host", h >>
        BY <1>2, TreeHostLink
    <2>2. CASE h # FtArbiter
        <3> DEFINE back == << << "edge", FtRack(h) >>, h % Half >>
        <3>1. h \in 0 .. FtHosts
            BY <1>1
        <3>2. /\ FtPod(h) \in 0 .. K - 1 /\ FtRack(h) % Half \in 0 .. Half - 1 /\ h % Half \in 0 .. Half - 1
              /\ FtRack(h) = FtPod(h) * Half + (FtRack(h) % Half) /\ h = FtRack(h) * Half + (h % Half)
            BY <2>2, <3>1, TreeHosts
        <3>3. << << "edge", FtPod(h) * Half + (FtRack(h) % Half) >>, h % Half >> \in Queues
            BY <3>2, TreeQueues
        <3>4. EndOf(<< << "edge", FtPod(h) * Half + (FtRack(h) % Half) >>, h % Half >>)
                = << "host", (FtPod(h) * Half + (FtRack(h) % Half)) * Half + (h % Half) >>
            BY <3>2, TreeEdgeLinks
        <3>5. back \in Queues /\ EndOf(back) = << "host", h >> /\ back[1] = << "edge", FtRack(h) >>
            BY <3>2, <3>3, <3>4
        <3>6. QED
            BY <2>1, <3>5, BackIs
    <2>3. CASE h = FtArbiter
        <3> DEFINE back == << << "edge", 0 >>, ToArbiter >>
        <3>1. ~IsSns /\ FtRack(h) = 0
            BY <1>1, <2>3 DEF FtRack, FtArbiter
        <3>2. topology = "FatTree"
            BY <3>1 DEF IsTree, IsSns
        <3>3. back \in Queues /\ back[1] = << "edge", 0 >> /\ EndOf(back) = << "host", FtArbiter >>
            BY <3>1, <3>2, TreeQueues DEF EndOf, FatTreeLink
        <3>4. QED
            BY <2>1, <2>3, <3>1, <3>3, BackIs
    <2>4. QED
        BY <2>2, <2>3
<1>3. ASSUME NEW pod \in 0 .. K - 1, NEW place \in 0 .. Half - 1, NEW j \in 0 .. Half - 1,
             q = << << "edge", pod * Half + place >>, j >>
      PROVE  Back(q)
    <2> DEFINE i == pod * Half + place
               h == i * Half + j
               back == << << "host", h >>, 0 >>
    <2>1. i \in 0 .. FtSwitches - 1
        BY TreeSwitch
    <2>2. EndOf(q) = << "host", h >> /\ q[1] = << "edge", i >>
        BY <1>3, TreeEdgeLinks
    <2> HIDE DEF i
    <2>3. h \in 0 .. FtHosts - 1 /\ h \div Half = i
        BY <1>1, <2>1, TreeNumbers, ComposedBelow, DivModUnique
    <2> HIDE DEF h
    <2>4. h \in 0 .. LastHost /\ FtRack(h) = i
        BY <1>1, <2>3 DEF FtRack, FtArbiter
    <2>5. back \in Queues /\ back[1] = << "host", h >> /\ EndOf(back) = << "edge", i >>
        BY <2>4, TreeQueues, TreeHostLink
    <2>6. QED
        BY <2>2, <2>5, BackIs
<1>4. ASSUME NEW pod \in 0 .. K - 1, NEW place \in 0 .. Half - 1, NEW j \in 0 .. Half - 1,
             \/ q = << << "edge", pod * Half + place >>, Half + j >>
             \/ q = << << "agg", pod * Half + place >>, j >>
             \/ q = << << "agg", pod * Half + place >>, Half + j >>
             \/ q = << << "core", Core(place, j) >>, pod >>
      PROVE  Back(q)
    <2>1. CASE q = << << "edge", pod * Half + place >>, Half + j >>
        <3> DEFINE back == << << "agg", pod * Half + j >>, place >>
        <3>1. back \in Queues /\ EndOf(q) = << "agg", pod * Half + j >> /\ EndOf(back) = << "edge", pod * Half + place >>
            BY <2>1, TreeQueues, TreeEdgeLinks, TreeAggLinks
        <3>2. QED
            BY <2>1, <3>1, BackIs
    <2>2. CASE q = << << "agg", pod * Half + place >>, j >>
        <3> DEFINE back == << << "edge", pod * Half + j >>, Half + place >>
        <3>1. back \in Queues /\ EndOf(q) = << "edge", pod * Half + j >> /\ EndOf(back) = << "agg", pod * Half + place >>
            BY <2>2, TreeQueues, TreeEdgeLinks, TreeAggLinks
        <3>2. QED
            BY <2>2, <3>1, BackIs
    <2>3. CASE q = << << "agg", pod * Half + place >>, Half + j >>
        <3> DEFINE back == << << "core", Core(place, j) >>, pod >>
        <3>1. back \in Queues /\ EndOf(q) = << "core", Core(place, j) >> /\ EndOf(back) = << "agg", pod * Half + place >>
            BY <2>3, TreeQueues, TreeAggLinks, TreeCoreLink
        <3>2. QED
            BY <2>3, <3>1, BackIs
    <2>4. CASE q = << << "core", Core(place, j) >>, pod >>
        <3> DEFINE back == << << "agg", pod * Half + place >>, Half + j >>
        <3>1. back \in Queues /\ EndOf(q) = << "agg", pod * Half + place >> /\ EndOf(back) = << "core", Core(place, j) >>
            BY <2>4, TreeQueues, TreeAggLinks, TreeCoreLink
        <3>2. QED
            BY <2>4, <3>1, BackIs
    <2>5. QED
        BY <1>4, <2>1, <2>2, <2>3, <2>4
<1>5. ASSUME ~IsSns, q = << << "edge", 0 >>, ToArbiter >> PROVE Back(q)
    <2> DEFINE back == << << "host", FtArbiter >>, 0 >>
    <2>1. FtArbiter \in 0 .. LastHost /\ FtRack(FtArbiter) = 0 /\ topology = "FatTree"
        BY <1>1, <1>5 DEF FtArbiter, FtRack, IsTree, IsSns
    <2>2. back \in Queues /\ EndOf(back) = << "edge", 0 >>
        BY <2>1, TreeQueues, TreeHostLink
    <2>3. EndOf(q) = << "host", FtArbiter >>
        BY <1>5, <2>1 DEF EndOf, FatTreeLink
    <2>4. QED
        BY <1>5, <2>2, <2>3, BackIs
<1>6. QED
    BY <1>2, <1>3, <1>4, <1>5, TreeQueueForms

\* No two queues of a node lead to the same node.
LEMMA SameSwitch ==
    ASSUME NEW pod \in 0 .. K - 1, NEW place \in 0 .. Half - 1, NEW d \in 0 .. K - 1, NEW x \in 0 .. Half - 1,
           d * Half + x = pod * Half + place
    PROVE  d = pod /\ x = place
<1>1. (pod * Half + place) \div Half = pod /\ (pod * Half + place) % Half = place
    BY TreeSwitch
<1>2. (d * Half + x) \div Half = d /\ (d * Half + x) % Half = x
    BY TreeSwitch
<1>3. QED
    BY <1>1, <1>2

\* The queues of an edge and of an agg switch, of which q is one.
LEMMA TreeQueuesOf ==
    ASSUME IsTree, NEW q \in Queues, NEW kind, NEW pod \in 0 .. K - 1, NEW place \in 0 .. Half - 1,
           kind \in {"edge", "agg"}, q[1] = << kind, pod * Half + place >>
    PROVE  \/ \E j \in 0 .. Half - 1 : q = << << kind, pod * Half + place >>, j >>
                                    \/ q = << << kind, pod * Half + place >>, Half + j >>
           \/ kind = "edge" /\ ~IsSns /\ q = << << "edge", 0 >>, ToArbiter >>
<1>1. CASE kind = "edge" /\ ~IsSns /\ q = << << "edge", 0 >>, ToArbiter >>
    BY <1>1
<1>2. ASSUME NEW d \in 0 .. K - 1, NEW x \in 0 .. Half - 1, NEW j \in 0 .. Half - 1,
             \/ q = << << "edge", d * Half + x >>, j >>
             \/ q = << << "edge", d * Half + x >>, Half + j >>
             \/ q = << << "agg", d * Half + x >>, j >>
             \/ q = << << "agg", d * Half + x >>, Half + j >>
      PROVE  \/ q = << << kind, pod * Half + place >>, j >>
             \/ q = << << kind, pod * Half + place >>, Half + j >>
    BY <1>2
<1>3. QED
    BY <1>1, <1>2, TreeQueueForms

LEMMA TreeOnce ==
    ASSUME IsTree, NEW q \in Queues, NEW other \in Queues, other[1] = q[1]
    PROVE  EndOf(other) = EndOf(q) => other = q
<1>1. Half \in Nat \ {0} /\ FtHosts \in Nat /\ FtHosts = FtSwitches * Half /\ FtSwitches \in Nat
    BY TreeNumbers
<1>2. ASSUME NEW h \in 0 .. LastHost, q = << << "host", h >>, 0 >> PROVE EndOf(other) = EndOf(q) => other = q
    BY <1>2, TreeQueueForms
\* Down from an edge switch, to a host that is not the arbiter.
<1>3. ASSUME NEW pod \in 0 .. K - 1, NEW place \in 0 .. Half - 1, NEW j \in 0 .. Half - 1,
             NEW r \in Queues, NEW s \in Queues, r[1] = s[1],
             s = << << "edge", pod * Half + place >>, j >>
      PROVE  EndOf(r) = EndOf(s) => r = s
    <2> DEFINE i == pod * Half + place
    <2>1. EndOf(s)[1] = "host" /\ EndOf(s)[2] = i * Half + j /\ r[1] = << "edge", i >>
        <3>1. EndOf(s) = << "host", i * Half + j >> /\ r[1] = << "edge", i >>
            BY <1>3, TreeEdgeLinks
        <3>2. EndOf(s)[1] = "host" /\ EndOf(s)[2] = i * Half + j
            BY <3>1
        <3>3. QED
            BY <3>1, <3>2
    <2>2. \/ \E x \in 0 .. Half - 1 : r = << << "edge", i >>, x >> \/ r = << << "edge", i >>, Half + x >>
          \/ ~IsSns /\ r = << << "edge", 0 >>, ToArbiter >>
        <3>1. r[1] = << "edge", pod * Half + place >>
            BY <1>3
        <3>2. QED
            BY <3>1, TreeQueuesOf
    <2>3. i \in 0 .. FtSwitches - 1
        BY TreeSwitch
    <2>4. \A x \in 0 .. Half - 1 : /\ EndOf(<< << "edge", i >>, x >>)[1] = "host"
                                   /\ EndOf(<< << "edge", i >>, x >>)[2] = i * Half + x
                                   /\ EndOf(<< << "edge", i >>, Half + x >>)[1] = "agg"
                                   /\ EndOf(<< << "edge", i >>, Half + x >>)[2] = pod * Half + x
        BY TreeEdgeLinks
    <2> HIDE DEF i
    <2>5. i * Half + j < FtHosts
        BY <1>1, <2>3, ComposedBelow
    <2>6. ~IsSns => EndOf(<< << "edge", 0 >>, ToArbiter >>) = << "host", FtArbiter >>
        BY DEF EndOf, FatTreeLink, IsTree, IsSns
    <2>7. \A x \in 0 .. Half - 1 : i * Half + x = i * Half + j => x = j
        <3>1. i * Half \in Nat
            BY <1>1, <2>3
        <3>2. QED
            BY <3>1
    <2>8. CASE \E x \in 0 .. Half - 1 : r = << << "edge", i >>, x >>
        <3>1. PICK x \in 0 .. Half - 1 : r = << << "edge", i >>, x >>
            BY <2>8
        <3>2. EndOf(r)[2] = i * Half + x /\ EndOf(s)[2] = i * Half + j
            BY <2>1, <2>4, <3>1
        <3>3. EndOf(r) = EndOf(s) => x = j
            BY <2>7, <3>2
        <3>4. QED
            BY <1>3, <3>1, <3>3 DEF i
    <2>9. CASE \E x \in 0 .. Half - 1 : r = << << "edge", i >>, Half + x >>
        <3>1. EndOf(r)[1] = "agg" /\ EndOf(s)[1] = "host"
            BY <2>1, <2>4, <2>9
        <3>2. QED
            BY <3>1
    <2>10. CASE ~IsSns /\ r = << << "edge", 0 >>, ToArbiter >>
        <3>1. EndOf(r) = EndOf(s) => FtArbiter = i * Half + j
            <4>1. EndOf(r)[2] = FtArbiter /\ EndOf(s)[2] = i * Half + j
                BY <2>1, <2>6, <2>10
            <4>2. QED
                BY <4>1
        <3>2. i * Half + j \in Nat
            BY <1>1, <2>3
        <3>3. QED
            BY <1>1, <2>5, <3>1, <3>2 DEF FtArbiter
    <2>11. QED
        BY <2>2, <2>8, <2>9, <2>10
\* Up from an edge switch.
<1>4. ASSUME NEW pod \in 0 .. K - 1, NEW place \in 0 .. Half - 1, NEW j \in 0 .. Half - 1,
             NEW r \in Queues, NEW s \in Queues, r[1] = s[1],
             s = << << "edge", pod * Half + place >>, Half + j >>
      PROVE  EndOf(r) = EndOf(s) => r = s
    <2> DEFINE i == pod * Half + place
    <2>1. EndOf(s)[1] = "agg" /\ EndOf(s)[2] = pod * Half + j /\ r[1] = << "edge", i >>
        <3>1. EndOf(s) = << "agg", pod * Half + j >> /\ r[1] = << "edge", i >>
            BY <1>4, TreeEdgeLinks
        <3>2. EndOf(s)[1] = "agg" /\ EndOf(s)[2] = pod * Half + j
            BY <3>1
        <3>3. QED
            BY <3>1, <3>2
    <2>2. \/ \E x \in 0 .. Half - 1 : r = << << "edge", i >>, x >> \/ r = << << "edge", i >>, Half + x >>
          \/ ~IsSns /\ r = << << "edge", 0 >>, ToArbiter >>
        <3>1. r[1] = << "edge", pod * Half + place >>
            BY <1>4
        <3>2. QED
            BY <3>1, TreeQueuesOf
    <2>3. \A x \in 0 .. Half - 1 : /\ EndOf(<< << "edge", i >>, x >>)[1] = "host"
                                   /\ EndOf(<< << "edge", i >>, x >>)[2] = i * Half + x
                                   /\ EndOf(<< << "edge", i >>, Half + x >>)[1] = "agg"
                                   /\ EndOf(<< << "edge", i >>, Half + x >>)[2] = pod * Half + x
        BY TreeEdgeLinks
    <2>4. ~IsSns => EndOf(<< << "edge", 0 >>, ToArbiter >>) = << "host", FtArbiter >>
        BY DEF EndOf, FatTreeLink, IsTree, IsSns
    <2>5. \A x \in 0 .. Half - 1 : pod * Half + x = pod * Half + j => x = j
        BY SameSwitch
    <2> HIDE DEF i
    <2>6. CASE \E x \in 0 .. Half - 1 : r = << << "edge", i >>, Half + x >>
        <3>1. PICK x \in 0 .. Half - 1 : r = << << "edge", i >>, Half + x >>
            BY <2>6
        <3>2. EndOf(r)[2] = pod * Half + x /\ EndOf(s)[2] = pod * Half + j
            BY <2>1, <2>3, <3>1
        <3>3. EndOf(r) = EndOf(s) => x = j
            BY <2>5, <3>2
        <3>4. QED
            BY <1>4, <3>1, <3>3 DEF i
    <2>7. CASE \E x \in 0 .. Half - 1 : r = << << "edge", i >>, x >>
        <3>1. EndOf(r)[1] = "host" /\ EndOf(s)[1] = "agg"
            BY <2>1, <2>3, <2>7
        <3>2. QED
            BY <3>1
    <2>8. CASE ~IsSns /\ r = << << "edge", 0 >>, ToArbiter >>
        <3>1. EndOf(r)[1] = "host" /\ EndOf(s)[1] = "agg"
            BY <2>1, <2>4, <2>8
        <3>2. QED
            BY <3>1
    <2>9. QED
        BY <2>2, <2>6, <2>7, <2>8
\* From an agg switch.
<1>5. ASSUME NEW pod \in 0 .. K - 1, NEW place \in 0 .. Half - 1, NEW j \in 0 .. Half - 1,
             \/ q = << << "agg", pod * Half + place >>, j >>
             \/ q = << << "agg", pod * Half + place >>, Half + j >>
      PROVE  EndOf(other) = EndOf(q) => other = q
    <2> DEFINE i == pod * Half + place
    <2>1. PICK x \in 0 .. Half - 1 : other = << << "agg", i >>, x >> \/ other = << << "agg", i >>, Half + x >>
        BY <1>5, TreeQueuesOf
    <2>2. \A y \in 0 .. Half - 1 : /\ EndOf(<< << "agg", i >>, y >>)[1] = "edge"
                                   /\ EndOf(<< << "agg", i >>, y >>)[2] = pod * Half + y
                                   /\ EndOf(<< << "agg", i >>, Half + y >>)[1] = "core"
                                   /\ EndOf(<< << "agg", i >>, Half + y >>)[2] = Core(place, y)
        BY TreeAggLinks
    <2>3. pod * Half + x = pod * Half + j => x = j
        BY SameSwitch
    <2>4. Core(place, x) = Core(place, j) => x = j
        <3>1. /\ (x * Half + place) \div Half = x /\ (j * Half + place) \div Half = j
              /\ (place * Half + x) % Half = x /\ (place * Half + j) % Half = j
            BY TreeCore
        <3>2. QED
            BY <3>1 DEF Core
    <2>5. CASE q = << << "agg", i >>, j >>
        BY <2>1, <2>2, <2>3, <2>5
    <2>6. CASE q = << << "agg", i >>, Half + j >>
        BY <2>1, <2>2, <2>4, <2>6
    <2>7. QED
        BY <1>5, <2>5, <2>6
\* From a core switch.
<1>6. ASSUME NEW pod \in 0 .. K - 1, NEW place \in 0 .. Half - 1, NEW j \in 0 .. Half - 1,
             q = << << "core", Core(place, j) >>, pod >>
      PROVE  EndOf(other) = EndOf(q) => other = q
    <2>1. PICK d \in 0 .. K - 1, x \in 0 .. Half - 1, y \in 0 .. Half - 1 : other = << << "core", Core(x, y) >>, d >>
        BY <1>6, TreeQueueForms
    <2>2. EndOf(q) = << "agg", pod * Half + place >> /\ EndOf(other) = << "agg", d * Half + x >>
        BY <1>6, <2>1, TreeCoreLink
    <2>3. EndOf(other) = EndOf(q) => d = pod
        BY <2>2, SameSwitch
    <2>4. QED
        BY <1>6, <2>1, <2>3
<1>7. ASSUME ~IsSns, q = << << "edge", 0 >>, ToArbiter >> PROVE EndOf(other) = EndOf(q) => other = q
    <2>1. 0 \in 0 .. K - 1 /\ 0 \in 0 .. Half - 1 /\ 0 * Half + 0 = 0
        BY TreeNumbers
    <2>2. other[1] = << "edge", 0 * Half + 0 >>
        BY <1>7, <2>1
    <2>3. \/ \E j \in 0 .. Half - 1 : \/ other = << << "edge", 0 * Half + 0 >>, j >>
                                      \/ other = << << "edge", 0 * Half + 0 >>, Half + j >>
          \/ ~IsSns /\ other = << << "edge", 0 >>, ToArbiter >>
        BY <2>1, <2>2, TreeQueuesOf
    <2>4. ASSUME NEW j \in 0 .. Half - 1, other = << << "edge", 0 * Half + 0 >>, j >> PROVE EndOf(other) = EndOf(q) => other = q
        BY <1>3, <2>1, <2>4
    <2>5. ASSUME NEW j \in 0 .. Half - 1, other = << << "edge", 0 * Half + 0 >>, Half + j >> PROVE EndOf(other) = EndOf(q) => other = q
        <3>1. EndOf(other) = << "agg", 0 * Half + j >>
            BY <2>1, <2>5, TreeEdgeLinks
        <3>2. EndOf(q) = << "host", FtArbiter >>
            BY <1>7 DEF EndOf, FatTreeLink, IsTree, IsSns
        <3>3. EndOf(other)[1] = "agg" /\ EndOf(q)[1] = "host"
            BY <3>1, <3>2
        <3>4. QED
            BY <3>3
    <2>6. QED
        BY <1>7, <2>3, <2>4, <2>5
<1>8. QED
    BY <1>2, <1>3, <1>4, <1>5, <1>6, <1>7, TreeQueueForms

\* Two tiers.
LEMMA LeafQueues ==
    ASSUME IsLeaf, NEW q
    PROVE  q \in Queues <=>
             \/ \E h \in 0 .. LastHost : q = << << "host", h >>, 0 >>
             \/ \E i \in 0 .. NumAgg - 1, j \in 0 .. HostsPerAgg + NumCore - 1 : q = << << "agg", i >>, j >>
             \/ \E i \in 0 .. NumCore - 1, j \in 0 .. NumAgg - 1 : q = << << "core", i >>, j >>
             \/ ~IsSns /\ q = << << "agg", 0 >>, ToArbiter >>
<1>1. ~IsTree
    BY DEF IsLeaf, IsTree
<1>2. /\ Switches("host") = 0 .. LastHost /\ Switches("agg") = 0 .. NumAgg - 1 /\ Switches("core") = 0 .. NumCore - 1
    BY <1>1 DEF Switches
<1>3. /\ LsPorts("host") = {0} /\ LsPorts("agg") = 0 .. HostsPerAgg + NumCore - 1 /\ LsPorts("core") = 0 .. NumAgg - 1
    BY DEF LsPorts
<1>4. q \in ToArbiterQueues <=> ~IsSns /\ q = << << "agg", 0 >>, ToArbiter >>
    BY <1>1 DEF ToArbiterQueues
<1>5. q \in Queues <=>
        \/ q \in ToArbiterQueues
        \/ \E kind \in {"host", "agg", "core"} : \E i \in Switches(kind), j \in LsPorts(kind) : q = << << kind, i >>, j >>
    BY <1>1, QueueIs
<1>6. (\E kind \in {"host", "agg", "core"} : \E i \in Switches(kind), j \in LsPorts(kind) : q = << << kind, i >>, j >>)
        <=> \/ \E i \in Switches("host"), j \in LsPorts("host") : q = << << "host", i >>, j >>
            \/ \E i \in Switches("agg"), j \in LsPorts("agg") : q = << << "agg", i >>, j >>
            \/ \E i \in Switches("core"), j \in LsPorts("core") : q = << << "core", i >>, j >>
    OBVIOUS
<1>7. QED
    BY <1>2, <1>3, <1>4, <1>5, <1>6

LEMMA LeafBack == ASSUME IsLeaf, NEW q \in Queues PROVE Back(q)
<1>1. /\ HostsPerAgg \in Nat \ {0} /\ NumHosts \in Nat /\ NumHosts = NumAgg * HostsPerAgg
      /\ NumAgg \in Nat \ {0} /\ NumCore \in Nat \ {0} /\ LastHost = IF IsSns THEN NumHosts - 1 ELSE NumHosts
    BY LeafNumbers, LeafSpineAssumption DEF LastHost, IsLeaf, IsTree
<1>2. ASSUME NEW h \in 0 .. LastHost, q = << << "host", h >>, 0 >> PROVE Back(q)
    <2>1. EndOf(q) = << "agg", LsRack(h) >> /\ q[1] = << "host", h >>
        BY <1>2, LeafLinks
    <2>2. CASE h # LsArbiter
        <3> DEFINE back == << << "agg", LsRack(h) >>, h % HostsPerAgg >>
        <3>1. h \in 0 .. NumHosts
            BY <1>1
        <3>2. /\ LsRack(h) \in 0 .. NumAgg - 1 /\ h % HostsPerAgg \in 0 .. HostsPerAgg - 1
              /\ h = LsRack(h) * HostsPerAgg + (h % HostsPerAgg)
            BY <2>2, <3>1, LeafHosts
        <3>3. h % HostsPerAgg \in 0 .. HostsPerAgg + NumCore - 1
            BY <1>1, <3>2
        <3>4. back \in Queues
            BY <3>2, <3>3, LeafQueues
        <3>5. LsRack(h) \in Nat /\ h % HostsPerAgg \in Nat /\ h % HostsPerAgg < HostsPerAgg
            BY <1>1, <3>2
        <3>6. EndOf(back) = << "host", LsRack(h) * HostsPerAgg + (h % HostsPerAgg) >>
            BY <3>5, LeafLinks
        <3>7. EndOf(back) = << "host", h >> /\ back[1] = << "agg", LsRack(h) >>
            BY <3>2, <3>6
        <3>8. QED
            BY <2>1, <3>4, <3>7, BackIs
    <2>3. CASE h = LsArbiter
        <3> DEFINE back == << << "agg", 0 >>, ToArbiter >>
        <3>1. ~IsSns /\ LsRack(h) = 0
            BY <1>1, <2>3 DEF LsRack, LsArbiter
        <3>2. topology = "LeafSpine" /\ ToArbiter = LsToArbiter
            BY <3>1 DEF IsLeaf, IsSns, ToArbiter, LsToArbiter
        <3>3. back \in Queues
            BY <3>1, LeafQueues
        <3>4. back[1] = << "agg", 0 >> /\ EndOf(back) = << "host", LsArbiter >>
            BY <3>2 DEF EndOf, LeafSpineLink
        <3>5. QED
            BY <2>1, <2>3, <3>1, <3>3, <3>4, BackIs
    <2>4. QED
        BY <2>2, <2>3
<1>3. ASSUME NEW i \in 0 .. NumAgg - 1, NEW j \in 0 .. HostsPerAgg + NumCore - 1, q = << << "agg", i >>, j >> PROVE Back(q)
    <2>1. i \in Nat /\ j \in Nat
        BY <1>1
    <2>2. CASE j < HostsPerAgg
        <3> DEFINE h == i * HostsPerAgg + j
                   back == << << "host", h >>, 0 >>
        <3>1. EndOf(q) = << "host", h >> /\ q[1] = << "agg", i >>
            BY <1>3, <2>1, <2>2, LeafLinks
        <3>2. j \in 0 .. HostsPerAgg - 1
            BY <1>1, <2>1, <2>2
        <3>3. h \in 0 .. NumHosts - 1 /\ h \div HostsPerAgg = i
            BY <1>1, <2>1, <3>2, ComposedBelow, DivModUnique
        <3> HIDE DEF h
        <3>4. h \in 0 .. LastHost /\ LsRack(h) = i
            BY <1>1, <3>3 DEF LsRack, LsArbiter
        <3>5. back \in Queues /\ back[1] = << "host", h >> /\ EndOf(back) = << "agg", i >>
            BY <3>4, LeafQueues, LeafLinks
        <3>6. QED
            BY <3>1, <3>5, BackIs
    <2>3. CASE ~(j < HostsPerAgg)
        <3> DEFINE c == j - HostsPerAgg
                   back == << << "core", c >>, i >>
        <3>1. EndOf(q) = << "core", c >> /\ q[1] = << "agg", i >>
            BY <1>3, <2>1, <2>3, LeafLinks
        <3>2. c \in 0 .. NumCore - 1 /\ c \in Nat
            BY <1>1, <2>1, <2>3
        <3> HIDE DEF c
        <3>3. back \in Queues /\ back[1] = << "core", c >> /\ EndOf(back) = << "agg", i >>
            BY <2>1, <3>2, LeafQueues, LeafLinks
        <3>4. QED
            BY <3>1, <3>3, BackIs
    <2>4. QED
        BY <2>2, <2>3
<1>4. ASSUME NEW i \in 0 .. NumCore - 1, NEW j \in 0 .. NumAgg - 1, q = << << "core", i >>, j >> PROVE Back(q)
    <2> DEFINE p == HostsPerAgg + i
               back == << << "agg", j >>, p >>
    <2>1. i \in Nat /\ j \in Nat /\ p \in 0 .. HostsPerAgg + NumCore - 1 /\ p \in Nat /\ ~(p < HostsPerAgg) /\ p - HostsPerAgg = i
        BY <1>1
    <2> HIDE DEF p
    <2>2. EndOf(q) = << "agg", j >> /\ q[1] = << "core", i >>
        BY <1>4, <2>1, LeafLinks
    <2>3. back \in Queues
        BY <2>1, LeafQueues
    <2>4. EndOf(back) = << "core", p - HostsPerAgg >>
        BY <2>1, LeafLinks
    <2>5. EndOf(back) = << "core", i >> /\ back[1] = << "agg", j >>
        BY <2>1, <2>4
    <2>6. QED
        BY <2>2, <2>3, <2>5, BackIs
<1>5. ASSUME ~IsSns, q = << << "agg", 0 >>, ToArbiter >> PROVE Back(q)
    <2> DEFINE back == << << "host", LsArbiter >>, 0 >>
    <2>1. LsArbiter \in 0 .. LastHost /\ LsRack(LsArbiter) = 0 /\ topology = "LeafSpine" /\ ToArbiter = LsToArbiter
        BY <1>1, <1>5 DEF LsArbiter, LsRack, IsLeaf, IsSns, ToArbiter, LsToArbiter
    <2>2. back \in Queues /\ EndOf(back) = << "agg", 0 >>
        BY <2>1, LeafQueues, LeafLinks
    <2>3. EndOf(q) = << "host", LsArbiter >>
        BY <1>5, <2>1 DEF EndOf, LeafSpineLink
    <2>4. QED
        BY <1>5, <2>2, <2>3, BackIs
<1>6. QED
    BY <1>2, <1>3, <1>4, <1>5, LeafQueues

LEMMA LeafOnce ==
    ASSUME IsLeaf, NEW q \in Queues, NEW other \in Queues, other[1] = q[1]
    PROVE  EndOf(other) = EndOf(q) => other = q
<1>1. /\ HostsPerAgg \in Nat \ {0} /\ NumHosts \in Nat /\ NumHosts = NumAgg * HostsPerAgg
      /\ NumAgg \in Nat \ {0} /\ NumCore \in Nat \ {0}
    BY LeafNumbers, LeafSpineAssumption
<1>2. ASSUME NEW h \in 0 .. LastHost, q = << << "host", h >>, 0 >> PROVE EndOf(other) = EndOf(q) => other = q
    BY <1>2, LeafQueues
\* Two ports of an agg switch, one of which may be the one to the arbiter.
<1>3. ASSUME NEW i \in 0 .. NumAgg - 1, NEW j \in 0 .. HostsPerAgg + NumCore - 1,
             NEW r \in Queues, NEW s \in Queues, r[1] = s[1], s = << << "agg", i >>, j >>
      PROVE  EndOf(r) = EndOf(s) => r = s
    <2>1. i \in Nat /\ j \in Nat /\ i * HostsPerAgg \in Nat
        BY <1>1
    <2>2. \/ \E x \in 0 .. HostsPerAgg + NumCore - 1 : r = << << "agg", i >>, x >>
          \/ ~IsSns /\ r = << << "agg", 0 >>, ToArbiter >>
        BY <1>3, LeafQueues
    <2>3. \A x \in Nat : /\ EndOf(<< << "agg", i >>, x >>)[1] = IF x < HostsPerAgg THEN "host" ELSE "core"
                         /\ x < HostsPerAgg => EndOf(<< << "agg", i >>, x >>)[2] = i * HostsPerAgg + x
                         /\ ~(x < HostsPerAgg) => EndOf(<< << "agg", i >>, x >>)[2] = x - HostsPerAgg
        <3>1. \A x \in Nat : EndOf(<< << "agg", i >>, x >>) =
                 IF x < HostsPerAgg THEN << "host", i * HostsPerAgg + x >> ELSE << "core", x - HostsPerAgg >>
            BY <2>1, LeafLinks
        <3>2. SUFFICES ASSUME NEW x \in Nat
                       PROVE  LET e == EndOf(<< << "agg", i >>, x >>)
                              IN  /\ e[1] = IF x < HostsPerAgg THEN "host" ELSE "core"
                                  /\ x < HostsPerAgg => e[2] = i * HostsPerAgg + x
                                  /\ ~(x < HostsPerAgg) => e[2] = x - HostsPerAgg
            OBVIOUS
        <3>3. CASE x < HostsPerAgg
            <4>1. EndOf(<< << "agg", i >>, x >>) = << "host", i * HostsPerAgg + x >>
                BY <3>1, <3>3
            <4>2. QED
                BY <3>3, <4>1
        <3>4. CASE ~(x < HostsPerAgg)
            <4>1. EndOf(<< << "agg", i >>, x >>) = << "core", x - HostsPerAgg >>
                BY <3>1, <3>4
            <4>2. QED
                BY <3>4, <4>1
        <3>5. QED
            BY <3>3, <3>4
    <2>4. CASE \E x \in 0 .. HostsPerAgg + NumCore - 1 : r = << << "agg", i >>, x >>
        <3>1. PICK x \in 0 .. HostsPerAgg + NumCore - 1 : r = << << "agg", i >>, x >>
            BY <2>4
        <3>2. x \in Nat
            BY <1>1
        <3>3. EndOf(r) = EndOf(s) => (x < HostsPerAgg <=> j < HostsPerAgg)
            BY <1>3, <2>1, <2>3, <3>1, <3>2
        <3>4. EndOf(r) = EndOf(s) /\ x < HostsPerAgg => i * HostsPerAgg + x = i * HostsPerAgg + j
            BY <1>3, <2>1, <2>3, <3>1, <3>2, <3>3
        <3>5. EndOf(r) = EndOf(s) /\ ~(x < HostsPerAgg) => x - HostsPerAgg = j - HostsPerAgg
            BY <1>3, <2>1, <2>3, <3>1, <3>2, <3>3
        <3>6. EndOf(r) = EndOf(s) => x = j
            BY <1>1, <2>1, <3>2, <3>4, <3>5
        <3>7. QED
            BY <1>3, <3>1, <3>6
    <2>5. CASE ~IsSns /\ r = << << "agg", 0 >>, ToArbiter >>
        <3>1. topology = "LeafSpine" /\ ToArbiter = LsToArbiter
            BY <2>5 DEF IsLeaf, IsSns, ToArbiter, LsToArbiter
        <3>2. EndOf(r) = << "host", LsArbiter >>
            BY <2>5, <3>1 DEF EndOf, LeafSpineLink
        <3>3. EndOf(r)[1] = "host" /\ EndOf(r)[2] = LsArbiter
            BY <3>2
        <3>4. EndOf(r) = EndOf(s) => j < HostsPerAgg /\ i * HostsPerAgg + j = LsArbiter
            BY <1>3, <2>1, <2>3, <3>3
        <3>5. j < HostsPerAgg => i * HostsPerAgg + j \in 0 .. NumAgg * HostsPerAgg - 1
            BY <1>1, <2>1, ComposedBelow
        <3>6. QED
            BY <1>1, <3>4, <3>5 DEF LsArbiter
    <2>6. QED
        BY <2>2, <2>4, <2>5
<1>4. ASSUME NEW i \in 0 .. NumCore - 1, NEW j \in 0 .. NumAgg - 1, q = << << "core", i >>, j >>
      PROVE  EndOf(other) = EndOf(q) => other = q
    <2>1. PICK x \in 0 .. NumAgg - 1 : other = << << "core", i >>, x >>
        BY <1>4, LeafQueues
    <2>2. \A y \in 0 .. NumAgg - 1 : EndOf(<< << "core", i >>, y >>)[2] = y
        <3>1. \A y \in 0 .. NumAgg - 1 : EndOf(<< << "core", i >>, y >>) = << "agg", y >>
            BY <1>1, LeafLinks
        <3>2. QED
            BY <3>1
    <2>3. EndOf(other) = EndOf(q) => x = j
        BY <1>4, <2>1, <2>2
    <2>4. QED
        BY <1>4, <2>1, <2>3
<1>5. ASSUME ~IsSns, q = << << "agg", 0 >>, ToArbiter >> PROVE EndOf(other) = EndOf(q) => other = q
    <2>1. \/ \E x \in 0 .. HostsPerAgg + NumCore - 1 : other = << << "agg", 0 >>, x >>
          \/ other = << << "agg", 0 >>, ToArbiter >>
        BY <1>5, LeafQueues
    <2>2. ASSUME NEW x \in 0 .. HostsPerAgg + NumCore - 1, other = << << "agg", 0 >>, x >>
          PROVE  EndOf(other) = EndOf(q) => other = q
        <3>1. 0 \in 0 .. NumAgg - 1
            BY <1>1
        <3>2. QED
            BY <1>3, <2>2, <3>1
    <2>3. QED
        BY <1>5, <2>1, <2>2
<1>6. QED
    BY <1>2, <1>3, <1>4, <1>5, LeafQueues

\* The constructors lay every link in both directions, and none twice: for each arity and each
\* size, in all four classes, with the arbiter where there is one.
THEOREM LinksArePaired == Spec => []LinksPaired
<1>1. RoutingInv => LinksPaired
    <2> SUFFICES ASSUME RoutingInv, NEW q \in Queues
                 PROVE  /\ Back(q)
                        /\ \A other \in Queues \ {q} : other[1] = q[1] => EndOf(other) # EndOf(q)
        BY DEF LinksPaired, Back
    <2>1. topology \in Topology
        BY DEF RoutingInv, TypeOK
    <2>2. CASE IsTree
        <3>1. \A other \in Queues \ {q} : other[1] = q[1] => EndOf(other) # EndOf(q)
            BY <2>2, TreeOnce
        <3>2. QED
            BY <2>2, <3>1, TreeBack
    <2>3. CASE ~IsTree
        <3>1. IsLeaf
            BY <2>1, <2>3, RoutingAssumption DEF IsTree, IsLeaf
        <3>2. \A other \in Queues \ {q} : other[1] = q[1] => EndOf(other) # EndOf(q)
            BY <3>1, LeafOnce
        <3>3. QED
            BY <3>1, <3>2, LeafBack
    <2>4. QED
        BY <2>2, <2>3
<1>2. QED
    BY <1>1, RoutingInvariant, PTL

-----------------------------------------------------------------------------
(* The pipeline of a flow, packet by packet and queue by queue             *)

\* A non-empty set of naturals has a least element.
LEMMA HasLeast ==
    ASSUME NEW s \in SUBSET Nat, s # {}
    PROVE  \E i \in s : \A j \in s : i <= j
<1>1. PICK i \in s : \A j \in s : ~ (<< j, i >> \in OpToRel(<, Nat))
    BY NatLessThanWellFounded, WFMin
<1>2. \A j \in s : ~ (j < i)
    BY <1>1 DEF OpToRel
<1>3. \A j \in s : i <= j
    BY <1>2
<1>4. QED
    BY <1>3

\* Packets by queues.
Cells(tp, f) == (1 .. Packets(f)) \X (1 .. NumHops(tp, f))

\* The value of a cell of Begin, from those before it.
Cell(b, p, tp, f, cut) ==
    LET there == IF p[2] = 1 THEN 0 ELSE b[<< p[1], p[2] - 1 >>] + Ahead(tp, f, cut, p[1], p[2] - 1)
        idle  == IF p[1] = 1 THEN 0 ELSE b[<< p[1] - 1, p[2] >>] + Bytes(f, p[1] - 1) * Rate(tp, f, p[2])
    IN  IF there > idle THEN there ELSE idle

\* The recursion is founded: a function with the values of the cells exists, since one
\* for the first diagonals gives one for the next.
LEMMA CellsExist ==
    ASSUME NEW tp, NEW f, NEW cut, Packets(f) \in Nat, NumHops(tp, f) \in Nat
    PROVE  \E b : b = [p \in Cells(tp, f) |-> Cell(b, p, tp, f, cut)]
<1> DEFINE C == Cells(tp, f)
           Upto(k) == {p \in C : p[1] + p[2] <= k}
           Is(b, k) == b = [p \in Upto(k) |-> Cell(b, p, tp, f, cut)]
           none == {k \in Nat : ~ \E b : Is(b, k)}
<1>1. \A p \in C : p[1] \in Nat \ {0} /\ p[2] \in Nat \ {0} /\ p = << p[1], p[2] >>
                   /\ p[1] <= Packets(f) /\ p[2] <= NumHops(tp, f)
    BY DEF Cells
<1>2. ASSUME NEW p \in C
      PROVE  /\ p[2] # 1 => << p[1], p[2] - 1 >> \in C
             /\ p[1] # 1 => << p[1] - 1, p[2] >> \in C
    BY <1>1, <1>2 DEF Cells
<1>3. none = {}
  <2> SUFFICES ASSUME none # {} PROVE FALSE
    OBVIOUS
  <2>1. PICK k \in none : \A j \in none : k <= j
    BY HasLeast
  <2>2. k # 0
    <3>1. SUFFICES ASSUME k = 0 PROVE FALSE
      OBVIOUS
    <3>2. Upto(0) = {}
      BY <1>1
    <3>3. Is([p \in {} |-> 0], 0)
      BY <3>2
    <3>4. QED
      BY <2>1, <3>1, <3>3
  <2>3. k - 1 \in Nat /\ k - 1 \notin none
    <3>1. k \in Nat /\ k - 1 \in Nat /\ ~ (k <= k - 1)
      BY <2>1, <2>2
    <3> HIDE DEF none
    <3>2. QED
      BY <2>1, <3>1
  <2>4. PICK b : Is(b, k - 1)
    BY <2>3
  <2> DEFINE g == [p \in Upto(k) |-> Cell(b, p, tp, f, cut)]
  <2>5. \A p \in Upto(k - 1) : p \in Upto(k) /\ g[p] = b[p]
    BY <1>1, <2>1, <2>4
  <2>6. ASSUME NEW p \in Upto(k)
        PROVE  Cell(g, p, tp, f, cut) = Cell(b, p, tp, f, cut)
    <3>a. /\ p \in C /\ p[1] \in Nat /\ p[2] \in Nat /\ p[1] + p[2] <= k /\ k \in Nat
          /\ (p[2] # 1 => << p[1], p[2] - 1 >> \in C) /\ (p[1] # 1 => << p[1] - 1, p[2] >> \in C)
      BY <1>1, <1>2, <2>1
    <3>b. \A i, j : << i, j >>[1] = i /\ << i, j >>[2] = j
      OBVIOUS
    <3>c. \A q : q \in Upto(k - 1) <=> q \in C /\ q[1] + q[2] <= k - 1
      OBVIOUS
    <3>d. p[1] + (p[2] - 1) <= k - 1 /\ (p[1] - 1) + p[2] <= k - 1
      BY <3>a
    <3> HIDE DEF Upto
    <3>1. p[2] # 1 => << p[1], p[2] - 1 >> \in Upto(k - 1)
      BY <3>a, <3>b, <3>c, <3>d
    <3>2. p[1] # 1 => << p[1] - 1, p[2] >> \in Upto(k - 1)
      BY <3>a, <3>b, <3>c, <3>d
    <3> HIDE DEF g, Upto
    <3>3. QED
      BY <2>5, <3>1, <3>2 DEF Cell
  <2>7. Is(g, k)
    BY <2>6
  <2>8. QED
    BY <2>1, <2>7
<1>4. \A p \in C : p[1] + p[2] <= Packets(f) + NumHops(tp, f)
    BY <1>1
<1>5. Upto(Packets(f) + NumHops(tp, f)) = C
    BY <1>4
<1>6. Packets(f) + NumHops(tp, f) \in Nat
    OBVIOUS
<1>7. PICK b : Is(b, Packets(f) + NumHops(tp, f))
    BY <1>3, <1>6
<1>8. QED
    BY <1>5, <1>7

\* Begin is what its equation says.
LEMMA BeginIs ==
    ASSUME NEW tp, NEW f, NEW cut, Packets(f) \in Nat, NumHops(tp, f) \in Nat
    PROVE  Begin(tp, f, cut) =
               [p \in Cells(tp, f) |-> Cell(Begin(tp, f, cut), p, tp, f, cut)]
<1>1. Begin(tp, f, cut) =
          CHOOSE b : b = [p \in Cells(tp, f) |-> Cell(b, p, tp, f, cut)]
    BY DEF Begin, Cells, Cell
<1>2. QED
    BY <1>1, CellsExist

\* Whatever has the values of the cells is a number in each, as it is in those before it.
LEMMA AheadNat ==
    ASSUME NEW tp, NEW f, f.size \in Nat, NEW cut, NEW n, NEW q
    PROVE  /\ Rate(tp, f, q) \in Nat /\ Bytes(f, n) \in Nat
           /\ Ahead(tp, f, cut, n, q) \in Nat
<1>1. Rate(tp, f, q) \in Nat
    BY OracleAssumption DEF Rate
<1>2. LastPayload(f) \in Nat /\ Bytes(f, n) \in Nat
    BY OracleAssumption DEF LastPayload, Leftover, Bytes
<1>3. \A a, b \in Nat : a * b \in Nat
    OBVIOUS
<1>4. QED
    BY <1>1, <1>2, <1>3, OracleAssumption DEF Ahead

\* Every packet begins at some time.
LEMMA BeginNat ==
    ASSUME NEW tp, NEW f, f.size \in Nat, NEW cut, Packets(f) \in Nat, NumHops(tp, f) \in Nat
    PROVE  \A p \in Cells(tp, f) : Begin(tp, f, cut)[p] \in Nat
<1> DEFINE C == Cells(tp, f)
           b == Begin(tp, f, cut)
           bad == {p \in C : b[p] \notin Nat}
           sums == {p[1] + p[2] : p \in bad}
<1>1. \A p \in C : p[1] \in Nat \ {0} /\ p[2] \in Nat \ {0} /\ p = << p[1], p[2] >>
                   /\ p[1] <= Packets(f) /\ p[2] <= NumHops(tp, f)
    BY DEF Cells
<1>2. ASSUME NEW p \in C
      PROVE  /\ p[2] # 1 => << p[1], p[2] - 1 >> \in C
             /\ p[1] # 1 => << p[1] - 1, p[2] >> \in C
    BY <1>1, <1>2 DEF Cells
<1>3. \A p \in C : b[p] = Cell(b, p, tp, f, cut)
  <2> HIDE DEF b, C
  <2>1. b = [p \in C |-> Cell(b, p, tp, f, cut)]
    BY BeginIs DEF b, C
  <2>2. QED
    BY <2>1
<1> HIDE DEF b, C
<1>4. SUFFICES ASSUME bad # {} PROVE FALSE
    BY DEF b, C
<1>5. sums \in SUBSET Nat /\ sums # {}
    BY <1>1, <1>4
<1>6. PICK k \in sums : \A j \in sums : k <= j
  <2> HIDE DEF sums
  <2>1. QED
    BY <1>5, HasLeast
<1>7. PICK p \in bad : k = p[1] + p[2]
    BY <1>6
<1>8. /\ p[2] # 1 => b[<< p[1], p[2] - 1 >>] \in Nat
      /\ p[1] # 1 => b[<< p[1] - 1, p[2] >>] \in Nat
  <2>1. \A q \in bad : p[1] + p[2] <= q[1] + q[2]
    BY <1>6, <1>7
  <2>2. p \in C /\ p[1] \in Nat /\ p[2] \in Nat
    BY <1>1, <1>7
  <2>3. \A i, j : << i, j >>[1] = i /\ << i, j >>[2] = j
    OBVIOUS
  <2>4. ~ (p[1] + p[2] <= p[1] + (p[2] - 1)) /\ ~ (p[1] + p[2] <= (p[1] - 1) + p[2])
    BY <2>2
  <2>5. \A q \in C : ~ (p[1] + p[2] <= q[1] + q[2]) => b[q] \in Nat
    BY <2>1
  <2> HIDE DEF bad
  <2>6. QED
    BY <1>2, <2>2, <2>3, <2>4, <2>5
<1>9. b[p] = Cell(b, p, tp, f, cut)
    BY <1>3, <1>7
<1>10. Cell(b, p, tp, f, cut) \in Nat
  <2>1. \A n, q : Rate(tp, f, q) \in Nat /\ Bytes(f, n) \in Nat /\ Ahead(tp, f, cut, n, q) \in Nat
    BY AheadNat
  <2>2. Bytes(f, p[1] - 1) * Rate(tp, f, p[2]) \in Nat
    <3>1. \A x, y \in Nat : x * y \in Nat
      OBVIOUS
    <3>2. QED
      BY <2>1, <3>1
  <2> DEFINE there == IF p[2] = 1 THEN 0 ELSE b[<< p[1], p[2] - 1 >>] + Ahead(tp, f, cut, p[1], p[2] - 1)
             idle  == IF p[1] = 1 THEN 0 ELSE b[<< p[1] - 1, p[2] >>] + Bytes(f, p[1] - 1) * Rate(tp, f, p[2])
  <2>3. there \in Nat /\ idle \in Nat
    BY <1>8, <2>1, <2>2
  <2>4. Cell(b, p, tp, f, cut) = IF there > idle THEN there ELSE idle
    BY DEF Cell
  <2> HIDE DEF there, idle
  <2>5. QED
    BY <2>3, <2>4
<1>11. QED
    BY <1>7, <1>9, <1>10

\* A packet begins at a queue no earlier than it is there, and no earlier than the packet
\* before it has been sent.
LEMMA BeginAfter ==
    ASSUME NEW tp, NEW f, f.size \in Nat, NEW cut, Packets(f) \in Nat, NumHops(tp, f) \in Nat,
           NEW n \in 1 .. Packets(f), NEW q \in 1 .. NumHops(tp, f)
    PROVE  LET b == Begin(tp, f, cut)
           IN  /\ b[<< n, q >>] \in Nat
               /\ q > 1 => b[<< n, q - 1 >>] \in Nat /\ b[<< n, q >>] >= b[<< n, q - 1 >>] + Ahead(tp, f, cut, n, q - 1)
               /\ n > 1 => b[<< n - 1, q >>] \in Nat /\ b[<< n, q >>] >= b[<< n - 1, q >>] + Bytes(f, n - 1) * Rate(tp, f, q)
<1> DEFINE C == Cells(tp, f)
           b == Begin(tp, f, cut)
           there == IF q = 1 THEN 0 ELSE b[<< n, q - 1 >>] + Ahead(tp, f, cut, n, q - 1)
           idle  == IF n = 1 THEN 0 ELSE b[<< n - 1, q >>] + Bytes(f, n - 1) * Rate(tp, f, q)
<1>1. << n, q >> \in C /\ (q > 1 => << n, q - 1 >> \in C) /\ (n > 1 => << n - 1, q >> \in C)
    BY DEF Cells
<1>2. \A p \in C : b[p] \in Nat
    BY BeginNat
<1>3. \A p \in C : b[p] = Cell(b, p, tp, f, cut)
  <2> HIDE DEF b, C
  <2>1. b = [p \in C |-> Cell(b, p, tp, f, cut)]
    BY BeginIs DEF b, C
  <2>2. QED
    BY <2>1
<1> HIDE DEF b, C
<1>4. b[<< n, q >>] = IF there > idle THEN there ELSE idle
    BY <1>1, <1>3 DEF Cell
<1>5. Ahead(tp, f, cut, n, q - 1) \in Nat /\ Bytes(f, n - 1) * Rate(tp, f, q) \in Nat
  <2>1. \A x, y \in Nat : x * y \in Nat
    OBVIOUS
  <2>2. QED
    BY <2>1, AheadNat
<1>6. there \in Nat /\ idle \in Nat
    BY <1>1, <1>2, <1>5
<1>7. b[<< n, q >>] >= there /\ b[<< n, q >>] >= idle
  <2> HIDE DEF there, idle
  <2>1. QED
    BY <1>4, <1>6
<1>8. /\ b[<< n, q >>] \in Nat
      /\ q > 1 => b[<< n, q - 1 >>] \in Nat /\ b[<< n, q >>] >= b[<< n, q - 1 >>] + Ahead(tp, f, cut, n, q - 1)
      /\ n > 1 => b[<< n - 1, q >>] \in Nat /\ b[<< n, q >>] >= b[<< n - 1, q >>] + Bytes(f, n - 1) * Rate(tp, f, q)
    BY <1>1, <1>2, <1>7
<1>9. QED
    BY <1>8 DEF b

-----------------------------------------------------------------------------
(* What the pipeline takes at least                                        *)

\* The packets of a flow, and their bytes, are those that get_oracle_fct counts.
LEMMA PacketsOf ==
    ASSUME NEW f, f.size \in Nat \ {0}
    PROVE  /\ Packets(f) \in Nat \ {0} /\ LastPayload(f) \in 1 .. Mss
           /\ Np(f) \in Nat /\ Leftover(f) \in 0 .. Mss - 1
           /\ Np(f) = IF Leftover(f) = 0 THEN Packets(f) ELSE Packets(f) - 1
           /\ LastPayload(f) = IF Leftover(f) = 0 THEN Mss ELSE Leftover(f)
<1>1. Np(f) \in Nat /\ Leftover(f) \in 0 .. Mss - 1 /\ f.size = Np(f) * Mss + Leftover(f)
    BY OracleAssumption, DivMod DEF Np, Leftover
<1>2. Leftover(f) = 0 => Np(f) # 0
    BY <1>1, OracleAssumption
<1>3. QED
    BY <1>1, <1>2, OracleAssumption DEF Packets, LastPayload

\* Hosts are two, four or six queues apart.
LEMMA HopsOf ==
    ASSUME NEW tp, NEW f
    PROVE  /\ NumHops(tp, f) \in {2, 4, 6}
           /\ tp # "FatTree" => NumHops(tp, f) = IF LsHops(f.src, f.dst) = 4 THEN 4 ELSE 2
           /\ tp = "FatTree" => NumHops(tp, f) = FtHops(f.src, f.dst)
           /\ LsHops(f.src, f.dst) = 4 \/ LsHops(f.src, f.dst) = 2
    BY DEF NumHops, FtHops, LsHops

\* The n-th packet leaves the host no earlier than those before it have been sent.
LEMMA FirstQueue ==
    ASSUME NEW tp, NEW f, f.size \in Nat \ {0}, NEW cut
    PROVE  \A n \in 1 .. Packets(f) : Begin(tp, f, cut)[<< n, 1 >>] >= (n - 1) * ((Mss + Hdr) * AccessTime)
<1> DEFINE b == Begin(tp, f, cut)
           w == (Mss + Hdr) * AccessTime
           late == {n \in 1 .. Packets(f) : ~ (b[<< n, 1 >>] >= (n - 1) * w)}
<1>1. Packets(f) \in Nat \ {0} /\ NumHops(tp, f) \in Nat /\ 1 \in 1 .. NumHops(tp, f)
    BY PacketsOf, HopsOf
<1>2. w \in Nat
    BY OracleAssumption
<1>3. \A n \in 1 .. Packets(f) :
          /\ b[<< n, 1 >>] \in Nat
          /\ n > 1 => b[<< n - 1, 1 >>] \in Nat /\ b[<< n, 1 >>] >= b[<< n - 1, 1 >>] + Bytes(f, n - 1) * Rate(tp, f, 1)
    BY <1>1, BeginAfter
<1>4. \A n \in 1 .. Packets(f) : n > 1 => Bytes(f, n - 1) * Rate(tp, f, 1) = w
    BY <1>1, OracleAssumption DEF Bytes, Rate
<1> HIDE DEF b, w
<1>5. SUFFICES ASSUME late # {} PROVE FALSE
    BY DEF b, w
<1>6. PICK n \in late : \A k \in late : n <= k
  <2>1. late \in SUBSET Nat
    BY <1>1
  <2> HIDE DEF late
  <2>2. QED
    BY <1>5, <2>1, HasLeast
<1>7. n \in 1 .. Packets(f) /\ ~ (b[<< n, 1 >>] >= (n - 1) * w)
    BY <1>6
<1>8. n # 1
  <2>1. (1 - 1) * w = 0
    BY <1>2
  <2>2. b[<< n, 1 >>] \in Nat
    BY <1>3, <1>7
  <2>3. QED
    BY <1>7, <2>1, <2>2
<1>9. n - 1 \in 1 .. Packets(f) /\ n - 1 \notin late
  <2>1. n \in Nat /\ ~ (n <= n - 1)
    BY <1>1, <1>7
  <2>2. n - 1 \in 1 .. Packets(f)
    BY <1>1, <1>7, <1>8
  <2> HIDE DEF late
  <2>3. QED
    BY <1>6, <2>1, <2>2
<1>10. b[<< n - 1, 1 >>] >= ((n - 1) - 1) * w
    BY <1>9
<1>11. b[<< n, 1 >>] >= b[<< n - 1, 1 >>] + w /\ b[<< n - 1, 1 >>] \in Nat /\ b[<< n, 1 >>] \in Nat
    BY <1>1, <1>3, <1>4, <1>7, <1>8
<1>12. (n - 1) * w = ((n - 1) - 1) * w + w /\ (n - 1) * w \in Int /\ ((n - 1) - 1) * w \in Int
    BY <1>1, <1>2, <1>7
<1>13. QED
    BY <1>2, <1>7, <1>10, <1>11, <1>12

\* The recursion of Ack is founded.
LEMMA AckIs ==
    ASSUME NEW tp, NEW f
    PROVE  Ack(tp, f) = [q \in 0 .. NumHops(tp, f) |->
               IF q = 0 THEN 0 ELSE Ack(tp, f)[q - 1] + Hdr * Rate(tp, f, q) + Propagation]
<1> DEFINE H == NumHops(tp, f)
           step(q) == Hdr * Rate(tp, f, q) + Propagation
           Is(a, h) == a = [q \in 0 .. h |-> IF q = 0 THEN 0 ELSE a[q - 1] + Hdr * Rate(tp, f, q) + Propagation]
           none == {h \in Nat : ~ \E a : Is(a, h)}
<1>1. none = {}
  <2> SUFFICES ASSUME none # {} PROVE FALSE
    OBVIOUS
  <2>1. PICK h \in none : \A j \in none : h <= j
    BY HasLeast
  <2>2. h # 0
    <3>1. Is([q \in 0 .. 0 |-> 0], 0)
      OBVIOUS
    <3>2. QED
      BY <2>1, <3>1
  <2>3. h - 1 \in Nat /\ h - 1 \notin none
    <3>1. h \in Nat /\ h - 1 \in Nat /\ ~ (h <= h - 1)
      BY <2>1, <2>2
    <3> HIDE DEF none
    <3>2. QED
      BY <2>1, <3>1
  <2>4. PICK a : Is(a, h - 1)
    BY <2>3
  <2> DEFINE g == [q \in 0 .. h |-> IF q = 0 THEN 0 ELSE a[q - 1] + Hdr * Rate(tp, f, q) + Propagation]
  <2>5. \A q \in 0 .. h - 1 : g[q] = a[q]
    BY <2>1, <2>4
  <2>6. \A q \in 0 .. h : q # 0 => g[q - 1] = a[q - 1]
    <3>1. h \in Nat
      BY <2>1
    <3>2. \A q \in 0 .. h : q # 0 => q - 1 \in 0 .. h - 1
      BY <3>1
    <3> HIDE DEF g
    <3>3. QED
      BY <2>5, <3>2
  <2>7. Is(g, h)
    BY <2>6
  <2>8. QED
    BY <2>1, <2>7
<1>2. H \in Nat
    BY HopsOf
<1>3. \E a : Is(a, H)
  <2>1. H \notin none
    BY <1>1
  <2>2. QED
    BY <1>2, <2>1
<1>4. Ack(tp, f) = CHOOSE a : Is(a, H)
    BY DEF Ack
<1>5. QED
    BY <1>3, <1>4

\* What the acknowledgement takes at a queue.
AckHop(tp, f, q) == Hdr * Rate(tp, f, q) + Propagation

\* The acknowledgement takes a header for each queue.
LEMMA AckAfter ==
    ASSUME NEW tp, NEW f, f.size \in Nat
    PROVE  /\ \A q : AckHop(tp, f, q) \in Nat
           /\ Ack(tp, f)[0] = 0
           /\ \A q \in 1 .. NumHops(tp, f) : Ack(tp, f)[q - 1] \in Nat =>
                 Ack(tp, f)[q] = Ack(tp, f)[q - 1] + AckHop(tp, f, q)
<1> DEFINE H == NumHops(tp, f)
           k == Ack(tp, f)
<1>1. H \in Nat
    BY HopsOf
<1>2. \A q : Hdr * Rate(tp, f, q) \in Nat /\ AckHop(tp, f, q) \in Nat
  <2>1. \A x, y \in Nat : x * y \in Nat
    OBVIOUS
  <2>2. QED
    BY <2>1, AheadNat, OracleAssumption DEF AckHop
<1>3. k = [q \in 0 .. H |-> IF q = 0 THEN 0 ELSE k[q - 1] + Hdr * Rate(tp, f, q) + Propagation]
    BY AckIs
<1> HIDE DEF k, H
<1>4. k[0] = 0
    BY <1>1, <1>3
<1>5. \A q \in 1 .. H : k[q] = k[q - 1] + Hdr * Rate(tp, f, q) + Propagation
    BY <1>1, <1>3
<1>6. \A q \in 1 .. H : k[q - 1] \in Nat => k[q] = k[q - 1] + AckHop(tp, f, q)
    BY <1>2, <1>5, OracleAssumption DEF AckHop
<1>7. QED
    BY <1>2, <1>4, <1>6 DEF k, H

\* The pipeline is no shorter than what the packets before the last one take at the first
\* queue, what the last one takes at each queue, and the way back.
LEMMA PipelineIs ==
    ASSUME NEW tp, NEW f, f.size \in Nat \ {0}, NEW cut
    PROVE  \E there, back \in Nat :
               /\ Pipeline(tp, f, cut) = there + back
               /\ NumHops(tp, f) = 2 =>
                     /\ there >= (Packets(f) - 1) * ((Mss + Hdr) * AccessTime)
                                 + Ahead(tp, f, cut, Packets(f), 1) + Ahead(tp, f, cut, Packets(f), 2)
                     /\ back = AckHop(tp, f, 1) + AckHop(tp, f, 2)
               /\ NumHops(tp, f) = 4 =>
                     /\ there >= (Packets(f) - 1) * ((Mss + Hdr) * AccessTime)
                                 + Ahead(tp, f, cut, Packets(f), 1) + Ahead(tp, f, cut, Packets(f), 2)
                                 + Ahead(tp, f, cut, Packets(f), 3) + Ahead(tp, f, cut, Packets(f), 4)
                     /\ back = AckHop(tp, f, 1) + AckHop(tp, f, 2) + AckHop(tp, f, 3) + AckHop(tp, f, 4)
               /\ NumHops(tp, f) = 6 =>
                     /\ there >= (Packets(f) - 1) * ((Mss + Hdr) * AccessTime)
                                 + Ahead(tp, f, cut, Packets(f), 1) + Ahead(tp, f, cut, Packets(f), 2)
                                 + Ahead(tp, f, cut, Packets(f), 3) + Ahead(tp, f, cut, Packets(f), 4)
                                 + Ahead(tp, f, cut, Packets(f), 5) + Ahead(tp, f, cut, Packets(f), 6)
                     /\ back = AckHop(tp, f, 1) + AckHop(tp, f, 2) + AckHop(tp, f, 3) + AckHop(tp, f, 4)
                               + AckHop(tp, f, 5) + AckHop(tp, f, 6)
<1> DEFINE P == Packets(f)
           H == NumHops(tp, f)
           b(q) == Begin(tp, f, cut)[<< P, q >>]
           k == Ack(tp, f)
           a(q) == Ahead(tp, f, cut, P, q)
           c(q) == AckHop(tp, f, q)
           before == (P - 1) * ((Mss + Hdr) * AccessTime)
<1>1. P \in Nat \ {0} /\ H \in {2, 4, 6} /\ P \in 1 .. P /\ before \in Nat
  <2>1. P \in Nat \ {0} /\ H \in {2, 4, 6}
    BY PacketsOf, HopsOf
  <2>2. \A x, y \in Nat : x * y \in Nat
    OBVIOUS
  <2>3. P - 1 \in Nat /\ (Mss + Hdr) \in Nat
    BY <2>1, OracleAssumption
  <2>4. QED
    BY <2>1, <2>2, <2>3, OracleAssumption
<1>2. \A q : a(q) \in Nat /\ c(q) \in Nat
    BY AheadNat, AckAfter
<1>3. b(1) >= before
    BY <1>1, FirstQueue
<1>4. \A q \in 1 .. H : b(q) \in Nat /\ (q > 1 => b(q) >= b(q - 1) + a(q - 1))
  <2>1. P \in Nat /\ H \in Nat
    BY <1>1
  <2>2. QED
    BY <1>1, <2>1, BeginAfter
<1>5. k[0] = 0 /\ \A q \in 1 .. H : k[q - 1] \in Nat => k[q] = k[q - 1] + c(q)
    BY AckAfter
<1>6. Pipeline(tp, f, cut) = b(H) + a(H) + k[H]
    BY DEF Pipeline
<1> HIDE DEF P, H, b, k, a, c, before
<1>7. k[1] = c(1) /\ k[2] = c(1) + c(2) /\ b(1) \in Nat /\ b(2) \in Nat /\ b(2) >= before + a(1)
  <2>1. k[1] = k[0] + c(1)
    BY <1>1, <1>5
  <2>2. k[2] = k[1] + c(2)
    BY <1>1, <1>2, <1>5, <2>1
  <2>3. b(1) \in Nat /\ b(2) \in Nat /\ b(2) >= b(1) + a(1)
    BY <1>1, <1>4
  <2>4. QED
    BY <1>1, <1>2, <1>3, <1>5, <2>1, <2>2, <2>3
<1>8. H \in {4, 6} => /\ k[3] = c(1) + c(2) + c(3) /\ k[4] = c(1) + c(2) + c(3) + c(4)
                      /\ b(4) \in Nat /\ b(4) >= before + a(1) + a(2) + a(3)
  <2>1. SUFFICES ASSUME H \in {4, 6}
                 PROVE  /\ k[3] = c(1) + c(2) + c(3) /\ k[4] = c(1) + c(2) + c(3) + c(4)
                        /\ b(4) \in Nat /\ b(4) >= before + a(1) + a(2) + a(3)
    OBVIOUS
  <2>2. k[3] = k[2] + c(3)
    BY <1>2, <1>5, <1>7, <2>1
  <2>3. k[4] = k[3] + c(4)
    BY <1>2, <1>5, <1>7, <2>1, <2>2
  <2>4. b(3) \in Nat /\ b(4) \in Nat /\ b(3) >= b(2) + a(2) /\ b(4) >= b(3) + a(3)
    BY <1>4, <2>1
  <2>5. QED
    BY <1>1, <1>2, <1>7, <2>2, <2>3, <2>4
<1>9. H = 6 => /\ k[6] = c(1) + c(2) + c(3) + c(4) + c(5) + c(6)
               /\ b(6) \in Nat /\ b(6) >= before + a(1) + a(2) + a(3) + a(4) + a(5)
  <2>1. SUFFICES ASSUME H = 6
                 PROVE  /\ k[6] = c(1) + c(2) + c(3) + c(4) + c(5) + c(6)
                        /\ b(6) \in Nat /\ b(6) >= before + a(1) + a(2) + a(3) + a(4) + a(5)
    OBVIOUS
  <2>2. k[5] = k[4] + c(5)
    BY <1>2, <1>5, <1>8, <2>1
  <2>3. k[6] = k[5] + c(6)
    BY <1>2, <1>5, <1>8, <2>1, <2>2
  <2>4. b(5) \in Nat /\ b(6) \in Nat /\ b(5) >= b(4) + a(4) /\ b(6) >= b(5) + a(5)
    BY <1>4, <2>1
  <2>5. QED
    BY <1>1, <1>2, <1>8, <2>1, <2>2, <2>3, <2>4
<1>10. /\ b(H) \in Nat /\ k[H] \in Nat
       /\ H = 2 => b(H) + a(H) >= before + a(1) + a(2) /\ k[H] = c(1) + c(2)
       /\ H = 4 => b(H) + a(H) >= before + a(1) + a(2) + a(3) + a(4) /\ k[H] = c(1) + c(2) + c(3) + c(4)
       /\ H = 6 => /\ b(H) + a(H) >= before + a(1) + a(2) + a(3) + a(4) + a(5) + a(6)
                   /\ k[H] = c(1) + c(2) + c(3) + c(4) + c(5) + c(6)
  <2>1. CASE H = 2
    BY <1>1, <1>2, <1>7, <2>1
  <2>2. CASE H = 4
    BY <1>1, <1>2, <1>8, <2>2
  <2>3. CASE H = 6
    BY <1>1, <1>2, <1>9, <2>3
  <2>4. QED
    BY <1>1, <2>1, <2>2, <2>3
<1>11. b(H) + a(H) \in Nat
    BY <1>2, <1>10
<1>12. QED
    BY <1>6, <1>10, <1>11 DEF P, H, a, c, before

-----------------------------------------------------------------------------
(* The oracle                                                              *)

\* Bytes that pass the first queue before the last packet, and in all.
LEMMA FirstHopIs ==
    ASSUME NEW f, f.size \in Nat \ {0}
    PROVE  /\ FirstHop(f) = (Packets(f) - 1) * ((Mss + Hdr) * AccessTime) + (LastPayload(f) + 2 * Hdr) * AccessTime
           /\ Np(f) * (Mss + Hdr) * AccessTime <=
                  (Packets(f) - 1) * ((Mss + Hdr) * AccessTime) + (LastPayload(f) + Hdr) * AccessTime
<1> DEFINE P == Packets(f)
           last == LastPayload(f)
<1>1. P \in Nat \ {0} /\ last \in Nat /\ Np(f) \in Nat /\ Leftover(f) \in Nat /\ Mss \in Nat /\ Hdr \in Nat /\ AccessTime \in Nat
    BY PacketsOf, OracleAssumption
<1>2. /\ Leftover(f) = 0 => Np(f) = P /\ last = Mss
      /\ Leftover(f) # 0 => Np(f) = P - 1 /\ last = Leftover(f)
    BY PacketsOf
<1>3. FirstHop(f) = ((Mss + Hdr) * Np(f) + Leftover(f) + (IF Leftover(f) > 0 THEN Hdr ELSE 0) + Hdr) * AccessTime
    BY DEF FirstHop
<1> HIDE DEF P, last
<1>4. \A x, y, z \in Int : x * (y * z) = (x * y) * z /\ (x + y) * z = x * z + y * z /\ x * y = y * x
    OBVIOUS
<1>5. (Mss + Hdr) * Np(f) + Leftover(f) + (IF Leftover(f) > 0 THEN Hdr ELSE 0) + Hdr = (P - 1) * (Mss + Hdr) + (last + 2 * Hdr)
  <2> DEFINE w == Mss + Hdr
  <2>1. w \in Nat /\ w = Mss + Hdr
    BY <1>1
  <2>2. w * P = (P - 1) * w + w /\ w * (P - 1) = (P - 1) * w /\ (P - 1) * w \in Int
    BY <1>1, <2>1
  <2> HIDE DEF w
  <2>3. CASE Leftover(f) = 0
    BY <1>1, <1>2, <2>1, <2>2, <2>3
  <2>4. CASE Leftover(f) # 0
    BY <1>1, <1>2, <2>1, <2>2, <2>4
  <2>5. QED
    BY <2>3, <2>4
<1>6. (P - 1) * (Mss + Hdr) \in Int /\ last + 2 * Hdr \in Int
    BY <1>1
<1>7. FirstHop(f) = ((P - 1) * (Mss + Hdr)) * AccessTime + (last + 2 * Hdr) * AccessTime
    BY <1>1, <1>3, <1>4, <1>5, <1>6
<1>8. ((P - 1) * (Mss + Hdr)) * AccessTime = (P - 1) * ((Mss + Hdr) * AccessTime)
    BY <1>1
<1>9. Np(f) * (Mss + Hdr) <= (P - 1) * (Mss + Hdr) + (last + Hdr) /\ Np(f) * (Mss + Hdr) \in Nat
  <2>1. CASE Leftover(f) = 0
    <3>1. Np(f) * (Mss + Hdr) = (P - 1) * (Mss + Hdr) + (Mss + Hdr)
      BY <1>1, <1>2, <2>1
    <3>2. Np(f) * (Mss + Hdr) \in Nat
      BY <1>1
    <3>3. QED
      BY <1>1, <1>2, <2>1, <3>1, <3>2
  <2>2. CASE Leftover(f) # 0
    <3>1. Np(f) * (Mss + Hdr) \in Nat
      BY <1>1
    <3>2. QED
      BY <1>1, <1>2, <2>2, <3>1
  <2>3. QED
    BY <2>1, <2>2
<1>10. Np(f) * (Mss + Hdr) * AccessTime <= ((P - 1) * (Mss + Hdr) + (last + Hdr)) * AccessTime
  <2>1. \A x, y, z \in Int : x <= y /\ z >= 0 => x * z <= y * z
    OBVIOUS
  <2>2. (P - 1) * (Mss + Hdr) + (last + Hdr) \in Int
    BY <1>1
  <2> DEFINE x == Np(f) * (Mss + Hdr)
             y == (P - 1) * (Mss + Hdr) + (last + Hdr)
  <2>3. x \in Int /\ y \in Int /\ x <= y
    BY <1>9, <2>2
  <2> HIDE DEF x, y
  <2>4. x * AccessTime <= y * AccessTime
    BY <1>1, <2>1, <2>3
  <2>5. QED
    BY <2>4 DEF x, y
<1>11. ((P - 1) * (Mss + Hdr) + (last + Hdr)) * AccessTime = ((P - 1) * (Mss + Hdr)) * AccessTime + (last + Hdr) * AccessTime
    BY <1>1, <1>4, <1>6
<1>12. QED
    BY <1>7, <1>8, <1>10, <1>11 DEF P, last

\* The last packet and the acknowledgement at a queue.
LEMMA HopIs ==
    ASSUME NEW tp, NEW f, f.size \in Nat \ {0}, NEW cut, NEW q \in Nat
    PROVE  /\ Ahead(tp, f, cut, Packets(f), q) =
                  (IF cut /\ q < NumHops(tp, f) THEN Hdr ELSE LastPayload(f) + Hdr) * Rate(tp, f, q) + Propagation
           /\ AckHop(tp, f, q) = Hdr * Rate(tp, f, q) + Propagation
<1>1. LastPayload(f) \in Nat /\ Hdr \in Nat
    BY PacketsOf, OracleAssumption
<1>2. Bytes(f, Packets(f)) = LastPayload(f) + Hdr
    BY <1>1 DEF Bytes
<1>3. QED
    BY <1>2 DEF Ahead, AckHop

\* get_oracle_fct is a lower bound of the time that the queues and links of the way need: for
\* every size of a flow, of packets and headers, every rate and delay, in both networks, with
\* and without cut-through.  The assertion on slowdown in FlowFinishedEvent rests on it.
THEOREM OracleIsABound ==
    ASSUME NEW tp, NEW f, f.size \in Nat \ {0}, NEW cut \in BOOLEAN, tp = "FatTree" => ~cut
    PROVE  Pipeline(tp, f, cut) \in Nat /\ Oracle(tp, f, cut) <= Pipeline(tp, f, cut)
<1> DEFINE P == Packets(f)
           H == NumHops(tp, f)
           last == LastPayload(f)
           before == (P - 1) * ((Mss + Hdr) * AccessTime)
           a(q) == Ahead(tp, f, cut, P, q)
           c(q) == AckHop(tp, f, q)
           LA == last * AccessTime
           LC == last * CoreTime
           HA == Hdr * AccessTime
           HC == Hdr * CoreTime
<1>1. /\ P \in Nat \ {0} /\ last \in Nat /\ Np(f) \in Nat /\ Mss \in Nat /\ Hdr \in Nat
      /\ AccessTime \in Nat /\ CoreTime \in Nat /\ Propagation \in Nat
    BY PacketsOf, OracleAssumption
<1>2. PICK there \in Nat, back \in Nat :
          /\ Pipeline(tp, f, cut) = there + back
          /\ H = 2 => there >= before + a(1) + a(2) /\ back = c(1) + c(2)
          /\ H = 4 => there >= before + a(1) + a(2) + a(3) + a(4) /\ back = c(1) + c(2) + c(3) + c(4)
          /\ H = 6 => there >= before + a(1) + a(2) + a(3) + a(4) + a(5) + a(6) /\ back = c(1) + c(2) + c(3) + c(4) + c(5) + c(6)
    BY PipelineIs
<1>3. /\ H \in {2, 4, 6}
      /\ tp = "FatTree" => H = FtHops(f.src, f.dst)
      /\ tp # "FatTree" => H = IF LsHops(f.src, f.dst) = 4 THEN 4 ELSE 2
      /\ LsHops(f.src, f.dst) \in {2, 4}
    BY HopsOf
<1>4. LA \in Nat /\ LC \in Nat /\ HA \in Nat /\ HC \in Nat /\ before \in Nat
  <2>1. \A x, y \in Nat : x * y \in Nat
    OBVIOUS
  <2>2. P - 1 \in Nat /\ Mss + Hdr \in Nat
    BY <1>1
  <2>3. QED
    BY <1>1, <2>1, <2>2
<1>5. /\ (last + Hdr) * AccessTime = LA + HA /\ (last + Hdr) * CoreTime = LC + HC
      /\ (last + 2 * Hdr) * AccessTime = LA + 2 * HA /\ (last + 2 * Hdr) * CoreTime = LC + 2 * HC
    BY <1>1
<1>6. /\ FirstHop(f) = before + LA + 2 * HA
      /\ Np(f) * (Mss + Hdr) * AccessTime <= before + LA + HA
    BY <1>5, <1>4, FirstHopIs
<1>7. \A q \in Nat : /\ a(q) = (IF cut /\ q < H THEN Hdr ELSE last + Hdr) * Rate(tp, f, q) + Propagation
                     /\ c(q) = Hdr * Rate(tp, f, q) + Propagation
    BY HopIs
<1>8. ASSUME tp = "FatTree"
      PROVE  Pipeline(tp, f, cut) \in Nat /\ Oracle(tp, f, cut) <= Pipeline(tp, f, cut)
  <2>1. \A q \in Nat : a(q) = LA + HA + Propagation /\ c(q) = HA + Propagation
    BY <1>5, <1>7, <1>8 DEF Rate
  <2>2. Oracle(tp, f, cut) = 2 * H * Propagation + FirstHop(f) + (H - 1) * (last + 2 * Hdr) * AccessTime
    BY <1>3, <1>8 DEF Oracle, SnsFatTreeOracle, FatTreeOracle
  <2>3. (H - 1) * (last + 2 * Hdr) * AccessTime = (H - 1) * (LA + 2 * HA)
    BY <1>1, <1>3, <1>5
  <2> HIDE DEF H, a, c, before, LA, LC, HA, HC, P, last
  <2>4. CASE H = 2
    BY <1>1, <1>2, <1>4, <1>6, <2>1, <2>2, <2>3, <2>4
  <2>5. CASE H = 4
    BY <1>1, <1>2, <1>4, <1>6, <2>1, <2>2, <2>3, <2>5
  <2>6. CASE H = 6
    BY <1>1, <1>2, <1>4, <1>6, <2>1, <2>2, <2>3, <2>6
  <2>7. QED
    BY <1>3, <2>4, <2>5, <2>6
<1>9. ASSUME tp # "FatTree"
      PROVE  Pipeline(tp, f, cut) \in Nat /\ Oracle(tp, f, cut) <= Pipeline(tp, f, cut)
  <2> DEFINE far == LsHops(f.src, f.dst) = 4
             all == Np(f) * (Mss + Hdr) * AccessTime
  <2>1. H = IF far THEN 4 ELSE 2
    BY <1>3, <1>9
  <2>2. Oracle(tp, f, cut) = 2 * H * Propagation +
            IF cut THEN (Np(f) * (Mss + Hdr) + 3 * Hdr) * AccessTime + (IF far THEN 4 * Hdr * CoreTime ELSE 0)
            ELSE FirstHop(f) + (IF far THEN 2 * (last + 2 * Hdr) * CoreTime ELSE 0) + (last + 2 * Hdr) * AccessTime
    BY <1>3, <1>9, <2>1 DEF Oracle, LeafSpineOracle
  <2>3. /\ Np(f) * (Mss + Hdr) \in Nat /\ all \in Nat
        /\ (Np(f) * (Mss + Hdr) + 3 * Hdr) * AccessTime = all + 3 * HA
        /\ 4 * Hdr * CoreTime = 4 * HC /\ 2 * (last + 2 * Hdr) * CoreTime = 2 * (LC + 2 * HC)
    <3>1. \A x, y \in Nat : x * y \in Nat
      OBVIOUS
    <3>2. Np(f) * (Mss + Hdr) \in Nat /\ Mss + Hdr \in Nat
      BY <1>1, <3>1
    <3>3. \A x, y, z \in Nat : (x + 3 * y) * z = x * z + 3 * (y * z)
      OBVIOUS
    <3>4. all \in Nat
      BY <1>1, <3>1, <3>2
    <3>5. (Np(f) * (Mss + Hdr) + 3 * Hdr) * AccessTime = all + 3 * HA
      BY <1>1, <3>2, <3>3
    <3>6. 4 * Hdr * CoreTime = 4 * HC /\ 2 * (last + 2 * Hdr) * CoreTime = 2 * (LC + 2 * HC)
      BY <1>1, <1>5
    <3>7. QED
      BY <3>2, <3>4, <3>5, <3>6
  <2>4. Rate(tp, f, 1) = AccessTime /\ Rate(tp, f, H) = AccessTime
        /\ (H = 4 => Rate(tp, f, 2) = CoreTime /\ Rate(tp, f, 3) = CoreTime)
    BY <1>9 DEF Rate
  <2>5. /\ c(1) = HA + Propagation /\ c(H) = HA + Propagation
        /\ H = 4 => c(2) = HC + Propagation /\ c(3) = HC + Propagation
    BY <1>3, <1>7, <2>4
  <2>6. a(H) = LA + HA + Propagation
    BY <1>3, <1>5, <1>7, <2>4
  <2>7. cut => a(1) = HA + Propagation /\ (H = 4 => a(2) = HC + Propagation /\ a(3) = HC + Propagation)
    <3> SUFFICES ASSUME cut
                 PROVE  a(1) = HA + Propagation /\ (H = 4 => a(2) = HC + Propagation /\ a(3) = HC + Propagation)
      OBVIOUS
    <3>1. \A q \in Nat : q < H => a(q) = Hdr * Rate(tp, f, q) + Propagation
      BY <1>7
    <3> HIDE DEF H, a
    <3>2. QED
      BY <1>3, <2>4, <3>1
  <2>8. ~cut => a(1) = LA + HA + Propagation
                        /\ (H = 4 => a(2) = LC + HC + Propagation /\ a(3) = LC + HC + Propagation)
    BY <1>3, <1>5, <1>7, <2>4
  <2> HIDE DEF H, a, c, before, LA, LC, HA, HC, P, last, all, far
  <2>9. CASE far /\ cut
    BY <1>1, <1>2, <1>4, <1>6, <2>1, <2>2, <2>3, <2>5, <2>6, <2>7, <2>9 DEF all
  <2>10. CASE far /\ ~cut
    BY <1>1, <1>2, <1>4, <1>5, <1>6, <2>1, <2>2, <2>3, <2>5, <2>6, <2>8, <2>10
  <2>11. CASE ~far /\ cut
    BY <1>1, <1>2, <1>4, <1>6, <2>1, <2>2, <2>3, <2>5, <2>6, <2>7, <2>11 DEF all
  <2>12. CASE ~far /\ ~cut
    BY <1>1, <1>2, <1>4, <1>5, <1>6, <2>1, <2>2, <2>3, <2>5, <2>6, <2>8, <2>12
  <2>13. QED
    BY <2>9, <2>10, <2>11, <2>12
<1>10. QED
    BY <1>8, <1>9

-----------------------------------------------------------------------------
(* The table of sizes                                                      *)

\* Searching the table, as a function: the first place when the halves are searched for u.
Ranges == (1 .. Len(Table)) \X (0 .. Len(Table))

\* Weights of the table are numbers, and a draw is one of those up to the last weight.
LEMMA TableOf ==
    /\ Len(Table) \in Nat \ {0}
    /\ \A i \in 1 .. Len(Table) : Table[i].val \in Nat /\ Table[i].cdf \in Nat
    /\ \A i \in 2 .. Len(Table) : Table[i].cdf > Table[i - 1].cdf /\ Table[i].val >= Table[i - 1].val
    /\ \A u \in Draws : u \in Nat /\ u <= Table[Len(Table)].cdf
<1>1. Table \in Seq([val : Nat, cdf : Nat]) /\ Table # <<>>
    BY GeneratorAssumption
<1>2. Len(Table) \in Nat \ {0} /\ \A i \in 1 .. Len(Table) : Table[i] \in [val : Nat, cdf : Nat]
  <2>1. \A i \in 1 .. Len(Table) : Table[i] \in [val : Nat, cdf : Nat]
    BY <1>1, ElementOfSeq
  <2>2. Len(Table) \in Nat /\ Len(Table) # 0
    BY <1>1, EmptySeq, LenProperties
  <2>3. QED
    BY <2>1, <2>2
<1>3. \A i \in 1 .. Len(Table) : Table[i].val \in Nat /\ Table[i].cdf \in Nat
    BY <1>2
<1>4. \A u \in Draws : u \in 0 .. Table[Len(Table)].cdf
    BY GeneratorAssumption
<1>5. QED
    BY <1>2, <1>3, <1>4, GeneratorAssumption

\* The middle of a range is below its end.
LEMMA HalfOf ==
    ASSUME NEW a \in Nat, NEW b \in Nat, a < b
    PROVE  (a + b) \div 2 \in a .. b - 1
OBVIOUS

\* A step of the search goes to a smaller range.
LEMMA StepShrinks ==
    ASSUME NEW r \in Ranges, r[1] < r[2], NEW u
    PROVE  /\ Step(r[1], r[2], u) \in Ranges
           /\ Step(r[1], r[2], u)[2] - Step(r[1], r[2], u)[1] < r[2] - r[1]
<1> DEFINE mid == (r[1] + r[2]) \div 2
           s == Step(r[1], r[2], u)
<1>1. /\ r[1] \in 1 .. Len(Table) /\ r[2] \in 0 .. Len(Table) /\ Len(Table) \in Nat
    BY TableOf DEF Ranges
<1>2. mid \in r[1] .. r[2] - 1
    BY <1>1, HalfOf
<1>3. s = << mid + 1, r[2] >> \/ s = << r[1], mid >>
    BY DEF Step
<1> HIDE DEF mid, s
<1>4. CASE s = << mid + 1, r[2] >>
  <2>1. mid + 1 \in 1 .. Len(Table) /\ r[2] - (mid + 1) < r[2] - r[1]
    BY <1>1, <1>2
  <2>2. s \in Ranges /\ s[2] - s[1] < r[2] - r[1]
    BY <1>1, <1>4, <2>1 DEF Ranges
  <2>3. QED
    BY <2>2 DEF s
<1>5. CASE s = << r[1], mid >>
  <2>1. mid \in 0 .. Len(Table) /\ mid - r[1] < r[2] - r[1]
    BY <1>1, <1>2
  <2>2. s \in Ranges /\ s[2] - s[1] < r[2] - r[1]
    BY <1>1, <1>5, <2>1 DEF Ranges
  <2>3. QED
    BY <2>2 DEF s
<1>6. QED
    BY <1>3, <1>4, <1>5

\* The recursion of Lookup is founded.
LEMMA SearchExists ==
    ASSUME NEW u
    PROVE  \E g : g = [r \in Ranges |-> IF r[1] < r[2] THEN g[Step(r[1], r[2], u)] ELSE r[1]]
<1> DEFINE Upto(k) == {r \in Ranges : r[2] - r[1] <= k}
           Is(g, k) == g = [r \in Upto(k) |-> IF r[1] < r[2] THEN g[Step(r[1], r[2], u)] ELSE r[1]]
           none == {k \in Nat : ~ \E g : Is(g, k)}
<1>1. \A r \in Ranges : r[1] \in Nat /\ r[2] \in Nat /\ r[2] - r[1] <= Len(Table)
    BY TableOf DEF Ranges
<1>2. none = {}
  <2> SUFFICES ASSUME none # {} PROVE FALSE
    OBVIOUS
  <2>1. PICK k \in none : \A j \in none : k <= j
    BY HasLeast
  <2>2. k # 0
    <3> DEFINE g == [r \in Upto(0) |-> r[1]]
    <3>1. \A r \in Upto(0) : ~ (r[1] < r[2])
      BY <1>1
    <3> HIDE DEF Upto
    <3>2. g = [r \in Upto(0) |-> IF r[1] < r[2] THEN g[Step(r[1], r[2], u)] ELSE r[1]]
      BY <3>1
    <3>3. Is(g, 0)
      BY <3>2
    <3>4. QED
      BY <2>1, <3>3
  <2>3. k - 1 \in Nat /\ k - 1 \notin none
    <3>1. k \in Nat /\ k - 1 \in Nat /\ ~ (k <= k - 1)
      BY <2>1, <2>2
    <3> HIDE DEF none
    <3>2. QED
      BY <2>1, <3>1
  <2>4. PICK g : Is(g, k - 1)
    BY <2>3
  <2> DEFINE h == [r \in Upto(k) |-> IF r[1] < r[2] THEN g[Step(r[1], r[2], u)] ELSE r[1]]
  <2>5. \A r \in Upto(k - 1) : r \in Upto(k) /\ h[r] = g[r]
    BY <1>1, <2>1, <2>4
  <2>6. ASSUME NEW r \in Upto(k), r[1] < r[2]
        PROVE  h[Step(r[1], r[2], u)] = g[Step(r[1], r[2], u)]
    <3>1. r \in Ranges /\ r[2] - r[1] <= k /\ k \in Nat /\ r[1] \in Nat /\ r[2] \in Nat
      BY <1>1, <2>1
    <3> DEFINE s == Step(r[1], r[2], u)
    <3>2. s \in Ranges /\ s[2] - s[1] < r[2] - r[1]
      BY <2>6, <3>1, StepShrinks
    <3>3. s[1] \in Nat /\ s[2] \in Nat
      BY <1>1, <3>2
    <3> HIDE DEF s
    <3>4. s \in Upto(k - 1)
      BY <3>1, <3>2, <3>3
    <3> HIDE DEF h, Upto
    <3>5. h[s] = g[s]
      BY <2>5, <3>4
    <3>6. QED
      BY <3>5 DEF s
  <2>7. Is(h, k)
    BY <2>6
  <2>8. QED
    BY <2>1, <2>7
<1>3. Upto(Len(Table)) = Ranges /\ Len(Table) \in Nat
    BY <1>1, TableOf
<1>4. \E g : Is(g, Len(Table))
  <2>1. Len(Table) \notin none
    BY <1>2
  <2>2. QED
    BY <1>3, <2>1
<1>5. QED
    BY <1>3, <1>4

\* lookup answers the first place whose weight reaches u.
LEMMA LookupIs ==
    ASSUME NEW u \in Draws
    PROVE  /\ Lookup(u) \in 1 .. Len(Table) /\ u <= Table[Lookup(u)].cdf
           /\ Lookup(u) > 1 => Table[Lookup(u) - 1].cdf < u
<1> DEFINE L == Len(Table)
           g == CHOOSE h : h = [r \in Ranges |-> IF r[1] < r[2] THEN h[Step(r[1], r[2], u)] ELSE r[1]]
           Fits(r) == r[1] >= 2 /\ r[1] <= r[2] /\ Table[r[1] - 1].cdf < u /\ u <= Table[r[2]].cdf
           Right(i) == i \in 2 .. L /\ Table[i - 1].cdf < u /\ u <= Table[i].cdf
           wrong == {r \in Ranges : Fits(r) /\ ~Right(g[r])}
           sizes == {r[2] - r[1] : r \in wrong}
<1>1. L \in Nat \ {0} /\ u \in Nat /\ u <= Table[L].cdf /\ \A i \in 1 .. L : Table[i].cdf \in Nat
    BY TableOf
<1>2. Lookup(u) = IF u <= Table[1].cdf THEN 1 ELSE g[<< 2, L >>]
    BY DEF Lookup, Ranges
<1>3. g = [r \in Ranges |-> IF r[1] < r[2] THEN g[Step(r[1], r[2], u)] ELSE r[1]]
    BY SearchExists
<1> HIDE DEF g
<1>4. \A r \in Ranges : r[1] \in 1 .. L /\ r[2] \in 0 .. L
    BY DEF Ranges
<1>5. wrong = {}
  <2> SUFFICES ASSUME wrong # {} PROVE FALSE
    OBVIOUS
  <2>1. sizes \in SUBSET Nat /\ sizes # {}
    BY <1>1, <1>4
  <2>2. PICK k \in sizes : \A j \in sizes : k <= j
    <3> HIDE DEF sizes
    <3>1. QED
      BY <2>1, HasLeast
  <2>3. PICK r \in wrong : k = r[2] - r[1]
    BY <2>2
  <2>4. r \in Ranges /\ Fits(r) /\ ~Right(g[r]) /\ r[1] \in 1 .. L /\ r[2] \in 0 .. L
    BY <1>4, <2>3
  <2>5. r[1] < r[2]
    <3> SUFFICES ASSUME ~ (r[1] < r[2]) PROVE FALSE
      OBVIOUS
    <3>1. r[1] = r[2]
      BY <1>1, <2>4
    <3>2. g[r] = r[1]
      BY <1>3, <2>4
    <3>3. QED
      BY <1>1, <2>4, <3>1, <3>2
  <2> DEFINE mid == (r[1] + r[2]) \div 2
             s == Step(r[1], r[2], u)
  <2>6. mid \in r[1] .. r[2] - 1 /\ mid \in 1 .. L
    BY <1>1, <2>4, <2>5, HalfOf
  <2>7. s = IF u > Table[mid].cdf THEN << mid + 1, r[2] >> ELSE << r[1], mid >>
    BY DEF Step
  <2>8. s \in Ranges /\ s[2] - s[1] < r[2] - r[1] /\ g[r] = g[s]
    BY <1>3, <2>4, <2>5, StepShrinks
  <2> HIDE DEF mid, s
  <2>9. Fits(s)
    <3>1. CASE u > Table[mid].cdf
      <4>1. s[1] = mid + 1 /\ s[2] = r[2] /\ (mid + 1) - 1 = mid
        BY <2>6, <2>7, <3>1
      <4>2. QED
        BY <1>1, <2>4, <2>6, <3>1, <4>1
    <3>2. CASE ~ (u > Table[mid].cdf)
      <4>1. s[1] = r[1] /\ s[2] = mid /\ u <= Table[mid].cdf
        BY <1>1, <2>6, <2>7, <3>2
      <4>2. QED
        BY <1>1, <2>4, <2>6, <4>1
    <3>3. QED
      BY <3>1, <3>2
  <2>10. s \notin wrong
    <3>1. s[2] - s[1] \in Int /\ k \in Int /\ s[2] - s[1] < k
      <4>1. s[1] \in Int /\ s[2] \in Int
        BY <1>1, <1>4, <2>8
      <4>2. QED
        BY <1>1, <2>3, <2>4, <2>8, <4>1
    <3>x. ~ (k <= s[2] - s[1])
      BY <3>1
    <3>2. s \in wrong => s[2] - s[1] \in sizes
      OBVIOUS
    <3> HIDE DEF sizes, wrong
    <3>3. QED
      BY <2>2, <3>x, <3>2
  <2>11. Right(g[s])
    BY <2>8, <2>9, <2>10
  <2>12. QED
    BY <2>4, <2>8, <2>11
<1>6. CASE u <= Table[1].cdf
    BY <1>1, <1>2, <1>6
<1>7. CASE ~ (u <= Table[1].cdf)
  <2>1. L # 1
    <3>1. L = 1 => Table[L].cdf = Table[1].cdf
      OBVIOUS
    <3> HIDE DEF L
    <3>2. QED
      BY <1>1, <1>7, <3>1
  <2>2. << 2, L >> \in Ranges
    <3>1. 2 \in 1 .. L /\ L \in 0 .. L
      <4>1. L \in Nat \ {0}
        BY <1>1
      <4> HIDE DEF L
      <4>2. QED
        BY <2>1, <4>1
    <3>2. QED
      BY <3>1 DEF Ranges
  <2>3. Fits(<< 2, L >>)
    <3>1. Table[2 - 1].cdf < u /\ 2 <= L
      BY <1>1, <1>7, <2>1
    <3>2. << 2, L >>[1] = 2 /\ << 2, L >>[2] = L
      OBVIOUS
    <3>3. QED
      BY <1>1, <3>1, <3>2
  <2>4. Right(g[<< 2, L >>])
    BY <1>5, <2>2, <2>3
  <2>5. QED
    BY <1>1, <1>2, <1>7, <2>4
<1>8. QED
    BY <1>6, <1>7

\* Sizes are natural.
LEMMA SizeNat ==
    ASSUME NEW u \in Draws
    PROVE  SizeOf(u) \in Nat
<1>1. /\ Len(Table) \in Nat \ {0} /\ u \in Nat
      /\ \A i \in 1 .. Len(Table) : Table[i].val \in Nat /\ Table[i].cdf \in Nat
      /\ \A i \in 2 .. Len(Table) : Table[i].cdf > Table[i - 1].cdf /\ Table[i].val >= Table[i - 1].val
    BY TableOf
<1>2. Interpolated(u) \in Nat
  <2> DEFINE mid == Lookup(u)
             lo  == Table[mid - 1]
             hi  == Table[mid]
  <2>1. mid \in 1 .. Len(Table) /\ (mid > 1 => lo.cdf < u)
    BY LookupIs
  <2>2. Interpolated(u) = IF mid > 1 /\ u < hi.cdf
            THEN lo.val + (2 * (u - lo.cdf) * (hi.val - lo.val) + (hi.cdf - lo.cdf)) \div (2 * (hi.cdf - lo.cdf))
            ELSE hi.val
    BY DEF Interpolated
  <2>3. hi.val \in Nat
    BY <1>1, <2>1
  <2>4. ASSUME mid > 1
        PROVE  lo.val + (2 * (u - lo.cdf) * (hi.val - lo.val) + (hi.cdf - lo.cdf)) \div (2 * (hi.cdf - lo.cdf)) \in Nat
    <3>1. mid \in 2 .. Len(Table) /\ mid - 1 \in 1 .. Len(Table)
      BY <1>1, <2>1, <2>4
    <3>2. /\ lo.val \in Nat /\ lo.cdf \in Nat /\ hi.val \in Nat /\ hi.cdf \in Nat
          /\ hi.cdf > lo.cdf /\ hi.val >= lo.val /\ lo.cdf < u
      BY <1>1, <2>1, <2>4, <3>1
    <3> HIDE DEF lo, hi, mid
    <3> DEFINE a == u - lo.cdf
               b == hi.val - lo.val
               c == hi.cdf - lo.cdf
    <3>3. a \in Nat /\ b \in Nat /\ c \in Nat \ {0}
      BY <1>1, <3>2
    <3> HIDE DEF a, b, c
    <3>4. 2 * a * b + c \in Nat /\ 2 * c \in Nat \ {0}
      <4>1. \A x, y \in Nat : x * y \in Nat
        OBVIOUS
      <4>2. QED
        BY <3>3, <4>1
    <3>5. (2 * a * b + c) \div (2 * c) \in Nat
      BY <3>4, DivMod
    <3>6. QED
      BY <3>2, <3>5 DEF a, b, c
  <2> HIDE DEF mid, lo, hi
  <2>5. QED
    BY <2>2, <2>3, <2>4
<1>3. Table[FirstReaching(u)].val \in Nat
  <2> DEFINE reach == {i \in DOMAIN Table : u <= Table[i].cdf}
  <2>1. DOMAIN Table = 1 .. Len(Table)
    BY GeneratorAssumption, LenProperties
  <2>2. reach = {} => FirstReaching(u) = Len(Table)
    BY DEF FirstReaching
  <2>3. reach # {} => FirstReaching(u) \in reach
    <3> SUFFICES ASSUME reach # {} PROVE FirstReaching(u) \in reach
      OBVIOUS
    <3>1. reach \in SUBSET Nat
      BY <2>1
    <3>2. FirstReaching(u) = Min(reach)
      BY DEF FirstReaching
    <3> HIDE DEF reach
    <3>3. \E i \in reach : \A j \in reach : i <= j
      BY <3>1, HasLeast
    <3>4. QED
      BY <3>2, <3>3 DEF Min
  <2>4. FirstReaching(u) \in 1 .. Len(Table)
    BY <1>1, <2>1, <2>2, <2>3
  <2>5. QED
    BY <1>1, <2>4
<1>4. QED
    BY <1>2, <1>3 DEF SizeOf

-----------------------------------------------------------------------------
(* The traffic matrix                                                      *)

FlowSet == [id : Nat, start_time : Nat, draw : Nat, size : Nat \ {0}, src : Nat, dst : Nat]

\* Topologies and generators that go together.
Kinds ==
    /\ topo \in {"FatTree", "LeafSpine"} /\ generator \in Generator /\ phase \in {"draw", "create", "run", "done"}
    /\ cut_through \in BOOLEAN
    /\ topo = "FatTree" => generator = "Reader" /\ cut_through = FALSE

\* What has been drawn so far, by generator.
PermutationSoFar ==
    /\ host \in 0 .. N
    /\ \A p \in drawn : p \in AllPairs /\ p[1] < host
    /\ \A h \in 0 .. N - 1 : h < host => \E p \in drawn : p[1] = h
    /\ \A p, q \in drawn : p[1] = q[1] \/ p[2] = q[2] => p = q
    /\ phase # "draw" => host = N

\* Sources for host 0.
IncastSoFar ==
    /\ IsFiniteSet(drawn)
    /\ \A p \in drawn : p[1] \in 1 .. N - 1 /\ p = << p[1], 0 >>
    /\ phase # "draw" => Cardinality(drawn) = Incast

\* No pair is ever drawn.
OutcastSoFar == host = 0 /\ drawn = {} /\ phase = "draw"

\* Members of a cluster are << host, place, sender >>.
ClustersSoFar ==
    /\ host \in 0 .. N /\ (host = 0 => drawn = {})
    /\ \A c \in drawn : c[1] \in 0 .. N - 1
    /\ \A c, d \in drawn : c[1] = d[1] => c = d
    /\ host > 0 /\ N >= NumHostTypes => \E c, d \in drawn : c[2] = 0 /\ d[2] = 1 /\ c[3] = d[3]
    /\ phase # "draw" => host = N

\* What has been drawn, whichever generator there is.
Drawn ==
    /\ generator = "Permutation" => PermutationSoFar
    /\ generator = "Incast" => IncastSoFar
    /\ generator = "Outcast" => OutcastSoFar
    /\ generator = "DcScale" => ClustersSoFar

\* The events that make flows.
IsCreation(e) == e = Creation(e.src, e.dst, e.k, e.time) /\ e.time \in Nat /\ e.src \in Nat /\ e.dst \in Nat

\* Flows and the events that make them, of pairs that were drawn.
Made ==
    /\ flows_to_schedule \in Seq(FlowSet)
    /\ phase = "draw" => event_queue = {} /\ flows_to_schedule = <<>>
    /\ phase = "create" =>
          /\ generator = "Reader" => event_queue = {}
          /\ generator # "Reader" => \A e \in event_queue : IsCreation(e) /\ << e.src, e.dst >> \in Pairs
    /\ phase # "draw" /\ generator # "Reader" =>
          \A i \in 1 .. Len(flows_to_schedule) :
              << flows_to_schedule[i].src, flows_to_schedule[i].dst >> \in Pairs

\* What holds of the flows from the first draw to the end of the run.
GenInv == Kinds /\ Drawn /\ Made

\* Either topology has hosts.
LEMMA HostsNat ==
    ASSUME Kinds
    PROVE  N \in Nat \ {0}
<1>1. NumHosts \in Nat \ {0}
    BY LeafSpineAssumption
<1>2. FtHosts \in Nat \ {0}
  <2>1. K \in Nat \ {0} /\ K % 2 = 0
    BY ArityAssumption
  <2>2. Half \in Nat /\ K = Half * 2 + (K % 2)
    BY <2>1, DivMod DEF Half
  <2>3. Half \in Nat \ {0}
    BY <2>1, <2>2
  <2>4. \A x, y \in Nat \ {0} : x * y \in Nat \ {0}
    OBVIOUS
  <2>5. QED
    BY <2>1, <2>3, <2>4 DEF FtHosts
<1>3. QED
    BY <1>1, <1>2 DEF N, HostsOf

\* The matrix is made of what was drawn.
LEMMA PairsKept ==
    ASSUME UNCHANGED << topo, generator, drawn >>
    PROVE  N' = N /\ AllPairs' = AllPairs /\ Pairs' = Pairs
<1>1. N' = N
    BY DEF N, HostsOf
<1>2. AllPairs' = AllPairs
    BY <1>1 DEF AllPairs
<1>3. RackPairs' = RackPairs
    BY <1>2 DEF RackPairs
<1>4. DcPairs' = DcPairs
    BY DEF DcPairs
<1>5. LocalPairs(HostsPerAgg)' = LocalPairs(HostsPerAgg)
    BY <1>2 DEF LocalPairs, HostsPerAgg
<1>6. QED
    BY <1>1, <1>2, <1>3, <1>4, <1>5 DEF Pairs, PoissonPairs, BytesPairs, WorstcasePairs

\* Pairs of two hosts.
LEMMA AllPairsIs ==
    ASSUME NEW p
    PROVE  p \in AllPairs <=> p \in (0 .. N - 1) \X (0 .. N - 1) /\ p[1] # p[2]
    BY DEF AllPairs

\* No host is paired with itself.
LEMMA PairsApart ==
    ASSUME Kinds, Drawn, generator # "Reader"
    PROVE  Pairs \subseteq AllPairs
<1>1. N \in Nat \ {0}
    BY HostsNat
<1>2. generator = "Permutation" => Pairs \subseteq AllPairs
    BY DEF Pairs, Drawn, PermutationSoFar
<1>3. generator = "Outcast" => Pairs \subseteq AllPairs
    BY DEF Pairs, Drawn, OutcastSoFar
<1>4. ASSUME generator = "Incast"
      PROVE  Pairs \subseteq AllPairs
  <2>1. \A p \in Pairs : p[1] \in 1 .. N - 1 /\ p = << p[1], 0 >>
    BY <1>4 DEF Pairs, Drawn, IncastSoFar
  <2>2. \A i \in 1 .. N - 1 : << i, 0 >> \in AllPairs
    BY <1>1, AllPairsIs
  <2>3. QED
    BY <2>1, <2>2
<1>5. ASSUME generator = "DcScale"
      PROVE  Pairs \subseteq AllPairs
  <2>1. /\ \A c \in drawn : c[1] \in 0 .. N - 1
        /\ \A c, d \in drawn : c[1] = d[1] => c = d
    BY <1>5 DEF Drawn, ClustersSoFar
  <2>2. ASSUME NEW p \in DcPairs
        PROVE  p \in AllPairs
    <3>1. PICK i \in drawn, c \in drawn : p = << i[1], c[1] >> /\ c # i
      BY DEF DcPairs
    <3>2. QED
      BY <2>1, <3>1, AllPairsIs
  <2>3. Pairs = DcPairs
    BY <1>5 DEF Pairs
  <2>4. QED
    BY <2>2, <2>3
<1>6. generator = "RackScale" => Pairs \subseteq AllPairs
    BY DEF Pairs, RackPairs
<1>7. generator = "PoissonLocal" => Pairs \subseteq AllPairs
    BY DEF Pairs, LocalPairs
<1>8. generator \in {"Poisson", "Bytes", "Worstcase"} => Pairs \subseteq AllPairs
    BY DEF Pairs, PoissonPairs, BytesPairs, WorstcasePairs
<1>9. generator \in {"Poisson", "Bytes", "PoissonLocal", "Worstcase", "Permutation", "Incast", "Outcast",
                     "RackScale", "DcScale", "Reader"}
    BY GeneratorAssumption DEF Kinds
<1>10. QED
    BY <1>2, <1>3, <1>4, <1>5, <1>6, <1>7, <1>8, <1>9

\* An order of the sources of a permutation gives one of the destinations.
LEMMA PermutationOnto ==
    ASSUME N \in Nat \ {0}, PermutationSoFar, host = N
    PROVE  \A h \in 0 .. N - 1 : /\ \E p \in drawn : {q \in drawn : q[1] = h} = {p}
                                 /\ \E p \in drawn : {q \in drawn : q[2] = h} = {p}
<1> DEFINE S == 0 .. N - 1
<1>1. /\ \A p \in drawn : p[1] \in S /\ p[2] \in S
      /\ \A h \in S : \E p \in drawn : p[1] = h
      /\ \A p, q \in drawn : p[1] = q[1] \/ p[2] = q[2] => p = q
    BY AllPairsIs DEF PermutationSoFar
<1> DEFINE of(h) == CHOOSE p \in drawn : p[1] = h
           d == [h \in S |-> of(h)[2]]
<1>2. \A h \in S : of(h) \in drawn /\ of(h)[1] = h
    BY <1>1
<1>3. d \in [S -> S] /\ \A g, h \in S : d[g] = d[h] => g = h
  <2> HIDE DEF S, of
  <2>1. \A h \in S : d[h] = of(h)[2] /\ d[h] \in S
    BY <1>1, <1>2
  <2>2. d \in [S -> S]
    BY <2>1
  <2>3. \A g, h \in S : d[g] = d[h] => of(g) = of(h)
    BY <1>1, <1>2, <2>1
  <2>4. QED
    BY <1>2, <2>2, <2>3
<1>4. d \in Injection(S, S)
  <2> HIDE DEF S, d
  <2>1. QED
    BY <1>3 DEF Injection, IsInjective
<1>5. IsFiniteSet(S)
    BY FS_Interval
<1>6. d \in Surjection(S, S)
  <2> HIDE DEF S, d
  <2>1. QED
    BY <1>4, <1>5, FS_Injection
<1>7. \A h \in S : \E g \in S : d[g] = h
  <2> HIDE DEF S, d
  <2>1. QED
    BY <1>6 DEF Surjection
<1>8. \A h \in S : \E p \in drawn : p[2] = h
  <2> HIDE DEF of
  <2>1. QED
    BY <1>2, <1>7
<1>9. QED
    BY <1>1, <1>8

LEMMA GenInit ==
    ASSUME RunInit
    PROVE  GenInv
<1>1. Kinds
    BY DEF RunInit, GeneratorInit, Kinds
<1>2. N \in Nat \ {0}
    BY <1>1, HostsNat
<1>3. phase = "draw" /\ host = 0 /\ drawn = {} /\ event_queue = {} /\ flows_to_schedule = <<>>
    BY DEF RunInit, GeneratorInit
<1>4. Drawn
  <2>1. PermutationSoFar
    BY <1>2, <1>3 DEF PermutationSoFar
  <2>2. IncastSoFar
    BY <1>3, FS_EmptySet DEF IncastSoFar
  <2>3. OutcastSoFar
    BY <1>3 DEF OutcastSoFar
  <2>4. ClustersSoFar
    BY <1>2, <1>3 DEF ClustersSoFar
  <2>5. QED
    BY <2>1, <2>2, <2>3, <2>4 DEF Drawn
<1>5. Made
    BY <1>3, EmptySeq DEF Made
<1>6. QED
    BY <1>1, <1>4, <1>5 DEF GenInv

\* A draw makes no flows yet.
LEMMA DrawsMakeNone ==
    ASSUME GenInv, phase = "draw",
           UNCHANGED << topo, generator, phase, event_queue, flows_to_schedule, cut_through >>
    PROVE  Kinds' /\ Made'
<1>1. Kinds'
    BY DEF GenInv, Kinds
<1>2. event_queue' = {} /\ flows_to_schedule' = <<>> /\ phase' = "draw"
    BY DEF GenInv, Made
<1>3. Made'
    BY <1>2, EmptySeq DEF Made
<1>4. QED
    BY <1>1, <1>3

\* The destination of a host is another one that nobody sends to yet.
LEMMA DrawPermutationKeeps ==
    ASSUME GenInv, DrawPermutation, UNCHANGED runvars
    PROVE  GenInv'
<1>1. PICK j \in 0 .. N - 1 : j # host /\ j \notin Taken /\ DrawsFrom({<< host, j >>})
    BY DEF DrawPermutation
<1>2. /\ generator = "Permutation" /\ phase = "draw" /\ host < N /\ host' = host + 1
      /\ drawn' = drawn \cup {<< host, j >>} /\ cut_through' = cut_through
      /\ UNCHANGED << topo, generator, phase, event_queue, flows_to_schedule >>
    BY <1>1 DEF DrawPermutation, DrawsFrom, runvars
<1>3. Kinds' /\ Made'
    BY <1>2, DrawsMakeNone
<1>4. N \in Nat \ {0} /\ PermutationSoFar
    BY <1>2, HostsNat DEF GenInv, Drawn
<1>5. N' = N /\ AllPairs' = AllPairs
  <2>1. N' = N
    BY <1>2 DEF N, HostsOf
  <2>2. QED
    BY <2>1 DEF AllPairs
<1>6. \A p \in drawn : p[2] # j
    BY <1>1 DEF Taken, Destinations
<1>7. host \in 0 .. N - 1 /\ host' \in 0 .. N
    BY <1>2, <1>4 DEF PermutationSoFar
<1>8. << host, j >> \in AllPairs /\ << host, j >>[1] = host /\ << host, j >>[2] = j
    BY <1>1, <1>4, <1>7, AllPairsIs
<1>9. /\ \A p \in drawn : p \in AllPairs /\ p[1] < host /\ p[1] \in Nat
      /\ \A h \in 0 .. N - 1 : h < host => \E p \in drawn : p[1] = h
      /\ \A p, q \in drawn : p[1] = q[1] \/ p[2] = q[2] => p = q
    BY <1>4, AllPairsIs DEF PermutationSoFar
<1>10. \A p \in drawn' : p \in AllPairs /\ p[1] < host'
    BY <1>2, <1>7, <1>8, <1>9
<1>11. \A h \in 0 .. N - 1 : h < host' => \E p \in drawn' : p[1] = h
  <2>1. \A h \in 0 .. N - 1 : h < host' => h < host \/ h = host
    BY <1>2, <1>7
  <2>2. QED
    BY <1>2, <1>8, <1>9, <2>1
<1>12. \A p, q \in drawn' : p[1] = q[1] \/ p[2] = q[2] => p = q
  <2>1. \A p \in drawn : p[1] # host
    BY <1>7, <1>9
  <2>2. QED
    BY <1>2, <1>6, <1>8, <1>9, <2>1
<1>13. PermutationSoFar'
    BY <1>2, <1>5, <1>7, <1>10, <1>11, <1>12 DEF PermutationSoFar
<1>14. QED
    BY <1>2, <1>3, <1>13 DEF GenInv, Drawn

\* One more source for host 0.
LEMMA DrawIncastKeeps ==
    ASSUME GenInv, DrawIncast, UNCHANGED runvars
    PROVE  GenInv'
<1>1. PICK j \in 1 .. N - 1 : DrawsFrom({<< j, 0 >>})
    BY DEF DrawIncast
<1>2. /\ generator = "Incast" /\ phase = "draw"
      /\ drawn' = drawn \cup {<< j, 0 >>} /\ cut_through' = cut_through
      /\ UNCHANGED << topo, generator, phase, event_queue, flows_to_schedule >>
    BY <1>1 DEF DrawIncast, DrawsFrom, runvars
<1>3. Kinds' /\ Made'
    BY <1>2, DrawsMakeNone
<1>4. IncastSoFar /\ N' = N
    BY <1>2 DEF GenInv, Drawn, N, HostsOf
<1>5. IsFiniteSet(drawn')
    BY <1>2, <1>4, FS_AddElement DEF IncastSoFar
<1>6. \A p \in drawn' : p[1] \in 1 .. N - 1 /\ p = << p[1], 0 >>
    BY <1>2, <1>4 DEF IncastSoFar
<1>7. IncastSoFar'
    BY <1>2, <1>4, <1>5, <1>6 DEF IncastSoFar
<1>8. QED
    BY <1>2, <1>3, <1>7 DEF GenInv, Drawn

\* OutcastTM never draws a pair.
LEMMA DrawOutcastKeeps ==
    ASSUME GenInv, DrawOutcast, UNCHANGED runvars
    PROVE  GenInv'
<1>1. generator = "Outcast" /\ drawn = {} /\ host = 0 /\ phase = "draw"
    BY DEF DrawOutcast, GenInv, Drawn, OutcastSoFar
<1> DEFINE dst == {p \in drawn : p[1] = host}
<1>2. PICK j \in (0 .. N - 1) \ {host} :
          /\ DrawsFrom(IF Cardinality(dst) < Outcast THEN dst \cap {<< host, j >>} ELSE {})
          /\ host' = IF Cardinality(dst) = Outcast THEN host + 1 ELSE host
    BY DEF DrawOutcast
<1>3. dst = {} /\ Cardinality({}) = 0
    BY <1>1, FS_EmptySet
<1>4. drawn' = {} /\ host' = 0 /\ cut_through' = cut_through
      /\ UNCHANGED << topo, generator, phase, event_queue, flows_to_schedule >>
    BY <1>1, <1>2, <1>3, GeneratorAssumption DEF DrawsFrom, runvars
<1>5. Kinds' /\ Made'
    BY <1>1, <1>4, DrawsMakeNone
<1>6. QED
    BY <1>1, <1>4, <1>5 DEF GenInv, Drawn, OutcastSoFar

LEMMA DrawClusterKeeps ==
    ASSUME GenInv, DrawCluster, UNCHANGED runvars
    PROVE  GenInv'
<1>1. /\ generator = "DcScale" /\ phase = "draw" /\ host < N /\ host' = host + 1
      /\ cut_through' = cut_through /\ UNCHANGED << topo, generator, phase, event_queue, flows_to_schedule >>
    BY DEF DrawCluster, DrawsFrom, runvars
<1>2. Kinds' /\ Made'
    BY <1>1, DrawsMakeNone
<1>3. N \in Nat \ {0} /\ ClustersSoFar /\ N' = N
    BY <1>1, HostsNat DEF GenInv, Drawn, N, HostsOf
<1>4. host \in 0 .. N - 1 /\ host' \in 0 .. N /\ host' > 0
    BY <1>1, <1>3 DEF ClustersSoFar
<1>5. /\ \A c \in drawn : c[1] \in 0 .. N - 1
      /\ \A c, d \in drawn : c[1] = d[1] => c = d
    BY <1>3 DEF ClustersSoFar
<1>6. CASE host \in Unfilled /\ Cardinality(Unfilled) >= NumHostTypes
  <2>1. PICK others \in [1 .. NumHostTypes - 1 -> Free \ {host}] :
            /\ IsInjective(others)
            /\ DrawsFrom({<< host, 0, host >>} \cup {<< others[t], t, host >> : t \in DOMAIN others})
    BY <1>6 DEF DrawCluster
  <2> DEFINE own == << host, 0, host >>
             new == {<< others[t], t, host >> : t \in 1 .. NumHostTypes - 1}
  <2>2. drawn' = drawn \cup {own} \cup new
    BY <2>1 DEF DrawsFrom
  <2>3. \A c \in drawn : c[1] \notin Unfilled
    BY DEF Unfilled
  <2>4. /\ \A t \in 1 .. NumHostTypes - 1 : others[t] \in Unfilled /\ others[t] # host /\ others[t] \in 0 .. N - 1
        /\ \A s, t \in 1 .. NumHostTypes - 1 : others[s] = others[t] => s = t
    BY <2>1 DEF Free, IsInjective, Unfilled
  <2>5. own[1] = host /\ own[2] = 0 /\ own[3] = host
    OBVIOUS
  <2>6. \A c \in new : \E t \in 1 .. NumHostTypes - 1 : c = << others[t], t, host >> /\ c[1] = others[t] /\ c[2] = t /\ c[3] = host
    OBVIOUS
  <2>7. \A c \in drawn' : c[1] \in 0 .. N - 1
    BY <1>4, <1>5, <2>2, <2>4, <2>5, <2>6
  <2>8. \A c, d \in drawn' : c[1] = d[1] => c = d
    <3> HIDE DEF own, new
    <3>1. \A c \in new, d \in new : c[1] = d[1] => c = d
      BY <2>4, <2>6
    <3>2. \A c \in new : c[1] \in Unfilled /\ c[1] # host
      BY <2>4, <2>6
    <3>3. QED
      BY <1>5, <1>6, <2>2, <2>3, <2>5, <3>1, <3>2
  <2>9. \E c, d \in drawn' : c[2] = 0 /\ d[2] = 1 /\ c[3] = d[3]
    <3>1. 1 \in 1 .. NumHostTypes - 1
      BY GeneratorAssumption
    <3>2. << others[1], 1, host >> \in new
      BY <3>1
    <3> HIDE DEF new
    <3>3. own \in drawn' /\ << others[1], 1, host >> \in drawn'
      BY <2>2, <3>2
    <3>4. QED
      BY <2>5, <3>3
  <2>10. ClustersSoFar'
    BY <1>1, <1>3, <1>4, <2>7, <2>8, <2>9 DEF ClustersSoFar
  <2>11. QED
    BY <1>1, <1>2, <2>10 DEF GenInv, Drawn
<1>7. CASE ~ (host \in Unfilled /\ Cardinality(Unfilled) >= NumHostTypes)
  <2>1. drawn' = drawn
    BY <1>7 DEF DrawCluster, DrawsFrom
  <2>2. host > 0 \/ ~ (N >= NumHostTypes)
    <3> SUFFICES ASSUME host = 0, N >= NumHostTypes PROVE FALSE
      BY <1>4
    <3>1. Unfilled = 0 .. N - 1
      BY <1>3 DEF ClustersSoFar, Unfilled
    <3>2. Cardinality(Unfilled) = N /\ host \in Unfilled
      BY <1>3, <1>4, <3>1, FS_Interval
    <3>3. QED
      BY <1>7, <3>2
  <2>3. ClustersSoFar'
    BY <1>1, <1>3, <1>4, <2>1, <2>2 DEF ClustersSoFar
  <2>4. QED
    BY <1>1, <1>2, <2>3 DEF GenInv, Drawn
<1>8. QED
    BY <1>6, <1>7

\* From the draws to the flows: what was drawn stays.
LEMMA DrawnStays ==
    ASSUME GenInv, UNCHANGED << topo, generator, host, drawn, cut_through >>,
           phase = "draw" /\ generator \in {"Permutation", "DcScale"} => host = N,
           phase = "draw" /\ generator = "Incast" => Cardinality(drawn) = Incast,
           phase = "draw" => generator # "Outcast",
           phase' \in {"create", "run", "done"}
    PROVE  Kinds' /\ Drawn' /\ Pairs' = Pairs
<1>1. Kinds'
    BY DEF GenInv, Kinds
<1>2. N' = N /\ AllPairs' = AllPairs /\ Pairs' = Pairs
    BY PairsKept
<1>3. Drawn
    BY DEF GenInv
<1>4. ASSUME generator = "Permutation" PROVE PermutationSoFar'
  <2>1. PermutationSoFar /\ host = N
    BY <1>3, <1>4 DEF Drawn, PermutationSoFar
  <2>2. QED
    BY <1>2, <2>1 DEF PermutationSoFar
<1>5. ASSUME generator = "Incast" PROVE IncastSoFar'
  <2>1. IncastSoFar /\ Cardinality(drawn) = Incast
    BY <1>3, <1>5 DEF Drawn, IncastSoFar
  <2>2. QED
    BY <1>2, <2>1 DEF IncastSoFar
<1>6. generator # "Outcast"
    BY <1>3 DEF Drawn, OutcastSoFar
<1>7. ASSUME generator = "DcScale" PROVE ClustersSoFar'
  <2>1. ClustersSoFar /\ host = N
    BY <1>3, <1>7 DEF Drawn, ClustersSoFar
  <2>2. QED
    BY <1>2, <2>1 DEF ClustersSoFar
<1>8. QED
    BY <1>1, <1>2, <1>4, <1>5, <1>6, <1>7 DEF Drawn

\* The pairs get their events.
LEMMA PostAllKeeps ==
    ASSUME GenInv, PostAll, UNCHANGED runvars
    PROVE  GenInv'
<1>1. /\ generator # "Reader" /\ phase = "draw" /\ DrawsEnd /\ phase' = "create"
      /\ UNCHANGED << topo, generator, host, drawn, flows_to_schedule, cut_through >>
    BY DEF PostAll, runvars
<1>2. N \in Nat \ {0}
    BY HostsNat DEF GenInv
<1>3. generator # "Outcast"
  <2>1. SUFFICES ASSUME generator = "Outcast" PROVE FALSE
    OBVIOUS
  <2>2. host = 0 /\ host = N
    BY <1>1, <2>1 DEF DrawsEnd, GenInv, Drawn, OutcastSoFar
  <2>3. QED
    BY <1>2, <2>2
<1>4. Kinds' /\ Drawn' /\ Pairs' = Pairs
    BY <1>1, <1>3, DrawnStays DEF DrawsEnd
<1>5. PICK n \in 0 .. MaxEarly, soon \in FirstGap, late \in FirstGap : \E early \in kSubset(n, Pairs \X Copies) :
          event_queue' = {Creation(x[1][1], x[1][2], x[2], 1 + (IF x \in early THEN soon ELSE late)) : x \in Pairs \X Copies}
    BY DEF PostAll
<1>6. PICK early : event_queue' = {Creation(x[1][1], x[1][2], x[2], 1 + (IF x \in early THEN soon ELSE late)) : x \in Pairs \X Copies}
    BY <1>5
<1>7. soon \in Nat /\ late \in Nat
    BY GeneratorAssumption DEF FirstGap
<1>8. Pairs \subseteq AllPairs
    BY <1>1, PairsApart DEF GenInv
<1>9. ASSUME NEW e \in event_queue'
      PROVE  IsCreation(e) /\ << e.src, e.dst >> \in Pairs
  <2>1. PICK x \in Pairs \X Copies : e = Creation(x[1][1], x[1][2], x[2], 1 + (IF x \in early THEN soon ELSE late))
    BY <1>6
  <2>2. x[1] \in Pairs /\ x[1] = << x[1][1], x[1][2] >> /\ x[1][1] \in Nat /\ x[1][2] \in Nat
    <3>1. x[1] \in AllPairs /\ x[1] \in Pairs
      BY <1>8
    <3>2. QED
      BY <1>2, <3>1, AllPairsIs
  <2> DEFINE t == 1 + (IF x \in early THEN soon ELSE late)
  <2>3. t \in Nat
    BY <1>7
  <2>4. e = Creation(x[1][1], x[1][2], x[2], t)
    BY <2>1
  <2> HIDE DEF t
  <2>5. e.src = x[1][1] /\ e.dst = x[1][2] /\ e.k = x[2] /\ e.time = t
    BY <2>4 DEF Creation
  <2>6. QED
    BY <2>2, <2>3, <2>4, <2>5 DEF IsCreation
<1>10. flows_to_schedule' = <<>>
    BY <1>1 DEF GenInv, Made
<1>11. Made'
    BY <1>1, <1>4, <1>9, <1>10, EmptySeq DEF Made
<1>12. QED
    BY <1>4, <1>11 DEF GenInv

\* The flows of a trace are flows.
LEMMA ReadTraceKeeps ==
    ASSUME GenInv, ReadTrace, UNCHANGED runvars
    PROVE  GenInv'
<1>1. /\ generator = "Reader" /\ phase = "draw" /\ phase' = "create"
      /\ UNCHANGED << topo, generator, host, drawn, event_queue, cut_through >>
    BY DEF ReadTrace, runvars
<1>2. Kinds' /\ Drawn'
    BY <1>1, DrawnStays
<1>3. event_queue' = {}
    BY <1>1 DEF GenInv, Made
<1>4. flows_to_schedule' \in Seq(FlowSet)
  <2>1. PICK trace \in Trace :
            LET read == {i \in DOMAIN trace : \A k \in 1 .. i : trace[k].kind # "malformed"}
                good == {i \in read : trace[i].kind = "flow" /\ trace[i].src < N /\ trace[i].dst < N}
            IN  \E line \in [1 .. Cardinality(good) -> good] :
                   flows_to_schedule' = [i \in DOMAIN line |->
                       LET l == trace[line[i]] IN Flow(l.id, l.start_time, 0, l.size, l.src, l.dst)]
    BY DEF ReadTrace
  <2> DEFINE read == {i \in DOMAIN trace : \A k \in 1 .. i : trace[k].kind # "malformed"}
             good == {i \in read : trace[i].kind = "flow" /\ trace[i].src < N /\ trace[i].dst < N}
  <2>2. PICK line \in [1 .. Cardinality(good) -> good] :
            flows_to_schedule' = [i \in DOMAIN line |->
                LET l == trace[line[i]] IN Flow(l.id, l.start_time, 0, l.size, l.src, l.dst)]
    BY <2>1
  <2>3. IsFiniteSet(DOMAIN trace) /\ good \subseteq DOMAIN trace
    BY GeneratorAssumption
  <2>4. Cardinality(good) \in Nat
    BY <2>3, FS_Subset, FS_CardinalityType
  <2>5. \A i \in good : trace[i] \in [kind : {"flow"}, id : Nat, start_time : Nat, size : Nat \ {0}, src : Nat, dst : Nat]
    BY GeneratorAssumption
  <2> HIDE DEF good
  <2>6. ASSUME NEW i \in 1 .. Cardinality(good)
        PROVE  LET l == trace[line[i]] IN Flow(l.id, l.start_time, 0, l.size, l.src, l.dst) \in FlowSet
    <3>1. line[i] \in good
      OBVIOUS
    <3> DEFINE l == trace[line[i]]
    <3>2. l \in [kind : {"flow"}, id : Nat, start_time : Nat, size : Nat \ {0}, src : Nat, dst : Nat]
      BY <2>5, <3>1
    <3> HIDE DEF l
    <3>3. Flow(l.id, l.start_time, 0, l.size, l.src, l.dst) \in FlowSet
      BY <3>2 DEF Flow, FlowSet
    <3>4. QED
      BY <3>3 DEF l
  <2>7. DOMAIN line = 1 .. Cardinality(good)
    OBVIOUS
  <2>8. flows_to_schedule' \in [1 .. Cardinality(good) -> FlowSet]
    BY <2>2, <2>6, <2>7
  <2>9. QED
    BY <2>4, <2>8, SeqDef
<1>5. Made'
    BY <1>1, <1>3, <1>4 DEF Made
<1>6. QED
    BY <1>2, <1>5 DEF GenInv

\* What is drawn as the size of a flow of an incast is one of the draws.
LEMMA MaxDraw == Max(Draws) \in Draws
<1> DEFINE n == Table[Len(Table)].cdf
           below == {n - u : u \in Draws}
<1>1. n \in Nat /\ \A u \in Draws : u \in Nat /\ u <= n
    BY TableOf
<1> HIDE DEF n
<1>2. below \in SUBSET Nat /\ below # {}
  <2>1. \A u \in Draws : n - u \in Nat
    BY <1>1
  <2>2. Draws # {}
    BY GeneratorAssumption
  <2>3. QED
    BY <2>1, <2>2
<1>3. PICK k \in below : \A j \in below : k <= j
  <2> HIDE DEF below
  <2>1. QED
    BY <1>2, HasLeast
<1>4. PICK u \in Draws : k = n - u
    BY <1>3
<1>5. \A v \in Draws : v <= u
  <2>1. \A v \in Draws : k <= n - v
    BY <1>3
  <2>2. QED
    BY <1>1, <1>4, <2>1
<1>6. QED
    BY <1>4, <1>5 DEF Max

\* A flow is made for a pair that was drawn, with a size from the table.
LEMMA CreateFlowKeeps ==
    ASSUME GenInv, CreateFlow, UNCHANGED runvars
    PROVE  GenInv'
<1>1. /\ phase = "create" /\ phase' = "create"
      /\ UNCHANGED << topo, generator, host, drawn, cut_through >>
    BY DEF CreateFlow, runvars
<1>2. Kinds' /\ Drawn' /\ Pairs' = Pairs
    BY <1>1, DrawnStays
<1>3. PICK e \in event_queue :
          IF Full
          THEN event_queue' = {} /\ UNCHANGED flows_to_schedule
          ELSE \E u \in IF generator \in {"Incast", "Worstcase"} THEN {Max(Draws)} ELSE Draws, gap \in Gap \ {0} :
                  /\ IF SizeOf(u) # 0
                     THEN flows_to_schedule' = Append(flows_to_schedule,
                              Flow(Len(flows_to_schedule), e.time, u, SizeOf(u), e.src, e.dst))
                     ELSE UNCHANGED flows_to_schedule
                  /\ event_queue' = (event_queue \ {e}) \cup {Creation(e.src, e.dst, e.k, e.time + gap)}
    BY DEF CreateFlow
<1>4. generator # "Reader"
    BY <1>1 DEF GenInv, Made
<1>5. /\ flows_to_schedule \in Seq(FlowSet)
      /\ \A g \in event_queue : IsCreation(g) /\ << g.src, g.dst >> \in Pairs
      /\ \A i \in 1 .. Len(flows_to_schedule) : << flows_to_schedule[i].src, flows_to_schedule[i].dst >> \in Pairs
    BY <1>1, <1>4 DEF GenInv, Made
<1>6. CASE Full
  <2>1. event_queue' = {} /\ flows_to_schedule' = flows_to_schedule
    BY <1>3, <1>6
  <2>2. Made'
    BY <1>1, <1>2, <1>5, <2>1 DEF Made
  <2>3. QED
    BY <1>2, <2>2 DEF GenInv
<1>7. CASE ~Full
  <2>1. PICK u \in IF generator \in {"Incast", "Worstcase"} THEN {Max(Draws)} ELSE Draws, gap \in Gap \ {0} :
            /\ IF SizeOf(u) # 0
               THEN flows_to_schedule' = Append(flows_to_schedule,
                        Flow(Len(flows_to_schedule), e.time, u, SizeOf(u), e.src, e.dst))
               ELSE UNCHANGED flows_to_schedule
            /\ event_queue' = (event_queue \ {e}) \cup {Creation(e.src, e.dst, e.k, e.time + gap)}
    BY <1>3, <1>7
  <2>2. u \in Draws /\ u \in Nat /\ SizeOf(u) \in Nat /\ gap \in Nat
    <3>1. u \in Draws
      BY <2>1, MaxDraw
    <3>2. QED
      BY <3>1, TableOf, SizeNat, GeneratorAssumption
  <2>3. e.time \in Nat /\ e.src \in Nat /\ e.dst \in Nat /\ << e.src, e.dst >> \in Pairs
    BY <1>5 DEF IsCreation
  <2>4. \A g \in event_queue' : IsCreation(g) /\ << g.src, g.dst >> \in Pairs
    <3> DEFINE t == e.time + gap
               c == Creation(e.src, e.dst, e.k, t)
    <3>1. t \in Nat
      BY <2>2, <2>3
    <3>2. c.src = e.src /\ c.dst = e.dst /\ c.k = e.k /\ c.time = t
      BY DEF Creation
    <3>3. IsCreation(c) /\ << c.src, c.dst >> \in Pairs
      BY <2>3, <3>1, <3>2 DEF IsCreation
    <3> HIDE DEF c
    <3>4. QED
      BY <1>5, <2>1, <3>3 DEF c
  <2>5. /\ flows_to_schedule' \in Seq(FlowSet)
        /\ \A i \in 1 .. Len(flows_to_schedule') : << flows_to_schedule'[i].src, flows_to_schedule'[i].dst >> \in Pairs
    <3>1. CASE SizeOf(u) = 0
      BY <1>5, <2>1, <3>1
    <3>2. CASE SizeOf(u) # 0
      <4> DEFINE f == Flow(Len(flows_to_schedule), e.time, u, SizeOf(u), e.src, e.dst)
      <4>1. Len(flows_to_schedule) \in Nat
        BY <1>5, LenProperties
      <4>2. f \in FlowSet /\ f.src = e.src /\ f.dst = e.dst
        BY <2>2, <2>3, <3>2, <4>1 DEF Flow, FlowSet
      <4>3. flows_to_schedule' = Append(flows_to_schedule, f)
        BY <2>1, <3>2
      <4> HIDE DEF f
      <4>4. /\ flows_to_schedule' \in Seq(FlowSet)
            /\ Len(flows_to_schedule') = Len(flows_to_schedule) + 1
            /\ \A i \in 1 .. Len(flows_to_schedule) : flows_to_schedule'[i] = flows_to_schedule[i]
            /\ flows_to_schedule'[Len(flows_to_schedule) + 1] = f
        BY <1>5, <4>2, <4>3, AppendProperties
      <4>5. \A i \in 1 .. Len(flows_to_schedule') : i \in 1 .. Len(flows_to_schedule) \/ i = Len(flows_to_schedule) + 1
        BY <4>1, <4>4
      <4>6. QED
        BY <1>5, <2>3, <4>2, <4>4, <4>5
    <3>3. QED
      BY <3>1, <3>2
  <2>6. Made'
    <3>1. phase' = "create" /\ generator' # "Reader" /\ phase' # "draw"
      BY <1>1, <1>4
    <3>2. /\ \A g \in event_queue' : IsCreation(g) /\ << g.src, g.dst >> \in Pairs'
          /\ \A i \in 1 .. Len(flows_to_schedule') : << flows_to_schedule'[i].src, flows_to_schedule'[i].dst >> \in Pairs'
      BY <1>2, <2>4, <2>5
    <3>3. (\A g \in event_queue : IsCreation(g) /\ << g.src, g.dst >> \in Pairs)'
      BY <3>2 DEF IsCreation, Creation
    <3>4. QED
      BY <2>5, <3>1, <3>2, <3>3 DEF Made
  <2>7. QED
    BY <1>2, <2>6 DEF GenInv
<1>8. QED
    BY <1>6, <1>7

\* The run makes no flows.
LEMMA RunKeepsFlows ==
    ASSUME GenInv, phase # "draw", phase' \in {"run", "done"},
           UNCHANGED << topo, generator, host, drawn, cut_through, flows_to_schedule >>
    PROVE  GenInv'
<1>1. Kinds' /\ Drawn' /\ Pairs' = Pairs
    BY DrawnStays
<1>2. Made'
    BY <1>1 DEF GenInv, Made
<1>3. QED
    BY <1>1, <1>2 DEF GenInv

\* Every step keeps what holds of the flows.
LEMMA GenNext ==
    ASSUME GenInv, [RunNext]_simvars
    PROVE  GenInv'
<1>1. CASE Generate /\ UNCHANGED runvars
    BY <1>1, DrawPermutationKeeps, DrawIncastKeeps, DrawOutcastKeeps, DrawClusterKeeps, PostAllKeeps, ReadTraceKeeps,
       CreateFlowKeeps DEF Generate
<1>2. CASE BeginRun
    BY <1>2, RunKeepsFlows DEF BeginRun
<1>3. CASE ProcessEvent
  <2>1. phase = "run" /\ UNCHANGED << topo, generator, host, drawn, flows_to_schedule >>
    BY <1>3 DEF ProcessEvent
  <2>2. PICK e \in event_queue : IF e.cancelled THEN Posted(e, {}) /\ UNCHANGED << phase, runvars >>
             ELSE (FlowArrival(e) \/ LastAck(e) \/ RetxTimeout(e) \/ FlowFinished(e)) /\ UNCHANGED cut_through
    BY <1>3 DEF ProcessEvent
  <2>3. phase' \in {"run", "done"} /\ cut_through' = cut_through
    BY <2>1, <2>2 DEF FlowArrival, LastAck, RetxTimeout, FlowFinished, GoesOn, runvars
  <2>4. QED
    BY <2>1, <2>3, RunKeepsFlows
<1>4. CASE NoEventLeft
    BY <1>4, RunKeepsFlows DEF NoEventLeft, runvars
<1>5. CASE UNCHANGED simvars
  <2>1. UNCHANGED << topo, generator, phase, host, drawn, event_queue, flows_to_schedule, cut_through >>
    BY <1>5 DEF simvars, genvars, runvars
  <2>2. N' = N /\ AllPairs' = AllPairs /\ Pairs' = Pairs
    BY <2>1, PairsKept
  <2>3. QED
    BY <2>1, <2>2 DEF GenInv, Kinds, Drawn, PermutationSoFar, IncastSoFar, OutcastSoFar, ClustersSoFar, Made
<1>6. QED
    BY <1>1, <1>2, <1>3, <1>4, <1>5 DEF RunNext

LEMMA MatrixFollows ==
    ASSUME GenInv
    PROVE  MatrixAsPromised
<1> SUFFICES ASSUME generator # "Reader", phase # "draw"
             PROVE  /\ Pairs \subseteq AllPairs
                    /\ generator = "Permutation" =>
                          \A h \in 0 .. N - 1 : Cardinality({p \in Pairs : p[1] = h}) = 1 /\ Cardinality({p \in Pairs : p[2] = h}) = 1
                    /\ generator = "Incast" => Cardinality(Pairs) = Incast /\ Destinations = {0}
                    /\ generator = "DcScale" => \A c, d \in drawn : c[1] = d[1] => c = d
                    /\ \A i \in DOMAIN flows_to_schedule : << flows_to_schedule[i].src, flows_to_schedule[i].dst >> \in Pairs
    BY DEF MatrixAsPromised
<1>1. Kinds /\ Drawn /\ Made
    BY DEF GenInv
<1>2. Pairs \subseteq AllPairs
    BY <1>1, PairsApart
<1>3. ASSUME generator = "Permutation", NEW h \in 0 .. N - 1
      PROVE  Cardinality({p \in Pairs : p[1] = h}) = 1 /\ Cardinality({p \in Pairs : p[2] = h}) = 1
  <2>1. Pairs = drawn
    BY <1>3 DEF Pairs
  <2>2. PermutationSoFar /\ host = N /\ N \in Nat \ {0}
    BY <1>1, <1>3, HostsNat DEF Drawn, PermutationSoFar
  <2>3. /\ \E p \in drawn : {q \in drawn : q[1] = h} = {p}
        /\ \E p \in drawn : {q \in drawn : q[2] = h} = {p}
    BY <2>2, PermutationOnto
  <2>4. QED
    BY <2>1, <2>3, FS_Singleton
<1>4. ASSUME generator = "Incast"
      PROVE  Cardinality(Pairs) = Incast /\ Destinations = {0}
  <2>1. Pairs = drawn
    BY <1>4 DEF Pairs
  <2>2. IncastSoFar /\ Cardinality(drawn) = Incast
    BY <1>1, <1>4 DEF Drawn, IncastSoFar
  <2>3. drawn # {}
    BY <2>2, FS_EmptySet, GeneratorAssumption
  <2>4. \A p \in drawn : p[2] = 0
    BY <2>2 DEF IncastSoFar
  <2>5. Destinations = {0}
    BY <2>3, <2>4 DEF Destinations
  <2>6. QED
    BY <2>1, <2>2, <2>5
<1>5. generator = "DcScale" => \A c, d \in drawn : c[1] = d[1] => c = d
    BY <1>1 DEF Drawn, ClustersSoFar
<1>6. \A i \in DOMAIN flows_to_schedule : << flows_to_schedule[i].src, flows_to_schedule[i].dst >> \in Pairs
    BY <1>1, LenProperties DEF Made
<1>7. QED
    BY <1>2, <1>3, <1>4, <1>5, <1>6

\* Whoever talks was drawn, by every generator: never a host to itself, each host once on
\* either side of a permutation, the sources of an incast, clusters that are apart.
THEOREM MatrixKept == RunSpec => []MatrixAsPromised
<1>1. RunInit => GenInv
    BY GenInit
<1>2. GenInv /\ [RunNext]_simvars => GenInv'
    BY GenNext
<1>3. GenInv => MatrixAsPromised
    BY MatrixFollows
<1>4. QED
    BY <1>1, <1>2, <1>3, PTL DEF RunSpec

-----------------------------------------------------------------------------
(* No flow beats the oracle                                                *)

\* When a flow may be finished at the earliest.
Earliest(i) == StartOf(i) + Pipeline(topo, flows_to_schedule[i], cut_through)

\* An event of the run: no packet or end of a flow before the flow could be there.
IsEvent(e) ==
    /\ e = [Event(e.type, e.flow, e.time) EXCEPT !.cancelled = e.cancelled]
    /\ e.flow \in 1 .. Len(flows_to_schedule) /\ e.time \in Nat
    /\ e.type = FLOW_ARRIVAL => e.time = StartOf(e.flow)
    /\ e.type \in {PACKET_ARRIVAL, FLOW_FINISHED} => e.time >= Earliest(e.flow)

\* The events of a run are about its flows, and none comes before the flow could be there.
Timed ==
    /\ phase \in {"draw", "create"} => finish_time = <<>> /\ total_finished_flows = 0 /\ stuck = {} /\ flow_arrivals = <<>>
    /\ phase \in {"run", "done"} => /\ \A e \in event_queue : IsEvent(e)
                                    /\ flow_arrivals \in Seq(1 .. Len(flows_to_schedule))
    /\ \A i \in DOMAIN finish_time :
          i \in 1 .. Len(flows_to_schedule) /\ finish_time[i] \in Nat /\ finish_time[i] >= Earliest(i)

\* The oracle is a number.
LEMMA OracleNumber ==
    ASSUME NEW tp, NEW f, f.size \in Nat \ {0}, NEW c
    PROVE  Oracle(tp, f, c) \in Int
<1>1. /\ Packets(f) \in Nat /\ LastPayload(f) \in Nat /\ Np(f) \in Nat /\ Leftover(f) \in Nat
      /\ Mss \in Nat /\ Hdr \in Nat /\ AccessTime \in Nat /\ CoreTime \in Nat /\ Propagation \in Nat
    BY PacketsOf, OracleAssumption
<1>2. FtHops(f.src, f.dst) \in Nat /\ LsHops(f.src, f.dst) \in Nat
    BY DEF FtHops, LsHops
<1>3. \A x, y \in Int : x * y \in Int /\ x + y \in Int
    OBVIOUS
<1>4. FirstHop(f) \in Int
  <2>1. (Mss + Hdr) * Np(f) \in Int
    BY <1>1, <1>3
  <2>2. (Mss + Hdr) * Np(f) + Leftover(f) + (IF Leftover(f) > 0 THEN Hdr ELSE 0) + Hdr \in Int
    BY <1>1, <2>1
  <2>3. QED
    BY <1>1, <1>3, <2>2 DEF FirstHop
<1>5. FatTreeOracle(f) \in Int
  <2>1. 2 * FtHops(f.src, f.dst) * Propagation \in Int
    BY <1>1, <1>2, <1>3
  <2>2. FtHops(f.src, f.dst) - 1 \in Int /\ LastPayload(f) + 2 * Hdr \in Int
    BY <1>1, <1>2
  <2>3. (FtHops(f.src, f.dst) - 1) * (LastPayload(f) + 2 * Hdr) * AccessTime \in Int
    BY <1>1, <1>3, <2>2
  <2>4. QED
    BY <1>3, <1>4, <2>1, <2>3 DEF FatTreeOracle
<1>6. LeafSpineOracle(f, c) \in Int
  <2>1. 2 * LsHops(f.src, f.dst) * Propagation \in Int
    BY <1>1, <1>2, <1>3
  <2>2. (Np(f) * (Mss + Hdr) + 3 * Hdr) * AccessTime \in Int
    BY <1>1, <1>3
  <2>3. 4 * Hdr * CoreTime \in Int /\ 2 * (LastPayload(f) + 2 * Hdr) * CoreTime \in Int
        /\ (LastPayload(f) + 2 * Hdr) * AccessTime \in Int
    BY <1>1, <1>3
  <2>4. QED
    BY <1>3, <1>4, <2>1, <2>2, <2>3 DEF LeafSpineOracle
<1>7. QED
    BY <1>5, <1>6 DEF Oracle, SnsFatTreeOracle

\* A flow that is alone needs the time of its pipeline, which the oracle never exceeds.
LEMMA FlowOf ==
    ASSUME Kinds, flows_to_schedule \in Seq(FlowSet), NEW i \in 1 .. Len(flows_to_schedule)
    PROVE  /\ flows_to_schedule[i].size \in Nat \ {0} /\ StartOf(i) \in Nat
           /\ Pipeline(topo, flows_to_schedule[i], cut_through) \in Nat
           /\ Earliest(i) \in Nat /\ Earliest(i) >= StartOf(i)
           /\ Oracle(topo, flows_to_schedule[i], cut_through) \in Int
           /\ Earliest(i) >= StartOf(i) + Oracle(topo, flows_to_schedule[i], cut_through)
<1> DEFINE f == flows_to_schedule[i]
<1>1. f \in FlowSet
    BY ElementOfSeq
<1>2. f.size \in Nat \ {0} /\ StartOf(i) \in Nat
    BY <1>1 DEF FlowSet, StartOf
<1>3. cut_through \in BOOLEAN /\ (topo = "FatTree" => ~ cut_through)
    BY DEF Kinds
<1>4. Pipeline(topo, f, cut_through) \in Nat /\ Oracle(topo, f, cut_through) <= Pipeline(topo, f, cut_through)
  <2> HIDE DEF f
  <2>1. QED
    BY <1>2, <1>3, OracleIsABound
<1>5. Oracle(topo, f, cut_through) \in Int
  <2> HIDE DEF f
  <2>1. QED
    BY <1>2, OracleNumber
<1>6. QED
    BY <1>2, <1>4, <1>5 DEF Earliest

\* An event that is about a flow and that comes in time.
LEMMA EventIs ==
    ASSUME NEW type, NEW n \in 1 .. Len(flows_to_schedule), NEW time \in Nat,
           type = FLOW_ARRIVAL => time = StartOf(n),
           type \in {PACKET_ARRIVAL, FLOW_FINISHED} => time >= Earliest(n)
    PROVE  IsEvent(Event(type, n, time))
    BY DEF IsEvent, Event

\* A step of the loop keeps its events in time if it posts none that is not.
LEMMA TimedStays ==
    ASSUME Timed, phase \in {"run", "done"}, phase' \in {"run", "done"},
           UNCHANGED << topo, cut_through, flows_to_schedule, finish_time >>,
           \A e \in event_queue' : e \in event_queue \/ IsEvent(e),
           flow_arrivals' \in Seq(1 .. Len(flows_to_schedule))
    PROVE  Timed'
<1>1. \A e : IsEvent(e)' <=> IsEvent(e)
    BY DEF IsEvent, Earliest, StartOf
<1>2. \A i : Earliest(i)' = Earliest(i)
    BY DEF Earliest, StartOf
<1>3. \A e \in event_queue' : IsEvent(e)'
    BY <1>1 DEF Timed
<1>4. QED
    BY <1>2, <1>3 DEF Timed

\* The run begins with the first arrival.
LEMMA BeginRunTimed ==
    ASSUME GenInv, Timed, BeginRun
    PROVE  Timed'
<1> DEFINE L == Len(flows_to_schedule)
<1>1. /\ phase = "create" /\ phase' = "run" /\ event_queue = {}
      /\ UNCHANGED << topo, cut_through, flows_to_schedule, finish_time >>
    BY DEF BeginRun
<1>2. flows_to_schedule \in Seq(FlowSet) /\ L \in Nat /\ DOMAIN flows_to_schedule = 1 .. L
    BY LenProperties DEF GenInv, Made
<1>3. PICK order \in Orders :
          /\ flow_arrivals' = IF order = <<>> THEN <<>> ELSE Tail(order)
          /\ event_queue' = IF order = <<>> THEN {} ELSE {Event(FLOW_ARRIVAL, order[1], StartOf(order[1]))}
    BY DEF BeginRun
<1>4. order \in [1 .. L -> 1 .. L]
    BY <1>2, <1>3 DEF Orders
<1> HIDE DEF L
<1>5. order \in Seq(1 .. L) /\ Len(order) = L
  <2>1. order \in Seq(1 .. L)
    BY <1>2, <1>4, SeqDef
  <2>2. QED
    BY <1>2, <1>4, <2>1, LenProperties
<1>6. flow_arrivals' \in Seq(1 .. L)
    BY <1>3, <1>5, HeadTailProperties, EmptySeq
<1>7. \A e \in event_queue' : IsEvent(e)
  <2>1. CASE order = <<>>
    BY <1>3, <2>1
  <2>2. CASE order # <<>>
    <3>1. order[1] \in 1 .. L
      BY <1>4, <1>5, <2>2, EmptySeq, LenProperties
    <3>2. StartOf(order[1]) \in Nat
      BY <1>2, <3>1, FlowOf DEF GenInv, L
    <3>3. IsEvent(Event(FLOW_ARRIVAL, order[1], StartOf(order[1])))
      BY <3>1, <3>2, EventIs DEF L, FLOW_ARRIVAL, PACKET_ARRIVAL, FLOW_FINISHED
    <3>4. QED
      BY <1>3, <2>2, <3>3
  <2>3. QED
    BY <2>1, <2>2
<1>8. \A e : IsEvent(e)' <=> IsEvent(e)
    BY <1>1 DEF IsEvent, Earliest, StartOf
<1>9. finish_time = <<>>
    BY <1>1 DEF Timed
<1>10. QED
    BY <1>1, <1>6, <1>7, <1>8, <1>9 DEF Timed, L

\* The arrivals that are left shrink, and the event of the next one is in time.
LEMMA NextArrivalTimed ==
    ASSUME Kinds, flows_to_schedule \in Seq(FlowSet), flow_arrivals \in Seq(1 .. Len(flows_to_schedule))
    PROVE  /\ \A e \in NextArrival : IsEvent(e)
           /\ (IF flow_arrivals = <<>> THEN <<>> ELSE Tail(flow_arrivals)) \in Seq(1 .. Len(flows_to_schedule))
<1> DEFINE L == Len(flows_to_schedule)
<1>1. CASE flow_arrivals = <<>>
    BY <1>1 DEF NextArrival
<1>2. CASE flow_arrivals # <<>>
  <2>1. Head(flow_arrivals) \in 1 .. L /\ Tail(flow_arrivals) \in Seq(1 .. L)
    <3> HIDE DEF L
    <3>1. flow_arrivals \in Seq(1 .. L)
      BY DEF L
    <3>2. QED
      BY <1>2, <3>1, HeadTailProperties
  <2>2. StartOf(Head(flow_arrivals)) \in Nat
    BY <2>1, FlowOf
  <2>3. IsEvent(Event(FLOW_ARRIVAL, Head(flow_arrivals), StartOf(Head(flow_arrivals))))
    BY <2>1, <2>2, EventIs DEF FLOW_ARRIVAL, PACKET_ARRIVAL, FLOW_FINISHED
  <2>4. QED
    BY <1>2, <2>1, <2>3 DEF NextArrival
<1>3. QED
    BY <1>1, <1>2

\* A flow that starts takes its pipeline or longer.
LEMMA FlowArrivalTimed ==
    ASSUME GenInv, Timed, phase = "run", NEW e \in event_queue, FlowArrival(e),
           UNCHANGED << topo, cut_through, flows_to_schedule >>
    PROVE  Timed'
<1> DEFINE L == Len(flows_to_schedule)
           f == flows_to_schedule[e.flow]
<1>1. Kinds /\ flows_to_schedule \in Seq(FlowSet) /\ flow_arrivals \in Seq(1 .. L)
    BY DEF GenInv, Made, Timed
<1>2. IsEvent(e) /\ e.flow \in 1 .. L /\ e.time \in Nat /\ e.time = StartOf(e.flow)
    BY DEF Timed, IsEvent, FlowArrival
<1>3. UNCHANGED finish_time /\ phase' \in {"run", "done"}
      /\ flow_arrivals' = IF flow_arrivals = <<>> THEN <<>> ELSE Tail(flow_arrivals)
    BY DEF FlowArrival, GoesOn
<1>4. flow_arrivals' \in Seq(1 .. L) /\ \A x \in NextArrival : IsEvent(x)
    BY <1>1, <1>3, NextArrivalTimed
<1>5. \A x \in event_queue' : x \in event_queue \/ IsEvent(x)
  <2>1. CASE \E delay \in Congestion :
             Posted(e, NextArrival \cup
                     {Event(PACKET_ARRIVAL, e.flow, e.time + Pipeline(topo, f, cut_through) + delay),
                      Event(RETX_TIMEOUT, e.flow, e.time + Timeout)})
    <3>1. PICK delay \in Congestion :
             Posted(e, NextArrival \cup
                     {Event(PACKET_ARRIVAL, e.flow, e.time + Pipeline(topo, f, cut_through) + delay),
                      Event(RETX_TIMEOUT, e.flow, e.time + Timeout)})
      BY <2>1
    <3>2. delay \in Nat /\ Timeout \in Nat
      BY SimulationAssumption
    <3>3. Pipeline(topo, f, cut_through) \in Nat /\ Earliest(e.flow) = e.time + Pipeline(topo, f, cut_through)
      BY <1>1, <1>2, FlowOf DEF Earliest
    <3> DEFINE arrives == e.time + Pipeline(topo, f, cut_through) + delay
    <3>4. arrives \in Nat /\ arrives >= Earliest(e.flow) /\ e.time + Timeout \in Nat
      <4> HIDE DEF f
      <4>1. QED
        BY <1>2, <3>2, <3>3
    <3> HIDE DEF arrives
    <3>5. IsEvent(Event(PACKET_ARRIVAL, e.flow, arrives))
      BY <1>2, <3>4, EventIs DEF FLOW_ARRIVAL, PACKET_ARRIVAL, FLOW_FINISHED
    <3>6. IsEvent(Event(RETX_TIMEOUT, e.flow, e.time + Timeout))
      BY <1>2, <3>4, EventIs DEF FLOW_ARRIVAL, PACKET_ARRIVAL, FLOW_FINISHED, RETX_TIMEOUT
    <3>7. event_queue' = (event_queue \ {e}) \cup (NextArrival \cup
              {Event(PACKET_ARRIVAL, e.flow, arrives), Event(RETX_TIMEOUT, e.flow, e.time + Timeout)})
      BY <3>1 DEF Posted, arrives
    <3>8. QED
      BY <1>4, <3>5, <3>6, <3>7
  <2>2. CASE Posted(e, NextArrival)
    BY <1>4, <2>2 DEF Posted
  <2>3. QED
    BY <2>1, <2>2 DEF FlowArrival
<1>6. QED
    BY <1>3, <1>4, <1>5, TimedStays

\* The end of a flow comes with its last acknowledgement or later.
LEMMA LastAckTimed ==
    ASSUME GenInv, Timed, phase = "run", NEW e \in event_queue, LastAck(e),
           UNCHANGED << topo, cut_through, flows_to_schedule >>
    PROVE  Timed'
<1> DEFINE timers == {t \in event_queue : t.type = RETX_TIMEOUT /\ t.flow = e.flow}
<1>1. \A x \in event_queue : IsEvent(x)
    BY DEF Timed
<1>2. /\ e.flow \in 1 .. Len(flows_to_schedule) /\ e.time \in Nat /\ e.time >= Earliest(e.flow)
      /\ Earliest(e.flow) \in Nat
    BY <1>1, FlowOf DEF IsEvent, LastAck, GenInv, Made
<1>3. /\ UNCHANGED << flow_arrivals, finish_time >> /\ phase' \in {"run", "done"}
      /\ flow_arrivals' \in Seq(1 .. Len(flows_to_schedule))
    BY DEF LastAck, GoesOn, Timed
<1>4. IsEvent(Event(FLOW_FINISHED, e.flow, e.time)) /\ IsEvent(Event(FLOW_FINISHED, e.flow, e.time + 1))
  <2>1. e.time + 1 \in Nat /\ e.time + 1 >= Earliest(e.flow)
    BY <1>2
  <2>2. QED
    BY <1>2, <2>1, EventIs DEF FLOW_ARRIVAL, FLOW_FINISHED
<1>5. \A t \in timers : IsEvent([t EXCEPT !.cancelled = TRUE])
  <2>1. ASSUME NEW t \in timers
        PROVE  IsEvent([t EXCEPT !.cancelled = TRUE])
    <3> DEFINE c == [t EXCEPT !.cancelled = TRUE]
    <3>1. /\ t = [Event(t.type, t.flow, t.time) EXCEPT !.cancelled = t.cancelled]
          /\ t.flow \in 1 .. Len(flows_to_schedule) /\ t.time \in Nat /\ t.type = RETX_TIMEOUT
      BY <1>1 DEF IsEvent
    <3>2. /\ c = [Event(t.type, t.flow, t.time) EXCEPT !.cancelled = TRUE]
          /\ c.type = t.type /\ c.flow = t.flow /\ c.time = t.time /\ c.cancelled = TRUE
      BY <3>1 DEF Event
    <3> HIDE DEF c
    <3>3. c = [Event(c.type, c.flow, c.time) EXCEPT !.cancelled = c.cancelled]
      BY <3>2
    <3>4. IsEvent(c)
      BY <3>1, <3>2, <3>3 DEF IsEvent, FLOW_ARRIVAL, PACKET_ARRIVAL, FLOW_FINISHED, RETX_TIMEOUT
    <3>5. QED
      BY <3>4 DEF c
  <2>2. QED
    BY <2>1
<1>6. PICK twice \in MayTwice :
          event_queue' = (event_queue \ (timers \cup {e})) \cup {[t EXCEPT !.cancelled = TRUE] : t \in timers}
                            \cup {Event(FLOW_FINISHED, e.flow, e.time)}
                            \cup (IF twice THEN {Event(FLOW_FINISHED, e.flow, e.time + 1)} ELSE {})
    BY DEF LastAck
<1>7. \A x \in event_queue' : x \in event_queue \/ IsEvent(x)
  <2> HIDE DEF timers
  <2>1. QED
    BY <1>4, <1>5, <1>6
<1>8. QED
    BY <1>3, <1>7, TimedStays

\* A timer is set again for the same flow.
LEMMA RetxTimed ==
    ASSUME GenInv, Timed, phase = "run", NEW e \in event_queue, RetxTimeout(e),
           UNCHANGED << topo, cut_through, flows_to_schedule >>
    PROVE  Timed'
<1>1. e.flow \in 1 .. Len(flows_to_schedule) /\ e.time + Timeout \in Nat
    BY SimulationAssumption DEF Timed, IsEvent
<1>2. /\ UNCHANGED << flow_arrivals, finish_time >> /\ phase' \in {"run", "done"}
      /\ flow_arrivals' \in Seq(1 .. Len(flows_to_schedule))
    BY DEF RetxTimeout, GoesOn, Timed
<1>3. IsEvent(Event(RETX_TIMEOUT, e.flow, e.time + Timeout))
    BY <1>1, EventIs DEF FLOW_ARRIVAL, PACKET_ARRIVAL, FLOW_FINISHED, RETX_TIMEOUT
<1>4. \A x \in event_queue' : x \in event_queue \/ IsEvent(x)
    BY <1>3 DEF RetxTimeout, Posted
<1>5. QED
    BY <1>2, <1>4, TimedStays

\* A flow ends when its event does, which no flow's does too early.
LEMMA FinishedTimed ==
    ASSUME GenInv, Timed, phase = "run", NEW e \in event_queue, FlowFinished(e),
           UNCHANGED << topo, cut_through, flows_to_schedule >>
    PROVE  Timed'
<1>1. e.flow \in 1 .. Len(flows_to_schedule) /\ e.time \in Nat /\ e.time >= Earliest(e.flow)
    BY DEF Timed, IsEvent, FlowFinished
<1>2. UNCHANGED flow_arrivals /\ phase' \in {"run", "done"} /\ event_queue' \subseteq event_queue
    BY DEF FlowFinished, GoesOn, Posted
<1>3. \A x : IsEvent(x)' <=> IsEvent(x)
    BY DEF IsEvent, Earliest, StartOf
<1>4. \A i : Earliest(i)' = Earliest(i)
    BY DEF Earliest, StartOf
<1>5. finish_time' = [i \in DOMAIN finish_time \cup {e.flow} |-> IF i = e.flow THEN e.time ELSE finish_time[i]]
    BY DEF FlowFinished
<1>6. \A i \in DOMAIN finish_time' :
          i \in 1 .. Len(flows_to_schedule) /\ finish_time'[i] \in Nat /\ finish_time'[i] >= Earliest(i)
    BY <1>1, <1>5 DEF Timed
<1>7. QED
    BY <1>2, <1>3, <1>4, <1>6 DEF Timed

LEMMA TimedInit == RunInit => Timed
    BY DEF RunInit, GeneratorInit, Timed

\* Generating flows leaves what belongs to the run alone.
LEMMA GenerateTimed ==
    ASSUME Timed, Generate, UNCHANGED runvars
    PROVE  Timed'
<1>1. phase \in {"draw", "create"} /\ phase' \in {"draw", "create"}
    BY DEF Generate, DrawPermutation, DrawIncast, DrawOutcast, DrawCluster, PostAll, ReadTrace, CreateFlow, DrawsFrom
<1>2. UNCHANGED << flow_arrivals, finish_time, total_finished_flows, stuck >>
    BY DEF runvars
<1>3. finish_time = <<>>
    BY <1>1 DEF Timed
<1>4. QED
    BY <1>1, <1>2, <1>3 DEF Timed

\* Every step keeps the events in time.
LEMMA TimedNext ==
    ASSUME GenInv, Timed, [RunNext]_simvars
    PROVE  Timed'
<1>1. CASE Generate /\ UNCHANGED runvars
    BY <1>1, GenerateTimed
<1>2. CASE BeginRun
    BY <1>2, BeginRunTimed
<1>3. CASE ProcessEvent
  <2>1. phase = "run" /\ UNCHANGED << topo, flows_to_schedule >>
    BY <1>3 DEF ProcessEvent
  <2>2. PICK e \in event_queue :
            IF e.cancelled THEN Posted(e, {}) /\ UNCHANGED << phase, runvars >>
            ELSE (FlowArrival(e) \/ LastAck(e) \/ RetxTimeout(e) \/ FlowFinished(e)) /\ UNCHANGED cut_through
    BY <1>3 DEF ProcessEvent
  <2>3. CASE e.cancelled
    <3>1. UNCHANGED << phase, cut_through, finish_time, flow_arrivals >> /\ event_queue' \subseteq event_queue
      BY <2>2, <2>3 DEF runvars, Posted
    <3>2. flow_arrivals' \in Seq(1 .. Len(flows_to_schedule)) /\ \A x \in event_queue' : x \in event_queue
      BY <2>1, <3>1 DEF Timed
    <3>3. QED
      BY <2>1, <3>1, <3>2, TimedStays
  <2>4. CASE ~ e.cancelled
    BY <2>1, <2>2, <2>4, FlowArrivalTimed, LastAckTimed, RetxTimed, FinishedTimed
  <2>5. QED
    BY <2>3, <2>4
<1>4. CASE NoEventLeft
  <2>1. phase \in {"run", "done"} /\ phase' \in {"run", "done"} /\ UNCHANGED << topo, flows_to_schedule, event_queue, runvars >>
    BY <1>4 DEF NoEventLeft
  <2>2. UNCHANGED << topo, cut_through, flows_to_schedule, finish_time, event_queue, flow_arrivals >>
    BY <2>1 DEF runvars
  <2>3. flow_arrivals' \in Seq(1 .. Len(flows_to_schedule)) /\ \A x \in event_queue' : x \in event_queue
    BY <2>1, <2>2 DEF Timed
  <2>4. QED
    BY <2>1, <2>2, <2>3, TimedStays
<1>5. CASE UNCHANGED simvars
  <2>1. UNCHANGED << topo, phase, cut_through, flows_to_schedule, finish_time, event_queue, flow_arrivals, total_finished_flows, stuck >>
    BY <1>5 DEF simvars, genvars, runvars
  <2>2. \A e : IsEvent(e)' <=> IsEvent(e)
    BY <2>1 DEF IsEvent, Earliest, StartOf
  <2>3. \A i : Earliest(i)' = Earliest(i)
    BY <2>1 DEF Earliest, StartOf
  <2>4. QED
    BY <2>1, <2>2, <2>3 DEF Timed
<1>6. QED
    BY <1>1, <1>2, <1>3, <1>4, <1>5 DEF RunNext

\* Who ended in time did not beat the oracle.
LEMMA SlowdownFollows ==
    ASSUME GenInv, Timed
    PROVE  SlowdownAtLeastOne
<1> SUFFICES ASSUME NEW i \in DOMAIN finish_time
             PROVE  finish_time[i] - flows_to_schedule[i].start_time
                        >= Oracle(topo, flows_to_schedule[i], cut_through)
    BY DEF SlowdownAtLeastOne
<1>1. i \in 1 .. Len(flows_to_schedule) /\ finish_time[i] \in Nat /\ finish_time[i] >= Earliest(i)
    BY DEF Timed
<1>2. /\ StartOf(i) \in Nat /\ Earliest(i) \in Nat
      /\ Oracle(topo, flows_to_schedule[i], cut_through) \in Int
      /\ Earliest(i) >= StartOf(i) + Oracle(topo, flows_to_schedule[i], cut_through)
    BY <1>1, FlowOf DEF GenInv, Made
<1> DEFINE o == Oracle(topo, flows_to_schedule[i], cut_through)
<1>3. finish_time[i] - StartOf(i) >= o
  <2> HIDE DEF o
  <2>1. o \in Int /\ Earliest(i) >= StartOf(i) + o
    BY <1>2 DEF o
  <2>2. QED
    BY <1>1, <1>2, <2>1
<1>4. QED
    BY <1>3 DEF StartOf

\* FlowFinishedEvent's assertion on the slowdown holds of every flow of every run.
THEOREM NoFlowBeatsOracle == RunSpec => []SlowdownAtLeastOne
<1>1. RunInit => GenInv /\ Timed
    BY GenInit, TimedInit
<1>2. GenInv /\ Timed /\ [RunNext]_simvars => GenInv' /\ Timed'
    BY GenNext, TimedNext
<1>3. GenInv /\ Timed => SlowdownAtLeastOne
    BY SlowdownFollows
<1>4. QED
    BY <1>1, <1>2, <1>3, PTL DEF RunSpec

-----------------------------------------------------------------------------
(* A run ends with all of its flows                                        *)

\* Enough hosts for every generator to find a pair.
EnoughHosts == NumHostTypes >= 3 /\ NumHosts >= NumHostTypes

\* The generator runs until it has made the flows that were asked for.
Enough ==
    generator # "Reader" =>
        /\ Len(flows_to_schedule) <= NumFlows
        /\ phase = "create" /\ event_queue = {} => Len(flows_to_schedule) >= NumFlows
        /\ phase \in {"run", "done"} => Len(flows_to_schedule) = NumFlows

\* Events of flows that are on their way.
Underway == {e \in event_queue : e.type \in {FLOW_ARRIVAL, PACKET_ARRIVAL, FLOW_FINISHED}}

\* Flows that have not been started.
Waiting == ToSet(flow_arrivals)

\* A flow is waiting, has one event, has ended, or is stuck; who waits follows an arrival.
Settled(all, waiting, under, ended, lost) ==
    /\ \A e \in under : ~ e.cancelled /\ e.flow \notin waiting /\ e.flow \notin ended
    /\ \A e, f \in under : e.flow = f.flow => e = f
    /\ \A i \in waiting : i \notin ended
    /\ waiting # {} => \E e \in under : e.type = FLOW_ARRIVAL
    /\ \A i \in all : i \in waiting \/ (\E e \in under : e.flow = i) \/ i \in ended \/ i \in lost

\* During the run, and all of them ended or stuck after it.
Places ==
    phase \in {"run", "done"} =>
        /\ IsInjective(flow_arrivals)
        /\ Settled(1 .. Len(flows_to_schedule), Waiting, Underway, DOMAIN finish_time, stuck)
        /\ total_finished_flows = Cardinality(DOMAIN finish_time)
        /\ phase = "done" => \A i \in 1 .. Len(flows_to_schedule) : i \in DOMAIN finish_time \/ i \in stuck

\* A pair to begin with, for every generator.
LEMMA SomePair ==
    ASSUME EnoughHosts, Kinds, Drawn, generator # "Reader", phase = "draw", DrawsEnd
    PROVE  Pairs # {}
<1>1. topo # "FatTree" /\ N = NumHosts
    BY DEF Kinds, N, HostsOf
<1>2. N \in Nat /\ N >= NumHostTypes /\ NumHostTypes \in Nat /\ NumHostTypes >= 3 /\ N >= 3
  <2>1. N \in Nat
    BY HostsNat
  <2>2. QED
    BY <1>1, <2>1, GeneratorAssumption DEF EnoughHosts
<1>3. << 1, 0 >> \in AllPairs
    BY <1>2, AllPairsIs
<1>4. CASE generator \in {"Poisson", "Bytes", "Worstcase"}
    BY <1>3, <1>4 DEF Pairs, PoissonPairs, BytesPairs, WorstcasePairs
<1>5. CASE generator = "PoissonLocal"
    BY <1>3, <1>5 DEF Pairs, LocalPairs
<1>6. CASE generator = "Permutation"
  <2>1. host = N /\ PermutationSoFar
    BY <1>6 DEF DrawsEnd, Drawn
  <2>2. \E p \in drawn : p[1] = 0
    BY <1>2, <2>1 DEF PermutationSoFar
  <2>3. QED
    BY <1>6, <2>2 DEF Pairs
<1>7. CASE generator = "Incast"
  <2>1. Cardinality(drawn) = Incast
    BY <1>7 DEF DrawsEnd
  <2>2. drawn # {}
    BY <2>1, FS_EmptySet, GeneratorAssumption
  <2>3. QED
    BY <1>7, <2>2 DEF Pairs
<1>8. CASE generator = "Outcast"
  <2>1. host = N /\ host = 0
    BY <1>8 DEF DrawsEnd, Drawn, OutcastSoFar
  <2>2. QED
    BY <1>2, <2>1
<1>9. CASE generator = "DcScale"
  <2>1. host = N /\ ClustersSoFar
    BY <1>9 DEF DrawsEnd, Drawn
  <2>2. PICK c, d \in drawn : c[2] = 0 /\ d[2] = 1 /\ c[3] = d[3]
    BY <1>2, <2>1 DEF ClustersSoFar
  <2>3. c # d
    BY <2>2
  <2>4. LET j == IF c[2] < d[2] THEN c[2] ELSE c[2] - 1
        IN  c[3] = d[3] /\ c # d /\ j < NumHostTypes - 2 /\ j # d[2]
    BY <1>2, <2>2, <2>3
  <2> DEFINE mates(i) == {k \in drawn :
                LET j == IF k[2] < i[2] THEN k[2] ELSE k[2] - 1
                IN  k[3] = i[3] /\ k # i /\ j < NumHostTypes - 2 /\ j # i[2]}
             of(i) == {<< i[1], k[1] >> : k \in mates(i)}
  <2>5. << d[1], c[1] >> \in DcPairs
    <3>1. DcPairs = UNION {of(i) : i \in drawn}
      BY DEF DcPairs
    <3>2. c \in mates(d)
      BY <2>4
    <3>3. << d[1], c[1] >> \in of(d)
      <4> HIDE DEF mates
      <4>1. QED
        BY <3>2
    <3> HIDE DEF of
    <3>4. QED
      BY <3>1, <3>3
  <2>6. QED
    BY <1>9, <2>5 DEF Pairs
<1>10. CASE generator = "RackScale"
  <2>1. RackSize \in Nat /\ RackSize > NumHostTypes
    BY GeneratorAssumption
  <2>2. /\ 1 % RackSize = 1 /\ 0 % RackSize = 0 /\ 1 \div RackSize = 0 /\ 0 \div RackSize = 0
        /\ 1 % NumHostTypes = 1
    BY <1>2, <2>1
  <2>3. << 1, 0 >> \in RackPairs
    <3> DEFINE p == << 1, 0 >>
    <3>1. p[1] = 1 /\ p[2] = 0
      OBVIOUS
    <3>2. p \in AllPairs
      BY <1>3
    <3> HIDE DEF p
    <3>3. p \in RackPairs
      BY <1>2, <2>1, <2>2, <3>1, <3>2 DEF RackPairs
    <3>4. QED
      BY <3>3 DEF p
  <2>4. QED
    BY <1>10, <2>3 DEF Pairs
<1>11. generator \in {"Poisson", "Bytes", "PoissonLocal", "Worstcase", "Permutation", "Incast", "Outcast",
                     "RackScale", "DcScale", "Reader"}
    BY GeneratorAssumption DEF Kinds
<1>12. QED
    BY <1>4, <1>5, <1>6, <1>7, <1>8, <1>9, <1>10, <1>11

LEMMA EnoughInit == RunInit => Enough
<1> SUFFICES ASSUME RunInit PROVE Enough
    OBVIOUS
<1>1. flows_to_schedule = <<>> /\ phase = "draw" /\ NumFlows \in Nat
    BY GeneratorAssumption DEF RunInit, GeneratorInit
<1>2. Len(flows_to_schedule) = 0
    BY <1>1, EmptySeq
<1>3. QED
    BY <1>1, <1>2 DEF Enough

\* There are events to make flows from.
LEMMA PostAllEnough ==
    ASSUME EnoughHosts, GenInv, PostAll
    PROVE  Enough'
<1>1. /\ phase = "draw" /\ phase' = "create" /\ DrawsEnd /\ generator # "Reader"
      /\ UNCHANGED << generator, flows_to_schedule >>
    BY DEF PostAll
<1>2. flows_to_schedule = <<>> /\ NumFlows \in Nat
    BY <1>1, GeneratorAssumption DEF GenInv, Made
<1>3. Len(flows_to_schedule') = 0
    BY <1>1, <1>2, EmptySeq
<1>4. Pairs # {}
    BY <1>1, SomePair DEF GenInv
<1>5. event_queue' # {}
  <2>1. PICK early, soon, late :
            event_queue' = {Creation(x[1][1], x[1][2], x[2], 1 + (IF x \in early THEN soon ELSE late)) :
                                x \in Pairs \X Copies}
    BY DEF PostAll
  <2>2. PICK p \in Pairs : << p, 1 >> \in Pairs \X Copies
    <3>1. 1 \in Copies
      BY DEF Copies
    <3>2. PICK p : p \in Pairs
      BY <1>4
    <3>3. << p, 1 >> \in Pairs \X Copies
      BY <3>1, <3>2
    <3>4. QED
      BY <3>2, <3>3
  <2> DEFINE made(y) == Creation(y[1][1], y[1][2], y[2], 1 + (IF y \in early THEN soon ELSE late))
  <2>3. event_queue' = {made(y) : y \in Pairs \X Copies}
    BY <2>1
  <2> HIDE DEF made
  <2>4. made(<< p, 1 >>) \in event_queue'
    BY <2>2, <2>3
  <2>5. QED
    BY <2>4
<1>6. QED
    BY <1>1, <1>2, <1>3, <1>5 DEF Enough

\* The events are thrown away only when there are flows enough.
LEMMA CreateFlowEnough ==
    ASSUME GenInv, Enough, CreateFlow
    PROVE  Enough'
<1> DEFINE L == Len(flows_to_schedule)
<1>1. phase = "create" /\ phase' = "create" /\ UNCHANGED generator
    BY DEF CreateFlow
<1>2. PICK e \in event_queue :
          IF Full
          THEN event_queue' = {} /\ UNCHANGED flows_to_schedule
          ELSE \E u \in IF generator \in {"Incast", "Worstcase"} THEN {Max(Draws)} ELSE Draws, gap \in Gap \ {0} :
                  /\ IF SizeOf(u) # 0
                     THEN flows_to_schedule' = Append(flows_to_schedule,
                              Flow(Len(flows_to_schedule), e.time, u, SizeOf(u), e.src, e.dst))
                     ELSE UNCHANGED flows_to_schedule
                  /\ event_queue' = (event_queue \ {e}) \cup {Creation(e.src, e.dst, e.k, e.time + gap)}
    BY DEF CreateFlow
<1>3. flows_to_schedule \in Seq(FlowSet) /\ L \in Nat /\ NumFlows \in Nat /\ generator # "Reader"
    BY <1>1, LenProperties, GeneratorAssumption DEF GenInv, Made
<1>4. CASE Full
    BY <1>1, <1>2, <1>3, <1>4 DEF Full, Enough
<1>5. CASE ~ Full
  <2>1. event_queue' # {}
    BY <1>2, <1>5
  <2>2. PICK u : IF SizeOf(u) # 0
                 THEN flows_to_schedule' = Append(flows_to_schedule,
                          Flow(Len(flows_to_schedule), e.time, u, SizeOf(u), e.src, e.dst))
                 ELSE UNCHANGED flows_to_schedule
    BY <1>2, <1>5
  <2>3. Len(flows_to_schedule') \in {L, L + 1}
    <3> DEFINE f == Flow(Len(flows_to_schedule), e.time, u, SizeOf(u), e.src, e.dst)
    <3>1. CASE SizeOf(u) = 0
      BY <2>2, <3>1
    <3>2. CASE SizeOf(u) # 0
      <4>1. flows_to_schedule' = Append(flows_to_schedule, f)
        BY <2>2, <3>2
      <4> HIDE DEF f
      <4>2. flows_to_schedule \in Seq(FlowSet \cup {f})
        BY <1>3, SeqDef
      <4>3. QED
        BY <4>1, <4>2, AppendProperties
    <3>3. QED
      BY <3>1, <3>2
  <2>4. QED
    BY <1>1, <1>3, <1>5, <2>1, <2>3 DEF Full, Enough
<1>6. QED
    BY <1>4, <1>5

\* Every step keeps the number of flows.
LEMMA EnoughNext ==
    ASSUME EnoughHosts, GenInv, Enough, [RunNext]_simvars
    PROVE  Enough'
<1>1. CASE Generate
  <2>1. CASE PostAll
    BY <2>1, PostAllEnough
  <2>2. CASE CreateFlow
    BY <2>2, CreateFlowEnough
  <2>3. CASE ReadTrace
    BY <2>3 DEF ReadTrace, Enough
  <2>4. CASE DrawPermutation \/ DrawIncast \/ DrawOutcast \/ DrawCluster
    <3>1. phase = "draw" /\ UNCHANGED << generator, phase, event_queue, flows_to_schedule >>
      BY <2>4 DEF DrawPermutation, DrawIncast, DrawOutcast, DrawCluster, DrawsFrom
    <3>2. QED
      BY <3>1 DEF Enough
  <2>5. QED
    BY <1>1, <2>1, <2>2, <2>3, <2>4 DEF Generate
<1>2. CASE BeginRun
  <2>1. /\ phase = "create" /\ phase' = "run" /\ event_queue = {}
        /\ UNCHANGED << generator, flows_to_schedule >>
    BY <1>2 DEF BeginRun
  <2>2. generator # "Reader" =>
            Len(flows_to_schedule) \in Nat /\ NumFlows \in Nat
            /\ Len(flows_to_schedule) <= NumFlows /\ Len(flows_to_schedule) >= NumFlows
    BY <2>1, LenProperties, GeneratorAssumption DEF Enough, GenInv, Made
  <2>3. QED
    BY <2>1, <2>2 DEF Enough
<1>3. CASE ProcessEvent
  <2>1. phase = "run" /\ UNCHANGED << generator, flows_to_schedule >>
    BY <1>3 DEF ProcessEvent
  <2>2. PICK e \in event_queue : IF e.cancelled THEN Posted(e, {}) /\ UNCHANGED << phase, runvars >>
             ELSE (FlowArrival(e) \/ LastAck(e) \/ RetxTimeout(e) \/ FlowFinished(e)) /\ UNCHANGED cut_through
    BY <1>3 DEF ProcessEvent
  <2>3. phase' \in {"run", "done"}
    BY <2>1, <2>2 DEF FlowArrival, LastAck, RetxTimeout, FlowFinished, GoesOn
  <2>4. QED
    BY <2>1, <2>3 DEF Enough
<1>4. CASE NoEventLeft
    BY <1>4 DEF NoEventLeft, Enough
<1>5. CASE UNCHANGED simvars
    BY <1>5 DEF simvars, genvars, Enough
<1>6. QED
    BY <1>1, <1>2, <1>3, <1>4, <1>5 DEF RunNext

LEMMA ArrivalSettles ==
    ASSUME NEW all, NEW waiting, NEW under, NEW ended, NEW lost, Settled(all, waiting, under, ended, lost),
           NEW e \in under, NEW next, NEW went, NEW left, NEW astray,
           e.flow \notin left, left \subseteq waiting,
           \A x \in next : x.type = FLOW_ARRIVAL /\ ~ x.cancelled /\ x.flow \in waiting /\ x.flow \notin left,
           \A x, y \in next : x = y,
           \A i \in waiting : i \in left \/ \E x \in next : x.flow = i,
           left # {} => next # {},
           \A x \in went : x.flow = e.flow /\ ~ x.cancelled,
           \A x, y \in went : x = y,
           \/ went # {} /\ astray = lost
           \/ went = {} /\ astray = lost \cup {e.flow}
    PROVE  Settled(all, left, (under \ {e}) \cup next \cup went, ended, astray)
<1> DEFINE u == (under \ {e}) \cup next \cup went
<1>1. /\ \A x \in under : ~ x.cancelled /\ x.flow \notin waiting /\ x.flow \notin ended
      /\ \A x, y \in under : x.flow = y.flow => x = y
      /\ \A i \in waiting : i \notin ended
      /\ \A i \in all : i \in waiting \/ (\E x \in under : x.flow = i) \/ i \in ended \/ i \in lost
    BY DEF Settled
<1>2. \A x \in u : ~ x.cancelled /\ x.flow \notin left /\ x.flow \notin ended
    BY <1>1
<1>3. \A x, y \in u : x.flow = y.flow => x = y
    BY <1>1
<1>4. \A i \in left : i \notin ended
    BY <1>1
<1>5. left # {} => \E x \in u : x.type = FLOW_ARRIVAL
    OBVIOUS
<1>6. ASSUME NEW i \in all
      PROVE  i \in left \/ (\E x \in u : x.flow = i) \/ i \in ended \/ i \in astray
  <2>1. CASE i \in waiting
    BY <2>1
  <2>2. CASE \E x \in under : x.flow = i
    BY <2>2
  <2>3. QED
    BY <1>1, <2>1, <2>2
<1>7. QED
    BY <1>2, <1>3, <1>4, <1>5, <1>6 DEF Settled

\* An event that is followed by one of the same flow.
LEMMA FollowSettles ==
    ASSUME NEW all, NEW waiting, NEW under, NEW ended, NEW lost, Settled(all, waiting, under, ended, lost),
           NEW e \in under, e.type # FLOW_ARRIVAL, NEW f, f.flow = e.flow, ~ f.cancelled
    PROVE  Settled(all, waiting, (under \ {e}) \cup {f}, ended, lost)
    BY DEF Settled

\* The last event of a flow.
LEMMA EndSettles ==
    ASSUME NEW all, NEW waiting, NEW under, NEW ended, NEW lost, Settled(all, waiting, under, ended, lost),
           NEW e \in under, e.type # FLOW_ARRIVAL
    PROVE  Settled(all, waiting, under \ {e}, ended \cup {e.flow}, lost)
    BY DEF Settled

\* When no event is left, no flow is on its way.
LEMMA NothingSettled ==
    ASSUME NEW all, NEW waiting, NEW ended, NEW lost, Settled(all, waiting, {}, ended, lost)
    PROVE  \A i \in all : i \in ended \/ i \in lost
    BY DEF Settled

\* As many ends as flows.
LEMMA AllEnded ==
    ASSUME NEW n \in Nat, NEW ended \in SUBSET (1 .. n), Cardinality(ended) >= n
    PROVE  ended = 1 .. n
<1>1. IsFiniteSet(1 .. n) /\ Cardinality(1 .. n) = n
    BY FS_Interval
<1>2. IsFiniteSet(ended) /\ Cardinality(ended) \in Nat /\ Cardinality(ended) <= n
    BY <1>1, FS_Subset, FS_CardinalityType
<1>3. Cardinality(1 .. n) = Cardinality(ended)
    BY <1>1, <1>2
<1>4. 1 .. n = ended
  <2> DEFINE all == 1 .. n
  <2> HIDE DEF all
  <2>1. IsFiniteSet(all) /\ ended \in SUBSET all /\ Cardinality(all) = Cardinality(ended)
    BY <1>1, <1>3 DEF all
  <2>2. all = ended
    BY <2>1, FS_Subset
  <2>3. QED
    BY <2>2 DEF all
<1>5. QED
    BY <1>4

\* What is left of the arrivals, and the one that comes next.
LEMMA TailWaits ==
    ASSUME NEW S, NEW s \in Seq(S), s # <<>>, NEW t, t = Tail(s), IsInjective(s)
    PROVE  t \in Seq(S) /\ IsInjective(t) /\ ToSet(t) = ToSet(s) \ {Head(s)} /\ Head(s) \in ToSet(s)
<1>1. /\ Len(s) \in Nat \ {0} /\ t \in Seq(S) /\ Len(t) = Len(s) - 1 /\ Head(s) = s[1]
      /\ \A k \in 1 .. Len(t) : t[k] = s[k + 1]
      /\ DOMAIN s = 1 .. Len(s) /\ DOMAIN t = 1 .. Len(t)
    BY HeadTailProperties, LenProperties, EmptySeq
<1>2. \A i, j \in 1 .. Len(s) : s[i] = s[j] => i = j
    BY <1>1 DEF IsInjective
<1>3. \A i, j \in 1 .. Len(t) : t[i] = t[j] => i = j
  <2>1. \A i \in 1 .. Len(t) : i + 1 \in 1 .. Len(s)
    BY <1>1
  <2>2. \A i, j \in 1 .. Len(t) : t[i] = t[j] => i + 1 = j + 1
    BY <1>1, <1>2, <2>1
  <2>3. QED
    BY <2>2
<1>4. IsInjective(t)
    BY <1>1, <1>3 DEF IsInjective
<1>5. ToSet(t) = ToSet(s) \ {Head(s)}
  <2>1. ASSUME NEW k \in 1 .. Len(t)
        PROVE  t[k] \in ToSet(s) \ {Head(s)}
    <3>1. k + 1 \in 1 .. Len(s) /\ 1 \in 1 .. Len(s) /\ k + 1 # 1
      BY <1>1
    <3>2. QED
      BY <1>1, <1>2, <3>1 DEF ToSet
  <2>2. ASSUME NEW k \in 1 .. Len(s), s[k] # Head(s)
        PROVE  s[k] \in ToSet(t)
    <3>1. k # 1 /\ k - 1 \in 1 .. Len(t) /\ (k - 1) + 1 = k
      BY <1>1, <2>2
    <3>2. t[k - 1] = s[k]
      BY <1>1, <3>1
    <3>3. QED
      BY <1>1, <3>1, <3>2 DEF ToSet
  <2>3. \A x \in ToSet(t) : x \in ToSet(s) \ {Head(s)}
    <3>1. \A x \in ToSet(t) : \E k \in 1 .. Len(t) : x = t[k]
      BY <1>1 DEF ToSet
    <3>2. QED
      BY <2>1, <3>1
  <2>4. \A x \in ToSet(s) \ {Head(s)} : x \in ToSet(t)
    <3>1. \A x \in ToSet(s) : \E k \in 1 .. Len(s) : x = s[k]
      BY <1>1 DEF ToSet
    <3>2. QED
      BY <2>2, <3>1
  <2>5. QED
    BY <2>3, <2>4
<1>6. Head(s) \in ToSet(s)
    BY <1>1 DEF ToSet
<1>7. QED
    BY <1>1, <1>4, <1>5, <1>6

\* A flow posts its end once.
EndsOnce == MayTwice \subseteq {FALSE}

\* What the event of the next arrival takes from those that wait.
LEMMA NextWaits ==
    ASSUME NEW S, flow_arrivals \in Seq(S), IsInjective(flow_arrivals),
           flow_arrivals' = IF flow_arrivals = <<>> THEN <<>> ELSE Tail(flow_arrivals)
    PROVE  /\ IsInjective(flow_arrivals') /\ Waiting' \subseteq Waiting
           /\ \A x \in NextArrival : x.type = FLOW_ARRIVAL /\ ~ x.cancelled /\ x.flow \in Waiting /\ x.flow \notin Waiting'
           /\ \A x, y \in NextArrival : x = y
           /\ \A i \in Waiting : i \in Waiting' \/ \E x \in NextArrival : x.flow = i
           /\ Waiting' # {} => NextArrival # {}
<1>1. CASE flow_arrivals = <<>>
  <2>1. flow_arrivals' = flow_arrivals /\ DOMAIN flow_arrivals = {} /\ NextArrival = {}
    BY <1>1 DEF NextArrival
  <2>2. Waiting' = Waiting /\ Waiting = {}
    BY <2>1 DEF Waiting, ToSet
  <2>3. QED
    BY <2>1, <2>2
<1>2. CASE flow_arrivals # <<>>
  <2> DEFINE h == Head(flow_arrivals)
             x == Event(FLOW_ARRIVAL, h, StartOf(h))
  <2>1. flow_arrivals' = Tail(flow_arrivals) /\ NextArrival = {x}
    BY <1>2 DEF NextArrival
  <2>2. IsInjective(flow_arrivals') /\ ToSet(flow_arrivals') = ToSet(flow_arrivals) \ {h} /\ h \in ToSet(flow_arrivals)
    BY <1>2, <2>1, TailWaits
  <2>3. Waiting' = Waiting \ {h} /\ h \in Waiting
    BY <2>2 DEF Waiting
  <2>4. x.type = FLOW_ARRIVAL /\ ~ x.cancelled /\ x.flow = h
    BY DEF Event
  <2> HIDE DEF x, h
  <2>5. QED
    BY <2>1, <2>2, <2>3, <2>4
<1>3. QED
    BY <1>1, <1>2

\* A step of the loop, which ends when as many flows have ended as there are.
LEMMA StepPlaces ==
    ASSUME GenInv, Enough, Timed', phase = "run", UNCHANGED << generator, flows_to_schedule >>,
           IsInjective(flow_arrivals'), Settled(1 .. Len(flows_to_schedule), Waiting', Underway', DOMAIN finish_time', stuck'),
           total_finished_flows' = Cardinality(DOMAIN finish_time'), GoesOn(total_finished_flows')
    PROVE  Places'
<1> DEFINE L == Len(flows_to_schedule)
<1>1. L \in Nat
    BY LenProperties DEF GenInv, Made
<1>2. NumFlowsToRun = L
    BY DEF NumFlowsToRun, Enough
<1>3. DOMAIN finish_time' \in SUBSET (1 .. L)
    BY DEF Timed
<1>4. phase' = IF total_finished_flows' >= L THEN "done" ELSE "run"
    BY <1>2 DEF GoesOn
<1>5. phase' = "done" => \A i \in 1 .. L : i \in DOMAIN finish_time'
  <2> SUFFICES ASSUME phase' = "done"
               PROVE  \A i \in 1 .. L : i \in DOMAIN finish_time'
    OBVIOUS
  <2>1. Cardinality(DOMAIN finish_time') >= L
    BY <1>4
  <2> DEFINE ended == DOMAIN finish_time'
  <2> HIDE DEF ended, L
  <2>2. ended = 1 .. L
    BY <1>1, <1>3, <2>1, AllEnded DEF ended
  <2>3. QED
    BY <2>2 DEF ended
<1>6. QED
    BY <1>5 DEF Places

\* A flow is started and the next arrival posted.
LEMMA FlowArrivalPlaces ==
    ASSUME GenInv, Enough, Timed, Timed', Places, phase = "run", NEW e \in event_queue, ~ e.cancelled, FlowArrival(e),
           UNCHANGED << generator, flows_to_schedule >>
    PROVE  Places'
<1> DEFINE L == Len(flows_to_schedule)
<1>1. /\ IsInjective(flow_arrivals) /\ Settled(1 .. L, Waiting, Underway, DOMAIN finish_time, stuck)
      /\ total_finished_flows = Cardinality(DOMAIN finish_time)
    BY DEF Places
<1>2. /\ e.type = FLOW_ARRIVAL /\ e \in Underway
      /\ UNCHANGED << finish_time, total_finished_flows >> /\ GoesOn(total_finished_flows)
      /\ flow_arrivals' = IF flow_arrivals = <<>> THEN <<>> ELSE Tail(flow_arrivals)
    BY DEF FlowArrival, Underway
<1>3. /\ IsInjective(flow_arrivals') /\ Waiting' \subseteq Waiting
      /\ \A x \in NextArrival : x.type = FLOW_ARRIVAL /\ ~ x.cancelled /\ x.flow \in Waiting /\ x.flow \notin Waiting'
      /\ \A x, y \in NextArrival : x = y
      /\ \A i \in Waiting : i \in Waiting' \/ \E x \in NextArrival : x.flow = i
      /\ Waiting' # {} => NextArrival # {}
  <2>1. flow_arrivals \in Seq(1 .. L)
    BY DEF Timed
  <2> HIDE DEF L
  <2>2. QED
    BY <1>1, <1>2, <2>1, NextWaits
<1>4. e.flow \notin Waiting'
    BY <1>1, <1>2, <1>3 DEF Settled
<1>5. PICK went : /\ Underway' = (Underway \ {e}) \cup NextArrival \cup went
                  /\ \A x \in went : x.flow = e.flow /\ ~ x.cancelled
                  /\ \A x, y \in went : x = y
                  /\ \/ went # {} /\ stuck' = stuck
                     \/ went = {} /\ stuck' = stuck \cup {e.flow}
  <2>1. CASE UNCHANGED stuck /\ \E time :
             Posted(e, NextArrival \cup {Event(PACKET_ARRIVAL, e.flow, time), Event(RETX_TIMEOUT, e.flow, e.time + Timeout)})
    <3>1. PICK time :
             Posted(e, NextArrival \cup {Event(PACKET_ARRIVAL, e.flow, time), Event(RETX_TIMEOUT, e.flow, e.time + Timeout)})
      BY <2>1
    <3> DEFINE p == Event(PACKET_ARRIVAL, e.flow, time)
               t == Event(RETX_TIMEOUT, e.flow, e.time + Timeout)
    <3>2. p.type = PACKET_ARRIVAL /\ p.flow = e.flow /\ ~ p.cancelled /\ t.type = RETX_TIMEOUT
      BY DEF Event
    <3>3. event_queue' = (event_queue \ {e}) \cup (NextArrival \cup {p, t})
      BY <3>1 DEF Posted
    <3> HIDE DEF p, t
    <3>4. Underway' = (Underway \ {e}) \cup NextArrival \cup {p}
      <4>1. p.type \in {FLOW_ARRIVAL, PACKET_ARRIVAL, FLOW_FINISHED} /\ t.type \notin {FLOW_ARRIVAL, PACKET_ARRIVAL, FLOW_FINISHED}
        BY <3>2 DEF FLOW_ARRIVAL, PACKET_ARRIVAL, FLOW_FINISHED, RETX_TIMEOUT
      <4>2. \A x \in NextArrival : x.type \in {FLOW_ARRIVAL, PACKET_ARRIVAL, FLOW_FINISHED}
        BY <1>3
      <4>3. QED
        BY <3>3, <4>1, <4>2 DEF Underway
    <3>5. QED
      BY <2>1, <3>2, <3>4
  <2>2. CASE stuck' = stuck \cup {e.flow} /\ Posted(e, NextArrival)
    <3>1. \A x \in NextArrival : x.type \in {FLOW_ARRIVAL, PACKET_ARRIVAL, FLOW_FINISHED}
      BY <1>3
    <3>2. Underway' = (Underway \ {e}) \cup NextArrival \cup {}
      BY <2>2, <3>1 DEF Underway, Posted
    <3>3. QED
      BY <2>2, <3>2
  <2>3. QED
    BY <2>1, <2>2 DEF FlowArrival
<1>6. Settled(1 .. L, Waiting', Underway', DOMAIN finish_time, stuck')
  <2> DEFINE all == 1 .. L
             left == Waiting'
             astray == stuck'
             under == (Underway \ {e}) \cup NextArrival \cup went
  <2>1. Settled(all, left, under, DOMAIN finish_time, astray)
    <3> HIDE DEF all, left, astray
    <3>1. Settled(all, Waiting, Underway, DOMAIN finish_time, stuck)
      BY <1>1 DEF all
    <3>2. e.flow \notin left /\ left \subseteq Waiting
      BY <1>3, <1>4 DEF left
    <3>3. /\ \A x \in NextArrival : x.type = FLOW_ARRIVAL /\ ~ x.cancelled /\ x.flow \in Waiting /\ x.flow \notin left
          /\ \A x, y \in NextArrival : x = y
          /\ \A i \in Waiting : i \in left \/ \E x \in NextArrival : x.flow = i
          /\ left # {} => NextArrival # {}
      BY <1>3 DEF left
    <3>4. /\ \A x \in went : x.flow = e.flow /\ ~ x.cancelled
          /\ \A x, y \in went : x = y
          /\ \/ went # {} /\ astray = stuck
             \/ went = {} /\ astray = stuck \cup {e.flow}
      BY <1>5 DEF astray
    <3>5. QED
      BY <1>2, <3>1, <3>2, <3>3, <3>4, ArrivalSettles
  <2>2. QED
    BY <1>5, <2>1
<1>7. /\ Settled(1 .. L, Waiting', Underway', DOMAIN finish_time', stuck')
      /\ total_finished_flows' = Cardinality(DOMAIN finish_time') /\ GoesOn(total_finished_flows')
    BY <1>1, <1>2, <1>6
<1>8. QED
    BY <1>3, <1>7, StepPlaces

\* What the steps of the loop that start no flow leave as it is.
LEMMA WaitingStays ==
    ASSUME UNCHANGED flow_arrivals
    PROVE  Waiting' = Waiting /\ (IsInjective(flow_arrivals) => IsInjective(flow_arrivals'))
    BY DEF Waiting

\* The packet of a flow is followed by its end, and no timer is on the way.
LEMMA LastAckPlaces ==
    ASSUME EndsOnce, GenInv, Enough, Timed, Timed', Places, phase = "run", NEW e \in event_queue, ~ e.cancelled, LastAck(e),
           UNCHANGED << generator, flows_to_schedule >>
    PROVE  Places'
<1> DEFINE timers == {t \in event_queue : t.type = RETX_TIMEOUT /\ t.flow = e.flow}
           off    == {[t EXCEPT !.cancelled = TRUE] : t \in timers}
           end    == Event(FLOW_FINISHED, e.flow, e.time)
           all    == 1 .. Len(flows_to_schedule)
<1>1. /\ IsInjective(flow_arrivals) /\ Settled(all, Waiting, Underway, DOMAIN finish_time, stuck)
      /\ total_finished_flows = Cardinality(DOMAIN finish_time)
    BY DEF Places
<1>2. /\ e.type = PACKET_ARRIVAL /\ e \in Underway
      /\ UNCHANGED << flow_arrivals, finish_time, total_finished_flows, stuck >> /\ GoesOn(total_finished_flows)
    BY DEF LastAck, Underway
<1>3. event_queue' = (event_queue \ (timers \cup {e})) \cup off \cup {end}
  <2>1. PICK twice \in MayTwice :
             event_queue' = (event_queue \ (timers \cup {e})) \cup off
                            \cup {Event(FLOW_FINISHED, e.flow, e.time)}
                            \cup (IF twice THEN {Event(FLOW_FINISHED, e.flow, e.time + 1)} ELSE {})
    BY DEF LastAck
  <2>2. twice = FALSE
    BY DEF EndsOnce
  <2> HIDE DEF timers, off
  <2>3. QED
    BY <2>1, <2>2
<1>4. \A t \in off : t.type = RETX_TIMEOUT
  <2>1. ASSUME NEW t \in timers, NEW c, c = [t EXCEPT !.cancelled = TRUE]
        PROVE  c.type = RETX_TIMEOUT
    <3>1. t = [Event(t.type, t.flow, t.time) EXCEPT !.cancelled = t.cancelled] /\ t.type = RETX_TIMEOUT
      BY DEF Timed, IsEvent
    <3>2. QED
      BY <2>1, <3>1 DEF Event
  <2> HIDE DEF timers
  <2>2. QED
    BY <2>1
<1>5. end.type = FLOW_FINISHED /\ end.flow = e.flow /\ ~ end.cancelled
    BY DEF Event
<1>6. Underway' = (Underway \ {e}) \cup {end}
  <2>1. \A t \in off \cup timers : t.type \notin {FLOW_ARRIVAL, PACKET_ARRIVAL, FLOW_FINISHED}
    BY <1>4 DEF FLOW_ARRIVAL, PACKET_ARRIVAL, FLOW_FINISHED, RETX_TIMEOUT
  <2> HIDE DEF timers, off, end
  <2>2. QED
    BY <1>3, <1>5, <2>1 DEF Underway
<1>7. Settled(all, Waiting, Underway', DOMAIN finish_time, stuck)
  <2>1. e.type # FLOW_ARRIVAL
    BY <1>2 DEF PACKET_ARRIVAL, FLOW_ARRIVAL
  <2> HIDE DEF end, all
  <2>2. Settled(all, Waiting, (Underway \ {e}) \cup {end}, DOMAIN finish_time, stuck)
    BY <1>1, <1>2, <1>5, <2>1, FollowSettles
  <2>3. QED
    BY <1>6, <2>2
<1>8. Waiting' = Waiting /\ IsInjective(flow_arrivals')
    BY <1>1, <1>2, WaitingStays
<1>9. /\ Settled(all, Waiting', Underway', DOMAIN finish_time', stuck')
      /\ total_finished_flows' = Cardinality(DOMAIN finish_time') /\ GoesOn(total_finished_flows')
    BY <1>1, <1>2, <1>7, <1>8
<1>10. QED
    BY <1>8, <1>9, StepPlaces

\* A timer changes no flow's place.
LEMMA RetxPlaces ==
    ASSUME GenInv, Enough, Timed', Places, phase = "run", NEW e \in event_queue, RetxTimeout(e),
           UNCHANGED << generator, flows_to_schedule >>
    PROVE  Places'
<1> DEFINE t   == Event(RETX_TIMEOUT, e.flow, e.time + Timeout)
           all == 1 .. Len(flows_to_schedule)
<1>1. /\ IsInjective(flow_arrivals) /\ Settled(all, Waiting, Underway, DOMAIN finish_time, stuck)
      /\ total_finished_flows = Cardinality(DOMAIN finish_time)
    BY DEF Places
<1>2. /\ e.type = RETX_TIMEOUT /\ event_queue' = (event_queue \ {e}) \cup {t}
      /\ UNCHANGED << flow_arrivals, finish_time, total_finished_flows, stuck >> /\ GoesOn(total_finished_flows)
    BY DEF RetxTimeout, Posted
<1>3. Underway' = Underway
  <2>1. t.type = RETX_TIMEOUT
    BY DEF Event
  <2>2. RETX_TIMEOUT \notin {FLOW_ARRIVAL, PACKET_ARRIVAL, FLOW_FINISHED}
    BY DEF FLOW_ARRIVAL, PACKET_ARRIVAL, FLOW_FINISHED, RETX_TIMEOUT
  <2> HIDE DEF t
  <2>3. QED
    BY <1>2, <2>1, <2>2 DEF Underway
<1>4. Waiting' = Waiting /\ IsInjective(flow_arrivals')
    BY <1>1, <1>2, WaitingStays
<1>5. /\ Settled(all, Waiting', Underway', DOMAIN finish_time', stuck')
      /\ total_finished_flows' = Cardinality(DOMAIN finish_time') /\ GoesOn(total_finished_flows')
    BY <1>1, <1>2, <1>3, <1>4
<1>6. QED
    BY <1>4, <1>5, StepPlaces

\* A flow ends that had not.
LEMMA FinishedPlaces ==
    ASSUME GenInv, Enough, Timed, Timed', Places, phase = "run", NEW e \in event_queue, ~ e.cancelled, FlowFinished(e),
           UNCHANGED << generator, flows_to_schedule >>
    PROVE  Places'
<1> DEFINE L     == Len(flows_to_schedule)
           all   == 1 .. L
           ended == DOMAIN finish_time
<1>1. /\ IsInjective(flow_arrivals) /\ Settled(all, Waiting, Underway, ended, stuck)
      /\ total_finished_flows = Cardinality(ended)
    BY DEF Places
<1>2. /\ e.type = FLOW_FINISHED /\ e \in Underway /\ event_queue' = event_queue \ {e}
      /\ UNCHANGED << flow_arrivals, stuck >> /\ DOMAIN finish_time' = ended \cup {e.flow}
      /\ total_finished_flows' = total_finished_flows + 1 /\ GoesOn(total_finished_flows + 1)
    BY DEF FlowFinished, Underway, Posted
<1>3. Underway' = Underway \ {e}
    BY <1>2 DEF Underway
<1>4. Settled(all, Waiting, Underway \ {e}, ended \cup {e.flow}, stuck)
  <2>1. e.type # FLOW_ARRIVAL
    BY <1>2 DEF FLOW_FINISHED, FLOW_ARRIVAL
  <2> HIDE DEF all, ended
  <2>2. QED
    BY <1>1, <1>2, <2>1, EndSettles
<1>5. Waiting' = Waiting /\ IsInjective(flow_arrivals')
    BY <1>1, <1>2, WaitingStays
<1>6. Cardinality(ended \cup {e.flow}) = Cardinality(ended) + 1
  <2>1. L \in Nat /\ ended \subseteq 1 .. L
    BY LenProperties DEF GenInv, Made, Timed
  <2>2. e.flow \notin ended
    BY <1>1, <1>2 DEF Settled
  <2>3. IsFiniteSet(all) /\ ended \in SUBSET all
    BY <2>1, FS_Interval
  <2> HIDE DEF ended, all
  <2>4. IsFiniteSet(ended)
    BY <2>3, FS_Subset
  <2>5. QED
    BY <2>2, <2>4, FS_AddElement
<1>7. Settled(all, Waiting', Underway', DOMAIN finish_time', stuck')
  <2> HIDE DEF all
  <2>1. QED
    BY <1>2, <1>3, <1>4, <1>5
<1>8. total_finished_flows' = Cardinality(DOMAIN finish_time')
    BY <1>1, <1>2, <1>6
<1>9. GoesOn(total_finished_flows')
    BY <1>2
<1>10. QED
    BY <1>5, <1>7, <1>8, <1>9, StepPlaces

\* Only timers are cancelled.
LEMMA CancelledPlaces ==
    ASSUME Places, phase = "run", NEW e \in event_queue, e.cancelled, Posted(e, {}), UNCHANGED << phase, runvars >>,
           UNCHANGED << generator, flows_to_schedule >>
    PROVE  Places'
<1> DEFINE all == 1 .. Len(flows_to_schedule)
<1>1. /\ IsInjective(flow_arrivals) /\ Settled(all, Waiting, Underway, DOMAIN finish_time, stuck)
      /\ total_finished_flows = Cardinality(DOMAIN finish_time)
    BY DEF Places
<1>2. UNCHANGED << flow_arrivals, finish_time, total_finished_flows, stuck >>
    BY DEF runvars
<1>3. e \notin Underway
    BY <1>1 DEF Settled
<1>4. Underway' = Underway
    BY <1>3 DEF Underway, Posted
<1>5. Waiting' = Waiting /\ IsInjective(flow_arrivals')
    BY <1>1, <1>2, WaitingStays
<1>6. Settled(all, Waiting', Underway', DOMAIN finish_time', stuck') /\ total_finished_flows' = Cardinality(DOMAIN finish_time')
    BY <1>1, <1>2, <1>4, <1>5
<1>7. phase' = "run" /\ flows_to_schedule' = flows_to_schedule
    OBVIOUS
<1>8. QED
    BY <1>5, <1>6, <1>7 DEF Places

\* The run that has no event left has no flow on its way.
LEMMA NoEventPlaces ==
    ASSUME Places, NoEventLeft
    PROVE  Places'
<1> DEFINE all == 1 .. Len(flows_to_schedule)
<1>1. /\ phase = "run" /\ event_queue = {}
      /\ UNCHANGED << event_queue, flows_to_schedule, flow_arrivals, finish_time, total_finished_flows, stuck >>
    BY DEF NoEventLeft, runvars
<1>2. /\ IsInjective(flow_arrivals) /\ Settled(all, Waiting, Underway, DOMAIN finish_time, stuck)
      /\ total_finished_flows = Cardinality(DOMAIN finish_time)
    BY <1>1 DEF Places
<1>3. Underway = {} /\ Underway' = Underway /\ Waiting' = Waiting /\ IsInjective(flow_arrivals')
    BY <1>1, <1>2, WaitingStays DEF Underway
<1>4. \A i \in all : i \in DOMAIN finish_time \/ i \in stuck
  <2> HIDE DEF all
  <2>1. QED
    BY <1>2, <1>3, NothingSettled
<1>5. Settled(all, Waiting', Underway', DOMAIN finish_time', stuck')
    BY <1>1, <1>2, <1>3
<1>6. QED
    BY <1>1, <1>2, <1>3, <1>4, <1>5 DEF Places

\* The first arrival of a run, with all others waiting for it.
LEMMA OrderSettles ==
    ASSUME NEW n \in Nat, NEW p \in [1 .. n -> 1 .. n], \A i, j \in 1 .. n : i < j => p[i] # p[j]
    PROVE  /\ \A i, j \in 1 .. n : p[i] = p[j] => i = j
           /\ \A h \in 1 .. n : \E k \in 1 .. n : h = p[k]
<1> DEFINE S == 1 .. n
<1>1. \A i, j \in S : p[i] = p[j] => i = j
  <2>1. \A i, j \in S : i < j \/ j < i \/ i = j
    OBVIOUS
  <2>2. QED
    BY <2>1
<1>2. IsFiniteSet(S)
    BY FS_Interval
<1> HIDE DEF S
<1>3. p \in Injection(S, S)
    BY <1>1 DEF Injection, IsInjective, S
<1>4. p \in Surjection(S, S)
    BY <1>2, <1>3, FS_Injection
<1>5. \A h \in S : \E k \in S : p[k] = h
    BY <1>4 DEF Surjection
<1>6. QED
    BY <1>1, <1>5 DEF S

\* One flow has its arrival, and all others wait.
LEMMA BeginRunPlaces ==
    ASSUME GenInv, Timed, BeginRun
    PROVE  Places'
<1> DEFINE L   == Len(flows_to_schedule)
           all == 1 .. L
<1>1. /\ phase = "create" /\ phase' = "run" /\ event_queue = {}
      /\ UNCHANGED << flows_to_schedule, finish_time, total_finished_flows, stuck >>
    BY DEF BeginRun
<1>2. L \in Nat /\ DOMAIN flows_to_schedule = 1 .. L
    BY LenProperties DEF GenInv, Made
<1>3. finish_time = <<>> /\ total_finished_flows = 0 /\ stuck = {}
    BY <1>1 DEF Timed
<1>4. DOMAIN finish_time = {} /\ total_finished_flows' = Cardinality(DOMAIN finish_time')
    BY <1>1, <1>3, FS_EmptySet
<1>5. PICK order \in Orders :
          /\ flow_arrivals' = IF order = <<>> THEN <<>> ELSE Tail(order)
          /\ event_queue' = IF order = <<>> THEN {} ELSE {Event(FLOW_ARRIVAL, order[1], StartOf(order[1]))}
    BY DEF BeginRun
<1>6. order \in [1 .. L -> 1 .. L] /\ \A i, j \in 1 .. L : i < j => order[i] # order[j]
    BY <1>2, <1>5 DEF Orders
<1> HIDE DEF L
<1>7. /\ \A i, j \in 1 .. L : order[i] = order[j] => i = j
      /\ \A h \in 1 .. L : \E k \in 1 .. L : h = order[k]
    BY <1>2, <1>6, OrderSettles
<1>8. order \in Seq(1 .. L) /\ Len(order) = L
  <2>1. order \in Seq(1 .. L)
    BY <1>2, <1>6, SeqDef
  <2>2. QED
    BY <1>2, <1>6, <2>1, LenProperties
<1>9. IsInjective(flow_arrivals') /\ Settled(all, Waiting', Underway', {}, {})
  <2>1. CASE order = <<>>
    <3>1. all = {} /\ flow_arrivals' = order /\ DOMAIN order = {} /\ event_queue' = {}
      BY <1>2, <1>5, <1>8, <2>1, EmptySeq
    <3>2. Waiting' = {} /\ Underway' = {} /\ IsInjective(flow_arrivals')
      BY <3>1 DEF Waiting, Underway, ToSet, IsInjective
    <3>3. Settled({}, {}, {}, {}, {})
      BY DEF Settled
    <3> HIDE DEF all
    <3>4. QED
      BY <3>1, <3>2, <3>3
  <2>2. CASE order # <<>>
    <3> DEFINE h == Head(order)
               e == Event(FLOW_ARRIVAL, h, StartOf(h))
    <3>1. flow_arrivals' = Tail(order) /\ Head(order) = order[1]
      BY <1>5, <1>8, <2>2, HeadTailProperties
    <3>2. event_queue' = {e} /\ e.type = FLOW_ARRIVAL /\ e.flow = h /\ ~ e.cancelled
      BY <1>5, <2>2, <3>1 DEF Event
    <3> HIDE DEF e
    <3>3. Underway' = {e}
      BY <3>2 DEF Underway
    <3>4. IsInjective(order) /\ ToSet(order) = all
      BY <1>6, <1>7 DEF IsInjective, ToSet
    <3>5. IsInjective(flow_arrivals') /\ ToSet(flow_arrivals') = ToSet(order) \ {Head(order)} /\ Head(order) \in ToSet(order)
      BY <1>8, <2>2, <3>1, <3>4, TailWaits
    <3>6. Waiting' = all \ {h}
      BY <3>4, <3>5 DEF Waiting
    <3> HIDE DEF h, all
    <3>7. Settled(all, Waiting', {e}, {}, {})
      BY <3>2, <3>6 DEF Settled
    <3>8. QED
      BY <3>3, <3>5, <3>7
  <2>3. QED
    BY <2>1, <2>2
<1>10. Settled(1 .. Len(flows_to_schedule'), Waiting', Underway', DOMAIN finish_time', stuck')
    BY <1>1, <1>3, <1>4, <1>9 DEF L
<1>11. QED
    BY <1>1, <1>4, <1>9, <1>10 DEF Places

\* Every step keeps each flow in its place.
LEMMA PlacesNext ==
    ASSUME EndsOnce, GenInv, Enough, Timed, Timed', Places, [RunNext]_simvars
    PROVE  Places'
<1>1. CASE Generate
  <2>1. phase' \notin {"run", "done"}
    BY <1>1 DEF Generate, DrawPermutation, DrawIncast, DrawOutcast, DrawCluster, PostAll, ReadTrace, CreateFlow, DrawsFrom
  <2>2. QED
    BY <2>1 DEF Places
<1>2. CASE BeginRun
    BY <1>2, BeginRunPlaces
<1>3. CASE ProcessEvent
  <2>1. phase = "run" /\ UNCHANGED << generator, flows_to_schedule >>
    BY <1>3 DEF ProcessEvent
  <2>2. PICK e \in event_queue :
            IF e.cancelled THEN Posted(e, {}) /\ UNCHANGED << phase, runvars >>
            ELSE (FlowArrival(e) \/ LastAck(e) \/ RetxTimeout(e) \/ FlowFinished(e)) /\ UNCHANGED cut_through
    BY <1>3 DEF ProcessEvent
  <2>3. CASE e.cancelled
    BY <2>1, <2>2, <2>3, CancelledPlaces
  <2>4. CASE ~ e.cancelled
    BY <2>1, <2>2, <2>4, FlowArrivalPlaces, LastAckPlaces, RetxPlaces, FinishedPlaces
  <2>5. QED
    BY <2>3, <2>4
<1>4. CASE NoEventLeft
    BY <1>4, NoEventPlaces
<1>5. CASE UNCHANGED simvars
  <2>1. UNCHANGED << phase, flows_to_schedule, finish_time, event_queue, flow_arrivals, total_finished_flows, stuck >>
    BY <1>5 DEF simvars, genvars, runvars
  <2>2. Waiting' = Waiting /\ Underway' = Underway
    BY <2>1 DEF Waiting, Underway
  <2>3. QED
    BY <2>1, <2>2 DEF Places
<1>6. QED
    BY <1>1, <1>2, <1>3, <1>4, <1>5 DEF RunNext

\* The end of a run is complete.
LEMMA EndsFollow ==
    ASSUME GenInv, Enough, Places
    PROVE  EndsComplete
<1>1. DOMAIN flows_to_schedule = 1 .. Len(flows_to_schedule)
    BY LenProperties DEF GenInv, Made
<1>2. QED
    BY <1>1 DEF Enough, Places, EndsComplete

\* Every flow that was asked for has been made, started and ended, or is stuck, when a run
\* ends: with enough hosts to find pairs and flows that end once.
THEOREM RunsEndComplete ==
    ASSUME EnoughHosts, EndsOnce
    PROVE  RunSpec => []EndsComplete
<1> DEFINE RunInv == GenInv /\ Timed /\ Enough /\ Places
<1>1. RunInit => RunInv
  <2>1. RunInit => Places
    BY DEF RunInit, GeneratorInit, Places
  <2>2. QED
    BY <2>1, GenInit, TimedInit, EnoughInit
<1>2. RunInv /\ [RunNext]_simvars => RunInv'
  <2> SUFFICES ASSUME RunInv, [RunNext]_simvars
               PROVE  RunInv'
    OBVIOUS
  <2>1. GenInv'
    BY GenNext
  <2>2. Timed'
    BY TimedNext
  <2>3. Enough'
    BY EnoughNext
  <2>4. Places'
    BY <2>2, PlacesNext
  <2>5. QED
    BY <2>1, <2>2, <2>3, <2>4
<1>3. RunInv => EndsComplete
    BY EndsFollow
<1>4. QED
    BY <1>1, <1>2, <1>3, PTL DEF RunSpec
=============================================================================
