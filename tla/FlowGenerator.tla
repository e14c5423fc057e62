--------------------------- MODULE FlowGenerator ---------------------------
(***************************************************************************)
(* Which flows a simulation is made of.  A generator draws the pairs of    *)
(* hosts that talk to each other, posts a FlowCreationForInitialization-   *)
(* Event for each, and runs the event queue until it is empty; each event  *)
(* makes a flow and posts itself again as long as flows are missing.       *)
(* FlowReader makes the flows of a trace instead.                          *)
(*                                                                         *)
(* A draw of rand() is a step: the loops that draw again until a host fits *)
(* end only if one can.                                                    *)
(***************************************************************************)
EXTENDS LeafSpine, FatTree, Sequences, SequencesExt, FiniteSets

CONSTANTS
    Generator,     \* subset of the classes below
    NumFlows,      \* num_flows
    Incast,        \* incast
    Outcast,       \* outcast
    NumHostTypes,  \* params.num_host_types, hosts in a cluster
    RackSize,      \* 16: hosts in a rack for CustomCDF on the scale of a rack
    Gap,           \* draws of nv_intarr
    Table,         \* the table of nv_bytes: sizes with their cumulative weights
    Draws,         \* what rand() may give, in the weights of the table
    Trace,         \* traces for FlowReader
    MaxEarly,      \* bound: pairs that draw less than the longest gap for their first flow
    MaxSkips       \* bound: creation events that draw size 0

ASSUME GeneratorAssumption ==
    /\ Generator \subseteq {"Poisson", "Bytes", "PoissonLocal", "Worstcase", "Permutation", "Incast", "Outcast",
                            "RackScale", "DcScale", "Reader"}
    /\ NumFlows \in Nat \ {0} /\ Incast \in Nat \ {0} /\ Outcast \in Nat \ {0}
    /\ NumHostTypes \in Nat \ {0, 1} /\ RackSize \in Nat /\ RackSize > NumHostTypes
    /\ Table \in Seq([val : Nat, cdf : Nat]) /\ Table # <<>>
    /\ \A i \in 2 .. Len(Table) : Table[i].cdf > Table[i - 1].cdf /\ Table[i].val >= Table[i - 1].val
    /\ Draws \subseteq 0 .. Table[Len(Table)].cdf /\ Draws # {}
    /\ \A trace \in Trace : IsFiniteSet(DOMAIN trace) /\ \A i \in DOMAIN trace :
          trace[i].kind = "flow" =>
              trace[i] \in [kind : {"flow"}, id : Nat, start_time : Nat, size : Nat \ {0}, src : Nat, dst : Nat]
    /\ Gap \subseteq Nat /\ MaxEarly \in Nat /\ MaxSkips \in Nat

VARIABLES
    topo, generator, smooth_cdf,
    phase,               \* "draw", "create", then what Simulation does
    host,                \* the loop over the hosts
    drawn,               \* dests, target_srcs, dst, or the clusters: pairs that have been drawn
    event_queue, current_time,
    flows_to_schedule,
    skips                \* size 0 drawn so far

genvars == << topo, generator, smooth_cdf, phase, host, drawn, event_queue, current_time, flows_to_schedule, skips >>

HostsOf(t) == IF t = "FatTree" THEN FtHosts ELSE NumHosts
N == HostsOf(topo)

\* Types of events, in the order of EventComparator.
FLOW_ARRIVAL        == 0
PACKET_ARRIVAL      == 2
RETX_TIMEOUT        == 5
FLOW_FINISHED       == 6
FLOW_CREATION_EVENT == 8

Creation(src, dst, k, time) == [ type |-> FLOW_CREATION_EVENT, time |-> time, src |-> src, dst |-> dst, k |-> k ]

GeneratorInit ==
    /\ topo \in {"FatTree", "LeafSpine"} /\ generator \in Generator
    /\ smooth_cdf \in (IF generator \in {"Poisson", "PoissonLocal", "Permutation", "Outcast"} THEN BOOLEAN ELSE {generator = "Bytes"})
    /\ topo = "FatTree" => generator = "Reader"
    /\ phase = "draw" /\ host = 0 /\ drawn = {}
    /\ event_queue = {} /\ current_time = 0 /\ flows_to_schedule = <<>> /\ skips = 0

-----------------------------------------------------------------------------
(* Draws *)

AllPairs == {p \in (0 .. N - 1) \X (0 .. N - 1) : p[1] # p[2]}

PoissonPairs   == AllPairs
BytesPairs     == AllPairs
WorstcasePairs == AllPairs

\* Pairs with hosts of the same group of `local' and with others draw from two rates.
LocalPairs(local) ==
    {p \in AllPairs : p[1] \div local = p[2] \div local} \cup {p \in AllPairs : p[1] \div local # p[2] \div local}

DrawsFrom(pairs) ==
    /\ drawn' = drawn \cup pairs
    /\ UNCHANGED << topo, generator, smooth_cdf, phase, event_queue, current_time, flows_to_schedule, skips >>

Destinations == {p[2] : p \in drawn}

\* Mutant: the destination is not remembered.
TakenNone == {}

\* PermutationTM: dests.
Taken == Destinations

\* PermutationTM: j is drawn again until it is another host that nobody sends to yet.
DrawPermutation ==
    /\ generator = "Permutation" /\ phase = "draw" /\ host < N
    /\ \E j \in 0 .. N - 1 : j # host /\ j \notin Taken /\ DrawsFrom({<< host, j >>})
    /\ host' = host + 1

\* Mutant: a source is inserted only if it is there, as in OutcastTM.
KnownSource(j) == << j, 0 >> \in drawn

\* IncastTM: sources for host 0, until there are enough.
NewSource(j) == << j, 0 >> \notin drawn

DrawIncast ==
    /\ generator = "Incast" /\ phase = "draw" /\ Cardinality(drawn) < Incast
    /\ \E j \in 1 .. N - 1 : NewSource(j) /\ DrawsFrom({<< j, 0 >>})
    /\ UNCHANGED host

\* OutcastTM: a destination is inserted only if it has been inserted before.
DrawOutcast ==
    /\ generator = "Outcast" /\ phase = "draw" /\ host < N
    /\ LET dst == {p \in drawn : p[1] = host}
       IN  \E j \in (0 .. N - 1) \ {host} :
              /\ DrawsFrom(IF Cardinality(dst) < Outcast THEN dst \cap {<< host, j >>} ELSE {})
              /\ host' = IF Cardinality(dst) = Outcast THEN host + 1 ELSE host

\* CustomCDF with ddc_type 0: a host without a cluster draws one from the hosts that have
\* none, if enough are left.  drawn holds << host, place, sender of the cluster >>.
Unfilled == {h \in 0 .. N - 1 : \A c \in drawn : c[1] # h}

\* Mutant: hosts are drawn among all others.
UnfilledAll == (0 .. N - 1)

\* The hosts that the do-while loop accepts.
Free == Unfilled

DrawCluster ==
    /\ generator = "DcScale" /\ phase = "draw" /\ host < N
    /\ IF host \in Unfilled /\ Cardinality(Unfilled) >= NumHostTypes
       THEN \E others \in {s \in [1 .. NumHostTypes - 1 -> Free \ {host}] : IsInjective(s)} :
               DrawsFrom({<< host, 0, host >>} \cup {<< others[t], t, host >> : t \in DOMAIN others})
       ELSE DrawsFrom({})
    /\ host' = host + 1

\* Hosts of the cluster of i but i itself, in their order; the last one is never sent to,
\* and there is no distribution from a profile to itself.
DcPairs ==
    UNION {{<< i[1], c[1] >> : c \in {d \in drawn :
                LET j == IF d[2] < i[2] THEN d[2] ELSE d[2] - 1
                IN  d[3] = i[3] /\ d # i /\ j < NumHostTypes - 2 /\ j # i[2]}} : i \in drawn}

\* CustomCDF on the scale of a rack: the others are the first hosts of its rack, and the
\* last host of a rack is not used.
RackPairs ==
    {p \in AllPairs :
        LET here    == p[1] % RackSize
            place   == p[2] % RackSize
            j       == IF place > here THEN place - 1 ELSE place
        IN  /\ p[1] \div RackSize = p[2] \div RackSize
            /\ here # RackSize - 1
            /\ j < NumHostTypes - 2 /\ j # p[1] % NumHostTypes}

\* The loops that draw have ended; each pair gets its event.
DrawsEnd ==
    CASE generator \in {"Permutation", "Outcast", "DcScale"} -> host = N
      [] generator = "Incast"                               -> Cardinality(drawn) = Incast
      [] OTHER                                              -> TRUE

Pairs ==
    CASE generator \in {"Permutation", "Incast", "Outcast"} -> drawn
      [] generator = "Poisson"                              -> PoissonPairs
      [] generator = "Bytes"                                -> BytesPairs
      [] generator = "Worstcase"                            -> WorstcasePairs
      [] generator = "PoissonLocal"                         -> LocalPairs(HostsPerAgg)
      [] generator = "DcScale"                              -> DcPairs
      [] generator = "RackScale"                            -> RackPairs

\* CustomCDF posts three events for each pair.
Copies == IF generator \in {"DcScale", "RackScale"} THEN 1 .. 3 ELSE {1}

FirstGap == IF generator = "Incast" THEN {0} ELSE Gap

PostAll ==
    /\ generator # "Reader" /\ phase = "draw" /\ DrawsEnd
    /\ \E n \in 0 .. MaxEarly, soon \in FirstGap, late \in FirstGap :
       \E early \in kSubset(n, Pairs \X Copies) :
          /\ IF n = 0 THEN soon = late ELSE soon < late
          /\ event_queue' = {Creation(x[1][1], x[1][2], x[2], 1 + (IF x \in early THEN soon ELSE late)) :
                                x \in Pairs \X Copies}
    /\ phase' = "create"
    /\ UNCHANGED << topo, generator, smooth_cdf, host, drawn, current_time, flows_to_schedule, skips >>

-----------------------------------------------------------------------------
(* Sizes: EmpiricalRandomVariable *)

\* Mutant: the upper half begins with the middle.
Halve(lo, hi, u) == LET mid == (lo + hi) \div 2
                    IN  IF u > Table[mid].cdf THEN << mid + 1, hi >> ELSE << lo, mid - 1 >>

\* A step of the search in the table.
Step(lo, hi, u) == LET mid == (lo + hi) \div 2
                   IN  IF u > Table[mid].cdf THEN << mid + 1, hi >> ELSE << lo, mid >>

\* lookup, with places that begin at 1.
Lookup(u) ==
    LET search[r \in (1 .. Len(Table)) \X (0 .. Len(Table))] ==
            IF r[1] < r[2] THEN search[Step(r[1], r[2], u)] ELSE r[1]
    IN  IF u <= Table[1].cdf THEN 1 ELSE search[<< 2, Len(Table) >>]

\* CDFRandomVariable, which looks through the table.
FirstReaching(u) ==
    LET reach == {i \in DOMAIN Table : u <= Table[i].cdf}
    IN  IF reach = {} THEN Len(Table) ELSE Min(reach)

\* EmpiricalRandomVariable, to the nearest number.
Interpolated(u) ==
    LET mid == Lookup(u)
        lo  == Table[mid - 1]
        hi  == Table[mid]
    IN  IF mid > 1 /\ u < hi.cdf
        THEN lo.val + (2 * (u - lo.cdf) * (hi.val - lo.val) + (hi.cdf - lo.cdf)) \div (2 * (hi.cdf - lo.cdf))
        ELSE hi.val

SizeOf(u) == IF smooth_cdf THEN Interpolated(u) ELSE Table[FirstReaching(u)].val

-----------------------------------------------------------------------------
(* Flows *)

Flow(id, start, u, size, src, dst) ==
    [ id |-> id, start_time |-> start, draw |-> u, size |-> size, src |-> src, dst |-> dst ]

\* Mutant: one flow too many.
FullLate == Len(flows_to_schedule) > NumFlows

Full == Len(flows_to_schedule) >= NumFlows

\* The event on top of the queue.
Top(e) == e \in event_queue /\ \A f \in event_queue :
              f.time > e.time \/ (f.time = e.time /\ f.type >= e.type)

\* The loop of make_flows with FlowCreationForInitializationEvent; the events left
\* when there are enough flows are thrown away.  An incast and the worst case draw no size.
CreateFlow ==
    /\ phase = "create"
    /\ \E e \in event_queue :
          /\ Top(e)
          /\ IF Full
             THEN /\ event_queue' = {} /\ current_time' = Max({f.time : f \in event_queue})
                  /\ UNCHANGED << flows_to_schedule, skips >>
             ELSE \E u \in IF generator \in {"Incast", "Worstcase"} THEN {Max(Draws)} ELSE Draws, gap \in Gap \ {0} :
                     /\ current_time' = e.time
                     /\ IF SizeOf(u) # 0
                        THEN /\ flows_to_schedule' = Append(flows_to_schedule,
                                    Flow(Len(flows_to_schedule), e.time, u, SizeOf(u), e.src, e.dst))
                             /\ UNCHANGED skips
                        ELSE skips < MaxSkips /\ skips' = skips + 1 /\ UNCHANGED flows_to_schedule
                     /\ event_queue' = (event_queue \ {e}) \cup {Creation(e.src, e.dst, e.k, e.time + gap)}
    /\ UNCHANGED << topo, generator, smooth_cdf, phase, host, drawn >>

\* FlowReader: a comment is skipped, a line that is not a flow ends the reading, and so
\* does the end of the trace; a flow of unknown hosts is skipped.
ReadTrace ==
    /\ generator = "Reader" /\ phase = "draw"
    /\ \E trace \in Trace :
          LET read == {i \in DOMAIN trace : \A k \in 1 .. i : trace[k].kind # "malformed"}
              good == {i \in read : trace[i].kind = "flow" /\ trace[i].src < N /\ trace[i].dst < N}
          IN  \E line \in [1 .. Cardinality(good) -> good] :
                 /\ \A i, j \in DOMAIN line : i < j => line[i] < line[j]
                 /\ flows_to_schedule' = [i \in DOMAIN line |->
                       LET l == trace[line[i]] IN Flow(l.id, l.start_time, 0, l.size, l.src, l.dst)]
    /\ phase' = "create"
    /\ UNCHANGED << topo, generator, smooth_cdf, host, drawn, event_queue, current_time, skips >>

Generate == DrawPermutation \/ DrawIncast \/ DrawOutcast \/ DrawCluster \/ PostAll \/ ReadTrace \/ CreateFlow
=============================================================================
