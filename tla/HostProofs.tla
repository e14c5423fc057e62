----------------------------- MODULE HostProofs -----------------------------
(***************************************************************************)
(* Proofs about the two kinds of hosts that schedule flows: SnsHost, for   *)
(* every set of flows, collectives and rates, and Ruf, for every set of    *)
(* flows and hosts, whatever is lost.                                      *)
(*                                                                         *)
(* HostInv carries HostAwake, TurnsPaced, LineRateKept and ProbesServed.   *)
(* Its core is that each of the two chains of events, the turns and the    *)
(* pump, has one event at most and that its pointer tells whether it has   *)
(* one (ChainInv, PumpInv).                                                *)
(*                                                                         *)
(* TurnsInv carries FlowsTakeTurns in a host of one collective: a flow     *)
(* that had a turn since the last one of f is behind f.                    *)
(*                                                                         *)
(* RufInv carries SourceShared, ConnectionsKept and GrantsInUse.  Its core *)
(* is the claim that a receiver has on a source: with the grant on its way *)
(* to it, with the grant it has, or with the NRTS on its way back.  A      *)
(* receiver has one claim at most, in a round in which the arbiter keeps   *)
(* both of them busy, and no two receivers claim one source (ClaimsOnce,   *)
(* ClaimsKnown).  An NRTS names its round (NrtsNamed) because the grant is *)
(* returned before its last token (HeldLong).                              *)
(***************************************************************************)
EXTENDS SnsHost, Ruf, SequencesExt, SequenceTheorems, FiniteSetTheorems, WellFoundedInduction, TLAPS

-----------------------------------------------------------------------------
(* Sequences *)

\* What is left of a sequence without its i-th element.
LEMMA RemoveAtProperties ==
    ASSUME NEW S, NEW s \in Seq(S), NEW i \in 1 .. Len(s)
    PROVE  /\ RemoveAt(s, i) \in Seq(S)
           /\ Len(RemoveAt(s, i)) = Len(s) - 1
           /\ \A k \in 1 .. Len(s) - 1 :
                RemoveAt(s, i)[k] = IF k < i THEN s[k] ELSE s[k + 1]
<1> DEFINE front == SubSeq(s, 1, i - 1)
           back  == SubSeq(s, i + 1, Len(s))
<1>1. Len(s) \in Nat /\ \A k \in 1 .. Len(s) : s[k] \in S
    BY LenProperties, ElementOfSeq
<1>2. /\ front \in Seq(S) /\ Len(front) = i - 1
      /\ \A k \in 1 .. i - 1 : front[k] = s[k]
    <2>1. \A k \in 1 .. i - 1 : s[k] \in S
        BY <1>1
    <2>2. 1 \in Int /\ i - 1 \in Int
        BY <1>1
    <2>3. /\ front \in Seq(S)
          /\ Len(front) = IF 1 <= i - 1 THEN (i - 1) - 1 + 1 ELSE 0
          /\ \A k \in 1 .. (i - 1) - 1 + 1 : front[k] = s[1 + k - 1]
        BY <2>1, <2>2, SubSeqProperties
    <2>4. QED
        BY <1>1, <2>3
<1>3. /\ back \in Seq(S) /\ Len(back) = Len(s) - i
      /\ \A k \in 1 .. Len(s) - i : back[k] = s[i + k]
    <2>1. \A k \in i + 1 .. Len(s) : s[k] \in S
        BY <1>1
    <2>2. i + 1 \in Int /\ Len(s) \in Int
        BY <1>1
    <2>3. /\ back \in Seq(S)
          /\ Len(back) = IF i + 1 <= Len(s) THEN Len(s) - (i + 1) + 1 ELSE 0
          /\ \A k \in 1 .. Len(s) - (i + 1) + 1 : back[k] = s[(i + 1) + k - 1]
        BY <2>1, <2>2, SubSeqProperties
    <2>4. QED
        BY <1>1, <2>3
<1>4. RemoveAt(s, i) = front \o back
    BY DEF RemoveAt
<1>5. /\ front \o back \in Seq(S)
      /\ Len(front \o back) = Len(front) + Len(back)
      /\ \A k \in 1 .. Len(front) + Len(back) :
            (front \o back)[k] = IF k <= Len(front) THEN front[k]
                                 ELSE back[k - Len(front)]
    BY <1>2, <1>3, ConcatProperties
<1> HIDE DEF front, back
<1>6. Len(front) + Len(back) = Len(s) - 1
    BY <1>1, <1>2, <1>3
<1>7. ASSUME NEW k \in 1 .. Len(s) - 1
      PROVE  (front \o back)[k] = IF k < i THEN s[k] ELSE s[k + 1]
    <2>1. CASE k < i
        BY <1>1, <1>2, <1>5, <1>6, <2>1
    <2>2. CASE ~(k < i)
        <3>1. k - (i - 1) \in 1 .. Len(s) - i /\ ~(k <= Len(front))
            BY <1>1, <1>2, <2>2
        <3>2. (front \o back)[k] = back[k - (i - 1)]
            BY <1>2, <1>5, <1>6, <3>1
        <3>3. back[k - (i - 1)] = s[i + (k - (i - 1))]
            BY <1>3, <3>1
        <3>4. i + (k - (i - 1)) = k + 1
            BY <1>1
        <3>5. QED
            BY <2>2, <3>2, <3>3, <3>4
    <2>3. QED
        BY <2>1, <2>2
<1>8. QED
    BY <1>4, <1>5, <1>6, <1>7

\* What is left of a sequence behind its i-th element.
LEMMA SuffixProperties ==
    ASSUME NEW S, NEW s \in Seq(S), NEW i \in 1 .. Len(s)
    PROVE  /\ SubSeq(s, i + 1, Len(s)) \in Seq(S)
           /\ Len(SubSeq(s, i + 1, Len(s))) = Len(s) - i
           /\ \A k \in 1 .. Len(s) - i : SubSeq(s, i + 1, Len(s))[k] = s[i + k]
<1>1. Len(s) \in Nat /\ \A k \in i + 1 .. Len(s) : s[k] \in S
    BY LenProperties, ElementOfSeq
<1>2. i + 1 \in Int /\ Len(s) \in Int
    BY <1>1
<1>3. /\ SubSeq(s, i + 1, Len(s)) \in Seq(S)
      /\ Len(SubSeq(s, i + 1, Len(s))) = IF i + 1 <= Len(s) THEN Len(s) - (i + 1) + 1 ELSE 0
      /\ \A k \in 1 .. Len(s) - (i + 1) + 1 :
            SubSeq(s, i + 1, Len(s))[k] = s[(i + 1) + k - 1]
    BY <1>1, <1>2, SubSeqProperties
<1>4. QED
    BY <1>1, <1>3

\* A function on 1 .. n is a sequence of n elements.
LEMMA FunctionIsSeq ==
    ASSUME NEW S, NEW n \in Nat, NEW f \in [1 .. n -> S]
    PROVE  f \in Seq(S) /\ Len(f) = n
<1>1. f \in Seq(S)
    BY SeqDef
<1>2. Len(f) \in Nat /\ 1 .. Len(f) = 1 .. n
    BY <1>1, LenProperties
<1>3. n > 0 => n \in 1 .. Len(f)
    BY <1>2
<1>4. Len(f) > 0 => Len(f) \in 1 .. n
    BY <1>2
<1>5. QED
    BY <1>1, <1>2, <1>3, <1>4

\* A sequence that holds one element at most is empty without it.
LEMMA RemoveOnly ==
    ASSUME NEW S, NEW s \in Seq(S), Len(s) <= 1, NEW i \in 1 .. Len(s)
    PROVE  RemoveAt(s, i) = << >>
<1>1. RemoveAt(s, i) \in Seq(S) /\ Len(RemoveAt(s, i)) = Len(s) - 1
    BY RemoveAtProperties
<1>2. Len(s) \in Nat
    BY LenProperties
<1>3. Len(RemoveAt(s, i)) = 0
    BY <1>1, <1>2
<1>4. QED
    BY <1>1, <1>3, EmptySeq

\* Appending to the empty sequence.
LEMMA AppendToEmpty ==
    ASSUME NEW S, NEW x \in S
    PROVE  /\ Append(<< >>, x) \in Seq(S) /\ Append(<< >>, x) # << >>
           /\ Len(Append(<< >>, x)) = 1 /\ Append(<< >>, x)[1] = x
<1>1. << >> \in Seq(S) /\ Len(<< >>) = 0
    BY EmptySeq
<1>2. /\ Append(<< >>, x) \in Seq(S) /\ Len(Append(<< >>, x)) = 1
      /\ Append(<< >>, x)[1] = x
    BY <1>1, AppendProperties
<1>3. QED
    BY <1>1, <1>2

-----------------------------------------------------------------------------
(* Sequences of ticks and of events *)

\* A countdown.
LEMMA SoonerProperties ==
    ASSUME NEW s \in Seq(Nat), AllLater(s)
    PROVE  /\ Sooner(s) \in Seq(Nat) /\ Len(Sooner(s)) = Len(s)
           /\ \A e \in 1 .. Len(s) : Sooner(s)[e] = s[e] - 1 /\ s[e] > 0
<1>1. Len(s) \in Nat /\ \A e \in 1 .. Len(s) : s[e] \in Nat
    BY LenProperties, ElementOfSeq
<1>2. Sooner(s) \in [1 .. Len(s) -> Nat]
    BY <1>1 DEF Sooner, AllLater
<1>3. Sooner(s) \in Seq(Nat) /\ Len(Sooner(s)) = Len(s)
    BY <1>1, <1>2, FunctionIsSeq
<1>4. \A e \in 1 .. Len(s) : Sooner(s)[e] = s[e] - 1 /\ s[e] > 0
    BY DEF Sooner, AllLater
<1>5. QED
    BY <1>3, <1>4

\* The order of the events for the SIMs can be changed.
LEMMA OrderProperties ==
    ASSUME NEW s \in Seq(SimEvent)
    PROVE  Older(s) \in Seq(SimEvent) /\ Adrift(s) \in Seq(SimEvent)
<1>1. Len(s) \in Nat /\ \A e \in 1 .. Len(s) : s[e] \in SimEvent
    BY LenProperties, ElementOfSeq
<1>2. ASSUME NEW x \in SimEvent
      PROVE  [x EXCEPT !.order = "first"] \in SimEvent /\ [x EXCEPT !.order = "free"] \in SimEvent
    BY DEF SimEvent
<1>3. Older(s) \in [1 .. Len(s) -> SimEvent] /\ Adrift(s) \in [1 .. Len(s) -> SimEvent]
    BY <1>1, <1>2 DEF Older, Adrift
<1>4. QED
    BY <1>1, <1>3, FunctionIsSeq

\* A turn posts an event for the SIMs.
LEMMA PostSimProperties ==
    ASSUME NEW s \in Seq(SimEvent), NEW ticks \in Nat
    PROVE  PostSim(s, ticks) \in Seq(SimEvent)
<1>1. Older(s) \in Seq(SimEvent)
    BY OrderProperties
<1>2. NewSimEvent(ticks) \in SimEvent
    BY DEF NewSimEvent, SimEvent
<1>3. QED
    BY <1>1, <1>2, AppendProperties DEF PostSim

-----------------------------------------------------------------------------
(* The pump *)

\* Starting the pump leaves exactly one.
LEMMA StartPumpKeeps ==
    ASSUME LineTyped, PumpInv, StartPump, line' = line
    PROVE  PumpInv' /\ pump_events' \in Seq(Nat) /\ pump_known' \in BOOLEAN
           /\ pump_events' # << >>
<1>1. CASE pump_known
    BY <1>1 DEF LineTyped, PumpInv, StartPump
<1>2. CASE ~pump_known
    <2>1. pump_events = << >> /\ line = 0
        BY <1>2 DEF PumpInv
    <2>2. pump_events' = Append(<< >>, 0) /\ pump_known' = TRUE
        BY <1>2, <2>1 DEF StartPump
    <2>3. /\ Append(<< >>, 0) \in Seq(Nat) /\ Append(<< >>, 0) # << >>
          /\ Len(Append(<< >>, 0)) = 1 /\ Append(<< >>, 0)[1] = 0
        BY AppendToEmpty
    <2>4. QED
        BY <2>1, <2>2, <2>3 DEF PumpInv
<1>3. QED
    BY <1>1, <1>2 DEF LineTyped

\* The parts that a step of the pump or of the flows leaves alone.
LEMMA LineUnchanged ==
    ASSUME LineTyped, PumpInv, ProbesServed, UNCHANGED lineVars
    PROVE  LineTyped' /\ PumpInv' /\ ProbesServed'
BY DEF LineTyped, PumpInv, ProbesServed, lineVars

LEMMA FlowsUnchanged ==
    ASSUME FlowsTyped, TurnsTyped, ChainInv, ActiveInv, UNCHANGED << flowVars, turnVars >>
    PROVE  FlowsTyped' /\ TurnsTyped' /\ ChainInv' /\ ActiveInv'
BY DEF FlowsTyped, TurnsTyped, ChainInv, ActiveInv, Waiting, flowVars, turnVars

\* HostInv from its parts.
LEMMA HostParts ==
    HostInv <=> /\ FlowsTyped /\ TurnsTyped /\ ChainInv /\ ActiveInv
                /\ LineTyped /\ PumpInv /\ ProbesServed /\ SimsTyped
BY DEF HostInv, TypeOK

LEMMA InitHost == Init => HostInv
<1> SUFFICES ASSUME Init PROVE HostInv
    OBVIOUS
<1>1. /\ << >> \in Seq(Flows) /\ << >> \in Seq(Nat) /\ << >> \in Seq(SimEvent)
      /\ << >> \in Seq(Kinds) /\ Len(<< >>) = 0
    BY EmptySeq
<1>2. FlowsTyped
    BY <1>1 DEF Init, FlowsTyped
<1>3. TurnsTyped
    <2>1. passes \in [Flows -> [Flows -> 0 .. MaxPasses]]
        BY BoundsAssumption DEF Init
    <2>2. host_events \in Seq(Nat) /\ pause \in Nat
        BY <1>1 DEF Init
    <2>3. host_proc_event \in BOOLEAN /\ last \in Flows \cup {NoFlow}
        BY DEF Init
    <2>4. QED
        BY <2>1, <2>2, <2>3 DEF TurnsTyped
<1>4. SimsTyped
    BY <1>1 DEF Init, SimsTyped
<1>5. LineTyped
    BY <1>1 DEF Init, LineTyped
<1>6. ChainInv /\ PumpInv
    BY <1>1 DEF Init, ChainInv, PumpInv
<1>7. ActiveInv /\ ProbesServed
    BY <1>1 DEF Init, ActiveInv, ProbesServed, Waiting
<1>8. QED
    BY <1>2, <1>3, <1>4, <1>5, <1>6, <1>7, HostParts

-----------------------------------------------------------------------------
(* The steps of the flows *)

LEMMA StartFlowKeeps ==
    ASSUME HostInv, NEW f \in Flows, StartFlow(f)
    PROVE  HostInv'
<1>1. /\ FlowsTyped /\ TurnsTyped /\ ChainInv /\ ActiveInv
      /\ LineTyped /\ PumpInv /\ ProbesServed /\ SimsTyped
    BY HostParts
<1>2. PICK ticks \in {0, HdrTicks, DataTicks} : PostIfIdle(ticks)
    BY DEF StartFlow
<1>3. ticks \in Nat
    BY TicksAssumption
<1>4. /\ started' = started \cup {f} /\ finished' = finished /\ pause' = pause
      /\ active_sending_flows' = Append(active_sending_flows, f)
    BY DEF StartFlow
<1>5. LineTyped' /\ PumpInv' /\ ProbesServed'
    BY <1>1, LineUnchanged DEF StartFlow
<1>6. /\ active_sending_flows \in Seq(Flows) /\ active_sending_flows' \in Seq(Flows)
      /\ Len(active_sending_flows) \in Nat
      /\ Len(active_sending_flows') = Len(active_sending_flows) + 1
      /\ \A i \in 1 .. Len(active_sending_flows) :
            active_sending_flows'[i] = active_sending_flows[i]
      /\ active_sending_flows'[Len(active_sending_flows) + 1] = f
    BY <1>1, <1>4, AppendProperties, LenProperties DEF FlowsTyped
<1>7. FlowsTyped'
    BY <1>1, <1>4, <1>6 DEF FlowsTyped, StartFlow
<1>8. /\ host_events' \in Seq(Nat) /\ host_events' # << >> /\ host_proc_event' = TRUE
      /\ ChainInv' /\ sim_events' \in Seq(SimEvent)
    <2>1. CASE host_proc_event
        BY <1>1, <1>2, <1>4, <2>1 DEF PostIfIdle, ChainInv, TurnsTyped, SimsTyped
    <2>2. CASE ~host_proc_event
        <3>1. host_events = << >> /\ pause = 0
            BY <1>1, <2>2 DEF ChainInv
        <3>2. /\ host_events' = Append(<< >>, ticks) /\ host_proc_event' = TRUE
              /\ sim_events' = Adrift(sim_events)
            BY <1>2, <2>2, <3>1 DEF PostIfIdle
        <3>3. /\ Append(<< >>, ticks) \in Seq(Nat) /\ Append(<< >>, ticks) # << >>
              /\ Len(Append(<< >>, ticks)) = 1 /\ Append(<< >>, ticks)[1] = ticks
            BY <1>3, AppendToEmpty
        <3>4. sim_events' \in Seq(SimEvent)
            BY <1>1, <3>2, OrderProperties DEF SimsTyped
        <3>5. ChainInv'
            BY <1>3, <1>4, <3>1, <3>2, <3>3 DEF ChainInv
        <3>6. QED
            BY <3>2, <3>3, <3>4, <3>5
    <2>3. QED
        BY <2>1, <2>2
<1>9. TurnsTyped'
    BY <1>1, <1>8 DEF TurnsTyped, StartFlow
<1>10. SimsTyped'
    BY <1>1, <1>8 DEF SimsTyped, StartFlow, dataVars
<1>11. ActiveInv'
    <2>1. ASSUME NEW g \in Flows, Waiting(g)'
          PROVE  \E i \in 1 .. Len(active_sending_flows') : active_sending_flows'[i] = g
        <3>1. CASE g = f
            BY <1>6, <3>1
        <3>2. CASE g # f
            <4>1. Waiting(g)
                BY <1>4, <2>1, <3>2 DEF Waiting
            <4>2. PICK i \in 1 .. Len(active_sending_flows) : active_sending_flows[i] = g
                BY <1>1, <4>1 DEF ActiveInv
            <4>3. i \in 1 .. Len(active_sending_flows') /\ active_sending_flows'[i] = g
                BY <1>6, <4>2
            <4>4. QED
                BY <4>3
        <3>3. QED
            BY <3>1, <3>2
    <2>2. QED
        BY <1>8, <2>1 DEF ActiveInv
<1>12. QED
    BY <1>5, <1>7, <1>8, <1>9, <1>10, <1>11 DEF HostInv, TypeOK

LEMMA FinishFlowKeeps ==
    ASSUME HostInv, NEW f \in Flows, FinishFlow(f)
    PROVE  HostInv'
<1>1. /\ FlowsTyped /\ TurnsTyped /\ ChainInv /\ ActiveInv
      /\ LineTyped /\ PumpInv /\ ProbesServed /\ SimsTyped
    BY HostParts
<1>2. FlowsTyped'
    BY <1>1 DEF FinishFlow, FlowsTyped
<1>3. TurnsTyped' /\ ChainInv'
    BY <1>1 DEF FinishFlow, TurnsTyped, ChainInv, turnVars
<1>4. ActiveInv'
    BY <1>1 DEF FinishFlow, ActiveInv, Waiting, turnVars
<1>5. LineTyped' /\ PumpInv' /\ ProbesServed'
    BY <1>1, LineUnchanged DEF FinishFlow
<1>6. SimsTyped'
    BY <1>1 DEF FinishFlow, SimsTyped, simVars, dataVars
<1>7. QED
    BY <1>2, <1>3, <1>4, <1>5, <1>6 DEF HostInv, TypeOK

\* The positions of the flows of one collective.
LEMMA MembersCount ==
    ASSUME FlowsTyped, NEW i \in Unfinished
    PROVE  Cardinality(Members(i)) \in Nat \ {0}
<1>1. Len(active_sending_flows) \in Nat
    BY LenProperties DEF FlowsTyped
<1>2. IsFiniteSet(1 .. Len(active_sending_flows))
    BY <1>1, FS_Interval
<1>3. Members(i) \in SUBSET (1 .. Len(active_sending_flows)) /\ i \in Members(i)
    BY DEF Members, Unfinished
<1>4. IsFiniteSet(Members(i))
    BY <1>2, <1>3, FS_Subset
<1>5. Cardinality(Members(i)) \in Nat /\ Cardinality(Members(i)) # 0
    BY <1>3, <1>4, FS_CardinalityType, FS_EmptySet
<1>6. QED
    BY <1>5

\* A turn keeps every unfinished flow, whichever round-robin gives it.
LEMMA TakeTurnKeeps ==
    ASSUME FlowsTyped, NEW i \in Unfinished, TakeTurn(i)
    PROVE  /\ active_sending_flows' \in Seq(Flows)
           /\ collective_flow_index' \in [Collectives -> Nat]
           /\ \A k \in Unfinished :
                 \E m \in 1 .. Len(active_sending_flows') :
                     active_sending_flows'[m] = active_sending_flows[k]
<1> DEFINE s == active_sending_flows
<1>1. s \in Seq(Flows) /\ Len(s) \in Nat /\ i \in 1 .. Len(s) /\ s[i] \in Flows
    BY LenProperties, ElementOfSeq DEF FlowsTyped, Unfinished
<1>2. CASE PickFirst(i) /\ s' = Append(SubSeq(s, i + 1, Len(s)), s[i])
           /\ UNCHANGED collective_flow_index
    <2> DEFINE rest == SubSeq(s, i + 1, Len(s))
    <2>1. /\ rest \in Seq(Flows) /\ Len(rest) = Len(s) - i
          /\ \A k \in 1 .. Len(s) - i : rest[k] = s[i + k]
        BY <1>1, SuffixProperties
    <2> HIDE DEF rest
    <2>2. s' = Append(rest, s[i])
        BY <1>2 DEF rest
    <2>3. /\ s' \in Seq(Flows) /\ Len(s') = Len(rest) + 1 /\ s'[Len(rest) + 1] = s[i]
          /\ \A k \in 1 .. Len(rest) : s'[k] = rest[k]
        <3>1. rest \in Seq(Flows) /\ s[i] \in Flows
            BY <1>1, <2>1
        <3>2. QED
            BY <2>2, <3>1, AppendProperties
    <2>4. ASSUME NEW k \in Unfinished
          PROVE  \E m \in 1 .. Len(s') : s'[m] = s[k]
        <3>1. k \in 1 .. Len(s) /\ i <= k
            BY <1>2 DEF PickFirst, Unfinished
        <3>2. CASE k = i
            BY <1>1, <2>1, <2>3, <3>2
        <3>3. CASE k # i
            <4>1. k - i \in 1 .. Len(rest) /\ rest[k - i] = s[i + (k - i)] /\ i + (k - i) = k
                BY <1>1, <2>1, <3>1, <3>3
            <4>2. k - i \in 1 .. Len(s') /\ s'[k - i] = s[k]
                BY <1>1, <2>1, <2>3, <4>1
            <4>3. QED
                BY <4>2
        <3>4. QED
            BY <3>2, <3>3
    <2>5. QED
        BY <1>2, <2>3, <2>4 DEF FlowsTyped
<1>3. CASE PickByIndex(i) /\ s' = Append(RemoveAt(s, i), s[i])
           /\ collective_flow_index' = NextIndex(i)
    <2> DEFINE rest == RemoveAt(s, i)
    <2>1. /\ rest \in Seq(Flows) /\ Len(rest) = Len(s) - 1
          /\ \A k \in 1 .. Len(s) - 1 : rest[k] = IF k < i THEN s[k] ELSE s[k + 1]
        BY <1>1, RemoveAtProperties
    <2> HIDE DEF rest
    <2>2. s' = Append(rest, s[i])
        BY <1>3 DEF rest
    <2>3. /\ s' \in Seq(Flows) /\ Len(s') = Len(rest) + 1 /\ s'[Len(rest) + 1] = s[i]
          /\ \A k \in 1 .. Len(rest) : s'[k] = rest[k]
        <3>1. rest \in Seq(Flows) /\ s[i] \in Flows
            BY <1>1, <2>1
        <3>2. QED
            BY <2>2, <3>1, AppendProperties
    <2>4. ASSUME NEW k \in Unfinished
          PROVE  \E m \in 1 .. Len(s') : s'[m] = s[k]
        <3>1. k \in 1 .. Len(s)
            BY DEF Unfinished
        <3>2. CASE k = i
            BY <1>1, <2>1, <2>3, <3>2
        <3>3. CASE k < i
            <4>1. k \in 1 .. Len(rest) /\ k \in 1 .. Len(s') /\ s'[k] = s[k]
                BY <1>1, <2>1, <2>3, <3>1, <3>3
            <4>2. QED
                BY <4>1
        <3>4. CASE i < k
            <4>1. /\ k - 1 \in 1 .. Len(rest) /\ k - 1 \in 1 .. Len(s')
                  /\ ~(k - 1 < i) /\ (k - 1) + 1 = k
                BY <1>1, <2>1, <2>3, <3>1, <3>4
            <4>2. s'[k - 1] = s[k]
                BY <2>1, <2>3, <4>1
            <4>3. QED
                BY <4>1, <4>2
        <3>5. QED
            BY <1>1, <3>1, <3>2, <3>3, <3>4
    <2>5. collective_flow_index' \in [Collectives -> Nat]
        <3> DEFINE n == Cardinality(Members(i))
        <3>1. n \in Nat \ {0}
            BY MembersCount
        <3>2. \A x \in Nat : ((x % n) + 1) % n \in Nat
            BY <3>1
        <3> HIDE DEF n
        <3>3. collective_flow_index' =
                [collective_flow_index EXCEPT ![collective_id[s[i]]] = ((@ % n) + 1) % n]
            BY <1>3 DEF NextIndex, n
        <3>4. collective_id[s[i]] \in Collectives
            BY <1>1 DEF Collectives
        <3>5. QED
            BY <3>2, <3>3, <3>4 DEF FlowsTyped
    <2>6. QED
        BY <2>3, <2>4, <2>5
<1>4. QED
    BY <1>2, <1>3 DEF TakeTurn, PutBack

LEMMA SendTicksType == SendTicks \in Nat
<1>1. NumData \in Nat /\ SimTicks \in Nat
    BY TicksAssumption
<1>2. \A m, n \in Nat : m * n \in Nat
    OBVIOUS
<1>3. QED
    BY <1>1, <1>2 DEF SendTicks

\* What a turn asks of the flow keeps the types.
LEMMA SendKeeps ==
    ASSUME FlowsTyped, SimsTyped, NEW f \in Flows, SendDirect(f) \/ SendSimulation(f),
           probes' = probes
    PROVE  SimsTyped' /\ finished \subseteq finished' /\ finished' \subseteq Flows
<1>1. /\ sims_to_be_sent \in Seq(Nat) /\ sim_events \in Seq(SimEvent)
      /\ Len(sims_to_be_sent) \in Nat /\ probes \in Nat /\ data_events \in Nat
    BY LenProperties DEF SimsTyped
<1>2. Older(sim_events) \in Seq(SimEvent)
    BY <1>1, OrderProperties
<1>3. SimWait \in Nat /\ NoSlotWait \in Nat
    <2>1. SimTicks \in Nat
        BY TicksAssumption
    <2>2. \A m, n \in Nat : m * n \in Nat
        OBVIOUS
    <2>3. Len(sims_to_be_sent) + 1 \in Nat
        BY <1>1
    <2>4. QED
        BY <1>1, <2>1, <2>2, <2>3 DEF SimWait, NoSlotWait
<1>4. /\ PostSim(sim_events, SimWait) \in Seq(SimEvent)
      /\ PostSim(sim_events, NoSlotWait) \in Seq(SimEvent)
    BY <1>1, <1>3, PostSimProperties
<1>5. Append(sims_to_be_sent, SimWait) \in Seq(Nat)
    BY <1>1, <1>3, AppendProperties
<1>6. sims_to_be_sent' \in Seq(Nat) /\ sim_events' \in Seq(SimEvent)
    BY <1>1, <1>2, <1>4, <1>5 DEF SendDirect, SendSimulation
<1>7. data_events' \in Nat
    BY <1>1 DEF SendDirect, SendSimulation
<1>8. finished \subseteq finished' /\ finished' \subseteq Flows
    BY DEF SendDirect, SendSimulation, FlowsTyped
<1>9. QED
    BY <1>1, <1>6, <1>7, <1>8 DEF SimsTyped

LEMMA HostProcessKeeps ==
    ASSUME HostInv, NEW e \in 1 .. Len(host_events), HostProcess(e)
    PROVE  HostInv'
<1>1. /\ FlowsTyped /\ TurnsTyped /\ ChainInv /\ ActiveInv
      /\ LineTyped /\ PumpInv /\ ProbesServed /\ SimsTyped
    BY HostParts
<1>2. LineTyped' /\ PumpInv' /\ ProbesServed'
    BY <1>1, LineUnchanged DEF HostProcess
<1>3. host_events[e] = 0 /\ started' = started /\ probes' = probes
    BY DEF HostProcess
<1>4. RemoveAt(host_events, e) = << >>
    BY <1>1, RemoveOnly DEF ChainInv, TurnsTyped
<1>5. CASE /\ Unfinished = {}
           /\ active_sending_flows' = << >>
           /\ host_events' = RemoveAt(host_events, e) /\ host_proc_event' = FALSE
           /\ UNCHANGED << finished, collective_flow_index, pause, passes, last,
                           simVars, data_events >>
    <2>1. pause = 0
        BY <1>1, <1>3 DEF ChainInv, TurnsTyped
    <2>2. << >> \in Seq(Flows) /\ << >> \in Seq(Nat) /\ Len(<< >>) = 0
        BY EmptySeq
    <2>3. FlowsTyped'
        BY <1>1, <1>3, <1>5, <2>2 DEF FlowsTyped
    <2>4. TurnsTyped'
        BY <1>1, <1>4, <1>5, <2>2 DEF TurnsTyped
    <2>5. ChainInv'
        BY <1>4, <1>5, <2>1, <2>2 DEF ChainInv
    <2>6. ActiveInv'
        <3>1. ASSUME NEW f \in Flows, Waiting(f)'
              PROVE  FALSE
            <4>1. Waiting(f)
                BY <1>3, <1>5, <3>1 DEF Waiting
            <4>2. PICK i \in 1 .. Len(active_sending_flows) : active_sending_flows[i] = f
                BY <1>1, <4>1 DEF ActiveInv
            <4>3. i \in Unfinished
                BY <4>1, <4>2 DEF Unfinished, Waiting
            <4>4. QED
                BY <1>5, <4>3
        <3>2. QED
            BY <3>1 DEF ActiveInv
    <2>7. SimsTyped'
        BY <1>1, <1>3, <1>5 DEF SimsTyped, simVars
    <2>8. QED
        BY <1>2, <2>3, <2>4, <2>5, <2>6, <2>7 DEF HostInv, TypeOK
<1>6. ASSUME NEW i \in Unfinished,
             TakeTurn(i),
             SendDirect(active_sending_flows[i]) \/ SendSimulation(active_sending_flows[i]),
             host_events' = Append(RemoveAt(host_events, e), SendTicks),
             host_proc_event' = TRUE, pause' = SendTicks,
             passes' = Passed(active_sending_flows[i]), last' = active_sending_flows[i]
      PROVE  HostInv'
    <2> DEFINE f == active_sending_flows[i]
    <2>1. f \in Flows
        BY <1>1, ElementOfSeq DEF FlowsTyped, Unfinished
    <2>2. SimsTyped' /\ finished \subseteq finished' /\ finished' \subseteq Flows
        BY <1>1, <1>3, <1>6, <2>1, SendKeeps
    <2>3. /\ active_sending_flows' \in Seq(Flows)
          /\ collective_flow_index' \in [Collectives -> Nat]
          /\ \A k \in Unfinished :
                \E m \in 1 .. Len(active_sending_flows') :
                    active_sending_flows'[m] = active_sending_flows[k]
        BY <1>1, <1>6, TakeTurnKeeps
    <2>4. FlowsTyped'
        BY <1>1, <1>3, <2>2, <2>3 DEF FlowsTyped
    <2>5. /\ host_events' = Append(<< >>, SendTicks) /\ SendTicks \in Nat
          /\ Append(<< >>, SendTicks) \in Seq(Nat) /\ Append(<< >>, SendTicks) # << >>
          /\ Len(Append(<< >>, SendTicks)) = 1 /\ Append(<< >>, SendTicks)[1] = SendTicks
        BY <1>4, <1>6, SendTicksType, AppendToEmpty
    <2>6. passes' \in [Flows -> [Flows -> 0 .. MaxPasses]]
        <3>1. ASSUME NEW g \in Flows
              PROVE  [passes[g] EXCEPT ![f] = IF @ < MaxPasses THEN @ + 1 ELSE @]
                        \in [Flows -> 0 .. MaxPasses]
            <4>1. passes[g] \in [Flows -> 0 .. MaxPasses]
                BY <1>1 DEF TurnsTyped
            <4>2. \A x \in 0 .. MaxPasses : (IF x < MaxPasses THEN x + 1 ELSE x) \in 0 .. MaxPasses
                BY BoundsAssumption
            <4>3. QED
                BY <2>1, <4>1, <4>2
        <3>2. [h \in Flows |-> 0] \in [Flows -> 0 .. MaxPasses]
            BY BoundsAssumption
        <3>3. QED
            BY <1>6, <3>1, <3>2 DEF Passed
    <2>7. TurnsTyped'
        <3>1. host_events' \in Seq(Nat) /\ pause' \in Nat
            BY <1>6, <2>5
        <3>2. last' \in Flows \cup {NoFlow} /\ host_proc_event' \in BOOLEAN
            BY <1>6, <2>1
        <3>3. QED
            BY <2>6, <3>1, <3>2 DEF TurnsTyped
    <2>8. ChainInv'
        BY <1>6, <2>5 DEF ChainInv
    <2>9. ActiveInv'
        <3>1. ASSUME NEW g \in Flows, Waiting(g)'
              PROVE  \E m \in 1 .. Len(active_sending_flows') : active_sending_flows'[m] = g
            <4>1. Waiting(g)
                BY <1>3, <2>2, <3>1 DEF Waiting
            <4>2. PICK k \in 1 .. Len(active_sending_flows) : active_sending_flows[k] = g
                BY <1>1, <4>1 DEF ActiveInv
            <4>3. k \in Unfinished
                BY <4>1, <4>2 DEF Unfinished, Waiting
            <4>4. QED
                BY <2>3, <4>2, <4>3
        <3>2. QED
            BY <2>5, <3>1 DEF ActiveInv
    <2>10. QED
        BY <1>2, <2>2, <2>4, <2>7, <2>8, <2>9 DEF HostInv, TypeOK
<1>7. QED
    BY <1>5, <1>6 DEF HostProcess

-----------------------------------------------------------------------------
(* The steps of the packets *)

\* A packet joins packets_to_be_sent and starts the pump.
LEMMA JoinKeeps ==
    ASSUME LineTyped, PumpInv, NEW kind \in Kinds, StartPump, UNCHANGED line,
           packets_to_be_sent' \in {packets_to_be_sent, Append(packets_to_be_sent, kind)}
    PROVE  LineTyped' /\ PumpInv' /\ ProbesServed'
<1>1. /\ PumpInv' /\ pump_events' \in Seq(Nat) /\ pump_known' \in BOOLEAN
      /\ pump_events' # << >>
    BY StartPumpKeeps
<1>2. packets_to_be_sent \in Seq(Kinds)
    BY DEF LineTyped
<1>3. packets_to_be_sent' \in Seq(Kinds)
    BY <1>2, AppendProperties
<1>4. LineTyped'
    BY <1>1, <1>3 DEF LineTyped
<1>5. QED
    BY <1>1, <1>4 DEF ProbesServed

LEMMA MoveSimKeeps ==
    ASSUME HostInv, NEW e \in 1 .. Len(sim_events), MoveSim(e)
    PROVE  HostInv'
<1>1. /\ FlowsTyped /\ TurnsTyped /\ ChainInv /\ ActiveInv
      /\ LineTyped /\ PumpInv /\ ProbesServed /\ SimsTyped
    BY HostParts
<1>2. FlowsTyped' /\ TurnsTyped' /\ ChainInv' /\ ActiveInv'
    BY <1>1, FlowsUnchanged DEF MoveSim
<1>3. SimsTyped'
    <2>1. sim_events' \in Seq(SimEvent)
        BY <1>1, RemoveAtProperties DEF MoveSim, SimsTyped
    <2>2. sims_to_be_sent' \in Seq(Nat)
        BY <1>1, HeadTailProperties DEF MoveSim, SimsTyped
    <2>3. QED
        BY <1>1, <2>1, <2>2 DEF MoveSim, SimsTyped, dataVars
<1>4. LineTyped' /\ PumpInv' /\ ProbesServed'
    <2>1. CASE UNCHANGED lineVars
        BY <1>1, <2>1, LineUnchanged
    <2>2. CASE packets_to_be_sent' = Append(packets_to_be_sent, "SIM") /\ StartPump
               /\ UNCHANGED line
        <3>1. "SIM" \in Kinds
            BY DEF Kinds
        <3>2. QED
            BY <1>1, <2>2, <3>1, JoinKeeps
    <2>3. QED
        BY <2>1, <2>2 DEF MoveSim
<1>5. QED
    BY <1>2, <1>3, <1>4 DEF HostInv, TypeOK

LEMMA ReceiveKeeps ==
    ASSUME HostInv, ReceiveSimAck \/ ReceiveSim
    PROVE  HostInv'
<1>1. /\ FlowsTyped /\ TurnsTyped /\ ChainInv /\ ActiveInv
      /\ LineTyped /\ PumpInv /\ ProbesServed /\ SimsTyped
    BY HostParts
<1>2. FlowsTyped' /\ TurnsTyped' /\ ChainInv' /\ ActiveInv'
    BY <1>1, FlowsUnchanged DEF ReceiveSimAck, ReceiveSim
<1>3. SimsTyped'
    <2>1. NumData \in Nat
        BY TicksAssumption
    <2>2. QED
        BY <1>1, <2>1 DEF ReceiveSimAck, ReceiveSim, SimsTyped, simVars, dataVars
<1>4. LineTyped' /\ PumpInv' /\ ProbesServed'
    <2>1. "SIM_ACK" \in Kinds
        BY DEF Kinds
    <2>2. /\ StartPump /\ UNCHANGED line
          /\ packets_to_be_sent' \in {packets_to_be_sent, Append(packets_to_be_sent, "SIM_ACK")}
        BY DEF ReceiveSimAck, ReceiveSim
    <2>3. QED
        BY <1>1, <2>1, <2>2, JoinKeeps
<1>5. QED
    BY <1>2, <1>3, <1>4 DEF HostInv, TypeOK

\* DATA and DATA_ACK join without a look at the pump: no probe is concerned.
LEMMA StrandKeeps ==
    ASSUME HostInv, ReleaseData \/ SendDataAck
    PROVE  HostInv'
<1>1. /\ FlowsTyped /\ TurnsTyped /\ ChainInv /\ ActiveInv
      /\ LineTyped /\ PumpInv /\ ProbesServed /\ SimsTyped
    BY HostParts
<1>2. FlowsTyped' /\ TurnsTyped' /\ ChainInv' /\ ActiveInv'
    BY <1>1, FlowsUnchanged DEF ReleaseData, SendDataAck
<1>3. SimsTyped'
    BY <1>1 DEF ReleaseData, SendDataAck, SimsTyped, simVars, dataVars
<1>4. PICK kind \in {"DATA", "DATA_ACK"} :
        packets_to_be_sent' = Append(packets_to_be_sent, kind)
    BY DEF ReleaseData, SendDataAck
<1>5. UNCHANGED << pump_events, pump_known, line >>
    BY DEF ReleaseData, SendDataAck
<1>6. kind \in Kinds /\ kind \notin {"SIM", "SIM_ACK"}
    BY DEF Kinds
<1>7. /\ packets_to_be_sent' \in Seq(Kinds) /\ Len(packets_to_be_sent) \in Nat
      /\ Len(packets_to_be_sent') = Len(packets_to_be_sent) + 1
      /\ \A i \in 1 .. Len(packets_to_be_sent) : packets_to_be_sent'[i] = packets_to_be_sent[i]
      /\ packets_to_be_sent'[Len(packets_to_be_sent) + 1] = kind
    BY <1>1, <1>4, <1>6, AppendProperties, LenProperties DEF LineTyped
<1>8. LineTyped' /\ PumpInv'
    BY <1>1, <1>5, <1>7 DEF LineTyped, PumpInv
<1>9. ProbesServed'
    <2>1. \A i \in 1 .. Len(packets_to_be_sent') :
            i \in 1 .. Len(packets_to_be_sent) \/ i = Len(packets_to_be_sent) + 1
        BY <1>7
    <2>2. QED
        BY <1>1, <1>5, <1>6, <1>7, <2>1 DEF ProbesServed
<1>10. QED
    BY <1>2, <1>3, <1>8, <1>9 DEF HostInv, TypeOK

LEMMA MovePacketsKeeps ==
    ASSUME HostInv, NEW e \in 1 .. Len(pump_events), MovePackets(e)
    PROVE  HostInv'
<1>1. /\ FlowsTyped /\ TurnsTyped /\ ChainInv /\ ActiveInv
      /\ LineTyped /\ PumpInv /\ ProbesServed /\ SimsTyped
    BY HostParts
<1>2. FlowsTyped' /\ TurnsTyped' /\ ChainInv' /\ ActiveInv'
    BY <1>1, FlowsUnchanged DEF MovePackets
<1>3. SimsTyped'
    BY <1>1 DEF MovePackets, Launched, SimsTyped, simVars
<1>4. RemoveAt(pump_events, e) = << >> /\ pump_events[e] = 0
    BY <1>1, RemoveOnly DEF MovePackets, PumpInv, LineTyped
<1>5. CASE /\ packets_to_be_sent = << >> /\ pump_events' = RemoveAt(pump_events, e)
           /\ pump_known' = FALSE /\ UNCHANGED << packets_to_be_sent, line >>
    <2>1. line = 0
        BY <1>1, <1>4 DEF PumpInv, LineTyped
    <2>2. << >> \in Seq(Nat) /\ Len(<< >>) = 0
        BY EmptySeq
    <2>3. pump_events' = << >> /\ pump_known' = FALSE /\ line' = 0 /\ packets_to_be_sent' = << >>
        BY <1>4, <1>5, <2>1
    <2>4. LineTyped'
        <3>1. packets_to_be_sent' \in Seq(Kinds)
            BY <1>1, <1>5 DEF LineTyped
        <3>2. pump_events' \in Seq(Nat)
            BY <2>2, <2>3
        <3>3. pump_known' \in BOOLEAN /\ line' \in Nat
            BY <2>3
        <3>4. QED
            BY <3>1, <3>2, <3>3 DEF LineTyped
    <2>5. PumpInv'
        BY <2>2, <2>3 DEF PumpInv
    <2>6. ProbesServed'
        BY <2>2, <2>3 DEF ProbesServed
    <2>7. QED
        BY <1>2, <1>3, <2>4, <2>5, <2>6 DEF HostInv, TypeOK
<1>6. ASSUME NEW i \in 1 .. Len(packets_to_be_sent),
             packets_to_be_sent' = RemoveAt(packets_to_be_sent, i),
             pump_events' = Append(RemoveAt(pump_events, e), Ticks(packets_to_be_sent[i])),
             pump_known' = TRUE, line' = Ticks(packets_to_be_sent[i])
      PROVE  HostInv'
    <2> DEFINE t == Ticks(packets_to_be_sent[i])
    <2>1. t \in Nat
        BY TicksAssumption DEF Ticks
    <2> HIDE DEF t
    <2>2. /\ pump_events' = Append(<< >>, t) /\ Append(<< >>, t) # << >>
          /\ Append(<< >>, t) \in Seq(Nat) /\ Len(Append(<< >>, t)) = 1
          /\ Append(<< >>, t)[1] = t
        BY <1>4, <1>6, <2>1, AppendToEmpty DEF t
    <2>3. packets_to_be_sent' \in Seq(Kinds)
        BY <1>1, <1>6, RemoveAtProperties DEF LineTyped
    <2>4. line' = t
        BY <1>6 DEF t
    <2>5. LineTyped'
        BY <1>6, <2>1, <2>2, <2>3, <2>4 DEF LineTyped
    <2>6. PumpInv' /\ ProbesServed'
        BY <1>6, <2>1, <2>2, <2>4 DEF PumpInv, ProbesServed
    <2>7. QED
        BY <1>2, <1>3, <2>5, <2>6 DEF HostInv, TypeOK
<1>7. QED
    BY <1>5, <1>6 DEF MovePackets

-----------------------------------------------------------------------------
(* Time *)

LEMMA TickKeeps ==
    ASSUME HostInv, Tick
    PROVE  HostInv'
<1>1. /\ FlowsTyped /\ TurnsTyped /\ ChainInv /\ ActiveInv
      /\ LineTyped /\ PumpInv /\ ProbesServed /\ SimsTyped
    BY HostParts
<1>2. ASSUME NEW n \in Nat
      PROVE  Less(n) \in Nat /\ (n = 0 => Less(n) = 0) /\ (n > 0 => Less(n) = n - 1)
    BY DEF Less
<1>3. /\ host_events \in Seq(Nat) /\ pump_events \in Seq(Nat)
      /\ pause \in Nat /\ line \in Nat
    BY <1>1 DEF TurnsTyped, LineTyped
<1>4. /\ AllLater(host_events) /\ AllLater(pump_events)
      /\ host_events' = Sooner(host_events) /\ pump_events' = Sooner(pump_events)
      /\ pause' = Less(pause) /\ line' = Less(line)
    BY DEF Tick
<1>5. /\ host_events' \in Seq(Nat) /\ Len(host_events') = Len(host_events)
      /\ \A e \in 1 .. Len(host_events) :
            host_events'[e] = host_events[e] - 1 /\ host_events[e] > 0
    BY <1>3, <1>4, SoonerProperties
<1>6. /\ pump_events' \in Seq(Nat) /\ Len(pump_events') = Len(pump_events)
      /\ \A e \in 1 .. Len(pump_events) :
            pump_events'[e] = pump_events[e] - 1 /\ pump_events[e] > 0
    BY <1>3, <1>4, SoonerProperties
<1>7. /\ host_events' = << >> <=> host_events = << >>
      /\ pump_events' = << >> <=> pump_events = << >>
    BY <1>3, <1>5, <1>6, EmptySeq
<1>8. FlowsTyped' /\ TurnsTyped'
    <2>1. FlowsTyped'
        BY <1>1 DEF Tick, FlowsTyped, flowVars
    <2>2. pause' \in Nat
        BY <1>2, <1>3, <1>4
    <2>3. QED
        BY <1>1, <1>5, <2>1, <2>2 DEF Tick, TurnsTyped
<1>9. ChainInv'
    <2>1. host_proc_event' = host_proc_event
        BY DEF Tick
    <2>2. ASSUME NEW e \in 1 .. Len(host_events')
          PROVE  pause' <= host_events'[e]
        <3>1. /\ e \in 1 .. Len(host_events) /\ pause <= host_events[e]
              /\ host_events[e] \in Nat
            BY <1>1, <1>3, <1>5, ElementOfSeq DEF ChainInv
        <3>2. host_events'[e] = host_events[e] - 1 /\ host_events[e] > 0 /\ pause' = Less(pause)
            BY <1>4, <1>5, <3>1
        <3>3. Less(pause) <= host_events[e] - 1
            BY <1>3, <3>1, <3>2 DEF Less
        <3>4. QED
            BY <3>2, <3>3
    <2>3. host_events' = << >> => pause' = 0
        BY <1>1, <1>2, <1>3, <1>4, <1>7 DEF ChainInv
    <2>4. Len(host_events') <= 1 /\ (host_proc_event' <=> host_events' # << >>)
        BY <1>1, <1>5, <1>7, <2>1 DEF ChainInv
    <2>5. QED
        BY <2>2, <2>3, <2>4 DEF ChainInv
<1>10. ActiveInv'
    BY <1>1, <1>7 DEF Tick, ActiveInv, Waiting, flowVars
<1>11. LineTyped' /\ ProbesServed'
    <2>1. line' \in Nat
        BY <1>2, <1>3, <1>4
    <2>2. LineTyped'
        BY <1>1, <1>6, <2>1 DEF Tick, LineTyped
    <2>3. QED
        BY <1>1, <1>7, <2>2 DEF Tick, ProbesServed
<1>12. PumpInv'
    <2>1. pump_known' = pump_known
        BY DEF Tick
    <2>2. ASSUME NEW e \in 1 .. Len(pump_events')
          PROVE  line' <= pump_events'[e]
        <3>1. /\ e \in 1 .. Len(pump_events) /\ line <= pump_events[e]
              /\ pump_events[e] \in Nat
            BY <1>1, <1>3, <1>6, ElementOfSeq DEF PumpInv
        <3>2. pump_events'[e] = pump_events[e] - 1 /\ pump_events[e] > 0 /\ line' = Less(line)
            BY <1>4, <1>6, <3>1
        <3>3. Less(line) <= pump_events[e] - 1
            BY <1>3, <3>1, <3>2 DEF Less
        <3>4. QED
            BY <3>2, <3>3
    <2>3. pump_events' = << >> => line' = 0
        BY <1>1, <1>2, <1>3, <1>4, <1>7 DEF PumpInv
    <2>4. Len(pump_events') <= 1 /\ (pump_known' <=> pump_events' # << >>)
        BY <1>1, <1>6, <1>7, <2>1 DEF PumpInv
    <2>5. QED
        BY <2>2, <2>3, <2>4 DEF PumpInv
<1>13. SimsTyped'
    <2>1. /\ sims_to_be_sent \in Seq(Nat) /\ sim_events \in Seq(SimEvent)
          /\ Len(sims_to_be_sent) \in Nat /\ Len(sim_events) \in Nat
        BY <1>1, LenProperties DEF SimsTyped
    <2>2. sims_to_be_sent' \in [1 .. Len(sims_to_be_sent) -> Nat]
        <3>1. \A k \in 1 .. Len(sims_to_be_sent) : Less(sims_to_be_sent[k]) \in Nat
            BY <1>2, <2>1, ElementOfSeq
        <3>2. QED
            BY <3>1 DEF Tick
    <2>3. sim_events' \in [1 .. Len(sim_events) -> SimEvent]
        <3>1. ASSUME NEW e \in 1 .. Len(sim_events)
              PROVE  [sim_events[e] EXCEPT !.due = @ - 1] \in SimEvent
            <4>1. sim_events[e] \in SimEvent /\ sim_events[e].due > 0
                BY <2>1, ElementOfSeq DEF Tick
            <4>2. QED
                BY <4>1 DEF SimEvent
        <3>2. QED
            BY <3>1 DEF Tick
    <2>4. sims_to_be_sent' \in Seq(Nat) /\ sim_events' \in Seq(SimEvent)
        BY <2>1, <2>2, <2>3, FunctionIsSeq
    <2>5. QED
        BY <1>1, <2>4 DEF Tick, SimsTyped, dataVars
<1>14. QED
    BY <1>8, <1>9, <1>10, <1>11, <1>12, <1>13 DEF HostInv, TypeOK

-----------------------------------------------------------------------------
(* The safety properties *)

LEMMA NextKeeps == HostInv /\ [Next]_vars => HostInv'
<1> SUFFICES ASSUME HostInv, [Next]_vars PROVE HostInv'
    OBVIOUS
<1>1. ASSUME NEW f \in Flows, StartFlow(f) \/ FinishFlow(f) PROVE HostInv'
    BY <1>1, StartFlowKeeps, FinishFlowKeeps
<1>2. ASSUME NEW e \in 1 .. Len(host_events), HostProcess(e) PROVE HostInv'
    BY <1>2, HostProcessKeeps
<1>3. ASSUME NEW e \in 1 .. Len(sim_events), MoveSim(e) PROVE HostInv'
    BY <1>3, MoveSimKeeps
<1>4. ASSUME NEW e \in 1 .. Len(pump_events), MovePackets(e) PROVE HostInv'
    BY <1>4, MovePacketsKeeps
<1>5. CASE ReceiveSimAck \/ ReceiveSim
    BY <1>5, ReceiveKeeps
<1>6. CASE ReleaseData \/ SendDataAck
    BY <1>6, StrandKeeps
<1>7. CASE Tick
    BY <1>7, TickKeeps
<1>8. CASE UNCHANGED vars
    <2>1. /\ FlowsTyped /\ TurnsTyped /\ ChainInv /\ ActiveInv
          /\ LineTyped /\ PumpInv /\ ProbesServed /\ SimsTyped
        BY HostParts
    <2>2. FlowsTyped' /\ TurnsTyped' /\ ChainInv' /\ ActiveInv'
        BY <1>8, <2>1, FlowsUnchanged DEF vars
    <2>3. LineTyped' /\ PumpInv' /\ ProbesServed'
        BY <1>8, <2>1, LineUnchanged DEF vars
    <2>4. SimsTyped'
        BY <1>8, <2>1 DEF vars, simVars, dataVars, SimsTyped
    <2>5. QED
        BY <2>2, <2>3, <2>4 DEF HostInv, TypeOK
<1>9. QED
    BY <1>1, <1>2, <1>3, <1>4, <1>5, <1>6, <1>7, <1>8 DEF Next

\* HostInv holds of every behaviour of the host, for any flows and any rates.
THEOREM HostInvariant == Spec => []HostInv
<1>1. Init => HostInv
    BY InitHost
<1>2. HostInv /\ [Next]_vars => HostInv'
    BY NextKeeps
<1>3. QED
    BY <1>1, <1>2, PTL DEF Spec

\* Every variable of SnsHost keeps its type.
THEOREM HostTypes == Spec => []TypeOK
<1>1. HostInv => TypeOK
    BY DEF HostInv
<1>2. QED
    BY <1>1, HostInvariant, PTL

\* No unfinished flow of the host is ever without a HostProcessingEvent,
\* although schedule_host_proc_evt, SnsHost::send and the flow's own turn all
\* write host_proc_event and the chain of turns ends and starts again.
THEOREM HostStaysAwake == Spec => []HostAwake
<1>1. HostInv => HostAwake
    BY DEF HostInv, ActiveInv, HostAwake
<1>2. QED
    BY <1>1, HostInvariant, PTL

\* Two turns are td_wait apart, also across the end of a chain of turns.
THEOREM TurnsStayPaced == Spec => []TurnsPaced
<1>1. HostInv => TurnsPaced
    <2> SUFFICES ASSUME HostInv, NEW e \in 1 .. Len(host_events), host_events[e] = 0
                 PROVE  pause = 0
        BY DEF TurnsPaced
    <2>1. pause \in Nat /\ pause <= 0
        BY DEF HostInv, TypeOK, TurnsTyped, ChainInv
    <2>2. QED
        BY <2>1
<1>2. QED
    BY <1>1, HostInvariant, PTL

\* The pump hands packets to the queue at the rate of the line: its event is
\* never due while the last packet is being transmitted.
THEOREM LineRateStaysKept == Spec => []LineRateKept
<1>1. HostInv => LineRateKept
    <2> SUFFICES ASSUME HostInv, NEW e \in 1 .. Len(pump_events), pump_events[e] = 0
                 PROVE  line = 0
        BY DEF LineRateKept
    <2>1. line \in Nat /\ line <= 0
        BY DEF HostInv, TypeOK, LineTyped, PumpInv
    <2>2. QED
        BY <2>1
<1>2. QED
    BY <1>1, HostInvariant, PTL

\* No SIM and no SIM_ACK waits beside an idle pump.
THEOREM ProbesStayServed == Spec => []ProbesServed
<1>1. HostInv => ProbesServed
    BY DEF HostInv
<1>2. QED
    BY <1>1, HostInvariant, PTL

-----------------------------------------------------------------------------
(* The turns of the flows of one collective *)

\* The flows of the host belong to one collective.
SameCollective == \A f, g \in Flows : collective_id[f] = collective_id[g]

LEMMA InitTurns == Init => TurnsInv
<1> SUFFICES ASSUME Init PROVE TurnsInv
    OBVIOUS
<1>1. Len(<< >>) = 0
    BY EmptySeq
<1>2. FlowsOnce /\ ActiveInv
    BY <1>1 DEF Init, FlowsOnce, ActiveInv, Waiting
<1>3. PassedBehind /\ FlowsTakeTurns
    BY DEF Init, PassedBehind, FlowsTakeTurns, Waiting
<1>4. PassedStarted
    BY DEF Init, PassedStarted
<1>5. QED
    BY <1>2, <1>3, <1>4 DEF TurnsInv

\* A flow that arrives goes behind all others, and none has passed it.
LEMMA StartFlowTurns ==
    ASSUME FlowsTyped, TurnsInv, NEW f \in Flows, StartFlow(f)
    PROVE  FlowsOnce' /\ PassedBehind' /\ PassedStarted' /\ FlowsTakeTurns'
<1> DEFINE s == active_sending_flows
           n == Len(s)
<1>1. FlowsOnce /\ PassedBehind /\ PassedStarted /\ FlowsTakeTurns
    BY DEF TurnsInv
<1>2. /\ f \notin started /\ started' = started \cup {f} /\ finished' = finished
      /\ passes' = passes /\ s' = Append(s, f)
    BY DEF StartFlow
<1>3. /\ s \in Seq(Flows) /\ n \in Nat /\ Len(s') = n + 1 /\ s'[n + 1] = f
      /\ \A i \in 1 .. n : s'[i] = s[i]
    BY <1>2, AppendProperties, LenProperties DEF FlowsTyped
<1>4. \A i \in 1 .. n : s[i] # f
    BY <1>1, <1>2 DEF FlowsOnce
<1>5. FlowsOnce'
    <2>1. \A i \in 1 .. n + 1 : i \in 1 .. n \/ i = n + 1
        BY <1>3
    <2>2. \A i \in 1 .. n + 1 : s'[i] \in started'
        BY <1>1, <1>2, <1>3, <2>1 DEF FlowsOnce
    <2>3. \A i, j \in 1 .. n + 1 : s'[i] = s'[j] => i = j
        BY <1>1, <1>3, <1>4, <2>1 DEF FlowsOnce
    <2>4. QED
        BY <1>3, <2>2, <2>3 DEF FlowsOnce
<1>6. \A g \in Flows : passes[f][g] = 0
    BY <1>1, <1>2 DEF PassedStarted
<1>7. ASSUME NEW g \in Flows, Waiting(g)', g # f PROVE Waiting(g)
    BY <1>2, <1>7 DEF Waiting
<1>8. PassedBehind'
    <2> SUFFICES ASSUME NEW g \in Flows, NEW h \in Flows, Waiting(g)', g # h,
                        passes'[g][h] >= 1,
                        NEW i \in 1 .. Len(s'), NEW j \in 1 .. Len(s'),
                        s'[i] = g, s'[j] = h
                 PROVE  i < j
        BY DEF PassedBehind
    <2>1. g # f /\ passes[g][h] >= 1
        BY <1>2, <1>6
    <2>2. Waiting(g)
        BY <1>7, <2>1
    <2>3. i \in 1 .. n
        BY <1>3, <2>1
    <2>4. CASE j = n + 1
        BY <1>3, <2>3, <2>4
    <2>5. CASE j # n + 1
        <3>1. j \in 1 .. n
            BY <1>3, <2>5
        <3>2. s[i] = g /\ s[j] = h
            BY <1>3, <2>3, <3>1
        <3>3. QED
            BY <1>1, <2>1, <2>2, <2>3, <3>1, <3>2 DEF PassedBehind
    <2>6. QED
        BY <2>4, <2>5
<1>9. PassedStarted'
    BY <1>1, <1>2 DEF PassedStarted
<1>10. FlowsTakeTurns'
    <2> SUFFICES ASSUME NEW g \in Flows, NEW h \in Flows, Waiting(g)', g # h,
                        collective_id[g] = collective_id[h]
                 PROVE  passes'[g][h] <= 1
        BY DEF FlowsTakeTurns
    <2>1. CASE g = f
        BY <1>2, <1>6, <2>1
    <2>2. CASE g # f
        BY <1>1, <1>2, <1>7, <2>2 DEF FlowsTakeTurns
    <2>3. QED
        BY <2>1, <2>2
<1>11. QED
    BY <1>5, <1>8, <1>9, <1>10

\* A turn in a host of one collective.
LEMMA TurnTurns ==
    ASSUME SameCollective, FlowsTyped, TurnsTyped, TurnsInv,
           NEW i \in Unfinished, TakeTurn(i),
           started' = started, finished \subseteq finished',
           passes' = Passed(active_sending_flows[i])
    PROVE  FlowsOnce' /\ PassedBehind' /\ PassedStarted' /\ FlowsTakeTurns'
<1> DEFINE s == active_sending_flows
           f == s[i]
           rest == SubSeq(s, i + 1, Len(s))
           n == Len(rest)
<1>1. FlowsOnce /\ ActiveInv /\ PassedBehind /\ PassedStarted /\ FlowsTakeTurns
    BY DEF TurnsInv
<1>2. s \in Seq(Flows) /\ Len(s) \in Nat /\ i \in 1 .. Len(s) /\ f \in Flows
    BY LenProperties, ElementOfSeq DEF FlowsTyped, Unfinished
<1>3. PickFirst(i) /\ s' = Append(rest, f)
    <2>1. \A k \in Unfinished : s[k] \in Flows
        BY ElementOfSeq DEF FlowsTyped, Unfinished
    <2>2. SingleCollective
        BY <2>1 DEF SingleCollective, SameCollective
    <2>3. QED
        BY <2>2 DEF TakeTurn, PutBack
<1>4. /\ rest \in Seq(Flows) /\ n = Len(s) - i
      /\ \A k \in 1 .. Len(s) - i : rest[k] = s[i + k]
    BY <1>2, SuffixProperties
<1> HIDE DEF rest
<1>5. /\ n \in Nat /\ Len(s') = n + 1 /\ s'[n + 1] = f
      /\ \A k \in 1 .. n : s'[k] = s[i + k] /\ i + k \in 1 .. Len(s)
    <2>1. /\ Len(s') = n + 1 /\ s'[n + 1] = f
          /\ \A k \in 1 .. n : s'[k] = rest[k]
        <3>1. rest \in Seq(Flows) /\ f \in Flows /\ s' = Append(rest, f)
            BY <1>2, <1>3, <1>4
        <3> HIDE DEF f
        <3>2. QED
            BY <3>1, AppendProperties
    <2>2. n \in Nat /\ \A k \in 1 .. n : k \in 1 .. Len(s) - i /\ i + k \in 1 .. Len(s)
        BY <1>2, <1>4
    <2>3. QED
        BY <1>4, <2>1, <2>2
<1>6. \A k \in 1 .. n : s'[k] # f
    <2> SUFFICES ASSUME NEW k \in 1 .. n, s[i + k] = f PROVE FALSE
        BY <1>5
    <2>1. i + k = i
        BY <1>1, <1>2, <1>5 DEF FlowsOnce
    <2>2. QED
        BY <1>2, <2>1
<1>7. \A k \in 1 .. n + 1 : k \in 1 .. n \/ k = n + 1
    BY <1>5
<1>8. FlowsOnce'
    <2>1. \A k \in 1 .. n + 1 : s'[k] \in started
        BY <1>1, <1>2, <1>5, <1>7 DEF FlowsOnce
    <2>2. ASSUME NEW k \in 1 .. n, NEW m \in 1 .. n, s'[k] = s'[m]
          PROVE  k = m
        <3>1. /\ i + k \in 1 .. Len(s) /\ i + m \in 1 .. Len(s)
              /\ s[i + k] = s[i + m]
            BY <1>5, <2>2
        <3>2. i + k = i + m
            BY <1>1, <3>1 DEF FlowsOnce
        <3>3. QED
            BY <1>2, <3>2
    <2>3. \A k, m \in 1 .. n + 1 : s'[k] = s'[m] => k = m
        BY <1>5, <1>6, <1>7, <2>2
    <2>4. QED
        BY <1>5, <2>1, <2>3 DEF FlowsOnce
<1>9. ASSUME NEW g \in Flows, Waiting(g)', g # f
      PROVE  /\ Waiting(g) /\ passes[g][f] = 0
             /\ passes'[g] = [passes[g] EXCEPT ![f] = IF @ < MaxPasses THEN @ + 1 ELSE @]
    <2>1. Waiting(g) /\ g \in started
        BY <1>9 DEF Waiting
    <2>2. PICK k \in 1 .. Len(s) : s[k] = g
        BY <1>1, <2>1 DEF ActiveInv
    <2>3. k \in Unfinished
        BY <2>1, <2>2 DEF Unfinished, Waiting
    <2>4. i <= k
        BY <1>3, <2>3 DEF PickFirst
    <2>5. ~(passes[g][f] >= 1)
        <3> SUFFICES ASSUME passes[g][f] >= 1 PROVE FALSE
            OBVIOUS
        <3>1. k < i
            BY <1>1, <1>2, <1>9, <2>1, <2>2 DEF PassedBehind
        <3>2. QED
            BY <1>2, <2>4, <3>1
    <2>6. passes[g][f] \in 0 .. MaxPasses
        BY <1>2 DEF TurnsTyped
    <2>7. passes[g][f] = 0
        BY <2>5, <2>6, BoundsAssumption
    <2>8. passes'[g] = [passes[g] EXCEPT ![f] = IF @ < MaxPasses THEN @ + 1 ELSE @]
        BY <1>9, <2>1 DEF Passed
    <2>9. QED
        BY <2>1, <2>7, <2>8
<1>10. \A h \in Flows : passes'[f][h] = 0
    BY <1>2 DEF Passed
<1>11. ASSUME NEW g \in Flows, NEW h \in Flows, Waiting(g)', g # f
       PROVE  /\ h = f => passes'[g][h] = 1
              /\ h # f => passes'[g][h] = passes[g][h]
    <2>1. /\ passes[g][f] = 0 /\ passes[g] \in [Flows -> 0 .. MaxPasses]
          /\ passes'[g] = [passes[g] EXCEPT ![f] = IF @ < MaxPasses THEN @ + 1 ELSE @]
        BY <1>9, <1>11 DEF TurnsTyped
    <2>2. 0 < MaxPasses
        BY BoundsAssumption
    <2>3. QED
        BY <1>2, <2>1, <2>2
<1>12. PassedBehind'
    <2> SUFFICES ASSUME NEW g \in Flows, NEW h \in Flows, Waiting(g)', g # h,
                        passes'[g][h] >= 1,
                        NEW k \in 1 .. Len(s'), NEW m \in 1 .. Len(s'),
                        s'[k] = g, s'[m] = h
                 PROVE  k < m
        BY DEF PassedBehind
    <2>1. g # f
        BY <1>10
    <2>2. k \in 1 .. n
        BY <1>5, <1>7, <2>1
    <2>3. CASE m = n + 1
        BY <1>5, <2>2, <2>3
    <2>4. CASE m # n + 1
        <3>1. m \in 1 .. n /\ h # f
            BY <1>5, <1>6, <1>7, <2>4
        <3>2. Waiting(g) /\ passes[g][h] >= 1
            BY <1>9, <1>11, <2>1, <3>1
        <3>3. i + k \in 1 .. Len(s) /\ i + m \in 1 .. Len(s) /\ s[i + k] = g /\ s[i + m] = h
            BY <1>5, <2>2, <3>1
        <3>4. i + k < i + m
            BY <1>1, <3>2, <3>3 DEF PassedBehind
        <3>5. QED
            BY <1>2, <3>4
    <2>5. QED
        BY <2>3, <2>4
<1>13. PassedStarted'
    BY DEF PassedStarted, Passed
<1>14. FlowsTakeTurns'
    <2> SUFFICES ASSUME NEW g \in Flows, NEW h \in Flows, Waiting(g)', g # h,
                        collective_id[g] = collective_id[h]
                 PROVE  passes'[g][h] <= 1
        BY DEF FlowsTakeTurns
    <2>1. CASE g = f
        BY <1>10, <2>1
    <2>2. CASE g # f /\ h = f
        BY <1>11, <2>2
    <2>3. CASE g # f /\ h # f
        BY <1>1, <1>9, <1>11, <2>3 DEF FlowsTakeTurns
    <2>4. QED
        BY <2>1, <2>2, <2>3
<1>15. QED
    BY <1>8, <1>12, <1>13, <1>14

\* Nothing else moves a flow or counts a turn; flows may finish.
LEMMA OtherTurns ==
    ASSUME TurnsInv, finished \subseteq finished',
           UNCHANGED << active_sending_flows, started, passes >>
    PROVE  FlowsOnce' /\ PassedBehind' /\ PassedStarted' /\ FlowsTakeTurns'
<1>1. \A f \in Flows : Waiting(f)' => Waiting(f)
    BY DEF Waiting
<1>2. QED
    BY <1>1 DEF TurnsInv, FlowsOnce, PassedBehind, PassedStarted, FlowsTakeTurns

LEMMA HostProcessTurns ==
    ASSUME SameCollective, FlowsTyped, TurnsTyped, SimsTyped, TurnsInv,
           NEW e \in 1 .. Len(host_events), HostProcess(e)
    PROVE  FlowsOnce' /\ PassedBehind' /\ PassedStarted' /\ FlowsTakeTurns'
<1>1. started' = started /\ probes' = probes
    BY DEF HostProcess
<1>2. CASE /\ active_sending_flows' = << >>
           /\ UNCHANGED << finished, passes >>
    <2>1. Len(<< >>) = 0
        BY EmptySeq
    <2>2. FlowsOnce' /\ PassedBehind'
        BY <1>2, <2>1 DEF FlowsOnce, PassedBehind
    <2>3. PassedStarted' /\ FlowsTakeTurns'
        BY <1>1, <1>2 DEF TurnsInv, PassedStarted, FlowsTakeTurns, Waiting
    <2>4. QED
        BY <2>2, <2>3
<1>3. ASSUME NEW i \in Unfinished, TakeTurn(i),
             SendDirect(active_sending_flows[i]) \/ SendSimulation(active_sending_flows[i]),
             passes' = Passed(active_sending_flows[i])
      PROVE  FlowsOnce' /\ PassedBehind' /\ PassedStarted' /\ FlowsTakeTurns'
    <2>1. active_sending_flows[i] \in Flows
        BY ElementOfSeq DEF FlowsTyped, Unfinished
    <2>2. finished \subseteq finished'
        BY <1>1, <1>3, <2>1, SendKeeps
    <2>3. QED
        BY <1>1, <1>3, <2>2, TurnTurns
<1>4. QED
    BY <1>2, <1>3 DEF HostProcess

LEMMA NextTurns ==
    ASSUME SameCollective, HostInv, TurnsInv, [Next]_vars
    PROVE  TurnsInv'
<1>1. FlowsTyped /\ TurnsTyped /\ SimsTyped
    BY HostParts
<1>2. ActiveInv'
    BY NextKeeps DEF HostInv
<1>3. FlowsOnce' /\ PassedBehind' /\ PassedStarted' /\ FlowsTakeTurns'
    <2>1. CASE \E f \in Flows : StartFlow(f)
        BY <1>1, <2>1, StartFlowTurns
    <2>2. CASE \E f \in Flows : FinishFlow(f)
        BY <2>2, OtherTurns DEF FinishFlow, turnVars
    <2>3. CASE \E e \in 1 .. Len(host_events) : HostProcess(e)
        BY <1>1, <2>3, HostProcessTurns
    <2>4. CASE \E e \in 1 .. Len(sim_events) : MoveSim(e)
        BY <2>4, OtherTurns DEF MoveSim, flowVars, turnVars
    <2>5. CASE \E e \in 1 .. Len(pump_events) : MovePackets(e)
        BY <2>5, OtherTurns DEF MovePackets, flowVars, turnVars
    <2>6. CASE ReceiveSimAck \/ ReleaseData \/ ReceiveSim \/ SendDataAck
        BY <2>6, OtherTurns
           DEF ReceiveSimAck, ReleaseData, ReceiveSim, SendDataAck, flowVars, turnVars
    <2>7. CASE Tick
        BY <2>7, OtherTurns DEF Tick, flowVars
    <2>8. CASE UNCHANGED vars
        BY <2>8, OtherTurns DEF vars, flowVars, turnVars
    <2>9. QED
        BY <2>1, <2>2, <2>3, <2>4, <2>5, <2>6, <2>7, <2>8 DEF Next
<1>4. QED
    BY <1>2, <1>3 DEF TurnsInv

\* In a host of one collective no flow has two turns while another one waits
\* for its next: the simple round-robin of SnsHost::send, which drops the
\* finished flows in front and puts the flow that had its turn last.
THEOREM FlowsAlwaysTakeTurns ==
    ASSUME SameCollective
    PROVE  Spec => []FlowsTakeTurns
<1>1. Init => TurnsInv
    BY InitTurns
<1>2. HostInv /\ TurnsInv /\ [Next]_vars => TurnsInv'
    BY NextTurns
<1>3. TurnsInv => FlowsTakeTurns
    BY DEF TurnsInv
<1>4. Spec => []HostInv
    BY HostInvariant
<1>5. QED
    BY <1>1, <1>2, <1>3, <1>4, PTL DEF Spec

-----------------------------------------------------------------------------
(* Ruf: the invariant *)

\* HostState: free, or busy in a round.
HostStates == {Free} \cup [state : {FALSE}, expired : BOOLEAN, round : Round, local : BOOLEAN]

GoSrcs   == [src : Host, tokens : Grant, round : Round]
Lists    == [list : SUBSET (Host \X Int), nrts : Host \cup {NoHost}, round : Round \cup {-1}]
Grants   == [src : Host \cup {NoHost}, remain_tokens : Int, round : Round \cup {-1}, send_nrts : BOOLEAN]
Requests == [dst : Host, src : Host, size : Int]

\* The fields of a RufFlow; of its counters only those that Need adds up are of interest.
IsFlow(F) ==
    /\ F = [ started |-> F.started, rts_received |-> F.rts_received, packets_received |-> F.packets_received,
             received_count |-> F.received_count, token_count |-> F.token_count, redundancy |-> F.redundancy,
             window_old |-> F.window_old, largest_token_seq_received |-> F.largest_token_seq_received,
             last_token_data_seq_num_sent |-> F.last_token_data_seq_num_sent,
             finished_at_receiver |-> F.finished_at_receiver, finished |-> F.finished ]
    /\ F.received_count \in Int /\ F.token_count \in Int /\ F.largest_token_seq_received \in Int

RufFlowsTyped == flow = [f \in Flow |-> flow[f]] /\ \A f \in Flow : IsFlow(flow[f])

IsPacket(m) == m.flow \in Flow /\ m.seq \in Int

ArbiterTyped(src, dst, inbound, outbound, packets) ==
    /\ src \in [Host -> HostStates] /\ dst \in [Host -> HostStates]
    /\ inbound \in [Racks -> Int] /\ outbound \in [Racks -> Int]
    /\ packets \in [Host -> Seq(GoSrcs)]

RufTypes ==
    /\ ArbiterTyped(src_state, dst_state, inbound_cons, outbound_cons, gosrc)
    /\ ruf_q \in SUBSET Requests /\ IsFiniteSet(ruf_q)
    /\ list \in [Host -> Seq(Lists)] /\ \A h \in Host : \A i \in DOMAIN list[h] : IsFiniteSet(list[h][i].list)
    /\ gosrc_info \in [Host -> Grants] /\ \A h \in Host : gosrc_info[h].src # NoHost => gosrc_info[h].round \in Round
    /\ wakeup_evt \in [Host -> BOOLEAN]
    /\ flows \in [Host -> SUBSET Flow] /\ RufFlowsTyped
    /\ IsFiniteSet(tokens) /\ \A m \in net \cup tokens : IsPacket(m)
    /\ faults \in Seq(FaultKinds)

\* GrantsInUse of one receiver.
InUse(info, wakeup) == info.src # NoHost => info.remain_tokens > 0 /\ (wakeup => info.send_nrts)

\* A grant of one token is used up before the NRTS, and a Lead of 0 lets the last token go
\* before it: the NRTS has lost its round then.
LongGrants == Lead > 0 /\ \A n \in Grant : n > 1

InfoHolds(info) == info.src # NoHost /\ ~info.send_nrts

\* The NRTS comes before the last token.
HeldLong == \A h \in Host : InfoHolds(gosrc_info[h]) => gosrc_info[h].remain_tokens > 1

\* An NRTS names the round of the grant.
Named(m) == m.nrts # NoHost => m.round \in Round
NrtsNamed == \A h \in Host : \A i \in DOMAIN list[h] : Named(list[h][i])

\* The connections of the racks, as sources or as receivers.
Kept(cons, state) == \A t \in Racks : cons[t] + Busy(state, t) = TorLimit

\* A receiver has, or gives back, source s in this round.
Claims(info, packets, requests, s, round) ==
    \/ InfoHolds(info) /\ info.src = s /\ info.round = round
    \/ \E i \in DOMAIN packets : packets[i].src = s /\ packets[i].round = round
    \/ \E i \in DOMAIN requests : requests[i].nrts = s /\ requests[i].round = round

\* It does so once.
ClaimsOnce(info, packets, requests) ==
    /\ Len(packets) <= 1
    /\ InfoHolds(info) => packets = <<>>
    /\ \A i \in DOMAIN requests : requests[i].nrts # NoHost =>
          /\ packets = <<>> /\ ~InfoHolds(info)
          /\ \A j \in DOMAIN requests : requests[j].nrts # NoHost => i = j

Serving(state, round) == ~state.state /\ ~state.expired /\ state.round = round

\* The arbiter knows of every claim, and no two receivers claim a source.
ClaimsKnown(src, dst, info, packets, lists) ==
    /\ \A d \in Host : ClaimsOnce(info[d], packets[d], lists[d])
    /\ \A d, s \in Host : \A r \in Round :
          Claims(info[d], packets[d], lists[d], s, r) => Serving(src[s], r) /\ Serving(dst[d], r)
    /\ \A d, e, s \in Host : \A r, q \in Round :
          Claims(info[d], packets[d], lists[d], s, r) /\ Claims(info[e], packets[e], lists[e], s, q) => d = e

RufInv ==
    /\ RufTypes
    /\ \A d \in Host : InUse(gosrc_info[d], wakeup_evt[d])
    /\ LongGrants =>
          /\ HeldLong /\ NrtsNamed
          /\ Kept(outbound_cons, src_state) /\ Kept(inbound_cons, dst_state)
          /\ ~Happened("arbiter") => ClaimsKnown(src_state, dst_state, gosrc_info, gosrc, list)

-----------------------------------------------------------------------------
(* Ruf: sequences, rounds and connections *)

LEMMA FreeIsState ==
    Free \in HostStates /\ Free.state = TRUE /\ Free.expired = FALSE /\ Free.round = -1 /\ Free.local = FALSE
BY DEF HostStates, Free

LEMMA RoundsAssumed == Round \in SUBSET Nat /\ Grant \in SUBSET (Nat \ {0}) /\ NoHost \notin Host /\ IsFiniteSet(Host)
                       /\ Tor \in [Host -> Nat] /\ TorLimit \in Int
BY ArbiterAssumption

\* What is left of a sequence of packets when its head has been taken.
LEMMA TailIs ==
    ASSUME NEW S, NEW q \in Seq(S), q # <<>>
    PROVE  /\ Tail(q) \in Seq(S) /\ Head(q) \in S /\ Head(q) = q[1] /\ 1 \in DOMAIN q /\ Len(Tail(q)) = Len(q) - 1
           /\ \A i \in DOMAIN Tail(q) : i + 1 \in DOMAIN q /\ Tail(q)[i] = q[i + 1] /\ i # 0
OBVIOUS

\* Where the packets of a sequence come from when at most one has been added.
LEMMA AddedIs ==
    ASSUME NEW S, NEW q \in Seq(S), NEW e \in S
    PROVE  /\ q \o << e >> \in Seq(S) /\ q \o <<>> = q /\ Len(q \o << e >>) = Len(q) + 1
           /\ Append(q, e) = q \o << e >>
           /\ \A i \in DOMAIN (q \o << e >>) :
                 \/ i \in DOMAIN q /\ (q \o << e >>)[i] = q[i]
                 \/ i = Len(q) + 1 /\ (q \o << e >>)[i] = e
OBVIOUS

\* As many packets are made, at most, as there are things to make them of.
LEMMA ImageIsFinite ==
    ASSUME NEW S, IsFiniteSet(S), NEW g, g = [x \in S |-> g[x]]
    PROVE  IsFiniteSet({g[x] : x \in S})
<1> DEFINE T == {g[x] : x \in S}
<1>1. g \in Surjection(S, T)
    BY DEF Surjection
<1> HIDE DEF T
<1>2. IsFiniteSet(T)
    BY <1>1, FS_Surjection
<1>3. QED
    BY <1>2 DEF T

\* The connection that a state of a host uses.
Uses(state) == IF ~state.state /\ ~state.local THEN 1 ELSE 0

LEMMA BusyChanges ==
    ASSUME NEW state \in [Host -> HostStates], NEW h \in Host, NEW new \in HostStates, NEW t \in Nat
    PROVE  /\ Busy(state, t) \in Nat
           /\ Tor[h] = t => Busy([state EXCEPT ![h] = new], t) = Busy(state, t) - Uses(state[h]) + Uses(new)
           /\ Tor[h] # t => Busy([state EXCEPT ![h] = new], t) = Busy(state, t)
<1> DEFINE after == [state EXCEPT ![h] = new]
           B == {g \in Host : Tor[g] = t /\ ~state[g].state /\ ~state[g].local}
           C == {g \in Host : Tor[g] = t /\ ~after[g].state /\ ~after[g].local}
<1>1. \A g \in Host \ {h} : after[g] = state[g]
    OBVIOUS
<1>2. after[h] = new
    OBVIOUS
<1> HIDE DEF after
<1>3. B \ {h} = C \ {h}
    BY <1>1
<1>4. h \in B <=> Tor[h] = t /\ Uses(state[h]) = 1
    BY DEF Uses
<1>5. h \in C <=> Tor[h] = t /\ Uses(new) = 1
    BY <1>2 DEF Uses
<1>6. Uses(state[h]) \in {0, 1} /\ Uses(new) \in {0, 1}
    BY DEF Uses
<1>7. IsFiniteSet(B) /\ IsFiniteSet(C)
    BY RoundsAssumed, FS_Subset
<1>8. Busy(state, t) = Cardinality(B) /\ Busy(after, t) = Cardinality(C)
    BY DEF Busy
<1> HIDE DEF B, C
<1>9. Cardinality(B) \in Nat /\ Cardinality(C) \in Nat
    BY <1>7, FS_CardinalityType
<1>10. Cardinality(B \ {h}) = IF h \in B THEN Cardinality(B) - 1 ELSE Cardinality(B)
    BY <1>7, FS_RemoveElement, Zenon
<1>11. Cardinality(C \ {h}) = IF h \in C THEN Cardinality(C) - 1 ELSE Cardinality(C)
    BY <1>7, FS_RemoveElement, Zenon
<1>12. Cardinality(B \ {h}) = Cardinality(C \ {h})
    BY <1>3
<1> HIDE DEF Uses
<1>13. ASSUME Tor[h] = t
       PROVE  Busy(after, t) = Busy(state, t) - Uses(state[h]) + Uses(new)
    BY <1>13, <1>4, <1>5, <1>6, <1>8, <1>9, <1>10, <1>11, <1>12
<1>14. ASSUME Tor[h] # t
       PROVE  Busy(after, t) = Busy(state, t)
    BY <1>14, <1>4, <1>5, <1>8, <1>9, <1>10, <1>11, <1>12
<1>15. QED
    BY <1>8, <1>9, <1>13, <1>14 DEF after

\* A host changes its state and its rack gets, or gives, what the change frees or takes.
LEMMA KeptByChange ==
    ASSUME NEW state \in [Host -> HostStates], NEW cons \in [Racks -> Int], Kept(cons, state),
           NEW h \in Host, NEW new \in HostStates, NEW n \in Int, n = Uses(state[h]) - Uses(new)
    PROVE  LET after == [cons EXCEPT ![Tor[h]] = @ + n]
           IN  after \in [Racks -> Int] /\ Kept(after, [state EXCEPT ![h] = new])
<1> DEFINE after == [cons EXCEPT ![Tor[h]] = @ + n]
           changed == [state EXCEPT ![h] = new]
<1>1. Tor[h] \in Racks
    BY DEF Racks
<1>2. \A t \in Racks : after[t] = IF Tor[h] = t THEN cons[t] + n ELSE cons[t]
    BY <1>1
<1>3. after \in [Racks -> Int]
    BY <1>1
<1>4. Uses(state[h]) \in Int /\ Uses(new) \in Int
    BY DEF Uses
<1>5. ASSUME NEW t \in Racks
      PROVE  after[t] + Busy(changed, t) = TorLimit
  <2>0. t \in Nat
    BY RoundsAssumed DEF Racks
  <2> HIDE DEF after, changed
  <2>1. /\ Busy(state, t) \in Nat
        /\ Tor[h] = t => Busy(changed, t) = Busy(state, t) - Uses(state[h]) + Uses(new)
        /\ Tor[h] # t => Busy(changed, t) = Busy(state, t)
    BY <2>0, BusyChanges DEF changed
  <2>2. cons[t] \in Int /\ cons[t] + Busy(state, t) = TorLimit
    BY DEF Kept
  <2>3. QED
    BY <1>2, <1>4, <2>0, <2>1, <2>2, RoundsAssumed
<1>6. QED
    BY <1>3, <1>5 DEF Kept


-----------------------------------------------------------------------------
(* Ruf: claims *)

\* What a claim rests on has its types.
ClaimsTyped(info, packets, lists) ==
    /\ packets \in [Host -> Seq(GoSrcs)] /\ lists \in [Host -> Seq(Lists)]
    /\ info \in [Host -> Grants] /\ \A h \in Host : info[h].src # NoHost => info[h].round \in Round
    /\ \A h \in Host : \A i \in DOMAIN lists[h] : Named(lists[h][i])

\* A receiver that is free at the arbiter claims nothing.
LEMMA FreeClaimsNothing ==
    ASSUME NEW src, NEW dst, NEW info, NEW packets, NEW lists,
           ClaimsTyped(info, packets, lists), ClaimsKnown(src, dst, info, packets, lists),
           NEW d \in Host, ~ \E r \in Round : Serving(dst[d], r)
    PROVE  /\ packets[d] = <<>> /\ ~InfoHolds(info[d])
           /\ \A i \in DOMAIN lists[d] : lists[d][i].nrts = NoHost
<1>1. \A s \in Host : \A r \in Round : ~Claims(info[d], packets[d], lists[d], s, r)
    BY DEF ClaimsKnown
<1>2. packets[d] = <<>>
  <2>1. SUFFICES ASSUME packets[d] # <<>> PROVE FALSE
    OBVIOUS
  <2>2. packets[d] \in Seq(GoSrcs) /\ 1 \in DOMAIN packets[d] /\ packets[d][1] \in GoSrcs
    BY <2>1 DEF ClaimsTyped
  <2>3. packets[d][1].src \in Host /\ packets[d][1].round \in Round
    BY <2>2 DEF GoSrcs
  <2>4. Claims(info[d], packets[d], lists[d], packets[d][1].src, packets[d][1].round)
    BY <2>2 DEF Claims
  <2>5. QED
    BY <1>1, <2>3, <2>4
<1>3. ~InfoHolds(info[d])
  <2>1. SUFFICES ASSUME InfoHolds(info[d]) PROVE FALSE
    OBVIOUS
  <2>2. info[d].src \in Host /\ info[d].round \in Round
    BY <2>1 DEF ClaimsTyped, InfoHolds, Grants
  <2>3. Claims(info[d], packets[d], lists[d], info[d].src, info[d].round)
    BY <2>1 DEF Claims
  <2>4. QED
    BY <1>1, <2>2, <2>3
<1>4. ASSUME NEW i \in DOMAIN lists[d] PROVE lists[d][i].nrts = NoHost
  <2>1. SUFFICES ASSUME lists[d][i].nrts # NoHost PROVE FALSE
    OBVIOUS
  <2>2. lists[d][i] \in Lists /\ lists[d][i].round \in Round
    BY <2>1 DEF ClaimsTyped, Named
  <2>3. lists[d][i].nrts \in Host
    BY <2>1, <2>2 DEF Lists
  <2>4. Claims(info[d], packets[d], lists[d], lists[d][i].nrts, lists[d][i].round)
    BY DEF Claims
  <2>5. QED
    BY <1>1, <2>2, <2>3, <2>4
<1>5. QED
    BY <1>2, <1>3, <1>4

\* Only receiver d has changed, and it claims what it has claimed before, or less.
LEMMA ClaimsShrink ==
    ASSUME NEW src, NEW dst, NEW info, NEW packets, NEW lists, NEW info2, NEW packets2, NEW lists2, NEW d \in Host,
           ClaimsKnown(src, dst, info, packets, lists),
           \A e \in Host \ {d} : info2[e] = info[e] /\ packets2[e] = packets[e] /\ lists2[e] = lists[e],
           ClaimsOnce(info2[d], packets2[d], lists2[d]),
           \A s \in Host : \A r \in Round :
              Claims(info2[d], packets2[d], lists2[d], s, r) => Claims(info[d], packets[d], lists[d], s, r)
    PROVE  ClaimsKnown(src, dst, info2, packets2, lists2)
<1>1. \A e, s \in Host : \A r \in Round :
          Claims(info2[e], packets2[e], lists2[e], s, r) => Claims(info[e], packets[e], lists[e], s, r)
    OBVIOUS
<1>2. \A e \in Host : ClaimsOnce(info2[e], packets2[e], lists2[e])
  <2>1. SUFFICES ASSUME NEW e \in Host, e # d PROVE ClaimsOnce(info2[e], packets2[e], lists2[e])
    OBVIOUS
  <2>2. info2[e] = info[e] /\ packets2[e] = packets[e] /\ lists2[e] = lists[e]
    BY <2>1
  <2>3. ClaimsOnce(info[e], packets[e], lists[e])
    BY DEF ClaimsKnown
  <2>4. QED
    BY <2>2, <2>3
<1>3. QED
    BY <1>1, <1>2 DEF ClaimsKnown

\* A state of the arbiter that is not a claimed one may change.
LEMMA ClaimsStay ==
    ASSUME NEW src, NEW dst, NEW info, NEW packets, NEW lists, NEW src2, NEW dst2,
           ClaimsKnown(src, dst, info, packets, lists),
           \A d, s \in Host : \A r \in Round :
              Claims(info[d], packets[d], lists[d], s, r) /\ Serving(src[s], r) /\ Serving(dst[d], r) =>
                  Serving(src2[s], r) /\ Serving(dst2[d], r)
    PROVE  ClaimsKnown(src2, dst2, info, packets, lists)
BY DEF ClaimsKnown

\* A source and a receiver that are free are matched.
LEMMA ClaimsMatched ==
    ASSUME NEW src, NEW dst, NEW info, NEW packets, NEW lists, NEW src2, NEW dst2, NEW packets2,
           ClaimsTyped(info, packets, lists), ClaimsKnown(src, dst, info, packets, lists),
           NEW s \in Host, NEW d \in Host, src[s].state, dst[d].state,
           NEW g \in GoSrcs, g.src = s,
           \A e \in Host \ {s} : src2[e] = src[e], Serving(src2[s], g.round),
           \A e \in Host \ {d} : dst2[e] = dst[e] /\ packets2[e] = packets[e], Serving(dst2[d], g.round),
           packets2[d] = Append(packets[d], g)
    PROVE  ClaimsKnown(src2, dst2, info, packets2, lists)
<1>1. /\ packets[d] = <<>> /\ ~InfoHolds(info[d])
      /\ \A i \in DOMAIN lists[d] : lists[d][i].nrts = NoHost
    BY FreeClaimsNothing DEF Serving
<1>2. packets2[d] = << g >>
    BY <1>1
<1>3. \A t \in Host : \A r \in Round : Claims(info[d], packets2[d], lists[d], t, r) => t = s /\ r = g.round
    BY <1>1, <1>2, RoundsAssumed DEF Claims
<1>4. \A e \in Host \ {d} : \A t \in Host : \A r \in Round :
          Claims(info[e], packets2[e], lists[e], t, r) => Claims(info[e], packets[e], lists[e], t, r)
    OBVIOUS
<1>5. \A e \in Host \ {d} : \A t \in Host : \A r \in Round :
          Claims(info[e], packets2[e], lists[e], t, r) => t # s /\ Serving(src[t], r) /\ Serving(dst[e], r)
    BY <1>4 DEF ClaimsKnown, Serving
<1>6. ASSUME NEW e \in Host PROVE ClaimsOnce(info[e], packets2[e], lists[e])
  <2>1. CASE e = d
    <3>1. Len(packets2[d]) <= 1
        BY <1>2
    <3>2. QED
        BY <2>1, <3>1, <1>1 DEF ClaimsOnce
  <2>2. CASE e # d
    BY <2>2 DEF ClaimsKnown
  <2>3. QED
    BY <2>1, <2>2
<1>7. ASSUME NEW e \in Host, NEW t \in Host, NEW r \in Round, Claims(info[e], packets2[e], lists[e], t, r)
      PROVE  Serving(src2[t], r) /\ Serving(dst2[e], r)
  <2>1. CASE e = d
    BY <2>1, <1>3, <1>7
  <2>2. CASE e # d
    <3>1. t # s /\ Serving(src[t], r) /\ Serving(dst[e], r)
        BY <2>2, <1>5, <1>7
    <3>2. src2[t] = src[t] /\ dst2[e] = dst[e]
        BY <2>2, <3>1
    <3>3. QED
        BY <3>1, <3>2
  <2>3. QED
    BY <2>1, <2>2
<1>8. ASSUME NEW e \in Host, NEW f \in Host, NEW t \in Host, NEW r \in Round, NEW q \in Round,
             Claims(info[e], packets2[e], lists[e], t, r), Claims(info[f], packets2[f], lists[f], t, q)
      PROVE  e = f
  <2>1. CASE e = d \/ f = d
    BY <2>1, <1>3, <1>5, <1>8
  <2>2. CASE e # d /\ f # d
    BY <2>2, <1>4, <1>8 DEF ClaimsKnown
  <2>3. QED
    BY <2>1, <2>2
<1>9. QED
    BY <1>6, <1>7, <1>8 DEF ClaimsKnown

-----------------------------------------------------------------------------
(* Ruf: an epoch of the arbiter *)

ArbiterOK(A) == ArbiterTyped(A.src, A.dst, A.inbound, A.outbound, A.gosrc)

AllKept(A) == Kept(A.outbound, A.src) /\ Kept(A.inbound, A.dst)

ClaimsOf(A) == ClaimsTyped(gosrc_info, A.gosrc, list) /\ ClaimsKnown(A.src, A.dst, gosrc_info, A.gosrc, list)

\* A host that has timed out is busy.
LEMMA ExpiredIsBusy ==
    ASSUME NEW state \in HostStates
    PROVE  /\ state.state \in BOOLEAN /\ state.expired \in BOOLEAN /\ state.local \in BOOLEAN
           /\ state.expired => ~state.state
           /\ state.state => state.round = -1 /\ Uses(state) = 0
           /\ ~state.state => state.round \in Round
<1>1. CASE state = Free
    BY <1>1, FreeIsState DEF Uses
<1>2. CASE state \in [state : {FALSE}, expired : BOOLEAN, round : Round, local : BOOLEAN]
    BY <1>2
<1>3. QED
    BY <1>1, <1>2 DEF HostStates

\* One end of a request after its timeout.
LEMMA ResetKeepsEnd ==
    ASSUME NEW state \in [Host -> HostStates], NEW cons \in [Racks -> Int], NEW h \in Host,
           NEW new, state[h].expired => new = Free, ~state[h].expired => new = state[h],
           NEW n, state[h].expired /\ ~state[h].local => n = 1, ~(state[h].expired /\ ~state[h].local) => n = 0
    PROVE  /\ [state EXCEPT ![h] = new] \in [Host -> HostStates] /\ [cons EXCEPT ![Tor[h]] = @ + n] \in [Racks -> Int]
           /\ Kept(cons, state) => Kept([cons EXCEPT ![Tor[h]] = @ + n], [state EXCEPT ![h] = new])
           /\ \A g \in Host : ~state[g].expired => [state EXCEPT ![h] = new][g] = state[g]
<1>1. Tor[h] \in Racks
    BY DEF Racks
<1>2. new \in HostStates /\ n \in Int
    BY FreeIsState
<1>3. n = Uses(state[h]) - Uses(new)
  <2>1. CASE state[h].expired
    BY <2>1, FreeIsState, ExpiredIsBusy DEF Uses
  <2>2. CASE ~state[h].expired
    BY <2>2 DEF Uses
  <2>3. QED
    BY <2>1, <2>2
<1>4. [state EXCEPT ![h] = new] \in [Host -> HostStates] /\ [cons EXCEPT ![Tor[h]] = @ + n] \in [Racks -> Int]
    BY <1>1, <1>2
<1>5. Kept(cons, state) => Kept([cons EXCEPT ![Tor[h]] = @ + n], [state EXCEPT ![h] = new])
    BY <1>2, <1>3, KeptByChange
<1>6. \A g \in Host : ~state[g].expired => [state EXCEPT ![h] = new][g] = state[g]
    OBVIOUS
<1>7. QED
    BY <1>4, <1>5, <1>6

LEMMA ResetKeeps ==
    ASSUME NEW A, ArbiterOK(A), NEW r \in Requests
    PROVE  /\ ArbiterOK(Reset(A, r))
           /\ AllKept(A) => AllKept(Reset(A, r))
           /\ ClaimsOf(A) => ClaimsOf(Reset(A, r))
<1> DEFINE B == Reset(A, r)
<1>1. r.src \in Host /\ r.dst \in Host
    BY DEF Requests
<1>2. /\ A.src \in [Host -> HostStates] /\ A.dst \in [Host -> HostStates]
      /\ A.inbound \in [Racks -> Int] /\ A.outbound \in [Racks -> Int]
    BY DEF ArbiterOK, ArbiterTyped
<1> DEFINE src == IF A.src[r.src].expired THEN Free ELSE A.src[r.src]
           dst == IF A.dst[r.dst].expired THEN Free ELSE A.dst[r.dst]
           in  == IF A.dst[r.dst].expired /\ ~A.dst[r.dst].local THEN 1 ELSE 0
           out == IF A.src[r.src].expired /\ ~A.src[r.src].local THEN 1 ELSE 0
<1>3. /\ B.src = [A.src EXCEPT ![r.src] = src] /\ B.dst = [A.dst EXCEPT ![r.dst] = dst]
      /\ B.gosrc = A.gosrc
    BY DEF Reset
<1>3a. Tor[r.dst] \in Racks /\ Tor[r.src] \in Racks
    BY <1>1 DEF Racks
<1>3b. B.inbound = [A.inbound EXCEPT ![Tor[r.dst]] = @ + in]
    BY <1>2, <1>3a DEF Reset
<1>3c. B.outbound = [A.outbound EXCEPT ![Tor[r.src]] = @ + out]
    BY <1>2, <1>3a DEF Reset
<1> HIDE DEF B
<1>4. /\ B.src \in [Host -> HostStates] /\ B.outbound \in [Racks -> Int]
      /\ Kept(A.outbound, A.src) => Kept(B.outbound, B.src)
      /\ \A g \in Host : ~A.src[g].expired => B.src[g] = A.src[g]
  <2> DEFINE state == A.src
             cons  == A.outbound
             h     == r.src
  <2>1. /\ state \in [Host -> HostStates] /\ cons \in [Racks -> Int] /\ h \in Host
        /\ state[h].expired => src = Free
        /\ ~state[h].expired => src = state[h]
        /\ state[h].expired /\ ~state[h].local => out = 1
        /\ ~(state[h].expired /\ ~state[h].local) => out = 0
    BY <1>1, <1>2
  <2>2. B.src = [state EXCEPT ![h] = src] /\ B.outbound = [cons EXCEPT ![Tor[h]] = @ + out]
    BY <1>3, <1>3c
  <2> HIDE DEF src, out, dst, in, state, cons, h
  <2>3. /\ [state EXCEPT ![h] = src] \in [Host -> HostStates] /\ [cons EXCEPT ![Tor[h]] = @ + out] \in [Racks -> Int]
        /\ Kept(cons, state) => Kept([cons EXCEPT ![Tor[h]] = @ + out], [state EXCEPT ![h] = src])
        /\ \A g \in Host : ~state[g].expired => [state EXCEPT ![h] = src][g] = state[g]
    BY <2>1, ResetKeepsEnd
  <2>4. QED
    BY <2>2, <2>3 DEF state, cons
<1>5. /\ B.dst \in [Host -> HostStates] /\ B.inbound \in [Racks -> Int]
      /\ Kept(A.inbound, A.dst) => Kept(B.inbound, B.dst)
      /\ \A g \in Host : ~A.dst[g].expired => B.dst[g] = A.dst[g]
  <2> DEFINE state == A.dst
             cons  == A.inbound
             h     == r.dst
  <2>1. /\ state \in [Host -> HostStates] /\ cons \in [Racks -> Int] /\ h \in Host
        /\ state[h].expired => dst = Free
        /\ ~state[h].expired => dst = state[h]
        /\ state[h].expired /\ ~state[h].local => in = 1
        /\ ~(state[h].expired /\ ~state[h].local) => in = 0
    BY <1>1, <1>2
  <2>2. B.dst = [state EXCEPT ![h] = dst] /\ B.inbound = [cons EXCEPT ![Tor[h]] = @ + in]
    BY <1>3, <1>3b
  <2> HIDE DEF src, out, dst, in, state, cons, h
  <2>3. /\ [state EXCEPT ![h] = dst] \in [Host -> HostStates] /\ [cons EXCEPT ![Tor[h]] = @ + in] \in [Racks -> Int]
        /\ Kept(cons, state) => Kept([cons EXCEPT ![Tor[h]] = @ + in], [state EXCEPT ![h] = dst])
        /\ \A g \in Host : ~state[g].expired => [state EXCEPT ![h] = dst][g] = state[g]
    BY <2>1, ResetKeepsEnd
  <2>4. QED
    BY <2>2, <2>3 DEF state, cons
<1>6. ClaimsOf(A) => ClaimsOf(B)
  <2>1. SUFFICES ASSUME ClaimsOf(A) PROVE ClaimsOf(B)
    OBVIOUS
  <2>2. \A d, s \in Host : \A q \in Round :
            Serving(A.src[s], q) /\ Serving(A.dst[d], q) => Serving(B.src[s], q) /\ Serving(B.dst[d], q)
    BY <1>4, <1>5 DEF Serving
  <2>3. ClaimsKnown(A.src, A.dst, gosrc_info, A.gosrc, list)
    BY <2>1 DEF ClaimsOf
  <2>4. ClaimsKnown(B.src, B.dst, gosrc_info, A.gosrc, list)
    BY <2>2, <2>3, ClaimsStay
  <2>5. QED
    BY <1>3, <2>1, <2>4 DEF ClaimsOf
<1>7. QED
    BY <1>3, <1>4, <1>5, <1>6 DEF B, ArbiterOK, ArbiterTyped, AllKept

\* One end of a request that is served.
LEMMA MatchedKeepsEnd ==
    ASSUME NEW state \in [Host -> HostStates], NEW cons \in [Racks -> Int], NEW h \in Host, state[h].state,
           NEW new \in HostStates, ~new.state, NEW one, new.local => one = 0, ~new.local => one = 1
    PROVE  /\ [state EXCEPT ![h] = new] \in [Host -> HostStates] /\ [cons EXCEPT ![Tor[h]] = @ - one] \in [Racks -> Int]
           /\ Kept(cons, state) => Kept([cons EXCEPT ![Tor[h]] = @ - one], [state EXCEPT ![h] = new])
<1>1. Tor[h] \in Racks
    BY DEF Racks
<1>2. one \in {0, 1}
    BY ExpiredIsBusy
<1>3. PICK m \in Int : m = 0 - one
    BY <1>2
<1>4. m = Uses(state[h]) - Uses(new)
    BY <1>2, <1>3, ExpiredIsBusy DEF Uses
<1>5. cons[Tor[h]] - one = cons[Tor[h]] + m
    BY <1>1, <1>2, <1>3
<1>6. [cons EXCEPT ![Tor[h]] = @ - one] = [cons EXCEPT ![Tor[h]] = @ + m]
    BY <1>5
<1>7. [state EXCEPT ![h] = new] \in [Host -> HostStates] /\ [cons EXCEPT ![Tor[h]] = @ + m] \in [Racks -> Int]
    BY <1>1, <1>2
<1>8. Kept(cons, state) => Kept([cons EXCEPT ![Tor[h]] = @ + m], [state EXCEPT ![h] = new])
    BY <1>4, KeptByChange
<1>9. QED
    BY <1>6, <1>7, <1>8

LEMMA MatchedKeeps ==
    ASSUME NEW A, ArbiterOK(A), NEW r \in Requests, A.src[r.src].state, A.dst[r.dst].state,
           NEW round \in Round, NEW n \in Grant
    PROVE  /\ ArbiterOK(Matched(A, r, round, n))
           /\ AllKept(A) => AllKept(Matched(A, r, round, n))
           /\ ClaimsOf(A) => ClaimsOf(Matched(A, r, round, n))
<1> DEFINE B    == Matched(A, r, round, n)
           busy == [ state |-> FALSE, expired |-> FALSE, round |-> round, local |-> IsLocal(r) ]
           one  == IF IsLocal(r) THEN 0 ELSE 1
           g    == [ src |-> r.src, tokens |-> n, round |-> round ]
<1>1. r.src \in Host /\ r.dst \in Host
    BY DEF Requests
<1>2. /\ A.src \in [Host -> HostStates] /\ A.dst \in [Host -> HostStates]
      /\ A.inbound \in [Racks -> Int] /\ A.outbound \in [Racks -> Int]
      /\ A.gosrc \in [Host -> Seq(GoSrcs)]
    BY DEF ArbiterOK, ArbiterTyped
<1>3. /\ B.src = [A.src EXCEPT ![r.src] = busy] /\ B.dst = [A.dst EXCEPT ![r.dst] = busy]
      /\ B.inbound = [A.inbound EXCEPT ![Tor[r.dst]] = @ - one]
      /\ B.outbound = [A.outbound EXCEPT ![Tor[r.src]] = @ - one]
      /\ B.gosrc = [A.gosrc EXCEPT ![r.dst] = Append(@, g)]
    BY DEF Matched
<1>4. IsLocal(r) \in BOOLEAN
    BY DEF IsLocal
<1>5. busy \in HostStates /\ ~busy.state /\ (busy.local => one = 0) /\ (~busy.local => one = 1) /\ Serving(busy, g.round)
    BY <1>4 DEF HostStates, Serving
<1>6. g \in GoSrcs /\ g.src = r.src
    BY <1>1 DEF GoSrcs
<1> HIDE DEF B, busy, one, g
<1>7. /\ B.src \in [Host -> HostStates] /\ B.outbound \in [Racks -> Int]
      /\ Kept(A.outbound, A.src) => Kept(B.outbound, B.src)
  <2> DEFINE state == A.src
             cons  == A.outbound
             h     == r.src
  <2>1. state \in [Host -> HostStates] /\ cons \in [Racks -> Int] /\ h \in Host /\ state[h].state
    BY <1>1, <1>2
  <2>2. B.src = [state EXCEPT ![h] = busy] /\ B.outbound = [cons EXCEPT ![Tor[h]] = @ - one]
    BY <1>3
  <2> HIDE DEF state, cons, h
  <2>3. /\ [state EXCEPT ![h] = busy] \in [Host -> HostStates] /\ [cons EXCEPT ![Tor[h]] = @ - one] \in [Racks -> Int]
        /\ Kept(cons, state) => Kept([cons EXCEPT ![Tor[h]] = @ - one], [state EXCEPT ![h] = busy])
    BY <1>5, <2>1, MatchedKeepsEnd
  <2>4. QED
    BY <2>2, <2>3 DEF state, cons
<1>8. /\ B.dst \in [Host -> HostStates] /\ B.inbound \in [Racks -> Int]
      /\ Kept(A.inbound, A.dst) => Kept(B.inbound, B.dst)
  <2> DEFINE state == A.dst
             cons  == A.inbound
             h     == r.dst
  <2>1. state \in [Host -> HostStates] /\ cons \in [Racks -> Int] /\ h \in Host /\ state[h].state
    BY <1>1, <1>2
  <2>2. B.dst = [state EXCEPT ![h] = busy] /\ B.inbound = [cons EXCEPT ![Tor[h]] = @ - one]
    BY <1>3
  <2> HIDE DEF state, cons, h
  <2>3. /\ [state EXCEPT ![h] = busy] \in [Host -> HostStates] /\ [cons EXCEPT ![Tor[h]] = @ - one] \in [Racks -> Int]
        /\ Kept(cons, state) => Kept([cons EXCEPT ![Tor[h]] = @ - one], [state EXCEPT ![h] = busy])
    BY <1>5, <2>1, MatchedKeepsEnd
  <2>4. QED
    BY <2>2, <2>3 DEF state, cons
<1>9. B.gosrc \in [Host -> Seq(GoSrcs)]
    BY <1>1, <1>2, <1>3, <1>6
<1>10. ClaimsOf(A) => ClaimsOf(B)
  <2>1. SUFFICES ASSUME ClaimsOf(A) PROVE ClaimsOf(B)
    OBVIOUS
  <2>2. /\ \A e \in Host \ {r.src} : B.src[e] = A.src[e]
        /\ \A e \in Host \ {r.dst} : B.dst[e] = A.dst[e] /\ B.gosrc[e] = A.gosrc[e]
        /\ B.src[r.src] = busy /\ B.dst[r.dst] = busy /\ B.gosrc[r.dst] = Append(A.gosrc[r.dst], g)
    BY <1>1, <1>2, <1>3
  <2>3. ClaimsTyped(gosrc_info, A.gosrc, list) /\ ClaimsKnown(A.src, A.dst, gosrc_info, A.gosrc, list)
    BY <2>1 DEF ClaimsOf
  <2>4. ClaimsKnown(B.src, B.dst, gosrc_info, B.gosrc, list)
    <3> DEFINE src == A.src
               dst == A.dst
               packets == A.gosrc
               src2 == B.src
               dst2 == B.dst
               packets2 == B.gosrc
               s == r.src
               d == r.dst
    <3>1. /\ ClaimsTyped(gosrc_info, packets, list) /\ ClaimsKnown(src, dst, gosrc_info, packets, list)
          /\ s \in Host /\ d \in Host /\ src[s].state /\ dst[d].state
          /\ \A e \in Host \ {s} : src2[e] = src[e]
          /\ \A e \in Host \ {d} : dst2[e] = dst[e] /\ packets2[e] = packets[e]
          /\ packets2[d] = Append(packets[d], g)
          /\ Serving(src2[s], g.round) /\ Serving(dst2[d], g.round) /\ g \in GoSrcs /\ g.src = s
        BY <1>1, <1>5, <1>6, <2>2, <2>3
    <3> HIDE DEF src, dst, packets, src2, dst2, packets2, s, d
    <3>2. ClaimsKnown(src2, dst2, gosrc_info, packets2, list)
        BY <3>1, ClaimsMatched
    <3>3. QED
        BY <3>2 DEF src2, dst2, packets2
  <2>5. QED
    BY <1>9, <2>3, <2>4 DEF ClaimsOf, ClaimsTyped
<1>11. QED
    BY <1>7, <1>8, <1>9, <1>10 DEF B, ArbiterOK, ArbiterTyped, AllKept

\* A request is served, or dropped.
Serve(A, r, round, n) == LET B == Reset(A, r) IN IF Fits(B, r) THEN Matched(B, r, round, n) ELSE B

LEMMA ServeKeeps ==
    ASSUME NEW A, ArbiterOK(A), NEW r \in Requests, NEW round \in Round, NEW n \in Grant
    PROVE  /\ ArbiterOK(Serve(A, r, round, n))
           /\ AllKept(A) => AllKept(Serve(A, r, round, n))
           /\ ClaimsOf(A) => ClaimsOf(Serve(A, r, round, n))
<1> DEFINE B == Reset(A, r)
<1>1. /\ ArbiterOK(B)
      /\ AllKept(A) => AllKept(B)
      /\ ClaimsOf(A) => ClaimsOf(B)
    BY ResetKeeps
<1>2. CASE ~Fits(B, r)
    BY <1>1, <1>2 DEF Serve
<1>3. CASE Fits(B, r)
  <2>1. B.src[r.src].state /\ B.dst[r.dst].state
    BY <1>3 DEF Fits
  <2>2. Serve(A, r, round, n) = Matched(B, r, round, n)
    BY <1>3 DEF Serve
  <2> HIDE DEF B
  <2>3. /\ ArbiterOK(Matched(B, r, round, n))
        /\ AllKept(B) => AllKept(Matched(B, r, round, n))
        /\ ClaimsOf(B) => ClaimsOf(Matched(B, r, round, n))
    BY <1>1, <2>1, MatchedKeeps
  <2>4. QED
    BY <1>1, <2>2, <2>3
<1>4. QED
    BY <1>2, <1>3

\* The requests are served one after the other.
Serves(f, order, N, first, round, tokens_of) ==
    f = [n \in 0 .. N |-> IF n = 0 THEN first ELSE Serve(f[n - 1], order[n], round, tokens_of[order[n].dst])]

\* There is such a run: the shortest that there is not would be one longer than one that there is.
LEMMA ServingExists ==
    ASSUME NEW order, NEW first, NEW round, NEW tokens_of, NEW N \in Nat
    PROVE  \E f : Serves(f, order, N, first, round, tokens_of)
<1> DEFINE none == {n \in Nat : ~ \E f : Serves(f, order, n, first, round, tokens_of)}
<1>1. SUFFICES ASSUME none # {} PROVE FALSE
    OBVIOUS
<1>2. PICK n \in none : \A k \in none : ~ (<< k, n >> \in OpToRel(<, Nat))
    BY <1>1, NatLessThanWellFounded, WFMin
<1>3. \A k \in none : ~(k < n)
    BY <1>2 DEF OpToRel
<1>4. CASE n = 0
  <2>1. Serves([k \in 0 .. 0 |-> first], order, 0, first, round, tokens_of)
    BY DEF Serves
  <2>2. QED
    BY <1>4, <2>1
<1>5. CASE n # 0
  <2>1. n - 1 \in Nat /\ n - 1 \notin none
    BY <1>3, <1>5
  <2>2. PICK f : Serves(f, order, n - 1, first, round, tokens_of)
    BY <2>1
  <2> DEFINE final == Serve(f[n - 1], order[n], round, tokens_of[order[n].dst])
             g == [k \in 0 .. n |-> IF k = n THEN final ELSE f[k]]
  <2>3. \A k \in 0 .. n - 1 : f[k] = IF k = 0 THEN first ELSE Serve(f[k - 1], order[k], round, tokens_of[order[k].dst])
    BY <2>2 DEF Serves
  <2>4. \A k \in 0 .. n - 1 : g[k] = f[k]
    BY <2>1
  <2>5. g[n] = final /\ g = [k \in 0 .. n |-> g[k]]
    BY <2>1
  <2> HIDE DEF g
  <2>6. ASSUME NEW k \in 0 .. n
        PROVE  g[k] = IF k = 0 THEN first ELSE Serve(g[k - 1], order[k], round, tokens_of[order[k].dst])
    <3>1. CASE k = n
      <4>1. g[n - 1] = f[n - 1]
        BY <2>1, <2>4
      <4>2. g[n] = Serve(g[n - 1], order[n], round, tokens_of[order[n].dst])
        BY <2>5, <4>1
      <4>3. QED
        BY <1>5, <3>1, <4>2
    <3>2. CASE k # n
      <4>1. k \in 0 .. n - 1 /\ (k # 0 => k - 1 \in 0 .. n - 1)
        BY <2>1, <3>2
      <4>2. QED
        BY <2>3, <2>4, <4>1
    <3>3. QED
        BY <3>1, <3>2
  <2>7. g = [k \in 0 .. n |-> IF k = 0 THEN first ELSE Serve(g[k - 1], order[k], round, tokens_of[order[k].dst])]
    BY <2>5, <2>6
  <2>8. Serves(g, order, n, first, round, tokens_of)
    BY <2>7 DEF Serves
  <2>9. QED
    BY <2>8
<1>6. QED
    BY <1>4, <1>5

\* The arbiter at first, and after one request more.
LEMMA ServesStep ==
    ASSUME NEW f, NEW order, NEW N \in Nat, NEW first, NEW round, NEW tokens_of,
           Serves(f, order, N, first, round, tokens_of)
    PROVE  f[0] = first /\ \A k \in 1 .. N : f[k] = Serve(f[k - 1], order[k], round, tokens_of[order[k].dst])
<1>1. 0 \in 0 .. N
    OBVIOUS
<1>2. f[0] = first
    BY <1>1 DEF Serves
<1>3. ASSUME NEW k \in 1 .. N
      PROVE  f[k] = Serve(f[k - 1], order[k], round, tokens_of[order[k].dst])
  <2>1. k \in 0 .. N /\ k # 0
    OBVIOUS
  <2>2. QED
    BY <2>1 DEF Serves
<1>4. QED
    BY <1>2, <1>3

\* What holds of the arbiter at first holds of it after every request.
LEMMA ServingKeeps ==
    ASSUME NEW f, NEW order, NEW N \in Nat, NEW first, NEW round \in Round, NEW tokens_of,
           Serves(f, order, N, first, round, tokens_of), ArbiterOK(first),
           \A n \in 1 .. N : order[n] \in Requests /\ tokens_of[order[n].dst] \in Grant
    PROVE  /\ ArbiterOK(f[N])
           /\ AllKept(first) => AllKept(f[N])
           /\ ClaimsOf(first) => ClaimsOf(f[N])
<1> DEFINE P(n) == ArbiterOK(f[n]) /\ (AllKept(first) => AllKept(f[n])) /\ (ClaimsOf(first) => ClaimsOf(f[n]))
           bad == {n \in Nat : n \in 0 .. N /\ ~P(n)}
<1>1. SUFFICES ASSUME bad # {} PROVE FALSE
    OBVIOUS
<1>2. PICK n \in bad : \A k \in bad : ~ (<< k, n >> \in OpToRel(<, Nat))
    BY <1>1, NatLessThanWellFounded, WFMin
<1>3. \A k \in bad : ~(k < n)
    BY <1>2 DEF OpToRel
<1>4. f[0] = first /\ \A k \in 1 .. N : f[k] = Serve(f[k - 1], order[k], round, tokens_of[order[k].dst])
    BY ServesStep
<1>5. n # 0
    BY <1>4
<1>6. n \in 1 .. N /\ n - 1 \in 0 .. N /\ n - 1 \in Nat
    BY <1>5
<1>7. P(n - 1)
    BY <1>3, <1>6
<1>8. P(n)
  <2> DEFINE A == f[n - 1]
             r == order[n]
             t == tokens_of[order[n].dst]
  <2>1. ArbiterOK(A) /\ r \in Requests /\ t \in Grant /\ f[n] = Serve(A, r, round, t)
    BY <1>4, <1>6, <1>7
  <2>2. (AllKept(first) => AllKept(A)) /\ (ClaimsOf(first) => ClaimsOf(A))
    BY <1>7
  <2> HIDE DEF A, r, t
  <2>3. /\ ArbiterOK(Serve(A, r, round, t))
        /\ AllKept(A) => AllKept(Serve(A, r, round, t))
        /\ ClaimsOf(A) => ClaimsOf(Serve(A, r, round, t))
    BY <2>1, ServeKeeps
  <2>4. QED
    BY <2>1, <2>2, <2>3
<1>9. QED
    BY <1>8

Now == [ src |-> src_state, dst |-> dst_state, inbound |-> inbound_cons, outbound |-> outbound_cons, gosrc |-> gosrc ]

LEMMA ScheduleIs ==
    ASSUME NEW round, Schedule(round), IsFiniteSet(ruf_q)
    PROVE  \E f, order, tokens_of, N :
              /\ N \in Nat /\ Serves(f, order, N, Now, round, tokens_of)
              /\ \A n \in 1 .. N : order[n] \in ruf_q /\ tokens_of[order[n].dst] \in Grant
              /\ src_state' = f[N].src /\ dst_state' = f[N].dst /\ inbound_cons' = f[N].inbound
              /\ outbound_cons' = f[N].outbound /\ gosrc' = f[N].gosrc /\ ruf_q' = {}
<1>1. PICK order \in Served(ruf_q), tokens_of \in [{r.dst : r \in ruf_q} -> Grant] :
         LET f == CHOOSE f : Serves(f, order, Len(order), Now, round, tokens_of)
         IN  /\ src_state' = f[Len(order)].src /\ dst_state' = f[Len(order)].dst /\ inbound_cons' = f[Len(order)].inbound
             /\ outbound_cons' = f[Len(order)].outbound /\ gosrc' = f[Len(order)].gosrc
    BY DEF Schedule, Serves, Serve, Now
<1> DEFINE N == Len(order)
           f == CHOOSE f : Serves(f, order, N, Now, round, tokens_of)
<1>2. Cardinality(ruf_q) \in Nat
    BY FS_CardinalityType
<1>3. order \in [1 .. Cardinality(ruf_q) -> ruf_q]
    BY DEF Served
<1>4. N \in Nat /\ order \in [1 .. N -> ruf_q]
    BY <1>2, <1>3
<1>5. \E g : Serves(g, order, N, Now, round, tokens_of)
    BY <1>4, ServingExists
<1>6. Serves(f, order, N, Now, round, tokens_of)
    BY <1>5
<1>7. \A n \in 1 .. N : order[n] \in ruf_q /\ tokens_of[order[n].dst] \in Grant
    BY <1>4
<1>8. ruf_q' = {}
    BY DEF Schedule
<1> HIDE DEF f, N
<1>9. QED
    BY <1>1, <1>4, <1>6, <1>7, <1>8 DEF f, N

-----------------------------------------------------------------------------
(* Ruf: steps *)

\* Min of a non-empty set of numbers is one of them.
LEMMA LeastIsOne ==
    ASSUME NEW s \in SUBSET Nat, s # {}
    PROVE  Min(s) \in s
<1>1. PICK i \in s : \A j \in s : ~ (<< j, i >> \in OpToRel(<, Nat))
    BY NatLessThanWellFounded, WFMin
<1>2. \A j \in s : ~(j < i)
    BY <1>1 DEF OpToRel
<1>3. \A j \in s : i <= j
    BY <1>2
<1>4. QED
    BY <1>3 DEF Min

\* The faults grow.
Grown(e) == e \in Seq(FaultKinds) /\ faults' = faults \o e

LEMMA HappenedStays ==
    ASSUME faults \in Seq(FaultKinds), \/ UNCHANGED faults
                                   \/ \E e : Grown(e)
    PROVE  faults' \in Seq(FaultKinds) /\ \A kind \in FaultKinds : Happened(kind) => Happened(kind)'
<1>1. CASE UNCHANGED faults
    BY <1>1 DEF Happened
<1>2. ASSUME NEW e, Grown(e)
      PROVE  faults' \in Seq(FaultKinds) /\ \A kind \in FaultKinds : Happened(kind) => Happened(kind)'
  <2>1. e \in Seq(FaultKinds) /\ faults' = faults \o e
    BY <1>2 DEF Grown
  <2>2. \A i \in DOMAIN faults : i \in DOMAIN (faults \o e) /\ (faults \o e)[i] = faults[i]
    BY <2>1
  <2>3. ASSUME NEW kind \in FaultKinds, Happened(kind) PROVE Happened(kind)'
    <3>1. PICK i \in DOMAIN faults : faults[i] = kind
        BY <2>3 DEF Happened
    <3>2. i \in DOMAIN faults' /\ faults'[i] = kind
        BY <2>1, <2>2, <3>1
    <3>3. QED
        BY <3>2 DEF Happened
  <2>4. faults' \in Seq(FaultKinds)
    BY <2>1
  <2>5. QED
    BY <2>3, <2>4
<1>3. QED
    BY <1>1, <1>2

LEMMA FaultGrows ==
    ASSUME faults \in Seq(FaultKinds), NEW kind \in FaultKinds, Fault(kind)
    PROVE  Grown(<< kind >>) /\ Happened(kind)'
<1>1. faults' = Append(faults, kind)
    BY DEF Fault
<1>2. faults' = faults \o << kind >> /\ Len(faults) + 1 \in DOMAIN faults' /\ faults'[Len(faults) + 1] = kind
    BY <1>1
<1>3. << kind >> \in Seq(FaultKinds)
    OBVIOUS
<1>4. QED
    BY <1>2, <1>3 DEF Grown, Happened

\* A step of a flow: nothing of the arbiter, of the grants or of the requests changes.
LEMMA FlowStepKeeps ==
    ASSUME RufInv, UNCHANGED << arbitervars, gosrc_info, wakeup_evt, flows, list >>,
           RufFlowsTyped', IsFiniteSet(tokens'), \A m \in (net \cup tokens)' : IsPacket(m),
           \/ UNCHANGED faults
           \/ \E e : Grown(e)
    PROVE  RufInv'
<1>1. faults' \in Seq(FaultKinds) /\ \A kind \in FaultKinds : Happened(kind) => Happened(kind)'
    BY HappenedStays DEF RufInv, RufTypes
<1>2. RufTypes'
    BY <1>1 DEF RufInv, RufTypes, ArbiterTyped, arbitervars
<1>3. (\A d \in Host : InUse(gosrc_info[d], wakeup_evt[d]))'
    BY DEF RufInv
<1>4. ASSUME LongGrants
      PROVE  /\ HeldLong' /\ NrtsNamed'
             /\ Kept(outbound_cons, src_state)' /\ Kept(inbound_cons, dst_state)'
             /\ ~Happened("arbiter")' => ClaimsKnown(src_state', dst_state', gosrc_info', gosrc', list')
  <2>1. HeldLong' /\ NrtsNamed'
    BY <1>4 DEF RufInv, HeldLong, NrtsNamed
  <2>2. Kept(outbound_cons, src_state)' /\ Kept(inbound_cons, dst_state)'
    BY <1>4 DEF RufInv, arbitervars, Kept, Busy
  <2>3. "arbiter" \in FaultKinds
    BY DEF FaultKinds
  <2>4. ~Happened("arbiter")' => ClaimsKnown(src_state', dst_state', gosrc_info', gosrc', list')
    BY <1>1, <1>4, <2>3 DEF RufInv, arbitervars
  <2>5. QED
    BY <2>1, <2>2, <2>4
<1>5. QED
    BY <1>2, <1>3, <1>4 DEF RufInv, LongGrants

\* A step of receiver d: what it has of the arbiter, its grant, what is on its way to it
\* and what it has sent change; it claims no more than before.
ReceiverOK(info, wakeup, packets, requests) ==
    /\ info \in Grants /\ (info.src # NoHost => info.round \in Round)
    /\ wakeup \in BOOLEAN /\ packets \in Seq(GoSrcs)
    /\ requests \in Seq(Lists) /\ \A i \in DOMAIN requests : IsFiniteSet(requests[i].list)
    /\ InUse(info, wakeup)
    /\ LongGrants => /\ InfoHolds(info) => info.remain_tokens > 1
                     /\ \A i \in DOMAIN requests : Named(requests[i])

LEMMA ReceiverTyped ==
    ASSUME RufInv, NEW d \in Host
    PROVE  ReceiverOK(gosrc_info[d], wakeup_evt[d], gosrc[d], list[d])
BY DEF RufInv, RufTypes, ArbiterTyped, HeldLong, NrtsNamed, ReceiverOK

LEMMA ReceiverStepKeeps ==
    ASSUME RufInv, NEW d \in Host, NEW info, NEW wakeup, NEW packets, NEW requests,
           UNCHANGED << src_state, dst_state, outbound_cons, inbound_cons, ruf_q, tokens >>,
           \/ UNCHANGED faults
           \/ \E e : Grown(e),
           gosrc_info' = [gosrc_info EXCEPT ![d] = info], wakeup_evt' = [wakeup_evt EXCEPT ![d] = wakeup],
           gosrc' = [gosrc EXCEPT ![d] = packets], list' = [list EXCEPT ![d] = requests],
           ReceiverOK(info, wakeup, packets, requests),
           LongGrants /\ ClaimsOnce(gosrc_info[d], gosrc[d], list[d]) =>
              /\ ClaimsOnce(info, packets, requests)
              /\ \A s \in Host : \A r \in Round :
                    Claims(info, packets, requests, s, r) => Claims(gosrc_info[d], gosrc[d], list[d], s, r),
           flows' \in [Host -> SUBSET Flow], RufFlowsTyped', \A m \in net' : IsPacket(m)
    PROVE  RufInv'
<1>1. /\ gosrc_info \in [Host -> Grants] /\ wakeup_evt \in [Host -> BOOLEAN]
      /\ gosrc \in [Host -> Seq(GoSrcs)] /\ list \in [Host -> Seq(Lists)]
      /\ \A h \in Host : ReceiverOK(gosrc_info[h], wakeup_evt[h], gosrc[h], list[h])
    BY ReceiverTyped DEF RufInv, RufTypes, ArbiterTyped
<1>0. faults' \in Seq(FaultKinds) /\ \A kind \in FaultKinds : Happened(kind) => Happened(kind)'
    BY HappenedStays DEF RufInv, RufTypes
<1>2. /\ gosrc_info'[d] = info /\ wakeup_evt'[d] = wakeup /\ gosrc'[d] = packets /\ list'[d] = requests
      /\ \A e \in Host \ {d} : /\ gosrc_info'[e] = gosrc_info[e] /\ wakeup_evt'[e] = wakeup_evt[e]
                               /\ gosrc'[e] = gosrc[e] /\ list'[e] = list[e]
    BY <1>1
<1>3. \A h \in Host : ReceiverOK(gosrc_info'[h], wakeup_evt'[h], gosrc'[h], list'[h])
  <2>1. ASSUME NEW h \in Host PROVE ReceiverOK(gosrc_info'[h], wakeup_evt'[h], gosrc'[h], list'[h])
    <3>1. CASE h = d
        BY <1>2, <3>1
    <3>2. CASE h # d
        BY <1>1, <1>2, <3>2
    <3>3. QED
        BY <3>1, <3>2
  <2>2. QED
    BY <2>1
<1>4. /\ gosrc_info' \in [Host -> Grants] /\ wakeup_evt' \in [Host -> BOOLEAN]
      /\ gosrc' \in [Host -> Seq(GoSrcs)] /\ list' \in [Host -> Seq(Lists)]
    BY <1>1 DEF ReceiverOK
<1>5. RufTypes'
  <2>1. \A h \in Host : /\ gosrc_info'[h].src # NoHost => gosrc_info'[h].round \in Round
                        /\ \A i \in DOMAIN list'[h] : IsFiniteSet(list'[h][i].list)
    BY <1>3 DEF ReceiverOK
  <2>2. QED
    BY <1>0, <1>4, <2>1 DEF RufInv, RufTypes, ArbiterTyped
<1>6. (\A h \in Host : InUse(gosrc_info[h], wakeup_evt[h]))'
    BY <1>3 DEF ReceiverOK
<1>7. ASSUME LongGrants
      PROVE  /\ HeldLong' /\ NrtsNamed'
             /\ Kept(outbound_cons, src_state)' /\ Kept(inbound_cons, dst_state)'
             /\ ~Happened("arbiter")' => ClaimsKnown(src_state', dst_state', gosrc_info', gosrc', list')
  <2>1. HeldLong' /\ NrtsNamed'
    BY <1>3, <1>7 DEF ReceiverOK, HeldLong, NrtsNamed
  <2>2. Kept(outbound_cons, src_state)' /\ Kept(inbound_cons, dst_state)'
    BY <1>7 DEF RufInv, Kept, Busy
  <2>3. ASSUME ~Happened("arbiter")'
        PROVE  ClaimsKnown(src_state', dst_state', gosrc_info', gosrc', list')
    <3>1. ClaimsKnown(src_state, dst_state, gosrc_info, gosrc, list)
      <4>1. "arbiter" \in FaultKinds
        BY DEF FaultKinds
      <4>2. QED
        BY <1>0, <1>7, <2>3, <4>1 DEF RufInv
    <3>2. ClaimsOnce(gosrc_info[d], gosrc[d], list[d])
        BY <3>1 DEF ClaimsKnown
    <3> DEFINE info2 == gosrc_info'
               packets2 == gosrc'
               lists2 == list'
    <3>3. /\ ClaimsOnce(info2[d], packets2[d], lists2[d])
          /\ \A s \in Host : \A r \in Round :
                Claims(info2[d], packets2[d], lists2[d], s, r) => Claims(gosrc_info[d], gosrc[d], list[d], s, r)
          /\ \A e \in Host \ {d} : info2[e] = gosrc_info[e] /\ packets2[e] = gosrc[e] /\ lists2[e] = list[e]
        BY <1>2, <1>7, <3>2
    <3> HIDE DEF info2, packets2, lists2
    <3>4. ClaimsKnown(src_state, dst_state, info2, packets2, lists2)
        BY <3>1, <3>3, ClaimsShrink
    <3>5. QED
        BY <3>4 DEF info2, packets2, lists2
  <2>4. QED
    BY <2>1, <2>2, <2>3
<1>8. QED
    BY <1>5, <1>6, <1>7 DEF RufInv, LongGrants

\* A step of the arbiter: its states, its connections and what it sends change.
LEMMA ArbiterStepKeeps ==
    ASSUME RufInv, NEW A, ArbiterOK(A), AllKept(Now) => AllKept(A), ClaimsOf(Now) => ClaimsOf(A),
           src_state' = A.src, dst_state' = A.dst, inbound_cons' = A.inbound, outbound_cons' = A.outbound,
           gosrc' = A.gosrc, ruf_q' \in SUBSET Requests, IsFiniteSet(ruf_q'),
           UNCHANGED << hostvars, flowvars, list, faults >>
    PROVE  RufInv'
<1>1. RufTypes'
    BY DEF RufInv, RufTypes, ArbiterTyped, ArbiterOK, hostvars, flowvars, RufFlowsTyped, Now
<1>2. (\A h \in Host : InUse(gosrc_info[h], wakeup_evt[h]))'
    BY DEF RufInv, hostvars
<1>3. ASSUME LongGrants
      PROVE  /\ HeldLong' /\ NrtsNamed'
             /\ Kept(outbound_cons, src_state)' /\ Kept(inbound_cons, dst_state)'
             /\ ~Happened("arbiter")' => ClaimsKnown(src_state', dst_state', gosrc_info', gosrc', list')
  <2>1. HeldLong' /\ NrtsNamed'
    BY <1>3 DEF RufInv, HeldLong, NrtsNamed, hostvars
  <2>2. AllKept(Now)
    BY <1>3 DEF RufInv, AllKept, Now
  <2>3. Kept(outbound_cons', src_state') /\ Kept(inbound_cons', dst_state')
    BY <2>2 DEF AllKept
  <2>4. ASSUME ~Happened("arbiter")'
        PROVE  ClaimsKnown(src_state', dst_state', gosrc_info', gosrc', list')
    <3>1. ClaimsKnown(src_state, dst_state, gosrc_info, gosrc, list)
        BY <1>3, <2>4 DEF RufInv, Happened
    <3>2. ClaimsTyped(gosrc_info, gosrc, list)
        BY <1>3 DEF RufInv, RufTypes, ArbiterTyped, ClaimsTyped, NrtsNamed
    <3>3. ClaimsOf(Now)
        BY <3>1, <3>2 DEF ClaimsOf, Now
    <3>4. ClaimsKnown(A.src, A.dst, gosrc_info, A.gosrc, list)
        BY <3>3 DEF ClaimsOf
    <3>5. QED
        BY <3>4 DEF hostvars
  <2>5. QED
    BY <2>1, <2>3, <2>4 DEF Kept, Busy
<1>4. QED
    BY <1>1, <1>2, <1>3 DEF RufInv, LongGrants

LEMMA EpochKeeps ==
    ASSUME RufInv, Epoch
    PROVE  RufInv'
<1>1. IsFiniteSet(ruf_q) /\ ruf_q \in SUBSET Requests
    BY DEF RufInv, RufTypes
<1>2. PICK round : round = Min(Round \ RoundsUsed)
    OBVIOUS
<1>3. round \in Round /\ Schedule(round)
  <2>1. Round \ RoundsUsed \in SUBSET Nat /\ Round \ RoundsUsed # {}
    BY RoundsAssumed DEF Epoch
  <2>2. Min(Round \ RoundsUsed) \in Round \ RoundsUsed
    BY <2>1, LeastIsOne
  <2>3. QED
    BY <1>2, <2>2 DEF Epoch
<1>4. PICK f, order, tokens_of, N :
              /\ N \in Nat /\ Serves(f, order, N, Now, round, tokens_of)
              /\ \A n \in 1 .. N : order[n] \in ruf_q /\ tokens_of[order[n].dst] \in Grant
              /\ src_state' = f[N].src /\ dst_state' = f[N].dst /\ inbound_cons' = f[N].inbound
              /\ outbound_cons' = f[N].outbound /\ gosrc' = f[N].gosrc /\ ruf_q' = {}
    BY <1>1, <1>3, ScheduleIs
<1>5. ArbiterOK(Now)
    BY DEF RufInv, RufTypes, ArbiterOK, Now
<1>6. /\ ArbiterOK(f[N])
      /\ AllKept(Now) => AllKept(f[N])
      /\ ClaimsOf(Now) => ClaimsOf(f[N])
    BY <1>1, <1>3, <1>4, <1>5, ServingKeeps
<1>7. ruf_q' \in SUBSET Requests /\ IsFiniteSet(ruf_q')
    BY <1>4, FS_EmptySet
<1>8. UNCHANGED << hostvars, flowvars, list, faults >>
    BY DEF Epoch
<1>9. QED
    BY <1>4, <1>6, <1>7, <1>8, ArbiterStepKeeps

-----------------------------------------------------------------------------
(* Ruf: the first state, and the steps of the arbiter *)

LEMMA RufStart ==
    ASSUME RufInit
    PROVE  RufInv
<1>1. /\ src_state = [h \in Host |-> Free] /\ dst_state = [h \in Host |-> Free]
      /\ outbound_cons = [t \in Racks |-> TorLimit] /\ inbound_cons = [t \in Racks |-> TorLimit]
      /\ ruf_q = {} /\ gosrc = [h \in Host |-> <<>>]
      /\ flow = [f \in Flow |-> NewFlow] /\ flows = [h \in Host |-> {}]
      /\ gosrc_info = [h \in Host |-> NoGrant] /\ wakeup_evt = [h \in Host |-> FALSE]
      /\ tokens = {} /\ list = [h \in Host |-> <<>>] /\ net = {} /\ faults = <<>>
    BY DEF RufInit, ArbiterInit
<1>2. NoGrant \in Grants /\ NoGrant.src = NoHost /\ ~InfoHolds(NoGrant)
    BY DEF NoGrant, Grants, InfoHolds
<1>3. \A h \in Host : gosrc_info[h] = NoGrant /\ gosrc[h] = <<>> /\ list[h] = <<>>
    BY <1>1
<1>4. IsFlow(NewFlow)
    BY DEF IsFlow, NewFlow
<1>5. RufTypes
  <2>1. ArbiterTyped(src_state, dst_state, inbound_cons, outbound_cons, gosrc)
    BY <1>1, FreeIsState, RoundsAssumed DEF ArbiterTyped
  <2>2. IsFiniteSet(ruf_q) /\ IsFiniteSet(tokens)
    BY <1>1, FS_EmptySet
  <2>3. RufFlowsTyped
    BY <1>1, <1>4 DEF RufFlowsTyped
  <2>4. \A h \in Host : (\A i \in DOMAIN list[h] : IsFiniteSet(list[h][i].list)) /\ (gosrc_info[h].src # NoHost => gosrc_info[h].round \in Round)
    BY <1>2, <1>3
  <2>5. gosrc_info \in [Host -> Grants] /\ wakeup_evt \in [Host -> BOOLEAN]
        /\ flows \in [Host -> SUBSET Flow] /\ list \in [Host -> Seq(Lists)]
    BY <1>1, <1>2
  <2>6. faults \in Seq(FaultKinds) /\ (\A m \in net \cup tokens : IsPacket(m)) /\ ruf_q \in SUBSET Requests
    BY <1>1
  <2>7. QED
    BY <2>1, <2>2, <2>3, <2>4, <2>5, <2>6 DEF RufTypes
<1>6. \A h \in Host : InUse(gosrc_info[h], wakeup_evt[h])
    BY <1>2, <1>3 DEF InUse
<1>7. HeldLong /\ NrtsNamed
    BY <1>2, <1>3 DEF HeldLong, NrtsNamed
<1>8. Kept(outbound_cons, src_state) /\ Kept(inbound_cons, dst_state)
  <2>1. \A t \in Racks : Busy(src_state, t) = 0 /\ Busy(dst_state, t) = 0
    <3>1. ASSUME NEW t \in Racks
          PROVE  /\ {h \in Host : Tor[h] = t /\ ~src_state[h].state /\ ~src_state[h].local} = {}
                 /\ {h \in Host : Tor[h] = t /\ ~dst_state[h].state /\ ~dst_state[h].local} = {}
        BY <1>1, FreeIsState
    <3>2. QED
        BY <3>1, FS_EmptySet DEF Busy
  <2>2. \A t \in Racks : outbound_cons[t] = TorLimit /\ inbound_cons[t] = TorLimit
    BY <1>1
  <2>3. TorLimit + 0 = TorLimit
    BY RoundsAssumed
  <2>4. ASSUME NEW t \in Racks
        PROVE  outbound_cons[t] + Busy(src_state, t) = TorLimit /\ inbound_cons[t] + Busy(dst_state, t) = TorLimit
    BY <2>1, <2>2, <2>3
  <2>5. QED
    BY <2>4 DEF Kept
<1>9. ClaimsKnown(src_state, dst_state, gosrc_info, gosrc, list)
  <2>1. \A d \in Host : ClaimsOnce(gosrc_info[d], gosrc[d], list[d])
    BY <1>2, <1>3 DEF ClaimsOnce
  <2>2. \A d, s \in Host : \A r \in Round : ~Claims(gosrc_info[d], gosrc[d], list[d], s, r)
    BY <1>2, <1>3 DEF Claims
  <2>3. QED
    BY <2>1, <2>2 DEF ClaimsKnown
<1>10. QED
    BY <1>5, <1>6, <1>7, <1>8, <1>9 DEF RufInv

\* A host whose timeout passes stays busy, and keeps its connection.
LEMMA ExpiresKeepsEnd ==
    ASSUME NEW state \in [Host -> HostStates], NEW cons \in [Racks -> Int], NEW h \in Host, ~state[h].state
    PROVE  LET after == [state EXCEPT ![h].expired = TRUE]
           IN  /\ after \in [Host -> HostStates]
               /\ Kept(cons, state) => Kept(cons, after)
               /\ \A g \in Host \ {h} : after[g] = state[g]
<1> DEFINE new == [state[h] EXCEPT !.expired = TRUE]
<1>1. [state EXCEPT ![h].expired = TRUE] = [state EXCEPT ![h] = new]
    OBVIOUS
<1>2. state[h] \in [state : {FALSE}, expired : BOOLEAN, round : Round, local : BOOLEAN]
    BY FreeIsState DEF HostStates
<1>3. new \in HostStates /\ new.state = state[h].state /\ new.local = state[h].local
    BY <1>2 DEF HostStates
<1>4. Uses(new) = Uses(state[h])
    BY <1>3 DEF Uses
<1> HIDE DEF new
<1>5. [state EXCEPT ![h] = new] \in [Host -> HostStates] /\ \A g \in Host \ {h} : [state EXCEPT ![h] = new][g] = state[g]
    BY <1>3
<1>6. ASSUME Kept(cons, state) PROVE Kept(cons, [state EXCEPT ![h] = new])
  <2>1. ASSUME NEW t \in Racks PROVE cons[t] + Busy([state EXCEPT ![h] = new], t) = TorLimit
    <3>0. t \in Nat
        BY RoundsAssumed DEF Racks
    <3>1. /\ Busy(state, t) \in Nat
          /\ Tor[h] = t => Busy([state EXCEPT ![h] = new], t) = Busy(state, t) - Uses(state[h]) + Uses(new)
          /\ Tor[h] # t => Busy([state EXCEPT ![h] = new], t) = Busy(state, t)
        BY <1>3, <3>0, BusyChanges
    <3>2. Uses(new) \in Int
        BY DEF Uses
    <3>3. Busy([state EXCEPT ![h] = new], t) = Busy(state, t)
        BY <1>4, <3>1, <3>2
    <3>4. QED
        BY <1>6, <3>3 DEF Kept
  <2>2. QED
    BY <2>1 DEF Kept
<1>7. QED
    BY <1>1, <1>5, <1>6

\* A grant that the arbiter is asked about is alive while a receiver claims it.
LEMMA ClaimIsAlive ==
    ASSUME NEW d \in Host, NEW s \in Host, NEW r \in Round, Claims(gosrc_info[d], gosrc[d], list[d], s, r)
    PROVE  Alive(r)
<1>1. s # NoHost
    BY RoundsAssumed
<1>2. QED
    BY <1>1 DEF Claims, Alive, InfoHolds

LEMMA TimelyIs ==
    ASSUME RufInv, NEW late, NEW kind \in FaultKinds, Timely(late, kind)
    PROVE  /\ \/ UNCHANGED faults
              \/ \E e : Grown(e)
           /\ Happened(kind)' \/ late
<1>1. CASE late
    BY <1>1 DEF Timely
<1>2. CASE ~late
  <2>1. Fault(kind)
    BY <1>2 DEF Timely
  <2>2. Grown(<< kind >>) /\ Happened(kind)'
    BY <2>1, FaultGrows DEF RufInv, RufTypes
  <2>3. QED
    BY <2>2
<1>3. QED
    BY <1>1, <1>2

\* A timeout of the arbiter passes.
LEMMA ExpireStepKeeps ==
    ASSUME RufInv, src_state' \in [Host -> HostStates], dst_state' \in [Host -> HostStates],
           Kept(outbound_cons, src_state) => Kept(outbound_cons, src_state'),
           Kept(inbound_cons, dst_state) => Kept(inbound_cons, dst_state'),
           UNCHANGED << outbound_cons, inbound_cons, ruf_q, gosrc, hostvars, flowvars, list >>,
           \/ UNCHANGED faults
           \/ \E e : Grown(e),
           ~Happened("arbiter")' =>
              \A d, s \in Host : \A r \in Round :
                 Claims(gosrc_info[d], gosrc[d], list[d], s, r) /\ Serving(src_state[s], r) /\ Serving(dst_state[d], r) =>
                    Serving(src_state'[s], r) /\ Serving(dst_state'[d], r)
    PROVE  RufInv'
<1>1. faults' \in Seq(FaultKinds) /\ \A kind \in FaultKinds : Happened(kind) => Happened(kind)'
    BY HappenedStays DEF RufInv, RufTypes
<1>2. RufTypes'
    BY <1>1 DEF RufInv, RufTypes, ArbiterTyped, hostvars, flowvars, RufFlowsTyped
<1>3. (\A d \in Host : InUse(gosrc_info[d], wakeup_evt[d]))'
    BY DEF RufInv, hostvars
<1>4. ASSUME LongGrants
      PROVE  /\ HeldLong' /\ NrtsNamed'
             /\ Kept(outbound_cons, src_state)' /\ Kept(inbound_cons, dst_state)'
             /\ ~Happened("arbiter")' => ClaimsKnown(src_state', dst_state', gosrc_info', gosrc', list')
  <2>1. HeldLong' /\ NrtsNamed'
    BY <1>4 DEF RufInv, HeldLong, NrtsNamed, hostvars
  <2>2. Kept(outbound_cons, src_state') /\ Kept(inbound_cons, dst_state')
    BY <1>4 DEF RufInv
  <2>3. Kept(outbound_cons, src_state)' /\ Kept(inbound_cons, dst_state)'
    BY <2>2 DEF Kept, Busy
  <2>4. ASSUME ~Happened("arbiter")'
        PROVE  ClaimsKnown(src_state', dst_state', gosrc_info', gosrc', list')
    <3>1. ClaimsKnown(src_state, dst_state, gosrc_info, gosrc, list)
      <4>1. "arbiter" \in FaultKinds
        BY DEF FaultKinds
      <4>2. QED
        BY <1>1, <1>4, <2>4, <4>1 DEF RufInv
    <3> DEFINE src2 == src_state'
               dst2 == dst_state'
    <3>2. \A d, s \in Host : \A r \in Round :
             Claims(gosrc_info[d], gosrc[d], list[d], s, r) /\ Serving(src_state[s], r) /\ Serving(dst_state[d], r) =>
                Serving(src2[s], r) /\ Serving(dst2[d], r)
        BY <2>4
    <3> HIDE DEF src2, dst2
    <3>3. ClaimsKnown(src2, dst2, gosrc_info, gosrc, list)
        BY <3>1, <3>2, ClaimsStay
    <3>4. QED
        BY <3>3 DEF src2, dst2, hostvars
  <2>5. QED
    BY <2>1, <2>3, <2>4
<1>5. QED
    BY <1>2, <1>3, <1>4 DEF RufInv, LongGrants

LEMMA ArbiterTimeoutKeeps ==
    ASSUME RufInv, NEW h \in Host, ArbiterTimeout(h)
    PROVE  RufInv'
<1>1. UNCHANGED << hostvars, flowvars, list >>
    BY DEF ArbiterTimeout
<1>2. src_state \in [Host -> HostStates] /\ dst_state \in [Host -> HostStates]
      /\ outbound_cons \in [Racks -> Int] /\ inbound_cons \in [Racks -> Int]
    BY DEF RufInv, RufTypes, ArbiterTyped
<1>3. "arbiter" \in FaultKinds
    BY DEF FaultKinds
<1>4. CASE Timely(~Alive(src_state[h].round), "arbiter") /\ SourceExpires(h)
  <2>1. ~src_state[h].state /\ src_state' = [src_state EXCEPT ![h].expired = TRUE]
        /\ UNCHANGED << dst_state, outbound_cons, inbound_cons, ruf_q, gosrc >>
    BY <1>4 DEF SourceExpires
  <2>2. /\ src_state' \in [Host -> HostStates]
        /\ Kept(outbound_cons, src_state) => Kept(outbound_cons, src_state')
        /\ \A g \in Host \ {h} : src_state'[g] = src_state[g]
    BY <1>2, <2>1, ExpiresKeepsEnd
  <2>3. \/ UNCHANGED faults
        \/ \E e : Grown(e)
    BY <1>3, <1>4, TimelyIs
  <2>4. Happened("arbiter")' \/ ~Alive(src_state[h].round)
    BY <1>3, <1>4, TimelyIs
  <2>5. ASSUME ~Happened("arbiter")', NEW d \in Host, NEW s \in Host, NEW r \in Round,
               Claims(gosrc_info[d], gosrc[d], list[d], s, r), Serving(src_state[s], r), Serving(dst_state[d], r)
        PROVE  Serving(src_state'[s], r) /\ Serving(dst_state'[d], r)
    <3>1. Alive(r)
        BY <2>5, ClaimIsAlive
    <3>2. s # h
        BY <2>4, <2>5, <3>1 DEF Serving
    <3>3. QED
        BY <2>1, <2>2, <2>5, <3>2
  <2>6. QED
    BY <1>1, <1>2, <2>1, <2>2, <2>3, <2>5, ExpireStepKeeps
<1>5. CASE Timely(~Alive(dst_state[h].round), "arbiter") /\ ReceiverExpires(h)
  <2>1. ~dst_state[h].state /\ dst_state' = [dst_state EXCEPT ![h].expired = TRUE]
        /\ UNCHANGED << src_state, outbound_cons, inbound_cons, ruf_q, gosrc >>
    BY <1>5 DEF ReceiverExpires
  <2>2. /\ dst_state' \in [Host -> HostStates]
        /\ Kept(inbound_cons, dst_state) => Kept(inbound_cons, dst_state')
        /\ \A g \in Host \ {h} : dst_state'[g] = dst_state[g]
    BY <1>2, <2>1, ExpiresKeepsEnd
  <2>3. \/ UNCHANGED faults
        \/ \E e : Grown(e)
    BY <1>3, <1>5, TimelyIs
  <2>4. Happened("arbiter")' \/ ~Alive(dst_state[h].round)
    BY <1>3, <1>5, TimelyIs
  <2>5. ASSUME ~Happened("arbiter")', NEW d \in Host, NEW s \in Host, NEW r \in Round,
               Claims(gosrc_info[d], gosrc[d], list[d], s, r), Serving(src_state[s], r), Serving(dst_state[d], r)
        PROVE  Serving(src_state'[s], r) /\ Serving(dst_state'[d], r)
    <3>1. Alive(r)
        BY <2>5, ClaimIsAlive
    <3>2. d # h
        BY <2>4, <2>5, <3>1 DEF Serving
    <3>3. QED
        BY <2>1, <2>2, <2>5, <3>2
  <2>6. QED
    BY <1>1, <1>2, <2>1, <2>2, <2>3, <2>5, ExpireStepKeeps
<1>6. QED
    BY <1>4, <1>5 DEF ArbiterTimeout

\* A receiver claims no more when the first of its packets is gone, or the first of its requests.
LEMMA TailsClaimLess ==
    ASSUME NEW info, NEW wakeup, NEW packets, NEW requests, ReceiverOK(info, wakeup, packets, requests)
    PROVE  /\ packets # <<>> => /\ ReceiverOK(info, wakeup, Tail(packets), requests)
                                /\ ClaimsOnce(info, packets, requests) => ClaimsOnce(info, Tail(packets), requests)
                                /\ \A s \in Host : \A r \in Round :
                                      Claims(info, Tail(packets), requests, s, r) => Claims(info, packets, requests, s, r)
           /\ requests # <<>> => /\ ReceiverOK(info, wakeup, packets, Tail(requests))
                                 /\ ClaimsOnce(info, packets, requests) => ClaimsOnce(info, packets, Tail(requests))
                                 /\ \A s \in Host : \A r \in Round :
                                       Claims(info, packets, Tail(requests), s, r) => Claims(info, packets, requests, s, r)
<1>1. packets \in Seq(GoSrcs) /\ requests \in Seq(Lists)
    BY DEF ReceiverOK
<1>2. ASSUME packets # <<>>
      PROVE  /\ ReceiverOK(info, wakeup, Tail(packets), requests)
             /\ ClaimsOnce(info, packets, requests) => ClaimsOnce(info, Tail(packets), requests)
             /\ \A s \in Host : \A r \in Round :
                   Claims(info, Tail(packets), requests, s, r) => Claims(info, packets, requests, s, r)
  <2> DEFINE rest == Tail(packets)
  <2>1. /\ rest \in Seq(GoSrcs) /\ Len(rest) = Len(packets) - 1
        /\ \A i \in DOMAIN rest : i + 1 \in DOMAIN packets /\ rest[i] = packets[i + 1]
    BY <1>1, <1>2, TailIs
  <2> HIDE DEF rest
  <2>2. ReceiverOK(info, wakeup, rest, requests)
    BY <2>1 DEF ReceiverOK
  <2>3. \A s \in Host : \A r \in Round : Claims(info, rest, requests, s, r) => Claims(info, packets, requests, s, r)
    BY <2>1 DEF Claims
  <2>4. ASSUME ClaimsOnce(info, packets, requests) PROVE ClaimsOnce(info, rest, requests)
    <3>1. Len(packets) <= 1 /\ Len(packets) \in Nat /\ Len(packets) # 0
        BY <1>1, <1>2, <2>4 DEF ClaimsOnce
    <3>2. Len(rest) = 0 /\ rest = <<>>
        BY <2>1, <3>1
    <3>3. QED
        BY <2>4, <3>2, <1>2 DEF ClaimsOnce
  <2>5. QED
    BY <2>2, <2>3, <2>4 DEF rest
<1>3. ASSUME requests # <<>>
      PROVE  /\ ReceiverOK(info, wakeup, packets, Tail(requests))
             /\ ClaimsOnce(info, packets, requests) => ClaimsOnce(info, packets, Tail(requests))
             /\ \A s \in Host : \A r \in Round :
                   Claims(info, packets, Tail(requests), s, r) => Claims(info, packets, requests, s, r)
  <2> DEFINE rest == Tail(requests)
  <2>1. /\ rest \in Seq(Lists)
        /\ \A i \in DOMAIN rest : i + 1 \in DOMAIN requests /\ rest[i] = requests[i + 1]
        /\ DOMAIN rest \subseteq Nat
    BY <1>1, <1>3, TailIs
  <2> HIDE DEF rest
  <2>2. ReceiverOK(info, wakeup, packets, rest)
    BY <2>1 DEF ReceiverOK
  <2>3. \A s \in Host : \A r \in Round : Claims(info, packets, rest, s, r) => Claims(info, packets, requests, s, r)
    BY <2>1 DEF Claims
  <2>4. ASSUME ClaimsOnce(info, packets, requests) PROVE ClaimsOnce(info, packets, rest)
    <3>1. ASSUME NEW i \in DOMAIN rest, rest[i].nrts # NoHost
          PROVE  /\ packets = <<>> /\ ~InfoHolds(info)
                 /\ \A j \in DOMAIN rest : rest[j].nrts # NoHost => i = j
      <4>1. i + 1 \in DOMAIN requests /\ requests[i + 1].nrts # NoHost
        BY <2>1, <3>1
      <4>2. \A j \in DOMAIN rest : rest[j].nrts # NoHost => i + 1 = j + 1
        BY <2>1, <2>4, <4>1 DEF ClaimsOnce
      <4>3. QED
        BY <2>1, <2>4, <4>1, <4>2 DEF ClaimsOnce
    <3>2. QED
        BY <2>4, <3>1 DEF ClaimsOnce
  <2>5. QED
    BY <2>2, <2>3, <2>4 DEF rest
<1>4. QED
    BY <1>2, <1>3

LEMMA LoseKeeps ==
    ASSUME RufInv, NEW kind \in Faults, Lose(kind)
    PROVE  RufInv'
<1>1. kind \in FaultKinds
    BY RufAssumption
<1>2. Grown(<< kind >>)
    BY <1>1, FaultGrows DEF Lose, RufInv, RufTypes
<1>3. UNCHANGED << src_state, dst_state, outbound_cons, inbound_cons, ruf_q, hostvars, flow, flows, tokens >>
    BY DEF Lose
<1>4. /\ RufFlowsTyped /\ IsFiniteSet(tokens) /\ (\A m \in net \cup tokens : IsPacket(m))
      /\ flows \in [Host -> SUBSET Flow]
      /\ gosrc_info \in [Host -> Grants] /\ wakeup_evt \in [Host -> BOOLEAN]
      /\ gosrc \in [Host -> Seq(GoSrcs)] /\ list \in [Host -> Seq(Lists)]
    BY DEF RufInv, RufTypes, ArbiterTyped
<1>5. RufFlowsTyped' /\ IsFiniteSet(tokens')
    BY <1>3, <1>4 DEF RufFlowsTyped
<1>6. ASSUME NEW m \in net, net' = net \ {m}, UNCHANGED << list, gosrc >>
      PROVE  RufInv'
  <2>1. \A p \in (net \cup tokens)' : IsPacket(p)
    BY <1>3, <1>4, <1>6
  <2>2. QED
    BY <1>2, <1>3, <1>5, <1>6, <2>1, FlowStepKeeps DEF arbitervars, hostvars
<1>7. ASSUME NEW d \in Host, list[d] # <<>>, list' = [list EXCEPT ![d] = Tail(@)], UNCHANGED << net, gosrc >>
      PROVE  RufInv'
  <2>1. ReceiverOK(gosrc_info[d], wakeup_evt[d], gosrc[d], list[d])
    BY ReceiverTyped
  <2>2. /\ ReceiverOK(gosrc_info[d], wakeup_evt[d], gosrc[d], Tail(list[d]))
        /\ ClaimsOnce(gosrc_info[d], gosrc[d], list[d]) => ClaimsOnce(gosrc_info[d], gosrc[d], Tail(list[d]))
        /\ \A s \in Host : \A r \in Round :
              Claims(gosrc_info[d], gosrc[d], Tail(list[d]), s, r) => Claims(gosrc_info[d], gosrc[d], list[d], s, r)
    BY <1>7, <2>1, TailsClaimLess
  <2>3. /\ gosrc_info' = [gosrc_info EXCEPT ![d] = gosrc_info[d]] /\ wakeup_evt' = [wakeup_evt EXCEPT ![d] = wakeup_evt[d]]
        /\ gosrc' = [gosrc EXCEPT ![d] = gosrc[d]] /\ list' = [list EXCEPT ![d] = Tail(list[d])]
    BY <1>3, <1>4, <1>7 DEF hostvars
  <2>4. flows' \in [Host -> SUBSET Flow] /\ \A m \in net' : IsPacket(m)
    BY <1>3, <1>4, <1>7
  <2>5. QED
    BY <1>2, <1>3, <1>5, <2>2, <2>3, <2>4, ReceiverStepKeeps
<1>8. ASSUME NEW d \in Host, gosrc[d] # <<>>, gosrc' = [gosrc EXCEPT ![d] = Tail(@)], UNCHANGED << net, list >>
      PROVE  RufInv'
  <2>1. ReceiverOK(gosrc_info[d], wakeup_evt[d], gosrc[d], list[d])
    BY ReceiverTyped
  <2>2. /\ ReceiverOK(gosrc_info[d], wakeup_evt[d], Tail(gosrc[d]), list[d])
        /\ ClaimsOnce(gosrc_info[d], gosrc[d], list[d]) => ClaimsOnce(gosrc_info[d], Tail(gosrc[d]), list[d])
        /\ \A s \in Host : \A r \in Round :
              Claims(gosrc_info[d], Tail(gosrc[d]), list[d], s, r) => Claims(gosrc_info[d], gosrc[d], list[d], s, r)
    BY <1>8, <2>1, TailsClaimLess
  <2>3. /\ gosrc_info' = [gosrc_info EXCEPT ![d] = gosrc_info[d]] /\ wakeup_evt' = [wakeup_evt EXCEPT ![d] = wakeup_evt[d]]
        /\ gosrc' = [gosrc EXCEPT ![d] = Tail(gosrc[d])] /\ list' = [list EXCEPT ![d] = list[d]]
    BY <1>3, <1>4, <1>8 DEF hostvars
  <2>4. flows' \in [Host -> SUBSET Flow] /\ \A m \in net' : IsPacket(m)
    BY <1>3, <1>4, <1>8
  <2>5. QED
    BY <1>2, <1>3, <1>5, <2>2, <2>3, <2>4, ReceiverStepKeeps
<1>9. QED
    BY <1>6, <1>7, <1>8 DEF Lose

\* A host is returned in its round: it gives its connection back.
LEMMA ReturnedKeepsEnd ==
    ASSUME NEW state \in [Host -> HostStates], NEW cons \in [Racks -> Int], NEW h \in Host
    PROVE  /\ [state EXCEPT ![h] = Free] \in [Host -> HostStates]
           /\ [cons EXCEPT ![Tor[h]] = @ + Back(state[h])] \in [Racks -> Int]
           /\ state[h].round \in Round /\ Kept(cons, state) =>
                 Kept([cons EXCEPT ![Tor[h]] = @ + Back(state[h])], [state EXCEPT ![h] = Free])
<1>1. Tor[h] \in Racks
    BY DEF Racks
<1>2. Back(state[h]) \in Int
    BY DEF Back
<1>3. Free \in HostStates /\ Uses(Free) = 0
    BY FreeIsState DEF Uses
<1>4. ASSUME state[h].round \in Round, Kept(cons, state)
      PROVE  Kept([cons EXCEPT ![Tor[h]] = @ + Back(state[h])], [state EXCEPT ![h] = Free])
  <2>1. ~state[h].state
    BY <1>4, ExpiredIsBusy, RoundsAssumed
  <2>2. Back(state[h]) = Uses(state[h]) - Uses(Free)
    BY <1>3, <2>1 DEF Uses, Back
  <2>3. PICK n : n = Back(state[h])
    OBVIOUS
  <2>4. n \in Int /\ n = Uses(state[h]) - Uses(Free)
    BY <1>2, <2>2, <2>3
  <2>5. Kept([cons EXCEPT ![Tor[h]] = @ + n], [state EXCEPT ![h] = Free])
    BY <1>3, <1>4, <2>4, KeptByChange
  <2>6. QED
    BY <2>3, <2>5
<1>5. QED
    BY <1>1, <1>2, <1>3, <1>4

LEMMA ArbiterReceivesKeeps ==
    ASSUME RufInv, NEW d \in Host, ArbiterReceives(d)
    PROVE  RufInv'
<1> DEFINE m        == Head(list[d])
           source   == m.nrts # NoHost /\ Returns(src_state[m.nrts], m)
           receiver == m.nrts # NoHost /\ Returns(dst_state[d], m)
<1>1. /\ src_state \in [Host -> HostStates] /\ dst_state \in [Host -> HostStates]
      /\ outbound_cons \in [Racks -> Int] /\ inbound_cons \in [Racks -> Int]
      /\ gosrc \in [Host -> Seq(GoSrcs)] /\ list \in [Host -> Seq(Lists)]
      /\ ruf_q \in SUBSET Requests /\ IsFiniteSet(ruf_q)
      /\ gosrc_info \in [Host -> Grants] /\ wakeup_evt \in [Host -> BOOLEAN]
    BY DEF RufInv, RufTypes, ArbiterTyped
<1>2. list[d] # <<>> /\ list' = [list EXCEPT ![d] = Tail(list[d])]
      /\ UNCHANGED << hostvars, flowvars, faults, gosrc >>
    BY <1>1 DEF ArbiterReceives, ReceiveListSrcs
<1>3. /\ src_state'     = IF source THEN [src_state EXCEPT ![m.nrts] = Free] ELSE src_state
      /\ outbound_cons' = IF source THEN [outbound_cons EXCEPT ![Tor[m.nrts]] = @ + Back(src_state[m.nrts])]
                          ELSE outbound_cons
      /\ dst_state'     = IF receiver THEN [dst_state EXCEPT ![d] = Free] ELSE dst_state
      /\ inbound_cons'  = IF receiver THEN [inbound_cons EXCEPT ![Tor[d]] = @ + Back(dst_state[d])]
                          ELSE inbound_cons
      /\ ruf_q' = ruf_q \/ ruf_q' = ruf_q \cup {[ dst |-> d, src |-> l[1], size |-> l[2] ] : l \in m.list}
    BY DEF ArbiterReceives, ReceiveListSrcs
<1>4. list[d] \in Seq(Lists) /\ 1 \in DOMAIN list[d] /\ m = list[d][1] /\ m \in Lists
    BY <1>1, <1>2, TailIs
<1>5. ReceiverOK(gosrc_info[d], wakeup_evt[d], gosrc[d], list[d])
    BY ReceiverTyped
<1>6. IsFiniteSet(m.list) /\ (LongGrants => Named(m))
    BY <1>4, <1>5 DEF ReceiverOK
<1>7. m.nrts # NoHost => m.nrts \in Host
    BY <1>4 DEF Lists
<1>8. m.list \in SUBSET (Host \X Int)
    BY <1>4 DEF Lists
<1> HIDE DEF m
<1>9. ruf_q' \in SUBSET Requests /\ IsFiniteSet(ruf_q')
  <2> DEFINE new == {[ dst |-> d, src |-> l[1], size |-> l[2] ] : l \in m.list}
  <2>1. IsFiniteSet(new)
    <3> DEFINE request == [l \in m.list |-> [ dst |-> d, src |-> l[1], size |-> l[2] ]]
    <3>1. request = [l \in m.list |-> request[l]] /\ new = {request[l] : l \in m.list}
        OBVIOUS
    <3> HIDE DEF new, request
    <3>2. QED
        BY <1>6, <3>1, ImageIsFinite
  <2>2. new \in SUBSET Requests
    BY <1>8 DEF Requests
  <2> HIDE DEF new
  <2>3. IsFiniteSet(ruf_q \cup new)
    BY <1>1, <2>1, FS_Union
  <2>4. ruf_q' = ruf_q \/ ruf_q' = ruf_q \cup new
    BY <1>3 DEF new
  <2>5. QED
    BY <1>1, <2>2, <2>3, <2>4
<1>10. /\ src_state' \in [Host -> HostStates] /\ outbound_cons' \in [Racks -> Int]
       /\ LongGrants /\ Kept(outbound_cons, src_state) => Kept(outbound_cons', src_state')
  <2>1. CASE ~source
    BY <1>1, <1>3, <2>1
  <2>2. CASE source
    <3> DEFINE h == m.nrts
    <3>1. h \in Host /\ src_state[h].round = m.round /\ (LongGrants => m.round \in Round)
        BY <1>6, <1>7, <2>2 DEF Returns, Named
    <3>2. /\ src_state' = [src_state EXCEPT ![h] = Free]
          /\ outbound_cons' = [outbound_cons EXCEPT ![Tor[h]] = @ + Back(src_state[h])]
        BY <1>3, <2>2
    <3> HIDE DEF h
    <3>3. /\ [src_state EXCEPT ![h] = Free] \in [Host -> HostStates]
          /\ [outbound_cons EXCEPT ![Tor[h]] = @ + Back(src_state[h])] \in [Racks -> Int]
          /\ src_state[h].round \in Round /\ Kept(outbound_cons, src_state) =>
                Kept([outbound_cons EXCEPT ![Tor[h]] = @ + Back(src_state[h])], [src_state EXCEPT ![h] = Free])
        BY <1>1, <3>1, ReturnedKeepsEnd
    <3>4. QED
        BY <3>1, <3>2, <3>3
  <2>3. QED
    BY <2>1, <2>2
<1>11. /\ dst_state' \in [Host -> HostStates] /\ inbound_cons' \in [Racks -> Int]
       /\ LongGrants /\ Kept(inbound_cons, dst_state) => Kept(inbound_cons', dst_state')
  <2>1. CASE ~receiver
    BY <1>1, <1>3, <2>1
  <2>2. CASE receiver
    <3>1. dst_state[d].round = m.round /\ (LongGrants => m.round \in Round)
        BY <1>6, <2>2 DEF Returns, Named
    <3>2. /\ dst_state' = [dst_state EXCEPT ![d] = Free]
          /\ inbound_cons' = [inbound_cons EXCEPT ![Tor[d]] = @ + Back(dst_state[d])]
        BY <1>3, <2>2
    <3>3. /\ [dst_state EXCEPT ![d] = Free] \in [Host -> HostStates]
          /\ [inbound_cons EXCEPT ![Tor[d]] = @ + Back(dst_state[d])] \in [Racks -> Int]
          /\ dst_state[d].round \in Round /\ Kept(inbound_cons, dst_state) =>
                Kept([inbound_cons EXCEPT ![Tor[d]] = @ + Back(dst_state[d])], [dst_state EXCEPT ![d] = Free])
        BY <1>1, ReturnedKeepsEnd
    <3>4. QED
        BY <3>1, <3>2, <3>3
  <2>3. QED
    BY <2>1, <2>2
<1>12. /\ ReceiverOK(gosrc_info[d], wakeup_evt[d], gosrc[d], Tail(list[d]))
       /\ ClaimsOnce(gosrc_info[d], gosrc[d], list[d]) => ClaimsOnce(gosrc_info[d], gosrc[d], Tail(list[d]))
       /\ \A s \in Host : \A r \in Round :
             Claims(gosrc_info[d], gosrc[d], Tail(list[d]), s, r) => Claims(gosrc_info[d], gosrc[d], list[d], s, r)
    BY <1>2, <1>5, TailsClaimLess
<1>13. list'[d] = Tail(list[d]) /\ (\A e \in Host \ {d} : list'[e] = list[e]) /\ list' \in [Host -> Seq(Lists)]
    BY <1>1, <1>2
<1>14. \A h \in Host : ReceiverOK(gosrc_info[h], wakeup_evt[h], gosrc[h], list'[h])
  <2>1. ASSUME NEW h \in Host, h # d PROVE ReceiverOK(gosrc_info[h], wakeup_evt[h], gosrc[h], list'[h])
    BY <1>13, <2>1, ReceiverTyped
  <2>2. QED
    BY <1>12, <1>13, <2>1
<1>15. RufTypes'
  <2>1. \A h \in Host : \A i \in DOMAIN list'[h] : IsFiniteSet(list'[h][i].list)
    BY <1>14 DEF ReceiverOK
  <2>2. QED
    BY <1>2, <1>9, <1>10, <1>11, <1>13, <2>1 DEF RufInv, RufTypes, ArbiterTyped, hostvars, flowvars, RufFlowsTyped
<1>16. (\A h \in Host : InUse(gosrc_info[h], wakeup_evt[h]))'
    BY <1>2 DEF RufInv, hostvars
<1>17. ASSUME LongGrants, ClaimsKnown(src_state, dst_state, gosrc_info, gosrc, list)
       PROVE  ClaimsKnown(src_state', dst_state', gosrc_info, gosrc, list')
  <2> DEFINE lists2 == list'
             src2 == src_state'
             dst2 == dst_state'
  <2>1. ClaimsOnce(gosrc_info[d], gosrc[d], list[d])
    BY <1>17 DEF ClaimsKnown
  <2>2. /\ \A e \in Host \ {d} : lists2[e] = list[e]
        /\ ClaimsOnce(gosrc_info[d], gosrc[d], lists2[d])
        /\ \A s \in Host : \A r \in Round :
              Claims(gosrc_info[d], gosrc[d], lists2[d], s, r) => Claims(gosrc_info[d], gosrc[d], list[d], s, r)
    BY <1>12, <1>13, <2>1
  <2> HIDE DEF lists2
  <2>3. ClaimsKnown(src_state, dst_state, gosrc_info, gosrc, lists2)
    BY <1>17, <2>2, ClaimsShrink
  <2>4. ASSUME NEW e \in Host, NEW t \in Host, NEW r \in Round, Claims(gosrc_info[e], gosrc[e], lists2[e], t, r),
               m.nrts # NoHost
        PROVE  e # d /\ t # m.nrts
    <3>1. Claims(gosrc_info[d], gosrc[d], list[d], m.nrts, m.round) /\ m.nrts \in Host /\ m.round \in Round
        BY <1>4, <1>6, <1>7, <1>17, <2>4 DEF Claims, Named
    <3>2. gosrc[d] = <<>> /\ ~InfoHolds(gosrc_info[d]) /\ \A j \in DOMAIN list[d] : list[d][j].nrts # NoHost => 1 = j
        BY <1>4, <2>1, <2>4 DEF ClaimsOnce
    <3>3. \A i \in DOMAIN lists2[d] : i + 1 \in DOMAIN list[d] /\ lists2[d][i] = list[d][i + 1] /\ i # 0 /\ i \in Nat
        BY <1>2, <1>4, <1>13, TailIs DEF lists2
    <3>4. \A i \in DOMAIN lists2[d] : lists2[d][i].nrts = NoHost
        BY <3>2, <3>3
    <3>5. \A s \in Host : \A q \in Round : ~Claims(gosrc_info[d], gosrc[d], lists2[d], s, q)
        BY <3>2, <3>4, RoundsAssumed DEF Claims
    <3>6. e # d
        BY <2>4, <3>5
    <3>7. Claims(gosrc_info[e], gosrc[e], list[e], t, r)
        BY <2>2, <2>4, <3>6
    <3>8. t # m.nrts
        BY <1>17, <3>1, <3>6, <3>7 DEF ClaimsKnown
    <3>9. QED
        BY <3>6, <3>8
  <2>5. ASSUME NEW e \in Host, NEW t \in Host, NEW r \in Round, Claims(gosrc_info[e], gosrc[e], lists2[e], t, r)
        PROVE  src2[t] = src_state[t] /\ dst2[e] = dst_state[e]
    <3>1. m.nrts # NoHost => e # d /\ t # m.nrts
        BY <2>4, <2>5
    <3>2. src2[t] = src_state[t]
        BY <1>1, <1>3, <1>7, <3>1
    <3>3. dst2[e] = dst_state[e]
        BY <1>1, <1>3, <3>1
    <3>4. QED
        BY <3>2, <3>3
  <2> HIDE DEF src2, dst2
  <2>6. \A e, t \in Host : \A r \in Round :
           Claims(gosrc_info[e], gosrc[e], lists2[e], t, r) /\ Serving(src_state[t], r) /\ Serving(dst_state[e], r) =>
              Serving(src2[t], r) /\ Serving(dst2[e], r)
    BY <2>5
  <2>7. ClaimsKnown(src2, dst2, gosrc_info, gosrc, lists2)
    BY <2>3, <2>6, ClaimsStay
  <2>8. QED
    BY <2>7 DEF src2, dst2, lists2
<1>18. ASSUME LongGrants
       PROVE  /\ HeldLong' /\ NrtsNamed'
              /\ Kept(outbound_cons, src_state)' /\ Kept(inbound_cons, dst_state)'
              /\ ~Happened("arbiter")' => ClaimsKnown(src_state', dst_state', gosrc_info', gosrc', list')
  <2>1. HeldLong'
    BY <1>2, <1>18 DEF RufInv, HeldLong, hostvars
  <2>2. NrtsNamed'
    BY <1>14, <1>18 DEF ReceiverOK, NrtsNamed
  <2>3. Kept(outbound_cons', src_state') /\ Kept(inbound_cons', dst_state')
    BY <1>10, <1>11, <1>18 DEF RufInv
  <2>4. ~Happened("arbiter")' => ClaimsKnown(src_state', dst_state', gosrc_info', gosrc', list')
    BY <1>2, <1>17, <1>18 DEF RufInv, Happened, hostvars
  <2>5. QED
    BY <2>1, <2>2, <2>3, <2>4 DEF Kept, Busy
<1>19. QED
    BY <1>15, <1>16, <1>18 DEF RufInv, LongGrants

-----------------------------------------------------------------------------
(* Ruf: the flows *)

LEMMA FlowFields ==
    ASSUME NEW F, IsFlow(F), NEW v
    PROVE  /\ IsFlow([F EXCEPT !.started = v]) /\ IsFlow([F EXCEPT !.rts_received = v])
           /\ IsFlow([F EXCEPT !.packets_received = v]) /\ IsFlow([F EXCEPT !.redundancy = v])
           /\ IsFlow([F EXCEPT !.window_old = v]) /\ IsFlow([F EXCEPT !.last_token_data_seq_num_sent = v])
           /\ IsFlow([F EXCEPT !.finished_at_receiver = v]) /\ IsFlow([F EXCEPT !.finished = v])
BY DEF IsFlow

LEMMA FlowCounters ==
    ASSUME NEW F, IsFlow(F), NEW n \in Int
    PROVE  /\ IsFlow([F EXCEPT !.received_count = n]) /\ IsFlow([F EXCEPT !.token_count = n])
           /\ IsFlow([F EXCEPT !.largest_token_seq_received = n])
BY DEF IsFlow

LEMMA InitTokenIs ==
    ASSUME NEW f \in Flow
    PROVE  InitToken(f) \in Nat /\ Size[f] \in Nat \ {0} /\ Src[f] \in Host /\ Dst[f] \in Host
BY RufAssumption DEF InitToken

LEMMA ShortFlowIs ==
    ASSUME NEW f \in Flow, NEW F, IsFlow(F)
    PROVE  IsFlow(ShortFlow(F, f))
<1> DEFINE A == [F EXCEPT !.rts_received = TRUE]
           B == [A EXCEPT !.token_count = InitToken(f)]
           C == [B EXCEPT !.last_token_data_seq_num_sent = InitToken(f) - 1]
           D == [C EXCEPT !.redundancy = "waiting"]
<1>1. InitToken(f) \in Int
    BY InitTokenIs
<1>2. ShortFlow(F, f) = D
    BY DEF ShortFlow
<1>3. IsFlow(A)
    BY FlowFields
<1> HIDE DEF A
<1>4. IsFlow(B)
    BY <1>1, <1>3, FlowCounters
<1> HIDE DEF B
<1>5. IsFlow(C)
    BY <1>4, FlowFields
<1> HIDE DEF C
<1>6. IsFlow(D)
    BY <1>5, FlowFields
<1>7. QED
    BY <1>2, <1>6

LEMMA WithDataIs ==
    ASSUME NEW F, IsFlow(F), NEW m, m.seq \in Int
    PROVE  IsFlow(WithData(F, m))
<1> DEFINE packets == F.packets_received \cup {m.data}
           count == IF m.data \in F.packets_received THEN F.received_count ELSE F.received_count + 1
           largest == Larger(F.largest_token_seq_received, m.seq)
           A == [F EXCEPT !.packets_received = packets]
           B == [A EXCEPT !.received_count = count]
           C == [B EXCEPT !.largest_token_seq_received = largest]
<1>1. count \in Int /\ largest \in Int
    BY DEF IsFlow, Larger
<1>2. WithData(F, m) = C
    BY DEF WithData
<1> HIDE DEF packets, count, largest
<1>3. IsFlow(A)
    BY FlowFields
<1> HIDE DEF A
<1>4. IsFlow(B)
    BY <1>1, <1>3, FlowCounters
<1> HIDE DEF B
<1>5. IsFlow(C)
    BY <1>1, <1>4, FlowCounters
<1>6. QED
    BY <1>2, <1>5

LEMMA TakenIs ==
    ASSUME NEW F, IsFlow(F)
    PROVE  IsFlow(Taken(F))
<1> DEFINE again == IF F.redundancy = "met" THEN [F EXCEPT !.redundancy = "none"] ELSE F
           n == F.token_count - TokenWindow
<1>1. n \in Int
    BY RufAssumption DEF IsFlow
<1>2. IsFlow(again)
    BY FlowFields
<1>3. Taken(F) = again \/ Taken(F) = [again EXCEPT !.largest_token_seq_received = n]
    BY DEF Taken
<1> HIDE DEF again, n
<1>4. IsFlow([again EXCEPT !.largest_token_seq_received = n])
    BY <1>1, <1>2, FlowCounters
<1>5. QED
    BY <1>2, <1>3, <1>4

LEMMA WithTokenIs ==
    ASSUME NEW F, IsFlow(F), NEW f \in Flow
    PROVE  IsFlow(WithToken(F, f))
<1> DEFINE next == NextToken(F, f)
           n == F.token_count + 1
           A == [F EXCEPT !.token_count = n]
           B == [A EXCEPT !.last_token_data_seq_num_sent = next]
           C == [B EXCEPT !.window_old = FALSE]
           redundancy == IF next >= NextToken(C, f) THEN "waiting" ELSE C.redundancy
           D == [C EXCEPT !.redundancy = redundancy]
<1>1. n \in Int
    BY DEF IsFlow
<1>2. [F EXCEPT !.token_count = @ + 1, !.last_token_data_seq_num_sent = next, !.window_old = FALSE] = C
    OBVIOUS
<1>3. WithToken(F, f) = D
    BY <1>2 DEF WithToken
<1> HIDE DEF next, n, redundancy
<1>4. IsFlow(A)
    BY <1>1, FlowCounters
<1> HIDE DEF A
<1>5. IsFlow(B)
    BY <1>4, FlowFields
<1> HIDE DEF B
<1>6. IsFlow(C)
    BY <1>5, FlowFields
<1> HIDE DEF C
<1>7. IsFlow(D)
    BY <1>6, FlowFields
<1>8. QED
    BY <1>3, <1>7

\* One flow changes.
LEMMA OneFlowChanges ==
    ASSUME RufFlowsTyped, NEW f \in Flow, NEW F, IsFlow(F), flow' = [flow EXCEPT ![f] = F]
    PROVE  RufFlowsTyped'
<1>1. flow' = [g \in Flow |-> flow'[g]]
    BY DEF RufFlowsTyped
<1>2. \A g \in Flow : flow'[g] = IF g = f THEN F ELSE flow[g]
    BY DEF RufFlowsTyped
<1>3. \A g \in Flow : IsFlow(flow'[g])
    BY <1>2 DEF RufFlowsTyped
<1>4. QED
    BY <1>1, <1>3 DEF RufFlowsTyped, IsFlow

LEMMA NeedIsNumber ==
    ASSUME NEW F, IsFlow(F), NEW f \in Flow
    PROVE  Need(F, f) \in Int /\ Gap(F) \in Int
BY InitTokenIs DEF IsFlow, Need, Remaining, Gap

-----------------------------------------------------------------------------
(* Ruf: steps of the flows *)

LEMMA FlowsAreTyped ==
    ASSUME RufInv
    PROVE  /\ RufFlowsTyped /\ (\A f \in Flow : IsFlow(flow[f])) /\ IsFiniteSet(tokens)
           /\ (\A m \in net \cup tokens : IsPacket(m)) /\ faults \in Seq(FaultKinds)
           /\ flows \in [Host -> SUBSET Flow]
BY DEF RufInv, RufTypes, RufFlowsTyped

LEMMA PacketIs ==
    ASSUME NEW type, NEW f \in Flow, NEW n \in Int, NEW data
    PROVE  IsPacket(Packet(type, f, n, data))
BY DEF IsPacket, Packet

LEMMA StartRufFlowKeeps ==
    ASSUME RufInv, NEW f \in Flow, StartRufFlow(f)
    PROVE  RufInv'
<1> DEFINE n == InitToken(f)
           packet == [i \in 0 .. n - 1 |-> Packet("init", f, i, i)]
           new == {packet[i] : i \in 0 .. n - 1}
           F == [flow[f] EXCEPT !.started = TRUE]
<1>1. n \in Nat
    BY InitTokenIs
<1>2. tokens' = tokens \cup new /\ net' = net \cup {Packet("rts", f, 0, 0)} /\ flow' = [flow EXCEPT ![f] = F]
      /\ UNCHANGED << arbitervars, hostvars, flows, list, faults >>
    BY DEF StartRufFlow
<1>3. RufFlowsTyped'
    BY <1>2, FlowsAreTyped, FlowFields, OneFlowChanges
<1>4. \A m \in new : IsPacket(m)
    BY <1>1, PacketIs
<1>5. IsPacket(Packet("rts", f, 0, 0))
    BY PacketIs
<1>6. IsFiniteSet(0 .. n - 1)
    BY <1>1, FS_Interval
<1>7. packet = [i \in 0 .. n - 1 |-> packet[i]]
    OBVIOUS
<1> HIDE DEF packet, n
<1>8. IsFiniteSet(new)
    BY <1>6, <1>7, ImageIsFinite
<1> HIDE DEF new, F
<1>9. IsFiniteSet(tokens')
    BY <1>2, <1>8, FlowsAreTyped, FS_Union
<1>10. \A m \in (net \cup tokens)' : IsPacket(m)
    BY <1>2, <1>4, <1>5, FlowsAreTyped
<1>11. QED
    BY <1>2, <1>3, <1>9, <1>10, FlowStepKeeps DEF hostvars

LEMMA SenderTurnKeeps ==
    ASSUME RufInv, NEW s, SenderTurn(s)
    PROVE  RufInv'
<1> DEFINE mine == {t \in tokens : Src[t.flow] = s}
<1>1. PICK old \in SUBSET {t \in mine : t.type = "token"} :
         /\ faults' = faults \o [i \in 1 .. Cardinality(old) |-> "expired"]
         /\ \/ tokens' = tokens \ mine /\ UNCHANGED net
            \/ \E t \in mine \ old :
                  /\ tokens' = (tokens \ old) \ {t}
                  /\ net' = net \cup {Packet("data", t.flow, t.seq, t.data)}
    BY DEF SenderTurn
<1>2. UNCHANGED << arbitervars, hostvars, flow, flows, list >>
    BY DEF SenderTurn
<1>3. IsFiniteSet(old) /\ IsFiniteSet(tokens') /\ tokens' \subseteq tokens
    BY <1>1, FlowsAreTyped, FS_Subset
<1>4. Cardinality(old) \in Nat
    BY <1>3, FS_CardinalityType
<1>5. "expired" \in FaultKinds
    BY DEF FaultKinds
<1>6. [i \in 1 .. Cardinality(old) |-> "expired"] \in Seq(FaultKinds)
    BY <1>4, <1>5
<1>7. \E e : Grown(e)
    BY <1>1, <1>6 DEF Grown
<1>8. \A m \in (net \cup tokens)' : IsPacket(m)
  <2>1. \A t \in tokens : t.flow \in Flow /\ t.seq \in Int
    BY FlowsAreTyped DEF IsPacket
  <2>2. \A t \in tokens : IsPacket(Packet("data", t.flow, t.seq, t.data))
    BY <2>1, PacketIs
  <2>3. QED
    BY <1>1, <1>3, <2>2, FlowsAreTyped
<1>9. RufFlowsTyped'
    BY <1>2, FlowsAreTyped DEF RufFlowsTyped
<1>10. QED
    BY <1>2, <1>3, <1>7, <1>8, <1>9, FlowStepKeeps DEF hostvars

LEMMA ReceiveTokenKeeps ==
    ASSUME RufInv, NEW m \in net, ReceiveToken(m)
    PROVE  RufInv'
<1>1. net' = net \ {m} /\ (tokens' = tokens \/ tokens' = tokens \cup {m})
      /\ UNCHANGED << arbitervars, hostvars, flow, flows, list, faults >>
    BY DEF ReceiveToken
<1>2. IsFiniteSet(tokens \cup {m})
    BY FlowsAreTyped, FS_AddElement
<1>3. IsFiniteSet(tokens') /\ \A p \in (net \cup tokens)' : IsPacket(p)
    BY <1>1, <1>2, FlowsAreTyped
<1>4. RufFlowsTyped'
    BY <1>1, FlowsAreTyped DEF RufFlowsTyped
<1>5. QED
    BY <1>1, <1>3, <1>4, FlowStepKeeps DEF hostvars

LEMMA ReceiveAckKeeps ==
    ASSUME RufInv, NEW m \in net, ReceiveAck(m)
    PROVE  RufInv'
<1> DEFINE f == m.flow
           A == [flow[f] EXCEPT !.packets_received = {}]
           F == [A EXCEPT !.finished = TRUE]
<1>1. f \in Flow
    BY FlowsAreTyped DEF IsPacket
<1>2. /\ net' = net \ {m} /\ tokens' \subseteq tokens
      /\ flow' = IF flow[f].finished THEN flow ELSE [flow EXCEPT ![f].packets_received = {}, ![f].finished = TRUE]
      /\ UNCHANGED << arbitervars, hostvars, flows, list, faults >>
    BY DEF ReceiveAck
<1>3. [flow EXCEPT ![f].packets_received = {}, ![f].finished = TRUE] = [flow EXCEPT ![f] = F]
    BY <1>1, FlowsAreTyped DEF RufFlowsTyped
<1>4. IsFlow(A)
    BY <1>1, FlowsAreTyped, FlowFields
<1> HIDE DEF A, f
<1>5. IsFlow(F)
    BY <1>4, FlowFields
<1> HIDE DEF F
<1>6. RufFlowsTyped'
  <2>1. CASE UNCHANGED flow
    BY <2>1, FlowsAreTyped DEF RufFlowsTyped
  <2>2. CASE flow' = [flow EXCEPT ![f] = F]
    BY <1>1, <1>5, <2>2, FlowsAreTyped, OneFlowChanges
  <2>3. QED
    BY <1>2, <1>3, <2>1, <2>2
<1>7. IsFiniteSet(tokens')
    BY <1>2, FlowsAreTyped, FS_Subset
<1>8. \A p \in (net \cup tokens)' : IsPacket(p)
    BY <1>2, FlowsAreTyped
<1>9. QED
    BY <1>2, <1>6, <1>7, <1>8, FlowStepKeeps DEF hostvars

LEMMA ResendTimeoutKeeps ==
    ASSUME RufInv, NEW f \in Flow, ResendTimeout(f)
    PROVE  RufInv'
<1> DEFINE F == [flow[f] EXCEPT !.redundancy = "met"]
<1>1. flow' = [flow EXCEPT ![f] = F] /\ UNCHANGED << arbitervars, hostvars, flows, tokens, list, net >>
      /\ Timely(UnderWay(f) = {}, "resend")
    BY DEF ResendTimeout
<1>2. RufFlowsTyped'
    BY <1>1, FlowsAreTyped, FlowFields, OneFlowChanges
<1> HIDE DEF F
<1>3. "resend" \in FaultKinds
    BY DEF FaultKinds
<1>4. \/ UNCHANGED faults
      \/ \E e : Grown(e)
    BY <1>1, <1>3, TimelyIs
<1>5. IsFiniteSet(tokens') /\ \A p \in (net \cup tokens)' : IsPacket(p)
    BY <1>1, FlowsAreTyped
<1>6. QED
    BY <1>1, <1>2, <1>4, <1>5, FlowStepKeeps DEF hostvars

LEMMA WindowTimeoutKeeps ==
    ASSUME RufInv, NEW f \in Flow, WindowTimeout(f)
    PROVE  RufInv'
<1> DEFINE F == [flow[f] EXCEPT !.window_old = TRUE]
<1>1. flow' = [flow EXCEPT ![f] = F]
      /\ UNCHANGED << arbitervars, gosrc_info, wakeup_evt, hold_on, flows, tokens, list, net >>
      /\ Timely(UnderWay(f) = {}, "window")
    BY DEF WindowTimeout
<1>2. RufFlowsTyped'
    BY <1>1, FlowsAreTyped, FlowFields, OneFlowChanges
<1> HIDE DEF F
<1>3. "window" \in FaultKinds
    BY DEF FaultKinds
<1>4. \/ UNCHANGED faults
      \/ \E e : Grown(e)
    BY <1>1, <1>3, TimelyIs
<1>5. IsFiniteSet(tokens') /\ \A p \in (net \cup tokens)' : IsPacket(p)
    BY <1>1, FlowsAreTyped
<1>6. QED
    BY <1>1, <1>2, <1>4, <1>5, FlowStepKeeps

LEMMA ReceiveDataKeeps ==
    ASSUME RufInv, NEW m \in net, ReceiveData(m)
    PROVE  RufInv'
<1> DEFINE f == m.flow
           before == IF flow[f].rts_received THEN flow[f] ELSE ShortFlow(flow[f], f)
           F == WithData(before, m)
           G == [F EXCEPT !.finished_at_receiver = TRUE]
<1>1. f \in Flow /\ m.seq \in Int
    BY FlowsAreTyped DEF IsPacket
<1>2. IsFlow(before)
    BY <1>1, FlowsAreTyped, ShortFlowIs
<1>3. UNCHANGED << arbitervars, gosrc_info, wakeup_evt, flows, tokens, list, faults >>
    BY DEF ReceiveData
<1>4. [[flow EXCEPT ![f] = F] EXCEPT ![f].finished_at_receiver = TRUE] = [flow EXCEPT ![f] = G]
    BY <1>1, FlowsAreTyped DEF RufFlowsTyped
<1>5. /\ UNCHANGED flow \/ flow' = [flow EXCEPT ![f] = F] \/ flow' = [flow EXCEPT ![f] = G]
      /\ net' = net \ {m} \/ net' = (net \ {m}) \cup {Packet("ack", f, 0, 0)}
    BY <1>4 DEF ReceiveData, TakeData
<1> HIDE DEF before, f
<1>6. IsFlow(F)
    BY <1>1, <1>2, WithDataIs
<1> HIDE DEF F
<1>7. IsFlow(G)
    BY <1>6, FlowFields
<1> HIDE DEF G
<1>8. RufFlowsTyped'
  <2>1. CASE UNCHANGED flow
    BY <2>1, FlowsAreTyped DEF RufFlowsTyped
  <2>2. CASE flow' = [flow EXCEPT ![f] = F]
    BY <1>1, <1>6, <2>2, FlowsAreTyped, OneFlowChanges
  <2>3. CASE flow' = [flow EXCEPT ![f] = G]
    BY <1>1, <1>7, <2>3, FlowsAreTyped, OneFlowChanges
  <2>4. QED
    BY <1>5, <2>1, <2>2, <2>3
<1>9. IsPacket(Packet("ack", f, 0, 0))
    BY <1>1, PacketIs
<1>10. IsFiniteSet(tokens') /\ \A p \in (net \cup tokens)' : IsPacket(p)
    BY <1>3, <1>5, <1>9, FlowsAreTyped
<1>11. QED
    BY <1>3, <1>8, <1>10, FlowStepKeeps

-----------------------------------------------------------------------------
(* Ruf: requests *)

LEMMA ListSrcsIs ==
    ASSUME NEW objects, \A f \in Flow : IsFlow(objects[f]), NEW in \in SUBSET Flow, NEW info,
           NEW nrts \in Host \cup {NoHost}, NEW round \in Round \cup {-1}
    PROVE  \/ nrts = NoHost /\ ListSrcs(objects, in, info, nrts, round) = <<>>
           \/ \E m \in Lists : /\ ListSrcs(objects, in, info, nrts, round) = << m >>
                               /\ m.nrts = nrts /\ m.round = round /\ IsFiniteSet(m.list)
<1> DEFINE flows_wanted == Wanted(objects, in, info, nrts)
           request == [f \in flows_wanted |-> << Src[f], Need(objects[f], f) >>]
           wanted == {request[f] : f \in flows_wanted}
           m == [ list |-> wanted, nrts |-> nrts, round |-> round ]
<1>1. flows_wanted \in SUBSET Flow
    BY DEF Wanted
<1>2. ListSrcs(objects, in, info, nrts, round) = IF wanted = {} /\ nrts = NoHost THEN <<>> ELSE << m >>
  <2>1. {<< Src[f], Need(objects[f], f) >> : f \in flows_wanted} = wanted
    OBVIOUS
  <2>2. QED
    BY <2>1 DEF ListSrcs
<1>3. request = [f \in flows_wanted |-> request[f]]
    OBVIOUS
<1>4. wanted \in SUBSET (Host \X Int)
    BY <1>1, InitTokenIs, NeedIsNumber
<1> HIDE DEF flows_wanted, request
<1>5. IsFiniteSet(flows_wanted)
    BY <1>1, RufAssumption, FS_Subset
<1>6. IsFiniteSet(wanted)
    BY <1>3, <1>5, ImageIsFinite
<1> HIDE DEF wanted
<1>7. m \in Lists /\ m.nrts = nrts /\ m.round = round /\ m.list = wanted
    BY <1>4 DEF Lists
<1> HIDE DEF m
<1>8. QED
    BY <1>2, <1>6, <1>7

\* A request is sent.
LEMMA RequestAdded ==
    ASSUME NEW requests \in Seq(Lists), \A i \in DOMAIN requests : IsFiniteSet(requests[i].list),
           NEW m \in Lists, IsFiniteSet(m.list)
    PROVE  LET q == requests \o << m >>
           IN  /\ q \in Seq(Lists) /\ \A i \in DOMAIN q : IsFiniteSet(q[i].list)
               /\ Named(m) /\ (\A i \in DOMAIN requests : Named(requests[i])) => \A i \in DOMAIN q : Named(q[i])
               /\ m.nrts = NoHost =>
                     \A i \in DOMAIN q : q[i].nrts # NoHost => i \in DOMAIN requests /\ q[i] = requests[i]
               /\ (\A i \in DOMAIN requests : requests[i].nrts = NoHost) =>
                     \A i \in DOMAIN q : q[i].nrts # NoHost => i = Len(requests) + 1 /\ q[i] = m
<1> DEFINE q == requests \o << m >>
<1>1. q \in Seq(Lists)
      /\ \A i \in DOMAIN q : (i \in DOMAIN requests /\ q[i] = requests[i]) \/ (i = Len(requests) + 1 /\ q[i] = m)
    BY AddedIs
<1> HIDE DEF q
<1>2. QED
    BY <1>1 DEF q

\* A receiver that asks claims what it has claimed before.
LEMMA AskingClaimsLess ==
    ASSUME NEW info, NEW wakeup, NEW packets, NEW requests, ReceiverOK(info, wakeup, packets, requests),
           NEW wakeup2 \in BOOLEAN, InUse(info, wakeup2),
           NEW more, \/ more = <<>>
                     \/ \E m \in Lists : more = << m >> /\ m.nrts = NoHost /\ IsFiniteSet(m.list)
    PROVE  /\ ReceiverOK(info, wakeup2, packets, requests \o more)
           /\ ClaimsOnce(info, packets, requests) => ClaimsOnce(info, packets, requests \o more)
           /\ \A s \in Host : \A r \in Round :
                 Claims(info, packets, requests \o more, s, r) => Claims(info, packets, requests, s, r)
<1>1. requests \in Seq(Lists) /\ \A i \in DOMAIN requests : IsFiniteSet(requests[i].list)
    BY DEF ReceiverOK
<1>2. CASE more = <<>>
  <2>1. requests \o more = requests
    BY <1>1, <1>2
  <2>2. QED
    BY <2>1 DEF ReceiverOK
<1>3. ASSUME NEW m \in Lists, more = << m >>, m.nrts = NoHost, IsFiniteSet(m.list)
      PROVE  /\ ReceiverOK(info, wakeup2, packets, requests \o more)
             /\ ClaimsOnce(info, packets, requests) => ClaimsOnce(info, packets, requests \o more)
             /\ \A s \in Host : \A r \in Round :
                   Claims(info, packets, requests \o more, s, r) => Claims(info, packets, requests, s, r)
  <2> DEFINE q == requests \o << m >>
  <2>1. /\ q \in Seq(Lists) /\ \A i \in DOMAIN q : IsFiniteSet(q[i].list)
        /\ (\A i \in DOMAIN requests : Named(requests[i])) => \A i \in DOMAIN q : Named(q[i])
        /\ \A i \in DOMAIN q : q[i].nrts # NoHost => i \in DOMAIN requests /\ q[i] = requests[i]
    BY <1>1, <1>3, RequestAdded DEF Named
  <2>2. requests \o more = q
    BY <1>3
  <2> HIDE DEF q
  <2>3. ReceiverOK(info, wakeup2, packets, q)
    BY <2>1 DEF ReceiverOK
  <2>4. ClaimsOnce(info, packets, requests) => ClaimsOnce(info, packets, q)
    BY <2>1 DEF ClaimsOnce
  <2>5. \A s \in Host : \A r \in Round : Claims(info, packets, q, s, r) => Claims(info, packets, requests, s, r)
    BY <2>1, RoundsAssumed DEF Claims
  <2>6. QED
    BY <2>2, <2>3, <2>4, <2>5
<1>4. QED
    BY <1>2, <1>3

\* A receiver that returns the source it claims, and gives up its grant, claims no other.
LEMMA ReturningClaimsLess ==
    ASSUME NEW info, NEW wakeup, NEW packets, NEW requests, ReceiverOK(info, wakeup, packets, requests),
           ClaimsOnce(info, packets, requests), packets # <<>> \/ InfoHolds(info),
           NEW info2, ~InfoHolds(info2), NEW packets2, packets2 = <<>>,
           NEW m \in Lists, IsFiniteSet(m.list), Claims(info, packets, requests, m.nrts, m.round)
    PROVE  /\ ClaimsOnce(info2, packets2, requests \o << m >>)
           /\ \A s \in Host : \A r \in Round :
                 Claims(info2, packets2, requests \o << m >>, s, r) => Claims(info, packets, requests, s, r)
<1> DEFINE q == requests \o << m >>
<1>1. \A i \in DOMAIN requests : requests[i].nrts = NoHost
    BY DEF ClaimsOnce
<1>2. requests \in Seq(Lists) /\ \A i \in DOMAIN requests : IsFiniteSet(requests[i].list)
    BY DEF ReceiverOK
<1>3. \A i \in DOMAIN q : q[i].nrts # NoHost => i = Len(requests) + 1 /\ q[i] = m
    BY <1>1, <1>2, RequestAdded
<1> HIDE DEF q
<1>4. ClaimsOnce(info2, packets2, q)
    BY <1>3 DEF ClaimsOnce
<1>5. \A s \in Host : \A r \in Round : Claims(info2, packets2, q, s, r) => s = m.nrts /\ r = m.round
    BY <1>3, RoundsAssumed DEF Claims
<1>6. QED
    BY <1>4, <1>5 DEF q

\* A grant that no longer holds its source, or holds the same.
LEMMA GrantClaimsLess ==
    ASSUME NEW info, NEW info2, NEW packets, NEW requests,
           InfoHolds(info2) => InfoHolds(info) /\ info2.src = info.src /\ info2.round = info.round
    PROVE  /\ ClaimsOnce(info, packets, requests) => ClaimsOnce(info2, packets, requests)
           /\ \A s \in Host : \A r \in Round :
                 Claims(info2, packets, requests, s, r) => Claims(info, packets, requests, s, r)
BY DEF ClaimsOnce, Claims

-----------------------------------------------------------------------------
(* Ruf: steps of the receivers *)

LEMMA HostsAreTyped ==
    ASSUME RufInv
    PROVE  /\ gosrc_info \in [Host -> Grants] /\ wakeup_evt \in [Host -> BOOLEAN]
           /\ gosrc \in [Host -> Seq(GoSrcs)] /\ list \in [Host -> Seq(Lists)]
BY DEF RufInv, RufTypes, ArbiterTyped

LEMMA UnfinishedIs ==
    ASSUME RufInv, NEW objects, NEW d \in Host
    PROVE  UnfinishedFlows(objects, d) \in SUBSET Flow
BY FlowsAreTyped DEF UnfinishedFlows

\* Receiver d asks, or does not, and keeps its grant.
LEMMA AskStepKeeps ==
    ASSUME RufInv, NEW d \in Host, NEW objects, \A f \in Flow : IsFlow(objects[f]), NEW in \in SUBSET Flow,
           UNCHANGED << src_state, dst_state, outbound_cons, inbound_cons, ruf_q, gosrc, gosrc_info, tokens, faults >>,
           Ask(d, objects, in) \/ UNCHANGED list,
           NEW wakeup \in BOOLEAN, InUse(gosrc_info[d], wakeup), wakeup_evt' = [wakeup_evt EXCEPT ![d] = wakeup],
           flows' \in [Host -> SUBSET Flow], RufFlowsTyped', \A m \in net' : IsPacket(m)
    PROVE  RufInv'
<1> DEFINE asked == ListSrcs(objects, in, gosrc_info[d], NoHost, -1)
<1>1. \/ asked = <<>>
      \/ \E m \in Lists : asked = << m >> /\ m.nrts = NoHost /\ IsFiniteSet(m.list)
    BY ListSrcsIs
<1>2. \E more : /\ more = <<>> \/ more = asked
                /\ list' = [list EXCEPT ![d] = list[d] \o more]
  <2>1. CASE Ask(d, objects, in)
    BY <2>1 DEF Ask
  <2>2. CASE UNCHANGED list
    <3>1. list[d] \o <<>> = list[d]
        BY HostsAreTyped
    <3>2. list' = [list EXCEPT ![d] = list[d] \o <<>>]
        BY <2>2, <3>1, HostsAreTyped
    <3>3. QED
        BY <3>2
  <2>3. QED
    BY <2>1, <2>2
<1> HIDE DEF asked
<1>3. PICK more : /\ more = <<>> \/ more = asked
                  /\ list' = [list EXCEPT ![d] = list[d] \o more]
    BY <1>2
<1>4. ReceiverOK(gosrc_info[d], wakeup_evt[d], gosrc[d], list[d])
    BY ReceiverTyped
<1>5. /\ ReceiverOK(gosrc_info[d], wakeup, gosrc[d], list[d] \o more)
      /\ ClaimsOnce(gosrc_info[d], gosrc[d], list[d]) => ClaimsOnce(gosrc_info[d], gosrc[d], list[d] \o more)
      /\ \A s \in Host : \A r \in Round :
            Claims(gosrc_info[d], gosrc[d], list[d] \o more, s, r) => Claims(gosrc_info[d], gosrc[d], list[d], s, r)
    BY <1>1, <1>3, <1>4, AskingClaimsLess
<1>6. gosrc_info' = [gosrc_info EXCEPT ![d] = gosrc_info[d]] /\ gosrc' = [gosrc EXCEPT ![d] = gosrc[d]]
    BY HostsAreTyped
<1>7. QED
    BY <1>3, <1>5, <1>6, ReceiverStepKeeps

LEMMA WakeupKeeps ==
    ASSUME RufInv, NEW d \in Host, Wakeup(d)
    PROVE  RufInv'
<1> DEFINE in == UnfinishedFlows(flow, d)
           wakeup == WakeupAgain(in)
<1>1. /\ wakeup_evt[d] /\ Ask(d, flow, in) /\ flows' = [flows EXCEPT ![d] = in]
      /\ wakeup_evt' = [wakeup_evt EXCEPT ![d] = wakeup]
      /\ UNCHANGED << arbitervars, gosrc_info, token_send_evt, hold_on, flow, tokens, net, faults >>
    BY DEF Wakeup
<1>2. in \in SUBSET Flow /\ wakeup \in BOOLEAN
    BY UnfinishedIs DEF WakeupAgain
<1>3. InUse(gosrc_info[d], wakeup)
    BY <1>1 DEF RufInv, InUse
<1> HIDE DEF in, wakeup
<1>4. flows' \in [Host -> SUBSET Flow] /\ RufFlowsTyped' /\ \A m \in net' : IsPacket(m)
    BY <1>1, <1>2, FlowsAreTyped DEF RufFlowsTyped
<1>5. UNCHANGED << src_state, dst_state, outbound_cons, inbound_cons, ruf_q, gosrc, gosrc_info, tokens, faults >>
    BY <1>1 DEF arbitervars
<1>6. QED
    BY <1>1, <1>2, <1>3, <1>4, <1>5, FlowsAreTyped, AskStepKeeps

LEMMA ReceiveRtsKeeps ==
    ASSUME RufInv, NEW m \in net, ReceiveRts(m)
    PROVE  RufInv'
<1> DEFINE f == m.flow
           d == Dst[f]
           info == gosrc_info[d]
           long == [flow[f] EXCEPT !.rts_received = TRUE]
           short == ShortFlow(flow[f], f)
<1>1. f \in Flow /\ d \in Host
    BY FlowsAreTyped, InitTokenIs DEF IsPacket
<1>2. net' = net \ {m} /\ UNCHANGED << arbitervars, tokens, faults >>
    BY DEF ReceiveRts
<1>3. \A p \in net' : IsPacket(p)
    BY <1>2, FlowsAreTyped
<1>4. IsFiniteSet(tokens') /\ \A p \in (net \cup tokens)' : IsPacket(p)
    BY <1>2, FlowsAreTyped
<1>5. wakeup_evt[d] \in BOOLEAN /\ wakeup_evt = [wakeup_evt EXCEPT ![d] = wakeup_evt[d]] /\ InUse(info, wakeup_evt[d])
    BY <1>1, HostsAreTyped DEF RufInv
<1>6. UNCHANGED << src_state, dst_state, outbound_cons, inbound_cons, ruf_q, gosrc, tokens, faults >>
    BY <1>2 DEF arbitervars
<1>7. CASE flow[f].finished \/ flow[f].rts_received
  <2>1. UNCHANGED << flow, flows, list, hostvars >>
    BY <1>7 DEF ReceiveRts
  <2>2. RufFlowsTyped'
    BY <2>1, FlowsAreTyped DEF RufFlowsTyped
  <2>3. QED
    BY <1>2, <1>4, <2>1, <2>2, FlowStepKeeps DEF hostvars
<1>8. CASE ~(flow[f].finished \/ flow[f].rts_received) /\ Size[f] > TokenInitial /\ info.src = NoHost
  <2> DEFINE in == flows[d] \cup {f}
             objects == flow'
  <2>1. /\ flow' = [flow EXCEPT ![f] = long] /\ Ask(d, flow', in) /\ UNCHANGED gosrc_info
        /\ flows' = [flows EXCEPT ![d] = UnfinishedFlows(flow, d) \cup {f}]
        /\ wakeup_evt' = [wakeup_evt EXCEPT ![d] = TRUE]
    BY <1>8 DEF ReceiveRts
  <2>2. RufFlowsTyped'
    BY <1>1, <2>1, FlowsAreTyped, FlowFields, OneFlowChanges
  <2>3. in \in SUBSET Flow /\ flows' \in [Host -> SUBSET Flow]
    BY <1>1, <2>1, UnfinishedIs, FlowsAreTyped
  <2>4. \A g \in Flow : IsFlow(objects[g])
    BY <2>2 DEF RufFlowsTyped, IsFlow
  <2>5. InUse(gosrc_info[d], TRUE)
    BY <1>8 DEF InUse
  <2>6. Ask(d, objects, in)
    BY <2>1
  <2> HIDE DEF in, objects, d
  <2>7. QED
    BY <1>1, <1>3, <1>6, <2>1, <2>2, <2>3, <2>4, <2>5, <2>6, AskStepKeeps
<1>9. CASE ~(flow[f].finished \/ flow[f].rts_received) /\ Size[f] > TokenInitial /\ info.src # NoHost
  <2>1. /\ flow' = [flow EXCEPT ![f] = long] /\ UNCHANGED << gosrc_info, list, wakeup_evt >>
        /\ flows' = [flows EXCEPT ![d] = @ \cup {f}]
    BY <1>9 DEF ReceiveRts
  <2>2. RufFlowsTyped'
    BY <1>1, <2>1, FlowsAreTyped, FlowFields, OneFlowChanges
  <2>3. flows' \in [Host -> SUBSET Flow]
    BY <1>1, <2>1, FlowsAreTyped
  <2>4. wakeup_evt' = [wakeup_evt EXCEPT ![d] = wakeup_evt[d]]
    BY <1>5, <2>1
  <2> HIDE DEF d
  <2>5. QED
    BY <1>1, <1>3, <1>5, <1>6, <2>1, <2>2, <2>3, <2>4, FlowsAreTyped, AskStepKeeps
<1>10. CASE ~(flow[f].finished \/ flow[f].rts_received) /\ ~(Size[f] > TokenInitial)
  <2> DEFINE wakeup == wakeup_evt[d] \/ info.src = NoHost \/ info.send_nrts
  <2>1. /\ flow' = [flow EXCEPT ![f] = short] /\ UNCHANGED << gosrc_info, list >>
        /\ flows' = [flows EXCEPT ![d] = @ \cup {f}]
        /\ wakeup_evt' = [wakeup_evt EXCEPT ![d] = wakeup]
    BY <1>10 DEF ReceiveRts
  <2>2. RufFlowsTyped'
    BY <1>1, <2>1, FlowsAreTyped, ShortFlowIs, OneFlowChanges
  <2>3. flows' \in [Host -> SUBSET Flow]
    BY <1>1, <2>1, FlowsAreTyped
  <2>4. wakeup \in BOOLEAN /\ InUse(gosrc_info[d], wakeup)
    BY <1>5 DEF InUse
  <2> HIDE DEF d, wakeup
  <2>5. QED
    BY <1>1, <1>3, <1>6, <2>1, <2>2, <2>3, <2>4, FlowsAreTyped, AskStepKeeps
<1>11. QED
    BY <1>7, <1>8, <1>9, <1>10

\* The fields of a grant when one of them changes.
LEMMA NoGrantIs ==
    NoGrant \in Grants /\ NoGrant.src = NoHost /\ NoGrant.send_nrts = FALSE
BY DEF NoGrant, Grants

LEMMA GrantReturned ==
    ASSUME NEW info \in Grants, NEW returned \in BOOLEAN
    PROVE  LET new == [info EXCEPT !.send_nrts = returned]
           IN  /\ new \in Grants /\ new.src = info.src /\ new.remain_tokens = info.remain_tokens
               /\ new.round = info.round /\ new.send_nrts = returned
BY DEF Grants

LEMMA GrantUsed ==
    ASSUME NEW info \in Grants, NEW n \in Int
    PROVE  LET new == [info EXCEPT !.remain_tokens = n]
           IN  /\ new \in Grants /\ new.src = info.src /\ new.remain_tokens = n
               /\ new.round = info.round /\ new.send_nrts = info.send_nrts
BY DEF Grants

\* A receiver that takes a grant claims what was on its way to it.
LEMMA TakingClaimsLess ==
    ASSUME NEW info, NEW wakeup, NEW packets, NEW requests, ReceiverOK(info, wakeup, packets, requests),
           ClaimsOnce(info, packets, requests), packets # <<>>,
           NEW info2, info2.src = packets[1].src, info2.round = packets[1].round
    PROVE  /\ ClaimsOnce(info2, Tail(packets), requests)
           /\ \A s \in Host : \A r \in Round :
                 Claims(info2, Tail(packets), requests, s, r) => Claims(info, packets, requests, s, r)
<1>1. packets \in Seq(GoSrcs) /\ 1 \in DOMAIN packets
    BY DEF ReceiverOK
<1>2. Tail(packets) = <<>>
    BY <1>1 DEF ClaimsOnce
<1>3. \A i \in DOMAIN requests : requests[i].nrts = NoHost
    BY DEF ClaimsOnce
<1>4. Len(<<>>) = 0
    OBVIOUS
<1>5. ClaimsOnce(info2, <<>>, requests)
    BY <1>3, <1>4 DEF ClaimsOnce
<1>6. \A s \in Host : \A r \in Round : Claims(info2, <<>>, requests, s, r) => Claims(info, packets, requests, s, r)
    BY <1>1, <1>3 DEF Claims
<1>7. QED
    BY <1>2, <1>5, <1>6

LEMMA ReceiveGoSrcKeeps ==
    ASSUME RufInv, NEW d \in Host, ReceiveGoSrc(d)
    PROVE  RufInv'
<1> DEFINE g    == Head(gosrc[d])
           in   == {f \in flows[d] : Src[f] = g.src => ~flow[f].finished_at_receiver}
           info == gosrc_info[d]
           asked == ListSrcs(flow, in, info, g.src, g.round)
           none  == [NoGrant EXCEPT !.send_nrts = TRUE]
           taken == [ src |-> g.src, remain_tokens |-> g.tokens, round |-> g.round, send_nrts |-> FALSE ]
<1>1. gosrc[d] # <<>> /\ gosrc' = [gosrc EXCEPT ![d] = Tail(gosrc[d])]
      /\ UNCHANGED << src_state, dst_state, outbound_cons, inbound_cons, ruf_q >>
      /\ UNCHANGED << hold_on, flow, tokens, net, faults >>
    BY DEF ReceiveGoSrc
<1>2. \/ /\ list' = [list EXCEPT ![d] = @ \o asked]
         /\ flows' = [flows EXCEPT ![d] = UnfinishedFlows(flow, d)]
         /\ wakeup_evt' = [wakeup_evt EXCEPT ![d] = TRUE]
         /\ gosrc_info' = [gosrc_info EXCEPT ![d] = none]
      \/ /\ gosrc_info' = [gosrc_info EXCEPT ![d] = taken]
         /\ flows' = [flows EXCEPT ![d] = in]
         /\ wakeup_evt' = [wakeup_evt EXCEPT ![d] = FALSE]
         /\ UNCHANGED list
    BY DEF ReceiveGoSrc
<1>3. ReceiverOK(info, wakeup_evt[d], gosrc[d], list[d])
    BY ReceiverTyped
<1>4. gosrc[d] \in Seq(GoSrcs) /\ Tail(gosrc[d]) \in Seq(GoSrcs) /\ g = gosrc[d][1] /\ g \in GoSrcs /\ 1 \in DOMAIN gosrc[d]
    BY <1>1, HostsAreTyped, TailIs
<1>5. g.src \in Host /\ g.round \in Round /\ g.tokens \in Grant /\ g.src # NoHost
    BY <1>4, RoundsAssumed DEF GoSrcs
<1>6. g.tokens \in Nat \ {0}
    BY <1>5, RoundsAssumed
<1>7. in \in SUBSET Flow
    BY FlowsAreTyped
<1>8. RufFlowsTyped' /\ \A m \in net' : IsPacket(m)
    BY <1>1, FlowsAreTyped DEF RufFlowsTyped
<1>9. ReceiverOK(info, wakeup_evt[d], Tail(gosrc[d]), list[d])
    BY <1>1, <1>3, TailsClaimLess
<1> HIDE DEF g, in
<1>10. CASE /\ list' = [list EXCEPT ![d] = @ \o asked]
            /\ flows' = [flows EXCEPT ![d] = UnfinishedFlows(flow, d)]
            /\ wakeup_evt' = [wakeup_evt EXCEPT ![d] = TRUE]
            /\ gosrc_info' = [gosrc_info EXCEPT ![d] = none]
  <2>1. none \in Grants /\ none.src = NoHost
    BY NoGrantIs, GrantReturned
  <2>2. PICK m \in Lists : asked = << m >> /\ m.nrts = g.src /\ m.round = g.round /\ IsFiniteSet(m.list)
    BY <1>5, <1>7, FlowsAreTyped, ListSrcsIs
  <2> DEFINE requests == list[d] \o << m >>
  <2>3. list' = [list EXCEPT ![d] = requests]
    BY <1>10, <2>2
  <2>4. list[d] \in Seq(Lists) /\ \A i \in DOMAIN list[d] : IsFiniteSet(list[d][i].list)
    BY <1>3 DEF ReceiverOK
  <2>5. Named(m)
    BY <1>5, <2>2 DEF Named
  <2>6. /\ requests \in Seq(Lists) /\ \A i \in DOMAIN requests : IsFiniteSet(requests[i].list)
        /\ (\A i \in DOMAIN list[d] : Named(list[d][i])) => \A i \in DOMAIN requests : Named(requests[i])
    BY <2>2, <2>4, <2>5, RequestAdded
  <2> HIDE DEF asked, none
  <2>7. ~InfoHolds(none) /\ InUse(none, TRUE)
    BY <2>1 DEF InfoHolds, InUse
  <2>8. ASSUME ClaimsOnce(info, gosrc[d], list[d])
        PROVE  /\ ClaimsOnce(none, Tail(gosrc[d]), requests)
               /\ \A s \in Host : \A r \in Round :
                     Claims(none, Tail(gosrc[d]), requests, s, r) => Claims(info, gosrc[d], list[d], s, r)
    <3>1. Tail(gosrc[d]) = <<>>
        BY <1>1, <1>4, <2>8 DEF ClaimsOnce
    <3>2. Claims(info, gosrc[d], list[d], m.nrts, m.round)
        BY <1>4, <2>2 DEF Claims
    <3>3. QED
        BY <1>1, <1>3, <2>2, <2>7, <2>8, <3>1, <3>2, ReturningClaimsLess
  <2> HIDE DEF requests
  <2>9. ReceiverOK(none, TRUE, Tail(gosrc[d]), requests)
    BY <1>9, <2>1, <2>6, <2>7 DEF ReceiverOK
  <2>10. flows' \in [Host -> SUBSET Flow]
    BY <1>10, UnfinishedIs, FlowsAreTyped
  <2>11. QED
    BY <1>1, <1>8, <1>10, <2>3, <2>8, <2>9, <2>10, ReceiverStepKeeps
<1>11. CASE /\ gosrc_info' = [gosrc_info EXCEPT ![d] = taken]
            /\ flows' = [flows EXCEPT ![d] = in]
            /\ wakeup_evt' = [wakeup_evt EXCEPT ![d] = FALSE]
            /\ UNCHANGED list
  <2>1. taken \in Grants /\ taken.src = g.src /\ taken.round = g.round /\ taken.remain_tokens = g.tokens
    BY <1>5, <1>6 DEF Grants
  <2> HIDE DEF taken
  <2>2. InUse(taken, FALSE) /\ (LongGrants => taken.remain_tokens > 1)
    BY <1>5, <1>6, <2>1 DEF InUse, LongGrants
  <2>3. ReceiverOK(taken, FALSE, Tail(gosrc[d]), list[d])
    BY <1>5, <1>9, <2>1, <2>2 DEF ReceiverOK
  <2>4. ASSUME ClaimsOnce(info, gosrc[d], list[d])
        PROVE  /\ ClaimsOnce(taken, Tail(gosrc[d]), list[d])
               /\ \A s \in Host : \A r \in Round :
                     Claims(taken, Tail(gosrc[d]), list[d], s, r) => Claims(info, gosrc[d], list[d], s, r)
    BY <1>1, <1>3, <1>4, <2>1, <2>4, TakingClaimsLess
  <2>5. list' = [list EXCEPT ![d] = list[d]] /\ flows' \in [Host -> SUBSET Flow]
    BY <1>7, <1>11, HostsAreTyped, FlowsAreTyped
  <2>6. QED
    BY <1>1, <1>8, <1>11, <2>3, <2>4, <2>5, ReceiverStepKeeps
<1>12. QED
    BY <1>2, <1>10, <1>11

\* The grant that a turn leaves: the same with fewer tokens, or none after the last one,
\* which long grants have returned by then.
Left(old, info) ==
    /\ info \in Grants /\ info.send_nrts = old.send_nrts
    /\ \/ info.src = old.src /\ info.round = old.round /\ info.remain_tokens > 0
       \/ info.src = NoHost /\ (LongGrants => info.send_nrts = TRUE)

LEMMA UsedIs ==
    ASSUME RufInv, NEW d \in Host, gosrc_info[d].src # NoHost
    PROVE  Left(gosrc_info[d], gosrc_info[d]) /\ Left(gosrc_info[d], Used(gosrc_info[d]))
<1> DEFINE info == gosrc_info[d]
<1>1. info \in Grants /\ info.remain_tokens \in Int /\ info.send_nrts \in BOOLEAN
    BY HostsAreTyped DEF Grants
<1>2. info.remain_tokens > 0 /\ (LongGrants => (info.send_nrts = TRUE \/ info.remain_tokens > 1))
    BY <1>1 DEF RufInv, InUse, HeldLong, InfoHolds
<1> HIDE DEF info
<1>3. Left(info, info)
    BY <1>1, <1>2 DEF Left
<1>4. CASE info.remain_tokens = 1
  <2>1. Used(info) = [NoGrant EXCEPT !.send_nrts = info.send_nrts]
    BY <1>4 DEF Used, ResetGrant
  <2>2. Used(info) \in Grants /\ Used(info).src = NoHost /\ Used(info).send_nrts = info.send_nrts
    BY <1>1, <2>1, NoGrantIs, GrantReturned
  <2>3. LongGrants => info.send_nrts = TRUE
    BY <1>2, <1>4
  <2>4. QED
    BY <1>3, <2>2, <2>3 DEF Left, info
<1>5. CASE info.remain_tokens # 1
  <2> DEFINE n == info.remain_tokens - 1
  <2>1. Used(info) = [info EXCEPT !.remain_tokens = n]
    BY <1>5 DEF Used
  <2>2. n \in Int /\ n > 0
    BY <1>1, <1>2, <1>5
  <2> HIDE DEF n
  <2>3. /\ Used(info) \in Grants /\ Used(info).src = info.src /\ Used(info).remain_tokens = n
        /\ Used(info).round = info.round /\ Used(info).send_nrts = info.send_nrts
    BY <1>1, <2>1, <2>2, GrantUsed
  <2>4. QED
    BY <1>3, <2>2, <2>3 DEF Left, info
<1>6. QED
    BY <1>4, <1>5

LEMMA TurnKeeps ==
    ASSUME RufInv, NEW d \in Host, NEW f \in Flow, gosrc_info[d].src = Src[f], NEW F, IsFlow(F),
           NEW info, Left(gosrc_info[d], info), Turn(d, f, F, info),
           UNCHANGED << arbitervars, tokens, faults >>, \A m \in net' : IsPacket(m)
    PROVE  RufInv'
<1> DEFINE old     == gosrc_info[d]
           returns == ReturnsSource(F, f, info)
           objects == [flow EXCEPT ![f] = F]
           info2   == [info EXCEPT !.send_nrts = info.send_nrts \/ returns]
           wakeup  == wakeup_evt[d] \/ returns
           asked   == ListSrcs(objects, flows[d], info, Src[f], info.round)
<1>1. /\ flow' = objects
      /\ list' = IF returns THEN [list EXCEPT ![d] = @ \o asked] ELSE list
      /\ flows' = IF returns THEN [flows EXCEPT ![d] = UnfinishedFlows(objects, d)] ELSE flows
      /\ gosrc_info' = [gosrc_info EXCEPT ![d] = info2]
      /\ wakeup_evt' = [wakeup_evt EXCEPT ![d] = wakeup]
    BY DEF Turn
<1>2. UNCHANGED << src_state, dst_state, outbound_cons, inbound_cons, ruf_q, gosrc, tokens, faults >>
    BY DEF arbitervars
<1>3. RufFlowsTyped'
    BY <1>1, FlowsAreTyped, OneFlowChanges
<1>4. \A g \in Flow : IsFlow(objects[g])
    BY <1>1, <1>3 DEF RufFlowsTyped, IsFlow
<1>5. flows' \in [Host -> SUBSET Flow]
    BY <1>1, UnfinishedIs, FlowsAreTyped
<1>6. /\ info \in Grants /\ info.send_nrts = old.send_nrts /\ old.src # NoHost /\ Src[f] \in Host
      /\ info.remain_tokens \in Int /\ info.round \in Round \cup {-1}
      /\ info.send_nrts \in BOOLEAN /\ wakeup_evt[d] \in BOOLEAN
    BY InitTokenIs, RoundsAssumed, HostsAreTyped DEF Left, Grants
<1>7. ReceiverOK(old, wakeup_evt[d], gosrc[d], list[d])
    BY ReceiverTyped
<1>8. returns \in BOOLEAN
    BY DEF ReturnsSource
<1>9. returns => info.send_nrts = FALSE
    BY <1>6 DEF ReturnsSource
<1>10. info.send_nrts = FALSE /\ ~returns /\ LongGrants => info.remain_tokens > 1
  <2>1. SUFFICES ASSUME info.send_nrts = FALSE, ~returns, LongGrants PROVE info.remain_tokens > 1
    OBVIOUS
  <2>2. ~(Smaller(info.remain_tokens, Need(F, f)) <= Lead)
    BY <2>1 DEF ReturnsSource
  <2>3. Need(F, f) \in Int /\ Lead \in Nat /\ Lead > 0
    BY <2>1, NeedIsNumber, RufAssumption DEF LongGrants
  <2>4. QED
    BY <1>6, <2>2, <2>3 DEF Smaller
<1> HIDE DEF returns, objects
<1>11. /\ info2 \in Grants /\ info2.src = info.src /\ info2.remain_tokens = info.remain_tokens
       /\ info2.round = info.round /\ info2.send_nrts = (info.send_nrts \/ returns)
  <2>1. (info.send_nrts \/ returns) \in BOOLEAN
    OBVIOUS
  <2>2. QED
    BY <1>6, <2>1, GrantReturned
<1> HIDE DEF info2
<1>12. InfoHolds(info2) => InfoHolds(old) /\ ~returns /\ info2.src = old.src /\ info2.round = old.round
    BY <1>6, <1>11 DEF InfoHolds, Left
<1>13. /\ InUse(info2, wakeup) /\ (info2.src # NoHost => info2.round \in Round)
       /\ LongGrants => (InfoHolds(info2) => info2.remain_tokens > 1)
  <2>1. InUse(old, wakeup_evt[d]) /\ (old.src # NoHost => old.round \in Round)
    BY <1>7 DEF ReceiverOK
  <2>2. InUse(info2, wakeup)
    BY <1>6, <1>11, <2>1 DEF InUse, Left
  <2>3. info2.src # NoHost => info2.round \in Round
    BY <1>6, <1>11, <2>1 DEF Left
  <2>4. ASSUME LongGrants, InfoHolds(info2) PROVE info2.remain_tokens > 1
    BY <1>6, <1>10, <1>11, <1>12, <2>4 DEF InfoHolds
  <2>5. QED
    BY <2>2, <2>3, <2>4
<1>14. wakeup \in BOOLEAN
    OBVIOUS
<1> HIDE DEF wakeup
<1>15. CASE ~returns
  <2>1. list' = [list EXCEPT ![d] = list[d]] /\ gosrc' = [gosrc EXCEPT ![d] = gosrc[d]]
    BY <1>1, <1>2, <1>15, HostsAreTyped
  <2>2. ReceiverOK(info2, wakeup, gosrc[d], list[d])
    BY <1>7, <1>11, <1>13, <1>14 DEF ReceiverOK
  <2>3. /\ ClaimsOnce(old, gosrc[d], list[d]) => ClaimsOnce(info2, gosrc[d], list[d])
        /\ \A s \in Host : \A r \in Round :
              Claims(info2, gosrc[d], list[d], s, r) => Claims(old, gosrc[d], list[d], s, r)
    BY <1>12, GrantClaimsLess
  <2>4. LongGrants /\ ClaimsOnce(gosrc_info[d], gosrc[d], list[d]) =>
           /\ ClaimsOnce(info2, gosrc[d], list[d])
           /\ \A s \in Host : \A r \in Round :
                 Claims(info2, gosrc[d], list[d], s, r) => Claims(gosrc_info[d], gosrc[d], list[d], s, r)
    BY <2>3
  <2>5. gosrc_info' = [gosrc_info EXCEPT ![d] = info2] /\ wakeup_evt' = [wakeup_evt EXCEPT ![d] = wakeup]
    BY <1>1
  <2> HIDE DEF asked
  <2>6. QED
    BY <1>2, <1>3, <1>5, <2>1, <2>2, <2>4, <2>5, ReceiverStepKeeps
<1>16. CASE returns
  <2>1. PICK m \in Lists : asked = << m >> /\ m.nrts = Src[f] /\ m.round = info.round /\ IsFiniteSet(m.list)
    <3>1. flows[d] \in SUBSET Flow /\ Src[f] # NoHost
        BY <1>6, FlowsAreTyped, RoundsAssumed
    <3>2. QED
        BY <1>4, <1>6, <3>1, ListSrcsIs
  <2> DEFINE requests == list[d] \o << m >>
  <2>2. list' = [list EXCEPT ![d] = requests] /\ gosrc' = [gosrc EXCEPT ![d] = gosrc[d]]
    BY <1>1, <1>2, <1>16, <2>1, HostsAreTyped
  <2>3. list[d] \in Seq(Lists) /\ \A i \in DOMAIN list[d] : IsFiniteSet(list[d][i].list)
    BY <1>7 DEF ReceiverOK
  <2>4. LongGrants => InfoHolds(old) /\ m.round = old.round /\ m.round \in Round
    BY <1>6, <1>7, <1>9, <1>16, <2>1 DEF Left, InfoHolds, ReceiverOK
  <2>5. LongGrants => Named(m)
    BY <2>4 DEF Named
  <2>6. /\ requests \in Seq(Lists) /\ \A i \in DOMAIN requests : IsFiniteSet(requests[i].list)
        /\ LongGrants /\ (\A i \in DOMAIN list[d] : Named(list[d][i])) => \A i \in DOMAIN requests : Named(requests[i])
    BY <2>1, <2>3, <2>5, RequestAdded
  <2>7. ASSUME LongGrants, ClaimsOnce(old, gosrc[d], list[d])
        PROVE  /\ ClaimsOnce(info2, gosrc[d], requests)
               /\ \A s \in Host : \A r \in Round :
                     Claims(info2, gosrc[d], requests, s, r) => Claims(old, gosrc[d], list[d], s, r)
    <3>1. InfoHolds(old) /\ gosrc[d] = <<>> /\ ~InfoHolds(info2)
        BY <1>12, <1>16, <2>4, <2>7 DEF ClaimsOnce
    <3>2. Claims(old, gosrc[d], list[d], m.nrts, m.round)
        BY <2>1, <2>4, <2>7, <3>1 DEF Claims
    <3>3. QED
        BY <1>7, <2>1, <2>7, <3>1, <3>2, ReturningClaimsLess
  <2> HIDE DEF requests
  <2>8. ReceiverOK(info2, wakeup, gosrc[d], requests)
    BY <1>7, <1>11, <1>13, <1>14, <2>6 DEF ReceiverOK
  <2>9. QED
    BY <1>1, <1>2, <1>3, <1>5, <2>2, <2>7, <2>8, ReceiverStepKeeps
<1>17. QED
    BY <1>15, <1>16

LEMMA ChainEndsKeeps ==
    ASSUME RufInv, NEW d \in Host, ChainEnds(d), UNCHANGED << arbitervars, tokens, faults >>
    PROVE  RufInv'
<1> DEFINE info  == gosrc_info[d]
           in    == {f \in flows[d] : Src[f] = info.src => ~flow[f].finished_at_receiver}
           asked == ListSrcs(flow, in, info, info.src, info.round)
           none  == [NoGrant EXCEPT !.send_nrts = TRUE]
           reset == [NoGrant EXCEPT !.send_nrts = info.send_nrts]
<1>1. /\ UNCHANGED << src_state, dst_state, outbound_cons, inbound_cons, ruf_q, gosrc, tokens, faults >>
      /\ UNCHANGED << flow, net >>
    BY DEF ChainEnds, arbitervars
<1>2. in \in SUBSET Flow
    BY FlowsAreTyped
<1>3. RufFlowsTyped' /\ \A m \in net' : IsPacket(m)
    BY <1>1, FlowsAreTyped DEF RufFlowsTyped
<1>4. info \in Grants /\ info.send_nrts \in BOOLEAN /\ info.round \in Round \cup {-1} /\ info.src \in Host \cup {NoHost}
    BY HostsAreTyped DEF Grants
<1>5. ReceiverOK(info, wakeup_evt[d], gosrc[d], list[d])
    BY ReceiverTyped
<1>6. gosrc' = [gosrc EXCEPT ![d] = gosrc[d]]
    BY <1>1, HostsAreTyped
<1>7. /\ none \in Grants /\ none.src = NoHost /\ ~InfoHolds(none) /\ InUse(none, TRUE)
      /\ reset \in Grants /\ reset.src = NoHost /\ ~InfoHolds(reset) /\ InUse(reset, wakeup_evt[d])
  <2>1. none \in Grants /\ none.src = NoHost /\ reset \in Grants /\ reset.src = NoHost
    BY <1>4, NoGrantIs, GrantReturned
  <2>2. QED
    BY <2>1 DEF InfoHolds, InUse
<1>8. \/ /\ info.src # NoHost /\ ~info.send_nrts
         /\ list' = [list EXCEPT ![d] = @ \o asked]
         /\ flows' = [flows EXCEPT ![d] = UnfinishedFlows(flow, d)]
         /\ wakeup_evt' = [wakeup_evt EXCEPT ![d] = TRUE]
         /\ gosrc_info' = [gosrc_info EXCEPT ![d] = none]
      \/ /\ flows' = [flows EXCEPT ![d] = in]
         /\ gosrc_info' = [gosrc_info EXCEPT ![d] = reset]
         /\ UNCHANGED << list, wakeup_evt >>
    BY DEF ChainEnds, ResetGrant
<1> HIDE DEF in, none, reset
<1>9. CASE /\ info.src # NoHost /\ ~info.send_nrts
           /\ list' = [list EXCEPT ![d] = @ \o asked]
           /\ flows' = [flows EXCEPT ![d] = UnfinishedFlows(flow, d)]
           /\ wakeup_evt' = [wakeup_evt EXCEPT ![d] = TRUE]
           /\ gosrc_info' = [gosrc_info EXCEPT ![d] = none]
  <2>1. PICK m \in Lists : asked = << m >> /\ m.nrts = info.src /\ m.round = info.round /\ IsFiniteSet(m.list)
    BY <1>2, <1>4, <1>9, FlowsAreTyped, ListSrcsIs
  <2> DEFINE requests == list[d] \o << m >>
  <2>2. list' = [list EXCEPT ![d] = requests]
    BY <1>9, <2>1
  <2>3. list[d] \in Seq(Lists) /\ \A i \in DOMAIN list[d] : IsFiniteSet(list[d][i].list)
    BY <1>5 DEF ReceiverOK
  <2>4. InfoHolds(info) /\ Named(m)
    BY <1>5, <1>9, <2>1 DEF InfoHolds, Named, ReceiverOK
  <2>5. /\ requests \in Seq(Lists) /\ \A i \in DOMAIN requests : IsFiniteSet(requests[i].list)
        /\ (\A i \in DOMAIN list[d] : Named(list[d][i])) => \A i \in DOMAIN requests : Named(requests[i])
    BY <2>1, <2>3, <2>4, RequestAdded
  <2>6. ASSUME ClaimsOnce(info, gosrc[d], list[d])
        PROVE  /\ ClaimsOnce(none, gosrc[d], requests)
               /\ \A s \in Host : \A r \in Round :
                     Claims(none, gosrc[d], requests, s, r) => Claims(info, gosrc[d], list[d], s, r)
    <3>1. gosrc[d] = <<>>
        BY <2>4, <2>6 DEF ClaimsOnce
    <3>2. Claims(info, gosrc[d], list[d], m.nrts, m.round)
        BY <2>1, <2>4 DEF Claims
    <3>3. QED
        BY <1>5, <1>7, <2>1, <2>4, <2>6, <3>1, <3>2, ReturningClaimsLess
  <2> HIDE DEF requests
  <2>7. ReceiverOK(none, TRUE, gosrc[d], requests)
    BY <1>5, <1>7, <2>5 DEF ReceiverOK
  <2>8. flows' \in [Host -> SUBSET Flow]
    BY <1>9, UnfinishedIs, FlowsAreTyped
  <2>9. QED
    BY <1>1, <1>3, <1>6, <1>9, <2>2, <2>6, <2>7, <2>8, ReceiverStepKeeps
<1>10. CASE /\ flows' = [flows EXCEPT ![d] = in]
            /\ gosrc_info' = [gosrc_info EXCEPT ![d] = reset]
            /\ UNCHANGED << list, wakeup_evt >>
  <2>1. list' = [list EXCEPT ![d] = list[d]] /\ wakeup_evt' = [wakeup_evt EXCEPT ![d] = wakeup_evt[d]]
    BY <1>10, HostsAreTyped
  <2>2. ReceiverOK(reset, wakeup_evt[d], gosrc[d], list[d])
    BY <1>5, <1>7 DEF ReceiverOK
  <2>3. LongGrants /\ ClaimsOnce(gosrc_info[d], gosrc[d], list[d]) =>
           /\ ClaimsOnce(reset, gosrc[d], list[d])
           /\ \A s \in Host : \A r \in Round :
                 Claims(reset, gosrc[d], list[d], s, r) => Claims(gosrc_info[d], gosrc[d], list[d], s, r)
    BY <1>7, GrantClaimsLess
  <2>4. flows' \in [Host -> SUBSET Flow] /\ gosrc_info' = [gosrc_info EXCEPT ![d] = reset]
    BY <1>2, <1>10, FlowsAreTyped
  <2> HIDE DEF info
  <2>5. QED
    BY <1>1, <1>3, <1>6, <2>1, <2>2, <2>3, <2>4, ReceiverStepKeeps
<1>11. QED
    BY <1>8, <1>9, <1>10

LEMMA SendTokenKeeps ==
    ASSUME RufInv, NEW d \in Host, SendToken(d)
    PROVE  RufInv'
<1>1. UNCHANGED << arbitervars, tokens, faults >>
    BY DEF SendToken
<1>2. CASE Hold(d)
  <2>1. UNCHANGED << flow, flows, list, gosrc_info, wakeup_evt, net >>
    BY <1>2 DEF Hold
  <2>2. RufFlowsTyped' /\ IsFiniteSet(tokens') /\ \A m \in (net \cup tokens)' : IsPacket(m)
    BY <1>1, <2>1, FlowsAreTyped DEF RufFlowsTyped
  <2>3. QED
    BY <1>1, <2>1, <2>2, FlowStepKeeps
<1>3. CASE ChainEnds(d)
    BY <1>1, <1>3, ChainEndsKeeps
<1>4. ASSUME NEW f \in Best(flow, flows[d], gosrc_info[d].src),
             \/ /\ Turn(d, f, WithToken(Taken(flow[f]), f), Used(gosrc_info[d]))
                /\ net' = net \cup {Packet("token", f, Taken(flow[f]).token_count, NextToken(Taken(flow[f]), f))}
             \/ /\ Turn(d, f, Taken(flow[f]), gosrc_info[d])
                /\ UNCHANGED net
      PROVE  RufInv'
  <2> DEFINE F == Taken(flow[f])
  <2>1. f \in Flow /\ gosrc_info[d].src = Src[f]
    BY <1>4, FlowsAreTyped DEF Best
  <2>2. gosrc_info[d].src # NoHost
    BY <2>1, InitTokenIs, RoundsAssumed
  <2>3. IsFlow(F)
    BY <2>1, FlowsAreTyped, TakenIs
  <2>4. IsFlow(WithToken(F, f)) /\ F.token_count \in Int
    BY <2>1, <2>3, WithTokenIs DEF IsFlow
  <2>5. Left(gosrc_info[d], gosrc_info[d]) /\ Left(gosrc_info[d], Used(gosrc_info[d]))
    BY <2>2, UsedIs
  <2>6. IsPacket(Packet("token", f, F.token_count, NextToken(F, f)))
    BY <2>1, <2>4, PacketIs
  <2>7. \A m \in net' : IsPacket(m)
    BY <1>4, <2>6, FlowsAreTyped
  <2> HIDE DEF F
  <2>8. CASE Turn(d, f, WithToken(F, f), Used(gosrc_info[d]))
    BY <1>1, <2>1, <2>4, <2>5, <2>7, <2>8, TurnKeeps
  <2>9. CASE Turn(d, f, F, gosrc_info[d])
    BY <1>1, <2>1, <2>3, <2>5, <2>7, <2>9, TurnKeeps
  <2>10. QED
    BY <1>4, <2>8, <2>9 DEF F
<1>5. QED
    BY <1>2, <1>3, <1>4 DEF SendToken

-----------------------------------------------------------------------------
(* Ruf: theorems *)

LEMMA RufStep ==
    ASSUME RufInv, [RufNext]_rufvars
    PROVE  RufInv'
<1>1. \A d \in Receivers : d \in Host
    BY InitTokenIs DEF Receivers
<1>2. CASE UNCHANGED rufvars
  <2>1. UNCHANGED << arbitervars, gosrc_info, wakeup_evt, flow, flows, list, tokens, net, faults >>
    BY <1>2 DEF rufvars, hostvars, flowvars
  <2>2. RufFlowsTyped' /\ IsFiniteSet(tokens') /\ \A m \in (net \cup tokens)' : IsPacket(m)
    BY <2>1, FlowsAreTyped DEF RufFlowsTyped
  <2>3. QED
    BY <2>1, <2>2, FlowStepKeeps
<1>3. ASSUME NEW f \in Flow, StartRufFlow(f) \/ ResendTimeout(f) \/ WindowTimeout(f)
      PROVE  RufInv'
    BY <1>3, StartRufFlowKeeps, ResendTimeoutKeeps, WindowTimeoutKeeps
<1>4. ASSUME NEW m \in net, Receive(m)
      PROVE  RufInv'
    BY <1>4, ReceiveTokenKeeps, ReceiveAckKeeps, ReceiveRtsKeeps, ReceiveDataKeeps DEF Receive
<1>5. ASSUME NEW s \in Senders, SenderTurn(s)
      PROVE  RufInv'
    BY <1>5, SenderTurnKeeps
<1>6. ASSUME NEW d \in Receivers, SendToken(d) \/ Wakeup(d) \/ ReceiveGoSrc(d) \/ ArbiterReceives(d)
      PROVE  RufInv'
    BY <1>1, <1>6, SendTokenKeeps, WakeupKeeps, ReceiveGoSrcKeeps, ArbiterReceivesKeeps
<1>7. ASSUME NEW h \in Host, ArbiterTimeout(h)
      PROVE  RufInv'
    BY <1>7, ArbiterTimeoutKeeps
<1>8. ASSUME Epoch
      PROVE  RufInv'
    BY <1>8, EpochKeeps
<1>9. ASSUME NEW kind \in Faults, Lose(kind)
      PROVE  RufInv'
    BY <1>9, LoseKeeps
<1>10. QED
    BY <1>2, <1>3, <1>4, <1>5, <1>6, <1>7, <1>8, <1>9 DEF RufNext

\* RufInv holds of every behaviour of RUF: any flows, hosts, grants and faults, the
\* requests of an epoch served in any order the comparator of the heap allows.
THEOREM RufInvariant == RufSpec => []RufInv
<1>1. RufInit => RufInv
    BY RufStart
<1>2. RufInv /\ [RufNext]_rufvars => RufInv'
    BY RufStep
<1>3. QED
    BY <1>1, <1>2, PTL DEF RufSpec

\* What send_token asserts: a grant in use has tokens left, and a receiver that waits for
\* its wakeup has returned its source.  This needs neither long grants nor a lead.
THEOREM GrantsStayInUse == RufSpec => []GrantsInUse
<1>1. RufInv => GrantsInUse
  <2>1. SUFFICES ASSUME RufInv, NEW d \in Receivers, gosrc_info[d].src # NoHost
                 PROVE  gosrc_info[d].remain_tokens > 0 /\ (wakeup_evt[d] => gosrc_info[d].send_nrts)
    BY DEF GrantsInUse
  <2>2. d \in Host
    BY InitTokenIs DEF Receivers
  <2>3. QED
    BY <2>1, <2>2 DEF RufInv, InUse
<1>2. QED
    BY <1>1, RufInvariant, PTL

\* The connections of a rack are the busy sources and the busy receivers, and no more:
\* whichever of NRTS, timeout and next grant comes first, each is given back once.
THEOREM ConnectionsStayKept ==
    ASSUME LongGrants
    PROVE  RufSpec => []ConnectionsKept
<1>1. RufInv => ConnectionsKept
    BY DEF RufInv, Kept, ConnectionsKept
<1>2. QED
    BY <1>1, RufInvariant, PTL

LEMMA HolderClaims ==
    ASSUME RufInv, NEW s \in Senders, NEW d \in Holders(s)
    PROVE  d \in Host /\ s \in Host /\ \E r \in Round : Claims(gosrc_info[d], gosrc[d], list[d], s, r)
<1>1. d \in Host /\ s \in Host /\ s # NoHost
    BY InitTokenIs, RoundsAssumed DEF Holders, Senders
<1>2. ReceiverOK(gosrc_info[d], wakeup_evt[d], gosrc[d], list[d])
    BY <1>1, ReceiverTyped
<1>3. CASE gosrc_info[d].src = s /\ ~gosrc_info[d].send_nrts
  <2>1. gosrc_info[d].round \in Round /\ InfoHolds(gosrc_info[d])
    BY <1>1, <1>2, <1>3 DEF ReceiverOK, InfoHolds
  <2>2. Claims(gosrc_info[d], gosrc[d], list[d], s, gosrc_info[d].round)
    BY <1>3, <2>1 DEF Claims
  <2>3. QED
    BY <1>1, <2>1, <2>2
<1>4. ASSUME NEW i \in DOMAIN gosrc[d], gosrc[d][i].src = s
      PROVE  \E r \in Round : Claims(gosrc_info[d], gosrc[d], list[d], s, r)
  <2>1. gosrc[d] \in Seq(GoSrcs)
    BY <1>2 DEF ReceiverOK
  <2>2. gosrc[d][i].round \in Round
    <3>1. gosrc[d][i] \in GoSrcs
        BY <1>4, <2>1
    <3>2. QED
        BY <3>1 DEF GoSrcs
  <2>3. Claims(gosrc_info[d], gosrc[d], list[d], s, gosrc[d][i].round)
    BY <1>4 DEF Claims
  <2>4. QED
    BY <2>2, <2>3
<1>5. QED
    BY <1>1, <1>3, <1>4 DEF Holders

\* A source serves one receiver at a time, and is not free meanwhile, as long as the
\* arbiter has not taken it back too early (its timeout): whatever packets are lost.
THEOREM SourcesAreShared ==
    ASSUME LongGrants
    PROVE  RufSpec => []SourceShared
<1>1. RufInv => SourceShared
  <2>1. SUFFICES ASSUME RufInv, ~Happened("arbiter"), NEW s \in Senders
                 PROVE  Cardinality(Holders(s)) <= 1 /\ (Holders(s) # {} => ~src_state[s].state)
    BY DEF SourceShared
  <2>2. ClaimsKnown(src_state, dst_state, gosrc_info, gosrc, list)
    BY <2>1 DEF RufInv
  <2>3. CASE Holders(s) = {}
    BY <2>3, FS_EmptySet
  <2>4. CASE Holders(s) # {}
    <3>1. PICK d \in Holders(s) : TRUE
        BY <2>4
    <3>2. \A e \in Holders(s) : e \in Host /\ s \in Host /\ \E r \in Round : Claims(gosrc_info[e], gosrc[e], list[e], s, r)
        BY <2>1, HolderClaims
    <3>3. \A e \in Holders(s) : e = d
        BY <2>2, <3>1, <3>2 DEF ClaimsKnown
    <3>4. Holders(s) = {d}
        BY <3>1, <3>3
    <3>5. Cardinality(Holders(s)) = 1
        BY <3>4, FS_Singleton
    <3>6. ~src_state[s].state
        BY <2>2, <3>1, <3>2 DEF ClaimsKnown, Serving
    <3>7. QED
        BY <3>5, <3>6
  <2>5. QED
    BY <2>3, <2>4
<1>2. QED
    BY <1>1, RufInvariant, PTL
=============================================================================
