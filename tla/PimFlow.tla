------------------------------ MODULE PimFlow ------------------------------
(***************************************************************************)
(* The data phase of dcPIM (ext/pimflow.cpp, PIM_Vlink and PimHost of      *)
(* ext/pimhost.cpp): a receiver paces tokens to one source, one DATA       *)
(* packet for each, over the links that the matching (PimMatch) gave the   *)
(* pair.                                                                   *)
(*                                                                         *)
(*     sender:    RTS ->            DATA ->                                *)
(*     receiver:          token ->          token -> ... ACK ->            *)
(*                                                                         *)
(* A link is a chain of events: each one sends a token for the best flow   *)
(* and posts the next.  The chain stops when no flow may have a token, and *)
(* something else must start it again.  A token may expire at the sender,  *)
(* and DATA and tokens may be lost; a flow whose tokens have all been sent *)
(* once waits for token_resend_timeout before it starts again with what is *)
(* missing.                                                                *)
(*                                                                         *)
(* The comparators of the two heaps (src_to_flows, token_q) read numbers   *)
(* that change while the flow is in the heap, or are no strict order: the  *)
(* models takes any element for the top.  Sender and receiver share the    *)
(* flow object.                                                            *)
(***************************************************************************)
EXTENDS Integers, FiniteSets, FiniteSetsExt, TLC

CONSTANTS
    Flow,            \* the flows of one source and destination
    Size,            \* size_in_pkt of each
    TokenInitial,    \* params.token_initial: a flow of this size or less needs no tokens
    TokenWindow,     \* params.token_window
    K,               \* params.pim_k
    Lossy,           \* the kinds of packets that a queue may drop
    RtsFirst,        \* no DATA overtakes the RTS of its flow
    MaxFaults        \* bound: packets lost, tokens expired, and timeouts too early

ASSUME TokenAssumption ==
    /\ Size \in [Flow -> Nat \ {0}]
    /\ TokenInitial \in Nat /\ TokenWindow \in Nat /\ K \in Nat \ {0}
    /\ "none" \notin Flow /\ "due" \notin Flow

ASSUME TokenBoundsAssumption ==
    /\ Lossy \subseteq {"rts", "token", "data", "ack"} /\ RtsFirst \in BOOLEAN
    /\ MaxFaults \in Nat

VARIABLES
    flow,        \* the PimFlow objects
    queue,       \* src_to_flows[source] of the receiver
    hold_on,     \* turns that the receiver leaves to the packets of a short flow
    num_links,   \* the links of the pair: of the data phase, and prompt ones
    event,       \* token_send_evt of each: "none", "due", or the flow it waits for
    token_q,     \* tokens at the sender
    pump,        \* whether the sender's host_proc_event is pending
    net,         \* packets under way
    faults       \* packets lost, tokens expired and timeouts too early so far

vars == << flow, queue, hold_on, num_links, event, token_q, pump, net, faults >>

Link == {"data", "prompt"}

Larger(a, b) == IF a < b THEN b ELSE a

\* A PimFlow.  redundancy stands for redundancy_ctrl_timeout: "none" for -1, "waiting"
\* before that time and "met" after it.  window_old: token_window_timeout has passed
\* since latest_token_sent_time.
NewFlow(f) ==
    [ started |-> FALSE, rts_received |-> FALSE, packets_received |-> {}, received_count |-> 0,
      token_count |-> 0, token_goal |-> Size[f], redundancy |-> "none", window_old |-> TRUE,
      largest_token_seq_received |-> -1, last_token_data_seq_num_sent |-> -1,
      finished_at_receiver |-> FALSE, finished |-> FALSE, finish_events |-> 0 ]

Init ==
    /\ flow = [f \in Flow |-> NewFlow(f)]
    /\ queue = {} /\ hold_on = 0
    /\ num_links = [l \in Link |-> 0] /\ event = [l \in Link |-> "none"]
    /\ token_q = {} /\ pump = FALSE
    /\ net = {} /\ faults = 0

Packet(type, f, seq, data) == [type |-> type, flow |-> f, seq |-> seq, data |-> data]

\* init_token_size.
InitToken(f) == IF Size[f] <= TokenInitial THEN Size[f] ELSE 0

Missing(F, f) == 0 .. Size[f] - 1 \ F.packets_received

\* token_gap: tokens sent after the one of the latest DATA packet.
Gap(F) == F.token_count - F.largest_token_seq_received - 1

\* get_next_token_seq_num: the next missing packet, and after the last one the first
\* missing (received_until).
NextToken(F, f) ==
    LET start == (F.last_token_data_seq_num_sent + 1) % Size[f]
        ahead == {d \in Missing(F, f) : d >= start}
    IN  IF ahead = {} THEN Min(Missing(F, f)) ELSE Min(ahead)

-----------------------------------------------------------------------------
(* The sender *)

\* PimHost::start_flow and assign_init_token: a short flow has all its tokens at once.
StartFlow(f) ==
    LET tokens == {Packet("init", f, i, i) : i \in 0 .. InitToken(f) - 1}
    IN  /\ ~flow[f].started
        /\ flow' = [flow EXCEPT ![f].started = TRUE]
        /\ net' = net \cup {Packet("rts", f, 0, 0)}
        /\ token_q' = token_q \cup tokens
        /\ pump' = (pump \/ token_q' # {})
        /\ UNCHANGED << queue, hold_on, num_links, event, faults >>

ReceiveToken(m) ==
    /\ m.type = "token"
    /\ net' = net \ {m}
    /\ IF flow[m.flow].finished THEN UNCHANGED << token_q, pump >>
       ELSE token_q' = token_q \cup {m} /\ pump' = TRUE
    /\ UNCHANGED << flow, queue, hold_on, num_links, event, faults >>

\* PimHost::send: tokens that have expired are dropped up to one that has not, and its
\* DATA packet is sent.  The tokens of a short flow never expire.
SenderTurn ==
    /\ pump
    /\ \E old \in SUBSET {t \in token_q : t.type = "token"} :
          /\ faults' = faults + Cardinality(old) /\ faults' <= MaxFaults
          /\ \/ /\ old = token_q
                /\ token_q' = {} /\ pump' = FALSE /\ UNCHANGED net
             \/ \E t \in token_q \ old :
                   /\ token_q' = (token_q \ old) \ {t}
                   /\ net' = net \cup {Packet("data", t.flow, t.seq, t.data)}
                   /\ UNCHANGED pump
    /\ UNCHANGED << flow, queue, hold_on, num_links, event >>

\* The first ACK posts the FlowFinishedEvent, which is processed at once; the sender
\* clears packets_received of the object that both ends share.
ReceiveAck(m) ==
    LET f == m.flow
    IN  /\ m.type = "ack"
        /\ net' = net \ {m}
        /\ flow' = IF flow[f].finished THEN flow
                   ELSE [flow EXCEPT ![f].packets_received = {}, ![f].finished = TRUE, ![f].finish_events = @ + 1]
        /\ UNCHANGED << queue, hold_on, num_links, event, token_q, pump, faults >>

-----------------------------------------------------------------------------
(* The receiver *)

\* receive_short_flow: the sender has sent all tokens itself.
ShortFlow(F, f) ==
    [F EXCEPT !.rts_received = TRUE, !.token_count = InitToken(f),
              !.last_token_data_seq_num_sent = InitToken(f) - 1,
              !.redundancy = IF InitToken(f) = F.token_goal THEN "waiting" ELSE @]

\* Mutant: only a chain that waits is started again, not one that has ended.
RestartedWaiting(f, tops) ==
    IF f \in tops /\ num_links["data"] > 0 /\ event["data"] \in Flow
    THEN [event EXCEPT !["data"] = "due"] ELSE event

\* The chain of the data phase is started again when f is the top flow, unless it is
\* running.
Restarted(f, tops) ==
    IF f \in tops /\ num_links["data"] > 0 /\ event["data"] \in Flow \cup {"none"}
    THEN [event EXCEPT !["data"] = "due"] ELSE event

\* PimHost::receive_rts.  The top of the heap may be a flow that is finished.
ReceiveRts(m) ==
    LET f == m.flow
    IN  /\ m.type = "rts"
        /\ net' = net \ {m}
        /\ IF flow[f].finished \/ flow[f].rts_received
           THEN UNCHANGED << flow, queue, hold_on, event >>
           ELSE /\ queue' = queue \cup {f}
                /\ IF Size[f] > TokenInitial
                   THEN /\ flow' = [flow EXCEPT ![f].rts_received = TRUE]
                        /\ \E top \in queue' : event' = Restarted(f, {top})
                        /\ UNCHANGED hold_on
                   ELSE /\ flow' = [flow EXCEPT ![f] = ShortFlow(@, f)]
                        /\ hold_on' = InitToken(f)
                        /\ UNCHANGED event
        /\ UNCHANGED << num_links, token_q, pump, faults >>

\* get_top_unfinish_flow: the flows it may find, passing over those that are finished
\* and those that wait for their resend timeout.
Finished(objects)   == {f \in queue : objects[f].finished_at_receiver}
Candidates(objects) == {f \in queue \ Finished(objects) : objects[f].redundancy # "waiting"}

\* Mutant: a flow whose last token has been sent does not wait.
WrappedNever(F, f) == FALSE

\* The token just sent was that of the last missing packet.
Wrapped(F, f) == F.last_token_data_seq_num_sent >= NextToken(F, f)

\* The window of n links, of which the test before the timeout rounds down.
WindowFull(F, n) == Gap(F) > (TokenWindow \div K) * n
MaySend(F, n)    == Gap(F) * K <= TokenWindow * n

\* The flow's state when a link of n takes it: after its resend timeout it starts
\* again, and after the window timeout it takes older tokens for lost.
Taken(F, f, n) ==
    LET again == IF F.redundancy # "met" THEN F
                 ELSE [F EXCEPT !.redundancy = "none", !.token_goal = @ + Size[f] - F.received_count]
    IN  IF WindowFull(again, n) /\ F.window_old
        THEN [again EXCEPT !.largest_token_seq_received = F.token_count - (TokenWindow \div K) * n]
        ELSE again

\* send_token_pkt, and the resend timeout after the last one.
WithToken(F, f) ==
    LET sent == [F EXCEPT !.token_count = @ + 1, !.last_token_data_seq_num_sent = NextToken(F, f), !.window_old = FALSE]
    IN  [sent EXCEPT !.redundancy = IF Wrapped(sent, f) THEN "waiting" ELSE @]

\* A link's turn is left to the packets of a short flow.
Hold(l) ==
    /\ num_links[l] > 0 /\ hold_on > 0
    /\ hold_on' = hold_on - 1
    /\ UNCHANGED << flow, queue, event, net >>

\* A token for f; the chain goes on.  An older timer of another link may now come first.
TokenFor(f, F) ==
    /\ flow' = [flow EXCEPT ![f] = WithToken(F, f)]
    /\ net' = net \cup {Packet("token", f, F.token_count, NextToken(F, f))}
    /\ event' = [i \in Link |-> IF event[i] = f THEN "due" ELSE event[i]]

WaitForWindow(l, f, F) ==
    /\ flow' = [flow EXCEPT ![f] = F]
    /\ event' = [event EXCEPT ![l] = f]
    /\ UNCHANGED net

\* PIM_Vlink::send_token.
SendToken(l) ==
    /\ event[l] = "due"
    /\ \/ Hold(l)
       \/ /\ num_links[l] = 0 \/ (hold_on = 0 /\ Candidates(flow) = {})
          /\ event' = [event EXCEPT ![l] = "none"]
          /\ queue' = IF num_links[l] = 0 THEN queue ELSE queue \ Finished(flow)
          /\ UNCHANGED << flow, hold_on, net >>
       \/ /\ num_links[l] > 0 /\ hold_on = 0
          /\ \E f \in Candidates(flow), popped \in SUBSET Finished(flow) :
                LET F == Taken(flow[f], f, num_links[l])
                IN  /\ queue' = queue \ popped
                    /\ IF MaySend(F, num_links[l]) THEN TokenFor(f, F) ELSE WaitForWindow(l, f, F)
          /\ UNCHANGED hold_on
    /\ UNCHANGED << num_links, token_q, pump, faults >>

\* Mutant: a packet that comes twice is counted twice.
WithDataTwice(F, m) ==
    [F EXCEPT !.packets_received = @ \cup {m.data}, !.received_count = @ + 1,
              !.largest_token_seq_received = Larger(@, m.seq)]

\* The DATA packet of a token, of which a packet may have several.
WithData(F, m) ==
    [F EXCEPT !.packets_received = @ \cup {m.data},
              !.received_count = IF m.data \in F.packets_received THEN @ ELSE @ + 1,
              !.largest_token_seq_received = Larger(@, m.seq)]

\* PimFlow::receive of DATA before the flow has finished.  Beyond its goal every packet
\* is acknowledged; before it, a chain that waits for the window goes on.
TakeData(m) ==
    LET f      == m.flow
        before == IF flow[f].rts_received THEN flow[f] ELSE ShortFlow(flow[f], f)
        F      == WithData(before, m)
        after  == [flow EXCEPT ![f] = F]
    IN  /\ hold_on' = IF flow[f].rts_received THEN hold_on ELSE InitToken(f)
        /\ \/ /\ F.received_count >= Size[f]
              /\ flow' = [after EXCEPT ![f].finished_at_receiver = TRUE]
              /\ net' = (net \ {m}) \cup {Packet("ack", f, m.seq, 0)}
              /\ UNCHANGED << queue, event >>
           \/ /\ F.received_count < Size[f] /\ Gap(F) \notin 0 .. TokenWindow
              /\ flow' = after /\ net' = net \ {m}
              /\ UNCHANGED << queue, event >>
           \/ /\ F.received_count < Size[f] /\ Gap(F) \in 0 .. TokenWindow
              /\ flow' = after /\ net' = net \ {m}
              /\ \/ /\ Candidates(after) = {}
                    /\ queue' = queue \ Finished(after)
                    /\ UNCHANGED event
                 \/ \E top \in Candidates(after), popped \in SUBSET Finished(after) :
                       queue' = queue \ popped /\ event' = Restarted(f, {top})

ReceiveData(m) ==
    /\ m.type = "data"
    /\ RtsFirst => \A r \in net : r.type = "rts" => r.flow # m.flow
    /\ IF flow[m.flow].finished
       THEN net' = net \ {m} /\ UNCHANGED << flow, queue, hold_on, event >>
       ELSE TakeData(m)
    /\ UNCHANGED << num_links, token_q, pump, faults >>

-----------------------------------------------------------------------------
(* What the matching does to the links *)

\* schedule_receiver_iter_evt, last round: both chains are cancelled and the one of
\* the new data phase is started.
NewDataPhase(n) ==
    /\ num_links' = [l \in Link |-> IF l = "data" THEN n ELSE 0]
    /\ event' = [l \in Link |-> IF l = "data" /\ n > 0 THEN "due" ELSE "none"]
    /\ UNCHANGED << flow, queue, hold_on, token_q, pump, net, faults >>

\* handle_all_grants: prompt links, with those of the data phase no more than pim_k
\* (ReceiverPaced in PimMatch).
PromptAccepted(n) ==
    /\ num_links["data"] + num_links["prompt"] + n <= K
    /\ num_links' = [num_links EXCEPT !["prompt"] = @ + n]
    /\ event' = [event EXCEPT !["prompt"] = "due"]
    /\ UNCHANGED << flow, queue, hold_on, token_q, pump, net, faults >>

\* receive_grantsr: the prompt links are gone.
PromptReturned ==
    /\ num_links["prompt"] > 0
    /\ num_links' = [num_links EXCEPT !["prompt"] = 0]
    /\ event' = [event EXCEPT !["prompt"] = "none"]
    /\ UNCHANGED << flow, queue, hold_on, token_q, pump, net, faults >>

-----------------------------------------------------------------------------
(* Time and losses *)

UnderWay(f) == {m \in net \cup token_q : m.flow = f /\ m.type # "ack"}

\* A timeout comes after what it waits for is lost, or too early.
Timely(f) == faults' = (IF UnderWay(f) = {} THEN faults ELSE faults + 1) /\ faults' <= MaxFaults

\* token_resend_timeout passes; no event is posted for this.
ResendTimeout(f) ==
    /\ flow[f].redundancy = "waiting" /\ ~flow[f].finished_at_receiver
    /\ Timely(f)
    /\ flow' = [flow EXCEPT ![f].redundancy = "met"]
    /\ UNCHANGED << queue, hold_on, num_links, event, token_q, pump, net >>

\* token_window_timeout passes; the chains that wait for it go on.
WindowTimeout(f) ==
    /\ ~flow[f].window_old /\ ~flow[f].finished_at_receiver
    /\ Timely(f)
    /\ flow' = [flow EXCEPT ![f].window_old = TRUE]
    /\ event' = [l \in Link |-> IF event[l] = f THEN "due" ELSE event[l]]
    /\ UNCHANGED << queue, hold_on, num_links, token_q, pump, net >>

Lose(m) ==
    /\ m.type \in Lossy /\ faults < MaxFaults
    /\ faults' = faults + 1
    /\ net' = net \ {m}
    /\ UNCHANGED << flow, queue, hold_on, num_links, event, token_q, pump >>

Next ==
    \/ \E f \in Flow : StartFlow(f) \/ ResendTimeout(f) \/ WindowTimeout(f)
    \/ \E m \in net : ReceiveToken(m) \/ ReceiveAck(m) \/ ReceiveRts(m) \/ ReceiveData(m) \/ Lose(m)
    \/ SenderTurn
    \/ \E l \in Link : SendToken(l)
    \/ \E n \in 0 .. K : NewDataPhase(n)
    \/ \E n \in 1 .. K : PromptAccepted(n)
    \/ PromptReturned

Unfinished == \E f \in Flow : ~flow[f].finished_at_receiver

\* Events are processed and timers run out.  The matching gives the pair links again and
\* again while it has a flow, and the first token of a data phase is due at once.
Fairness ==
    /\ \A f \in Flow : WF_vars(StartFlow(f)) /\ WF_vars(ResendTimeout(f)) /\ WF_vars(WindowTimeout(f))
    /\ WF_vars(\E m \in net : ReceiveToken(m) \/ ReceiveAck(m) \/ ReceiveRts(m) \/ ReceiveData(m))
    /\ WF_vars(SenderTurn)
    /\ SF_vars(SendToken("data")) /\ WF_vars(SendToken("prompt"))
    /\ WF_vars(Unfinished /\ \E n \in 1 .. K : NewDataPhase(n))

Spec == Init /\ [][Next]_vars /\ Fairness

-----------------------------------------------------------------------------
(* Properties *)

\* Until its first resend timeout a flow has no more tokens than packets: none is asked
\* for twice (the test for the last packet in send_token).
TokensWithinGoal ==
    \A f \in Flow : flow[f].token_goal = Size[f] => flow[f].token_count <= Size[f]

\* After it, a packet that comes late makes the receiver pass the last token without
\* noticing, and the tokens start a third time without a timeout.
TokensWithinGoalAgain ==
    \A f \in Flow : flow[f].token_count <= flow[f].token_goal

HasWaited == {f \in Flow : flow[f].redundancy # "none" \/ flow[f].token_goal > Size[f]}

\* While the pair has links and a flow may have a token, their chain of events runs,
\* as long as no flow has waited for its resend timeout (receive_rts, the restart in
\* PimFlow::receive, send_token).
LinkAwake ==
    num_links["data"] > 0 /\ HasWaited = {} /\ Candidates(flow) # {} => event["data"] # "none"

\* Not so after a flow has waited: the chain has stopped, and the RTS of a flow that is
\* not the top of the heap does not start it.
LinkAwakeAlways ==
    num_links["data"] > 0 /\ (\E f \in Candidates(flow) : flow[f].redundancy = "none") => event["data"] # "none"

EventuallyFinished == \A f \in Flow : <>flow[f].finished


\* Distinct packets that have arrived; packets_received is cleared at the end.
Delivered(f) ==
    IF flow[f].finished THEN flow[f].received_count ELSE Cardinality(flow[f].packets_received)

-----------------------------------------------------------------------------
(* The inductive invariant behind TokensWithinGoal, LinkAwake and the      *)
(* transfer (MCPimFlow)                                                    *)

Packets == {m \in [ type : {"init", "rts", "token", "data", "ack"}, flow : Flow, seq : Nat, data : Nat ] :
               m.data < Size[m.flow]}

FlowStates ==
    [ started : BOOLEAN, rts_received : BOOLEAN, packets_received : SUBSET Nat, received_count : Nat,
      token_count : Nat, token_goal : Nat, redundancy : {"none", "waiting", "met"}, window_old : BOOLEAN,
      largest_token_seq_received : Int, last_token_data_seq_num_sent : Int,
      finished_at_receiver : BOOLEAN, finished : BOOLEAN, finish_events : Nat ]

\* The type invariant.
TypeOK ==
    /\ flow \in [Flow -> FlowStates]
    /\ queue \in SUBSET Flow /\ hold_on \in Nat
    /\ num_links \in [Link -> 0 .. K] /\ event \in [Link -> Flow \cup {"none", "due"}]
    /\ token_q \in SUBSET {m \in Packets : m.type \in {"init", "token"}} /\ IsFiniteSet(token_q)
    /\ pump \in BOOLEAN /\ net \in SUBSET Packets /\ faults \in 0 .. MaxFaults

\* A packet is counted once, and the receiver is done with the last one.  The sender
\* clears packets_received.
CountOf(F, f) ==
    /\ ~F.finished => /\ F.packets_received \subseteq 0 .. Size[f] - 1
                      /\ F.received_count = Cardinality(F.packets_received)
    /\ F.received_count <= Size[f]
    /\ F.finished_at_receiver <=> F.received_count = Size[f]
    /\ F.finished => F.finished_at_receiver
    /\ F.finish_events = IF F.finished THEN 1 ELSE 0

\* Only then does the receiver acknowledge.
CountsTrue ==
    /\ \A f \in Flow : CountOf(flow[f], f)
    /\ \A m \in net : m.type = "ack" => flow[m.flow].finished_at_receiver

\* How many packets have been asked for, with those that the sender need not be asked for.
Asked(F, f) == IF F.rts_received THEN F.token_count ELSE InitToken(f)

\* Until its first resend timeout a flow is asked for its packets in order, and for the
\* last one last; then it waits.
RoundOf(F, f) ==
    /\ F.token_goal >= Size[f]
    /\ F.rts_received => F.token_count >= InitToken(f)
    /\ F.token_goal = Size[f] =>
          /\ F.last_token_data_seq_num_sent = F.token_count - 1
          /\ F.token_count <= Size[f]
          /\ F.redundancy = "none" => F.token_count < Size[f] /\ ~F.finished_at_receiver
          /\ ~F.finished => F.packets_received \subseteq 0 .. Asked(F, f) - 1
          /\ ~F.rts_received => F.token_count = 0

\* No packet is under way that was not asked for.
AsksInOrder ==
    /\ \A f \in Flow : RoundOf(flow[f], f)
    /\ \A f \in queue : flow[f].rts_received
    /\ \A m \in net \cup token_q :
          m.type \in {"init", "token", "data"} /\ flow[m.flow].token_goal = Size[m.flow]
          => m.data < Asked(flow[m.flow], m.flow)

PimInv == TypeOK /\ CountsTrue /\ AsksInOrder /\ LinkAwake
=============================================================================
