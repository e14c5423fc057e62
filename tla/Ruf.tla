-------------------------------- MODULE Ruf --------------------------------
(***************************************************************************)
(* RUF (ext/rufhost.cpp, ext/rufflow.cpp): receivers ask the arbiter for a *)
(* source; the one that gets it (RufGoSrc) sends tokens to that source, a  *)
(* DATA packet for each, as many as it was granted, and returns the source *)
(* shortly before it is done, with its next requests.                      *)
(*                                                                         *)
(*     sender:    RTS ->                       DATA ->                     *)
(*     receiver:         ListSrcs ->    token ->      NRTS, ListSrcs ->    *)
(*     arbiter:                 GoSrc ->                           GoSrc ->*)
(*                                                                         *)
(* Two events drive a receiver: token_send_evt, a chain that sends tokens  *)
(* and may wait for the window, and wakeup_evt, which asks again as long   *)
(* as there are flows and no grant.                                        *)
(*                                                                         *)
(* There is one flow at most for a source and a receiver, so that the      *)
(* heaps of src_to_flows hold one flow each.  A pair of hosts shares the   *)
(* flow object.                                                            *)
(***************************************************************************)
EXTENDS RufArbiter, TLC

CONSTANTS
    Flow, Src, Dst,
    Size,            \* size_in_pkt
    TokenInitial,    \* params.token_initial: a flow of this size or less needs no tokens
    TokenWindow,     \* params.token_window
    Lead,            \* packets that can be sent in a round trip to the arbiter and an epoch
    IdleLong,        \* rufhost_idle_timeout is longer than a chain can go on after an NRTS
    Faults,          \* what may go wrong, see FaultKinds
    MaxFaults        \* bound: packets lost and timeouts too early

\* A packet of a kind is lost, a token expires before it is used, or the resend timeout, the
\* window timeout or a timeout of the arbiter passes before what it waits for is lost.
FaultKinds == {"rts", "list", "gosrc", "token", "data", "ack"} \cup {"expired", "resend", "window", "arbiter"}

ASSUME RufAssumption ==
    /\ IsFiniteSet(Flow) /\ Src \in [Flow -> Host] /\ Dst \in [Flow -> Host] /\ Size \in [Flow -> Nat \ {0}]
    /\ \A f, g \in Flow : Src[f] = Src[g] /\ Dst[f] = Dst[g] => f = g
    /\ TokenInitial \in Nat /\ TokenWindow \in Nat \ {0} /\ Lead \in Nat
    /\ IdleLong \in BOOLEAN /\ Faults \subseteq FaultKinds
    /\ MaxFaults \in Nat

VARIABLES
    flow,            \* the RufFlow objects
    flows,           \* the flows in src_to_flows of each receiver
    gosrc_info,
    token_send_evt,  \* "none", "due", or the flow whose window it waits for
    wakeup_evt,      \* whether it is pending
    hold_on,
    tokens,          \* at the senders
    list,            \* RufListSrcs packets on their way to the arbiter, of each receiver
    net,             \* RTS, tokens, DATA and ACKs under way
    faults           \* what was lost or came too early

hostvars == << gosrc_info, token_send_evt, wakeup_evt, hold_on >>
flowvars == << flow, flows, tokens, net >>
rufvars == << arbitervars, hostvars, flowvars, list, faults >>

Senders == {Src[f] : f \in Flow}
Receivers == {Dst[f] : f \in Flow}

Larger(a, b) == IF a < b THEN b ELSE a
Smaller(a, b) == IF a < b THEN a ELSE b

\* redundancy stands for redundancy_ctrl_timeout: "none" for -1, "waiting" before that
\* time and "met" after it.  window_old: token_window_timeout has passed since
\* latest_token_sent_time.
NewFlow ==
    [ started |-> FALSE, rts_received |-> FALSE, packets_received |-> {}, received_count |-> 0,
      token_count |-> 0, redundancy |-> "none", window_old |-> TRUE,
      largest_token_seq_received |-> -1, last_token_data_seq_num_sent |-> -1,
      finished_at_receiver |-> FALSE, finished |-> FALSE ]

NoGrant == [ src |-> NoHost, remain_tokens |-> -1, round |-> -1, send_nrts |-> FALSE ]

RufInit ==
    /\ ArbiterInit
    /\ flow = [f \in Flow |-> NewFlow] /\ flows = [h \in Host |-> {}]
    /\ gosrc_info = [h \in Host |-> NoGrant] /\ token_send_evt = [h \in Host |-> "none"]
    /\ wakeup_evt = [h \in Host |-> FALSE] /\ hold_on = [h \in Host |-> 0]
    /\ tokens = {} /\ list = [h \in Host |-> <<>>] /\ net = {} /\ faults = <<>>

Packet(type, f, seq, data) == [ type |-> type, flow |-> f, seq |-> seq, data |-> data ]

\* init_token_size.
InitToken(f) == IF Size[f] <= TokenInitial THEN Size[f] ELSE 0

Remaining(F, f) == Size[f] - F.received_count

\* token_gap.
Gap(F) == F.token_count - F.largest_token_seq_received - 1

\* Packets that a flow needs beyond its tokens under way.
Need(F, f) == Remaining(F, f) - Gap(F)

\* get_next_token_seq_num: the next missing packet, and after the last one the first.
NextToken(F, f) ==
    LET missing == 0 .. Size[f] - 1 \ F.packets_received
        ahead   == {d \in missing : d >= (F.last_token_data_seq_num_sent + 1) % Size[f]}
    IN  IF ahead = {} THEN Min(missing) ELSE Min(ahead)

-----------------------------------------------------------------------------
(* The sender *)

\* start_ruf_flow, assign_init_token, sending_rts.
StartRufFlow(f) ==
    /\ ~flow[f].started
    /\ flow' = [flow EXCEPT ![f].started = TRUE]
    /\ tokens' = tokens \cup {Packet("init", f, i, i) : i \in 0 .. InitToken(f) - 1}
    /\ net' = net \cup {Packet("rts", f, 0, 0)}
    /\ UNCHANGED << arbitervars, hostvars, flows, list, faults >>

ReceiveToken(m) ==
    /\ m.type = "token"
    /\ net' = net \ {m}
    /\ tokens' = IF flow[m.flow].finished THEN tokens ELSE tokens \cup {m}
    /\ UNCHANGED << arbitervars, hostvars, flow, flows, list, faults >>

\* RufHost::send: tokens that have expired are dropped up to one that has not, and its
\* DATA packet is sent.  The tokens of a short flow never expire.
SenderTurn(s) ==
    LET mine == {t \in tokens : Src[t.flow] = s}
    IN  /\ mine # {}
        /\ \E old \in SUBSET {t \in mine : t.type = "token"} :
              /\ faults' = faults \o [i \in 1 .. Cardinality(old) |-> "expired"]
              /\ Len(faults') <= MaxFaults
              /\ \/ old = mine /\ tokens' = tokens \ mine /\ UNCHANGED net
                 \/ \E t \in mine \ old :
                       /\ tokens' = (tokens \ old) \ {t}
                       /\ net' = net \cup {Packet("data", t.flow, t.seq, t.data)}
        /\ UNCHANGED << arbitervars, hostvars, flow, flows, list >>

\* The first ACK posts the FlowFinishedEvent.
ReceiveAck(m) ==
    LET f == m.flow
    IN  /\ m.type = "ack"
        /\ net' = net \ {m}
        /\ flow' = IF flow[f].finished THEN flow
                   ELSE [flow EXCEPT ![f].packets_received = {}, ![f].finished = TRUE]
        /\ tokens' = {t \in tokens : t.flow # f}
        /\ UNCHANGED << arbitervars, hostvars, flows, list, faults >>

-----------------------------------------------------------------------------
(* Requests *)

\* What the heaps of d hold once finished flows have been taken out.
UnfinishedFlows(objects, d) == {f \in flows[d] : ~objects[f].finished_at_receiver}

\* get_top_unfinish_flow: the flow of s that may have a token.
Best(objects, in, s) ==
    {f \in in : Src[f] = s /\ ~objects[f].finished_at_receiver /\ objects[f].redundancy # "waiting"}

\* send_listSrcs: every source of a flow that may have a token, but the source that is
\* returned only if its flow needs more tokens than are left of the grant.
Wanted(objects, in, info, nrts) ==
    {f \in in :
        /\ ~objects[f].finished_at_receiver /\ objects[f].redundancy # "waiting"
        /\ Src[f] = nrts => info.src = nrts /\ Need(objects[f], f) > info.remain_tokens}

ListSrcs(objects, in, info, nrts, round) ==
    LET wanted == {<< Src[f], Need(objects[f], f) >> : f \in Wanted(objects, in, info, nrts)}
    IN  IF wanted = {} /\ nrts = NoHost THEN <<>>
        ELSE << [ list |-> wanted, nrts |-> nrts, round |-> round ] >>

\* A receiver asks for sources.
Ask(d, objects, in) ==
    list' = [list EXCEPT ![d] = @ \o ListSrcs(objects, in, gosrc_info[d], NoHost, -1)]

\* reset() leaves send_nrts as it is.
ResetGrant(info) == [NoGrant EXCEPT !.send_nrts = info.send_nrts]

\* Mutant: the wakeup is not posted again.
WakeupOnce(in) == FALSE

\* Whether wakeup() posts the event again.
WakeupAgain(in) == in # {}

\* RufHost::wakeup, when nothing of this receiver is on its way to the arbiter any more.
Wakeup(d) ==
    /\ wakeup_evt[d] /\ list[d] = <<>>
    /\ IdleLong => token_send_evt[d] = "none"
    /\ LET in == UnfinishedFlows(flow, d)
       IN  /\ Ask(d, flow, in)
           /\ flows' = [flows EXCEPT ![d] = in]
           /\ wakeup_evt' = [wakeup_evt EXCEPT ![d] = WakeupAgain(in)]
    /\ UNCHANGED << arbitervars, gosrc_info, token_send_evt, hold_on, flow, tokens, net, faults >>

\* The event of the token chain, unless it is pending for other reasons than the window.
Restarted(d) == [token_send_evt EXCEPT ![d] = "due"]

\* receive_short_flow: the sender has sent all tokens itself.
ShortFlow(F, f) ==
    [F EXCEPT !.rts_received = TRUE, !.token_count = InitToken(f),
              !.last_token_data_seq_num_sent = InitToken(f) - 1, !.redundancy = "waiting"]

\* RufHost::receive_rts.
ReceiveRts(m) ==
    LET f == m.flow
        d == Dst[f]
        info == gosrc_info[d]
    IN  /\ m.type = "rts"
        /\ net' = net \ {m}
        /\ IF flow[f].finished \/ flow[f].rts_received
           THEN UNCHANGED << flow, flows, list, hostvars >>
           ELSE /\ UNCHANGED gosrc_info
                /\ IF Size[f] > TokenInitial
                   THEN /\ flow' = [flow EXCEPT ![f].rts_received = TRUE]
                        /\ IF info.src = NoHost
                           THEN /\ Ask(d, flow', flows[d] \cup {f})
                                /\ flows' = [flows EXCEPT ![d] = UnfinishedFlows(flow, d) \cup {f}]
                                /\ wakeup_evt' = [wakeup_evt EXCEPT ![d] = TRUE]
                                /\ UNCHANGED token_send_evt
                           ELSE /\ token_send_evt' = IF info.src = Src[f] THEN Restarted(d) ELSE token_send_evt
                                /\ flows' = [flows EXCEPT ![d] = @ \cup {f}]
                                /\ UNCHANGED << list, wakeup_evt >>
                        /\ UNCHANGED hold_on
                   ELSE /\ flow' = [flow EXCEPT ![f] = ShortFlow(@, f)]
                        /\ flows' = [flows EXCEPT ![d] = @ \cup {f}]
                        /\ hold_on' = [hold_on EXCEPT ![d] = InitToken(f)]
                        /\ wakeup_evt' = [wakeup_evt EXCEPT ![d] = @ \/ info.src = NoHost \/ info.send_nrts]
                        /\ UNCHANGED << list, token_send_evt >>
        /\ UNCHANGED << arbitervars, tokens, faults >>

\* RufHost::receive_gosrc: a source that no flow needs any more is returned at once; the
\* grant replaces the one before, whatever is left of it.
ReceiveGoSrc(d) ==
    /\ gosrc[d] # <<>>
    /\ gosrc' = [gosrc EXCEPT ![d] = Tail(@)]
    /\ LET g     == Head(gosrc[d])
           in    == {f \in flows[d] : Src[f] = g.src => ~flow[f].finished_at_receiver}
       IN  IF Best(flow, in, g.src) = {}
           THEN /\ list' = [list EXCEPT ![d] = @ \o ListSrcs(flow, in, gosrc_info[d], g.src, g.round)]
                /\ flows' = [flows EXCEPT ![d] = UnfinishedFlows(flow, d)]
                /\ wakeup_evt' = [wakeup_evt EXCEPT ![d] = TRUE]
                /\ gosrc_info' = [gosrc_info EXCEPT ![d] = [NoGrant EXCEPT !.send_nrts = TRUE]]
                /\ UNCHANGED token_send_evt
           ELSE /\ gosrc_info' = [gosrc_info EXCEPT ![d] =
                       [ src |-> g.src, remain_tokens |-> g.tokens, round |-> g.round, send_nrts |-> FALSE ]]
                /\ flows' = [flows EXCEPT ![d] = in]
                /\ wakeup_evt' = [wakeup_evt EXCEPT ![d] = FALSE]
                /\ token_send_evt' = Restarted(d)
                /\ UNCHANGED list
    /\ UNCHANGED << src_state, dst_state, outbound_cons, inbound_cons, ruf_q >>
    /\ UNCHANGED << hold_on, flow, tokens, net, faults >>

-----------------------------------------------------------------------------
(* Tokens *)

\* The flow's state when a turn takes it: after its resend timeout it starts again, and
\* after the window timeout it takes older tokens for lost.
Taken(F) ==
    LET again == IF F.redundancy = "met" THEN [F EXCEPT !.redundancy = "none"] ELSE F
    IN  IF Gap(again) > TokenWindow /\ F.window_old
        THEN [again EXCEPT !.largest_token_seq_received = F.token_count - TokenWindow] ELSE again

\* send_token_pkt, and the resend timeout after the last one.
WithToken(F, f) ==
    LET sent == [F EXCEPT !.token_count = @ + 1, !.last_token_data_seq_num_sent = NextToken(F, f), !.window_old = FALSE]
    IN  [sent EXCEPT !.redundancy = IF NextToken(F, f) >= NextToken(sent, f) THEN "waiting" ELSE @]

\* Mutant: the grant is reset one token too late.
UsedLate(info) ==
    IF info.remain_tokens = 0 THEN ResetGrant(info) ELSE [info EXCEPT !.remain_tokens = @ - 1]

\* A token of the grant is used; the last one resets the grant.
Used(info) ==
    IF info.remain_tokens = 1 THEN ResetGrant(info) ELSE [info EXCEPT !.remain_tokens = @ - 1]

\* The source is returned when what is left can be sent before the arbiter answers.
ReturnsSource(F, f, info) ==
    /\ F.redundancy = "waiting" \/ Smaller(info.remain_tokens, Need(F, f)) <= Lead
    /\ ~info.send_nrts

\* A turn with flow f, which has become F, and the grant that is left: the source may be
\* returned, in the round of the grant that is left.
Turn(d, f, F, info) ==
    LET returns == ReturnsSource(F, f, info)
        objects == [flow EXCEPT ![f] = F]
    IN  /\ flow' = objects
        /\ list' = IF returns THEN [list EXCEPT ![d] = @ \o ListSrcs(objects, flows[d], info, Src[f], info.round)] ELSE list
        /\ flows' = IF returns THEN [flows EXCEPT ![d] = UnfinishedFlows(objects, d)] ELSE flows
        /\ gosrc_info' = [gosrc_info EXCEPT ![d] = [info EXCEPT !.send_nrts = @ \/ returns]]
        /\ wakeup_evt' = [wakeup_evt EXCEPT ![d] = @ \/ returns]

\* A turn is left to the packets of a short flow.
Hold(d) ==
    /\ hold_on[d] > 0
    /\ hold_on' = [hold_on EXCEPT ![d] = @ - 1]
    /\ UNCHANGED << flow, flows, list, gosrc_info, wakeup_evt, token_send_evt, net >>

\* There is no flow for the chain: it ends, and what is left of the grant is returned.
ChainEnds(d) ==
    LET info == gosrc_info[d]
        in   == {f \in flows[d] : Src[f] = info.src => ~flow[f].finished_at_receiver}
    IN  /\ hold_on[d] = 0 /\ Best(flow, in, info.src) = {}
        /\ token_send_evt' = [token_send_evt EXCEPT ![d] = "none"]
        /\ IF info.src # NoHost /\ ~info.send_nrts
           THEN /\ list' = [list EXCEPT ![d] = @ \o ListSrcs(flow, in, info, info.src, info.round)]
                /\ flows' = [flows EXCEPT ![d] = UnfinishedFlows(flow, d)]
                /\ wakeup_evt' = [wakeup_evt EXCEPT ![d] = TRUE]
                /\ gosrc_info' = [gosrc_info EXCEPT ![d] = [NoGrant EXCEPT !.send_nrts = TRUE]]
           ELSE /\ flows' = [flows EXCEPT ![d] = in]
                /\ gosrc_info' = [gosrc_info EXCEPT ![d] = ResetGrant(@)]
                /\ UNCHANGED << list, wakeup_evt >>
        /\ UNCHANGED << hold_on, flow, net >>

\* RufHost::send_token.
SendToken(d) ==
    /\ token_send_evt[d] = "due"
    /\ \/ Hold(d)
       \/ ChainEnds(d)
       \/ /\ hold_on[d] = 0
          /\ \E f \in Best(flow, flows[d], gosrc_info[d].src) :
                LET F == Taken(flow[f])
                IN  \/ /\ Gap(F) <= TokenWindow
                       /\ Turn(d, f, WithToken(F, f), Used(gosrc_info[d]))
                       /\ net' = net \cup {Packet("token", f, F.token_count, NextToken(F, f))}
                       /\ UNCHANGED token_send_evt
                    \/ /\ Gap(F) > TokenWindow
                       /\ Turn(d, f, F, gosrc_info[d])
                       /\ token_send_evt' = [token_send_evt EXCEPT ![d] = f]
                       /\ UNCHANGED net
          /\ UNCHANGED hold_on
    /\ UNCHANGED << arbitervars, tokens, faults >>

-----------------------------------------------------------------------------
(* DATA *)

WithData(F, m) ==
    [F EXCEPT !.packets_received = @ \cup {m.data},
              !.received_count = IF m.data \in F.packets_received THEN @ ELSE @ + 1,
              !.largest_token_seq_received = Larger(@, m.seq)]

\* RufFlow::receive of DATA: from its goal on every packet is acknowledged; before it, a
\* chain that has ended or waits for the window goes on.
TakeData(m) ==
    LET f      == m.flow
        d      == Dst[f]
        before == IF flow[f].rts_received THEN flow[f] ELSE ShortFlow(flow[f], f)
        F      == WithData(before, m)
        after  == [flow EXCEPT ![f] = F]
    IN  /\ hold_on' = IF flow[f].rts_received THEN hold_on ELSE [hold_on EXCEPT ![d] = InitToken(f)]
        /\ IF F.received_count >= Size[f]
           THEN /\ flow' = [after EXCEPT ![f].finished_at_receiver = TRUE]
                /\ net' = (net \ {m}) \cup {Packet("ack", f, 0, 0)}
                /\ UNCHANGED << token_send_evt >>
           ELSE /\ flow' = after /\ net' = net \ {m}
                /\ token_send_evt' =
                      IF Gap(F) <= TokenWindow /\ gosrc_info[d].src = Src[f] /\ gosrc_info[d].remain_tokens > 0
                         /\ f \in Best(after, flows[d], Src[f])
                      THEN Restarted(d) ELSE token_send_evt

ReceiveData(m) ==
    /\ m.type = "data"
    /\ IF flow[m.flow].finished THEN net' = net \ {m} /\ UNCHANGED << flow, hold_on, token_send_evt >>
       ELSE TakeData(m)
    /\ UNCHANGED << arbitervars, gosrc_info, wakeup_evt, flows, tokens, list, faults >>

-----------------------------------------------------------------------------
(* The arbiter, time and losses *)

\* Rounds that something still refers to.
RoundsUsed ==
    {src_state[h].round : h \in Host} \cup {dst_state[h].round : h \in Host} \cup {gosrc_info[h].round : h \in Host}
    \cup UNION {{gosrc[h][i].round : i \in DOMAIN gosrc[h]} \cup {list[h][i].round : i \in DOMAIN list[h]} : h \in Host}

\* The arbiter stops when all flows are finished; an epoch without requests does nothing.
\* round is a counter; a number that nothing refers to any more is drawn again, and Round
\* bounds how many are in use at a time.
Epoch ==
    /\ ruf_q # {} /\ \E f \in Flow : ~flow[f].finished
    /\ Round \ RoundsUsed # {}
    /\ Schedule(Min(Round \ RoundsUsed))
    /\ UNCHANGED << hostvars, flowvars, list, faults >>

ArbiterReceives(d) ==
    /\ list[d] # <<>>
    /\ list' = [list EXCEPT ![d] = Tail(@)]
    /\ ReceiveListSrcs(d, Head(list[d]))
    /\ UNCHANGED << hostvars, flowvars, faults >>

\* Whether a receiver may still use or return its grant of this round.
Alive(round) ==
    \E h \in Host :
        \/ gosrc_info[h].round = round /\ gosrc_info[h].src # NoHost /\ ~gosrc_info[h].send_nrts
        \/ \E i \in DOMAIN gosrc[h] : gosrc[h][i].round = round
        \/ \E i \in DOMAIN list[h] : list[h][i].round = round

Fault(kind) == kind \in Faults /\ Len(faults) < MaxFaults /\ faults' = Append(faults, kind)

Happened(kind) == \E i \in DOMAIN faults : faults[i] = kind

\* A timeout comes after what it waits for is lost, or too early.
Timely(late, kind) == IF late THEN UNCHANGED faults ELSE Fault(kind)

ArbiterTimeout(h) ==
    /\ \/ Timely(~Alive(src_state[h].round), "arbiter") /\ SourceExpires(h)
       \/ Timely(~Alive(dst_state[h].round), "arbiter") /\ ReceiverExpires(h)
    /\ UNCHANGED << hostvars, flowvars, list >>

UnderWay(f) == {m \in net \cup tokens : m.flow = f /\ m.type # "ack"}

\* token_resend_timeout passes; no event is posted for this.
ResendTimeout(f) ==
    /\ flow[f].redundancy = "waiting" /\ ~flow[f].finished_at_receiver
    /\ Timely(UnderWay(f) = {}, "resend")
    /\ flow' = [flow EXCEPT ![f].redundancy = "met"]
    /\ UNCHANGED << arbitervars, hostvars, flows, tokens, list, net >>

\* token_window_timeout passes; a chain that waits for it goes on.
WindowTimeout(f) ==
    /\ ~flow[f].window_old /\ (~flow[f].finished_at_receiver \/ token_send_evt[Dst[f]] = f)
    /\ Timely(UnderWay(f) = {}, "window")
    /\ flow' = [flow EXCEPT ![f].window_old = TRUE]
    /\ token_send_evt' = IF token_send_evt[Dst[f]] = f THEN [token_send_evt EXCEPT ![Dst[f]] = "due"] ELSE token_send_evt
    /\ UNCHANGED << arbitervars, gosrc_info, wakeup_evt, hold_on, flows, tokens, list, net >>

Lose(kind) ==
    /\ Fault(kind)
    /\ \/ \E m \in net : m.type = kind /\ net' = net \ {m} /\ UNCHANGED << list, gosrc >>
       \/ kind = "list" /\ \E d \in Host : list[d] # <<>> /\ list' = [list EXCEPT ![d] = Tail(@)] /\ UNCHANGED << net, gosrc >>
       \/ kind = "gosrc" /\ \E d \in Host : gosrc[d] # <<>> /\ gosrc' = [gosrc EXCEPT ![d] = Tail(@)] /\ UNCHANGED << net, list >>
    /\ UNCHANGED << src_state, dst_state, outbound_cons, inbound_cons, ruf_q, hostvars, flow, flows, tokens >>

Receive(m) == ReceiveToken(m) \/ ReceiveAck(m) \/ ReceiveRts(m) \/ ReceiveData(m)

RufNext ==
    \/ \E f \in Flow : StartRufFlow(f) \/ ResendTimeout(f) \/ WindowTimeout(f)
    \/ \E m \in net : Receive(m)
    \/ \E s \in Senders : SenderTurn(s)
    \/ \E d \in Receivers : SendToken(d) \/ Wakeup(d) \/ ReceiveGoSrc(d) \/ ArbiterReceives(d)
    \/ \E h \in Host : ArbiterTimeout(h)
    \/ Epoch
    \/ \E kind \in Faults : Lose(kind)

\* Events are processed and the timers of flows run out.
RufFairness ==
    /\ WF_rufvars(\E f \in Flow : StartRufFlow(f))
    /\ \A f \in Flow : WF_rufvars(ResendTimeout(f)) /\ WF_rufvars(WindowTimeout(f))
    /\ WF_rufvars(\E m \in net : Receive(m))
    /\ \A s \in Senders : WF_rufvars(SenderTurn(s))
    /\ \A d \in Receivers :
          WF_rufvars(SendToken(d)) /\ WF_rufvars(Wakeup(d)) /\ WF_rufvars(ReceiveGoSrc(d)) /\ WF_rufvars(ArbiterReceives(d))
    /\ WF_rufvars(Epoch)

RufSpec == RufInit /\ [][RufNext]_rufvars /\ RufFairness

-----------------------------------------------------------------------------
(* Properties *)

\* Receivers that may use source s: it is on its way to them, or it has been granted and
\* not been returned.
Holders(s) ==
    {d \in Host : \/ gosrc_info[d].src = s /\ ~gosrc_info[d].send_nrts
                  \/ \E i \in DOMAIN gosrc[d] : gosrc[d][i].src = s}

\* Unless the arbiter has timed out too early a source is granted to one receiver at a
\* time, and the arbiter knows that it is busy (src_state, dst_state, round).
SourceShared ==
    ~Happened("arbiter") =>
        \A s \in Senders : Cardinality(Holders(s)) <= 1 /\ (Holders(s) # {} => ~src_state[s].state)

Busy(state, t) == Cardinality({h \in Host : Tor[h] = t /\ ~state[h].state /\ ~state[h].local})

\* No connection of a rack is lost or given back twice, whatever is lost or times out:
\* those that are left and those that are in use make up the limit (inbound_cons,
\* outbound_cons).
ConnectionsKept ==
    \A t \in Racks : outbound_cons[t] + Busy(src_state, t) = TorLimit /\ inbound_cons[t] + Busy(dst_state, t) = TorLimit

\* What send_token asserts (rufhost.cpp:549, 574, 596): a receiver does not wait for a
\* grant while it uses one, and a grant in use has tokens left.
GrantsInUse ==
    \A d \in Receivers :
        gosrc_info[d].src # NoHost => gosrc_info[d].remain_tokens > 0 /\ (wakeup_evt[d] => gosrc_info[d].send_nrts)

\* A receiver with a flow that is not finished has an event, or something of it is on its
\* way to the arbiter or back.
ReceiverAwake ==
    \A d \in Receivers :
        (\E f \in flows[d] : ~flow[f].finished_at_receiver) =>
            wakeup_evt[d] \/ token_send_evt[d] # "none" \/ list[d] # <<>> \/ gosrc[d] # <<>>

\* Every flow is finished, unless an RTS, a request, a grant or an ACK has been lost: DATA
\* and tokens are sent again, and a timeout that comes too early only costs time.
EventuallyFinished ==
    \A f \in Flow : <>(flow[f].finished \/ \E kind \in {"rts", "list", "gosrc", "ack"} : Happened(kind))

\* "reset the dst state if the timeout happens" (rufhost.cpp:715): a receiver that the
\* arbiter has given up gets another grant.  The code refuses its requests before it
\* looks at the time (rufhost.cpp:824).
ExpiredIsReset ==
    \A d \in Receivers :
        dst_state[d].expired ~> (~dst_state[d].expired \/ \A f \in Flow : Dst[f] = d => flow[f].finished_at_receiver)
=============================================================================
