------------------------------ MODULE PimMatch ------------------------------
(***************************************************************************)
(* The matching of dcPIM (class PimEpoch of ext/pimhost.cpp): before a     *)
(* data phase begins, receivers and senders agree on how many of their     *)
(* pim_k links each pair of hosts may use in it.                           *)
(*                                                                         *)
(* Every host runs the same rounds by its clock, without a barrier.  In    *)
(* the middle of one round a sender grants the requests that have come, at *)
(* the start of the next a receiver accepts grants and asks again.  After  *)
(* pim_iter_limit rounds the accepted links pace the tokens of the data    *)
(* phase, while the next epoch is matched already.  A prompt link is one   *)
(* that may be used at once, because the epoch before has left it free.    *)
(*                                                                         *)
(*     receiver:  req ->        accept ->        (host's links)            *)
(*     sender:          grant ->        grantsr ->                         *)
(*                                                                         *)
(* An accept that comes too late for the sender's next round finds less    *)
(* room than the sender has granted; what exceeds pim_k goes back in a     *)
(* grantsr.                                                                *)
(*                                                                         *)
(* Time is counted in halves of pim_iter_epoch.  A packet is on time when  *)
(* it arrives within half a round of being sent.  Each pair of hosts       *)
(* stands for its shortest flow; what is left of it is counted in links,   *)
(* that is in units of pim_link_pkts, rounded up.                          *)
(***************************************************************************)
EXTENDS Integers, FiniteSets, SequencesExt

CONSTANTS
    Host,
    Pairs,           \* <<source, destination>> of the flows
    PimK,            \* params.pim_k: the links of a host
    IterLimit,       \* params.pim_iter_limit
    SelectMinIters,  \* params.pim_select_min_iters
    EpochLength,     \* from one epoch to the next, 2 * pim_iter_limit * pim_alpha
    MaxSize,         \* bound: links a flow may need
    MaxArrivals,     \* bound: flows that arrive later
    MaxEpoch,        \* bound: epochs
    MaxLate          \* bound: half rounds that packets are late, in total

ASSUME MatchAssumption ==
    /\ IsFiniteSet(Host) /\ Pairs \subseteq Host \X Host
    /\ PimK \in Nat \ {0} /\ IterLimit \in Nat \ {0} /\ SelectMinIters \in Nat

\* pim_alpha is 1 or more in the repository's configurations: the last round of
\* an epoch is not after the start of the next.
ASSUME LengthAssumption == EpochLength \in Nat /\ EpochLength >= 2 * IterLimit

ASSUME MatchBoundsAssumption == {MaxSize, MaxArrivals, MaxEpoch, MaxLate} \subseteq Nat

VARIABLES
    clock,      \* half rounds since the start
    epochs,     \* PimHost::epochs, a map from numbers to PimEpochs
    new_epoch,  \* the number of the epoch that new_epoch_evt will start
    links,      \* PimHost::match_sender_links: the links of the data phase, per source
    size,       \* remaining_pkts() of a pair's flow, in links
    to_come,    \* flows that have yet to arrive
    packets,    \* packets under way
    late        \* half rounds that packets have been late so far

matchvars == << clock, epochs, new_epoch, links, size, to_come, packets, late >>

Smaller(a, b) == IF a < b THEN a ELSE b

NoLinks == [h \in Host |-> 0]

\* A PimEpoch.  num_tx_link counts what the host accepts as a receiver,
\* num_rx_link what is accepted of it as a sender; from and to are
\* match_sender_links and match_receiver_links.  receiver_at and sender_at are the
\* times of proc_receiver_iter_evt and proc_sender_iter_evt; Never is NULL.
Never == -1
Epoch(time, tx_prompt, rx_prompt) ==
    [ iter |-> 0, receiver_at |-> time, sender_at |-> time + 1,
      num_tx_link |-> 0, num_tx_prompt_link |-> tx_prompt, from |-> NoLinks, from_prompt |-> NoLinks,
      num_rx_link |-> 0, num_rx_prompt_link |-> rx_prompt, to |-> NoLinks, to_prompt |-> NoLinks,
      req_q |-> {}, grants_q |-> {} ]

\* PIMREQ, PIMGrants, AcceptPkt and GrantsR for the flow of a pair.
Message(type, src, dst, epoch, iter, remaining, total, prompt) ==
    [ type |-> type, src |-> src, dst |-> dst, epoch |-> epoch, iter |-> iter,
      remaining |-> remaining, total |-> total, prompt |-> prompt ]

Recipient(m) == IF m.type \in {"req", "accept"} THEN m.src ELSE m.dst

MatchInit ==
    /\ clock = 0
    /\ epochs = [h \in Host |-> << >>] /\ new_epoch = [h \in Host |-> 0]
    /\ links = [h \in Host |-> NoLinks]
    /\ size \in [Pairs -> 0 .. MaxSize] /\ to_come = MaxArrivals
    /\ packets = {} /\ late = 0

-----------------------------------------------------------------------------
(* The sharing of links *)

\* The body of the loops of handle_all_req and handle_all_grants: a request or grant
\* gets what it asks for, or what is left.
Give(acc, ask) ==
    LET total  == Smaller(acc.free, ask.total)
        prompt == Smaller(acc.prompt, Smaller(total, ask.prompt))
    IN  IF acc.free <= 0 THEN acc
        ELSE [ free |-> acc.free - total, prompt |-> acc.prompt - prompt,
               given |-> Append(acc.given, [ask EXCEPT !.total = total, !.prompt = prompt]) ]

\* What the asks get, in this order.
Allot(free, prompt, asks) ==
    LET acc[n \in 0 .. Len(asks)] ==
            IF n = 0 THEN [free |-> free, prompt |-> prompt, given |-> << >>] ELSE Give(acc[n - 1], asks[n])
    IN  acc[Len(asks)].given

\* The orders in which a queue may be served: by remaining size in the first
\* pim_select_min_iters rounds, then at random.
Orders(q, iter) ==
    {s \in SetToSeqs(q) :
        iter <= SelectMinIters => \A i, j \in DOMAIN s : i < j => s[i].remaining <= s[j].remaining}

\* The links and prompt links of grants (accepts, releases).
Totals(given)  == [i \in DOMAIN given |-> given[i].total]
Prompts(given) == [i \in DOMAIN given |-> given[i].prompt]
From(src, given) == {i \in DOMAIN given : given[i].src = src}

-----------------------------------------------------------------------------
(* The receiver's side of a round *)

\* Nothing else is due before the events of this kind.  Events of the same time run
\* by type: receivers' rounds, senders' rounds, new epochs.
ReceiverDue(h, e) == e \in DOMAIN epochs[h] /\ epochs[h][e].receiver_at = clock
SenderDue(h, e)   == e \in DOMAIN epochs[h] /\ epochs[h][e].sender_at = clock
NewEpochDue(h)    == new_epoch[h] <= MaxEpoch /\ clock = new_epoch[h] * EpochLength

AnyReceiverDue == \E h \in Host : \E e \in DOMAIN epochs[h] : ReceiverDue(h, e)
AnySenderDue   == \E h \in Host : \E e \in DOMAIN epochs[h] : SenderDue(h, e)
AnyDue         == AnyReceiverDue \/ AnySenderDue \/ \E h \in Host : NewEpochDue(h)

\* handle_all_grants: the grants that are accepted.
Accepted(E) ==
    IF E.num_tx_link = PimK THEN {<< >>}
    ELSE {Allot(PimK - E.num_tx_link, PimK - E.num_tx_prompt_link, order) : order \in Orders(E.grants_q, E.iter)}

\* The epoch after handle_all_grants and advance_iter.
WithAccepted(E, given) ==
    [ E EXCEPT !.iter = @ + 1, !.req_q = {}, !.grants_q = {},
               !.num_tx_link = @ + SumFunction(Totals(given)), !.num_tx_prompt_link = @ + SumFunction(Prompts(given)),
               !.from = [s \in Host |-> @[s] + SumFunctionOnSet(Totals(given), From(s, given))],
               !.from_prompt = [s \in Host |-> @[s] + SumFunctionOnSet(Prompts(given), From(s, given))] ]

AcceptPkts(given) == {[g EXCEPT !.type = "accept"] : g \in Range(given)}

\* send_all_req: one for each source whose flow needs more links than the pair has in
\* the running data phase and in this epoch.
Requests(h, e, E) ==
    LET need(s) == size[<<s, h>>] - (links[h][s] + E.from[s])
        ask(s)  == Smaller(need(s), PimK - E.num_tx_link)
    IN  IF E.num_tx_link = PimK THEN {}
        ELSE {Message("req", s, h, e, E.iter, size[<<s, h>>], ask(s), Smaller(ask(s), PimK - E.num_tx_prompt_link)) :
                 s \in {s \in Host : <<s, h>> \in Pairs /\ need(s) > 0}}

\* schedule_receiver_iter_evt in a round that is not the last: send_all_req.
AskAgain(h, e, E) ==
    /\ E.iter <= IterLimit
    /\ epochs' = [epochs EXCEPT ![h][e] = [E EXCEPT !.receiver_at = clock + 2]]
    /\ UNCHANGED links

\* Mutant: the links of the last epoch are kept beside the new ones.
BeginDataPhaseBoth(h, e, E) ==
    /\ E.iter > IterLimit
    /\ links' = [links EXCEPT ![h] = [s \in Host |-> @[s] + E.from[s]]]
    /\ epochs' = [epochs EXCEPT ![h] = [i \in DOMAIN @ \ {e - 1} |->
                     IF i = e THEN [E EXCEPT !.receiver_at = Never] ELSE @[i]]]

\* schedule_receiver_iter_evt in the last round: the links of the epoch become
\* those of the host, and the epoch before is forgotten.
BeginDataPhase(h, e, E) ==
    /\ E.iter > IterLimit
    /\ links' = [links EXCEPT ![h] = E.from]
    /\ epochs' = [epochs EXCEPT ![h] = [i \in DOMAIN @ \ {e - 1} |->
                     IF i = e THEN [E EXCEPT !.receiver_at = Never] ELSE @[i]]]

ReceiverRound(h, e) ==
    /\ ReceiverDue(h, e)
    /\ \E given \in Accepted(epochs[h][e]) :
          LET E == WithAccepted(epochs[h][e], given)
          IN  /\ \/ AskAgain(h, e, E)
                 \/ BeginDataPhase(h, e, E)
              /\ packets' = packets \cup AcceptPkts(given)
                            \cup IF E.iter <= IterLimit THEN Requests(h, e, E) ELSE {}
    /\ UNCHANGED << clock, new_epoch, size, to_come, late >>

-----------------------------------------------------------------------------
(* The sender's side of a round *)

\* Mutant: the sender forgets what has been accepted of it.
GrantedFresh(E) ==
    {Allot(PimK, PimK - E.num_rx_prompt_link, order) : order \in Orders(E.req_q, E.iter)}

\* handle_all_req: the requests that are granted.
Granted(E) ==
    IF E.num_rx_link = PimK THEN {<< >>}
    ELSE {Allot(PimK - E.num_rx_link, PimK - E.num_rx_prompt_link, order) : order \in Orders(E.req_q, E.iter)}

\* schedule_sender_iter_evt.
SenderRound(h, e) ==
    /\ ~AnyReceiverDue /\ SenderDue(h, e)
    /\ \/ /\ epochs[h][e].iter > IterLimit
          /\ epochs' = [epochs EXCEPT ![h][e].sender_at = Never]
          /\ UNCHANGED packets
       \/ /\ epochs[h][e].iter <= IterLimit
          /\ \E given \in Granted(epochs[h][e]) :
                /\ packets' = packets \cup {[g EXCEPT !.type = "grant"] : g \in Range(given)}
                /\ epochs' = [epochs EXCEPT ![h][e].sender_at = clock + 2,
                                            ![h][e].req_q = IF given = << >> THEN @
                                                            ELSE {r \in @ : \A g \in Range(given) : g.src # r.src \/ g.dst # r.dst}]
    /\ UNCHANGED << clock, new_epoch, links, size, to_come, late >>

\* The new PimEpoch: what the last one has matched so far is not free for prompt use.
PromptLinks(h, e) ==
    IF e = 0 THEN Epoch(clock, 0, 0)
    ELSE Epoch(clock, epochs[h][e - 1].num_tx_link, epochs[h][e - 1].num_rx_link)

AllFinished == to_come = 0 /\ \A p \in Pairs : size[p] = 0

\* start_new_epoch: nothing more when all flows are finished.
StartNewEpoch(h) ==
    LET e == new_epoch[h]
    IN  /\ ~AnyReceiverDue /\ ~AnySenderDue /\ NewEpochDue(h)
        /\ new_epoch' = [new_epoch EXCEPT ![h] = IF AllFinished THEN MaxEpoch + 1 ELSE e + 1]
        /\ epochs' = IF AllFinished THEN epochs
                     ELSE [epochs EXCEPT ![h] = [i \in DOMAIN @ \cup {e} |->
                                                    IF i = e THEN PromptLinks(h, e) ELSE @[i]]]
        /\ UNCHANGED << clock, links, size, to_come, packets, late >>

-----------------------------------------------------------------------------
(* The packets *)

\* PimFlow::receive: a packet for an epoch that the host does not have (any more) is
\* dropped.
Known(m) == m.epoch \in DOMAIN epochs[Recipient(m)]
Of(m)    == epochs[Recipient(m)][m.epoch]

Update(m, E) == epochs' = [epochs EXCEPT ![Recipient(m)][m.epoch] = E]

Drop(m) ==
    /\ ~Known(m)
    /\ packets' = packets \ {m}
    /\ UNCHANGED epochs

\* receive_req and receive_grants: one of an earlier round is ignored.
ReceiveReq(m) ==
    /\ m.type = "req" /\ Known(m)
    /\ packets' = packets \ {m}
    /\ Update(m, [Of(m) EXCEPT !.req_q = IF m.iter < Of(m).iter THEN @ ELSE @ \cup {m}])

ReceiveGrants(m) ==
    /\ m.type = "grant" /\ Known(m)
    /\ packets' = packets \ {m}
    /\ Update(m, [Of(m) EXCEPT !.grants_q = IF m.iter < Of(m).iter THEN @ ELSE @ \cup {m}])

\* Mutant: what exceeds pim_k is refused without a word.
ExcessSilent(m) == {}

\* receive_accept_pkt: the links beyond pim_k, which go back in a grantsr.
Beyond(m)       == IF Of(m).num_rx_link + m.total > PimK THEN Of(m).num_rx_link + m.total - PimK ELSE 0
Kept(m)         == m.total - Beyond(m)
BeyondPrompt(m) == IF Beyond(m) > 0 /\ m.prompt > Kept(m) THEN m.prompt - Kept(m) ELSE 0

\* (The number of the round in a grantsr is never read; here it is the accept's.)
Excess(m) ==
    IF Beyond(m) = 0 THEN {}
    ELSE {[m EXCEPT !.type = "grantsr", !.total = Beyond(m), !.prompt = BeyondPrompt(m)]}

ReceiveAccept(m) ==
    LET prompt == m.prompt - BeyondPrompt(m)
    IN  /\ m.type = "accept" /\ Known(m)
        /\ packets' = (packets \ {m}) \cup Excess(m)
        /\ Update(m, IF Kept(m) = 0 THEN Of(m)
                     ELSE [Of(m) EXCEPT !.num_rx_link = @ + Kept(m), !.num_rx_prompt_link = @ + prompt,
                                        !.to[m.dst] = @ + Kept(m), !.to_prompt[m.dst] = @ + prompt])

\* n links, less those that come back.
Less(n, back) == IF n < back THEN 0 ELSE n - back

\* receive_grantsr: the links of the epoch change, not those of the host.
ReceiveGrantsR(m) ==
    /\ m.type = "grantsr" /\ Known(m)
    /\ packets' = packets \ {m}
    /\ Update(m, [Of(m) EXCEPT !.from[m.src] = Less(@, m.total), !.from_prompt[m.src] = Less(@, m.prompt)])

\* A packet takes longer than all events of one time.
Receive(m) ==
    /\ ~AnyDue
    /\ \/ Drop(m) \/ ReceiveReq(m) \/ ReceiveGrants(m) \/ ReceiveAccept(m) \/ ReceiveGrantsR(m)
    /\ UNCHANGED << clock, new_epoch, links, size, to_come, late >>

\* A link's worth of the flow arrives, over links of the data phase or prompt ones.
DataArrives(p) ==
    /\ ~AnyDue
    /\ size[p] > 0
    /\ \/ links[p[2]][p[1]] > 0
       \/ \E e \in DOMAIN epochs[p[2]] : epochs[p[2]][e].from_prompt[p[1]] > 0
    /\ size' = [size EXCEPT ![p] = @ - 1]
    /\ UNCHANGED << clock, epochs, new_epoch, links, to_come, packets, late >>

\* Another flow of the pair comes; it is asked for if it is the shortest.
FlowArrives(p) ==
    /\ ~AnyDue
    /\ to_come > 0 /\ to_come' = to_come - 1
    /\ \E n \in 1 .. MaxSize : size' = [size EXCEPT ![p] = IF @ = 0 THEN n ELSE Smaller(@, n)]
    /\ UNCHANGED << clock, epochs, new_epoch, links, packets, late >>

Pending == \E h \in Host : new_epoch[h] <= MaxEpoch
                             \/ \E e \in DOMAIN epochs[h] : epochs[h][e].receiver_at # Never \/ epochs[h][e].sender_at # Never

\* Half a round passes; what is still under way is late.
Tick ==
    /\ ~AnyDue /\ Pending
    /\ late + Cardinality(packets) <= MaxLate
    /\ late' = late + Cardinality(packets)
    /\ clock' = clock + 1
    /\ UNCHANGED << epochs, new_epoch, links, size, to_come, packets >>

MatchNext ==
    \/ \E h \in Host : \E e \in DOMAIN epochs[h] : ReceiverRound(h, e) \/ SenderRound(h, e)
    \/ \E h \in Host : StartNewEpoch(h)
    \/ \E m \in packets : Receive(m)
    \/ \E p \in Pairs : DataArrives(p) \/ FlowArrives(p)
    \/ Tick

MatchSpec == MatchInit /\ [][MatchNext]_matchvars

-----------------------------------------------------------------------------
(* Properties *)

Flying(e, s, r) ==
    {m \in packets : m.epoch = e /\ m.src = s /\ m.dst = r /\ m.type \in {"accept", "grantsr"}}

\* The two ends of a pair agree on its links, whatever comes late: what the receiver
\* counts and the sender does not is on its way in an accept, or on its way back in a
\* grantsr (receive_accept_pkt, receive_grantsr).  While all is on time they agree on
\* the prompt links as well.
LinksAgree ==
    \A p \in Pairs : \A e \in DOMAIN epochs[p[1]] \cap DOMAIN epochs[p[2]] :
        LET sender   == epochs[p[1]][e]
            receiver == epochs[p[2]][e]
            flying   == Flying(e, p[1], p[2])
        IN  /\ receiver.from[p[1]] = sender.to[p[2]] + SumFunction([m \in flying |-> m.total])
            /\ late = 0 => receiver.from_prompt[p[1]] = sender.to_prompt[p[2]] + SumFunction([m \in flying |-> m.prompt])

Matching(h) == {e \in DOMAIN epochs[h] : epochs[h][e].receiver_at # Never}

\* The links on which r paces tokens to s: those of the data phase, and the prompt
\* links of the epoch that is being matched.
Paced(r, s) == links[r][s] + SumFunction([e \in Matching(r) |-> epochs[r][e].from_prompt[s]])

\* A receiver never has more than pim_k links in a data phase and, while packets are on
\* time, never paces tokens for more, with the prompt links of the next epoch
\* (start_new_epoch, handle_all_grants).
ReceiverPaced ==
    \A r \in Host : /\ SumFunction(links[r]) <= PimK
                    /\ late = 0 => SumFunction([s \in Host |-> Paced(r, s)]) <= PimK

\* While packets are on time, the receivers' links of a data phase are no more than
\* pim_k of any sender, though no receiver knows what the others have been granted.
SenderShared ==
    late = 0 /\ ~AnyDue => \A s \in Host : SumFunction([r \in Host |-> links[r][s]]) <= PimK

\* Not so when a packet is late: a grantsr after the last round changes the epoch only.
SenderSharedLate ==
    ~AnyDue => \A s \in Host : SumFunction([r \in Host |-> links[r][s]]) <= PimK

\* Nor with the prompt links: accepts of the last round come after num_rx_link has been
\* read for the next epoch.
SenderSharedPrompt ==
    late = 0 /\ ~AnyDue => \A s \in Host : SumFunction([r \in Host |-> Paced(r, s)]) <= PimK

\* Nor does num_rx_prompt_link stay within pim_k when a packet is late (the assertion at
\* the end of receive_accept_pkt that is commented out).
PromptWithinK ==
    \A h \in Host : \A e \in DOMAIN epochs[h] : epochs[h][e].num_rx_prompt_link <= PimK

\* With three rounds and three links a sender that has counted too many prompt links
\* grants a negative number of them (the assertion in handle_all_req that is commented
\* out).
PromptNatural == \A m \in packets : m.prompt >= 0
=============================================================================
