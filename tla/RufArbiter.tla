----------------------------- MODULE RufArbiter -----------------------------
(***************************************************************************)
(* The arbiter of RUF (RufArbiter of ext/rufhost.cpp): once an epoch it    *)
(* takes the requests of the receivers, the smallest flow first, and gives *)
(* each source to one receiver.  Both are busy until the receiver returns  *)
(* the source (an NRTS in a RufListSrcs) or a timeout has passed, which    *)
(* the arbiter sees when it needs one of them again.  It also counts the   *)
(* connections into and out of each rack.                                  *)
(***************************************************************************)
EXTENDS Integers, Sequences, FiniteSets, FiniteSetsExt, Functions

CONSTANTS
    Host, NoHost,
    Tor,             \* the rack of each host
    TorLimit,        \* num_hosts_per_tor() * params.os_ratio
    Localize,        \* params.ruf_localize
    LimitConns,      \* params.ruf_limit_conns
    Grant,           \* tokens that sending_gosrc may draw, of ruf_min_tokens .. ruf_max_tokens
    Round            \* the values of round; one that is not in use is drawn

ASSUME ArbiterAssumption ==
    /\ IsFiniteSet(Host) /\ NoHost \notin Host /\ Tor \in [Host -> Nat] /\ TorLimit \in Nat \ {0}
    /\ Localize \in BOOLEAN /\ LimitConns \in BOOLEAN
    /\ Grant \subseteq Nat \ {0} /\ Round \subseteq Nat

VARIABLES
    src_state, dst_state,             \* HostState of each host as a source and as a receiver
    outbound_cons, inbound_cons,      \* connections that each rack has left
    ruf_q,                            \* requests
    gosrc                             \* RufGoSrc packets on their way to each receiver

arbitervars == << src_state, dst_state, outbound_cons, inbound_cons, ruf_q, gosrc >>

Racks == {Tor[h] : h \in Host}

\* HostState; `expired' once its timeout has passed.
Free == [ state |-> TRUE, expired |-> FALSE, round |-> -1, local |-> FALSE ]

ArbiterInit ==
    /\ src_state = [h \in Host |-> Free] /\ dst_state = [h \in Host |-> Free]
    /\ outbound_cons = [t \in Racks |-> TorLimit] /\ inbound_cons = [t \in Racks |-> TorLimit]
    /\ ruf_q = {} /\ gosrc = [h \in Host |-> <<>>]

IsLocal(r) == Tor[r.src] = Tor[r.dst]

\* PqElementComparator: whether a may not come after b.
Before(a, b) ==
    IF Localize /\ IsLocal(a) # IsLocal(b) THEN IsLocal(a) ELSE a.size <= b.size

\* The orders in which a heap may give the requests.
Served(requests) ==
    {p \in [1 .. Cardinality(requests) -> requests] :
        IsInjective(p) /\ \A i, j \in DOMAIN p : i < j => Before(p[i], p[j])}

\* A state that has timed out is reset when it is looked at, and gives its connection back.
Reset(A, r) ==
    LET d == A.dst[r.dst].expired
        s == A.src[r.src].expired
    IN  [ src      |-> [A.src EXCEPT ![r.src] = IF s THEN Free ELSE @],
          dst      |-> [A.dst EXCEPT ![r.dst] = IF d THEN Free ELSE @],
          inbound  |-> [A.inbound EXCEPT ![Tor[r.dst]] = IF d /\ ~A.dst[r.dst].local THEN @ + 1 ELSE @],
          outbound |-> [A.outbound EXCEPT ![Tor[r.src]] = IF s /\ ~A.src[r.src].local THEN @ + 1 ELSE @],
          gosrc    |-> A.gosrc ]

\* Mutant: a source that is busy is given again.
FitsBusySource(A, r) == A.dst[r.dst].state

\* Both ends are free, and their racks have connections left.
Fits(A, r) ==
    /\ A.src[r.src].state /\ A.dst[r.dst].state
    /\ LimitConns /\ ~IsLocal(r) => A.inbound[Tor[r.dst]] # 0 /\ A.outbound[Tor[r.src]] # 0

Matched(A, r, round, tokens) ==
    LET busy == [ state |-> FALSE, expired |-> FALSE, round |-> round, local |-> IsLocal(r) ]
        one  == IF IsLocal(r) THEN 0 ELSE 1
    IN  [ src      |-> [A.src EXCEPT ![r.src] = busy],
          dst      |-> [A.dst EXCEPT ![r.dst] = busy],
          inbound  |-> [A.inbound EXCEPT ![Tor[r.dst]] = @ - one],
          outbound |-> [A.outbound EXCEPT ![Tor[r.src]] = @ - one],
          gosrc    |-> [A.gosrc EXCEPT ![r.dst] = Append(@, [ src |-> r.src, tokens |-> tokens, round |-> round ])] ]

\* ruf_schedule, and the next round.  A request that does not fit is dropped.
Schedule(round) ==
    /\ \E order \in Served(ruf_q), tokens \in [{r.dst : r \in ruf_q} -> Grant] :
          LET state[n \in 0 .. Len(order)] ==
                  IF n = 0
                  THEN [ src |-> src_state, dst |-> dst_state, inbound |-> inbound_cons,
                         outbound |-> outbound_cons, gosrc |-> gosrc ]
                  ELSE LET A == Reset(state[n - 1], order[n])
                       IN  IF Fits(A, order[n]) THEN Matched(A, order[n], round, tokens[order[n].dst]) ELSE A
              after == state[Len(order)]
          IN  /\ src_state' = after.src /\ dst_state' = after.dst
              /\ inbound_cons' = after.inbound /\ outbound_cons' = after.outbound
              /\ gosrc' = after.gosrc
    /\ ruf_q' = {}

\* The host is still in the round that is returned.
Returns(state, m) == state.round = m.round

\* Mutant: a local connection is given back too.
BackLocal(state) == 1

\* Connections that a state gives back.
Back(state) == IF state.local THEN 0 ELSE 1

\* receive_listsrcs: an NRTS gives the source and the receiver back, each if it is still
\* in its round; the requests are taken if the receiver is free.
ReceiveListSrcs(dst, m) ==
    LET source   == m.nrts # NoHost /\ Returns(src_state[m.nrts], m)
        receiver == m.nrts # NoHost /\ Returns(dst_state[dst], m)
    IN  /\ src_state'     = IF source THEN [src_state EXCEPT ![m.nrts] = Free] ELSE src_state
        /\ outbound_cons' = IF source THEN [outbound_cons EXCEPT ![Tor[m.nrts]] = @ + Back(src_state[m.nrts])]
                            ELSE outbound_cons
        /\ dst_state'     = IF receiver THEN [dst_state EXCEPT ![dst] = Free] ELSE dst_state
        /\ inbound_cons'  = IF receiver THEN [inbound_cons EXCEPT ![Tor[dst]] = @ + Back(dst_state[dst])]
                            ELSE inbound_cons
        /\ ruf_q' = IF dst_state'[dst].state
                    THEN ruf_q \cup {[ dst |-> dst, src |-> l[1], size |-> l[2] ] : l \in m.list} ELSE ruf_q
        /\ UNCHANGED gosrc

\* The timeout of a source or of a receiver passes.
SourceExpires(h) ==
    /\ ~src_state[h].state /\ ~src_state[h].expired
    /\ src_state' = [src_state EXCEPT ![h].expired = TRUE]
    /\ UNCHANGED << dst_state, outbound_cons, inbound_cons, ruf_q, gosrc >>

ReceiverExpires(h) ==
    /\ ~dst_state[h].state /\ ~dst_state[h].expired
    /\ dst_state' = [dst_state EXCEPT ![h].expired = TRUE]
    /\ UNCHANGED << src_state, outbound_cons, inbound_cons, ruf_q, gosrc >>
=============================================================================
