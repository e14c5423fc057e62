----------------------------- MODULE MCTcpFlow -----------------------------
(***************************************************************************)
(* TcpFlow as TLC checks it, the priority of its packets, and the mapping  *)
(* from a flow to the transfer it implements.                              *)
(***************************************************************************)
EXTENDS TcpFlow

\* A packet is sent with the priority of what remains of the flow, which is
\* not negative (get_priority is unsigned).
PriorityInRange ==
    [][(\E i \in Seqs : CopiesIn(Data(i), net') > CopiesIn(Data(i), net))
            => last_unacked_seq' + scoreboard_sack' <= N]_vars

\* The flow implements the transfer with acknowledgements, liveness included.
AbstractTransfer == INSTANCE AckedTransfer WITH
    PacketCount <- N,
    delivered   <- received_bytes,
    complete    <- finished,
    announced   <- finish_events
ImplementsAckedTransfer == AbstractTransfer!TransferSpec
=============================================================================
