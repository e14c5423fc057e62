----------------------------- MODULE MCSnsFlow -----------------------------
(***************************************************************************)
(* SnsFlow as TLC checks it, and the refinement mapping from a flow to the *)
(* transfer it implements.                                                 *)
(***************************************************************************)
EXTENDS SnsFlow

\* The flow implements the transfer its host relies on, liveness included.
AbstractTransfer == INSTANCE Transfer WITH
    PacketCount <- SizeInPkt,
    delivered   <- received_bytes \div Mss,
    complete    <- finished,
    announced   <- finish_events
ImplementsTransfer == AbstractTransfer!TransferSpec
=============================================================================
