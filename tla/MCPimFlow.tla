----------------------------- MODULE MCPimFlow -----------------------------
(***************************************************************************)
(* PimFlow as TLC checks it: a flow that needs tokens and one that does    *)
(* not, and the transfer that each of them implements.                     *)
(***************************************************************************)
EXTENDS PimFlow

CONSTANTS long, short

MCSize == long :> 2 @@ short :> 1
OneFlow == long :> 3
TwoPackets == short :> 2

LongTransfer == INSTANCE AckedTransfer WITH
    PacketCount <- Size[long],
    delivered   <- Delivered(long),
    complete    <- flow[long].finished,
    announced   <- flow[long].finish_events

ShortTransfer == INSTANCE AckedTransfer WITH
    PacketCount <- Size[short],
    delivered   <- Delivered(short),
    complete    <- flow[short].finished,
    announced   <- flow[short].finish_events

\* Each flow implements the transfer with acknowledgements, liveness included.
ImplementsAckedTransfer == LongTransfer!TransferSpec /\ ShortTransfer!TransferSpec
=============================================================================
