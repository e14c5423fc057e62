---------------------------- MODULE MCCapability ----------------------------
(***************************************************************************)
(* Capability as TLC checks it: a flow that has its first capabilities     *)
(* itself and one that has not, and the transfer that each implements.     *)
(***************************************************************************)
EXTENDS Capability

CONSTANTS long, short

MCSize == long :> 3 @@ short :> 1

LongTransfer == INSTANCE AckedTransfer WITH
    PacketCount <- Size[long],
    delivered   <- Delivered(long),
    complete    <- flow[long].finished,
    announced   <- flow[long].finish_events

ShortTransfer == INSTANCE AckedTransfer WITH
    PacketCount <- Size[short],
    delivered   <- Delivered(short),
    complete    <- flow[short].finished,
    announced   <- flow[short].finish_events

\* Each flow implements the transfer with acknowledgements, liveness included: packets
\* that are lost or late, capabilities that expire and timeouts that come too early do
\* not change what the rest of the simulator sees (CapabilityFlow::receive).
ImplementsAckedTransfer == LongTransfer!TransferSpec /\ ShortTransfer!TransferSpec
=============================================================================
