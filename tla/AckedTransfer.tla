--------------------------- MODULE AckedTransfer ---------------------------
(***************************************************************************)
(* What a transport with acknowledgements promises the rest of the         *)
(* simulator about one flow: its packets are delivered one at a time, each *)
(* one counted once; after all of them, and not before, the sender         *)
(* completes the flow, and announces this to the event loop exactly once.  *)
(***************************************************************************)
EXTENDS Naturals

CONSTANT PacketCount        \* packets the flow consists of

VARIABLES delivered,        \* distinct packets delivered so far
          complete,
          announced         \* completions announced to the event loop

transferVars == << delivered, complete, announced >>

TransferInit == delivered = 0 /\ complete = FALSE /\ announced = 0

Deliver ==
    /\ delivered < PacketCount
    /\ delivered' = delivered + 1
    /\ UNCHANGED << complete, announced >>

Complete ==
    /\ delivered = PacketCount /\ ~complete
    /\ complete' = TRUE
    /\ announced' = announced + 1
    /\ UNCHANGED delivered

TransferNext == Deliver \/ Complete

\* What never goes wrong ...
SafeTransfer == TransferInit /\ [][TransferNext]_transferVars

\* ... and what happens in the end.
TransferSpec == SafeTransfer /\ WF_transferVars(TransferNext)
=============================================================================
