------------------------------ MODULE Transfer ------------------------------
(***************************************************************************)
(* What a transport promises the rest of the simulator about one flow: the *)
(* distinct packets of the flow are delivered one at a time, and with the  *)
(* last of them - neither before nor later - the flow completes, and this  *)
(* is announced to the event loop exactly once.                            *)
(***************************************************************************)
EXTENDS Naturals

CONSTANT PacketCount        \* packets the flow consists of

VARIABLES delivered,        \* distinct packets delivered so far
          complete,
          announced         \* completions announced to the event loop

transferVars == << delivered, complete, announced >>

TransferInit == delivered = 0 /\ complete = FALSE /\ announced = 0

Deliver ==
    /\ ~complete
    /\ delivered' = delivered + 1
    /\ complete' = (delivered + 1 = PacketCount)
    /\ announced' = IF complete' THEN announced + 1 ELSE announced

\* What never goes wrong ...
SafeTransfer == TransferInit /\ [][Deliver]_transferVars

\* ... and what happens in the end.
TransferSpec == SafeTransfer /\ WF_transferVars(Deliver)
=============================================================================
