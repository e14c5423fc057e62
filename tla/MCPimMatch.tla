---------------------------- MODULE MCPimMatch ----------------------------
(* Three hosts: a sends to b and c, and b sends to c.  So a sender has two   *)
(* receivers, a receiver two senders, and b is both.                         *)
EXTENDS PimMatch

CONSTANTS a, b, c

MCPairs == {<<a, b>>, <<a, c>>, <<b, c>>}

\* One sender only, for larger bounds.
OneSender == {<<a, b>>, <<a, c>>}
=============================================================================
