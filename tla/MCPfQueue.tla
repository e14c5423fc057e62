----------------------------- MODULE MCPfQueue ------------------------------
(***************************************************************************)
(* PfQueue as TLC checks it: the packets of three flows.                   *)
(***************************************************************************)
EXTENDS PfQueue

Kind(f, p, s) == [flow |-> f, pf_priority |-> p, size |-> s]

\* Two flows whose priority improves, the first with a short last packet, the
\* second with a short packet of its first window; and an ACK.
MCKinds == {Kind(1, 3, 2), Kind(1, 1, 1), Kind(2, 3, 1), Kind(2, 2, 2), Kind(3, 0, 1)}
=============================================================================
