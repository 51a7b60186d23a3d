---------------------------- MODULE MCCoordinator ----------------------------
(* Coordinator on a small instance. *)
EXTENDS Coordinator

CONSTANTS w1, e1, e2

\* The parent connects and sends; the worker registers.
MCMaxMsgs == [p \in Procs |-> IF p = Parent THEN 2 ELSE 1]
=============================================================================
