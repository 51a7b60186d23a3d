------------------------- MODULE MCChunkedMessages -------------------------
(***************************************************************************)
(* ChunkedMessages on small instances: with two bytes to a chunk, payloads *)
(* of one, two and three chunks, the last chunk of a longer one not full.  *)
(***************************************************************************)
EXTENDS ChunkedMessages, TLC

CONSTANTS small, big, huge, p1, p2

Lengths == (small :> 1) @@ (big :> 3) @@ (huge :> 5)
MCSize == [pl \in Payloads |-> Lengths[pl]]

MCMaxMsgs == (p1 :> 2) @@ (p2 :> 1)
=============================================================================
