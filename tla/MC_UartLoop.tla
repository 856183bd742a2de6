----------------------------- MODULE MC_UartLoop ----------------------------
(* The uart node with two method objects and one user loop.               *)
EXTENDS UartLoop

CONSTANTS o1, o2, un, l1

MCObjects == {o1, o2}
MCLoops   == {l1}
=============================================================================
