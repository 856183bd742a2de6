------------------------------ MODULE MC_Uart -------------------------------
(* Two method objects of the uart export table.                           *)
EXTENDS UartTransport

CONSTANTS o1, o2

MCObjects == {o1, o2}
=============================================================================
