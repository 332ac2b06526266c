----------------------------- MODULE MC_UdpPort -----------------------------
(* Two objects, foreign descriptors and three numbers to reuse.            *)
EXTENDS UdpPort

CONSTANTS a, b

MC_Sockets == {a, b}
=============================================================================
