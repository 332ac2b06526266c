---------------------------- MODULE MC_EchoTest -----------------------------
(* Two clients of one server.                                              *)
EXTENDS EchoTest

CONSTANTS a, b

MC_Clients == {a, b}
=============================================================================
