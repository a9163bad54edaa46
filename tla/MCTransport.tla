---------------------------- MODULE MCTransport ----------------------------
(* A session that the server keeps for two intervals, all the options.     *)
EXTENDS Transport
=============================================================================
