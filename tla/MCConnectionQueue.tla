------------------------- MODULE MCConnectionQueue -------------------------
(* Instances of ConnectionQueue for TLC: a pool of two slots with a client *)
(* of each kind, and one of three slots with two clients of each kind.     *)
EXTENDS ConnectionQueue
=============================================================================
