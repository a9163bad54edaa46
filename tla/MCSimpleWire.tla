---------------------------- MODULE MCSimpleWire ----------------------------
(***************************************************************************)
(* Small instances of SimpleWire for TLC.                                  *)
(***************************************************************************)
EXTENDS SimpleWire
=============================================================================
