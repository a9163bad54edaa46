----------------------------- MODULE MCCommands -----------------------------
(* Every command of tgctl, a data store of two files, and up to three      *)
(* servers of the same database, one after the other.                      *)
EXTENDS Commands

MCCmds == AllCmds
=============================================================================
