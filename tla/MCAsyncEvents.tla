---------------------------- MODULE MCAsyncEvents ----------------------------
(***************************************************************************)
(* AsyncEvents for TLC: its constants are numbers and sets of strings, and *)
(* each .cfg gives them their values.                                      *)
(***************************************************************************)
EXTENDS EventsInvariant
=============================================================================
