--------------------------- MODULE MCCicdCollector ----------------------------
(***************************************************************************)
(* Two time units are the poll's five minutes.  The window of 30 minutes   *)
(* is scaled down to two polls, a run and its re-run take at most one, and *)
(* one poll in a row may fail.  Reading the document may fail at any beat. *)
(***************************************************************************)
EXTENDS CicdCollector

MCRun    == {"r1"}
MCSignal == {"disk"}
=============================================================================
