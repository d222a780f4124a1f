----------------------------- MODULE MCSummaryLane ----------------------------
(***************************************************************************)
(* A notification and an alarm under the same row id.  One time unit is    *)
(* four minutes: the lease of 20 is five, a run's limit of 12 is three.    *)
(* Of the attempts there are two.                                          *)
(***************************************************************************)
EXTENDS SummaryLane

MCIdOf == [j \in {"notification", "alarm"} |-> 7]
=============================================================================
