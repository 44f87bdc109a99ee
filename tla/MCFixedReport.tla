--------------------------- MODULE MCFixedReport ---------------------------
(* Instances of FixedReportScheduler for TLC. *)
EXTENDS FixedReportScheduler

CONSTANTS rest, tilt, press

(* Pressing and releasing a button is ordered, moving a stick is not. *)
ButtonEdges == {<<rest, press>>, <<tilt, press>>, <<press, rest>>, <<press, tilt>>}
=============================================================================
