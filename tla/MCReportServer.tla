---------------------------- MODULE MCReportServer ----------------------------
(***************************************************************************)
(* Instances of ReportServer for TLC: three calls, two of them for one     *)
(* report.                                                                 *)
(***************************************************************************)
EXTENDS ReportServer

CONSTANTS c1, c2, c3, r1, r2

MCCalls == {c1, c2, c3}
MCReports == {r1, r2}
MCReportOf == [c \in MCCalls |-> IF c = c3 THEN r2 ELSE r1]

===============================================================================
