-------------------------- MODULE MCReportSchedule --------------------------
(***************************************************************************)
(* Instances of ReportSchedule for TLC.                                    *)
(***************************************************************************)
EXTENDS ReportSchedule

CONSTANTS w1, w2

\* Any type of schedule.
AllTypes == {"Alert", "Report"}
=============================================================================
