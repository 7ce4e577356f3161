-------------------------- MODULE MCReportDelivery --------------------------
(***************************************************************************)
(* The hosts of the profiles may be exchanged for one another.             *)
(***************************************************************************)
EXTENDS ReportDelivery, TLC

Swap == Permutations(Profile)
=============================================================================
