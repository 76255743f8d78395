---------------------------- MODULE MCLegacyJobs ----------------------------
(* Two jobs of one repository, with one runner name each.                     *)
EXTENDS LegacyJobs

CONSTANTS x, y

MCRunners == {<<x, 1>>, <<y, 1>>}
=============================================================================
