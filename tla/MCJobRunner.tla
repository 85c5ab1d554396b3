----------------------------- MODULE MCJobRunner -----------------------------
(***************************************************************************)
(* The instance of JobRunner for TLC: jobs.cfg gives its constants.        *)
(***************************************************************************)
EXTENDS JobRunner
==============================================================================
