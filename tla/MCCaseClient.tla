---------------------------- MODULE MCCaseClient ----------------------------
(***************************************************************************)
(* An analyst's and a reviewer's tab, one case.                            *)
(***************************************************************************)
EXTENDS CaseClient

CONSTANTS t1, t2, c1
=============================================================================
