----------------------------- MODULE MCSessions -----------------------------
(***************************************************************************)
(* Two tabs of one browser, an analyst's and a reviewer's account, and an  *)
(* endpoint that asks for reviewers.                                       *)
(***************************************************************************)
EXTENDS Sessions

CONSTANTS ann, rev, t1, t2

MCSeeds == <<ann, rev>>
MCSeedRole == [a \in Accounts |-> IF a = ann THEN "analyst" ELSE "reviewer"]
MCAllowedRoles == [op \in Operations |-> {"reviewer"}]
=============================================================================
