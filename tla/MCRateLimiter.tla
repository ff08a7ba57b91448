--------------------------- MODULE MCRateLimiter ---------------------------
(***************************************************************************)
(* Two clients, two requests in flight and a limit of two per window of    *)
(* two ticks: in six ticks three windows of a key are met by one span, one *)
(* of them reopened by a late request after a sweep, and seven requests    *)
(* fill them and one more; the window of a client that has gone ends early *)
(* enough to be missed by a sweep that should have dropped it.             *)
(***************************************************************************)
EXTENDS RateLimiter, TLC

CONSTANTS p1, p2, k1, k2

MCProcs == {p1, p2}
MCKeys == {k1, k2}
Symmetric == Permutations(MCProcs) \cup Permutations(MCKeys)
============================================================================
