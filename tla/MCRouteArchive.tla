--------------------------- MODULE MCRouteArchive ---------------------------
(***************************************************************************)
(* Small instances of RouteArchive: codes, values and requests are         *)
(* interchangeable.                                                        *)
(***************************************************************************)
EXTENDS RouteArchive, TLC

CONSTANTS p1, p2, p3, c1, c2, v1, v2, name

Interchangeable == Permutations(Procs) \cup Permutations(Codes) \cup Permutations(Values)
============================================================================
