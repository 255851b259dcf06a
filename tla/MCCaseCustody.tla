---------------------------- MODULE MCCaseCustody ----------------------------
(* Small instances of CaseCustody. *)
EXTENDS CaseCustody, TLC

CONSTANTS k1, k2, k3, k4, k5

\* Requests differ only in what they ask for.
CallSymmetry == Permutations(Calls)

\* The requests that write records; an access is one like an analysis.
RecordOps == {"close", "archive", "add", "register", "analyse"}
==============================================================================
