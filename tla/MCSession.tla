----------------------------- MODULE MCSession -----------------------------
(***************************************************************************)
(* Models of Session: the requests on one login.                           *)
(***************************************************************************)
EXTENDS Session, TLC

CONSTANTS f1, r1, r2, r3

MCFamilies == {f1}
MCRequests == {r1, r2, r3}
\* Requests differ only in what they do.
RequestSymmetry == Permutations(MCRequests)

=============================================================================
