------------------------------ MODULE MCSignIn ------------------------------
(***************************************************************************)
(* Model of SignIn: two subjects, one of which changes its email to the    *)
(* other's.                                                                *)
(***************************************************************************)
EXTENDS SignIn, TLC

CONSTANTS i1, i2, i3, e1, e2, u1, u2, b1, b2, s1, s2, r1, r2

MCIdentities == {i1, i2, i3}
MCEmails == {e1, e2}
MCSubjects == {u1, u2}
MCEmailsOf == [u \in MCSubjects |-> IF u = u1 THEN {e1, e2} ELSE {e2}]
MCBrowsers == {b1, b2}
MCStates == {s1, s2}
MCRequests == {r1, r2}

\* These differ only in what happens to them.
Symmetry ==
  Permutations(MCIdentities) \cup Permutations(MCBrowsers) \cup
  Permutations(MCStates) \cup Permutations(MCRequests)

=============================================================================
