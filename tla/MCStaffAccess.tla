---------------------------- MODULE MCStaffAccess ----------------------------
(* Instances of StaffAccess for TLC. *)
EXTENDS StaffAccess, TLC

CONSTANTS u1, u2, t1, t2, r1, r2

\* u1 and u2 are the first admins; the tokens and requests are interchangeable.
MCSymmetry == Permutations({t1, t2}) \union Permutations({r1, r2})
=============================================================================
