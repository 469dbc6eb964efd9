------------------------------ MODULE MCAccounts ------------------------------
(***************************************************************************)
(* Instances of Accounts for TLC.                                          *)
(***************************************************************************)
EXTENDS Accounts, TLC

CONSTANTS ann, bob, r1, r2, m1, m2, none, host

\* Rows are interchangeable, and so are the meetings nobody owns at first.
AnyRow == Permutations({r1, r2})
==============================================================================
