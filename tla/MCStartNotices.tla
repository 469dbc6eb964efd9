---------------------------- MODULE MCStartNotices ----------------------------
(* Two people, one of whom wants no lead time. *)
EXTENDS StartNotices, TLC

CONSTANTS ann, bob

MCLead == (ann :> 1) @@ (bob :> 0)
=============================================================================
