---------------------------- MODULE MCPatreonAccess ----------------------------
(* Two web processes and the job, a patron on the second page of the roster. *)
EXTENDS PatreonAccess, TLC

CONSTANTS w1, w2, bob

MCPageOf == bob :> 2

=============================================================================
