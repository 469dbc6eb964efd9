--------------------------- MODULE MCMeetingRoster ---------------------------
(***************************************************************************)
(* Instances of MeetingRoster for TLC.                                     *)
(***************************************************************************)
EXTENDS MeetingRosterRefinement, TLC

CONSTANTS owner, ann, bob, guest, none, nobody, free, s1, s2

\* Handlers may be exchanged, and so may participants who play the same part.
Handlers == Permutations({s1, s2})
Interchangeable == {f @@ g : f \in Handlers, g \in Permutations({ann, bob})}
==============================================================================
