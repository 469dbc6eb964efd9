-------------------------- MODULE MCMeetingLifecycle --------------------------
(***************************************************************************)
(* Instances of MeetingLifecycle for TLC: the windows of the code, 90 and  *)
(* 365 days with a lead of 7, scaled down to a few days that keep their    *)
(* order (lead < free retention < patron retention).                       *)
(***************************************************************************)
EXTENDS MeetingLifecycle, TLC

CONSTANTS hike, dinner, free, patron

Kept == [t \in Tiers |-> IF t = free THEN 2 ELSE 3]
Undated == [t \in Tiers |-> IF t = free THEN 1 ELSE 2]
Allowed == [t \in Tiers |-> IF t = free THEN 1 ELSE 2]

Alike == Permutations({hike, dinner})
===============================================================================
