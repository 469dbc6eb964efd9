----------------------- MODULE MeetingRosterRefinement -----------------------
(***************************************************************************)
(* The transactions of MeetingRoster, interleaved, do to the attendee list *)
(* what the atomic operations of Roster do, one after the other.           *)
(***************************************************************************)
EXTENDS MeetingRoster, Sequences

\* waiting_links(): the queue is the waiting links by created_time.
QueueOf(W, s) ==
    CHOOSE q \in [1 .. Cardinality(W) -> W] : \A i, j \in DOMAIN q : i < j => s[q[i]] < s[q[j]]

\* While a handler holds the row lock, the tier the list goes by is the one the
\* handler read.
List == INSTANCE Roster WITH
            open  <- meeting.state = "active",
            seats <- seated,
            queue <- QueueOf(waiting, since),
            limit <- meeting.max,
            grade <- IF holder = NoSlot THEN tier ELSE view.tier

\* As long as no account is deleted behind it, the list behaves as if one
\* operation ran at a time: every place is handed on, in order, at the moment it
\* is freed, and nobody waits or is turned away while there is room.
BehavesAtomically == List!Spec
==============================================================================
