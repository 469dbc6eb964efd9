-------------------------------- MODULE Roster --------------------------------
(***************************************************************************)
(* What the attendee list of a meeting promises, with no transactions, no  *)
(* locks and no accounts: a set of people with a place, a queue, and a     *)
(* capacity.  Every operation is atomic and acts on the list as it is.     *)
(***************************************************************************)
EXTENDS Integers, SequencesExt

CONSTANTS
    Person,     \* everybody who can be on the list
    Limits,     \* the limits the owner can set
    Tiers,      \* the capacities the owner's account can have
    NoLimit     \* no limit of either kind

VARIABLES
    open,       \* the meeting is active
    seats,      \* the people who have a place
    queue,      \* the people who wait for one, longest-waiting first
    limit,      \* the owner's limit
    grade       \* the capacity of the owner's account, as the list knows it

vars == <<open, seats, queue, limit, grade>>

Smaller(a, b) == IF b = NoLimit THEN a ELSE IF a = NoLimit THEN b ELSE IF a < b THEN a ELSE b

\* The free places when S is seated and the limit is m.
Free(S, m) ==
    LET cap == Smaller(m, grade)
    IN  IF cap = NoLimit THEN Len(queue) ELSE cap - Cardinality(S)

HasRoom == Smaller(limit, grade) = NoLimit \/ Free(seats, limit) > 0

Present(p) == p \in seats \/ p \in ToSet(queue)

Init ==
    /\ open = TRUE
    /\ seats = {} /\ queue = <<>>
    /\ limit \in Limits \cup {NoLimit}
    /\ grade \in Tiers

\* S keeps its places, Q waits, and the front of Q takes every free place.
HandOn(S, Q, m) ==
    LET n == IF Free(S, m) < 0 THEN 0 ELSE IF Free(S, m) < Len(Q) THEN Free(S, m) ELSE Len(Q)
    IN  /\ seats' = S \cup ToSet(SubSeq(Q, 1, n))
        /\ queue' = SubSeq(Q, n + 1, Len(Q))

\* A newcomer takes a free place,
Enter(p) ==
    /\ open /\ ~Present(p) /\ HasRoom
    /\ seats' = seats \cup {p}
    /\ UNCHANGED <<open, queue, limit>>

\* or, in a full meeting, a place in the queue.
Wait(p) ==
    /\ open /\ ~Present(p) /\ ~HasRoom
    /\ \E i \in 1 .. Len(queue) + 1 : queue' = InsertAt(queue, i, p)
    /\ UNCHANGED <<open, seats, limit>>

\* Somebody gives up a place, or a place in the queue, and the queue moves up.
Depart(p) ==
    /\ open /\ p \in seats
    /\ HandOn(seats \ {p}, queue, limit)
    /\ UNCHANGED <<open, limit>>

GiveUp(i) ==
    /\ open
    /\ HandOn(seats, RemoveAt(queue, i), limit)
    /\ UNCHANGED <<open, limit>>

\* The owner changes the limit: nobody loses a place, and the queue moves up.
Relimit(m) ==
    /\ limit' = m
    /\ HandOn(seats, queue, m)
    /\ UNCHANGED open

\* The meeting ends and everybody is off the list.
Close ==
    /\ open' = FALSE
    /\ seats' = {} /\ queue' = <<>>
    /\ UNCHANGED limit

Reopen ==
    /\ ~open
    /\ open' = TRUE
    /\ UNCHANGED <<seats, queue, limit>>

Regrade == UNCHANGED <<open, seats, queue, limit>>

\* The owner's account changes on its own, and the list learns of it at any step.
Next ==
    /\ grade' \in Tiers
    /\ \/ \E p \in Person : Enter(p) \/ Wait(p) \/ Depart(p)
       \/ \E i \in 1 .. Len(queue) : GiveUp(i)
       \/ \E m \in Limits \cup {NoLimit} : Relimit(m)
       \/ Close \/ Reopen \/ Regrade

Spec == Init /\ [][Next]_vars
===============================================================================
