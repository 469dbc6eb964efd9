------------------------ MODULE MeetingLifecycleProofs ------------------------
(***************************************************************************)
(* Theorems about MeetingLifecycle, for any number of meetings and tiers   *)
(* and any windows that keep the order of LifecycleAssumption.             *)
(***************************************************************************)
EXTENDS MeetingLifecycle, TLAPS

-----------------------------------------------------------------------------
(* Ages *)

\* A day does not take an age back, nor out of its range.
LEMMA OlderIsAnAge ==
    ASSUME NEW age \in Age
    PROVE  /\ Older(age) \in Age
           /\ age \in Nat => Older(age) \in Nat
           /\ Older(age) = Never <=> age = Never
           /\ \A w \in Int : Elapsed(age, w) => Elapsed(Older(age), w)
BY LifecycleAssumption DEF Older, Age, Elapsed

\* The days left until a meeting ends stay a number, or NULL.
LEMMA SoonerIsAnAge ==
    ASSUME NEW end \in Age
    PROVE  (IF end \in {Never, 0} THEN end ELSE end - 1) \in Age
BY LifecycleAssumption DEF Age

\* What a reactivation writes is a row again.
LEMMA ReactivatedIsARow ==
    ASSUME NEW saw \in Row, NEW r \in Row
    PROVE  Reactivated(saw, r) \in Row
BY ZenonT(60) DEF Reactivated, Row, Age

-----------------------------------------------------------------------------
(* Type correctness *)

\* The initial state is well typed.
LEMMA InitTyped == Init => TypeOK
<1> SUFFICES ASSUME Init PROVE TypeOK
    OBVIOUS
<1>1. [state |-> "active", end |-> Never, live |-> 0, expired |-> Never,
       sent |-> FALSE, warned |-> Never] \in Row
    BY DEF Row, Age
<1> QED
    BY <1>1 DEF Init, TypeOK

\* Every step keeps the types.
LEMMA StepTyped == TypeOK /\ [Next]_vars => TypeOK'
<1> SUFFICES ASSUME TypeOK, [Next]_vars PROVE TypeOK'
    OBVIOUS
<1> USE DEF TypeOK
<1>1. ASSUME NEW m \in Meetings, Deactivate(m) PROVE TypeOK'
    <2>1. [row[m] EXCEPT !.state = "inactive", !.expired = 0] \in Row
        BY DEF Row, Age
    <2> QED BY <1>1, <2>1 DEF Deactivate
<1>2. CASE WarnRead BY <1>2 DEF WarnRead
<1>3. CASE WarnCommit
    <2>1. \A m \in Meetings : Stamp(row[m]) \in Row
        BY DEF Stamp, Row, Age
    <2>2. Settled(warner) \subseteq Meetings
        BY DEF Settled
    <2> QED BY <1>3, <2>1, <2>2 DEF WarnCommit
<1>4. CASE WarnLost BY <1>4 DEF WarnLost
<1>5. CASE DeleteRead BY <1>5 DEF DeleteRead
<1>6. ASSUME NEW ms PROVE Drop(ms) \in [Meetings -> Row]
    <2>1. \A m \in Meetings : [row[m] EXCEPT !.state = "gone"] \in Row
        BY DEF Row
    <2> QED BY <2>1 DEF Drop
<1>7. CASE DeleteCommit BY <1>6, <1>7 DEF DeleteCommit
<1>8. CASE DeleteLost BY <1>8 DEF DeleteLost
<1>9. ASSUME NEW m \in Meetings, BeginReactivate(m) PROVE TypeOK'
    BY <1>9 DEF BeginReactivate, Request
<1>10. ASSUME NEW m \in Meetings, NEW d \in EndsOffered, BeginSchedule(m, d) PROVE TypeOK'
    BY <1>10 DEF BeginSchedule, Request, EndsOffered
<1>11. CASE CommitReactivate
    <2>1. owner.m \in Meetings /\ owner.saw \in Row
        BY <1>11 DEF CommitReactivate, Request, Idle
    <2>2. Reactivated(owner.saw, row[owner.m]) \in Row
        BY <2>1, ReactivatedIsARow
    <2> QED BY <1>11, <2>1, <2>2 DEF CommitReactivate
<1>12. CASE CommitSchedule
    <2>1. owner.m \in Meetings /\ owner.end \in Age
        BY <1>12, LifecycleAssumption DEF CommitSchedule, Request, Idle, Age
    <2>2. [row[owner.m] EXCEPT !.end = owner.end] \in Row
        BY <2>1 DEF Row
    <2> QED BY <1>12, <2>1, <2>2 DEF CommitSchedule
<1>13. CASE Abandon BY <1>13 DEF Abandon
<1>14. ASSUME NEW ms \in SUBSET Meetings, OwnerDelete(ms) PROVE TypeOK'
    BY <1>6, <1>14 DEF OwnerDelete
<1>15. CASE NextDay
    <2>1. \A m \in Meetings :
              [row[m] EXCEPT !.live = Older(@), !.expired = Older(@), !.warned = Older(@),
                             !.end = IF @ \in {Never, 0} THEN @ ELSE @ - 1] \in Row
        <3> TAKE m \in Meetings
        <3>1. row[m] \in Row OBVIOUS
        <3>2. /\ Older(row[m].live) \in Nat
              /\ Older(row[m].expired) \in Age
              /\ Older(row[m].warned) \in Age
            BY <3>1, OlderIsAnAge DEF Row, Age
        <3>3. (IF row[m].end \in {Never, 0} THEN row[m].end ELSE row[m].end - 1) \in Age
            BY <3>1, SoonerIsAnAge DEF Row
        <3> QED BY <3>1, <3>2, <3>3 DEF Row
    <2> QED BY <1>15, <2>1 DEF NextDay
<1>16. CASE ChangeTier BY <1>16 DEF ChangeTier
<1>17. CASE ChangeAnswer BY <1>17 DEF ChangeAnswer
<1>18. CASE UNCHANGED vars BY <1>18 DEF vars
<1> QED
    BY <1>1, <1>2, <1>3, <1>4, <1>5, <1>7, <1>8, <1>9, <1>10, <1>11, <1>12, <1>13, <1>14,
       <1>15, <1>16, <1>17, <1>18 DEF Next, Sweep, OwnerStep

\* Rows, requests and sweeps stay well formed (models/meetups.py).
THEOREM LifecycleTyped == Spec => []TypeOK
BY InitTyped, StepTyped, PTL DEF Spec

-----------------------------------------------------------------------------
(* The warning precedes the deletion *)

\* What holds of a meeting whose last reactivation overlapped no sweep: it carries
\* no warning while active, a warning on it was settled since it last ended, and a
\* sweep that has read it still finds it as it was read.
Settling(m) ==
    /\ row[m].state = "active" => ~row[m].sent
    /\ row[m].sent => m \in told
    /\ m \in warner => row[m].state = "inactive" /\ ~row[m].sent
    /\ m \in deleter => /\ row[m].state = "inactive"
                        /\ row[m].sent
                        /\ Elapsed(row[m].warned, Lead)
                        /\ \E t \in Tiers : Elapsed(row[m].expired, Retention[t])

Coherent(r) ==
    r.state # "gone" =>
        /\ r.sent <=> r.warned # Never
        /\ r.expired # Never <=> r.state = "inactive"

\* The inductive invariant.  A reactivation writes what it read, so the row it
\* read must have been coherent too.
LifecycleInv ==
    /\ \A m \in Meetings : Coherent(row[m])
    /\ owner.op = "reactivate" =>
           /\ owner.saw.sent <=> owner.saw.warned # Never
           /\ owner.saw.expired # Never
    /\ \A m \in Meetings \ raced : row[m].state # "gone" => Settling(m)

\* It holds at the start, when nothing has ended and nothing is read.
LEMMA InitSettled == Init => LifecycleInv
BY LifecycleAssumption DEF Init, LifecycleInv, Settling, Coherent, Idle

\* Every step keeps it.
LEMMA StepSettled == TypeOK /\ TypeOK' /\ LifecycleInv /\ [Next]_vars => LifecycleInv'
<1> SUFFICES ASSUME TypeOK, TypeOK', LifecycleInv, [Next]_vars PROVE LifecycleInv'
    OBVIOUS
<1>0. /\ row \in [Meetings -> Row] /\ row' \in [Meetings -> Row]
      /\ owner \in Request \cup {Idle} /\ tier \in Tiers
    BY DEF TypeOK
<1>i. /\ \A m \in Meetings : Coherent(row[m])
      /\ \A m \in Meetings \ raced : row[m].state # "gone" => Settling(m)
    BY DEF LifecycleInv
<1>1. ASSUME NEW n \in Meetings, Deactivate(n) PROVE LifecycleInv'
    <2>1. /\ row' = [row EXCEPT ![n] = [row[n] EXCEPT !.state = "inactive", !.expired = 0]]
          /\ told' = told \ {n}
          /\ UNCHANGED <<owner, warner, deleter, raced>>
          /\ row[n].state = "active"
        BY <1>1, <1>0 DEF Deactivate, DueForDeactivation
    <2>2. /\ row'[n].state = "inactive" /\ row'[n].expired = 0
          /\ row'[n].sent = row[n].sent /\ row'[n].warned = row[n].warned
          /\ \A m \in Meetings \ {n} : row'[m] = row[m]
        BY <2>1, <1>0 DEF Row
    <2>3. \A m \in Meetings : Coherent(row'[m])
        BY <1>i, <2>1, <2>2, LifecycleAssumption DEF Coherent
    <2>4. \A m \in Meetings \ raced' : row'[m].state # "gone" => Settling(m)'
        BY <1>i, <2>1, <2>2 DEF Settling
    <2> QED BY <2>1, <2>3, <2>4 DEF LifecycleInv
<1>2. CASE WarnRead
    BY <1>2, <1>0, <1>i DEF WarnRead, LifecycleInv, Settling, Coherent, DueForWarning, Elapsed, Row
<1>3. CASE WarnCommit
    <2>1. PICK ms \in SUBSET warner :
              /\ ms \cap InState("gone") = {}
              /\ row' = [m \in Meetings |-> IF m \in ms THEN Stamp(row[m]) ELSE row[m]]
              /\ told' = told \cup ms
              /\ warner' = {}
              /\ UNCHANGED <<owner, deleter, raced>>
        BY <1>3 DEF WarnCommit, WarnRefused, Settled
    <2>2. \A m \in Meetings :
              IF m \in ms
              THEN /\ row'[m].sent /\ row'[m].warned = 0
                   /\ row'[m].state = row[m].state /\ row'[m].expired = row[m].expired
              ELSE row'[m] = row[m]
        BY <2>1, <1>0 DEF Stamp, Row
    <2>3. \A m \in Meetings : Coherent(row'[m])
        BY <1>i, <2>2, LifecycleAssumption DEF Coherent
    <2>4. \A m \in Meetings \ raced' : row'[m].state # "gone" => Settling(m)'
        BY <1>i, <2>1, <2>2 DEF Settling
    <2> QED BY <2>1, <2>3, <2>4 DEF LifecycleInv
<1>4. CASE WarnLost
    BY <1>4, <1>i DEF WarnLost, LifecycleInv, Settling
<1>5. CASE DeleteRead
    <2>1. /\ deleter' = {m \in Meetings : DueForDeletion(m)}
          /\ UNCHANGED <<row, owner, warner, told, raced>>
        BY <1>5 DEF DeleteRead
    <2>2. ASSUME NEW m \in Meetings \ raced, row[m].state # "gone" PROVE Settling(m)'
        <3>1. Settling(m) BY <1>i, <2>2
        <3>2. m \in deleter' => /\ row[m].state = "inactive" /\ row[m].sent
                                /\ Elapsed(row[m].warned, Lead)
                                /\ \E t \in Tiers : Elapsed(row[m].expired, Retention[t])
            BY <2>1, <2>2, <1>i, <1>0 DEF DueForDeletion, Coherent, Elapsed
        <3> QED BY <2>1, <3>1, <3>2 DEF Settling
    <2> QED BY <2>1, <2>2, <1>i DEF LifecycleInv
<1>6. ASSUME NEW ms, row' = Drop(ms), UNCHANGED <<owner, warner, told, raced>>,
             deleter' \subseteq deleter
      PROVE  LifecycleInv'
    <2>1. \A m \in Meetings : row'[m] = row[m] \/ row'[m].state = "gone"
        BY <1>6, <1>0 DEF Drop, Row
    <2>2. \A m \in Meetings : Coherent(row'[m])
        BY <1>i, <2>1 DEF Coherent
    <2>3. \A m \in Meetings \ raced' : row'[m].state # "gone" => Settling(m)'
        BY <1>i, <1>6, <2>1 DEF Settling
    <2> QED BY <1>6, <2>2, <2>3 DEF LifecycleInv
<1>7. CASE DeleteCommit
    BY <1>7, <1>6 DEF DeleteCommit
<1>8. CASE DeleteLost
    BY <1>8, <1>i DEF DeleteLost, LifecycleInv, Settling
<1>9. ASSUME NEW n \in Meetings, BeginReactivate(n) PROVE LifecycleInv'
    BY <1>9, <1>i DEF BeginReactivate, LifecycleInv, Settling, Coherent
<1>10. ASSUME NEW n \in Meetings, NEW d \in EndsOffered, BeginSchedule(n, d)
       PROVE  LifecycleInv'
    BY <1>10, <1>i DEF BeginSchedule, LifecycleInv, Settling
<1>11. CASE CommitReactivate
    <2> DEFINE n == owner.m
               saw == owner.saw
    <2>1. /\ n \in Meetings /\ saw \in Row /\ row[n].state # "gone"
          /\ row' = [row EXCEPT ![n] = Reactivated(saw, row[n])]
          /\ owner' = Idle
          /\ UNCHANGED <<warner, deleter, told>>
        BY <1>11, <1>0 DEF CommitReactivate, Request, Idle
    <2>2. raced' = IF Overlapped(n) THEN raced \cup {n} ELSE raced \ {n}
        BY <1>11 DEF CommitReactivate
    <2>3. (saw.sent <=> saw.warned # Never) /\ saw.expired # Never
        BY <1>11 DEF CommitReactivate, LifecycleInv
    <2>4. row'[n] = Reactivated(saw, row[n]) /\ \A m \in Meetings \ {n} : row'[m] = row[m]
        BY <2>1, <1>0
    <2>5. /\ row'[n].state = "active" /\ row'[n].expired = Never
          /\ row'[n].sent = IF saw.sent THEN FALSE ELSE row[n].sent
          /\ row'[n].warned = IF saw.warned # Never THEN Never ELSE row[n].warned
        <3> HIDE DEF n, saw
        <3> QED BY <2>1, <2>3, <2>4, <1>0 DEF Reactivated, Row
    <2>6. \A m \in Meetings : Coherent(row'[m])
        <3>1. row[n].sent <=> row[n].warned # Never
            BY <1>i, <2>1 DEF Coherent
        <3>2. row'[n].sent <=> row'[n].warned # Never
            <4>1. CASE saw.sent BY <4>1, <2>3, <2>5
            <4>2. CASE ~saw.sent BY <4>2, <2>3, <2>5, <3>1
            <4> QED BY <4>1, <4>2
        <3>3. Coherent(row'[n])
            BY <2>5, <3>2 DEF Coherent
        <3> QED BY <1>i, <2>4, <3>3
    <2>7. n \notin raced' => n \notin warner \cup deleter /\ row'[n].sent = FALSE
        <3>1. row[n].sent \in BOOLEAN /\ saw.sent \in BOOLEAN
            BY <2>1, <1>0 DEF Row
        <3> QED BY <2>1, <2>2, <2>5, <3>1 DEF Overlapped
    <2>8. \A m \in Meetings \ raced' : row'[m].state # "gone" => Settling(m)'
        BY <1>i, <2>1, <2>2, <2>4, <2>5, <2>7 DEF Settling
    <2> QED BY <2>1, <2>6, <2>8 DEF LifecycleInv, Idle
<1>12. CASE CommitSchedule
    <2>1. /\ owner.m \in Meetings
          /\ row' = [row EXCEPT ![owner.m].end = owner.end]
        BY <1>12, <1>0 DEF CommitSchedule, Request, Idle
    <2>2. owner' = Idle /\ UNCHANGED <<warner, deleter, told, raced>>
        BY <1>12 DEF CommitSchedule
    <2>3. \A m \in Meetings :
              /\ row'[m].state = row[m].state /\ row'[m].expired = row[m].expired
              /\ row'[m].sent = row[m].sent /\ row'[m].warned = row[m].warned
        BY <2>1, <1>0 DEF Row
    <2>4. \A m \in Meetings : Coherent(row'[m])
        BY <1>i, <2>3 DEF Coherent
    <2>5. \A m \in Meetings \ raced' : row'[m].state # "gone" => Settling(m)'
        BY <1>i, <2>2, <2>3 DEF Settling
    <2> QED BY <2>2, <2>4, <2>5 DEF LifecycleInv, Idle
<1>13. CASE Abandon
    BY <1>13, <1>i DEF Abandon, LifecycleInv, Settling, Idle
<1>14. ASSUME NEW ms \in SUBSET Meetings, OwnerDelete(ms) PROVE LifecycleInv'
    BY <1>14, <1>6 DEF OwnerDelete
<1>15. CASE NextDay
    <2>1. UNCHANGED <<owner, warner, deleter, told, raced>>
        BY <1>15 DEF NextDay
    <2>2. \A m \in Meetings :
              /\ row'[m].state = row[m].state /\ row'[m].sent = row[m].sent
              /\ row'[m].expired = Older(row[m].expired)
              /\ row'[m].warned = Older(row[m].warned)
        BY <1>15, <1>0 DEF NextDay, Row
    <2>3. \A m \in Meetings : row[m].expired \in Age /\ row[m].warned \in Age
        BY <1>0 DEF Row
    <2>4. \A m \in Meetings : Coherent(row'[m])
        BY <1>i, <2>2, <2>3, OlderIsAnAge DEF Coherent
    <2>5. ASSUME NEW m \in Meetings \ raced, row'[m].state # "gone" PROVE Settling(m)'
        <3>1. Settling(m) BY <1>i, <2>2, <2>5
        <3>2. Elapsed(row[m].warned, Lead) => Elapsed(row'[m].warned, Lead)
            BY <2>2, <2>3, OlderIsAnAge, LifecycleAssumption
        <3>3. ASSUME NEW t \in Tiers, Elapsed(row[m].expired, Retention[t])
              PROVE  Elapsed(row'[m].expired, Retention[t])
            BY <2>2, <2>3, <3>3, OlderIsAnAge, LifecycleAssumption
        <3> QED BY <2>1, <2>2, <3>1, <3>2, <3>3 DEF Settling
    <2> QED BY <2>1, <2>4, <2>5 DEF LifecycleInv
<1>16. CASE ChangeTier
    BY <1>16, <1>i DEF ChangeTier, LifecycleInv, Settling
<1>17. CASE ChangeAnswer
    BY <1>17, <1>i DEF ChangeAnswer, LifecycleInv, Settling
<1>18. CASE UNCHANGED vars
    BY <1>18, <1>i DEF vars, LifecycleInv, Settling
<1> QED
    BY <1>1, <1>2, <1>3, <1>4, <1>5, <1>7, <1>8, <1>9, <1>10, <1>11, <1>12, <1>13, <1>14,
       <1>15, <1>16, <1>17, <1>18 DEF Next, Sweep, OwnerStep

\* It holds of every reachable state (warn_meeting_deletions.py, delete_meetings.py,
\* reactivate_meeting.py).
THEOREM LifecycleSettled == Spec => []LifecycleInv
BY InitTyped, StepTyped, InitSettled, StepSettled, PTL DEF Spec

\* The two columns of the warning, and the expiry stamp and `active`, agree in every
\* row, whichever unlocked writes interleave.
THEOREM RowsAreCoherent == Spec => []RowCoherent
<1>1. LifecycleInv => RowCoherent
    BY DEF LifecycleInv, RowCoherent, Coherent, InState
<1> QED BY <1>1, LifecycleSettled, PTL

\* The deletion sweep takes a meeting no reactivation raced with only after its
\* retention, its warning and the lead.
THEOREM DeletionsAreDue == Spec => DeletionIsDue
<1>1. LifecycleInv =>
          \A m \in Meetings \ raced :
              SweptAway(m) => /\ row[m].state = "inactive"
                              /\ m \in told
                              /\ Elapsed(row[m].warned, Lead)
                              /\ \E t \in Tiers : Elapsed(row[m].expired, Retention[t])
    BY DEF LifecycleInv, Settling, SweptAway
<1> QED BY <1>1, LifecycleSettled, PTL DEF DeletionIsDue

===============================================================================
