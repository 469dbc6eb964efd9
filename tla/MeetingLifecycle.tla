--------------------------- MODULE MeetingLifecycle ---------------------------
(***************************************************************************)
(* From activation to permanent deletion: the meetings of one owner, the   *)
(* three daily sweeps that move them along, and the owner who edits, brings *)
(* back and deletes them meanwhile.                                        *)
(*                                                                         *)
(* The deactivation sweep decides under the row lock and is one step.  The *)
(* warning and deletion sweeps read the rows of an owner without a lock,   *)
(* send one digest to the owner, then write by id and commit: two steps,   *)
(* with the sends between them.  Reactivation and the edits of the date    *)
(* read without a lock too, and write only the columns they changed.       *)
(*                                                                         *)
(* Times are kept as ages in whole days: a column that holds a time is the *)
(* days since, and NULL is Never.                                          *)
(*                                                                         *)
(* Unused definitions that stand before one of the same parameters are     *)
(* plausible mistakes in its code, for the mutants of PROJECT.json.        *)
(***************************************************************************)
EXTENDS Integers, FiniteSets

CONSTANTS
    Meetings,   \* the meetings of the owner
    Tiers,      \* the supporter tiers the owner moves between
    Retention,  \* LifecyclePolicy.inactive_retention of each tier
    Dateless,   \* LifecyclePolicy.dateless_lifetime of each tier
    Cap,        \* active meetings each tier may have
    LeftLife,   \* LifecyclePolicy.left_owner_dateless_lifetime
    Lead,       \* LifecyclePolicy.deletion_warning_lead
    Dates,      \* days ahead the owner may set a meeting's end
    Answers,    \* how a notice to the owner may resolve
    Horizon,    \* ages stop counting here, past every window
    Never       \* NULL

ASSUME LifecycleAssumption ==
    /\ Never \notin Nat
    /\ Retention \in [Tiers -> Nat] /\ Dateless \in [Tiers -> Nat] /\ Cap \in [Tiers -> Nat]
    /\ Lead \in Nat /\ LeftLife \in Nat /\ Horizon \in Nat
    /\ Dates \subseteq Nat \ {0}
    /\ Answers \subseteq {"delivered", "unreachable", "opted_out", "failed"}
    /\ \A t \in Tiers : Lead <= Retention[t] /\ Retention[t] < Horizon /\ Dateless[t] < Horizon
    /\ Lead < Horizon /\ LeftLife < Horizon

VARIABLES
    row,        \* the meetups rows
    tier,       \* users.supporter_level of the owner
    answer,     \* how a notice sent to the owner resolves at present
    owner,      \* the request of the owner that has read and not yet written
    warner,     \* the meetings the warning sweep has read in its open transaction
    deleter,    \* the same of the deletion sweep
    told,       \* history: meetings whose warning was settled since they last ended
    raced       \* history: meetings whose last reactivation overlapped a sweep

vars == <<row, tier, answer, owner, warner, deleter, told, raced>>

Age == Nat \cup {Never}

\* end: days until the end of the meeting plus the owner's timeout; live: days since
\* activated_time; expired: since expiration_time; warned: since warned_time.
Row == [state : {"active", "inactive", "gone"}, end : Age, live : Nat,
        expired : Age, sent : BOOLEAN, warned : Age]
Idle == [op |-> "none"]
Request == [op : {"reactivate"}, m : Meetings, saw : Row]
             \cup [op : {"schedule"}, m : Meetings, end : Dates \cup {Never}]

\* Every variable holds a value of its kind.
TypeOK ==
    /\ row \in [Meetings -> Row]
    /\ tier \in Tiers
    /\ answer \in Answers
    /\ owner \in Request \cup {Idle}
    /\ warner \in SUBSET Meetings /\ deleter \in SUBSET Meetings
    /\ told \in SUBSET Meetings /\ raced \in SUBSET Meetings

InState(s) == {m \in Meetings : row[m].state = s}

Init ==
    /\ row = [m \in Meetings |-> [state |-> "active", end |-> Never, live |-> 0,
                                  expired |-> Never, sent |-> FALSE, warned |-> Never]]
    /\ tier \in Tiers
    /\ answer \in Answers
    /\ owner = Idle
    /\ warner = {} /\ deleter = {}
    /\ told = {} /\ raced = {}

-----------------------------------------------------------------------------
(* The windows *)

\* owner_tier_window_elapsed: the stamp plus the owner's current window is past.
Elapsed(age, window) == age # Never /\ age > window

OwnerLeft == answer = "unreachable"

DueOnceDated(m) == row[m].state = "active" /\ row[m].end = 0

\* DUE_FOR_DEACTIVATION.
DueForDeactivation(m) ==
    /\ row[m].state = "active"
    /\ \/ row[m].end = Never /\ row[m].live > Dateless[tier]
       \/ row[m].end = Never /\ OwnerLeft /\ row[m].live > LeftLife
       \/ row[m].end = 0

\* MEETUPS_ABOUT_TO_BE_DELETED_STATEMENT.
DueForWarning(m) ==
    /\ row[m].state # "gone"
    /\ ~row[m].sent
    /\ Elapsed(row[m].expired, Retention[tier] - Lead)

DueWithoutTheLead(m) ==
    /\ row[m].state # "gone"
    /\ row[m].sent
    /\ Elapsed(row[m].expired, Retention[tier])

\* MEETUPS_TO_DELETE_STATEMENT.  Neither statement looks at `active`.
DueForDeletion(m) ==
    /\ row[m].state # "gone"
    /\ row[m].sent
    /\ Elapsed(row[m].expired, Retention[tier])
    /\ Elapsed(row[m].warned, Lead)

-----------------------------------------------------------------------------
(* The sweeps *)

\* deactivate_meeting_locked: the stamp starts, the record of a warning stays.
Deactivate(m) ==
    /\ DueForDeactivation(m)
    /\ row' = [row EXCEPT ![m].state = "inactive", ![m].expired = 0]
    /\ told' = told \ {m}
    /\ UNCHANGED <<tier, answer, owner, warner, deleter, raced>>

\* NoticeOutcome.settled: all but a send that raised.
SettledIfDelivered(ms) == IF answer = "delivered" THEN ms ELSE {}
Settled(ms) == IF answer = "failed" THEN {} ELSE ms

WarnRead ==
    /\ warner = {}
    /\ warner' = {m \in Meetings : DueForWarning(m)}
    /\ warner' # {}
    /\ UNCHANGED <<row, tier, answer, owner, deleter, told, raced>>

StampHalf(r) == [r EXCEPT !.sent = TRUE]
Stamp(r) == [r EXCEPT !.sent = TRUE, !.warned = 0]

\* A row that has gone since it was read fails the flush of the whole chunk.
WarnRefused == Settled(warner) \cap InState("gone") # {}

\* record_deletion_warning on every meeting of a digest that settled.
WarnCommit ==
    LET ms == Settled(warner) IN
    /\ warner # {}
    /\ ~WarnRefused
    /\ row' = [m \in Meetings |-> IF m \in ms THEN Stamp(row[m]) ELSE row[m]]
    /\ told' = told \cup ms
    /\ warner' = {}
    /\ UNCHANGED <<tier, answer, owner, deleter, raced>>

\* The chunk fails or its commit is lost after the digest went out: the next
\* run starts over.
WarnLost ==
    /\ warner # {}
    /\ warner' = {}
    /\ UNCHANGED <<row, tier, answer, owner, deleter, told, raced>>

DeleteRead ==
    /\ deleter = {}
    /\ deleter' = {m \in Meetings : DueForDeletion(m)}
    /\ deleter' # {}
    /\ UNCHANGED <<row, tier, answer, owner, warner, told, raced>>

Drop(ms) == [m \in Meetings |-> IF m \in ms THEN [row[m] EXCEPT !.state = "gone"] ELSE row[m]]

\* purge_meetups: by id, whatever the row has become.
DeleteCommit ==
    /\ deleter # {}
    /\ row' = Drop(Settled(deleter))
    /\ deleter' = {}
    /\ UNCHANGED <<tier, answer, owner, warner, told, raced>>

DeleteLost ==
    /\ deleter # {}
    /\ deleter' = {}
    /\ UNCHANGED <<row, tier, answer, owner, warner, told, raced>>

-----------------------------------------------------------------------------
(* The owner, whose updates the bot handles one at a time *)

BeginReactivate(m) ==
    /\ owner = Idle
    /\ row[m].state = "inactive"
    /\ Cardinality(InState("active")) < Cap[tier]
    /\ owner' = [op |-> "reactivate", m |-> m, saw |-> row[m]]
    /\ UNCHANGED <<row, tier, answer, warner, deleter, told, raced>>

\* A column is written when its new value differs from the one that was read.
Reactivated(saw, r) ==
    [r EXCEPT !.state = "active", !.live = 0,
              !.end = IF saw.end # Never THEN Never ELSE @,
              !.expired = IF saw.expired # Never THEN Never ELSE @,
              !.sent = IF saw.sent THEN FALSE ELSE @,
              !.warned = IF saw.warned # Never THEN Never ELSE @]

Overlapped(m) == m \in warner \cup deleter \/ owner.saw.sent # row[m].sent

CommitReactivate ==
    /\ owner.op = "reactivate"
    /\ row[owner.m].state # "gone"
    /\ row' = [row EXCEPT ![owner.m] = Reactivated(owner.saw, @)]
    /\ raced' = IF Overlapped(owner.m) THEN raced \cup {owner.m} ELSE raced \ {owner.m}
    /\ owner' = Idle
    /\ UNCHANGED <<tier, answer, warner, deleter, told>>

EndsOfferedToday == Dates \cup {Never, 0}

\* A date is in the future when it is accepted; Never clears the times.
EndsOffered == Dates \cup {Never}

\* apply_start_datetime, apply_end_datetime, and clearing the times.
BeginSchedule(m, d) ==
    /\ owner = Idle
    /\ row[m].state = "active"
    /\ owner' = [op |-> "schedule", m |-> m, end |-> d]
    /\ UNCHANGED <<row, tier, answer, warner, deleter, told, raced>>

CommitSchedule ==
    /\ owner.op = "schedule"
    /\ row[owner.m].state # "gone"
    /\ row' = [row EXCEPT ![owner.m].end = owner.end]
    /\ owner' = Idle
    /\ UNCHANGED <<tier, answer, warner, deleter, told, raced>>

\* The row is gone when the flush comes, or the handler dies.
Abandon ==
    /\ owner # Idle
    /\ owner' = Idle
    /\ UNCHANGED <<row, tier, answer, warner, deleter, told, raced>>

\* "Delete", under the row lock, and "Delete all past meetings".
OwnerDelete(ms) ==
    /\ owner = Idle
    /\ \/ \E m \in Meetings : ms = {m} /\ row[m].state # "gone"
       \/ ms = InState("inactive") /\ ms # {}
    /\ row' = Drop(ms)
    /\ UNCHANGED <<tier, answer, owner, warner, deleter, told, raced>>

-----------------------------------------------------------------------------
(* Days and the environment *)

Older(age) == IF age = Never \/ age = Horizon THEN age ELSE age + 1

NextDay ==
    /\ row' = [m \in Meetings |->
                  [row[m] EXCEPT !.live = Older(@), !.expired = Older(@), !.warned = Older(@),
                                 !.end = IF @ \in {Never, 0} THEN @ ELSE @ - 1]]
    /\ UNCHANGED <<tier, answer, owner, warner, deleter, told, raced>>

\* A pledge or a lapse re-times the meetings the owner already has.
ChangeTier ==
    /\ tier' \in Tiers \ {tier}
    /\ UNCHANGED <<row, answer, owner, warner, deleter, told, raced>>

\* The owner blocks or unblocks the bot, turns a notice off or on; Telegram fails.
ChangeAnswer ==
    /\ answer' \in Answers \ {answer}
    /\ UNCHANGED <<row, tier, owner, warner, deleter, told, raced>>

Sweep ==
    \/ \E m \in Meetings : Deactivate(m)
    \/ WarnRead \/ WarnCommit \/ WarnLost
    \/ DeleteRead \/ DeleteCommit \/ DeleteLost

OwnerStep ==
    \/ \E m \in Meetings : BeginReactivate(m)
    \/ \E m \in Meetings, d \in EndsOffered : BeginSchedule(m, d)
    \/ CommitReactivate \/ CommitSchedule \/ Abandon
    \/ \E ms \in SUBSET Meetings : OwnerDelete(ms)

Next == Sweep \/ OwnerStep \/ NextDay \/ ChangeTier \/ ChangeAnswer

Spec == Init /\ [][Next]_vars

\* Days pass, the sweeps run every day, a chunk ends, and its commit is not lost
\* for ever.
Fairness ==
    /\ WF_vars(NextDay) /\ WF_vars(WarnLost /\ WarnRefused)
    /\ \A m \in Meetings : SF_vars(Deactivate(m))
    /\ SF_vars(WarnRead) /\ SF_vars(WarnCommit)
    /\ SF_vars(DeleteRead) /\ SF_vars(DeleteCommit)

FairSpec == Spec /\ Fairness

-----------------------------------------------------------------------------
(* Properties *)

\* The two columns of the warning are set and cleared together, and a meeting is
\* on the deletion clock exactly while it is inactive, whoever's writes interleave.
RowCoherent ==
    \A m \in Meetings \ InState("gone") :
        /\ row[m].sent <=> row[m].warned # Never
        /\ row[m].expired # Never <=> row[m].state = "inactive"

SweptAway(m) ==
    m \in deleter /\ deleter' = {} /\ row[m].state # "gone" /\ row'[m].state = "gone"

\* The deletion sweep destroys a meeting only when it is inactive for the whole
\* retention, its warning was settled since it last ended, and the lead has passed
\* since - unless its last reactivation overlapped a sweep.
DeletionIsDue ==
    [][\A m \in Meetings \ raced :
          SweptAway(m) => /\ row[m].state = "inactive"
                          /\ m \in told
                          /\ Elapsed(row[m].warned, Lead)
                          /\ \E t \in Tiers : Elapsed(row[m].expired, Retention[t])]_vars

\* A reactivated meeting is off the clock: no sweep destroys an active meeting
\* (docs/user-guide/meeting_lifecycle.md, deletion_sweep.py nominate_owners).
ActiveMeetingsAreSpared ==
    [][\A m \in Meetings : SweptAway(m) => row[m].state = "inactive"]_vars

\* A meeting that ends is warned about before it is destroyed, each time it ends.
EachEndIsWarned ==
    [][\A m \in InState("inactive") : SweptAway(m) => m \in told]_vars

\* An inactive meeting nobody brings back is destroyed in the end, whether or not
\* its owner can be reached or wants to hear of it, once sends stop raising.
InactiveMeetingsGo ==
    <>[](answer # "failed") =>
        \A m \in Meetings : row[m].state = "inactive" ~> row[m].state # "inactive"

\* A meeting does not stay active for ever once its owner stops rescheduling: every
\* draft and every finished meeting is deactivated.
ActiveMeetingsEnd ==
    <>[](owner.op # "schedule") =>
        \A m \in Meetings : row[m].state = "active" ~> row[m].state # "active"

\* Neither state of a meeting lasts for ever: no row outlives its use.
MeetingsComeToAnEnd == InactiveMeetingsGo /\ ActiveMeetingsEnd

===============================================================================
