---------------------------- MODULE MeetingRoster ----------------------------
(***************************************************************************)
(* The attendee list of one meeting, and every transaction that changes    *)
(* it.  The row of the meeting in table `meetups` is the mutex: a handler  *)
(* opens a transaction, takes the row with SELECT .. FOR UPDATE, reads     *)
(* the list, decides in Python, writes and commits.  Three kinds of        *)
(* writers do not take it: the account erasure job, the job that collects  *)
(* accounts with no active meeting, and the writers of the owner's tier.   *)
(*                                                                         *)
(* A handler is modelled as three steps, because those are the points      *)
(* between which other transactions commit: the transaction begins, the    *)
(* row lock is granted and the list is read, the changes are committed.    *)
(*                                                                         *)
(* A definition that stands just before another with the same parameters   *)
(* and is used nowhere is a plausible mistake in the code of that other,   *)
(* listed with the property it breaks in PROJECT.json: FullPastTheLast,    *)
(* Behind, ToPromoteOneShort, AttendanceAlwaysOpen,                        *)
(* FinishKeepingTheLock, RegisterWithDefaults, PromotedByNobody,           *)
(* ClearConfirmed, ClearLinksOnly, DropConfirmed.                          *)
(***************************************************************************)
EXTENDS Integers, FiniteSets

CONSTANTS
    Users,      \* Telegram users
    Owner,      \* the user who owns the meeting
    Guests,     \* placeholder accounts the invite flow can create (tg_user_id -1)
    Newcomers,  \* users with no account at the start
    Erasers,    \* users who may ask for the erasure of their account
    Slots,      \* handlers that can run at the same time
    Flags,      \* settings the owner toggles
    Limits,     \* participant limits an owner may type
    Tiers,      \* participant capacities of the owner's supporter tiers
    NoLimit,    \* None: no limit, or an uncapped tier
    NoUser,     \* None: nobody (invited_by of a link after ON DELETE SET NULL)
    NoSlot,     \* the row lock is free
    MaxRequests \* bound on the transactions begun in one behaviour

\* The three switches of the settings screen that the attendee list looks at.
Settings == {"waiting_list", "allow_invitation", "lock_on_start"}

ASSUME RosterAssumption ==
    /\ IsFiniteSet(Users) /\ IsFiniteSet(Guests)
    /\ Users \cap Guests = {}
    /\ Owner \in Users
    /\ NoUser \notin Users
    /\ Newcomers \subseteq Users \ {Owner}
    /\ Erasers \subseteq Users
    /\ NoSlot \notin Slots
    /\ NoLimit \notin Nat
    /\ Flags \subseteq Settings
    /\ Limits \subseteq Nat \ {0}
    /\ Tiers \subseteq Nat \cup {NoLimit}
    /\ MaxRequests \in Nat

VARIABLES
    meeting,    \* the meetups row
    underway,   \* the clock is inside the meeting's [start, end) window
    tier,       \* participant capacity of the owner's current tier
    account,    \* users.status of every row in table users
    inviter,    \* joined_users.invited_by of the link of each guest
    seated,     \* links with is_waiting_list false
    waiting,    \* links with is_waiting_list true
    since,      \* created_time of each waiting link
    clock,      \* one tick for each transaction begun
    tx,         \* the request each handler is processing
    holder,     \* the handler holding the row lock
    view,       \* what the holder of the lock read
    nominated   \* accounts the collecting job has selected and not yet deleted

rosterVars == <<seated, waiting, since>>
accountVars == <<account, inviter>>
lockVars == <<tx, holder, view>>
vars == <<meeting, underway, tier, accountVars, rosterVars, clock, lockVars, nominated>>

Person == Users \cup Guests
Members == seated \cup waiting
Capacities == Nat \cup {NoLimit}

LockingOps == {"join", "leave", "invite", "kick", "limit", "deactivate", "delete"}
OwnerOps == {"kick", "limit", "delete", "toggle", "reactivate"}

\* One update being handled.  who: the user or guest it is about; by: who sent
\* it; limit, flag, was: the argument and the value read before it is written;
\* at: CURRENT_TIMESTAMP of its transaction; known: the sender had an account.
Request == [op : LockingOps \cup OwnerOps, who : Person, by : Users,
            limit : Limits \cup {NoLimit}, flag : Settings, was : BOOLEAN,
            at : Nat, known : BOOLEAN]
Idle == [op |-> "none"]

Meeting == [state : {"active", "inactive", "gone"}, max : Limits \cup {NoLimit},
            on : SUBSET Settings]

View == [seated : SUBSET Person, waiting : SUBSET Person, since : [Person -> Nat],
         inviter : [Guests -> Users \cup {NoUser}], tier : Capacities]
NoView == [seated |-> {}, waiting |-> {}, since |-> [p \in Person |-> 0],
           inviter |-> [g \in Guests |-> NoUser], tier |-> NoLimit]

\* Every variable holds a value of its kind: rows, links and requests are well formed.
TypeOK ==
    /\ meeting \in Meeting
    /\ underway \in BOOLEAN
    /\ tier \in Tiers
    /\ account \in [Person -> {"none", "member", "joined_only", "erasing"}]
    /\ inviter \in [Guests -> Users \cup {NoUser}]
    /\ seated \in SUBSET Person
    /\ waiting \in SUBSET Person
    /\ since \in [Person -> Nat]
    /\ clock \in Nat
    /\ tx \in [Slots -> Request \cup {Idle}]
    /\ holder \in Slots \cup {NoSlot}
    /\ view \in View
    /\ nominated \in SUBSET Person

-----------------------------------------------------------------------------
(* Capacity and promotion, as the model computes them *)

\* The owner's limit tightened by the capacity of the owner's tier.
EffectiveCapacity(cap, max) ==
    IF cap = NoLimit THEN max
    ELSE IF max = NoLimit THEN cap
    ELSE IF max < cap THEN max ELSE cap

Exceeds(m, cap) == m # NoLimit /\ cap # NoLimit /\ m > cap

FullPastTheLast(S, cap) == cap # NoLimit /\ Cardinality(S) > cap

Full(S, cap) == cap # NoLimit /\ Cardinality(S) >= cap

Behind(W, s, p) == {q \in W : s[q] > s[p]}

Ahead(W, s, p) == {q \in W : s[q] < s[p]}

ToPromoteOneShort(S, W, s, cap) ==
    {p \in W : cap = NoLimit \/ Cardinality(S) + Cardinality(Ahead(W, s, p)) + 1 < cap}

\* Who moves up when S is seated and W is waiting since s: the longest-waiting
\* ones, as many as there are free places, whatever the waiting-list setting.
ToPromote(S, W, s, cap) ==
    {p \in W : cap = NoLimit \/ Cardinality(S) + Cardinality(Ahead(W, s, p)) < cap}

\* The capacity the holder of the lock acts on.
ViewCapacity == EffectiveCapacity(view.tier, meeting.max)
ViewMembers == view.seated \cup view.waiting

\* A meeting locked on start is frozen while it runs.
Frozen == meeting.state = "active" /\ "lock_on_start" \in meeting.on /\ underway

AttendanceAlwaysOpen == TRUE

AttendanceIsOpen == ~Frozen

\* A link keeps the created_time of the transaction that inserted it.
Stamp(at) ==
    since' = [p \in Person |->
                 IF p \notin waiting' THEN 0
                 ELSE IF p \in waiting THEN since[p] ELSE at]

-----------------------------------------------------------------------------
Init ==
    /\ meeting \in [state : {"active"}, max : Limits \cup {NoLimit},
                   on : {{"allow_invitation"}, {"allow_invitation", "waiting_list"}}]
    /\ underway = FALSE
    /\ tier \in Tiers
    /\ account = [p \in Person |-> IF p \in Users \ Newcomers THEN "member" ELSE "none"]
    /\ inviter = [g \in Guests |-> NoUser]
    /\ seated = {} /\ waiting = {}
    /\ since = [p \in Person |-> 0]
    /\ clock = 0
    /\ tx = [s \in Slots |-> Idle]
    /\ holder = NoSlot
    /\ view = NoView
    /\ nominated = {}

-----------------------------------------------------------------------------
(* A handler begins: its transaction starts and its unlocked reads happen *)

Pending(ops) == {s \in Slots : tx[s].op \in ops}

Begin(s, r) ==
    /\ tx[s] = Idle
    /\ clock < MaxRequests
    /\ clock' = clock + 1
    /\ tx' = [tx EXCEPT ![s] = r]
    /\ UNCHANGED <<meeting, underway, tier, accountVars, rosterVars, holder, view, nominated>>

Asking(op, who, by, m, f, was) ==
    [op |-> op, who |-> who, by |-> by, limit |-> m, flag |-> f, was |-> was,
     at |-> clock + 1, known |-> account[by] # "none"]

Ask(op, who, by) == Asking(op, who, by, NoLimit, "waiting_list", FALSE)

\* A tap on Join or Leave; a user with no account is registered on the way.
BeginJoinLeave(s, u) ==
    /\ account[u] # "erasing"
    /\ \E op \in {"join", "leave"} : Begin(s, Ask(op, u, u))

\* The confirm step of the invite conversation: g is the account it will create.
BeginInvite(s, u, g) ==
    /\ account[u] \in {"member", "joined_only"}
    /\ account[g] = "none"
    /\ \A t \in Slots : tx[t].op = "invite" => tx[t].who # g
    /\ Begin(s, Ask("invite", g, u))

\* The owner's edits come from the owner's own chat with the bot, which the
\* update processor serializes.
OwnerMayEdit == account[Owner] = "member" /\ Pending(OwnerOps) = {}

BeginKick(s, p) == OwnerMayEdit /\ Begin(s, Ask("kick", p, Owner))

BeginLimit(s, m) ==
    OwnerMayEdit /\ Begin(s, Asking("limit", Owner, Owner, m, "waiting_list", FALSE))

BeginDelete(s) == OwnerMayEdit /\ Begin(s, Ask("delete", Owner, Owner))

\* The toggles of the settings screen read the old value without the row lock.
BeginToggle(s, f) ==
    /\ OwnerMayEdit
    /\ meeting.state = "active"
    /\ Begin(s, Asking("toggle", Owner, Owner, NoLimit, f, f \in meeting.on))

\* Reactivation reads `active` without the row lock too.
BeginReactivate(s) ==
    /\ OwnerMayEdit
    /\ meeting.state = "inactive"
    /\ Begin(s, Ask("reactivate", Owner, Owner))

\* The deactivation job takes the meetings it nominated one after the other.
BeginDeactivate(s) ==
    /\ meeting.state = "active"
    /\ Pending({"deactivate"}) = {} /\ nominated = {}
    /\ Begin(s, Ask("deactivate", Owner, Owner))

-----------------------------------------------------------------------------
(* The row lock: by_id(for_update) blocks, then reads the list afresh *)

TakeLock(s) ==
    /\ tx[s].op \in LockingOps
    /\ holder = NoSlot
    /\ meeting.state # "gone"
    /\ holder' = s
    /\ view' = [seated |-> seated, waiting |-> waiting, since |-> since,
                inviter |-> inviter, tier |-> tier]
    /\ UNCHANGED <<meeting, underway, tier, accountVars, rosterVars, clock, tx, nominated>>

FinishKeepingTheLock(s) ==
    /\ tx' = [tx EXCEPT ![s] = Idle]
    /\ UNCHANGED <<underway, tier, clock, holder, view, nominated>>

\* The end of a handler: its transaction is over and its lock is free.
Finish(s) ==
    /\ tx' = [tx EXCEPT ![s] = Idle]
    /\ holder' = IF holder = s THEN NoSlot ELSE holder
    /\ view' = IF holder = s THEN NoView ELSE view
    /\ UNCHANGED <<underway, tier, clock, nominated>>

\* A lost connection or the end of the process: nothing of the request remains.
Rollback(s) ==
    /\ tx[s] # Idle
    /\ Finish(s)
    /\ UNCHANGED <<meeting, accountVars, rosterVars>>

Holds(s, op) == holder = s /\ tx[s].op = op

-----------------------------------------------------------------------------
(* Joining, inviting and leaving *)

\* add_participant: a seat while there is one, else the end of the queue.
Admit(p, at) ==
    /\ \/ /\ ~Full(view.seated, ViewCapacity)
          /\ seated' = seated \cup {p}
          /\ waiting' = waiting
       \/ /\ Full(view.seated, ViewCapacity)
          /\ "waiting_list" \in meeting.on
          /\ waiting' = waiting \cup {p}
          /\ seated' = seated
    /\ Stamp(at)

JoinAllowed == ~Full(view.seated, ViewCapacity) \/ "waiting_list" \in meeting.on

\* An account the request found is still there for the foreign keys of its rows.
StillThere(r) == r.known => account[r.by] # "none"

RegisterWithDefaults(u) ==
    account' = [account EXCEPT ![u] = IF @ = "none" THEN "onboarding" ELSE @]

Register(u) ==
    account' = [account EXCEPT ![u] = IF @ = "none" THEN "joined_only" ELSE @]

\* join_operation under the lock.  The last disjunct is a frozen meeting, a
\* member joining again, or a full meeting with no waiting list.
Join(s) ==
    LET u == tx[s].who IN
    /\ Holds(s, "join")
    /\ meeting.state = "active"
    /\ StillThere(tx[s])
    /\ Register(u)
    /\ \/ /\ AttendanceIsOpen /\ u \notin ViewMembers /\ JoinAllowed
          /\ Admit(u, tx[s].at)
       \/ /\ ~AttendanceIsOpen \/ u \in ViewMembers \/ ~JoinAllowed
          /\ UNCHANGED rosterVars
    /\ Finish(s)
    /\ UNCHANGED <<meeting, inviter>>

PromotedByNobody(r) == {}

\* Who the holder of the lock moves up when the link it removes, or the limit it
\* sets, leaves free places.
PromotedBy(r) ==
    LET left == IF r.op = "limit" THEN {} ELSE {r.who}
        max == IF r.op = "limit" THEN r.limit ELSE meeting.max
    IN  ToPromote(view.seated \ left, view.waiting \ left, view.since,
                  EffectiveCapacity(view.tier, max))

\* remove_participant.  A promoted link that an erasure
\* deleted in the meantime fails the flush (and so rolls back).
Vacate(r) ==
    /\ PromotedBy(r) \subseteq waiting
    /\ seated' = (seated \ {r.who}) \cup PromotedBy(r)
    /\ waiting' = waiting \ ({r.who} \cup PromotedBy(r))
    /\ Stamp(0)

Leave(s) ==
    LET u == tx[s].who IN
    /\ Holds(s, "leave")
    /\ meeting.state = "active"
    /\ StillThere(tx[s])
    /\ Register(u)
    /\ \/ AttendanceIsOpen /\ u \in ViewMembers /\ Vacate(tx[s])
       \/ (~AttendanceIsOpen \/ u \notin ViewMembers) /\ UNCHANGED rosterVars
    /\ Finish(s)
    /\ UNCHANGED <<meeting, inviter>>

\* The confirm step of the invite flow: it checks that there is room and that
\* invitations are open, and nothing else.
Invite(s) ==
    LET g == tx[s].who IN
    /\ Holds(s, "invite")
    /\ meeting.state = "active"
    /\ StillThere(tx[s])
    /\ \/ /\ JoinAllowed /\ "allow_invitation" \in meeting.on
          /\ account' = [account EXCEPT ![g] = "joined_only"]
          /\ inviter' = [inviter EXCEPT ![g] = tx[s].by]
          /\ Admit(g, tx[s].at)
       \/ /\ ~(JoinAllowed /\ "allow_invitation" \in meeting.on)
          /\ UNCHANGED <<accountVars, rosterVars>>
    /\ Finish(s)
    /\ UNCHANGED meeting

-----------------------------------------------------------------------------
(* The owner's edits, and the end of the meeting *)

\* Accounts that are deleted take their links and their invitations with them.
Erase(P) ==
    /\ account' = [p \in Person |-> IF p \in P THEN "none" ELSE account[p]]
    /\ inviter' = [g \in Guests |-> IF inviter[g] \in P \/ g \in P THEN NoUser ELSE inviter[g]]

\* Kicking out a guest also deletes the placeholder account, found by its inviter.
Kick(s) ==
    LET p == tx[s].who IN
    /\ Holds(s, "kick")
    /\ meeting.state = "active"
    /\ \/ /\ p \in view.seated
          /\ Vacate(tx[s])
          /\ IF p \in Guests /\ view.inviter[p] # NoUser
             THEN Erase({p})
             ELSE UNCHANGED accountVars
       \/ p \notin view.seated /\ UNCHANGED <<accountVars, rosterVars>>
    /\ Finish(s)
    /\ UNCHANGED meeting

\* set_participant_limit; a typed number is accepted up to the tier's capacity,
\* and a number may be typed for an inactive meeting.
SetLimit(s) ==
    LET m == tx[s].limit IN
    /\ Holds(s, "limit")
    /\ m = NoLimit => meeting.state = "active"
    /\ \/ /\ ~Exceeds(m, view.tier)
          /\ PromotedBy(tx[s]) \subseteq waiting
          /\ meeting' = [meeting EXCEPT !.max = m]
          /\ seated' = seated \cup PromotedBy(tx[s])
          /\ waiting' = waiting \ PromotedBy(tx[s])
          /\ Stamp(0)
       \/ /\ Exceeds(m, view.tier)
          /\ UNCHANGED <<meeting, rosterVars>>
    /\ Finish(s)
    /\ UNCHANGED accountVars

ClearConfirmed ==
    /\ Erase(ViewMembers \cap Guests)
    /\ seated' = {} /\ waiting' = waiting
    /\ Stamp(0)

ClearLinksOnly ==
    /\ UNCHANGED accountVars
    /\ seated' = {} /\ waiting' = {}
    /\ Stamp(0)

\* Empty the meeting: the placeholder accounts the lock holder read, every link.
ClearMeeting ==
    /\ Erase(ViewMembers \cap Guests)
    /\ seated' = {} /\ waiting' = {}
    /\ Stamp(0)

\* deactivate_meeting_locked re-checks that the meeting is due; being due is a
\* matter of clocks and settings outside this module.
Deactivate(s) ==
    /\ Holds(s, "deactivate")
    /\ \/ /\ meeting.state = "active"
          /\ meeting' = [meeting EXCEPT !.state = "inactive"]
          /\ ClearMeeting
       \/ UNCHANGED <<meeting, accountVars, rosterVars>>
    /\ Finish(s)

Delete(s) ==
    /\ Holds(s, "delete")
    /\ meeting' = [meeting EXCEPT !.state = "gone"]
    /\ ClearMeeting
    /\ Finish(s)

\* The writes of a toggle wait for the row but read nothing again.
Toggle(s) ==
    /\ tx[s].op = "toggle"
    /\ holder = NoSlot
    /\ meeting.state # "gone"
    /\ meeting' = [meeting EXCEPT !.on = IF tx[s].was THEN @ \ {tx[s].flag} ELSE @ \cup {tx[s].flag}]
    /\ Finish(s)
    /\ UNCHANGED <<accountVars, rosterVars>>

Reactivate(s) ==
    /\ tx[s].op = "reactivate"
    /\ holder = NoSlot
    /\ meeting.state # "gone"
    /\ meeting' = [meeting EXCEPT !.state = "active", !.on = @ \ {"lock_on_start"}]
    /\ Finish(s)
    /\ UNCHANGED <<accountVars, rosterVars>>

\* The guards under the lock turn a request away, or its flush violates a foreign
\* key or finds a row gone: the session rolls back.
Refused(s) ==
    LET r == tx[s] IN
    \/ r # Idle /\ meeting.state = "gone"
    \/ /\ holder = s
       /\ \/ /\ (r.op = "limit" /\ r.limit = NoLimit) \/ r.op \in {"join", "leave", "invite", "kick"}
             /\ meeting.state # "active"
          \/ r.op \in {"join", "leave", "invite"} /\ ~StillThere(r)
          \/ r.op \in {"leave", "kick", "limit"} /\ ~(PromotedBy(r) \subseteq waiting)

Refuse(s) == Refused(s) /\ Rollback(s)

-----------------------------------------------------------------------------
(* Writers that never take the row lock, and the environment *)

\* The owner's tier changes: a pledge, a lapse, a grant.
ChangeTier ==
    /\ tier' \in Tiers \ {tier}
    /\ UNCHANGED <<meeting, underway, accountVars, rosterVars, clock, lockVars, nominated>>

\* The clock enters or leaves the meeting's window, which only the lock looks at.
TurnWindow ==
    /\ "lock_on_start" \in Flags
    /\ underway' = ~underway
    /\ UNCHANGED <<meeting, tier, accountVars, rosterVars, clock, lockVars, nominated>>

\* A user finishes onboarding and becomes a member.
Onboard(u) ==
    /\ account[u] = "joined_only"
    /\ account' = [account EXCEPT ![u] = "member"]
    /\ UNCHANGED <<meeting, underway, tier, inviter, rosterVars, clock, lockVars, nominated>>

RequestErasure(u) ==
    /\ account[u] \in {"member", "joined_only"}
    /\ account' = [account EXCEPT ![u] = "erasing"]
    /\ UNCHANGED <<meeting, underway, tier, inviter, rosterVars, clock, lockVars, nominated>>

DropConfirmed(P) ==
    /\ seated' = seated \ P
    /\ waiting' = waiting
    /\ Stamp(0)

DropLinks(P) ==
    /\ seated' = seated \ P
    /\ waiting' = waiting \ P
    /\ Stamp(0)

\* The erasure job deletes the accounts marked for it; links cascade, and so does
\* the meeting of an erased owner, whose row the lock protects.
PurgeAccounts(P) ==
    /\ P # {}
    /\ \A p \in P : account[p] = "erasing"
    /\ Erase(P)
    /\ IF Owner \in P /\ meeting.state # "gone"
       THEN /\ holder = NoSlot
            /\ meeting' = [meeting EXCEPT !.state = "gone"]
            /\ DropLinks(Person)
       ELSE /\ DropLinks(P)
            /\ UNCHANGED meeting
    /\ UNCHANGED <<underway, tier, clock, lockVars, nominated>>

\* The collecting job: it selects the joined-only accounts with no active link,
HasNoActiveLink(p) == meeting.state # "active" \/ p \notin Members

Nominate ==
    /\ nominated = {} /\ Pending({"deactivate"}) = {}
    /\ nominated' = {p \in Person : /\ account[p] = "joined_only"
                                    /\ p # Owner \/ meeting.state = "gone"
                                    /\ HasNoActiveLink(p)}
    /\ nominated' # {}
    /\ UNCHANGED <<meeting, underway, tier, accountVars, rosterVars, clock, lockVars>>

\* then deletes those still joined-only.
Collect ==
    LET P == {p \in nominated : account[p] = "joined_only"} IN
    /\ nominated # {}
    /\ nominated' = {}
    /\ Erase(P)
    /\ DropLinks(P)
    /\ UNCHANGED <<meeting, underway, tier, clock, lockVars>>

-----------------------------------------------------------------------------
Commit(s) ==
    \/ Join(s) \/ Leave(s) \/ Invite(s) \/ Kick(s) \/ SetLimit(s)
    \/ Deactivate(s) \/ Delete(s) \/ Toggle(s) \/ Reactivate(s)

Start(s) ==
    \/ \E u \in Users : BeginJoinLeave(s, u)
    \/ \E u \in Users, g \in Guests : BeginInvite(s, u, g)
    \/ \E p \in Person : BeginKick(s, p)
    \/ \E m \in Limits \cup {NoLimit} : BeginLimit(s, m)
    \/ BeginDelete(s)
    \/ \E f \in Flags : BeginToggle(s, f)
    \/ BeginReactivate(s)
    \/ BeginDeactivate(s)

Unlocked ==
    \/ ChangeTier
    \/ TurnWindow
    \/ \E u \in Users : Onboard(u)
    \/ \E u \in Erasers : RequestErasure(u)
    \/ \E P \in SUBSET Erasers : PurgeAccounts(P)
    \/ Nominate
    \/ Collect

Next ==
    \/ \E s \in Slots : Start(s) \/ TakeLock(s) \/ Commit(s) \/ Refuse(s) \/ Rollback(s)
    \/ Unlocked

Spec == Init /\ [][Next]_vars

\* PostgreSQL grants a contended row lock in turn, and a handler that runs reaches
\* its commit or its refusal; nothing is assumed of crashes or of the environment.
Fairness ==
    \A s \in Slots : SF_vars(TakeLock(s)) /\ SF_vars(Commit(s) \/ Refuse(s))

FairSpec == Spec /\ Fairness

-----------------------------------------------------------------------------
(* Properties *)

\* A meeting that is over holds nobody, whatever was in flight when it ended:
\* deactivation and deletion empty the list, and a late join or invitation is
\* refused under the lock (inactive_meetings.py, join_leave.py).
ClosedMeetingIsEmpty == meeting.state # "active" => Members = {}

\* Nobody is on the list twice and everybody on it has an account row.
RosterWellFormed ==
    /\ seated \cap waiting = {}
    /\ \A p \in Members : account[p] # "none"

\* A step that seats somebody leaves no more people seated than the capacity its
\* transaction read under the lock: two handlers cannot both take the last place.
AdmissionWithinCapacity ==
    [][\A s \in Slots :
          holder = s /\ seated' \ seated # {} =>
              LET cap == EffectiveCapacity(view.tier, meeting'.max)
              IN  cap # NoLimit => Cardinality(seated') <= cap]_vars

\* People move up in the order they started waiting: nobody still waiting after
\* a promotion has waited longer than somebody it moved.
LongestWaitingFirst ==
    [][\A p \in waiting \cap seated', q \in waiting \cap waiting' :
          since[p] < since[q]]_vars

\* While nothing removes people or changes the tier behind the lock, a person
\* waits only for a meeting that is full: every freed place has been handed on.
NobodyWaitsForAFreePlace ==
    waiting # {} => Full(seated, EffectiveCapacity(tier, meeting.max))

\* A newcomer takes a seat only when nobody is waiting for one
\* (docs/user-guide/meeting_settings.md, "Waiting list").
QueueIsNotJumped ==
    [][\A p \in Person \ Members : p \in seated' => waiting = {}]_vars

\* A frozen meeting takes nobody in (Meetup.attendance_is_open).
FrozenTakesNobody == [][Frozen => Members' \subseteq Members]_vars

\* A frozen meeting loses nobody but the one its owner kicks out, everybody when it
\* ends, and those an erasure takes with their accounts or with the owner's.
FrozenLosesNobody ==
    [][Frozen => \A p \in Members \ Members' :
          \/ account'[p] = "none" \/ account'[Owner] = "none"
          \/ \E s \in Slots : holder = s /\ tx[s].op = "kick" /\ tx[s].who = p
          \/ \E s \in Slots : holder = s /\ tx[s].op \in {"deactivate", "delete"}]_vars

\* A placeholder account outlives its link only when its inviter or the owner
\* was erased first: no race leaks one (inactive_meetings.py, docstring of
\* deactivate_meeting_locked).
PlaceholdersAccountedFor ==
    \A g \in Guests :
        account[g] # "none" =>
            g \in Members \/ inviter[g] = NoUser \/ account[Owner] = "none"

\* A participant whose account nobody asked to erase keeps it, and so the place,
\* while the meeting is active (user_cleanup.py, demote_stale_left_users).
ParticipantsKeepTheirAccount ==
    [][\A u \in Users \cap Members :
          meeting'.state = "active" /\ account'[u] = "none" => account[u] = "erasing"]_vars

\* Every request ends: it commits, or it is rolled back.
RequestsEnd == \A s \in Slots : (tx[s] # Idle) ~> (tx[s] = Idle)

\* Nobody on the list is wronged: no step leaves a place free while somebody waits, and the freeze of
\* a list costs nobody a place.
NobodyIsWronged == [][NobodyWaitsForAFreePlace']_vars /\ FrozenLosesNobody

\* Every link has its accounts, every placeholder account its link, and a closed meeting neither.
RosterIsAccountedFor == RosterWellFormed /\ PlaceholdersAccountedFor /\ ClosedMeetingIsEmpty

=============================================================================
