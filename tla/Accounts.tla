------------------------------- MODULE Accounts -------------------------------
(***************************************************************************)
(* The life of an account row: registration from /start or from a shared   *)
(* card, onboarding, departure, erasure on request, and the jobs that      *)
(* demote and delete what is left.                                         *)
(*                                                                         *)
(* No writer of a status locks the row.  Each loads it, waits (for a time  *)
(* zone, for Telegram, for its next statement) and stores; the store       *)
(* carries the columns it changed and nothing else.  The updates of one    *)
(* person in the bot's chat run one after another, and so do those on      *)
(* cards elsewhere; the two series, and the jobs, run side by side.        *)
(*                                                                         *)
(* A day passes only between transactions.  Who takes part in a meeting is *)
(* a set of links: places and waiting are MeetingRoster's.                 *)
(*                                                                         *)
(* Unused definitions that stand before one of the same parameters are     *)
(* plausible mistakes in its code, for the mutants of PROJECT.json.        *)
(***************************************************************************)
EXTENDS Naturals, FiniteSets

CONSTANTS
    People,
    Rows,          \* bound: the account rows that are ever inserted
    Meetings,
    Hosted,        \* bound: meetings somebody else owns, active at first
    Grace,         \* LEFT_STATUS_GRACE_DAYS
    AnswerWindow,  \* ONBOARDING_ANSWER_WINDOW
    LastDay,       \* bound
    LastTap,       \* bound: nobody acts after this day
    MaxTaps,       \* bound: what people do between them, screens and unblocking apart
    MaxCrashes,    \* bound
    NoRow, Stranger

ASSUME AccountsAssumption ==
    /\ {Grace, AnswerWindow, LastDay, LastTap, MaxTaps, MaxCrashes} \subseteq Nat
    /\ IsFiniteSet(People) /\ IsFiniteSet(Rows) /\ Rows # {}
    /\ Hosted \subseteq Meetings /\ NoRow \notin Rows /\ Stranger \notin Rows /\ NoRow # Stranger

VARIABLES
    rows,      \* the users table
    meets,     \* the meetups table, as far as it keeps an account
    links,     \* joined_users
    conv,      \* who has the time zone question open
    screen,    \* the privacy screen each person has open
    chat,      \* the update handled in each person's chat with the bot
    card,      \* the update handled for each person on a card elsewhere
    sweep,     \* the delivery that finds its recipient unreachable
    cleanup,   \* user_cleanup
    collect,   \* the account half of inactive_meetings
    blocked,   \* who has blocked the bot
    asked,     \* history: rows whose erasure was requested
    told,      \* history: rows whose farewell was sent
    due,       \* the jobs still to run today
    now, taps, crashes

people == <<conv, screen, blocked, asked>>
tasks == <<chat, card, sweep, cleanup, collect>>
vars == <<rows, meets, links, people, tasks, told, due, now, taps, crashes>>

Never == LastDay + 1
UserStatus == {"member", "onboarding", "joined_only", "left", "deletion_requested"}
Absent == {"unused", "gone"}

\* Which identifier a row gets is of no interest.
NextRow(R) == CHOOSE r \in R : TRUE
Jobs == {"cleanup", "collect"}
Row(p, s) == [person |-> p, status |-> s, left |-> Never, created |-> now]
Blank == [person |-> NoRow, status |-> "unused", left |-> Never, created |-> Never]

\* A task is what it is doing, the rows it has loaded, and a meeting.
Idle == [op |-> "idle", seen |-> <<>>, meet |-> NoRow]
Task(op, R) == [Idle EXCEPT !.op = op, !.seen = [r \in R |-> rows[r]]]
TaskIdle(t) == t.op = "idle"

TypeOK ==
    /\ \A r \in Rows : rows[r].status \in UserStatus \cup Absent
    /\ \A r \in Rows : rows[r].status \in UserStatus => rows[r].person \in People
    /\ links \subseteq Rows \X Meetings
    /\ conv \subseteq People /\ blocked \subseteq People /\ asked \subseteq Rows /\ told \subseteq Rows
    /\ now \in 0..LastDay

\* Nobody registered, or one MEMBER who takes part in every hosted meeting and owns the others, past.
Nobody ==
    /\ rows = [r \in Rows |-> Blank] /\ links = {}
    /\ meets = [m \in Meetings |-> [owner |-> IF m \in Hosted THEN Stranger ELSE NoRow, active |-> m \in Hosted]]
Somebody ==
    \E p \in People :
      LET r == NextRow(Rows) IN
      /\ rows = [x \in Rows |-> IF x = r THEN [Blank EXCEPT !.person = p, !.status = "member", !.created = 0]
                                ELSE Blank]
      /\ links = {r} \X Hosted
      /\ meets = [m \in Meetings |-> [owner |-> IF m \in Hosted THEN Stranger ELSE r, active |-> m \in Hosted]]

Init ==
    /\ now = 0 /\ taps = MaxTaps /\ crashes = MaxCrashes
    /\ Nobody \/ Somebody
    /\ conv = {} /\ blocked = {} /\ asked = {} /\ told = {}
    /\ screen = [p \in People |-> "privacy"]
    /\ chat = [p \in People |-> Idle] /\ card = [p \in People |-> Idle]
    /\ sweep = Idle /\ cleanup = Idle /\ collect = Idle /\ due = Jobs

-----------------------------------------------------------------------------
(* Rows. *)

Exists(r) == rows[r].status \in UserStatus

\* by_tg_user_id takes whichever row comes first; nothing makes it the only one.
RowsOf(p) == {r \in Rows : Exists(r) /\ rows[r].person = p}
MemberRowsOf(p) == {r \in RowsOf(p) : rows[r].status = "member"}

\* current_user answers anybody whose row does not await deletion.
Accepted(r) == rows[r].status # "deletion_requested"
Unregistered(p) == RowsOf(p) = {}

\* set_status on the row as loaded: no change writes nothing, LEFT alone is stamped.
SetStatus(seen, s) ==
    IF s = seen.status THEN seen
    ELSE [seen EXCEPT !.status = s, !.left = IF s = "left" THEN now ELSE Never]

\* The UPDATE carries the columns that differ from what was loaded; a new stamp differs from any before,
\* also from one of the same day.
Stored(r, seen, new) ==
    [c \in DOMAIN new |-> IF new[c] # seen[c] \/ (c = "left" /\ new.status = "left" /\ seen.status # "left")
                          THEN new[c] ELSE rows[r][c]]

StampedAgain(r, seen) ==
    IF Exists(r) THEN [rows[r] EXCEPT !.status = "left", !.left = now] ELSE rows[r]

\* mark_inactive: only a MEMBER departs.
MarkInactive(r, seen) ==
    IF seen.status = "member" THEN Stored(r, seen, SetStatus(seen, "left")) ELSE rows[r]

Loaded(t) == CHOOSE r \in DOMAIN t.seen : TRUE
StillThere(t) == \A r \in DOMAIN t.seen : Exists(r)

Fresh == {r \in Rows : rows[r].status = "unused"}
Registering == {p \in People : chat[p].op = "register"}
RegisteringFromCard == {p \in People : card[p].op \in {"join_new", "leave_new"}}
Inserted(p, s) == [rows EXCEPT ![NextRow(Fresh)] = Row(p, s)]
RowLeft == Cardinality(Fresh) > Cardinality(Registering) + Cardinality(RegisteringFromCard)

Owns(r, M) == \E m \in M : meets[m].owner = r
ActiveMeetings == {m \in Meetings : meets[m].active}
HasActiveLink(r) == \E m \in ActiveMeetings : <<r, m>> \in links

\* Deleting a user takes the meetings it owns, and with either go the links.
WithoutMeetings(M) == [m \in Meetings |-> IF m \in M THEN [owner |-> NoRow, active |-> FALSE] ELSE meets[m]]
OwnedBy(R) == {m \in Meetings : meets[m].owner \in R}
DeleteRows(R) ==
    /\ rows' = [r \in Rows |-> IF r \in R /\ Exists(r) THEN [Blank EXCEPT !.status = "gone"] ELSE rows[r]]
    /\ meets' = WithoutMeetings(OwnedBy(R))
    /\ links' = {l \in links : l[1] \notin R /\ l[2] \notin OwnedBy(R)}

-----------------------------------------------------------------------------
(* In the bot's own chat: one update of a person at a time. *)

Acts(p) == taps > 0 /\ now <= LastTap /\ taps' = taps - 1
Writes(p) == Acts(p) /\ TaskIdle(chat[p]) /\ p \notin blocked
KeepWorld == UNCHANGED <<sweep, cleanup, collect, told, due, now, crashes>>
KeepTables == UNCHANGED <<rows, meets, links>>

\* /start by a MEMBER falls through to the menu, and ends a question left open.
StartAsMember(p) ==
    /\ Writes(p) /\ MemberRowsOf(p) # {}
    /\ conv' = conv \ {p}
    /\ KeepTables /\ KeepWorld /\ UNCHANGED <<screen, blocked, asked, chat, card>>

\* An existing row is used again: refused while it awaits deletion, else asked for a time zone.
StartAgain(p) ==
    /\ Writes(p) /\ MemberRowsOf(p) = {}
    /\ \E r \in RowsOf(p) : conv' = IF Accepted(r) THEN conv \cup {p} ELSE conv \ {p}
    /\ KeepTables /\ KeepWorld /\ UNCHANGED <<screen, blocked, asked, chat, card>>

StartNew(p) ==
    /\ Writes(p) /\ Unregistered(p) /\ RowLeft
    /\ chat' = [chat EXCEPT ![p] = Task("register", {})]
    /\ KeepTables /\ KeepWorld /\ UNCHANGED <<people, card>>

\* The row is inserted and the question sent before the transaction ends.
Register(p) ==
    /\ chat[p].op = "register"
    /\ rows' = Inserted(p, "onboarding")
    /\ conv' = conv \cup {p}
    /\ chat' = [chat EXCEPT ![p] = Idle]
    /\ KeepWorld /\ UNCHANGED <<meets, links, screen, blocked, asked, card, taps>>

\* A time zone is typed or a location shared, and looked up elsewhere while the row stays loaded.
\* What names no place, or comes from an account that is gone or awaits deletion, changes nothing.
Answer(p) ==
    /\ Writes(p) /\ p \in conv
    /\ \E r \in RowsOf(p) : Accepted(r) /\ chat' = [chat EXCEPT ![p] = Task("promote", {r})]
    /\ KeepTables /\ KeepWorld /\ UNCHANGED <<people, card>>

\* A row that went while the answer was looked up fails the flush: the question stays open.
CompleteOnboarding(p) ==
    LET t == chat[p] r == Loaded(t) IN
    /\ t.op = "promote"
    /\ IF StillThere(t)
         THEN /\ rows' = [rows EXCEPT ![r] = Stored(r, t.seen[r], SetStatus(t.seen[r], "member"))]
              /\ conv' = conv \ {p}
         ELSE UNCHANGED <<rows, conv>>
    /\ chat' = [chat EXCEPT ![p] = Idle]
    /\ KeepWorld /\ UNCHANGED <<meets, links, screen, blocked, asked, card, taps>>

\* The warning, the last chance; each declines back to the privacy screen.
PrivacyScreens ==
    {<<"privacy", "warning">>, <<"warning", "last">>, <<"warning", "privacy">>, <<"last", "privacy">>}

Press(p) ==
    /\ now <= LastTap /\ TaskIdle(chat[p]) /\ p \notin blocked
    /\ \E r \in RowsOf(p) : Accepted(r)
    /\ \E e \in PrivacyScreens : screen[p] = e[1] /\ screen' = [screen EXCEPT ![p] = e[2]]
    /\ KeepTables /\ KeepWorld /\ UNCHANGED <<conv, blocked, asked, chat, card, taps>>

AskErasure(p) ==
    /\ Writes(p) /\ screen[p] = "last"
    /\ \E r \in RowsOf(p) : Accepted(r) /\ chat' = [chat EXCEPT ![p] = Task("erase", {r})]
    /\ KeepTables /\ KeepWorld /\ UNCHANGED <<people, card>>

RequestErasure(p) ==
    LET t == chat[p] r == Loaded(t) IN
    /\ t.op = "erase"
    /\ IF StillThere(t)
         THEN /\ rows' = [rows EXCEPT ![r] = Stored(r, t.seen[r], SetStatus(t.seen[r], "deletion_requested"))]
              /\ asked' = asked \cup {r}
              /\ screen' = [screen EXCEPT ![p] = "privacy"]
         ELSE UNCHANGED <<rows, asked, screen>>
    /\ chat' = [chat EXCEPT ![p] = Idle]
    /\ KeepWorld /\ UNCHANGED <<meets, links, conv, blocked, card, taps>>

\* Telegram reports the block itself: record_block.
Block(p) ==
    /\ Writes(p)
    /\ blocked' = blocked \cup {p}
    /\ IF Unregistered(p) THEN UNCHANGED chat
       ELSE \E r \in RowsOf(p) : chat' = [chat EXCEPT ![p] = Task("block", {r})]
    /\ KeepTables /\ KeepWorld /\ UNCHANGED <<conv, screen, asked, card>>

RecordBlock(p) ==
    LET t == chat[p] r == Loaded(t) IN
    /\ t.op = "block"
    /\ rows' = IF StillThere(t) THEN [rows EXCEPT ![r] = MarkInactive(r, t.seen[r])] ELSE rows
    /\ chat' = [chat EXCEPT ![p] = Idle]
    /\ KeepWorld /\ UNCHANGED <<meets, links, people, card, taps>>

\* An unblock restores nothing: only onboarding leads back.
Unblock(p) ==
    /\ p \in blocked /\ now <= LastTap
    /\ blocked' = blocked \ {p}
    /\ KeepTables /\ KeepWorld /\ UNCHANGED <<conv, screen, asked, chat, card, taps>>

\* Creating a meeting, or opening a past one again, asks for an account and not for a MEMBER.
OpenMeeting(p, m) ==
    /\ Writes(p) /\ ~meets[m].active
    /\ \E r \in RowsOf(p) : /\ Accepted(r) /\ meets[m].owner \in {NoRow, r}
                            /\ meets' = [meets EXCEPT ![m] = [owner |-> r, active |-> TRUE]]
    /\ KeepWorld /\ UNCHANGED <<rows, links, people, chat, card>>

-----------------------------------------------------------------------------
(* On a card in somebody else's chat. *)

Taps(p, m) == Acts(p) /\ TaskIdle(card[p]) /\ meets[m].active

\* A tap on Join or Leave by a stranger to the bot registers an account; Leave then has nothing to leave.
TapNew(p, m) ==
    /\ Taps(p, m) /\ Unregistered(p) /\ RowLeft
    /\ \E op \in {"join_new", "leave_new"} : card' = [card EXCEPT ![p] = [Task(op, {}) EXCEPT !.meet = m]]
    /\ KeepTables /\ KeepWorld /\ UNCHANGED <<people, chat>>

TapJoin(p, m) ==
    /\ Taps(p, m)
    /\ \E r \in RowsOf(p) : Accepted(r) /\ card' = [card EXCEPT ![p] = [Task("join", {r}) EXCEPT !.meet = m]]
    /\ KeepTables /\ KeepWorld /\ UNCHANGED <<people, chat>>

\* The meeting is read again under its lock: one that ended or went undoes the registration
\* with the rest of the transaction.
RegisterFromCard(p) ==
    LET m == card[p].meet IN
    /\ card[p].op \in {"join_new", "leave_new"}
    /\ IF meets[m].active
         THEN /\ rows' = Inserted(p, "joined_only")
              /\ links' = IF card[p].op = "join_new" THEN links \cup {<<NextRow(Fresh), m>>} ELSE links
         ELSE UNCHANGED <<rows, links>>
    /\ card' = [card EXCEPT ![p] = Idle]
    /\ KeepWorld /\ UNCHANGED <<meets, people, chat, taps>>

\* A link to an account that went fails its foreign key.
Join(p) ==
    LET t == card[p] IN
    /\ t.op = "join"
    /\ links' = IF StillThere(t) /\ meets[t.meet].active THEN links \cup {<<Loaded(t), t.meet>>} ELSE links
    /\ card' = [card EXCEPT ![p] = Idle]
    /\ KeepWorld /\ UNCHANGED <<rows, meets, people, chat, taps>>

Leave(p, m) ==
    /\ Taps(p, m)
    /\ \E r \in RowsOf(p) : Accepted(r) /\ <<r, m>> \in links /\ links' = links \ {<<r, m>>}
    /\ KeepWorld /\ UNCHANGED <<rows, meets, people, chat, card>>

-----------------------------------------------------------------------------
(* A failed delivery marks its recipient inactive: fan-out, reconcile, error handler, broadcast. *)

KeepPeople == UNCHANGED <<people, chat, card, taps, now>>

FindUnreachable ==
    /\ TaskIdle(sweep)
    /\ \E p \in blocked : \E r \in MemberRowsOf(p) : sweep' = Task("sweep", {r})
    /\ KeepTables /\ KeepPeople /\ UNCHANGED <<cleanup, collect, told, due, crashes>>

MarkUnreachable ==
    LET r == Loaded(sweep) IN
    /\ sweep.op = "sweep"
    /\ rows' = IF StillThere(sweep) THEN [rows EXCEPT ![r] = MarkInactive(r, sweep.seen[r])] ELSE rows
    /\ sweep' = Idle
    /\ KeepPeople /\ UNCHANGED <<meets, links, cleanup, collect, told, due, crashes>>

-----------------------------------------------------------------------------
(* user_cleanup: a demotion, then a purge, then the farewells. *)

\* LEFT past the grace period, owning nothing active, kept by a link alone.
Demotable(r) ==
    /\ rows[r].status = "left" /\ rows[r].left + Grace < now
    /\ ~Owns(r, ActiveMeetings) /\ HasActiveLink(r)

\* LEFT, with no active meeting owned or joined.
Purgeable(r) == rows[r].status = "left" /\ ~Owns(r, ActiveMeetings) /\ ~HasActiveLink(r)
Requested(r) == rows[r].status = "deletion_requested"

KeepJobs == UNCHANGED <<sweep, collect, told, due, crashes>>

SelectDemotable ==
    /\ TaskIdle(cleanup) /\ "cleanup" \in due /\ due' = due \ {"cleanup"}
    /\ cleanup' = Task("demote", {r \in Rows : Demotable(r)})
    /\ KeepTables /\ KeepPeople /\ UNCHANGED <<sweep, collect, told, crashes>>

\* Their past meetings go with the demotion; a row that went fails the run.
EveryMeetingOf(R) == OwnedBy(R)
DemotedMeetings(R) == {m \in OwnedBy(R) : ~meets[m].active}
Demote ==
    LET R == DOMAIN cleanup.seen IN
    /\ cleanup.op = "demote"
    /\ IF StillThere(cleanup)
         THEN /\ rows' = [r \in Rows |-> IF r \in R
                                           THEN Stored(r, cleanup.seen[r], SetStatus(cleanup.seen[r], "joined_only"))
                                           ELSE rows[r]]
              /\ meets' = WithoutMeetings(DemotedMeetings(R))
              /\ links' = {l \in links : l[2] \notin DemotedMeetings(R)}
              /\ cleanup' = Task("select", {})
         ELSE /\ KeepTables
              /\ cleanup' = Idle
    /\ KeepPeople /\ KeepJobs

SelectPurged ==
    /\ cleanup.op = "select"
    /\ cleanup' = Task("purge", {r \in Rows : Purgeable(r) \/ Requested(r)})
    /\ KeepTables /\ KeepPeople /\ KeepJobs

EveryPurged(t) == DOMAIN t.seen
Farewells(t) == {r \in DOMAIN t.seen : t.seen[r].status = "deletion_requested"}

\* The DELETE names ids, and asks nothing again.
Purge ==
    LET R == DOMAIN cleanup.seen IN
    /\ cleanup.op = "purge"
    /\ DeleteRows(R)
    /\ cleanup' = [cleanup EXCEPT !.op = "farewell", !.seen = [r \in Farewells(cleanup) |-> cleanup.seen[r]]]
    /\ KeepPeople /\ KeepJobs

\* The queue drains after the commit; a send that fails is not tried again.
Farewell ==
    /\ cleanup.op = "farewell"
    /\ told' = told \cup DOMAIN cleanup.seen
    /\ cleanup' = Idle
    /\ KeepTables /\ KeepPeople /\ UNCHANGED <<sweep, collect, due, crashes>>

\* The worker stops: what is not committed, and what is not yet sent, is lost.
Crash ==
    /\ crashes > 0 /\ crashes' = crashes - 1
    /\ ~TaskIdle(cleanup) \/ ~TaskIdle(collect)
    /\ cleanup' = Idle /\ collect' = Idle
    /\ KeepTables /\ KeepPeople /\ UNCHANGED <<sweep, told, due>>

-----------------------------------------------------------------------------
(* inactive_meetings, after its meetings: accounts nobody uses any more. *)

Unused(r) == ~Owns(r, Meetings) /\ ~HasActiveLink(r)
AbandonedSinceLeaving(r) ==
    rows[r].status = "onboarding" /\ rows[r].left + AnswerWindow < now /\ Unused(r)
Abandoned(r) == rows[r].status = "onboarding" /\ rows[r].created + AnswerWindow < now /\ Unused(r)
Unneeded(r) == rows[r].status = "joined_only" /\ Unused(r)

SelectUnused ==
    /\ TaskIdle(collect) /\ "collect" \in due /\ due' = due \ {"collect"}
    /\ collect' = Task("collect", {r \in Rows : Unneeded(r) \/ Abandoned(r)})
    /\ KeepTables /\ KeepPeople /\ UNCHANGED <<sweep, cleanup, told, crashes>>

Nominated(t) == DOMAIN t.seen

\* delete_users_still_in_status
StillInStatus(t) == {r \in DOMAIN t.seen : rows[r].status = t.seen[r].status}
DeleteUnused ==
    /\ collect.op = "collect"
    /\ DeleteRows(StillInStatus(collect))
    /\ collect' = Idle
    /\ KeepPeople /\ UNCHANGED <<sweep, cleanup, told, due, crashes>>

\* The rest of inactive_meetings, and delete_meetings: MeetingLifecycle models both.
EndMeeting(m) ==
    /\ meets[m].active
    /\ meets' = [meets EXCEPT ![m].active = FALSE]
    /\ links' = {l \in links : l[2] # m}
    /\ UNCHANGED <<rows, people, tasks, told, due, now, taps, crashes>>
DropMeeting(m) ==
    /\ meets[m].owner # NoRow /\ ~meets[m].active
    /\ meets' = WithoutMeetings({m})
    /\ UNCHANGED <<rows, links, people, tasks, told, due, now, taps, crashes>>

Quiet == /\ TaskIdle(sweep) /\ TaskIdle(cleanup) /\ TaskIdle(collect)
         /\ \A p \in People : TaskIdle(chat[p]) /\ TaskIdle(card[p])
\* The next day, or at the bound the same one again.
Tick ==
    /\ Quiet /\ due = {}
    /\ now' = IF now < LastDay THEN now + 1 ELSE now
    /\ due' = Jobs
    /\ UNCHANGED <<rows, meets, links, people, tasks, told, taps, crashes>>

InChat(p) == \/ Register(p) \/ CompleteOnboarding(p) \/ RequestErasure(p) \/ RecordBlock(p)
OnCard(p) == RegisterFromCard(p) \/ Join(p)
CleanUp == SelectDemotable \/ Demote \/ SelectPurged \/ Purge \/ Farewell
Collect == SelectUnused \/ DeleteUnused

Next ==
    \/ \E p \in People : \/ StartAsMember(p) \/ StartAgain(p) \/ StartNew(p) \/ Answer(p) \/ Press(p)
                         \/ AskErasure(p) \/ Block(p) \/ Unblock(p) \/ InChat(p) \/ OnCard(p)
    \/ \E p \in People, m \in Meetings : OpenMeeting(p, m) \/ TapNew(p, m) \/ TapJoin(p, m) \/ Leave(p, m)
    \/ FindUnreachable \/ MarkUnreachable \/ CleanUp \/ Collect \/ Crash
    \/ \E m \in Meetings : EndMeeting(m) \/ DropMeeting(m)
    \/ Tick

Spec == Init /\ [][Next]_vars

\* Handlers and jobs take their next step; meetings end and go, as MeetingLifecycle's do; days pass.
FairSpec ==
    /\ Spec
    /\ \A p \in People : WF_vars(InChat(p)) /\ WF_vars(OnCard(p))
    /\ WF_vars(MarkUnreachable)
    /\ WF_vars(CleanUp) /\ WF_vars(Collect) /\ WF_vars(Tick)
    /\ \A m \in Meetings : WF_vars(EndMeeting(m)) /\ WF_vars(DropMeeting(m))

-----------------------------------------------------------------------------
(* Correctness. *)

\* A farewell tells the truth: it goes to somebody who asked, whose row is gone.  The purge queues
\* it inside the transaction that deletes, for LEFT rows and requests together, and a crash may
\* come between (user_cleanup.run).
FarewellsAreTrue == \A r \in told : r \in asked /\ rows[r].status = "gone"

\* The end of the grace period costs nobody a meeting in use: a demotion takes no active meeting
\* and no place in one, whatever was opened or joined since it chose its rows
\* (demote_stale_left_users).
DemotionsSpareMeetings ==
    [][Demote => /\ \A m \in ActiveMeetings : meets'[m] = meets[m]
                 /\ \A l \in links : l[2] \in ActiveMeetings => l \in links']_vars

\* The grace period runs from the first detection: block, failed delivery and job may each find
\* the departure again, on whatever row they loaded, and none restarts it (mark_inactive).
GraceRunsFromTheFirst ==
    [][\A r \in Rows : rows[r].status = "left" /\ rows'[r].status = "left"
                          => rows'[r].left = rows[r].left]_vars

\* The sweep of unused accounts takes nobody who came back while it ran
\* (delete_users_still_in_status).
SweepSparesMembers ==
    [][DeleteUnused => \A r \in Rows : rows[r].status = "member" => rows'[r] = rows[r]]_vars

\* Who goes had gone: neither job takes what is in use, and a farewell is said to nobody who stays.
OnlyTheGoneGo == DemotionsSpareMeetings /\ SweepSparesMembers /\ []FarewellsAreTrue

\* No account waits for ever between the states: whoever left, never answered, came only for a
\* meeting or asked to be erased is a MEMBER again or gone in the end.
AccountsSettle ==
    \A r \in Rows : rows[r].status \in UserStatus \ {"member"} ~> rows[r].status \in {"member", "gone"}

\* A request for erasure has no undo: the row awaits deletion until it is gone.
ErasureIsFinal ==
    [][\A r \in Rows : rows[r].status = "deletion_requested"
                          => rows'[r].status \in {"deletion_requested", "gone"}]_vars

\* left_time is NULL in every status but LEFT.
StampsFollowStatus ==
    \A r \in Rows : Exists(r) => (rows[r].status = "left" <=> rows[r].left # Never)

\* The purge spares whoever is a MEMBER again when it deletes.
PurgeSparesMembers ==
    [][Purge => \A r \in Rows : rows[r].status = "member" => rows'[r] = rows[r]]_vars

=============================================================================
