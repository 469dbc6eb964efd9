------------------------------ MODULE StartNotices ------------------------------
(***************************************************************************)
(* The two notices around the start of a meeting, and the event service    *)
(* whose loops send them: a reminder to each attendee as long before the   *)
(* start as that person chose, and a notice to the list once it starts.    *)
(*                                                                         *)
(* A run of a job nominates what is due, then takes each case in a write   *)
(* transaction of its own that re-checks it, raises its flag and holds the *)
(* calls back; they are made after the commit.  Bot and owner change the   *)
(* meeting between any two of these, and the process may be stopped.       *)
(*                                                                         *)
(* Unused definitions that stand before one of the same parameters are     *)
(* plausible mistakes in its code, for the mutants of PROJECT.json.        *)
(***************************************************************************)
EXTENDS Integers, FiniteSets

CONSTANTS
    People,
    Lead,        \* Settings.notification_time of each person
    LastNow,     \* bound: the clock stops here
    MaxStops,    \* bound: how often the process is stopped
    MaxFaults,   \* bound: transactions, runs and sends that fail
    Edits,       \* bound: how often bot and owner change something
    NoDate

\* The one case of the notice of the start, beside those of the people.
TheMeeting == "meeting"

ASSUME NoticesAssumption ==
    /\ Lead \in [People -> Nat]
    /\ {LastNow, MaxStops, MaxFaults, Edits} \subseteq Nat /\ NoDate \notin Int
    /\ TheMeeting \notin People

Jobs == {"remind", "start"}

VARIABLES
    now, active, date,
    told,       \* Meetup.started_notification_sent
    place,      \* JoinedUsers: "out", "waiting", "in"
    reminded,   \* JoinedUsers.notification_sent
    wants,      \* Settings.notification
    member,     \* User.status is MEMBER
    up,         \* the process runs
    loop,       \* of each job: "asleep", "nominating", "sweeping", "draining"
    due,        \* what the run has nominated and not taken yet
    calls,      \* the calls its last commit released
    budget,     \* [stops, faults, edits] left
    heard,      \* history: notices each place has heard; "gone": a reminder under way is a former place's
    lost        \* history: notices flagged and not heard, with a cause

meeting == <<active, date, told, place, reminded, wants, member>>
service == <<up, loop, due, calls>>
vars == <<now, meeting, service, budget, heard, lost>>

-----------------------------------------------------------------------------
(* Bot and owner. *)

Spend(what) == budget[what] > 0 /\ budget' = [budget EXCEPT ![what] = @ - 1]

Edit == Spend("edits") /\ UNCHANGED <<now, service, told>>

Case(job, p) == <<job, p>>

Vacated(p) == [heard[p] EXCEPT !.remind = 0, !.gone = Case("remind", p) \in calls["remind"]]

\* A link that goes takes its flag with it.
Unlinked(p) ==
    /\ place' = [place EXCEPT ![p] = "out"] /\ reminded' = [reminded EXCEPT ![p] = FALSE]
    /\ heard' = [heard EXCEPT ![p] = Vacated(p)] /\ lost' = lost \ {Case("remind", p)}

\* No flag is reset by another date.
Reschedule(t) ==
    /\ Edit /\ active /\ t > now /\ date' = t
    /\ UNCHANGED <<active, place, reminded, wants, member, heard, lost>>

ClearDate ==
    /\ Edit /\ active /\ date' = NoDate
    /\ UNCHANGED <<active, place, reminded, wants, member, heard, lost>>

Join(p, to) ==
    /\ Edit /\ active /\ place[p] = "out" /\ place' = [place EXCEPT ![p] = to]
    /\ member' = [member EXCEPT ![p] = TRUE]
    /\ UNCHANGED <<active, date, reminded, wants, heard, lost>>

Promote(p) ==
    /\ Edit /\ active /\ place[p] = "waiting" /\ place' = [place EXCEPT ![p] = "in"]
    /\ UNCHANGED <<active, date, reminded, wants, member, heard, lost>>

Leave(p) ==
    Edit /\ active /\ place[p] # "out" /\ Unlinked(p) /\ UNCHANGED <<active, date, wants, member>>

ToggleStartReminder(p) ==
    /\ Edit /\ wants' = [wants EXCEPT ![p] = ~@]
    /\ UNCHANGED <<active, date, place, reminded, member, heard, lost>>

Depart(p) ==
    /\ Edit /\ member[p] /\ member' = [member EXCEPT ![p] = FALSE]
    /\ UNCHANGED <<active, date, place, reminded, wants, heard, lost>>

\* The sweep that ends the meeting clears its list.
Deactivate ==
    /\ Edit /\ active /\ date # NoDate /\ date < now /\ active' = FALSE
    /\ place' = [p \in People |-> "out"] /\ reminded' = [p \in People |-> FALSE]
    /\ heard' = [p \in People |-> IF place[p] = "out" THEN heard[p] ELSE Vacated(p)]
    /\ lost' = {x \in lost : x[1] # "remind"} /\ UNCHANGED <<date, wants, member>>

Reactivate ==
    /\ Edit /\ ~active /\ active' = TRUE /\ date' = NoDate
    /\ UNCHANGED <<place, reminded, wants, member, heard, lost>>

Tick == now < LastNow /\ now' = now + 1 /\ UNCHANGED <<meeting, service, budget, heard, lost>>

-----------------------------------------------------------------------------
(* What is due. *)

\* USERS_TO_NOTIFY_STATEMENT
ReminderDue(p) ==
    /\ date # NoDate /\ member[p] /\ wants[p] /\ place[p] = "in" /\ ~reminded[p]
    /\ date - Lead[p] <= now /\ now <= date

\* A start that a late run finds behind it is not taken any more.
StartDueNow == active /\ date # NoDate /\ date = now /\ ~told

\* MEETINGS_TO_NOTIFY_STARTED_STATEMENT
StartDue == active /\ date # NoDate /\ date <= now /\ ~told

\* split_participants: the settings are not asked.
Recipients == {p \in People : place[p] = "in" /\ member[p]}

Nominated(job) ==
    IF job = "remind" THEN {Case(job, p) : p \in {p \in People : ReminderDue(p)}}
    ELSE IF StartDue THEN {Case(job, TheMeeting)} ELSE {}

-----------------------------------------------------------------------------
(* The loops. *)

Step(job, from, to) == up /\ loop[job] = from /\ loop' = [loop EXCEPT ![job] = to]

\* handle_maintainance takes every exception: the job sleeps until its next run.
RunEnds(job) == loop' = [loop EXCEPT ![job] = "asleep"]

Wake(job) == Step(job, "asleep", "nominating") /\ UNCHANGED <<now, meeting, up, due, calls, budget, heard, lost>>

Nominate(job) ==
    /\ Step(job, "nominating", "sweeping") /\ due' = [due EXCEPT ![job] = Nominated(job)]
    /\ UNCHANGED <<now, meeting, up, calls, budget, heard, lost>>

\* The nomination itself fails, and the run with it.
NominateFails(job) ==
    /\ up /\ loop[job] = "nominating" /\ Spend("faults") /\ RunEnds(job)
    /\ UNCHANGED <<now, meeting, up, due, calls, heard, lost>>

\* A case is taken as it was nominated.
StillNominated(case) == TRUE

StillDue(case) == case \in Nominated(case[1])

\* The flag is left to the run that hears of the send.
FlagLater(case) == UNCHANGED <<reminded, told>>

Flag(case) ==
    IF case[2] \in People THEN reminded' = [reminded EXCEPT ![case[2]] = TRUE] /\ UNCHANGED told
    ELSE told' = TRUE /\ UNCHANGED reminded

Released(case) == {Case(case[1], p) : p \in IF case[2] \in People THEN {case[2]} ELSE Recipients}

\* One case in one transaction: re-checked, flagged, its calls released by the commit.
Take(job, case) ==
    /\ case \in due[job] /\ due' = [due EXCEPT ![job] = @ \ {case}]
    /\ IF StillDue(case)
       THEN Step(job, "sweeping", "draining") /\ Flag(case) /\ calls' = [calls EXCEPT ![job] = Released(case)]
       ELSE Step(job, "sweeping", "sweeping") /\ UNCHANGED <<reminded, told, calls>>
    /\ UNCHANGED <<now, active, date, place, wants, member, up, budget, heard, lost>>

\* The flag of a case that failed stays up.
FlaggedAnyway(job, case) ==
    /\ case \in due[job] /\ due' = [due EXCEPT ![job] = @ \ {case}]
    /\ Step(job, "sweeping", "sweeping") /\ Spend("faults") /\ StillDue(case) /\ Flag(case)
    /\ UNCHANGED <<now, active, date, place, wants, member, up, calls, heard, lost>>

\* Its transaction fails: nothing is written, the others go on.
TakeFails(job, case) ==
    /\ case \in due[job] /\ due' = [due EXCEPT ![job] = @ \ {case}]
    /\ Step(job, "sweeping", "sweeping") /\ Spend("faults")
    /\ UNCHANGED <<now, meeting, up, calls, heard, lost>>

Former(call) == call[1] = "remind" /\ heard[call[2]].gone
Settled(call) == IF Former(call) THEN [heard EXCEPT ![call[2]].gone = FALSE] ELSE heard

Made(job, call) == calls' = [calls EXCEPT ![job] = @ \ {call}]

Deliver(job, call) ==
    /\ Step(job, "draining", "draining") /\ call \in calls[job] /\ Made(job, call)
    /\ heard' = IF Former(call) THEN Settled(call) ELSE [heard EXCEPT ![call[2]][job] = @ + 1]
    /\ UNCHANGED <<now, meeting, up, due, budget, lost>>

\* The calls behind one that failed are given up.
DropRest(job, call) == calls' = [calls EXCEPT ![job] = {}]

\* A failure ends with its call.
AfterFailure(job, call) == Made(job, call)

SendFails(job, call) ==
    /\ Step(job, "draining", "draining") /\ call \in calls[job] /\ Spend("faults")
    /\ AfterFailure(job, call) /\ lost' = lost \cup {call} /\ heard' = Settled(call)
    /\ UNCHANGED <<now, meeting, up, due>>

\* reconcile: whoever blocked the bot is a member no longer.
SendBlocked(job, call) ==
    /\ Step(job, "draining", "draining") /\ call \in calls[job] /\ Spend("faults")
    /\ Made(job, call) /\ lost' = lost \cup {call} /\ heard' = Settled(call)
    /\ member' = [member EXCEPT ![call[2]] = FALSE]
    /\ UNCHANGED <<now, active, date, told, place, reminded, wants, up, due>>

Drained(job) ==
    Step(job, "draining", "sweeping") /\ calls[job] = {} /\ UNCHANGED <<now, meeting, up, due, calls, budget, heard, lost>>

\* The run reports, or raises over the cases that failed, and is over either way.
Finish(job) ==
    /\ up /\ loop[job] = "sweeping" /\ due[job] = {} /\ RunEnds(job)
    /\ UNCHANGED <<now, meeting, up, due, calls, budget, heard, lost>>

\* A signal cancels each loop where it stands; so does a crash.
Stop ==
    /\ up /\ Spend("stops") /\ up' = FALSE /\ loop' = [job \in Jobs |-> "asleep"]
    /\ due' = [job \in Jobs |-> {}] /\ calls' = [job \in Jobs |-> {}]
    /\ lost' = lost \cup UNION {calls[job] : job \in Jobs}
    /\ heard' = [p \in People |-> [heard[p] EXCEPT !.gone = FALSE]]
    /\ UNCHANGED <<now, meeting>>

Restart == ~up /\ up' = TRUE /\ UNCHANGED <<now, meeting, loop, due, calls, budget, heard, lost>>

-----------------------------------------------------------------------------

Init ==
    /\ now = 0 /\ active = TRUE /\ date \in {NoDate} \cup 1 .. LastNow /\ told = FALSE
    /\ place \in [People -> {"out", "in"}] /\ reminded = [p \in People |-> FALSE]
    /\ wants = [p \in People |-> TRUE] /\ member = [p \in People |-> TRUE]
    /\ up = TRUE /\ loop = [job \in Jobs |-> "asleep"]
    /\ due = [job \in Jobs |-> {}] /\ calls = [job \in Jobs |-> {}]
    /\ budget = [stops |-> MaxStops, faults |-> MaxFaults, edits |-> Edits]
    /\ heard = [p \in People |-> [remind |-> 0, start |-> 0, gone |-> FALSE]] /\ lost = {}

Send(job) == \E call \in calls[job] : Deliver(job, call) \/ SendFails(job, call) \/ SendBlocked(job, call)
TakeOne(job) == \E case \in due[job] : Take(job, case) \/ TakeFails(job, case)

Work(job) ==
    Wake(job) \/ Nominate(job) \/ NominateFails(job) \/ TakeOne(job) \/ Send(job) \/ Drained(job) \/ Finish(job)

Next ==
    \/ \E t \in 1 .. LastNow : Reschedule(t)
    \/ ClearDate \/ Deactivate \/ Reactivate
    \/ \E p \in People :
          \/ \E to \in {"in", "waiting"} : Join(p, to)
          \/ Promote(p) \/ Leave(p) \/ ToggleStartReminder(p) \/ Depart(p)
    \/ Tick
    \/ \E job \in Jobs : Work(job)
    \/ Stop \/ Restart

Spec == Init /\ [][Next]_vars

\* run_periodic runs for ever, the service is restarted, and the clock goes on.
FairSpec == Spec /\ WF_vars(Tick) /\ WF_vars(Restart) /\ \A job \in Jobs : WF_vars(Work(job))

-----------------------------------------------------------------------------
(* Properties. *)

NoticesTypeOK ==
    /\ now \in 0 .. LastNow /\ date \in {NoDate} \cup 1 .. LastNow
    /\ {active, told, up} \subseteq BOOLEAN
    /\ place \in [People -> {"out", "waiting", "in"}]
    /\ {reminded, wants, member} \subseteq [People -> BOOLEAN]
    /\ loop \in [Jobs -> {"asleep", "nominating", "sweeping", "draining"}]
    /\ lost \subseteq Jobs \X People

\* Nobody hears a notice twice for one place on the list, however often the service is stopped
\* between the flag and the send, a case fails or the meeting moves.
NoNoticeTwice ==
    \A p \in People : heard[p].remind <= 1 /\ heard[p].start <= 1

\* A flag stands for a notice that was heard, is about to be sent, or was lost to a failure of its
\* own or to a stop: no failure of one attendee's call costs another the notice.
FlaggedMeansTried ==
    \A p \in People :
        reminded[p] => \/ heard[p].remind = 1
                       \/ Case("remind", p) \in calls["remind"] \cup lost

\* And the notice of a start is tried for all it was released to: what leaves the queue was heard or
\* is recorded as lost.
NothingVanishes ==
    [][\A job \in Jobs : \A call \in calls[job] \ calls'[job] :
            \/ call \in lost' \/ Former(call)
            \/ heard'[call[2]][job] > heard[call[2]][job]]_vars

\* What is released is due at that moment, though the meeting or its list changed since it was
\* nominated: nobody on the waiting list, gone or silenced is reminded, and no moved meeting announced.
ReleasedIsDue ==
    [][/\ \A call \in calls'["remind"] \ calls["remind"] :
            ReminderDue(call[2])
       /\ calls'["start"] \ calls["start"] # {} => StartDue /\ \A c \in calls'["start"] : place[c[2]] = "in"]_vars

\* A start that comes is announced sooner or later, unless the meeting moves or ends first, whatever
\* stops and failures befall the service.
StartsAreAnnounced ==
    active /\ date # NoDate /\ date <= now
        ~> told \/ ~active \/ date = NoDate \/ date > now

\* When a meeting starts, the notice of its start is still to be sent: "everyone on the list with
\* notifications on gets two reminders", docs/user-guide/meeting_lifecycle.md.
StartsAreStillAhead == [][Tick /\ active /\ date = now' /\ Recipients # {} => ~told]_vars

\* A notice goes to whom it is due and is not dropped on the way.
NoticesReachTheDue == NothingVanishes /\ ReleasedIsDue

=============================================================================
