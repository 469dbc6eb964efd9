------------------------------ MODULE MeetingDates ------------------------------
(***************************************************************************)
(* When a meeting starts and ends: what the owner taps or types, the zone  *)
(* it is read in, and the rules a proposed date must pass.                 *)
(*                                                                         *)
(* An instant is a natural number.  A zone moves its clocks at most once:  *)
(* its offset is "before" up to "change" and "after" from then on, so that *)
(* a wall clock may be skipped (a gap) or repeated (a fold).               *)
(*                                                                         *)
(* One person's taps are handled one after another, so a handler is one    *)
(* step.  Unused definitions that stand before one of the same parameters  *)
(* are plausible mistakes in its code, for the mutants of PROJECT.json.    *)
(***************************************************************************)
EXTENDS Integers

CONSTANTS
    Zones,        \* the zones the owner may live in
    Day,          \* instants in a day
    MaxDuration,  \* LifecyclePolicy.max_duration
    HorizonDays,  \* the scheduling horizon of the owner's tier, or Unlimited
    Unlimited,
    LastNow,      \* bound: the clock stops here
    LastDate,     \* bound: later dates are left out
    NoDate

DatesFit ==
    /\ Zones \subseteq [change : Nat, before : Int, after : Int]
    /\ Day \in Nat \ {0} /\ MaxDuration \in Nat
    /\ LastNow \in Nat /\ LastDate \in Nat /\ NoDate \notin Int
    /\ HorizonDays \in Nat \cup {Unlimited} /\ Unlimited \notin Nat

VARIABLES
    now,
    zone,      \* the owner's Settings.timezone
    active,
    start,     \* Meetup.datetime
    end,       \* Meetup.end_datetime
    lock,      \* Meetup.lock_on_start
    wanted     \* history: what the last accepted edit was asked for

row == <<active, start, end, lock>>
vars == <<now, zone, row, wanted>>

-----------------------------------------------------------------------------
(* Wall clocks. *)

Lesser(a, b) == IF a < b THEN a ELSE b
Greater(a, b) == IF a < b THEN b ELSE a

\* astimezone(tz): what the clocks of a zone show.
Wall(z, t) == t + (IF t < z.change THEN z.before ELSE z.after)

\* A repeated wall clock on its second pass.
Fold(z, t) == IF t >= z.change /\ Wall(z, t) < z.change + z.before THEN 1 ELSE 0

\* The instant of a wall clock: a skipped one is read with the old offset, or the new one in fold 1.
Instant(z, w, fold) ==
    LET turn == z.change + (IF fold = 0 THEN Greater(z.before, z.after) ELSE Lesser(z.before, z.after))
    IN  w - (IF w < turn THEN z.before ELSE z.after)

Date(z, t) == Wall(z, t) \div Day

\* A time of day carries its fold.
Time(z, t) == [at |-> Wall(z, t) % Day, fold |-> Fold(z, t)]
LastMinute == [at |-> Day - 1, fold |-> 0]

LocalToUtc(z, date, time) == Instant(z, date * Day + time.at, time.fold)

\* Whether the clocks of a zone ever show this.
Exists(z, w) == Wall(z, Instant(z, w, 0)) = w

-----------------------------------------------------------------------------
(* Limits. *)

WithinMaxDuration(z, s, e) == Wall(z, e) - Wall(z, s) <= MaxDuration

\* The first reading alone.
LatestFirstReading(z, s) == Instant(z, Wall(z, s) + MaxDuration, 0)

LatestEnd(z, s) ==
    LET w == Wall(z, s) + MaxDuration IN Lesser(Instant(z, w, 0), Instant(z, w, 1))

WithinHorizon(t) == HorizonDays = Unlimited \/ Date(zone, t) <= Date(zone, now) + HorizonDays

-----------------------------------------------------------------------------
(* Rules. *)

IsInPast(t) == t <= now

\* The cap left to the end's own edits.
StartAhead(t) == ~IsInPast(t)

\* validate_start_datetime
StartAllowed(t) == ~IsInPast(t) /\ (end # NoDate => WithinMaxDuration(zone, t, end))

\* validate_end_datetime
EndAllowed(t) == ~IsInPast(t) /\ t > start /\ WithinMaxDuration(zone, start, t)

\* end_on_picked_date
EndOnPickedDate(t, date) ==
    LET latest == LatestEnd(zone, start) IN
    IF \/ WithinMaxDuration(zone, start, t)
       \/ Date(zone, latest) # date \/ IsInPast(latest)
    THEN t ELSE latest

\* The end is kept whatever the start.
StartAlone(t) == t <= LastDate /\ start' = t /\ UNCHANGED <<end, lock>>

\* apply_start_datetime with enforce_datetime_ordering
ApplyStart(t) ==
    /\ t <= LastDate /\ start' = t
    /\ IF end # NoDate /\ t >= end
       THEN end' = NoDate /\ lock' = FALSE
       ELSE UNCHANGED <<end, lock>>

ApplyEnd(t) == t <= LastDate /\ end' = t /\ UNCHANGED <<start, lock>>

\* What an edit was asked for: the moment it sets, the date, and the time of day if one was named.
Asked(what, date, at) == wanted' = [what |-> what, date |-> date, at |-> at]
Anything == -1
NotAsked == [what |-> "none", date |-> Anything, at |-> Anything]

-----------------------------------------------------------------------------
(* The owner's handlers; guards.meeting refuses a meeting that is over. *)

Edit == active /\ UNCHANGED <<now, zone, active>>

TimeKept(t) == IF t = NoDate THEN LastMinute ELSE Time(zone, t)

\* A tap on a day: the last minute of it, or the time the start has already.
PickStart(date) ==
    LET time == TimeKept(start)
        t == LocalToUtc(zone, date, time)
    IN  Edit /\ StartAllowed(t) /\ WithinHorizon(t) /\ ApplyStart(t) /\ Asked("start", date, time.at)

\* A full date; no other day and no time is meant than it.
TypeStartDatetime(t) ==
    Edit /\ StartAllowed(t) /\ WithinHorizon(t) /\ ApplyStart(t) /\ Asked("start", Anything, Anything)

\* A time without its day.
StartTimeOnUtcDay(at) ==
    LET t == LocalToUtc(zone, start \div Day, [at |-> at, fold |-> 0]) IN
    Edit /\ start # NoDate /\ StartAllowed(t) /\ ApplyStart(t) /\ Asked("start", Date(zone, start), at)

\* HH:MM on the day the start has; the horizon is not asked.
TypeStartTime(at) ==
    LET date == Date(zone, start)
        t == LocalToUtc(zone, date, [at |-> at, fold |-> 0])
    IN  Edit /\ start # NoDate /\ StartAllowed(t) /\ ApplyStart(t) /\ Asked("start", date, at)

\* The same tap on the end card, which keeps the time unless the cap stands in for it.
PickEnd(date) ==
    LET time == TimeKept(end)
        requested == LocalToUtc(zone, date, time)
        t == EndOnPickedDate(requested, date)
    IN  /\ Edit /\ start # NoDate /\ EndAllowed(t) /\ WithinHorizon(t)
        /\ ApplyEnd(t) /\ Asked("end", date, IF t = requested THEN time.at ELSE Anything)

TypeEndDatetime(t) ==
    /\ Edit /\ start # NoDate /\ EndAllowed(t) /\ WithinHorizon(t)
    /\ ApplyEnd(t) /\ Asked("end", Anything, Anything)

TypeEndTime(at) ==
    LET date == Date(zone, end)
        t == LocalToUtc(zone, date, [at |-> at, fold |-> 0])
    IN  /\ Edit /\ start # NoDate /\ end # NoDate /\ EndAllowed(t) /\ WithinHorizon(t)
        /\ ApplyEnd(t) /\ Asked("end", date, at)

\* The confirmation of an old screen.
RemoveEnd == Edit /\ end' = NoDate /\ wanted' = NotAsked /\ UNCHANGED <<start, lock>>

\* The lock is a standing setting and stays.
ClearTimes == Edit /\ start' = NoDate /\ end' = NoDate /\ wanted' = NotAsked /\ UNCHANGED lock

ToggleLock == Edit /\ lock' = ~lock /\ wanted' = NotAsked /\ UNCHANGED <<start, end>>

\* A new zone re-reads the wall clocks of every meeting; no instant moves.
SetTimezone(z) == zone' = z /\ z # zone /\ wanted' = NotAsked /\ UNCHANGED <<now, row>>

Deactivate == active /\ active' = FALSE /\ wanted' = NotAsked /\ UNCHANGED <<now, zone, start, end, lock>>

\* The dates go, and the lock with them.
Reactivate ==
    /\ ~active /\ active' = TRUE /\ start' = NoDate /\ end' = NoDate /\ lock' = FALSE
    /\ wanted' = NotAsked /\ UNCHANGED <<now, zone>>

Tick == now < LastNow /\ now' = now + 1 /\ wanted' = NotAsked /\ UNCHANGED <<zone, row>>

-----------------------------------------------------------------------------

\* A meeting is created with no date, or with the one its title carried, a past one too.
Init ==
    /\ now = 0 /\ zone \in Zones /\ active = TRUE
    /\ start \in {NoDate} \cup {t \in 0 .. LastDate : WithinHorizon(t)}
    /\ end = NoDate /\ lock \in BOOLEAN
    /\ wanted = NotAsked

Dates == 0 .. LastDate \div Day

Next ==
    \/ \E date \in Dates : PickStart(date) \/ PickEnd(date)
    \/ \E t \in 0 .. LastDate : TypeStartDatetime(t) \/ TypeEndDatetime(t)
    \/ \E at \in 0 .. Day - 1 : TypeStartTime(at) \/ TypeEndTime(at)
    \/ RemoveEnd \/ ClearTimes \/ ToggleLock
    \/ \E z \in Zones : SetTimezone(z)
    \/ Deactivate \/ Reactivate \/ Tick

Spec == Init /\ [][Next]_vars

-----------------------------------------------------------------------------
(* Properties. *)

DatesTypeOK ==
    /\ now \in Nat /\ zone \in Zones /\ active \in BOOLEAN /\ lock \in BOOLEAN
    /\ start \in Int \cup {NoDate} /\ end \in Int \cup {NoDate}

\* An end never stands without a start, nor at or before it, after any sequence of picks, typed
\* values, removals and reactivations: the deactivation sweep judges a meeting by its end.
DatesOrdered == end # NoDate => start # NoDate /\ start < end

\* No edit leaves a meeting longer than the cap on the clocks of the owner's zone as it is then, also
\* across a change of the clocks.
CapHolds == [][start' # NoDate /\ end' # NoDate /\ <<start, end>>' # <<start, end>>
                => WithinMaxDuration(zone, start', end')]_vars

\* Edits land on the day, and the time of day, the owner tapped or typed, on the owner's clocks, if
\* these ever show it.
EditsLandWhereAsked ==
    LET t == IF wanted.what = "end" THEN end ELSE start
        given == wanted.what # "none" /\ wanted.date # Anything
    IN  given /\ (wanted.at # Anything => Exists(zone, wanted.date * Day + wanted.at))
        => /\ Date(zone, t) = wanted.date
           /\ wanted.at # Anything => Wall(zone, t) % Day = wanted.at

\* The end offered in place of one that is too long passes the rule it stands in for, in every zone,
\* also when the clocks skip or repeat it: limits.latest_end's docstring.
LatestEndPasses == start # NoDate => WithinMaxDuration(zone, start, LatestEnd(zone, start))

\* A tapped day is the day the card then shows as scheduled.
TappedDayIsScheduled ==
    wanted.what # "none" /\ wanted.date # Anything
        => Date(zone, IF wanted.what = "end" THEN end ELSE start) = wanted.date

\* The lock is a rule about a start time and goes with the dates, "as it does when the owner clears the
\* times by hand" (the comment in reactivate_meeting.py).
LockGoesWithTheDates == [][start # NoDate /\ start' = NoDate => ~lock']_vars

\* What the editor promises about the dates: they land where they were asked for and stay ordered, and
\* the end it offers passes its own rule.
DatesAreRight == EditsLandWhereAsked /\ LatestEndPasses /\ DatesOrdered

=============================================================================
