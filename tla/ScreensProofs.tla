---------------------------- MODULE ScreensProofs ----------------------------
(***************************************************************************)
(* Proofs about Screens, for any constants that fit, and about CardRefresh *)
(* for any cards, handlers, contents and answers and any number of changes.*)
(***************************************************************************)
EXTENDS Screens, CardRefresh, FiniteSetTheorems, SequenceTheorems, TLAPS

--------------------------------------------------------------------------------
(* The dates of a meeting *)

\* A zone has its three numbers.
LEMMA ZoneFields ==
    ASSUME Dates!DatesFit, NEW z \in Zones
    PROVE  z.change \in Int /\ z.before \in Int /\ z.after \in Int
BY DEF Dates!DatesFit

\* Reading a wall clock and an instant stays among the integers.
LEMMA ClocksAreInts ==
    ASSUME Dates!DatesFit, NEW z \in Zones, NEW t \in Int, NEW fold \in {0, 1}
    PROVE  Dates!Wall(z, t) \in Int /\ Dates!Instant(z, t, fold) \in Int
BY ZoneFields DEF Dates!Wall, Dates!Instant, Dates!Greater, Dates!Lesser

\* A wall clock that the zone shows is read back from either of its instants.
LEMMA ShownIsReadBack ==
    ASSUME Dates!DatesFit, NEW z \in Zones, NEW w \in Int, NEW fold \in {0, 1}, Dates!Exists(z, w)
    PROVE  Dates!Wall(z, Dates!Instant(z, w, fold)) = w
BY ZoneFields DEF Dates!Wall, Dates!Instant, Dates!Greater, Dates!Lesser, Dates!Exists

\* The earlier instant of a wall clock, also of a skipped one, shows no later time than that.
LEMMA EarlierReadingIsShort ==
    ASSUME Dates!DatesFit, NEW z \in Zones, NEW w \in Int
    PROVE  LET t == Dates!Lesser(Dates!Instant(z, w, 0), Dates!Instant(z, w, 1)) IN t \in Int /\ Dates!Wall(z, t) <= w
<1> DEFINE a == Dates!Instant(z, w, 0)
           b == Dates!Instant(z, w, 1)
<1>1. z.change \in Int /\ z.before \in Int /\ z.after \in Int
    BY ZoneFields
<1>2. /\ a = IF w < z.change + Dates!Greater(z.before, z.after) THEN w - z.before ELSE w - z.after
      /\ b = IF w < z.change + Dates!Lesser(z.before, z.after) THEN w - z.before ELSE w - z.after
    BY <1>1 DEF Dates!Instant
<1> HIDE DEF a, b
<1>3. a \in Int /\ b \in Int
    BY <1>1, <1>2
<1>4. CASE z.before < z.after
    BY <1>1, <1>2, <1>4 DEF Dates!Wall, Dates!Lesser, Dates!Greater, a, b
<1>5. CASE ~(z.before < z.after)
    BY <1>1, <1>2, <1>5 DEF Dates!Wall, Dates!Lesser, Dates!Greater, a, b
<1> QED
    BY <1>4, <1>5

\* A day and a time of day are found again in their sum.
LEMMA DayAndTime ==
    ASSUME Dates!DatesFit, NEW date \in Int, NEW at \in 0 .. Day - 1
    PROVE  (date * Day + at) \div Day = date /\ (date * Day + at) % Day = at
BY DEF Dates!DatesFit

\* A wall clock is a day and a time of it.
LEMMA TimeOfDay ==
    ASSUME Dates!DatesFit, NEW w \in Int
    PROVE  w % Day \in 0 .. Day - 1 /\ w \div Day \in Int
BY DEF Dates!DatesFit

\* What the last accepted edit was asked for: a day, and a time of day unless none was meant.
Wish == [what : {"none", "start", "end"}, date : Int, at : Int]

DatesInv == Dates!DatesTypeOK /\ wanted \in Wish /\ Dates!EditsLandWhereAsked /\ Dates!DatesOrdered

\* An instant read from a day and a time of day, when the clocks show them, lies on that day at that time.
LEMMA LandsThere ==
    ASSUME Dates!DatesFit, NEW z \in Zones, NEW date \in Int, NEW time, time.at \in 0 .. Day - 1, time.fold \in {0, 1},
           Dates!Exists(z, date * Day + time.at)
    PROVE  LET t == Dates!LocalToUtc(z, date, time) IN Dates!Date(z, t) = date /\ Dates!Wall(z, t) % Day = time.at
<1> DEFINE w == date * Day + time.at
<1>1. w \in Int
    BY DEF Dates!DatesFit
<1> HIDE DEF w
<1>2. Dates!Wall(z, Dates!Instant(z, w, time.fold)) = w
    BY <1>1, ShownIsReadBack DEF w
<1> QED
    BY <1>2, DayAndTime DEF Dates!LocalToUtc, Dates!Date, w

\* What LocalToUtc returns is an instant, and a kept time is a time of day.
LEMMA ReadsAreInstants ==
    ASSUME Dates!DatesFit, NEW z \in Zones, NEW date \in Int, NEW time, time.at \in Int, time.fold \in {0, 1}
    PROVE  Dates!LocalToUtc(z, date, time) \in Int
BY ClocksAreInts DEF Dates!LocalToUtc, Dates!DatesFit

\* The time of day a picked day keeps is one, with its reading.
LEMMA KeptTimes ==
    ASSUME Dates!DatesFit, zone \in Zones, NEW t \in Int \cup {NoDate}
    PROVE  Dates!TimeKept(t).at \in 0 .. Day - 1 /\ Dates!TimeKept(t).fold \in {0, 1}
<1>1. CASE t = NoDate
    BY <1>1 DEF Dates!TimeKept, Dates!LastMinute, Dates!DatesFit
<1>2. CASE t # NoDate
    <2>1. Dates!Wall(zone, t) \in Int /\ Dates!Fold(zone, t) \in {0, 1}
        BY <1>2, ClocksAreInts DEF Dates!Fold
    <2> QED
        BY <1>2, <2>1, TimeOfDay DEF Dates!TimeKept, Dates!Time
<1> QED
    BY <1>1, <1>2

\* A meeting without dates.
LEMMA DatesInit == ASSUME Dates!DatesFit PROVE Dates!Init => DatesInv
BY DEF Dates!DatesFit, Dates!Init, DatesInv, Dates!DatesTypeOK, Dates!EditsLandWhereAsked, Dates!DatesOrdered, Wish,
    Dates!NotAsked, Dates!Anything

\* An accepted start keeps the dates ordered.
LEMMA StartKeepsOrder ==
    ASSUME Dates!DatesFit, Dates!DatesTypeOK, Dates!DatesOrdered, NEW t \in Int, Dates!ApplyStart(t)
    PROVE  Dates!DatesOrdered' /\ start' = t /\ end' \in Int \cup {NoDate} /\ lock' \in BOOLEAN
<1>1. Dates!DatesOrdered' /\ start' = t /\ end' \in Int \cup {NoDate}
    BY DEF Dates!DatesFit, Dates!DatesTypeOK, Dates!DatesOrdered, Dates!ApplyStart
<1>2. lock' \in BOOLEAN
    BY Zenon DEF Dates!DatesTypeOK, Dates!ApplyStart
<1> QED
    BY <1>1, <1>2

\* An end that passes the rules lies after the start (rules.py).
LEMMA EndKeepsOrder ==
    ASSUME Dates!DatesFit, Dates!DatesTypeOK, Dates!DatesOrdered, NEW t \in Int, start # NoDate, Dates!EndAllowed(t), Dates!ApplyEnd(t)
    PROVE  Dates!DatesOrdered' /\ end' = t /\ start' = start /\ lock' = lock
BY DEF Dates!DatesFit, Dates!DatesTypeOK, Dates!DatesOrdered, Dates!ApplyEnd, Dates!EndAllowed

\* The edits that name no day, or a time of a day, keep the invariant.
LEMMA DatesStep == ASSUME Dates!DatesFit, DatesInv, [Dates!Next]_Dates!vars PROVE DatesInv'
<1>0. /\ Dates!DatesTypeOK /\ wanted \in Wish /\ Dates!EditsLandWhereAsked /\ Dates!DatesOrdered
      /\ now \in Nat /\ zone \in Zones /\ active \in BOOLEAN /\ lock \in BOOLEAN
      /\ start \in Int \cup {NoDate} /\ end \in Int \cup {NoDate}
      /\ NoDate \notin Int /\ Day \in Nat \ {0} /\ Dates!Dates \subseteq Int /\ \A t \in 0 .. LastDate : t \in Int
    BY DEF DatesInv, Dates!DatesTypeOK, Dates!DatesFit, Dates!Dates
<1>a. ASSUME Dates!Edit PROVE zone' = zone /\ now' = now /\ active' = active
    BY <1>a DEF Dates!Edit
<1>t. ASSUME NEW t \in Int, Dates!Edit, Dates!ApplyStart(t), wanted' \in Wish, wanted'.what = "start",
             wanted'.date # Dates!Anything => /\ wanted'.at # Dates!Anything
                                              /\ Dates!Exists(zone, wanted'.date * Day + wanted'.at)
                                                   => Dates!Date(zone, t) = wanted'.date /\ Dates!Wall(zone, t) % Day = wanted'.at
      PROVE  DatesInv'
    <2>1. Dates!DatesOrdered' /\ start' = t /\ end' \in Int \cup {NoDate} /\ lock' \in BOOLEAN
        BY <1>0, <1>t, StartKeepsOrder
    <2>2. Dates!EditsLandWhereAsked'
        BY <1>a, <1>t, <2>1 DEF Dates!EditsLandWhereAsked, Dates!Exists, Dates!Date
    <2> QED
        BY <1>0, <1>a, <1>t, <2>1, <2>2 DEF DatesInv, Dates!DatesTypeOK
<1>e. ASSUME NEW t \in Int, Dates!Edit, start # NoDate, Dates!EndAllowed(t), Dates!ApplyEnd(t), wanted' \in Wish, wanted'.what = "end",
             wanted'.date # Dates!Anything =>
                ((wanted'.at # Dates!Anything => Dates!Exists(zone, wanted'.date * Day + wanted'.at))
                    => Dates!Date(zone, t) = wanted'.date /\ (wanted'.at # Dates!Anything => Dates!Wall(zone, t) % Day = wanted'.at))
      PROVE  DatesInv'
    <2>1. Dates!DatesOrdered' /\ end' = t /\ start' = start /\ lock' = lock
        BY <1>0, <1>e, EndKeepsOrder
    <2>2. Dates!EditsLandWhereAsked'
        BY <1>a, <1>e, <2>1 DEF Dates!EditsLandWhereAsked, Dates!Exists, Dates!Date
    <2> QED
        BY <1>0, <1>a, <1>e, <2>1, <2>2 DEF DatesInv, Dates!DatesTypeOK
<1>1. ASSUME NEW date \in Dates!Dates, Dates!PickStart(date) PROVE DatesInv'
    <2> DEFINE time == Dates!TimeKept(start)
               t == Dates!LocalToUtc(zone, date, time)
    <2>1. time.at \in 0 .. Day - 1 /\ time.fold \in {0, 1} /\ date \in Int
        BY <1>0, KeptTimes
    <2>2. t \in Int
        BY <1>0, <2>1, ReadsAreInstants
    <2>3. Dates!Exists(zone, date * Day + time.at) => Dates!Date(zone, t) = date /\ Dates!Wall(zone, t) % Day = time.at
        BY <1>0, <2>1, LandsThere
    <2>4. Dates!Edit /\ Dates!ApplyStart(t) /\ wanted' = [what |-> "start", date |-> date, at |-> time.at]
        BY <1>1 DEF Dates!PickStart, Dates!Asked
    <2> HIDE DEF time, t
    <2>5. wanted' \in Wish
        BY <2>1, <2>4 DEF Wish
    <2> QED
        BY <1>t, <2>1, <2>2, <2>3, <2>4, <2>5 DEF Dates!Anything
<1>2. ASSUME NEW date \in Dates!Dates, Dates!PickEnd(date) PROVE DatesInv'
    <2> DEFINE time == Dates!TimeKept(end)
               requested == Dates!LocalToUtc(zone, date, time)
               t == Dates!EndOnPickedDate(requested, date)
               at == IF t = requested THEN time.at ELSE Dates!Anything
    <2>1. time.at \in 0 .. Day - 1 /\ time.fold \in {0, 1} /\ date \in Int
        BY <1>0, KeptTimes
    <2>2. requested \in Int
        BY <1>0, <2>1, ReadsAreInstants
    <2>3. Dates!Exists(zone, date * Day + time.at) => Dates!Date(zone, requested) = date /\ Dates!Wall(zone, requested) % Day = time.at
        BY <1>0, <2>1, LandsThere
    <2>4. /\ Dates!Edit /\ start # NoDate /\ Dates!EndAllowed(t) /\ Dates!ApplyEnd(t)
          /\ wanted' = [what |-> "end", date |-> date, at |-> at]
        BY <1>2 DEF Dates!PickEnd, Dates!Asked
    <2> HIDE DEF time, requested
    <2>5. t \in Int /\ (t # requested => Dates!Date(zone, t) = date)
        <3>1. start \in Int /\ Dates!Wall(zone, start) + MaxDuration \in Int
            BY <1>0, <2>4, ClocksAreInts DEF Dates!DatesFit
        <3>2. Dates!LatestEnd(zone, start) \in Int
            BY <1>0, <3>1, EarlierReadingIsShort DEF Dates!LatestEnd
        <3> QED
            BY <2>2, <3>2 DEF Dates!EndOnPickedDate
    <2>6. at \in Int
        BY <2>1 DEF Dates!Anything
    <2>7. (at # Dates!Anything => Dates!Exists(zone, date * Day + at))
             => Dates!Date(zone, t) = date /\ (at # Dates!Anything => Dates!Wall(zone, t) % Day = at)
        BY <2>1, <2>3, <2>5 DEF Dates!Anything
    <2> HIDE DEF t, at
    <2>8. wanted' \in Wish
        BY <2>1, <2>4, <2>6 DEF Wish
    <2> QED
        BY <1>e, <2>4, <2>5, <2>7, <2>8
<1>3. ASSUME NEW t \in 0 .. LastDate, Dates!TypeStartDatetime(t) PROVE DatesInv'
    <2>1. /\ wanted' = [what |-> "start", date |-> Dates!Anything, at |-> Dates!Anything] /\ Dates!Edit
          /\ Dates!ApplyStart(t) /\ t \in Int
        BY <1>0, <1>3 DEF Dates!TypeStartDatetime, Dates!Asked
    <2>2. wanted' \in Wish
        BY <2>1 DEF Wish, Dates!Anything
    <2> QED
        BY <1>t, <2>1, <2>2
<1>4. ASSUME NEW t \in 0 .. LastDate, Dates!TypeEndDatetime(t) PROVE DatesInv'
    <2>1. /\ wanted' = [what |-> "end", date |-> Dates!Anything, at |-> Dates!Anything] /\ t \in Int
          /\ Dates!Edit /\ start # NoDate /\ Dates!EndAllowed(t) /\ Dates!ApplyEnd(t)
        BY <1>0, <1>4 DEF Dates!TypeEndDatetime, Dates!Asked
    <2>2. wanted' \in Wish
        BY <2>1 DEF Wish, Dates!Anything
    <2> QED
        BY <1>e, <2>1, <2>2
<1>5. ASSUME NEW at \in 0 .. Day - 1, Dates!TypeStartTime(at) PROVE DatesInv'
    <2> DEFINE date == Dates!Date(zone, start)
               time == [at |-> at, fold |-> 0]
               t == Dates!LocalToUtc(zone, date, time)
    <2>1. /\ Dates!Edit /\ start # NoDate /\ Dates!ApplyStart(t)
          /\ wanted' = [what |-> "start", date |-> date, at |-> at]
        BY <1>5 DEF Dates!TypeStartTime, Dates!Asked
    <2>2. date \in Int
        BY <1>0, <2>1, ClocksAreInts, TimeOfDay DEF Dates!Date
    <2> HIDE DEF date
    <2>3. /\ t \in Int
          /\ (Dates!Exists(zone, date * Day + at) => Dates!Date(zone, t) = date /\ Dates!Wall(zone, t) % Day = at)
        BY <1>0, <2>2, LandsThere, ReadsAreInstants
    <2> HIDE DEF t
    <2>4. wanted' \in Wish
        BY <2>1, <2>2 DEF Wish
    <2> QED
        BY <1>t, <2>1, <2>3, <2>4 DEF Dates!Anything
<1>6. ASSUME NEW at \in 0 .. Day - 1, Dates!TypeEndTime(at) PROVE DatesInv'
    <2> DEFINE date == Dates!Date(zone, end)
               time == [at |-> at, fold |-> 0]
               t == Dates!LocalToUtc(zone, date, time)
    <2>1. /\ Dates!Edit /\ start # NoDate /\ end # NoDate /\ Dates!EndAllowed(t) /\ Dates!ApplyEnd(t)
          /\ wanted' = [what |-> "end", date |-> date, at |-> at]
        BY <1>6 DEF Dates!TypeEndTime, Dates!Asked
    <2>2. date \in Int
        BY <1>0, <2>1, ClocksAreInts, TimeOfDay DEF Dates!Date
    <2> HIDE DEF date
    <2>3. /\ t \in Int
          /\ (Dates!Exists(zone, date * Day + at) => Dates!Date(zone, t) = date /\ Dates!Wall(zone, t) % Day = at)
        BY <1>0, <2>2, LandsThere, ReadsAreInstants
    <2> HIDE DEF t
    <2>4. wanted' \in Wish
        BY <2>1, <2>2 DEF Wish
    <2> QED
        BY <1>e, <2>1, <2>3, <2>4 DEF Dates!Anything
<1>7. ASSUME \/ Dates!RemoveEnd \/ Dates!ClearTimes \/ Dates!ToggleLock \/ Dates!Deactivate \/ Dates!Reactivate \/ Dates!Tick
             \/ \E z \in Zones : Dates!SetTimezone(z)
      PROVE  DatesInv'
    <2>1. wanted' = Dates!NotAsked /\ wanted' \in Wish
        BY <1>7 DEF Dates!RemoveEnd, Dates!ClearTimes, Dates!ToggleLock, Dates!Deactivate, Dates!Reactivate,
            Dates!Tick, Dates!SetTimezone, Dates!NotAsked, Wish, Dates!Anything
    <2>2. Dates!EditsLandWhereAsked'
        BY <2>1 DEF Dates!EditsLandWhereAsked, Dates!NotAsked
    <2>3. /\ now' \in Nat /\ start' \in Int \cup {NoDate} /\ end' \in Int \cup {NoDate}
          /\ Dates!DatesOrdered'
        BY <1>0, <1>7 DEF Dates!RemoveEnd, Dates!ClearTimes, Dates!ToggleLock, Dates!Deactivate, Dates!Reactivate,
            Dates!Tick, Dates!SetTimezone, Dates!Edit, Dates!row,
                          Dates!DatesOrdered
    <2>4. zone' \in Zones /\ active' \in BOOLEAN /\ lock' \in BOOLEAN
        BY <1>0, <1>7, Zenon DEF Dates!RemoveEnd, Dates!ClearTimes, Dates!ToggleLock, Dates!Deactivate,
            Dates!Reactivate, Dates!Tick, Dates!SetTimezone, Dates!Edit, Dates!row
    <2> QED
        BY <2>1, <2>2, <2>3, <2>4 DEF DatesInv, Dates!DatesTypeOK
<1>8. CASE UNCHANGED Dates!vars
    BY <1>0, <1>8 DEF Dates!vars, Dates!row, DatesInv, Dates!DatesTypeOK, Dates!EditsLandWhereAsked,
        Dates!DatesOrdered, Dates!Exists, Dates!Date
<1> QED
    BY <1>1, <1>2, <1>3, <1>4, <1>5, <1>6, <1>7, <1>8 DEF Dates!Next


\* The end offered instead of one that is too long passes the rule itself.
LEMMA DatesRight == ASSUME Dates!DatesFit, DatesInv PROVE Dates!DatesAreRight
<1> SUFFICES Dates!LatestEndPasses
    BY DEF DatesInv, Dates!DatesAreRight
<1> SUFFICES ASSUME start # NoDate PROVE Dates!WithinMaxDuration(zone, start, Dates!LatestEnd(zone, start))
    BY DEF Dates!LatestEndPasses
<1>1. zone \in Zones /\ start \in Int /\ Dates!Wall(zone, start) \in Int /\ MaxDuration \in Int
    BY ClocksAreInts DEF DatesInv, Dates!DatesTypeOK, Dates!DatesFit
<1>2. /\ Dates!LatestEnd(zone, start) \in Int
      /\ Dates!Wall(zone, Dates!LatestEnd(zone, start)) <= Dates!Wall(zone, start) + MaxDuration
    BY <1>1, EarlierReadingIsShort DEF Dates!LatestEnd
<1>3. Dates!Wall(zone, Dates!LatestEnd(zone, start)) \in Int
    BY <1>1, <1>2, ClocksAreInts
<1> QED
    BY <1>1, <1>2, <1>3 DEF Dates!WithinMaxDuration

--------------------------------------------------------------------------------
(* The conversations *)

States == {"none", "live", "confirm"}

\* The registry and the history agree on the meeting of whichever conversation is live, and the notice is its own.
TalkTyped == conv \in [Talk!Flows -> States] /\ stored \in [Talk!AboutMeeting -> Meetings \cup {NoMeeting}]
LivePrompted == \A f \in Talk!AboutMeeting : Talk!Live(f) => stored[f] # NoMeeting /\ asked = <<f, stored[f]>>
LiveNoticed == \A f \in Talk!Falls : Talk!Live(f) => active \in {f, NoFlow}
TalkInv == TalkTyped /\ Talk!OneFlowAtATime /\ LivePrompted /\ LiveNoticed

HeldInv == open \subseteq Meetings /\ photos \in [Meetings -> Seq(Photos)] /\ Talk!PhotosStayDistinct

ConversationsInv == TalkInv /\ HeldInv /\ Talk!NoticeNamesTheLiveFlow

\* The thirteen conversations by name.
LEMMA FlowNames ==
    Talk!Flows = {"timezone", "timeout", "reminder", "description", "photos", "place", "pin", "limit", "title", "start",
                  "end", "create", "invite"}
<1>1. DOMAIN Talk!FlowOrder = 1 .. 13
    BY DEF Talk!FlowOrder
<1>2. Talk!Flows = {Talk!FlowOrder[i] : i \in 1 .. 13}
    BY <1>1 DEF Talk!Flows, Range, Talk!Range
<1>3. 1 .. 13 = {1, 2, 3, 4, 5, 6, 7, 8, 9, 10, 11, 12, 13}
    OBVIOUS
<1>4. /\ Talk!FlowOrder[1] = "timezone" /\ Talk!FlowOrder[2] = "timeout" /\ Talk!FlowOrder[3] = "reminder"
      /\ Talk!FlowOrder[4] = "description" /\ Talk!FlowOrder[5] = "photos" /\ Talk!FlowOrder[6] = "place"
      /\ Talk!FlowOrder[7] = "pin"
      /\ Talk!FlowOrder[8] = "limit" /\ Talk!FlowOrder[9] = "title" /\ Talk!FlowOrder[10] = "start"
      /\ Talk!FlowOrder[11] = "end"
      /\ Talk!FlowOrder[12] = "create" /\ Talk!FlowOrder[13] = "invite"
    BY DEF Talk!FlowOrder
<1> QED
    BY <1>2, <1>3, <1>4

LEMMA FlowSets == Talk!AboutMeeting \subseteq Talk!Flows /\ Talk!Falls \subseteq Talk!Flows
    BY FlowNames DEF Talk!AboutMeeting, Talk!Falls

\* SoleConversationHandler: the conversation itself moves as told, and an entry ends every other one.
LEMMA SoleState ==
    ASSUME TalkTyped, NEW f \in Talk!Flows, NEW st \in States
    PROVE  /\ Talk!Sole(f, st) \in [Talk!Flows -> States] /\ Talk!Sole(f, st)[f] = st
           /\ \A g \in Talk!Flows : g # f => Talk!Sole(f, st)[g] = IF st = "none" THEN conv[g] ELSE "none"
<1>1. CASE st = "none"
    BY <1>1 DEF Talk!Sole, TalkTyped, States
<1>2. CASE st # "none"
    <2>1. Talk!EndOthers(f) \in [Talk!Flows -> States] /\ \A g \in Talk!Flows : g # f => Talk!EndOthers(f)[g] = "none"
        BY DEF Talk!EndOthers, TalkTyped, States
    <2> QED
        BY <1>2, <2>1 DEF Talk!Sole
<1> QED
    BY <1>1, <1>2

\* No conversation comes to life, and a live one keeps its meeting and its notice.
LEMMA Lasts ==
    ASSUME TalkInv, conv' \in [Talk!Flows -> States], stored' \in [Talk!AboutMeeting -> Meetings \cup {NoMeeting}],
           \A f \in Talk!Flows : conv'[f] # "none" => conv[f] # "none",
           \A f \in Talk!AboutMeeting : conv'[f] # "none" => stored'[f] = stored[f],
           active' \in {active, NoFlow}, asked' = asked
    PROVE  TalkInv'
<1>1. TalkTyped'
    BY DEF TalkTyped
<1>2. Talk!OneFlowAtATime'
    BY DEF TalkInv, Talk!OneFlowAtATime, Talk!Live
<1>3. LivePrompted'
    BY FlowSets DEF TalkInv, LivePrompted, Talk!Live
<1>4. LiveNoticed'
    BY FlowSets DEF TalkInv, LiveNoticed, Talk!Live
<1> QED
    BY <1>1, <1>2, <1>3, <1>4 DEF TalkInv

\* A conversation is live and no other, with its prompt and its notice.
LEMMA Starts ==
    ASSUME TalkInv, NEW f \in Talk!Flows, NEW st \in {"live", "confirm"}, conv' = Talk!Sole(f, st),
           stored' \in [Talk!AboutMeeting -> Meetings \cup {NoMeeting}],
           f \in Talk!AboutMeeting => stored'[f] # NoMeeting /\ asked' = <<f, stored'[f]>>,
           f \in Talk!Falls => active' \in {f, NoFlow}
    PROVE  TalkInv'
<1>1. /\ conv' \in [Talk!Flows -> States] /\ conv'[f] = st
      /\ \A g \in Talk!Flows : g # f => conv'[g] = "none"
    BY SoleState DEF TalkInv, States
<1>2. TalkTyped'
    BY <1>1 DEF TalkTyped
<1>3. Talk!OneFlowAtATime'
    BY <1>1 DEF Talk!OneFlowAtATime, Talk!Live
<1>4. LivePrompted'
    BY <1>1, FlowSets DEF LivePrompted, Talk!Live
<1>5. LiveNoticed'
    BY <1>1, FlowSets DEF LiveNoticed, Talk!Live
<1> QED
    BY <1>2, <1>3, <1>4, <1>5 DEF TalkInv

\* The conversation an update reaches is the live one.
LEMMA ReceivedBy == ASSUME TalkInv, NEW f \in Talk!Flows, Talk!Receives(f)
                    PROVE  Talk!Live(f) /\ \A g \in Talk!Flows : Talk!Live(g) => g = f
    BY DEF Talk!Receives, TalkInv, Talk!OneFlowAtATime

\* Whoever drops the registry of some flows leaves none of these live.
LEMMA CleansKeep ==
    ASSUME TalkInv, NEW flows, Talk!CleanUserData(flows), conv' \in [Talk!Flows -> States], asked' = asked,
           \A f \in Talk!Flows : conv'[f] # "none" => conv[f] # "none" /\ f \notin flows
    PROVE  TalkInv'
<1>1. stored' \in [Talk!AboutMeeting -> Meetings \cup {NoMeeting}]
    BY DEF Talk!CleanUserData, TalkInv, TalkTyped
<1>2. \A f \in Talk!AboutMeeting : conv'[f] # "none" => stored'[f] = stored[f]
    BY FlowSets DEF Talk!CleanUserData
<1>3. active' \in {active, NoFlow}
    BY DEF Talk!CleanUserData
<1> QED
    BY <1>1, <1>2, <1>3, Lasts

LEMMA ClosedNotLive == Talk!Closed \in [Talk!Flows -> States] /\ \A f \in Talk!Flows : Talk!Closed[f] = "none"
    BY DEF Talk!Closed, States

\* cleanup_states closes every conversation.
LEMMA StatesDropped == ASSUME TalkInv, Talk!CleanupStates, asked' = asked PROVE TalkInv'
    BY ClosedNotLive, CleansKeep DEF Talk!CleanupStates

\* clean_all_user_data closes them too, and empties the registry.
LEMMA AllDropped == ASSUME TalkInv, Talk!CleanAllUserData, asked' = asked PROVE TalkInv'
<1>1. conv' \in [Talk!Flows -> States] /\ (\A f \in Talk!Flows : conv'[f] = "none")
    BY ClosedNotLive DEF Talk!CleanAllUserData
<1>2. stored' \in [Talk!AboutMeeting -> Meetings \cup {NoMeeting}] /\ active' \in {active, NoFlow}
    BY DEF Talk!CleanAllUserData
<1> QED
    BY <1>1, <1>2, FlowSets, Lasts

\* TalkInv is about the conversations, the registry, the notice and the last prompt alone.
LEMMA RegistryStays == ASSUME TalkInv, UNCHANGED <<conv, stored, active, asked>> PROVE TalkInv'
    BY DEF TalkInv, TalkTyped, Talk!OneFlowAtATime, LivePrompted, LiveNoticed, Talk!Live

\* Photos and meetings are left alone, or meetings end.
LEMMA HeldStays == ASSUME HeldInv, photos' = photos, open' \subseteq open PROVE HeldInv'
    BY DEF HeldInv, Talk!PhotosStayDistinct

\* A conversation that stays where it is, or ends, keeps what was known of its meeting.
LEMMA StaysKeeps ==
    ASSUME ConversationsInv, NEW f \in Talk!Flows, NEW st \in States, Talk!Stays(f, st), st # "none" => Talk!Live(f)
    PROVE  ConversationsInv' /\ Talk!AnswerLandsWhereAsked
<1>0. TalkInv /\ HeldInv /\ TalkTyped
    BY DEF ConversationsInv, TalkInv
<1>1. /\ conv' = Talk!Sole(f, st) /\ outcome' = Talk!Nothing
      /\ UNCHANGED <<stored, active, asked, photos, open>>
    BY DEF Talk!Stays, Talk!registry, Talk!rows
<1>2. ASSUME NEW g \in Talk!Flows, conv'[g] # "none" PROVE conv[g] # "none"
    <2>1. CASE g = f
        BY <1>0, <1>1, <1>2, <2>1, SoleState DEF Talk!Live
    <2>2. CASE g # f
        BY <1>0, <1>1, <1>2, <2>2, SoleState
    <2> QED
        BY <2>1, <2>2
<1>3. TalkInv'
    BY <1>0, <1>1, <1>2, SoleState, Lasts DEF TalkTyped
<1>4. HeldInv'
    BY <1>0, <1>1, HeldStays
<1> QED
    BY <1>1, <1>3, <1>4 DEF ConversationsInv, Talk!NoticeNamesTheLiveFlow, Talk!AnswerLandsWhereAsked, Talk!Nothing

\* An entry names its meeting in the registry and in the prompt it shows.
LEMMA OpensKeeps ==
    ASSUME Talk!ConversationsFit, ConversationsInv, NEW f \in Talk!AboutMeeting, NEW m \in Meetings, NEW found, Talk!Opens(f, m, found)
    PROVE  ConversationsInv' /\ Talk!AnswerLandsWhereAsked
<1>0. TalkInv /\ HeldInv /\ TalkTyped /\ f \in Talk!Flows
    BY FlowSets DEF ConversationsInv, TalkInv
<1>1. CASE Talk!Stays(f, "none")
    BY <1>0, <1>1, StaysKeeps DEF States
<1>2. CASE ~Talk!Stays(f, "none")
    <2>1. conv' = Talk!Sole(f, "live") /\ Talk!Keeps(f, m) /\ outcome' = Talk!Nothing /\ UNCHANGED <<photos, open>>
        BY <1>2 DEF Talk!Opens, Talk!rows
    <2>2. /\ stored' \in [Talk!AboutMeeting -> Meetings \cup {NoMeeting}] /\ stored'[f] = m
          /\ active' = f /\ asked' = <<f, m>>
        BY <1>0, <2>1 DEF Talk!Keeps, TalkTyped
    <2>3. m # NoMeeting
        BY DEF Talk!ConversationsFit
    <2>4. TalkInv'
        BY <1>0, <2>1, <2>2, <2>3, Starts
    <2>5. HeldInv'
        BY <1>0, <2>1, HeldStays
    <2> QED
        BY <2>1, <2>4, <2>5 DEF ConversationsInv, Talk!NoticeNamesTheLiveFlow, Talk!AnswerLandsWhereAsked, Talk!Nothing
<1> QED
    BY <1>1, <1>2

\* An answer that is taken is written to the meeting of the prompt, and ends the conversation.
LEMMA AnsweredKeeps ==
    ASSUME ConversationsInv, NEW f \in Talk!AboutMeeting, NEW found, Talk!Answered(f, found)
    PROVE  ConversationsInv' /\ Talk!AnswerLandsWhereAsked
<1>0. TalkInv /\ HeldInv /\ TalkTyped /\ f \in Talk!Flows
    BY FlowSets DEF ConversationsInv, TalkInv
<1>1. /\ Talk!Receives(f) /\ conv' = Talk!Sole(f, "none") /\ Talk!CleanUserData({f})
      /\ UNCHANGED <<asked, photos, open>> /\ (outcome' = Talk!Nothing \/ outcome' = Talk!Written(f))
    BY DEF Talk!Answered, Talk!rows
<1>2. Talk!Live(f)
    BY <1>0, <1>1, ReceivedBy
<1>3. asked = <<f, stored[f]>>
    BY <1>0, <1>2 DEF TalkInv, LivePrompted
<1>4. conv' \in [Talk!Flows -> States] /\ conv'[f] = "none" /\ \A g \in Talk!Flows : g # f => conv'[g] = conv[g]
    BY <1>0, <1>1, SoleState DEF States
<1>5. TalkInv'
    BY <1>0, <1>1, <1>4, CleansKeep
<1>6. HeldInv'
    BY <1>0, <1>1, HeldStays
<1> QED
    BY <1>1, <1>3, <1>5, <1>6 DEF ConversationsInv, Talk!NoticeNamesTheLiveFlow, Talk!AnswerLandsWhereAsked,
        Talk!Nothing, Talk!Written

\* An answer that is refused prompts again for the same meeting.
LEMMA RepromptedKeeps ==
    ASSUME ConversationsInv, NEW f \in Talk!Flows, NEW found, Talk!Reprompted(f, found)
    PROVE  ConversationsInv' /\ Talk!AnswerLandsWhereAsked
<1>1. Talk!Live(f)
    BY ReceivedBy DEF Talk!Reprompted, ConversationsInv
<1>2. CASE Talk!Stays(f, "live")
    BY <1>1, <1>2, StaysKeeps DEF States
<1>3. CASE Talk!Stays(f, "none")
    BY <1>1, <1>3, StaysKeeps DEF States
<1> QED
    BY <1>2, <1>3 DEF Talk!Reprompted

\* A screen drawn again within a conversation keeps its meeting.
LEMMA RedrawnKeeps ==
    ASSUME ConversationsInv, NEW f \in Talk!AboutMeeting, NEW found, Talk!Redrawn(f, found),
           outcome' = Talk!Nothing \/ outcome' = Talk!Written(f)
    PROVE  ConversationsInv' /\ Talk!AnswerLandsWhereAsked
<1>0. TalkInv /\ HeldInv /\ TalkTyped /\ f \in Talk!Flows
    BY FlowSets DEF ConversationsInv, TalkInv
<1>1. Talk!Receives(f) /\ photos' = photos /\ open' = open
    BY DEF Talk!Redrawn
<1>2. Talk!Live(f) /\ asked = <<f, stored[f]>> /\ stored[f] # NoMeeting
    BY <1>0, <1>1, ReceivedBy DEF TalkInv, LivePrompted
<1>3. ASSUME conv' = Talk!Sole(f, "none"), UNCHANGED <<stored, active, asked>> PROVE TalkInv'
    <2>1. conv' \in [Talk!Flows -> States] /\ conv'[f] = "none" /\ \A g \in Talk!Flows : g # f => conv'[g] = conv[g]
        BY <1>0, <1>3, SoleState DEF States
    <2> QED
        BY <1>0, <1>3, <2>1, Lasts DEF TalkTyped
<1>4. ASSUME conv' = Talk!Sole(f, "live"), Talk!Keeps(f, stored[f]) PROVE TalkInv'
    <2>1. /\ stored' \in [Talk!AboutMeeting -> Meetings \cup {NoMeeting}] /\ stored'[f] = stored[f]
          /\ active' = f /\ asked' = <<f, stored[f]>>
        BY <1>0, <1>4 DEF Talk!Keeps, TalkTyped
    <2> QED
        BY <1>0, <1>2, <1>4, <2>1, Starts
<1>5. TalkInv'
    BY <1>3, <1>4 DEF Talk!Redrawn
<1>6. HeldInv'
    BY <1>0, <1>1, HeldStays
<1> QED
    BY <1>2, <1>5, <1>6 DEF ConversationsInv, Talk!NoticeNamesTheLiveFlow, Talk!AnswerLandsWhereAsked, Talk!Nothing,
        Talk!Written

\* A screen that drops what was going on, or leaves it.
LEMMA DropsKeep ==
    ASSUME ConversationsInv, Talk!CleanupStates \/ Talk!CleanAllUserData \/ UNCHANGED <<conv, Talk!registry>>,
           outcome' = Talk!Nothing, asked' = asked, photos' = photos, open' \subseteq open
    PROVE  ConversationsInv' /\ Talk!AnswerLandsWhereAsked
<1>0. TalkInv /\ HeldInv
    BY DEF ConversationsInv
<1>1. TalkInv'
    BY <1>0, StatesDropped, AllDropped, RegistryStays DEF Talk!registry
<1>2. HeldInv'
    BY <1>0, HeldStays
<1> QED
    BY <1>1, <1>2 DEF ConversationsInv, Talk!NoticeNamesTheLiveFlow, Talk!AnswerLandsWhereAsked, Talk!Nothing

\* Title, description, place, pin and limit.
LEMMA EditingKeeps ==
    ASSUME Talk!ConversationsFit, ConversationsInv, Talk!Editing PROVE ConversationsInv' /\ Talk!AnswerLandsWhereAsked
<1>0. /\ {"title", "description", "place", "pin", "limit"} \subseteq Talk!AboutMeeting
      /\ {"title", "description", "place", "pin", "limit", "end", "photos"} \subseteq Talk!Flows /\ "none" \in States
    BY FlowNames DEF Talk!AboutMeeting, States
<1>1. CASE \E m \in Meetings : Talk!OpenTitle(m) \/ Talk!OpenDescription(m) \/ Talk!OpenPlace(m) \/ Talk!OpenPin(m) \/ Talk!OpenLimit(m)
    <2>1. PICK m \in Meetings, f \in Talk!AboutMeeting : \E found \in BOOLEAN : Talk!Opens(f, m, found)
        <3>1. PICK m \in Meetings : Talk!OpenTitle(m) \/ Talk!OpenDescription(m) \/ Talk!OpenPlace(m) \/ Talk!OpenPin(m) \/ Talk!OpenLimit(m)
            BY <1>1
        <3>2. Talk!Editable(m) \in BOOLEAN /\ Talk!Owned(m) \in BOOLEAN
            BY DEF Talk!Editable, Talk!Owned
        <3> QED
            BY <1>0, <3>1, <3>2 DEF Talk!OpenTitle, Talk!OpenDescription, Talk!OpenPlace, Talk!OpenPin, Talk!OpenLimit
    <2> QED
        BY <2>1, OpensKeeps
<1>2. CASE Talk!TypeTitle \/ Talk!TypeDescription \/ Talk!TypePlace \/ Talk!SendPin \/ Talk!TypeLimit
    BY <1>0, <1>2, AnsweredKeeps DEF Talk!TypeTitle, Talk!TypeDescription, Talk!TypePlace, Talk!SendPin, Talk!TypeLimit
<1>3. CASE Talk!RejectLongTitle \/ Talk!RejectLongDescription \/ Talk!RejectLongPlace \/ Talk!SendNoPin \/ Talk!RefuseLimit
    BY <1>0, <1>3, RepromptedKeeps
       DEF Talk!RejectLongTitle, Talk!RejectLongDescription, Talk!RejectLongPlace, Talk!SendNoPin, Talk!RefuseLimit
<1>4. CASE Talk!CancelPlace \/ Talk!NoLimit
    BY <1>0, <1>4, StaysKeeps DEF Talk!CancelPlace, Talk!NoLimit
<1>5. CASE Talk!CancelLimit \/ Talk!CancelEdit
    BY <1>5, DropsKeep DEF Talk!CancelLimit, Talk!CancelEdit, Talk!rows
<1>6. CASE \E m \in Meetings : Talk!ShowEditor(m)
    BY <1>6, DropsKeep DEF Talk!ShowEditor, Talk!rows
<1> QED
    BY <1>1, <1>2, <1>3, <1>4, <1>5, <1>6 DEF Talk!Editing

\* Start and end.
LEMMA DatingKeeps ==
    ASSUME Talk!ConversationsFit, ConversationsInv, Talk!Dating PROVE ConversationsInv' /\ Talk!AnswerLandsWhereAsked
<1>0. /\ "start" \in Talk!AboutMeeting /\ "end" \in Talk!AboutMeeting /\ "start" \in Talk!Flows /\ TalkInv
      /\ HeldInv /\ TalkTyped
    BY FlowNames DEF Talk!AboutMeeting, ConversationsInv, TalkInv
<1>1. CASE \E m \in Meetings : Talk!StartCard(m) \/ Talk!EndCard(m)
    BY <1>0, <1>1, OpensKeeps DEF Talk!StartCard, Talk!EndCard
<1>2. CASE \E m \in Meetings : Talk!PickStart(m)
    <2>1. PICK m \in Meetings : Talk!PickStart(m)
        BY <1>2
    <2>2. /\ conv' = Talk!Sole("start", "live") /\ Talk!Keeps("start", m) /\ outcome' = Talk!Nothing
          /\ UNCHANGED <<photos, open>>
        BY <2>1 DEF Talk!PickStart
    <2>3. /\ stored' \in [Talk!AboutMeeting -> Meetings \cup {NoMeeting}] /\ stored'["start"] = m
          /\ active' = "start" /\ asked' = <<"start", m>>
        BY <1>0, <2>2 DEF Talk!Keeps, TalkTyped
    <2>4. m # NoMeeting
        BY DEF Talk!ConversationsFit
    <2>5. TalkInv'
        BY <1>0, <2>2, <2>3, <2>4, Starts
    <2>6. HeldInv'
        BY <1>0, <2>2, HeldStays
    <2> QED
        BY <2>2, <2>5, <2>6 DEF ConversationsInv, Talk!NoticeNamesTheLiveFlow, Talk!AnswerLandsWhereAsked, Talk!Nothing
<1>3. CASE Talk!TypeStart \/ Talk!RejectStart
    BY <1>0, <1>3, RedrawnKeeps DEF Talk!TypeStart, Talk!RejectStart
<1>4. CASE Talk!TypeEnd \/ Talk!RejectEnd
    BY <1>0, <1>4, RedrawnKeeps DEF Talk!TypeEnd, Talk!RejectEnd
<1>5. CASE Talk!CancelStart \/ Talk!WithoutStart \/ Talk!CancelEnd
    BY <1>5, DropsKeep DEF Talk!CancelStart, Talk!WithoutStart, Talk!CancelEnd, Talk!rows
<1>6. CASE \E m \in Meetings : Talk!ConfirmClearTimes(m)
    BY <1>6, DropsKeep DEF Talk!ConfirmClearTimes
<1> QED
    BY <1>1, <1>2, <1>3, <1>4, <1>5, <1>6 DEF Talk!Dating

\* A conversation that is about no meeting.
LEMMA SettingKeeps ==
    ASSUME ConversationsInv, NEW f \in Talk!Flows \ Talk!AboutMeeting, Talk!Setting(f), f \in Talk!Falls => active' = f
    PROVE  ConversationsInv' /\ Talk!AnswerLandsWhereAsked
<1>0. TalkInv /\ HeldInv /\ TalkTyped
    BY DEF ConversationsInv, TalkInv
<1>1. conv' = Talk!Sole(f, "live") /\ outcome' = Talk!Nothing /\ UNCHANGED <<stored, photos, open>>
    BY DEF Talk!Setting, Talk!rows
<1>2. TalkInv'
    BY <1>0, <1>1, Starts DEF TalkTyped
<1>3. HeldInv'
    BY <1>0, <1>1, HeldStays
<1> QED
    BY <1>1, <1>2, <1>3 DEF ConversationsInv, Talk!NoticeNamesTheLiveFlow, Talk!AnswerLandsWhereAsked, Talk!Nothing

\* A link that starts the bot ends whatever was open.
LEMMA StartLinkKeeps == ASSUME ConversationsInv, Talk!StartLink PROVE ConversationsInv' /\ Talk!AnswerLandsWhereAsked
<1>0. TalkInv /\ HeldInv /\ TalkTyped
    BY DEF ConversationsInv, TalkInv
<1>1. /\ stored' = [f \in Talk!AboutMeeting |-> NoMeeting] /\ active' = NoFlow /\ outcome' = Talk!Nothing
      /\ conv' = [Talk!Closed EXCEPT !["create"] = "live"] /\ UNCHANGED <<photos, open>>
    BY DEF Talk!StartLink, Talk!rows
<1>2. "create" \in Talk!Flows /\ "create" \notin Talk!AboutMeeting
    BY FlowNames DEF Talk!AboutMeeting
<1>3. conv' \in [Talk!Flows -> States] /\ \A g \in Talk!Flows : g # "create" => conv'[g] = "none"
    BY <1>1, <1>2, ClosedNotLive DEF States
<1>4. TalkTyped'
    BY <1>1, <1>3 DEF TalkTyped
<1>5. Talk!OneFlowAtATime' /\ LivePrompted'
    BY <1>2, <1>3, FlowSets DEF Talk!OneFlowAtATime, LivePrompted, Talk!Live
<1>6. LiveNoticed'
    BY <1>1 DEF LiveNoticed
<1>7. HeldInv'
    BY <1>0, <1>1, HeldStays
<1> QED
    BY <1>1, <1>4, <1>5, <1>6, <1>7 DEF ConversationsInv, TalkInv, Talk!NoticeNamesTheLiveFlow,
        Talk!AnswerLandsWhereAsked, Talk!Nothing

\* A screen behind a live conversation shows its notice and moves nothing.
LEMMA ShowNoticeKeeps == ASSUME ConversationsInv, Talk!ShowNotice PROVE ConversationsInv' /\ Talk!AnswerLandsWhereAsked
<1>0. TalkInv /\ HeldInv
    BY DEF ConversationsInv
<1>1. PICK f \in Talk!Falls : Talk!Receives(f) /\ outcome' = [kind |-> "notice", on |-> <<f, active>>]
    BY DEF Talk!ShowNotice
<1>2. active # NoFlow /\ UNCHANGED <<conv, stored, active, asked, photos, open>>
    BY DEF Talk!ShowNotice, Talk!registry, Talk!rows
<1>3. active = f
    BY <1>0, <1>1, <1>2, FlowSets, ReceivedBy DEF TalkInv, LiveNoticed
<1>4. TalkInv' /\ HeldInv'
    BY <1>0, <1>2, RegistryStays, HeldStays
<1> QED
    BY <1>1, <1>3, <1>4 DEF ConversationsInv, Talk!NoticeNamesTheLiveFlow, Talk!AnswerLandsWhereAsked

\* The menus that are about no meeting: settings and creation.
LEMMA MenusKeep ==
    ASSUME ConversationsInv, Talk!Menus PROVE ConversationsInv' /\ Talk!AnswerLandsWhereAsked
<1>0. /\ {"timezone", "timeout", "reminder", "create"} \subseteq Talk!Flows \ Talk!AboutMeeting /\ "none" \in States
      /\ "timeout" \notin Talk!Falls /\ "reminder" \notin Talk!Falls
    BY FlowNames DEF Talk!AboutMeeting, States, Talk!Falls
<1>1. CASE Talk!OpenTimezone \/ Talk!OpenTimeout \/ Talk!OpenReminder \/ Talk!OpenCreate
    BY <1>0, <1>1, SettingKeeps DEF Talk!OpenTimezone, Talk!OpenTimeout, Talk!OpenReminder, Talk!OpenCreate
<1>2. CASE Talk!EndTimezone \/ Talk!EndTimeout \/ Talk!EndReminder \/ Talk!OpenCreateAtCap \/ Talk!TypeNewTitle
    BY <1>0, <1>2, StaysKeeps DEF Talk!EndTimezone, Talk!EndTimeout, Talk!EndReminder, Talk!OpenCreateAtCap,
        Talk!TypeNewTitle
<1>3. CASE Talk!RetrySetting \/ Talk!RejectNewTitle
    BY <1>0, <1>3, RepromptedKeeps DEF Talk!RetrySetting, Talk!RejectNewTitle
<1>4. CASE Talk!CancelCreate \/ Talk!MainMenu \/ Talk!StartCommand \/ Talk!Abandon
    BY <1>4, DropsKeep DEF Talk!CancelCreate, Talk!MainMenu, Talk!StartCommand, Talk!Abandon, Talk!rows
<1>5. CASE Talk!StartLink
    BY <1>5, StartLinkKeeps
<1>6. CASE Talk!ShowNotice
    BY <1>6, ShowNoticeKeeps
<1> QED
    BY <1>1, <1>2, <1>3, <1>4, <1>5, <1>6 DEF Talk!Menus

\* A conversation that ends without an answer, its registry entry with it.
LEMMA ClosesKeep ==
    ASSUME ConversationsInv, NEW f \in Talk!Flows, conv' = Talk!Sole(f, "none"), Talk!CleanUserData({f}), asked' = asked,
           photos' = photos, open' = open, outcome' = Talk!Nothing
    PROVE  ConversationsInv' /\ Talk!AnswerLandsWhereAsked
<1>0. TalkInv /\ HeldInv /\ TalkTyped
    BY DEF ConversationsInv, TalkInv
<1>1. conv' \in [Talk!Flows -> States] /\ conv'[f] = "none" /\ \A g \in Talk!Flows : g # f => conv'[g] = conv[g]
    BY <1>0, SoleState DEF States
<1>2. TalkInv'
    BY <1>0, <1>1, CleansKeep
<1>3. HeldInv'
    BY <1>0, HeldStays
<1> QED
    BY <1>2, <1>3 DEF ConversationsInv, Talk!NoticeNamesTheLiveFlow, Talk!AnswerLandsWhereAsked, Talk!Nothing

\* Invitations, whose conversation has a screen to confirm.
LEMMA InvitingKeeps ==
    ASSUME Talk!ConversationsFit, ConversationsInv, Talk!Inviting PROVE ConversationsInv' /\ Talk!AnswerLandsWhereAsked
<1>0. "invite" \in Talk!AboutMeeting /\ "invite" \in Talk!Flows /\ TalkInv /\ HeldInv
    BY FlowNames DEF Talk!AboutMeeting, ConversationsInv
<1>1. CASE \E m \in Meetings : Talk!OpenInvite(m)
    BY <1>0, <1>1, OpensKeeps DEF Talk!OpenInvite
<1>2. CASE (\E m \in Meetings : Talk!ConfirmGuest(m)) \/ Talk!EndInvite
    BY <1>0, <1>2, AnsweredKeeps DEF Talk!ConfirmGuest, Talk!EndInvite
<1>3. CASE Talk!InviteRefused
    BY <1>0, <1>3, ClosesKeep DEF Talk!InviteRefused, Talk!rows
<1>4. CASE Talk!NameGuest
    <2>1. Talk!Live("invite")
        BY <1>4 DEF Talk!NameGuest, Talk!Live
    <2>2. CASE Talk!Stays("invite", "confirm")
        BY <1>0, <2>1, <2>2, StaysKeeps DEF States
    <2>3. CASE Talk!Stays("invite", "none")
        BY <1>0, <2>1, <2>3, StaysKeeps DEF States
    <2> QED
        BY <1>4, <2>2, <2>3 DEF Talk!NameGuest
<1>5. CASE Talk!TapSharedCard
    <2>1. UNCHANGED <<conv, stored, active, asked, photos, open>> /\ outcome'.kind \notin {"written", "notice"}
        BY <1>5 DEF Talk!TapSharedCard, Talk!registry, Talk!rows
    <2>2. TalkInv' /\ HeldInv'
        BY <1>0, <2>1, RegistryStays, HeldStays
    <2> QED
        BY <2>1, <2>2 DEF ConversationsInv, Talk!NoticeNamesTheLiveFlow, Talk!AnswerLandsWhereAsked
<1> QED
    BY <1>1, <1>2, <1>3, <1>4, <1>5 DEF Talk!Inviting

\* What a card may hold.
Distinct(s) == Len(s) <= MaxPhotos /\ \A i, j \in DOMAIN s : s[i] = s[j] => i = j

\* HeldInv in the words of Distinct.
LEMMA DistinctHeld == HeldInv <=> /\ open \subseteq Meetings /\ photos \in [Meetings -> Seq(Photos)]
                                  /\ \A m \in Meetings : Distinct(photos[m])
    BY DEF HeldInv, Talk!PhotosStayDistinct, Distinct

\* Removing by position leaves the others as they were.
LEMMA DropKeepsDistinct ==
    ASSUME Talk!ConversationsFit, NEW s \in Seq(Photos), Distinct(s), NEW i \in {0} \cup DOMAIN s
    PROVE  Talk!DropImage(s, i) \in Seq(Photos) /\ Distinct(Talk!DropImage(s, i))
<1>0. MaxPhotos \in Nat /\ DOMAIN s = 1 .. Len(s) /\ Len(s) \in Nat
    BY DEF Talk!ConversationsFit
<1>1. CASE i = 0
    BY <1>0, <1>1 DEF Talk!DropImage, Distinct
<1>2. CASE i # 0
    <2> DEFINE t == Talk!RemoveAt(s, i)
    <2>0. i \in 1 .. Len(s)
        BY <1>0, <1>2
    <2>1. SubSeq(s, 1, i - 1) \in Seq(Photos) /\ Len(SubSeq(s, 1, i - 1)) = i - 1
          /\ \A j \in 1 .. i - 1 : SubSeq(s, 1, i - 1)[j] = s[j]
        BY <1>0, <2>0
    <2> DEFINE u == SubSeq(s, i + 1, Len(s)) l == SubSeq(s, 1, i - 1)
    <2>2. u \in Seq(Photos) /\ Len(u) = Len(s) - i
        <3>1. \A j \in i + 1 .. Len(s) : s[j] \in Photos
            BY <1>0, <2>0
        <3>2. i + 1 \in Int /\ Len(s) \in Int
            BY <1>0, <2>0
        <3>3. u \in Seq(Photos) /\ Len(u) = IF i + 1 <= Len(s) THEN Len(s) - (i + 1) + 1 ELSE 0
            BY <3>1, <3>2, SubSeqProperties
        <3>4. (IF i + 1 <= Len(s) THEN Len(s) - (i + 1) + 1 ELSE 0) = Len(s) - i
            <4>1. \A n \in Nat : \A k \in 1 .. n : (IF k + 1 <= n THEN n - (k + 1) + 1 ELSE 0) = n - k
                OBVIOUS
            <4> QED
                BY <1>0, <2>0, <4>1
        <3> QED
            BY <3>3, <3>4
    <2>3. ASSUME NEW j \in 1 .. Len(s) - i PROVE u[j] = s[i + j]
        <3>1. u[j] = s[(i + 1) + (j - 1)]
            BY <1>0, <2>0
        <3>2. (i + 1) + (j - 1) = i + j
            BY <1>0, <2>0
        <3> QED
            BY <3>1, <3>2
    <2>4. t = l \o u
        BY DEF Talk!RemoveAt
    <2> HIDE DEF t, u, l
    <2>5. /\ l \in Seq(Photos) /\ Len(l) = i - 1 /\ \A j \in 1 .. i - 1 : l[j] = s[j]
        BY <2>1 DEF l
    <2>c. /\ l \o u \in Seq(Photos) /\ Len(l \o u) = Len(l) + Len(u)
          /\ \A j \in 1 .. Len(l) + Len(u) : (l \o u)[j] = IF j <= Len(l) THEN l[j] ELSE u[j - Len(l)]
        BY <2>2, <2>5, ConcatProperties
    <2>6. t \in Seq(Photos) /\ Len(t) = Len(s) - 1
        BY <1>0, <2>0, <2>2, <2>4, <2>5, <2>c
    <2>7. ASSUME NEW j \in 1 .. Len(s) - 1 PROVE t[j] = IF j < i THEN s[j] ELSE s[j + 1]
        <3>1. CASE j < i
            BY <1>0, <2>0, <2>2, <2>4, <2>5, <2>c, <3>1
        <3>2. CASE ~(j < i)
            <4>1. t[j] = u[j - (i - 1)]
                BY <1>0, <2>0, <2>2, <2>4, <2>5, <2>c, <3>2
            <4>2. j - (i - 1) \in 1 .. Len(s) - i /\ i + (j - (i - 1)) = j + 1
                BY <1>0, <2>0, <3>2
            <4> QED
                BY <2>3, <3>2, <4>1, <4>2
        <3> QED
            BY <3>1, <3>2
    <2>8. Distinct(t)
        <3>1. Len(t) <= MaxPhotos
            BY <1>0, <2>6 DEF Distinct
        <3>2. ASSUME NEW a \in DOMAIN t, NEW b \in DOMAIN t, t[a] = t[b] PROVE a = b
            <4>1. a \in 1 .. Len(s) - 1 /\ b \in 1 .. Len(s) - 1
                BY <1>0, <2>6
            <4>2. \A x, y \in 1 .. Len(s) : s[x] = s[y] => x = y
                BY <1>0 DEF Distinct
            <4> DEFINE up(x) == IF x < i THEN x ELSE x + 1
            <4>3. up(a) \in 1 .. Len(s) /\ up(b) \in 1 .. Len(s) /\ t[a] = s[up(a)] /\ t[b] = s[up(b)]
                BY <1>0, <2>0, <2>7, <4>1
            <4>4. up(a) = up(b)
                BY <3>2, <4>2, <4>3
            <4> QED
                BY <1>0, <2>0, <4>1, <4>4
        <3> QED
            BY <3>1, <3>2 DEF Distinct
    <2> QED
        BY <1>2, <2>6, <2>8 DEF Talk!DropImage, t
<1> QED
    BY <1>1, <1>2

\* A new photo appended while there is room, or put in the place of another, is one more or as many.
LEMMA StoreKeepsDistinct ==
    ASSUME Talk!ConversationsFit, NEW s \in Seq(Photos), Distinct(s), NEW p \in Photos, p \notin Range(s),
           NEW i \in {0} \cup DOMAIN s, i # 0 \/ Len(s) < MaxPhotos
    PROVE  Talk!StorePhoto(s, p, i) \in Seq(Photos) /\ Distinct(Talk!StorePhoto(s, p, i))
<1>0. MaxPhotos \in Nat /\ DOMAIN s = 1 .. Len(s) /\ Len(s) \in Nat
    BY DEF Talk!ConversationsFit
<1>1. \A j \in DOMAIN s : s[j] # p
    BY DEF Range
<1>2. \A x, y \in 1 .. Len(s) : s[x] = s[y] => x = y
    BY <1>0 DEF Distinct
<1>3. CASE i = 0
    <2> DEFINE t == Append(s, p)
    <2>1. /\ t \in Seq(Photos) /\ Len(t) = Len(s) + 1 /\ DOMAIN t = 1 .. Len(s) + 1
          /\ t[Len(s) + 1] = p /\ \A j \in 1 .. Len(s) : t[j] = s[j]
        BY <1>0
    <2> HIDE DEF t
    <2>2. \A a, b \in DOMAIN t : t[a] = t[b] => a = b
        <3> SUFFICES ASSUME NEW a \in 1 .. Len(s) + 1, NEW b \in 1 .. Len(s) + 1, t[a] = t[b] PROVE a = b
            BY <2>1
        <3>1. CASE a \in 1 .. Len(s) /\ b \in 1 .. Len(s)
            BY <1>2, <2>1, <3>1
        <3>2. CASE a = Len(s) + 1 /\ b \in 1 .. Len(s)
            BY <1>0, <1>1, <2>1, <3>2
        <3>3. CASE a \in 1 .. Len(s) /\ b = Len(s) + 1
            BY <1>0, <1>1, <2>1, <3>3
        <3> QED
            BY <1>0, <3>1, <3>2, <3>3
    <2>3. Len(t) <= MaxPhotos
        BY <1>0, <1>3, <2>1
    <2> QED
        BY <1>3, <2>1, <2>2, <2>3 DEF Talk!StorePhoto, Distinct, t
<1>4. CASE i # 0
    <2> DEFINE t == [s EXCEPT ![i] = p]
    <2>0. i \in 1 .. Len(s)
        BY <1>0, <1>4
    <2>1. /\ t \in Seq(Photos) /\ Len(t) = Len(s) /\ DOMAIN t = 1 .. Len(s)
          /\ t[i] = p /\ \A j \in 1 .. Len(s) : j # i => t[j] = s[j]
        BY <1>0, <2>0
    <2> HIDE DEF t
    <2>2. \A a, b \in DOMAIN t : t[a] = t[b] => a = b
        <3> SUFFICES ASSUME NEW a \in 1 .. Len(s), NEW b \in 1 .. Len(s), t[a] = t[b] PROVE a = b
            BY <2>1
        <3>1. CASE a # i /\ b # i
            BY <1>2, <2>1, <3>1
        <3>2. CASE a = i /\ b # i
            BY <1>0, <1>1, <2>1, <3>2
        <3>3. CASE a # i /\ b = i
            BY <1>0, <1>1, <2>1, <3>3
        <3> QED
            BY <3>1, <3>2, <3>3
    <2>3. Len(t) <= MaxPhotos
        BY <2>1 DEF Distinct
    <2> QED
        BY <1>4, <2>1, <2>2, <2>3 DEF Talk!StorePhoto, Distinct, t
<1> QED
    BY <1>3, <1>4

\* The editor of a meeting's photos, or the locked screen.
LEMMA ScreenKeeps ==
    ASSUME Talk!ConversationsFit, TalkInv, NEW m \in Meetings, NEW kept, Talk!Screen(m, kept) PROVE TalkInv'
<1>0. "photos" \in Talk!Flows /\ "photos" \in Talk!AboutMeeting /\ TalkTyped /\ m # NoMeeting
    BY FlowNames DEF Talk!AboutMeeting, TalkInv, Talk!ConversationsFit
<1>1. CASE host
    <2>1. conv' = Talk!Sole("photos", "live") /\ Talk!Keeps("photos", m)
        BY <1>1 DEF Talk!Screen
    <2>2. /\ stored' \in [Talk!AboutMeeting -> Meetings \cup {NoMeeting}] /\ stored'["photos"] = m
          /\ active' = "photos" /\ asked' = <<"photos", m>>
        BY <1>0, <2>1 DEF Talk!Keeps, TalkTyped
    <2> QED
        BY <1>0, <2>1, <2>2, Starts
<1>2. CASE ~host
    <2>1. conv' = Talk!Sole("photos", "none") /\ Talk!CleanUserData({"photos"}) /\ asked' = asked
        BY <1>2 DEF Talk!Screen
    <2>2. conv' \in [Talk!Flows -> States] /\ conv'["photos"] = "none"
          /\ \A g \in Talk!Flows : g # "photos" => conv'[g] = conv[g]
        BY <1>0, <2>1, SoleState DEF States
    <2> QED
        BY <2>1, <2>2, CleansKeep
<1> QED
    BY <1>1, <1>2

\* A change of the photos of one meeting.
LEMMA PhotoKept ==
    ASSUME Talk!ConversationsFit, HeldInv, NEW m \in Meetings, NEW s \in Seq(Photos), Distinct(s),
           photos' = [photos EXCEPT ![m] = s], open' \subseteq open
    PROVE  HeldInv'
<1>1. photos \in [Meetings -> Seq(Photos)] /\ open \subseteq Meetings /\ \A x \in Meetings : Distinct(photos[x])
    BY DistinctHeld
<1>2. photos' \in [Meetings -> Seq(Photos)]
    BY <1>1
<1>3. \A x \in Meetings : Distinct(photos'[x])
    BY <1>1
<1>4. Talk!PhotosStayDistinct'
    BY <1>3 DEF Talk!PhotosStayDistinct, Distinct
<1> QED
    BY <1>1, <1>2, <1>4 DEF HeldInv

\* A photo is stored unless the meeting has it already or is full.
LEMMA TakePhotoKeeps ==
    ASSUME Talk!ConversationsFit, HeldInv, NEW m \in Meetings, NEW p \in Photos, Talk!TakePhoto(m, p), open' = open
    PROVE  HeldInv' /\ (outcome' = Talk!Written("photos") \/ outcome' = Talk!Nothing)
<1>0. HeldInv /\ photos[m] \in Seq(Photos) /\ Distinct(photos[m])
    BY DistinctHeld
<1>1. Talk!Replacing(m) \in {0} \cup DOMAIN photos[m]
    BY DEF Talk!Replacing
<1>2. DOMAIN photos[m] = 1 .. Len(photos[m])
    BY <1>0
<1>3. Talk!HeldAt(m, p) = 0 => p \notin Range(photos[m])
    BY <1>2 DEF Talk!HeldAt, Range, Talk!Range
<1>4. CASE photos' = photos
    BY <1>0, <1>4, HeldStays DEF Talk!TakePhoto
<1>5. CASE photos' # photos
    <2>1. /\ Talk!HeldAt(m, p) = 0 /\ (Talk!Replacing(m) # 0 \/ Len(photos[m]) < MaxPhotos)
          /\ photos' = [photos EXCEPT ![m] = Talk!StorePhoto(photos[m], p, Talk!Replacing(m))]
        BY <1>5 DEF Talk!TakePhoto
    <2>2. /\ Talk!StorePhoto(photos[m], p, Talk!Replacing(m)) \in Seq(Photos)
          /\ Distinct(Talk!StorePhoto(photos[m], p, Talk!Replacing(m)))
        BY <1>0, <1>1, <1>3, <2>1, StoreKeepsDistinct
    <2>3. HeldInv'
        BY <1>0, <2>1, <2>2, PhotoKept
    <2> QED
        BY <2>3 DEF Talk!TakePhoto
<1> QED
    BY <1>4, <1>5

\* A photo sent to the conversation goes to the meeting it was opened for.
LEMMA SendPhotoKeeps ==
    ASSUME Talk!ConversationsFit, ConversationsInv, NEW p \in Photos, Talk!SendPhoto(p)
    PROVE  ConversationsInv' /\ Talk!AnswerLandsWhereAsked
<1> DEFINE m == stored["photos"]
<1>0. TalkInv /\ HeldInv /\ TalkTyped /\ "photos" \in Talk!Flows /\ "photos" \in Talk!AboutMeeting /\ "none" \in States
    BY FlowNames DEF ConversationsInv, TalkInv, Talk!AboutMeeting, States
<1>1. Talk!Receives("photos") /\ open' = open
    BY DEF Talk!SendPhoto
<1>2. asked = <<"photos", m>>
    BY <1>0, <1>1, ReceivedBy DEF TalkInv, LivePrompted
<1>3. CASE ~Talk!Editable(m)
    <2>1. conv' = Talk!Sole("photos", "none") /\ outcome' = Talk!Nothing /\ UNCHANGED <<stored, active, photos, asked>>
        BY <1>3 DEF Talk!SendPhoto, Talk!registry
    <2>2. conv' \in [Talk!Flows -> States] /\ conv'["photos"] = "none"
          /\ \A g \in Talk!Flows : g # "photos" => conv'[g] = conv[g]
        BY <1>0, <2>1, SoleState
    <2>3. TalkInv'
        BY <1>0, <2>1, <2>2, Lasts DEF TalkTyped
    <2>4. HeldInv'
        BY <1>0, <1>1, <2>1, HeldStays
    <2> QED
        BY <2>1, <2>3, <2>4 DEF ConversationsInv, Talk!NoticeNamesTheLiveFlow, Talk!AnswerLandsWhereAsked, Talk!Nothing
<1>4. CASE Talk!Editable(m)
    <2>0. m \in Meetings
        BY <1>0, <1>4 DEF Talk!Editable, HeldInv
    <2>1. CASE host
        <3>1. Talk!TakePhoto(m, p)
            BY <1>4, <2>1 DEF Talk!SendPhoto
        <3>2. HeldInv' /\ (outcome' = Talk!Written("photos") \/ outcome' = Talk!Nothing)
            BY <1>0, <1>1, <2>0, <3>1, TakePhotoKeeps
        <3>3. \E kept : Talk!Screen(m, kept)
            BY <3>1 DEF Talk!TakePhoto
        <3>4. TalkInv'
            BY <1>0, <2>0, <3>3, ScreenKeeps
        <3> QED
            BY <1>2, <3>2, <3>4 DEF ConversationsInv, Talk!NoticeNamesTheLiveFlow, Talk!AnswerLandsWhereAsked,
                Talk!Nothing, Talk!Written
    <2>2. CASE ~host
        <3>1. Talk!Screen(m, slot) /\ outcome' = Talk!Nothing /\ photos' = photos
            BY <1>4, <2>2 DEF Talk!SendPhoto
        <3>2. TalkInv'
            BY <1>0, <2>0, <3>1, ScreenKeeps
        <3>3. HeldInv'
            BY <1>0, <1>1, <3>1, HeldStays
        <3> QED
            BY <3>1, <3>2, <3>3 DEF ConversationsInv, Talk!NoticeNamesTheLiveFlow, Talk!AnswerLandsWhereAsked,
                Talk!Nothing
    <2> QED
        BY <2>1, <2>2
<1> QED
    BY <1>3, <1>4

\* A text where a photo was asked for.
LEMMA SendNoPhotoKeeps ==
    ASSUME Talk!ConversationsFit, ConversationsInv, Talk!SendNoPhoto
    PROVE  ConversationsInv' /\ Talk!AnswerLandsWhereAsked
<1> DEFINE m == stored["photos"]
<1>0. TalkInv /\ HeldInv /\ TalkTyped /\ "photos" \in Talk!Flows /\ "none" \in States
    BY FlowNames DEF ConversationsInv, TalkInv, States
<1>1. outcome' = Talk!Nothing /\ UNCHANGED <<photos, open>>
    BY DEF Talk!SendNoPhoto, Talk!rows
<1>2. HeldInv'
    BY <1>0, <1>1, HeldStays
<1>3. ASSUME Talk!Editable(m) PROVE TalkInv'
    <2>1. m \in Meetings /\ Talk!Screen(m, slot)
        BY <1>0, <1>3 DEF Talk!SendNoPhoto, Talk!Editable, HeldInv
    <2> QED
        BY <1>0, <2>1, ScreenKeeps
<1>4. ASSUME ~Talk!Editable(m) PROVE TalkInv'
    <2>1. conv' = Talk!Sole("photos", "none") /\ UNCHANGED <<stored, active, asked>>
        BY <1>4 DEF Talk!SendNoPhoto, Talk!registry
    <2>2. conv' \in [Talk!Flows -> States] /\ conv'["photos"] = "none"
          /\ \A g \in Talk!Flows : g # "photos" => conv'[g] = conv[g]
        BY <1>0, <2>1, SoleState
    <2> QED
        BY <1>0, <2>1, <2>2, Lasts DEF TalkTyped
<1> QED
    BY <1>1, <1>2, <1>3, <1>4 DEF ConversationsInv, Talk!NoticeNamesTheLiveFlow, Talk!AnswerLandsWhereAsked,
        Talk!Nothing

\* A chip that draws the screen and stores nothing.
LEMMA ChipKeeps ==
    ASSUME Talk!ConversationsFit, ConversationsInv, NEW m \in Meetings, NEW kept, Talk!Screen(m, kept), outcome' = Talk!Nothing,
           photos' = photos, open' = open
    PROVE  ConversationsInv' /\ Talk!AnswerLandsWhereAsked
<1>1. TalkInv'
    BY ScreenKeeps DEF ConversationsInv
<1>2. HeldInv'
    BY HeldStays DEF ConversationsInv
<1> QED
    BY <1>1, <1>2 DEF ConversationsInv, Talk!NoticeNamesTheLiveFlow, Talk!AnswerLandsWhereAsked, Talk!Nothing

\* A confirmation of any age removes by position, whatever is there now.
LEMMA ConfirmRemoveKeeps ==
    ASSUME Talk!ConversationsFit, ConversationsInv, NEW pr, Talk!ConfirmRemove(pr)
    PROVE  ConversationsInv' /\ Talk!AnswerLandsWhereAsked
<1>0. TalkInv /\ HeldInv /\ pr.of \in Meetings
    BY DEF ConversationsInv, HeldInv, Talk!ConfirmRemove, Talk!Chip, Talk!Editable
<1>1. Talk!Screen(pr.of, NoSlot) /\ open' = open
    BY DEF Talk!ConfirmRemove
<1>2. TalkInv'
    BY <1>0, <1>1, ScreenKeeps
<1>3. photos[pr.of] \in Seq(Photos) /\ Distinct(photos[pr.of])
    BY <1>0, DistinctHeld
<1>4. CASE pr.at \in {0} \cup DOMAIN photos[pr.of]
    <2>1. photos' = [photos EXCEPT ![pr.of] = Talk!DropImage(photos[pr.of], pr.at)] /\ outcome'.kind = "removed"
        BY <1>4 DEF Talk!ConfirmRemove
    <2>2. Talk!DropImage(photos[pr.of], pr.at) \in Seq(Photos) /\ Distinct(Talk!DropImage(photos[pr.of], pr.at))
        BY <1>3, <1>4, DropKeepsDistinct
    <2>3. HeldInv'
        BY <1>0, <1>1, <2>1, <2>2, PhotoKept
    <2> QED
        BY <1>2, <2>1, <2>3 DEF ConversationsInv, Talk!NoticeNamesTheLiveFlow, Talk!AnswerLandsWhereAsked
<1>5. CASE pr.at \notin {0} \cup DOMAIN photos[pr.of]
    <2>1. photos' = [photos EXCEPT ![pr.of] = photos[pr.of]] /\ outcome' = Talk!Nothing
        BY <1>5 DEF Talk!ConfirmRemove
    <2>2. HeldInv'
        BY <1>0, <1>1, <1>3, <2>1, PhotoKept
    <2> QED
        BY <1>2, <2>1, <2>2 DEF ConversationsInv, Talk!NoticeNamesTheLiveFlow, Talk!AnswerLandsWhereAsked, Talk!Nothing
<1> QED
    BY <1>4, <1>5

\* The button that asks for a removal changes no meeting.
LEMMA RemoveChipKeeps ==
    ASSUME ConversationsInv, NEW m, NEW i, Talk!RemoveChip(m, i) PROVE ConversationsInv' /\ Talk!AnswerLandsWhereAsked
<1>1. "photos" \in Talk!Flows
    BY FlowNames
<1> QED
    BY <1>1, ClosesKeep DEF Talk!RemoveChip, Talk!rows

\* The photos, operation by operation.
LEMMA PhotographingKeeps ==
    ASSUME Talk!ConversationsFit, ConversationsInv, Talk!Photographing
    PROVE  ConversationsInv' /\ Talk!AnswerLandsWhereAsked
<1>0. "photos" \in Talk!Flows /\ "none" \in States
    BY FlowNames DEF States
<1>1. CASE \E m \in Meetings : Talk!OpenPhotos(m) \/ Talk!SetImageLayout(m)
    BY <1>1, ChipKeeps DEF Talk!OpenPhotos, Talk!SetImageLayout, Talk!rows
<1>2. CASE \E m \in Meetings, i \in 0 .. MaxPhotos : Talk!ReplaceChip(m, i)
    BY <1>2, ChipKeeps DEF Talk!ReplaceChip, Talk!rows
<1>3. CASE \E m \in Meetings, i \in 0 .. MaxPhotos : Talk!RemoveChip(m, i)
    BY <1>3, RemoveChipKeeps
<1>4. CASE \E pr \in prompts : Talk!ConfirmRemove(pr)
    BY <1>4, ConfirmRemoveKeeps
<1>5. CASE \E pr \in prompts : Talk!DeclineRemove(pr)
    <2>1. PICK pr \in prompts : Talk!DeclineRemove(pr)
        BY <1>5
    <2>2. pr.of \in Meetings
        BY <2>1 DEF Talk!DeclineRemove, Talk!Chip, Talk!Editable, ConversationsInv, HeldInv
    <2> QED
        BY <2>1, <2>2, ChipKeeps DEF Talk!DeclineRemove, Talk!rows
<1>6. CASE \E p \in Photos : Talk!SendPhoto(p)
    BY <1>6, SendPhotoKeeps
<1>7. CASE Talk!SendNoPhoto
    BY <1>7, SendNoPhotoKeeps
<1>8. CASE Talk!ChipOfAPastMeeting
    BY <1>0, <1>8, StaysKeeps DEF Talk!ChipOfAPastMeeting
<1> QED
    BY <1>1, <1>2, <1>3, <1>4, <1>5, <1>6, <1>7, <1>8 DEF Talk!Photographing

\* What happens beside the conversations: a restart, meetings that end, a tier that is lost.
LEMMA AroundKeeps == ASSUME ConversationsInv, Talk!Around PROVE ConversationsInv' /\ Talk!AnswerLandsWhereAsked
<1>1. CASE \E m \in Meetings : Talk!Deactivate(m)
    BY <1>1, DropsKeep DEF Talk!Deactivate
<1>2. CASE Talk!LoseTier
    BY <1>2, DropsKeep DEF Talk!LoseTier
<1>3. CASE Talk!Restart
    BY <1>3, DropsKeep DEF Talk!Restart, Talk!rows
<1> QED
    BY <1>1, <1>2, <1>3 DEF Talk!Around

\* The invariant over every operation, and with it where each answer goes.
LEMMA ConversationsStep ==
    ASSUME Talk!ConversationsFit, ConversationsInv, Talk!Next PROVE ConversationsInv' /\ Talk!AnswerLandsWhereAsked
    BY EditingKeeps, DatingKeeps, MenusKeep, InvitingKeeps, PhotographingKeeps, AroundKeeps DEF Talk!Next

LEMMA ConversationsInit == ASSUME Talk!ConversationsFit, Talk!Init PROVE ConversationsInv
<1>1. TalkTyped /\ \A f \in Talk!Flows : ~Talk!Live(f)
    BY DEF Talk!Init, TalkTyped, States, Talk!Live
<1>2. TalkInv
    BY <1>1, FlowSets DEF TalkInv, Talk!OneFlowAtATime, LivePrompted, LiveNoticed
<1>3. InitialPhotos \subseteq Seq(Photos) /\ \A s \in InitialPhotos : Distinct(s)
    BY DEF Talk!ConversationsFit, Distinct
<1>4. HeldInv
    BY <1>3 DEF Talk!Init, HeldInv, Talk!PhotosStayDistinct, Distinct
<1> QED
    BY <1>2, <1>4 DEF Talk!Init, ConversationsInv, Talk!NoticeNamesTheLiveFlow, Talk!Nothing

\* A step keeps the invariant, and what it answers lands where it was asked for.
LEMMA ConversationsKeep ==
    ASSUME Talk!ConversationsFit, ConversationsInv, [Talk!Next]_Talk!vars
    PROVE  ConversationsInv' /\ [Talk!AnswerLandsWhereAsked]_Talk!vars
<1>1. CASE Talk!Next
    BY <1>1, ConversationsStep
<1>2. CASE UNCHANGED Talk!vars
    <2>1. UNCHANGED <<conv, stored, active, asked, photos, open, outcome>>
        BY <1>2 DEF Talk!vars, Talk!registry, Talk!rows, Talk!history
    <2>2. TalkInv' /\ HeldInv'
        BY <2>1, RegistryStays, HeldStays DEF ConversationsInv
    <2>3. Talk!NoticeNamesTheLiveFlow'
        BY <2>1 DEF ConversationsInv, Talk!NoticeNamesTheLiveFlow
    <2> QED
        BY <1>2, <2>2, <2>3 DEF ConversationsInv
<1> QED
    BY <1>1, <1>2

LEMMA ConversationsApart == ASSUME ConversationsInv PROVE Talk!ConversationsStayApart
<1>1. Talk!LiveFlowKnowsItsMeeting
    BY DEF ConversationsInv, TalkInv, LivePrompted, Talk!LiveFlowKnowsItsMeeting
<1> QED
    BY <1>1 DEF ConversationsInv, TalkInv, HeldInv, Talk!ConversationsStayApart

--------------------------------------------------------------------------------
(* The lists *)

\* The lists count with definitions of their own; they are those the theorems about finite sets use.
LEMMA SameFinite == ASSUME NEW S PROVE Lists!IsFiniteSet(S) <=> IsFiniteSet(S)
BY DEF Lists!IsFiniteSet, IsFiniteSet

\* Cardinality as the instance of the lists has it.
LEMMA SameCardinality == ASSUME NEW S PROVE Lists!Cardinality(S) = Cardinality(S)
BY DEF Lists!Cardinality, Cardinality



\* Exactly one of any two is before the other, and the order goes on.
Strict(S, before) ==
    /\ \A m, n \in S : m # n => <<m, n>> \in before \/ <<n, m>> \in before
    /\ \A m, n \in S : ~(<<m, n>> \in before /\ <<n, m>> \in before)
    /\ \A m, n, o \in S : <<m, n>> \in before /\ <<n, o>> \in before => <<m, o>> \in before

\* What comes before m.
Before(S, before, m) == {n \in S : <<n, m>> \in before}

\* In a strict order what comes before an element is less than what comes before a later one.
LEMMA BeforeGrows ==
    ASSUME NEW S, IsFiniteSet(S), NEW before, Strict(S, before), NEW m \in S, NEW n \in S, <<m, n>> \in before
    PROVE  Cardinality(Before(S, before, m)) < Cardinality(Before(S, before, n))
<1>1. Before(S, before, m) \in SUBSET (Before(S, before, n) \ {m}) /\ m \in Before(S, before, n)
    BY DEF Before, Strict
<1>2. IsFiniteSet(Before(S, before, n))
    BY FS_Subset DEF Before
<1>3. /\ IsFiniteSet(Before(S, before, n) \ {m})
      /\ Cardinality(Before(S, before, n) \ {m}) = Cardinality(Before(S, before, n)) - 1
    BY <1>1, <1>2, FS_RemoveElement
<1>4. Cardinality(Before(S, before, m)) <= Cardinality(Before(S, before, n) \ {m})
    BY <1>1, <1>3, FS_Subset
<1>5. Cardinality(Before(S, before, n)) \in Nat /\ Cardinality(Before(S, before, m)) \in Nat
    BY <1>1, <1>2, <1>3, FS_CardinalityType, FS_Subset
<1> QED
    BY <1>3, <1>4, <1>5

\* A finite set is put in order, each of it once.
LEMMA InOrderLists ==
    ASSUME NEW S, IsFiniteSet(S), NEW before, Strict(S, before)
    PROVE  /\ Lists!InOrder(S, before) \in Seq(S) /\ Len(Lists!InOrder(S, before)) = Cardinality(S)
           /\ \A m \in S : \E i \in 1 .. Cardinality(S) : Lists!InOrder(S, before)[i] = m
<1> DEFINE n == Cardinality(S)
           Rank(m) == Cardinality(Before(S, before, m)) + 1
           f == [m \in S |-> Rank(m)]
           q == [i \in 1 .. n |-> CHOOSE m \in S : Rank(m) = i]
           Sorted(x) == \A i, j \in DOMAIN x : i < j => <<x[i], x[j]>> \in before
<1>1. n \in Nat
    BY FS_CardinalityType
<1>2. \A m \in S : Rank(m) \in 1 .. n
    <2> TAKE m \in S
    <2>1. Before(S, before, m) \in SUBSET (S \ {m})
        BY DEF Before, Strict
    <2>2. IsFiniteSet(S \ {m}) /\ Cardinality(S \ {m}) = n - 1
        BY <1>1, FS_RemoveElement
    <2>3. Cardinality(Before(S, before, m)) <= n - 1 /\ Cardinality(Before(S, before, m)) \in Nat
        BY <2>1, <2>2, FS_Subset, FS_CardinalityType
    <2> QED
        BY <1>1, <2>3
<1>3. \A m, o \in S : <<m, o>> \in before => Rank(m) < Rank(o)
    <2> TAKE m, o \in S
    <2>1. HAVE <<m, o>> \in before
    <2>2. Cardinality(Before(S, before, m)) < Cardinality(Before(S, before, o))
        BY <2>1, BeforeGrows
    <2>3. Rank(m) \in Int /\ Rank(o) \in Int
        BY <1>2
    <2>4. Cardinality(Before(S, before, m)) \in Int /\ Cardinality(Before(S, before, o)) \in Int
        <3>1. IsFiniteSet(Before(S, before, m)) /\ IsFiniteSet(Before(S, before, o))
            BY FS_Subset DEF Before
        <3> QED
            BY <3>1, FS_CardinalityType
    <2> QED
        BY <2>2, <2>4
<1>4. \A m, o \in S : Rank(m) < Rank(o) => <<m, o>> \in before
    <2> TAKE m, o \in S
    <2>1. Rank(m) \in Nat /\ Rank(o) \in Nat
        BY <1>2
    <2>2. <<o, m>> \in before => Rank(o) < Rank(m)
        BY <1>3
    <2>3. m # o => <<m, o>> \in before \/ <<o, m>> \in before
        BY DEF Strict
    <2> HIDE DEF Rank
    <2> QED
        BY <2>1, <2>2, <2>3
<1>5. f \in Injection(S, 1 .. n)
    <2>1. f \in [S -> 1 .. n]
        BY <1>2
    <2>2. ASSUME NEW m \in S, NEW o \in S, f[m] = f[o] PROVE m = o
        <3>1. Rank(m) = Rank(o) /\ Rank(m) \in Nat
            BY <1>2, <2>2
        <3>2. <<m, o>> \notin before /\ <<o, m>> \notin before
            <4> HIDE DEF Rank
            <4> QED
                BY <1>3, <3>1
        <3> QED
            BY <3>2 DEF Strict
    <2> HIDE DEF f
    <2> QED
        BY <2>1, <2>2 DEF Injection, IsInjective
<1>6. f \in Surjection(S, 1 .. n)
    <2>1. IsFiniteSet(1 .. n) /\ Cardinality(1 .. n) = n
        BY <1>1, FS_Interval
    <2> HIDE DEF f
    <2> QED
        BY <1>5, <2>1, FS_Injection
<1>7. \A i \in 1 .. n : \E m \in S : Rank(m) = i
    <2>1. \A i \in 1 .. n : \E m \in S : f[m] = i
        <3> HIDE DEF f
        <3> QED
            BY <1>6 DEF Surjection
    <2> QED
        BY <2>1
<1>8. \A i \in 1 .. n : q[i] \in S /\ Rank(q[i]) = i
    <2> HIDE DEF Rank
    <2> QED
        BY <1>7
<1>9. q \in [1 .. n -> S] /\ Sorted(q)
    <2>1. q \in [1 .. n -> S]
        BY <1>8
    <2>2. \A i, j \in 1 .. n : i < j => <<q[i], q[j]>> \in before
        <3> HIDE DEF Rank, q
        <3> QED
            BY <1>4, <1>8
    <2>3. DOMAIN q = 1 .. n
        OBVIOUS
    <2> HIDE DEF q
    <2> QED
        BY <2>1, <2>2, <2>3
<1>10. Lists!InOrder(S, before) \in [1 .. n -> S] /\ Sorted(Lists!InOrder(S, before))
    <2>1. Lists!InOrder(S, before) = CHOOSE x \in [1 .. n -> S] : Sorted(x)
        BY SameFinite, SameCardinality DEF Lists!InOrder
    <2> HIDE DEF q, Sorted, n
    <2> QED
        BY <1>9, <2>1
<1> DEFINE x == Lists!InOrder(S, before)
<1> HIDE DEF q
<1>11. x \in [1 .. n -> S]
    BY <1>10
<1>12. x \in Seq(S) /\ Len(x) = n /\ DOMAIN x = 1 .. n
    <2> HIDE DEF x, n
    <2> QED
        BY <1>1, <1>11
<1>13. \A i, j \in 1 .. n : i < j => <<x[i], x[j]>> \in before
    BY <1>10, <1>12
<1>14. x \in Injection(1 .. n, S)
    <2>1. ASSUME NEW i \in 1 .. n, NEW j \in 1 .. n, x[i] = x[j] PROVE i = j
        <3>1. x[i] \in S /\ <<x[i], x[i]>> \notin before
            BY <1>11 DEF Strict
        <3>2. ~(i < j) /\ ~(j < i)
            <4> HIDE DEF x, n
            <4> QED
                BY <1>13, <2>1, <3>1
        <3> QED
            BY <1>1, <3>2
    <2> HIDE DEF x, n
    <2> QED
        BY <1>11, <2>1 DEF Injection, IsInjective
<1>15. x \in Surjection(1 .. n, S)
    <2>1. IsFiniteSet(1 .. n) /\ Cardinality(1 .. n) = n
        BY <1>1, FS_Interval
    <2> HIDE DEF x
    <2> QED
        BY <1>1, <1>14, <2>1, FS_Injection
<1>16. \A m \in S : \E i \in 1 .. n : x[i] = m
    <2> HIDE DEF x, n
    <2> QED
        BY <1>15 DEF Surjection
<1> QED
    BY <1>12, <1>16

\* A list of n, d on a page.
LEMMA PageCount ==
    ASSUME NEW n \in Nat, NEW d \in Nat \ {0}
    PROVE  LET q == (n + d - 1) \div d IN q \in Nat /\ q <= n /\ (n > 0 => q >= 1 /\ (q - 1) * d < n)
<1> DEFINE q == (n + d - 1) \div d
<1>1. q \in Int /\ q * d <= n + d - 1 /\ n + d - 1 < q * d + d
    OBVIOUS
<1>2. q >= 0
    <2> HIDE DEF q
    <2>1. CASE q <= -1
        <3>1. q * d + d <= 0
            BY <1>1, <2>1
        <3> QED
            BY <1>1, <3>1
    <2> QED
        BY <1>1, <2>1
<1>3. q <= n
    <2> HIDE DEF q
    <2>1. CASE q >= n + 1
        <3>1. q * d >= (n + 1) * d
            BY <1>1, <2>1
        <3>2. (n + 1) * d = n * d + d /\ n * d >= n
            OBVIOUS
        <3> QED
            BY <1>1, <3>1, <3>2
    <2> QED
        BY <1>1, <2>1
<1>4. n > 0 => q >= 1
    <2> HIDE DEF q
    <2>1. CASE q = 0
        BY <1>1, <2>1
    <2> QED
        BY <1>1, <1>2, <2>1
<1>5. (q - 1) * d = q * d - d
    <2> HIDE DEF q
    <2> QED
        BY <1>1
<1> HIDE DEF q
<1>6. n > 0 => (q - 1) * d < n
    BY <1>1, <1>5
<1> QED
    BY <1>1, <1>2, <1>3, <1>4, <1>6 DEF q

\* Every position of a list is on one of its pages.
LEMMA PageOf ==
    ASSUME NEW n \in Nat, NEW d \in Nat \ {0}, NEW i \in 1 .. n
    PROVE  \E p \in 1 .. (n + d - 1) \div d : (p - 1) * d + 1 <= i /\ i <= p * d
<1> DEFINE q == (n + d - 1) \div d
           r == (i - 1) \div d
<1>1. r \in Int /\ r * d <= i - 1 /\ i - 1 < r * d + d
    OBVIOUS
<1>2. q \in Int /\ q * d <= n + d - 1 /\ n + d - 1 < q * d + d
    OBVIOUS
<1> HIDE DEF q, r
<1>3. r >= 0
    <2>1. CASE r <= -1
        <3>1. r * d + d <= 0
            BY <1>1, <2>1
        <3> QED
            BY <1>1, <3>1
    <2> QED
        BY <1>1, <2>1
<1>4. r + 1 <= q
    <2>1. CASE r >= q
        <3>1. r * d >= q * d
            BY <1>1, <1>2, <2>1
        <3> QED
            BY <1>1, <1>2, <3>1
    <2> QED
        BY <1>1, <1>2, <2>1
<1>5. (r + 1) * d = r * d + d /\ ((r + 1) - 1) * d = r * d
    BY <1>1
<1>6. r + 1 \in 1 .. q /\ ((r + 1) - 1) * d + 1 <= i /\ i <= (r + 1) * d
    BY <1>1, <1>2, <1>3, <1>4, <1>5
<1>7. \E p \in 1 .. q : (p - 1) * d + 1 <= i /\ i <= p * d
    <2> DEFINE p0 == r + 1
    <2>1. p0 \in 1 .. q /\ (p0 - 1) * d + 1 <= i /\ i <= p0 * d
        BY <1>6
    <2> HIDE DEF p0
    <2> QED
        BY <2>1
<1> QED
    BY <1>7 DEF q

\* What is on a page.
LEMMA OnPage ==
    ASSUME NEW S, NEW list \in Seq(S), Lists!ListsFit, NEW p \in Nat \ {0}
    PROVE  Lists!Slice(list, p) = {list[i] : i \in {j \in 1 .. Len(list) : (p - 1) * PageSize + 1 <= j /\ j <= p * PageSize}}
<1> DEFINE a == (p - 1) * PageSize + 1
           b == Lists!Min({p * PageSize, Len(list)})
           slice == SubSeq(list, a, b)
<1>0. PageSize \in Nat \ {0} /\ Len(list) \in Nat
    BY DEF Lists!ListsFit
<1>1. p * PageSize \in Nat /\ (p - 1) * PageSize \in Nat /\ (p - 1) * PageSize = p * PageSize - PageSize
    BY <1>0
<1>2. a \in Nat /\ a >= 1
    <2> DEFINE x == (p - 1) * PageSize
    <2>1. x \in Nat
        BY <1>1
    <2> HIDE DEF x
    <2> QED
        BY <2>1 DEF x
<1> DEFINE c == p * PageSize
<1>c. c \in Nat
    BY <1>1
<1>3. b = IF c <= Len(list) THEN c ELSE Len(list)
    <2> HIDE DEF c
    <2>1. Lists!Min({c, Len(list)}) = IF c <= Len(list) THEN c ELSE Len(list)
        BY <1>0, <1>c DEF Lists!Min
    <2> QED
        BY <2>1 DEF c
<1> HIDE DEF c, b
<1>4. b \in Nat /\ b <= Len(list)
    BY <1>0, <1>c, <1>3
<1>5. \A j \in 1 .. Len(list) : j <= b <=> j <= c
    BY <1>0, <1>c, <1>3
<1> HIDE DEF a
<1>6. /\ slice \in Seq(S) /\ DOMAIN slice = 1 .. (IF a <= b THEN b - a + 1 ELSE 0)
      /\ (\A k \in 1 .. (IF a <= b THEN b - a + 1 ELSE 0) : slice[k] = list[a + k - 1])
    BY <1>0, <1>2, <1>4
<1>7. Lists!Range(slice) = {list[i] : i \in {j \in 1 .. Len(list) : a <= j /\ j <= c}}
    <2>1. ASSUME NEW v \in Lists!Range(slice) PROVE \E i \in 1 .. Len(list) : a <= i /\ i <= c /\ v = list[i]
        <3>1. PICK k \in DOMAIN slice : v = slice[k]
            BY <2>1 DEF Lists!Range
        <3>2. a <= b /\ k \in 1 .. (b - a + 1) /\ v = list[a + k - 1]
            BY <1>2, <1>4, <1>6, <3>1
        <3>3. a + k - 1 \in 1 .. Len(list) /\ a <= a + k - 1 /\ a + k - 1 <= b
            BY <1>0, <1>2, <1>4, <3>2
        <3> QED
            BY <1>5, <3>2, <3>3
    <2>2. ASSUME NEW i \in 1 .. Len(list), a <= i, i <= c PROVE list[i] \in Lists!Range(slice)
        <3>1. i <= b
            BY <1>5, <2>2
        <3>2. i - a + 1 \in 1 .. (b - a + 1) /\ a <= b /\ a + (i - a + 1) - 1 = i
            BY <1>0, <1>2, <1>4, <2>2, <3>1
        <3>3. i - a + 1 \in DOMAIN slice /\ slice[i - a + 1] = list[i]
            BY <1>6, <3>2
        <3> QED
            BY <3>3 DEF Lists!Range
    <2> QED
        BY <2>1, <2>2
<1>8. Lists!Slice(list, p) = Lists!Range(slice)
    BY DEF Lists!Slice, a, b, c
<1> QED
    BY <1>7, <1>8 DEF a, c

\* Both orders of the lists are strict: by age, and by the due time and then by age.
LEMMA ListsAreStrict ==
    ASSUME Lists!ListsFit, due \in [Lists!Listable -> Lists!Dues], NEW kind \in Lists!Kinds
    PROVE  Strict(Lists!Listable, IF kind = "past" THEN Lists!ByDue ELSE Lists!ByAge)
<1>0. Lists!Listable \subseteq Nat /\ \A m \in Lists!Listable : due[m] \in Int
    BY DEF Lists!ListsFit, Lists!Listable, Lists!Dues
<1>1. \A m, n \in Lists!Listable : <<m, n>> \in Lists!ByAge <=> m < n
    BY DEF Lists!ByAge
<1>2. \A m, n \in Lists!Listable : <<m, n>> \in Lists!ByDue <=> due[m] < due[n] \/ (due[m] = due[n] /\ m < n)
    BY DEF Lists!ByDue
<1>3. Strict(Lists!Listable, Lists!ByAge)
    BY <1>0, <1>1 DEF Strict
<1>4. Strict(Lists!Listable, Lists!ByDue)
    BY <1>0, <1>2 DEF Strict
<1> QED
    BY <1>3, <1>4

ListsTyped == state \in [Lists!Listable -> {"active", "past", "gone"}] /\ due \in [Lists!Listable -> Lists!Dues] /\ joined \subseteq Others

\* A list is its members, each once; its pages are made of them and hold all of them.
LEMMA ListsHold ==
    ASSUME Lists!ListsFit, ListsTyped, NEW kind \in Lists!Kinds
    PROVE  /\ Lists!Members(kind) \subseteq Lists!Listable
           /\ Lists!Listed(kind) \in Seq(Lists!Members(kind)) /\ Len(Lists!Listed(kind)) <= Cardinality(Lists!Listable)
           /\ \A m \in Lists!Members(kind) : \E i \in 1 .. Len(Lists!Listed(kind)) : Lists!Listed(kind)[i] = m
<1>1. Lists!Members(kind) \subseteq Lists!Listable
    BY DEF Lists!Members, Lists!Of, ListsTyped, Lists!Listable, Lists!Kinds
<1>2. IsFiniteSet(Lists!Members(kind)) /\ Cardinality(Lists!Members(kind)) <= Cardinality(Lists!Listable)
    BY <1>1, FS_Subset, SameFinite, SameCardinality DEF Lists!ListsFit, Lists!Listable
<1>3. Strict(Lists!Members(kind), IF kind = "past" THEN Lists!ByDue ELSE Lists!ByAge)
    BY <1>1, ListsAreStrict DEF ListsTyped, Strict
<1> QED
    BY <1>1, <1>2, <1>3, InOrderLists DEF Lists!Listed

\* Between them the pages of a list hold all of it.
LEMMA PagesHold == ASSUME Lists!ListsFit, ListsTyped, NEW kind \in Lists!Kinds
      PROVE  Lists!Members(kind) = UNION {Lists!Slice(Lists!Listed(kind), p) : p \in 1 .. Lists!PagesOf(Len(Lists!Listed(kind)))}
<1> DEFINE list == Lists!Listed(kind)
<1>1. list \in Seq(Lists!Members(kind)) /\ Len(list) \in Nat
      /\ \A m \in Lists!Members(kind) : \E i \in 1 .. Len(list) : list[i] = m
    BY ListsHold
<1>0. PageSize \in Nat \ {0}
    BY DEF Lists!ListsFit
<1> HIDE DEF list
<1>2. ASSUME NEW m \in Lists!Members(kind) PROVE \E p \in 1 .. Lists!PagesOf(Len(list)) : m \in Lists!Slice(list, p)
    <2>1. PICK i \in 1 .. Len(list) : list[i] = m
        BY <1>1
    <2>2. PICK p \in 1 .. Lists!PagesOf(Len(list)) : (p - 1) * PageSize + 1 <= i /\ i <= p * PageSize
        BY <1>0, <1>1, PageOf DEF Lists!PagesOf
    <2>3. m \in Lists!Slice(list, p)
        <3>1. p \in Nat \ {0}
            BY <1>0, <1>1, PageCount DEF Lists!PagesOf
        <3>2. Lists!Slice(list, p) = {list[k] : k \in {j \in 1 .. Len(list) : (p - 1) * PageSize + 1 <= j /\ j <= p * PageSize}}
            BY <1>1, <3>1, OnPage
        <3> QED
            BY <2>1, <2>2, <3>2
    <2> QED
        BY <2>3
<1>3. ASSUME NEW p \in 1 .. Lists!PagesOf(Len(list)), NEW m \in Lists!Slice(list, p) PROVE m \in Lists!Members(kind)
    <2>1. p \in Nat \ {0}
        BY <1>0, <1>1, PageCount DEF Lists!PagesOf
    <2>2. Lists!Slice(list, p) = {list[k] : k \in {j \in 1 .. Len(list) : (p - 1) * PageSize + 1 <= j /\ j <= p * PageSize}}
        BY <1>1, <2>1, OnPage
    <2>3. PICK k \in 1 .. Len(list) : m = list[k]
        BY <1>3, <2>2
    <2> QED
        BY <1>1, <2>3
<1>4. Lists!Members(kind) = UNION {Lists!Slice(list, p) : p \in 1 .. Lists!PagesOf(Len(list))}
    BY <1>2, <1>3
<1> QED
    BY <1>4 DEF list

\* clamp_page finds a page there is, wherever the arrow points.
LEMMA ClampInPages ==
    ASSUME NEW n \in Nat, n > 0, NEW p0 \in Int, Lists!ListsFit
    PROVE  Lists!Clamp(p0, n) \in 1 .. Lists!PagesOf(n)
<1> DEFINE q == Lists!PagesOf(n)
<1>1. q \in Nat /\ q >= 1
    BY PageCount DEF Lists!PagesOf, Lists!ListsFit
<1> HIDE DEF q
<1>2. Lists!Max({1, q}) = q
    BY <1>1 DEF Lists!Max
<1>3. Lists!Min({p0, q}) = IF p0 <= q THEN p0 ELSE q
    BY <1>1 DEF Lists!Min
<1>4. Lists!Max({1, Lists!Min({p0, q})}) = IF Lists!Min({p0, q}) >= 1 THEN Lists!Min({p0, q}) ELSE 1
    BY <1>1, <1>3 DEF Lists!Max
<1>5. Lists!Clamp(p0, n) = Lists!Max({1, Lists!Min({p0, q})})
    BY <1>2 DEF Lists!Clamp, q
<1>6. Lists!Clamp(p0, n) \in 1 .. q
    BY <1>1, <1>3, <1>4, <1>5
<1> QED
    BY <1>6 DEF q

\* A page of a list that is not empty can be built and shows something.
LEMMA PageBuilt ==
    ASSUME Lists!ListsFit, ListsTyped, NEW kind \in Lists!Kinds, Lists!Listed(kind) # <<>>, NEW p0 \in Int
    PROVE  LET n == Len(Lists!Listed(kind)) IN
           /\ n \in Nat /\ n > 0 /\ Lists!Clamp(p0, n) \in 1 .. Lists!PagesOf(n)
           /\ Lists!PagesOf(n) \in 0 .. Cardinality(Lists!Listable)
           /\ Lists!Slice(Lists!Listed(kind), Lists!Clamp(p0, n)) # {}
           /\ Lists!Slice(Lists!Listed(kind), Lists!Clamp(p0, n)) \subseteq Lists!Listable
<1> DEFINE list == Lists!Listed(kind)
           n == Len(list)
           p == Lists!Clamp(p0, n)
<1>0. PageSize \in Nat \ {0} /\ Cardinality(Lists!Listable) \in Nat
    BY FS_CardinalityType, SameFinite, SameCardinality DEF Lists!ListsFit, Lists!Listable
<1>1. /\ list \in Seq(Lists!Members(kind)) /\ n \in Nat /\ n > 0 /\ n <= Cardinality(Lists!Listable)
      /\ Lists!Members(kind) \subseteq Lists!Listable
    <2>1. /\ list \in Seq(Lists!Members(kind)) /\ Len(list) <= Cardinality(Lists!Listable)
          /\ Lists!Members(kind) \subseteq Lists!Listable /\ list # <<>>
        BY ListsHold
    <2> HIDE DEF list
    <2> QED
        BY <2>1
<1> HIDE DEF list
<1>2. p \in 1 .. Lists!PagesOf(n)
    BY <1>1, ClampInPages
<1> HIDE DEF p, n
<1>3. Lists!PagesOf(n) \in Nat /\ Lists!PagesOf(n) <= n /\ (Lists!PagesOf(n) - 1) * PageSize < n
    BY <1>0, <1>1, PageCount DEF Lists!PagesOf
<1>4. p \in Nat \ {0}
    BY <1>2, <1>3
<1>5. (p - 1) * PageSize + 1 \in 1 .. n /\ (p - 1) * PageSize + 1 <= p * PageSize
    <2>1. p - 1 <= Lists!PagesOf(n) - 1 /\ p - 1 \in Nat
        BY <1>2, <1>3
    <2>2. (p - 1) * PageSize <= (Lists!PagesOf(n) - 1) * PageSize /\ (p - 1) * PageSize \in Nat
        BY <1>0, <1>3, <2>1
    <2>3. p * PageSize = (p - 1) * PageSize + PageSize
        BY <1>0, <1>4
    <2> DEFINE x == (p - 1) * PageSize
               y == (Lists!PagesOf(n) - 1) * PageSize
    <2>4. y \in Int
        BY <1>0, <1>3
    <2> HIDE DEF x, y
    <2>5. x <= y /\ x \in Nat /\ y < n
        BY <1>3, <2>2 DEF x, y
    <2>6. x + 1 \in 1 .. n
        BY <1>1, <2>4, <2>5
    <2>7. p * PageSize = x + PageSize
        BY <2>3 DEF x
    <2>8. x + 1 <= p * PageSize
        BY <1>0, <2>5, <2>7
    <2> QED
        BY <2>6, <2>8 DEF x
<1>6. Lists!Slice(list, p) = {list[i] : i \in {j \in 1 .. Len(list) : (p - 1) * PageSize + 1 <= j /\ j <= p * PageSize}}
    BY <1>1, <1>4, OnPage
<1> DEFINE i0 == (p - 1) * PageSize + 1
<1>7. i0 \in 1 .. Len(list) /\ (p - 1) * PageSize + 1 <= i0 /\ i0 <= p * PageSize
    BY <1>5 DEF n
<1>8. list[i0] \in Lists!Slice(list, p)
    <2> HIDE DEF i0
    <2> QED
        BY <1>6, <1>7
<1>9. Lists!Slice(list, p) \subseteq Lists!Listable
    BY <1>1, <1>6
<1>10. n \in Nat /\ n > 0 /\ p \in 1 .. Lists!PagesOf(n) /\ Lists!PagesOf(n) \in 0 .. Cardinality(Lists!Listable)
    BY <1>0, <1>1, <1>2, <1>3
<1> QED
    BY <1>8, <1>9, <1>10 DEF p, n, list

\* A screen that shows no error and no empty list, of a list or about a meeting where it is used as one.
Good(v) ==
    /\ v \in Lists!View /\ v.at # "error" /\ (v.at = "list" => v.rows # {})
    /\ v.at \in {"list", "all_prompt"} => v.kind \in Lists!Kinds
    /\ v.at \in {"detail", "past", "ended", "prompt", "past_prompt"} => v.meeting \in Lists!Listable

ListsInv == Lists!TypeOK /\ \A s \in Prompts : Good(screen[s])

LEMMA ListsInit == ASSUME Lists!ListsFit PROVE Lists!Init => ListsInv
<1> SUFFICES ASSUME Lists!Init PROVE ListsInv
    OBVIOUS
<1>0. Cardinality(Lists!Listable) \in Nat
    BY FS_CardinalityType, SameFinite, SameCardinality DEF Lists!ListsFit, Lists!Listable
<1>1. Lists!Blank \in Lists!View
    BY <1>0, SameFinite, SameCardinality DEF Lists!Blank, Lists!View
<1>2. screen \in [Prompts -> Lists!View] /\ \A s \in Prompts : screen[s].at = "menu"
    BY <1>1 DEF Lists!Init, Lists!Blank
<1> QED
    BY <1>1, <1>2 DEF Lists!Init, ListsInv, Good, Lists!TypeOK, Lists!Dues, Lists!ListsFit, Lists!Listable

\* What the taps draw is good.
LEMMA DrawnWell ==
    ASSUME Lists!ListsFit, ListsInv, NEW s \in Prompts
    PROVE  /\ Good(Lists!Blank) /\ Good(screen[s])
           /\ Good([Lists!Blank EXCEPT !.at = "refused", !.kind = "past", !.page = 1]) \/ Lists!Listable = {}
           /\ \A at \in {"menu", "detail", "past", "prompt", "past_prompt", "ended", "deleted"},
                 m \in Lists!Listable, kind \in Lists!Kinds \cup {"none"}, p0 \in 0 .. Cardinality(Lists!Listable) :
                Good(Lists!About(at, m, kind, p0)) /\ Good(Lists!Answered(at, m, kind, p0))
           /\ \A at \in {"list", "all_prompt"}, kind \in Lists!Kinds, p0 \in Int :
                Lists!Listed(kind) # <<>> => Good(Lists!Paged(at, kind, Lists!Listed(kind), Lists!Clamp(p0, Len(Lists!Listed(kind)))))
<1>0. Cardinality(Lists!Listable) \in Nat /\ ListsTyped
    BY FS_CardinalityType, SameFinite, SameCardinality DEF Lists!ListsFit, Lists!Listable, ListsInv, Lists!TypeOK,
        ListsTyped
<1>1. Lists!Blank \in Lists!View /\ Lists!Blank.at = "menu"
    BY <1>0, SameFinite, SameCardinality DEF Lists!Blank, Lists!View
<1>2. Good(Lists!Blank) /\ Good(screen[s])
    BY <1>1 DEF Good, ListsInv, Lists!TypeOK
<1>3. Good([Lists!Blank EXCEPT !.at = "refused", !.kind = "past", !.page = 1]) \/ Lists!Listable = {}
    <2>1. Lists!Listable # {} => 1 \in 0 .. Cardinality(Lists!Listable)
        BY <1>0, FS_EmptySet, SameFinite, SameCardinality DEF Lists!ListsFit, Lists!Listable
    <2> QED
        BY <1>1, <2>1, SameFinite, SameCardinality DEF Good, Lists!Blank, Lists!View, Lists!Kinds
<1>4. \A at \in {"menu", "detail", "past", "prompt", "past_prompt", "ended", "deleted"},
        m \in Lists!Listable, kind \in Lists!Kinds \cup {"none"}, p0 \in 0 .. Cardinality(Lists!Listable) :
        Good(Lists!About(at, m, kind, p0))
    <2> SUFFICES ASSUME NEW at \in {"menu", "detail", "past", "prompt", "past_prompt", "ended", "deleted"},
                        NEW m \in Lists!Listable, NEW kind \in Lists!Kinds \cup {"none"}, NEW p0 \in 0 .. Cardinality(Lists!Listable)
                 PROVE  Good(Lists!About(at, m, kind, p0))
        OBVIOUS
    <2>1. Lists!About(at, m, kind, p0) = [at |-> at, kind |-> kind, page |-> p0, pages |-> 0, meeting |-> m, rows |-> {m}]
        BY DEF Lists!About
    <2> QED
        BY <1>0, <2>1, SameFinite, SameCardinality DEF Good, Lists!View
<1>5. ASSUME NEW at \in {"list", "all_prompt"}, NEW kind \in Lists!Kinds, NEW p0 \in Int, Lists!Listed(kind) # <<>>
      PROVE  Good(Lists!Paged(at, kind, Lists!Listed(kind), Lists!Clamp(p0, Len(Lists!Listed(kind)))))
    <2> DEFINE list == Lists!Listed(kind)
               n == Len(list)
               p == Lists!Clamp(p0, n)
    <2>1. /\ n \in Nat /\ n > 0 /\ p \in 1 .. Lists!PagesOf(n) /\ Lists!PagesOf(n) \in 0 .. Cardinality(Lists!Listable)
          /\ Lists!Slice(list, p) # {} /\ Lists!Slice(list, p) \subseteq Lists!Listable
        BY <1>0, <1>5, PageBuilt
    <2> HIDE DEF list, n, p
    <2>2. Lists!Paged(at, kind, list, p) =
            [at |-> at, kind |-> kind, page |-> p, pages |-> Lists!PagesOf(n), meeting |-> 0, rows |-> Lists!Slice(list, p)]
        BY <2>1 DEF Lists!Paged, n
    <2>3. p \in 0 .. Cardinality(Lists!Listable)
        <3>1. /\ Lists!PagesOf(n) \in Int /\ Lists!PagesOf(n) <= Cardinality(Lists!Listable) /\ p \in Int /\ p >= 1
              /\ p <= Lists!PagesOf(n)
            BY <2>1
        <3> QED
            BY <1>0, <3>1
    <2>4. Good(Lists!Paged(at, kind, list, p))
        BY <2>1, <2>2, <2>3, SameFinite, SameCardinality DEF Good, Lists!Blank, Lists!View
    <2> QED
        BY <2>4 DEF list, n, p
<1> QED
    BY <1>1, <1>2, <1>3, <1>4, <1>5 DEF Lists!Answered

\* A page that is drawn has rows; an empty list leaves the screen as it was.
LEMMA PageShown ==
    ASSUME Lists!ListsFit, ListsInv, NEW s \in Prompts, NEW at \in {"list", "all_prompt"}, NEW kind \in Lists!Kinds, NEW p0 \in Int,
           Lists!ShowPage(s, at, kind, p0)
    PROVE  \E v : Good(v) /\ Lists!Show(s, v)
<1>1. Lists!Listed(kind) # <<>> => Good(Lists!Paged(at, kind, Lists!Listed(kind), Lists!Clamp(p0, Len(Lists!Listed(kind)))))
    BY DrawnWell
<1>2. Good(screen[s])
    BY DEF ListsInv
<1> QED
    BY <1>1, <1>2 DEF Lists!ShowPage

\* What the person's taps draw, and what they change besides.
LEMMA Taps ==
    ASSUME Lists!ListsFit, ListsInv, NEW s \in Prompts, Lists!Tap(s)
    PROVE  /\ \E v : Good(v) /\ Lists!Draw(s, v)
           /\ state' \in [Lists!Listable -> {"active", "past", "gone"}]
           /\ UNCHANGED <<due, joined, listChanges>> /\ guests' \subseteq guests /\ orphans' \subseteq Own
<1>0. /\ screen[s] \in Lists!View /\ Good(screen[s]) /\ Good(Lists!Blank) /\ Own \subseteq Lists!Listable
      /\ screen[s].page \in Int /\ screen[s].page \in 0 .. Cardinality(Lists!Listable)
      /\ 0 \in 0 .. Cardinality(Lists!Listable)
    <2>1. Cardinality(Lists!Listable) \in Nat
        BY FS_CardinalityType, SameFinite, SameCardinality DEF Lists!ListsFit, Lists!Listable
    <2>2. screen[s] \in Lists!View /\ Good(screen[s]) /\ Good(Lists!Blank) /\ Own \subseteq Lists!Listable
        BY DrawnWell DEF ListsInv, Lists!TypeOK, Lists!Listable
    <2>3. screen[s].page \in 0 .. Cardinality(Lists!Listable)
        BY <2>2, SameFinite, SameCardinality DEF Lists!View
    <2> QED
        BY <2>1, <2>2, <2>3
<1>t. state \in [Lists!Listable -> {"active", "past", "gone"}] /\ guests \subseteq Own /\ orphans \subseteq Own
    BY DEF ListsInv, Lists!TypeOK
<1>a. \A at \in {"menu", "detail", "past", "prompt", "past_prompt", "ended", "deleted"},
         m \in Lists!Listable, kind \in Lists!Kinds \cup {"none"}, p0 \in 0 .. Cardinality(Lists!Listable) :
         Good(Lists!About(at, m, kind, p0)) /\ Good(Lists!Answered(at, m, kind, p0))
    BY DrawnWell
<1>l. \A m \in Lists!Listable, alsoJoined \in BOOLEAN : Lists!Live(m, alsoJoined) \in {"menu", "detail", "ended", "deleted"}
    BY DEF Lists!Live
<1>s. ASSUME NEW v, Good(v), Lists!Show(s, v)
      PROVE  /\ \E w : Good(w) /\ Lists!Draw(s, w)
             /\ state' \in [Lists!Listable -> {"active", "past", "gone"}]
             /\ UNCHANGED <<due, joined, listChanges>> /\ guests' \subseteq guests /\ orphans' \subseteq Own
    BY <1>s, <1>t DEF Lists!Show
<1>k. "past" \in Lists!Kinds /\ screen[s].kind \in Lists!Kinds \cup {"none"}
    BY <1>0 DEF Lists!Kinds, Lists!View
<1> DEFINE Goal == /\ \E w : Good(w) /\ Lists!Draw(s, w)
                   /\ state' \in [Lists!Listable -> {"active", "past", "gone"}]
                   /\ UNCHANGED <<due, joined, listChanges>> /\ guests' \subseteq guests /\ orphans' \subseteq Own
<1>g. ASSUME \E v : Good(v) /\ Lists!Show(s, v) PROVE Goal
    BY <1>g, <1>s
<1>1. CASE Lists!Chip(s)
    BY <1>1, <1>g, PageShown DEF Lists!Chip
<1>2. CASE Lists!Arrow(s)
    <2>1. PICK p0 \in {screen[s].page - 1, screen[s].page + 1} \cap 1 .. screen[s].pages :
            Lists!ShowPage(s, screen[s].at, screen[s].kind, p0)
        BY <1>2 DEF Lists!Arrow
    <2>2. p0 \in Int /\ screen[s].at \in {"list", "all_prompt"} /\ screen[s].kind \in Lists!Kinds
        BY <1>0, <1>2 DEF Lists!Arrow, Good
    <2> QED
        BY <1>g, <2>1, <2>2, PageShown
<1>3. CASE Lists!Back(s)
    <2>1. screen[s].kind \in Lists!Kinds
        BY <1>0, <1>3 DEF Lists!Back, Lists!View
    <2> QED
        BY <1>0, <1>3, <1>g, <2>1, PageShown DEF Lists!Back
<1>4. CASE Lists!MainMenu(s)
    BY <1>0, <1>4, <1>g DEF Lists!MainMenu
<1>5. CASE Lists!Open(s)
    <2>1. PICK m \in screen[s].rows :
            Lists!Show(s, IF screen[s].kind # "past" THEN Lists!Answered(Lists!Live(m, TRUE), m, screen[s].kind, screen[s].page)
                          ELSE IF Lists!Owned(m) THEN Lists!About("past", m, "past", screen[s].page) ELSE Lists!Blank)
        BY <1>5 DEF Lists!Open
    <2>2. m \in Lists!Listable
        BY <1>0 DEF Lists!View
    <2>3. Good(Lists!Answered(Lists!Live(m, TRUE), m, screen[s].kind, screen[s].page))
        BY <1>0, <1>a, <1>l, <1>k, <2>2
    <2>4. Good(Lists!About("past", m, "past", screen[s].page))
        BY <1>0, <1>a, <1>k, <2>2
    <2> QED
        BY <1>0, <1>g, <2>1, <2>3, <2>4
<1>6. CASE Lists!AskDelete(s)
    <2>1. PICK m \in screen[s].rows \cap Own :
            \/ Lists!Show(s, Lists!Blank)
            \/ Lists!Show(s, Lists!About("past_prompt", m, "past", screen[s].page))
            \/ Lists!Show(s, Lists!About("prompt", m, "none", 0))
        BY <1>6 DEF Lists!AskDelete
    <2>2. m \in Lists!Listable
        BY <1>0
    <2>3. Good(Lists!About("past_prompt", m, "past", screen[s].page)) /\ Good(Lists!About("prompt", m, "none", 0))
        BY <1>0, <1>a, <1>k, <2>2
    <2> QED
        BY <1>0, <1>g, <2>1, <2>3
<1>7. CASE Lists!Decline(s)
    <2>1. CASE /\ screen[s].at = "prompt"
               /\ Lists!Show(s, Lists!Answered(Lists!Live(screen[s].meeting, FALSE), screen[s].meeting, "none", 0))
        <3>1. screen[s].meeting \in Lists!Listable
            BY <1>0, <2>1 DEF Good
        <3>2. Good(Lists!Answered(Lists!Live(screen[s].meeting, FALSE), screen[s].meeting, "none", 0))
            BY <1>0, <1>a, <1>l, <3>1
        <3> QED
            BY <1>g, <2>1, <3>2
    <2>2. CASE /\ screen[s].at = "past_prompt"
               /\ Lists!Show(s, IF Lists!Owned(screen[s].meeting) THEN Lists!About("past", screen[s].meeting, "past", screen[s].page) ELSE Lists!Blank)
        <3>1. screen[s].meeting \in Lists!Listable
            BY <1>0, <2>2 DEF Good
        <3>2. Good(Lists!About("past", screen[s].meeting, "past", screen[s].page))
            BY <1>0, <1>a, <1>k, <3>1
        <3> QED
            BY <1>0, <1>g, <2>2, <3>2
    <2>3. CASE screen[s].at = "all_prompt" /\ Lists!ShowPage(s, "list", "past", screen[s].page)
        BY <1>0, <1>k, <1>g, <2>3, PageShown
    <2> QED
        BY <1>7, <2>1, <2>2, <2>3 DEF Lists!Decline
<1>8. CASE Lists!AskDeleteAll(s)
    BY <1>0, <1>k, <1>g, <1>8, PageShown DEF Lists!AskDeleteAll
<1>9. CASE Lists!ConfirmDelete(s)
    BY <1>0, <1>t, <1>9 DEF Lists!ConfirmDelete, Lists!Destroy
<1>10. CASE Lists!ConfirmDeletePast(s)
    BY <1>0, <1>t, <1>10 DEF Lists!ConfirmDeletePast, Lists!Destroy
<1>11. CASE Lists!ConfirmDeleteAll(s)
    BY <1>0, <1>t, <1>11 DEF Lists!ConfirmDeleteAll, Lists!Destroy
<1>12. CASE Lists!Reactivate(s)
    <2>1. screen[s].meeting \in Lists!Listable
        BY <1>0, <1>12 DEF Lists!Reactivate, Good
    <2>2. /\ Good(Lists!About("detail", screen[s].meeting, "none", 0))
          /\ Good([Lists!Blank EXCEPT !.at = "refused", !.kind = "past", !.page = 1])
        BY <1>0, <1>a, <2>1, DrawnWell
    <2>3. CASE \/ Lists!Show(s, Lists!Blank) \/ Lists!Show(s, Lists!About("detail", screen[s].meeting, "none", 0))
               \/ Lists!Show(s, [Lists!Blank EXCEPT !.at = "refused", !.kind = "past", !.page = 1])
        BY <1>0, <1>g, <2>2, <2>3
    <2>4. CASE /\ state' = [state EXCEPT ![screen[s].meeting] = "active"]
               /\ Lists!Draw(s, Lists!About("detail", screen[s].meeting, "none", 0))
               /\ UNCHANGED <<due, joined, guests, orphans, listChanges>>
        BY <1>t, <2>2, <2>4
    <2> QED
        BY <1>12, <2>3, <2>4 DEF Lists!Reactivate
<1>13. CASE Lists!Refresh(s)
    <2>1. screen[s].meeting \in Lists!Listable
        BY <1>0, <1>13 DEF Lists!Refresh, Good
    <2>2. Good(Lists!Answered(Lists!Live(screen[s].meeting, TRUE), screen[s].meeting, "none", 0))
        BY <1>0, <1>a, <1>l, <2>1
    <2> QED
        BY <1>13, <1>g, <2>2 DEF Lists!Refresh
<1> QED
    BY <1>1, <1>2, <1>3, <1>4, <1>5, <1>6, <1>7, <1>8, <1>9, <1>10, <1>11, <1>12, <1>13 DEF Lists!Tap

\* Every screen a tap draws is a good one, operation by operation.
LEMMA ListsStep == ASSUME Lists!ListsFit, ListsInv, [Lists!Next]_Lists!vars PROVE ListsInv'
<1>0. Lists!TypeOK /\ Own \subseteq Lists!Listable
    BY DEF ListsInv, Lists!Listable
<1>1. ASSUME NEW s \in Prompts, Lists!Tap(s) PROVE ListsInv'
    <2>1. PICK v : Good(v) /\ screen' = [screen EXCEPT ![s] = v]
        BY <1>1, Taps DEF Lists!Draw
    <2>2. v \in Lists!View
        BY <2>1 DEF Good
    <2>3. screen' \in [Prompts -> Lists!View] /\ \A t \in Prompts : screen'[t] = v \/ screen'[t] = screen[t]
        BY <1>0, <2>1, <2>2 DEF Lists!TypeOK
    <2>4. \A t \in Prompts : Good(screen'[t])
        BY <2>1, <2>3 DEF ListsInv
    <2>5. Lists!TypeOK'
        BY <1>0, <1>1, <2>3, Taps DEF Lists!TypeOK
    <2> QED
        BY <2>4, <2>5 DEF ListsInv, Good
<1>2. ASSUME NEW m \in Lists!Listable, Lists!End(m) \/ Lists!Sweep(m) \/ Lists!Invite(m) \/ Lists!Leave(m)
      PROVE  ListsInv'
    <2>1. screen' = screen
        BY <1>2 DEF Lists!End, Lists!Sweep, Lists!Invite, Lists!Leave
    <2>2. listChanges' \in 0 .. MaxListChanges
        BY <1>0, <1>2 DEF Lists!End, Lists!Sweep, Lists!Invite, Lists!Leave, Lists!Elsewhere, Lists!TypeOK,
            Lists!ListsFit
    <2>3. Lists!TypeOK'
        BY <1>0, <1>2, <2>1, <2>2 DEF Lists!End, Lists!Sweep, Lists!Invite, Lists!Leave, Lists!Destroy, Lists!TypeOK
    <2> QED
        BY <2>1, <2>3 DEF ListsInv, Good
<1>3. CASE UNCHANGED Lists!vars
    BY <1>0, <1>3 DEF Lists!vars, ListsInv, Lists!TypeOK, Good
<1> QED
    BY <1>1, <1>2, <1>3 DEF Lists!Next

\* An active meeting goes by the confirmation that names it.
LEMMA ListsByName == ASSUME Lists!ListsFit, ListsInv, [Lists!Next]_Lists!vars PROVE Lists!ActiveGoByName
<1>0. state \in [Lists!Listable -> {"active", "past", "gone"}] /\ Own \subseteq Lists!Listable
    BY DEF ListsInv, Lists!TypeOK, Lists!Listable
<1> SUFFICES ASSUME NEW m \in Own, state[m] = "active", state'[m] = "gone"
             PROVE  \E s \in Prompts : screen[s].meeting = m /\ screen[s].at \in {"prompt", "past_prompt"}
    BY DEF Lists!ActiveGoByName
<1>1. ASSUME NEW s \in Prompts, Lists!Tap(s) PROVE screen[s].meeting = m /\ screen[s].at \in {"prompt", "past_prompt"}
    <2>1. state' # state
        OBVIOUS
    <2>2. ~Lists!ConfirmDeleteAll(s)
        BY <1>0 DEF Lists!ConfirmDeleteAll, Lists!Destroy, Lists!Purged, Lists!Of
    <2>3. ~Lists!Reactivate(s)
        BY <1>0, <2>1 DEF Lists!Reactivate, Lists!Show
    <2>4. Lists!ConfirmDelete(s) => screen[s].meeting = m /\ screen[s].at = "prompt"
        BY <1>0 DEF Lists!ConfirmDelete, Lists!Destroy
    <2>5. Lists!ConfirmDeletePast(s) => screen[s].meeting = m /\ screen[s].at = "past_prompt"
        BY <1>0 DEF Lists!ConfirmDeletePast, Lists!Destroy
    <2> QED
        BY <1>1, <2>1, <2>2, <2>3, <2>4, <2>5
           DEF Lists!Tap, Lists!Chip, Lists!Arrow, Lists!Back, Lists!MainMenu, Lists!Open, Lists!AskDelete, Lists!Decline, Lists!AskDeleteAll, Lists!Refresh, Lists!ShowPage, Lists!Show
<1>2. ASSUME NEW n \in Lists!Listable, Lists!End(n) \/ Lists!Sweep(n) \/ Lists!Invite(n) \/ Lists!Leave(n) PROVE FALSE
    BY <1>0, <1>2 DEF Lists!End, Lists!Sweep, Lists!Invite, Lists!Leave, Lists!Destroy
<1>3. CASE UNCHANGED Lists!vars
    BY <1>3 DEF Lists!vars
<1> QED
    BY <1>1, <1>2, <1>3 DEF Lists!Next

LEMMA ListsPaged == ASSUME Lists!ListsFit, ListsInv PROVE Lists!PagesExist
BY PagesHold DEF ListsInv, Good, Lists!PagesExist, ListsTyped, Lists!TypeOK

--------------------------------------------------------------------------------
(* The shared cards *)

\* A stored card is one Telegram posted, of its meeting, and in its chat or not yet known where; only a
\* tap knows the chat at once.
StoredAsPosted ==
    \A r \in cardRows : /\ r.card \in Shared!Posted /\ r.meeting = card[r.card].meeting
                        /\ r.chat \in {card[r.card].chat, "unknown"}
                        /\ r.by = "tap" => r.chat # "unknown"

\* What was made searchable is stored with its chat unless it is known to be gone, and nothing else is.
StoredAsEnabled ==
    /\ enabled \subseteq Shared!Posted
    /\ \A c \in enabled \ removed :
         card[c].meeting \in known => \E r \in cardRows : r.card = c /\ r.chat = card[c].chat
    /\ \A r \in cardRows : r.chat # "unknown" => r.card \in enabled

\* A card whose posting has been handled is stored while its meeting goes on, and so is one that the
\* handling of its posting found stored.
StoredAsHandled ==
    /\ chosen \subseteq Shared!Posted
    /\ \A u \in Shared!Updates, c \in Postings : writer[<<u, c>>].open => c \in Shared!Posted
    /\ \A c \in Shared!Posted \ (removed \cup expired) :
         card[c].meeting \in known /\ (c \notin chosen \/ writer[<<"chosen", c>>] = [open |-> TRUE, found |-> TRUE])
            => Shared!Tracked(c)

CardsInv == Shared!TypeOK /\ active \subseteq known /\ StoredAsPosted /\ StoredAsEnabled /\ StoredAsHandled

LEMMA CardsInit == ASSUME Shared!CardsFit PROVE Shared!Init => CardsInv
<1> SUFFICES ASSUME Shared!Init PROVE CardsInv
    OBVIOUS
<1>1. Shared!TypeOK
    BY DEF Shared!Init, Shared!TypeOK, Shared!CardsFit, Shared!Idle, Shared!Updates
<1>2. Shared!Posted = {} /\ \A u \in Shared!Updates, c \in Postings : writer[<<u, c>>].open = FALSE
    BY DEF Shared!Init, Shared!Posted, Shared!Idle
<1> QED
    BY <1>1, <1>2 DEF Shared!Init, CardsInv, StoredAsPosted, StoredAsEnabled, StoredAsHandled

\* A posted card has a meeting and a chat.
LEMMA PostedCards ==
    ASSUME Shared!CardsFit, Shared!TypeOK, NEW c \in Postings
    PROVE  /\ c \in Shared!Posted => card[c] \in [meeting : Announced, chat : Rooms]
           /\ c \in Shared!Posted => card[c].meeting \in Announced /\ card[c].chat \in Rooms /\ card[c].chat # "unknown"
           /\ c \in Shared!Posted <=> card[c] # Shared!NoCard
           /\ Shared!NoCard \notin [meeting : Announced, chat : Rooms]
<1>1. Shared!NoCard \notin [meeting : Announced, chat : Rooms]
    BY DEF Shared!CardsFit, Shared!NoCard
<1>2. c \in Shared!Posted => card[c] \in [meeting : Announced, chat : Rooms]
    BY DEF Shared!TypeOK, Shared!Posted
<1> QED
    BY <1>1, <1>2 DEF Shared!Posted, Shared!CardsFit

\* Types.
LEMMA CardsTyped == ASSUME Shared!CardsFit, CardsInv, [Shared!Next]_Shared!vars PROVE Shared!TypeOK'
<1> USE DEF Shared!TypeOK
<1>0. Shared!TypeOK /\ \A c \in Postings : c \in Shared!Posted => card[c].meeting \in Announced /\ card[c].chat \in Rooms
    BY PostedCards DEF CardsInv
<1>i. Shared!Idle \in [open : BOOLEAN, found : BOOLEAN]
    BY DEF Shared!Idle
<1>1. CASE Shared!Share
    <2>1. PICK c \in Postings, m \in Announced, chat \in Rooms : 
            card' = [card EXCEPT ![c] = [meeting |-> m, chat |-> chat]] /\ chosen' = chosen \cup {c}
        <3>1. ASSUME NEW byOwner, NEW chat PROVE Shared!Offered(byOwner, chat) \subseteq Announced
            BY <1>0 DEF Shared!Offered, Shared!Found
        <3>2. PICK c \in Postings, byOwner \in BOOLEAN, chat \in Rooms :
                /\ \E m \in Shared!Offered(byOwner, chat) : card' = [card EXCEPT ![c] = [meeting |-> m, chat |-> chat]]
                /\ chosen' = chosen \cup {c}
            BY <1>1 DEF Shared!Share
        <3>3. PICK m \in Shared!Offered(byOwner, chat) : card' = [card EXCEPT ![c] = [meeting |-> m, chat |-> chat]]
            BY <3>2
        <3>4. m \in Announced
            BY <3>1, <3>3
        <3> QED
            BY <3>2, <3>3, <3>4
    <2>2. card' \in [Postings -> [meeting : Announced, chat : Rooms] \cup {Shared!NoCard}]
        BY <1>0, <2>1
    <2> QED
        BY <1>0, <1>1, <2>1, <2>2 DEF Shared!Share
<1>2. ASSUME NEW c \in Postings, Shared!Redeliver(c) PROVE Shared!TypeOK'
    BY <1>0, <1>2 DEF Shared!Redeliver, Shared!CardsFit
<1>3. ASSUME NEW c \in Postings, NEW u \in Shared!Updates, NEW w \in [open : BOOLEAN, found : BOOLEAN],
             writer' = [writer EXCEPT ![<<u, c>>] = w]
      PROVE  writer' \in [Shared!Updates \X Postings -> [open : BOOLEAN, found : BOOLEAN]]
    BY <1>0, <1>3
<1>4. ASSUME NEW c \in Postings PROVE [open |-> TRUE, found |-> Shared!Tracked(c)] \in [open : BOOLEAN, found : BOOLEAN]
    <2>1. Shared!Tracked(c) \in BOOLEAN
        BY DEF Shared!Tracked
    <2> QED
        BY <2>1, Zenon
<1>5. ASSUME NEW c \in Postings, Shared!Choose(c) PROVE Shared!TypeOK'
    <2>1. writer' \in [Shared!Updates \X Postings -> [open : BOOLEAN, found : BOOLEAN]]
        BY <1>0, <1>3, <1>4, <1>5 DEF Shared!Choose, Shared!Updates
    <2> QED
        BY <1>0, <1>5, <2>1 DEF Shared!Choose
<1>6. ASSUME NEW c \in Postings, Shared!ChooseCommit(c) PROVE Shared!TypeOK'
    <2>1. writer' \in [Shared!Updates \X Postings -> [open : BOOLEAN, found : BOOLEAN]]
        BY <1>0, <1>i, <1>3, <1>6 DEF Shared!ChooseCommit, Shared!Close, Shared!Updates
    <2>2. cardRows' \subseteq [by : Shared!Updates, card : Postings, meeting : Announced, chat : Rooms \cup {"unknown"}]
        BY <1>0, <1>6 DEF Shared!ChooseCommit, CardsInv, StoredAsHandled, Shared!Row, Shared!Updates
    <2> QED
        BY <1>0, <1>6, <2>1, <2>2 DEF Shared!ChooseCommit
<1>7. ASSUME NEW c \in Postings, Shared!Tap(c) PROVE Shared!TypeOK'
    <2>1. writer' \in [Shared!Updates \X Postings -> [open : BOOLEAN, found : BOOLEAN]]
        BY <1>0, <1>3, <1>4, <1>7 DEF Shared!Tap, Shared!Updates
    <2> QED
        BY <1>0, <1>7, <2>1 DEF Shared!Tap
<1>8. ASSUME NEW c \in Postings, Shared!TapCommit(c) PROVE Shared!TypeOK'
    <2>1. writer' \in [Shared!Updates \X Postings -> [open : BOOLEAN, found : BOOLEAN]]
        BY <1>0, <1>i, <1>3, <1>8 DEF Shared!TapCommit, Shared!Close, Shared!Updates
    <2>2. c \in Shared!Posted
        BY <1>8 DEF Shared!TapCommit, CardsInv, StoredAsHandled, Shared!Updates
    <2>3. ASSUME NEW r \in cardRows
          PROVE  Shared!Capture(r, c) \in [by : Shared!Updates, card : Postings, meeting : Announced, chat : Rooms \cup {"unknown"}]
        <3>1. /\ r \in [by : Shared!Updates, card : Postings, meeting : Announced, chat : Rooms \cup {"unknown"}]
              /\ card[c].chat \in Rooms
            BY <1>0, <2>2
        <3>2. [r EXCEPT !.chat = card[c].chat] \in [by : Shared!Updates, card : Postings, meeting : Announced, chat : Rooms \cup {"unknown"}]
            BY <3>1
        <3> QED
            BY <3>1, <3>2 DEF Shared!Capture
    <2>4. Shared!First(c) \subseteq cardRows
        BY DEF Shared!First
    <2>5. cardRows' \subseteq [by : Shared!Updates, card : Postings, meeting : Announced, chat : Rooms \cup {"unknown"}]
        BY <1>0, <1>8, <2>2, <2>3, <2>4 DEF Shared!TapCommit, Shared!Row, Shared!Updates
    <2> QED
        BY <1>0, <1>8, <2>1, <2>5 DEF Shared!TapCommit
<1>9. ASSUME NEW c \in Postings, Shared!Remove(c) PROVE Shared!TypeOK'
    BY <1>0, <1>9 DEF Shared!Remove
<1>10. CASE Shared!DropDead
    BY <1>0, <1>10 DEF Shared!DropDead
<1>11. ASSUME NEW m \in Announced, Shared!End(m) \/ Shared!Reactivate(m) \/ Shared!Delete(m) PROVE Shared!TypeOK'
    BY <1>0, <1>11 DEF Shared!End, Shared!Reactivate, Shared!Delete, Shared!Of, Shared!Posted
<1>12. CASE UNCHANGED Shared!vars
    BY <1>0, <1>12 DEF Shared!vars
<1> QED
    BY <1>1, <1>2, <1>5, <1>6, <1>7, <1>8, <1>9, <1>10, <1>11, <1>12 DEF Shared!Next

\* What a commit of a tap leaves behind: the rows of other cards, and those of this one with the chat.
LEMMA TapStores ==
    ASSUME Shared!CardsFit, CardsInv, NEW c \in Postings, Shared!TapCommit(c)
    PROVE  /\ \A r \in cardRows' : r \in cardRows \/ (r.card = c /\ r.meeting = card[c].meeting /\ r.chat = card[c].chat)
           /\ \A r \in cardRows : \E s \in cardRows' : s.card = r.card /\ s.chat \in {r.chat, card[c].chat} /\ (r.chat # "unknown" => s = r)
           /\ enabled' = enabled \/ (enabled' = enabled \cup {c} /\ \E s \in cardRows' : s.card = c /\ s.chat = card[c].chat)
           /\ \A s \in cardRows' : s \in cardRows \/ c \in enabled'
           /\ c \in Shared!Posted
<1>0. c \in Shared!Posted
    BY DEF Shared!TapCommit, CardsInv, StoredAsHandled, Shared!Updates
<1>1. card[c].meeting \in Announced /\ card[c].chat \in Rooms /\ card[c].chat # "unknown"
    BY <1>0, PostedCards DEF CardsInv
<1>2. CASE UNCHANGED <<cardRows, enabled>>
    BY <1>0, <1>1, <1>2
<1>3. CASE /\ cardRows' = cardRows \cup {Shared!Row("tap", c, card[c].chat)} /\ enabled' = enabled \cup {c}
    <2>1. Shared!Row("tap", c, card[c].chat).card = c /\ Shared!Row("tap", c, card[c].chat).meeting = card[c].meeting
          /\ Shared!Row("tap", c, card[c].chat).chat = card[c].chat
        BY DEF Shared!Row
    <2> QED
        BY <1>0, <1>1, <1>3, <2>1
<1>4. CASE /\ writer[<<"tap", c>>].found /\ Shared!Tracked(c)
           /\ cardRows' = (cardRows \ Shared!First(c)) \cup {Shared!Capture(r, c) : r \in Shared!First(c)}
           /\ enabled' = enabled \cup {c}
    <2>1. Shared!First(c) \subseteq {r \in cardRows : r.card = c}
        BY DEF Shared!First
    <2>2. ASSUME NEW r \in cardRows, r.card = c
          PROVE  /\ Shared!Capture(r, c).card = c /\ Shared!Capture(r, c).meeting = card[c].meeting
                 /\ Shared!Capture(r, c).chat = card[c].chat
                 /\ r.chat # "unknown" => Shared!Capture(r, c) = r
        <3>1. /\ r \in [by : Shared!Updates, card : Postings, meeting : Announced, chat : Rooms \cup {"unknown"}]
              /\ r.meeting = card[c].meeting /\ r.chat \in {card[c].chat, "unknown"}
            BY <2>2 DEF CardsInv, Shared!TypeOK, StoredAsPosted
        <3> QED
            BY <2>2, <3>1 DEF Shared!Capture
    <2>3. \A s \in cardRows' : s \in cardRows \/ \E r \in Shared!First(c) : s = Shared!Capture(r, c)
        BY <1>4
    <2>4. \A r \in cardRows : r \in cardRows' \/ (r \in Shared!First(c) /\ Shared!Capture(r, c) \in cardRows')
        BY <1>4
    <2>5. \E s \in cardRows' : s.card = c /\ s.chat = card[c].chat
        <3>1. CASE \E r \in cardRows : r.card = c /\ r.chat # "unknown"
            <4>1. PICK r \in cardRows : r.card = c /\ r.chat # "unknown"
                BY <3>1
            <4>2. r \in cardRows' /\ r.chat = card[c].chat
                BY <2>2, <2>4, <4>1
            <4> QED
                BY <4>1, <4>2
        <3>2. CASE \A r \in cardRows : r.card = c => r.chat = "unknown"
            <4>1. \A r \in cardRows : r.card = c => r.by = "chosen"
                BY <3>2 DEF CardsInv, StoredAsPosted, Shared!TypeOK, Shared!Updates
            <4>2. Shared!First(c) = {r \in cardRows : r.card = c}
                BY <4>1 DEF Shared!First
            <4>3. PICK r \in cardRows : r.card = c
                BY <1>4 DEF Shared!Tracked
            <4>4. Shared!Capture(r, c) \in cardRows'
                BY <1>4, <4>2, <4>3
            <4> QED
                BY <2>2, <4>3, <4>4
        <3> QED
            BY <3>1, <3>2
    <2>6. \A r \in cardRows' : r \in cardRows \/ (r.card = c /\ r.meeting = card[c].meeting /\ r.chat = card[c].chat)
        BY <2>1, <2>2, <2>3
    <2>7. ASSUME NEW r \in cardRows
          PROVE  \E s \in cardRows' : s.card = r.card /\ s.chat \in {r.chat, card[c].chat} /\ (r.chat # "unknown" => s = r)
        BY <2>1, <2>2, <2>4
    <2> QED
        BY <1>0, <1>4, <2>5, <2>6, <2>7
<1> QED
    BY <1>2, <1>3, <1>4 DEF Shared!TapCommit

\* A step that posts no card, drops no row but those of removed cards or of the meeting that ends, and
\* stores none keeps the rows as they were posted, enabled and handled.
LEMMA CardsStoredAsPosted == ASSUME Shared!CardsFit, CardsInv, [Shared!Next]_Shared!vars PROVE StoredAsPosted'
<1>0. StoredAsPosted /\ Shared!TypeOK
    BY DEF CardsInv
<1>1. CASE Shared!Share
    <2>1. PICK c \in Postings : card[c] = Shared!NoCard /\ \E v : card' = [card EXCEPT ![c] = v]
        BY <1>1 DEF Shared!Share
    <2>2. \A d \in Shared!Posted : card'[d] = card[d] /\ d \in Shared!Posted'
        BY <1>0, <2>1 DEF Shared!Posted, Shared!TypeOK
    <2>3. cardRows' = cardRows
        BY <1>1 DEF Shared!Share
    <2> QED
        BY <1>0, <2>2, <2>3 DEF StoredAsPosted
<1>2. ASSUME NEW c \in Postings, Shared!ChooseCommit(c) PROVE StoredAsPosted'
    <2>1. c \in Shared!Posted
        BY <1>2 DEF Shared!ChooseCommit, CardsInv, StoredAsHandled, Shared!Updates
    <2>2. /\ card' = card /\ Shared!Posted' = Shared!Posted
          /\ cardRows' \subseteq cardRows \cup {Shared!Row("chosen", c, "unknown")}
        BY <1>2 DEF Shared!ChooseCommit, Shared!Posted
    <2> QED
        BY <1>0, <2>1, <2>2 DEF StoredAsPosted, Shared!Row
<1>3. ASSUME NEW c \in Postings, Shared!TapCommit(c) PROVE StoredAsPosted'
    <2>1. card' = card /\ Shared!Posted' = Shared!Posted
        BY <1>3 DEF Shared!TapCommit, Shared!Posted
    <2>2. /\ \A r \in cardRows' : r \in cardRows \/ (r.card = c /\ r.meeting = card[c].meeting /\ r.chat = card[c].chat)
          /\ c \in Shared!Posted
        BY <1>3, TapStores
    <2>3. card[c].chat # "unknown"
        BY <1>0, <2>2, PostedCards
    <2> QED
        BY <1>0, <2>1, <2>2, <2>3 DEF StoredAsPosted
<1>4. ASSUME cardRows' \subseteq cardRows, card' = card PROVE StoredAsPosted'
    BY <1>0, <1>4 DEF StoredAsPosted, Shared!Posted
<1>5. CASE Shared!DropDead
    BY <1>4, <1>5 DEF Shared!DropDead
<1>6. ASSUME NEW m \in Announced, Shared!End(m) \/ Shared!Delete(m) \/ Shared!Reactivate(m) PROVE StoredAsPosted'
    BY <1>4, <1>6 DEF Shared!End, Shared!Delete, Shared!Reactivate
<1>7. ASSUME NEW c \in Postings, Shared!Redeliver(c) \/ Shared!Choose(c) \/ Shared!Tap(c) \/ Shared!Remove(c)
      PROVE  StoredAsPosted'
    BY <1>4, <1>7 DEF Shared!Redeliver, Shared!Choose, Shared!Tap, Shared!Remove
<1>8. CASE UNCHANGED Shared!vars
    BY <1>4, <1>8 DEF Shared!vars
<1> QED
    BY <1>1, <1>2, <1>3, <1>5, <1>6, <1>7, <1>8 DEF Shared!Next

\* What is searchable stays stored over every operation: rows go with their meeting or their card.
LEMMA CardsStoredAsEnabled == ASSUME Shared!CardsFit, CardsInv, [Shared!Next]_Shared!vars PROVE StoredAsEnabled'
<1>0. StoredAsPosted /\ StoredAsEnabled /\ Shared!TypeOK
    BY DEF CardsInv
<1>1. CASE Shared!Share
    <2>1. PICK c \in Postings : card[c] = Shared!NoCard /\ \E v : card' = [card EXCEPT ![c] = v]
        BY <1>1 DEF Shared!Share
    <2>2. \A d \in Shared!Posted : card'[d] = card[d] /\ d \in Shared!Posted'
        BY <1>0, <2>1 DEF Shared!Posted, Shared!TypeOK
    <2>3. UNCHANGED <<cardRows, enabled, removed, known>>
        BY <1>1 DEF Shared!Share
    <2> QED
        BY <1>0, <2>2, <2>3 DEF StoredAsEnabled
<1>2. ASSUME NEW c \in Postings, Shared!ChooseCommit(c) PROVE StoredAsEnabled'
    <2>1. UNCHANGED <<card, enabled, removed, known>> /\ Shared!Posted' = Shared!Posted
        BY <1>2 DEF Shared!ChooseCommit, Shared!Posted
    <2>2. cardRows \subseteq cardRows' /\ cardRows' \subseteq cardRows \cup {Shared!Row("chosen", c, "unknown")}
        BY <1>2 DEF Shared!ChooseCommit
    <2> QED
        BY <1>0, <2>1, <2>2 DEF StoredAsEnabled, Shared!Row
<1>3. ASSUME NEW c \in Postings, Shared!TapCommit(c) PROVE StoredAsEnabled'
    <2>1. UNCHANGED <<card, removed, known>> /\ Shared!Posted' = Shared!Posted
        BY <1>3 DEF Shared!TapCommit, Shared!Posted
    <2>2. /\ \A r \in cardRows : \E s \in cardRows' : s.card = r.card /\ s.chat \in {r.chat, card[c].chat} /\ (r.chat # "unknown" => s = r)
          /\ enabled' = enabled \/ (enabled' = enabled \cup {c} /\ \E s \in cardRows' : s.card = c /\ s.chat = card[c].chat)
          /\ \A r \in cardRows' : r \in cardRows \/ (r.card = c /\ r.meeting = card[c].meeting /\ r.chat = card[c].chat)
          /\ \A s \in cardRows' : s \in cardRows \/ c \in enabled'
          /\ c \in Shared!Posted
        BY <1>3, TapStores
    <2>3. enabled' \subseteq Shared!Posted'
        BY <1>0, <2>1, <2>2 DEF StoredAsEnabled
    <2>4. ASSUME NEW d \in enabled' \ removed', card'[d].meeting \in known'
          PROVE  \E r \in cardRows' : r.card = d /\ r.chat = card'[d].chat
        <3>1. CASE d \in enabled
            <4>1. PICK r \in cardRows : r.card = d /\ r.chat = card[d].chat
                BY <1>0, <2>1, <2>4, <3>1 DEF StoredAsEnabled
            <4>2. card[d].chat # "unknown"
                BY <1>0, <3>1, PostedCards DEF StoredAsEnabled, Shared!Posted
            <4>3. r \in cardRows'
                BY <2>2, <4>1, <4>2
            <4> QED
                BY <2>1, <4>1, <4>3
        <3>2. CASE d \notin enabled
            <4>1. d = c /\ \E s \in cardRows' : s.card = c /\ s.chat = card[c].chat
                BY <2>2, <2>4, <3>2
            <4> QED
                BY <2>1, <4>1
        <3> QED
            BY <3>1, <3>2
    <2>5. \A r \in cardRows' : r.chat # "unknown" => r.card \in enabled'
        BY <1>0, <2>2 DEF StoredAsEnabled
    <2> QED
        BY <2>3, <2>4, <2>5 DEF StoredAsEnabled
<1>4. CASE Shared!DropDead
    <2>1. UNCHANGED <<card, enabled, removed, known>> /\ Shared!Posted' = Shared!Posted
        BY <1>4 DEF Shared!DropDead, Shared!Posted
    <2>2. PICK d \in cardRows : d.card \in removed /\ cardRows' = cardRows \ {d}
        BY <1>4 DEF Shared!DropDead
    <2> QED
        BY <1>0, <2>1, <2>2 DEF StoredAsEnabled
<1>5. ASSUME NEW m \in Announced, Shared!End(m) PROVE StoredAsEnabled'
    <2>1. /\ UNCHANGED <<card, removed, known>> /\ Shared!Posted' = Shared!Posted
          /\ cardRows' = cardRows \ Shared!RowsOf(m) /\ enabled' = enabled \ Shared!Of(m)
        BY <1>5 DEF Shared!End, Shared!Posted
    <2>2. \A r \in cardRows : r.card \in Shared!Of(m) <=> r \in Shared!RowsOf(m)
        BY <1>0 DEF StoredAsPosted, Shared!Of, Shared!RowsOf
    <2>3. \A r \in cardRows' : r.chat # "unknown" => r.card \in enabled'
        BY <1>0, <2>1, <2>2 DEF StoredAsEnabled
    <2>4. ASSUME NEW d \in enabled' \ removed', card'[d].meeting \in known'
          PROVE  \E r \in cardRows' : r.card = d /\ r.chat = card'[d].chat
        <3>1. PICK r \in cardRows : r.card = d /\ r.chat = card[d].chat
            BY <1>0, <2>1, <2>4 DEF StoredAsEnabled
        <3>2. d \notin Shared!Of(m)
            BY <2>1, <2>4
        <3> QED
            BY <2>1, <2>2, <3>1, <3>2
    <2> QED
        BY <1>0, <2>1, <2>3, <2>4 DEF StoredAsEnabled
<1>6. ASSUME NEW m \in Announced, Shared!Delete(m) PROVE StoredAsEnabled'
    <2>1. /\ UNCHANGED <<card, removed, enabled>> /\ Shared!Posted' = Shared!Posted
          /\ cardRows' = cardRows \ Shared!RowsOf(m)
          /\ known' = known \ {m}
        BY <1>6 DEF Shared!Delete, Shared!Posted
    <2>2. ASSUME NEW d \in enabled' \ removed', card'[d].meeting \in known'
          PROVE  \E r \in cardRows' : r.card = d /\ r.chat = card'[d].chat
        <3>1. PICK r \in cardRows : r.card = d /\ r.chat = card[d].chat
            BY <1>0, <2>1, <2>2 DEF StoredAsEnabled
        <3>2. r.meeting = card[d].meeting /\ card[d].meeting # m
            BY <1>0, <2>1, <2>2, <3>1 DEF StoredAsPosted
        <3> QED
            BY <2>1, <3>1, <3>2 DEF Shared!RowsOf
    <2> QED
        BY <1>0, <2>1, <2>2 DEF StoredAsEnabled
<1>7. ASSUME UNCHANGED <<cardRows, card, enabled, known>>, removed \subseteq removed' PROVE StoredAsEnabled'
    BY <1>0, <1>7 DEF StoredAsEnabled, Shared!Posted
<1>8. ASSUME NEW m \in Announced, Shared!Reactivate(m) PROVE StoredAsEnabled'
    BY <1>7, <1>8 DEF Shared!Reactivate
<1>9. ASSUME NEW c \in Postings, Shared!Redeliver(c) \/ Shared!Choose(c) \/ Shared!Tap(c) \/ Shared!Remove(c)
      PROVE  StoredAsEnabled'
    BY <1>7, <1>9 DEF Shared!Redeliver, Shared!Choose, Shared!Tap, Shared!Remove
<1>10. CASE UNCHANGED Shared!vars
    BY <1>7, <1>10 DEF Shared!vars
<1> QED
    BY <1>1, <1>2, <1>3, <1>4, <1>5, <1>6, <1>8, <1>9, <1>10 DEF Shared!Next

\* A posting under way that found its card stored.
FoundStored(c) == writer[<<"chosen", c>>] = [open |-> TRUE, found |-> TRUE]

\* A handled posting stays stored over every operation, also between the read and the commit of a handler.
LEMMA CardsStoredAsHandled == ASSUME Shared!CardsFit, CardsInv, [Shared!Next]_Shared!vars PROVE StoredAsHandled'
<1>0. StoredAsPosted /\ StoredAsHandled /\ Shared!TypeOK
    BY DEF CardsInv
<1>1. \A c \in Shared!Posted \ (removed \cup expired) :
        card[c].meeting \in known /\ (c \notin chosen \/ FoundStored(c)) => \E r \in cardRows : r.card = c
    BY <1>0 DEF StoredAsHandled, Shared!Tracked, FoundStored
<1>2. ASSUME /\ chosen' \subseteq Shared!Posted'
             /\ \A u \in Shared!Updates, c \in Postings : writer'[<<u, c>>].open => c \in Shared!Posted'
             /\ \A c \in Shared!Posted' \ (removed' \cup expired') :
                  card'[c].meeting \in known' /\ (c \notin chosen' \/ FoundStored(c)') => \E r \in cardRows' : r.card = c
      PROVE  StoredAsHandled'
    BY <1>2 DEF StoredAsHandled, Shared!Tracked, FoundStored
<1>h. chosen \subseteq Shared!Posted /\ \A u \in Shared!Updates, c \in Postings : writer[<<u, c>>].open => c \in Shared!Posted
    BY <1>0 DEF StoredAsHandled
<1>3. ASSUME Shared!Share PROVE StoredAsHandled'
    <2>1. PICK c \in Postings : card[c] = Shared!NoCard /\ (\E v \in Announced \X Rooms : card' = [card EXCEPT ![c] = [meeting |-> v[1], chat |-> v[2]]])
                                /\ chosen' = chosen \cup {c}
        <3>1. PICK c \in Postings, byOwner \in BOOLEAN, chat \in Rooms :
                /\ card[c] = Shared!NoCard
                /\ \E m \in Shared!Offered(byOwner, chat) : card' = [card EXCEPT ![c] = [meeting |-> m, chat |-> chat]]
                /\ chosen' = chosen \cup {c}
            BY <1>3 DEF Shared!Share
        <3>2. Shared!Offered(byOwner, chat) \subseteq Announced
            BY <1>0 DEF Shared!Offered, Shared!Found, Shared!TypeOK
        <3>3. PICK m \in Announced : card' = [card EXCEPT ![c] = [meeting |-> m, chat |-> chat]]
            BY <3>1, <3>2
        <3>4. <<m, chat>> \in Announced \X Rooms /\ <<m, chat>>[1] = m /\ <<m, chat>>[2] = chat
            OBVIOUS
        <3> QED
            BY <3>1, <3>3, <3>4
    <2>2. \A d \in Shared!Posted : card'[d] = card[d] /\ d \in Shared!Posted'
        BY <1>0, <2>1 DEF Shared!Posted, Shared!TypeOK
    <2>3. c \in Shared!Posted' /\ Shared!Posted' \subseteq Shared!Posted \cup {c}
        <3>1. PICK v \in Announced \X Rooms : card' = [card EXCEPT ![c] = [meeting |-> v[1], chat |-> v[2]]]
            BY <2>1
        <3>2. [meeting |-> v[1], chat |-> v[2]] \in [meeting : Announced, chat : Rooms]
            OBVIOUS
        <3>3. card'[c] # Shared!NoCard
            BY <1>0, <3>1, <3>2, PostedCards DEF Shared!TypeOK
        <3> QED
            BY <1>0, <3>1, <3>3 DEF Shared!Posted, Shared!TypeOK
    <2>4. UNCHANGED <<cardRows, writer, removed, expired, known>>
        BY <1>3 DEF Shared!Share
    <2>5. c \notin Shared!Posted
        BY <2>1 DEF Shared!Posted
    <2>6. ~FoundStored(c)
        <3>1. writer[<<"chosen", c>>].open => c \in Shared!Posted
            BY <1>0 DEF StoredAsHandled, Shared!Updates
        <3> QED
            BY <2>5, <3>1 DEF FoundStored
    <2>7. FoundStored(c)' <=> FoundStored(c)
        BY <2>4 DEF FoundStored
    <2>8. \A d \in Shared!Posted : FoundStored(d)' <=> FoundStored(d)
        BY <2>4 DEF FoundStored
    <2> QED
        BY <1>h, <1>1, <1>2, <2>1, <2>2, <2>3, <2>4, <2>6, <2>7, <2>8
<1>4. ASSUME NEW c \in Postings, Shared!Redeliver(c) PROVE StoredAsHandled'
    <2>1. /\ UNCHANGED <<card, cardRows, writer, removed, expired, known>> /\ Shared!Posted' = Shared!Posted
          /\ chosen' = chosen \cup {c} /\ c \in Shared!Posted \ chosen
        BY <1>4 DEF Shared!Redeliver, Shared!Posted
    <2> QED
        BY <1>0, <2>1 DEF StoredAsHandled, Shared!Tracked
<1>5. ASSUME NEW c \in Postings, Shared!Choose(c) PROVE StoredAsHandled'
    <2>1. UNCHANGED <<card, cardRows, removed, expired, known>> /\ Shared!Posted' = Shared!Posted /\ c \in chosen
        BY <1>5 DEF Shared!Choose, Shared!Posted
    <2>2. CASE /\ writer' = [writer EXCEPT ![<<"chosen", c>>] = [open |-> TRUE, found |-> Shared!Tracked(c)]]
               /\ chosen' = chosen
        <3>1. \A u \in Shared!Updates, d \in Postings : <<u, d>> # <<"chosen", c>> => writer'[<<u, d>>] = writer[<<u, d>>]
            BY <1>0, <2>2 DEF Shared!TypeOK
        <3>2. writer'[<<"chosen", c>>] = [open |-> TRUE, found |-> Shared!Tracked(c)]
            BY <1>0, <2>2 DEF Shared!TypeOK, Shared!Updates
        <3>3. FoundStored(c)' => Shared!Tracked(c)
            BY <3>2 DEF FoundStored
        <3>4. \A d \in Postings : d # c => (FoundStored(d)' <=> FoundStored(d))
            BY <3>1 DEF FoundStored, Shared!Updates
        <3> QED
            BY <1>0, <1>1, <2>1, <2>2, <3>1, <3>3, <3>4 DEF StoredAsHandled, Shared!Tracked, Shared!Posted
    <2>3. CASE chosen' = chosen \ {c} /\ UNCHANGED writer /\ card[c].meeting \notin known
        BY <1>0, <2>1, <2>3 DEF StoredAsHandled, Shared!Tracked
    <2> QED
        BY <1>5, <2>2, <2>3 DEF Shared!Choose, Shared!Exists
<1>6. ASSUME NEW c \in Postings, Shared!ChooseCommit(c) PROVE StoredAsHandled'
    <2>1. /\ UNCHANGED <<card, removed, expired, known>> /\ Shared!Posted' = Shared!Posted /\ chosen' = chosen \ {c}
          /\ writer' = [writer EXCEPT ![<<"chosen", c>>] = Shared!Idle] /\ writer[<<"chosen", c>>].open
        BY <1>6 DEF Shared!ChooseCommit, Shared!Posted, Shared!Close
    <2>2. \A u \in Shared!Updates, d \in Postings : <<u, d>> # <<"chosen", c>> => writer'[<<u, d>>] = writer[<<u, d>>]
        BY <1>0, <2>1 DEF Shared!TypeOK
    <2>3. writer'[<<"chosen", c>>] = Shared!Idle
        BY <1>0, <2>1 DEF Shared!TypeOK, Shared!Updates
    <2>4. cardRows \subseteq cardRows'
        BY <1>6 DEF Shared!ChooseCommit
    <2>5. ASSUME c \notin removed \cup expired, card[c].meeting \in known PROVE \E r \in cardRows' : r.card = c
        <3>1. CASE writer[<<"chosen", c>>].found
            <4>1. writer[<<"chosen", c>>] \in [open : BOOLEAN, found : BOOLEAN]
                BY <1>0 DEF Shared!TypeOK, Shared!Updates
            <4>2. FoundStored(c)
                BY <2>1, <3>1, <4>1, Zenon DEF FoundStored
            <4>3. c \in Shared!Posted
                BY <1>0, <2>1 DEF StoredAsHandled, Shared!Updates
            <4> QED
                <5>1. c \in Shared!Posted \ (removed \cup expired)
                    BY <2>5, <4>3
                <5>2. \E r \in cardRows : r.card = c
                    BY <1>1, <2>5, <4>2, <5>1
                <5> QED
                    BY <2>4, <5>2
        <3>2. CASE ~writer[<<"chosen", c>>].found
            <4>1. cardRows' = cardRows \cup {Shared!Row("chosen", c, "unknown")}
                BY <1>6, <2>5, <3>2 DEF Shared!ChooseCommit
            <4>2. Shared!Row("chosen", c, "unknown").card = c
                BY DEF Shared!Row
            <4> QED
                BY <4>1, <4>2
        <3> QED
            BY <3>1, <3>2
    <2>6. \A d \in Postings : d # c => (FoundStored(d)' <=> FoundStored(d))
        BY <2>2 DEF FoundStored, Shared!Updates
    <2>7. \A u \in Shared!Updates, d \in Postings : writer'[<<u, d>>].open => d \in Shared!Posted'
        BY <1>0, <2>1, <2>2, <2>3 DEF StoredAsHandled, Shared!Idle
    <2>9. ASSUME NEW d \in Shared!Posted' \ (removed' \cup expired'), card'[d].meeting \in known', d \notin chosen' \/ FoundStored(d)'
          PROVE  \E r \in cardRows' : r.card = d
        BY <1>h, <2>9, <1>1, <2>1, <2>4, <2>5, <2>6 DEF Shared!Posted
    <2> QED
        BY <1>h, <1>2, <2>1, <2>4, <2>5, <2>6, <2>7, <2>9
<1>7. ASSUME NEW c \in Postings, Shared!Tap(c) PROVE StoredAsHandled'
    <2>1. /\ UNCHANGED <<card, cardRows, removed, expired, known, chosen>> /\ Shared!Posted' = Shared!Posted
          /\ c \in Shared!Posted
        BY <1>7 DEF Shared!Tap, Shared!Posted
    <2>2. writer' = writer \/ writer' = [writer EXCEPT ![<<"tap", c>>] = [open |-> TRUE, found |-> Shared!Tracked(c)]]
        BY <1>7 DEF Shared!Tap
    <2>3. \A u \in Shared!Updates, d \in Postings : <<u, d>> # <<"tap", c>> => writer'[<<u, d>>] = writer[<<u, d>>]
        BY <1>0, <2>2 DEF Shared!TypeOK
    <2>4. \A d \in Postings : FoundStored(d)' <=> FoundStored(d)
        BY <2>3 DEF FoundStored, Shared!Updates
    <2>5. \A u \in Shared!Updates, d \in Postings : writer'[<<u, d>>].open => d \in Shared!Posted'
        BY <1>0, <2>1, <2>3 DEF StoredAsHandled
    <2>9. ASSUME NEW d \in Shared!Posted' \ (removed' \cup expired'), card'[d].meeting \in known', d \notin chosen' \/ FoundStored(d)'
          PROVE  \E r \in cardRows' : r.card = d
        BY <1>h, <2>9, <1>1, <2>1, <2>4 DEF Shared!Posted
    <2> QED
        BY <1>h, <1>2, <2>1, <2>4, <2>5, <2>9
<1>8. ASSUME NEW c \in Postings, Shared!TapCommit(c) PROVE StoredAsHandled'
    <2>1. /\ UNCHANGED <<card, removed, expired, known, chosen>> /\ Shared!Posted' = Shared!Posted
          /\ writer' = [writer EXCEPT ![<<"tap", c>>] = Shared!Idle]
        BY <1>8 DEF Shared!TapCommit, Shared!Posted, Shared!Close
    <2>2. \A u \in Shared!Updates, d \in Postings : <<u, d>> # <<"tap", c>> => writer'[<<u, d>>] = writer[<<u, d>>]
        BY <1>0, <2>1 DEF Shared!TypeOK
    <2>3. \A d \in Postings : FoundStored(d)' <=> FoundStored(d)
        BY <2>2 DEF FoundStored, Shared!Updates
    <2>4. \A r \in cardRows : \E s \in cardRows' : s.card = r.card
        BY <1>8, TapStores
    <2>5. \A u \in Shared!Updates, d \in Postings : writer'[<<u, d>>].open => d \in Shared!Posted'
        <3>1. c \in Shared!Posted
            BY <1>8, TapStores
        <3> QED
            BY <1>0, <2>1, <2>2, <3>1 DEF StoredAsHandled
    <2>9. ASSUME NEW d \in Shared!Posted' \ (removed' \cup expired'), card'[d].meeting \in known', d \notin chosen' \/ FoundStored(d)'
          PROVE  \E r \in cardRows' : r.card = d
        BY <1>h, <2>9, <1>1, <2>1, <2>3, <2>4 DEF Shared!Posted
    <2> QED
        BY <1>h, <1>2, <2>1, <2>3, <2>4, <2>5, <2>9
<1>9. ASSUME NEW c \in Postings, Shared!Remove(c) PROVE StoredAsHandled'
    <2>1. /\ UNCHANGED <<card, cardRows, writer, expired, known, chosen>> /\ Shared!Posted' = Shared!Posted
          /\ removed' = removed \cup {c}
        BY <1>9 DEF Shared!Remove, Shared!Posted
    <2> QED
        BY <1>0, <2>1 DEF StoredAsHandled, Shared!Tracked
<1>10. ASSUME Shared!DropDead PROVE StoredAsHandled'
    <2>1. UNCHANGED <<card, writer, removed, expired, known, chosen>> /\ Shared!Posted' = Shared!Posted
        BY <1>10 DEF Shared!DropDead, Shared!Posted
    <2>2. PICK d \in cardRows : d.card \in removed /\ cardRows' = cardRows \ {d}
        BY <1>10 DEF Shared!DropDead
    <2> QED
        BY <1>0, <2>1, <2>2 DEF StoredAsHandled, Shared!Tracked
<1>11. ASSUME NEW m \in Announced, Shared!End(m) PROVE StoredAsHandled'
    <2>1. /\ UNCHANGED <<card, removed, known, chosen, writer>> /\ Shared!Posted' = Shared!Posted
          /\ cardRows' = cardRows \ Shared!RowsOf(m)
          /\ expired' = expired \cup Shared!Of(m)
        BY <1>11 DEF Shared!End, Shared!Posted
    <2>2. \A r \in cardRows : r \in Shared!RowsOf(m) => r.card \in Shared!Of(m)
        BY <1>0 DEF StoredAsPosted, Shared!Of, Shared!RowsOf
    <2> QED
        BY <1>0, <2>1, <2>2 DEF StoredAsHandled, Shared!Tracked
<1>12. ASSUME NEW m \in Announced, Shared!Delete(m) PROVE StoredAsHandled'
    <2>1. /\ UNCHANGED <<card, removed, expired, chosen, writer>> /\ Shared!Posted' = Shared!Posted
          /\ cardRows' = cardRows \ Shared!RowsOf(m)
          /\ known' = known \ {m}
        BY <1>12 DEF Shared!Delete, Shared!Posted
    <2>2. \A r \in cardRows : r \in Shared!RowsOf(m) => card[r.card].meeting = m
        BY <1>0 DEF StoredAsPosted, Shared!RowsOf
    <2> QED
        BY <1>0, <2>1, <2>2 DEF StoredAsHandled, Shared!Tracked
<1>13. ASSUME NEW m \in Announced, Shared!Reactivate(m) PROVE StoredAsHandled'
    BY <1>0, <1>13 DEF Shared!Reactivate, StoredAsHandled, Shared!Tracked, Shared!Posted
<1>14. ASSUME UNCHANGED Shared!vars PROVE StoredAsHandled'
    BY <1>0, <1>14 DEF Shared!vars, StoredAsHandled, Shared!Tracked, Shared!Posted
<1>15. StoredAsHandled' \/ Shared!Share
    BY <1>4, <1>5, <1>6, <1>7, <1>8, <1>9, <1>10, <1>11, <1>12, <1>13, <1>14 DEF Shared!Next
<1> QED
    BY <1>3, <1>15

LEMMA CardsStep == ASSUME Shared!CardsFit, CardsInv, [Shared!Next]_Shared!vars PROVE CardsInv'
<1>1. (active \subseteq known)'
    BY DEF CardsInv, Shared!Next, Shared!vars, Shared!Share, Shared!Redeliver, Shared!Choose, Shared!ChooseCommit,
        Shared!Tap, Shared!TapCommit, Shared!Remove, Shared!DropDead, Shared!End,
           Shared!Reactivate, Shared!Delete
<1> QED
    BY <1>1, CardsTyped, CardsStoredAsPosted, CardsStoredAsEnabled, CardsStoredAsHandled DEF CardsInv

\* A row with a chat is what a search finds there.
LEMMA CardsSearch == ASSUME Shared!CardsFit, CardsInv PROVE Shared!SearchIsExact
<1> SUFFICES ASSUME NEW chat \in Rooms, NEW m \in active
             PROVE  LET attached == {c \in enabled : card[c] = [meeting |-> m, chat |-> chat]} IN
                      /\ attached \ removed # {} => m \in Shared!Found(chat)
                      /\ m \in Shared!Found(chat) => attached # {}
    BY DEF Shared!SearchIsExact
<1>0. Shared!TypeOK /\ StoredAsPosted /\ StoredAsEnabled /\ m \in known /\ m \in Announced /\ chat # "unknown"
    BY DEF CardsInv, Shared!TypeOK, Shared!CardsFit
<1>1. ASSUME NEW c \in enabled, card[c] = [meeting |-> m, chat |-> chat], c \notin removed
      PROVE  m \in Shared!Found(chat)
    <2>1. card[c].meeting = m /\ card[c].chat = chat
        BY <1>1
    <2>2. PICK r \in cardRows : r.card = c /\ r.chat = card[c].chat
        BY <1>0, <1>1, <2>1 DEF StoredAsEnabled
    <2> QED
        BY <1>0, <2>1, <2>2 DEF Shared!Found, StoredAsPosted
<1>2. ASSUME m \in Shared!Found(chat) PROVE \E c \in enabled : card[c] = [meeting |-> m, chat |-> chat]
    <2>1. PICK r \in cardRows : r.meeting = m /\ r.chat = chat
        BY <1>2 DEF Shared!Found
    <2>2. r.card \in enabled /\ r.card \in Shared!Posted /\ card[r.card].meeting = m /\ card[r.card].chat = chat
        BY <1>0, <2>1 DEF StoredAsEnabled, StoredAsPosted
    <2>3. card[r.card] \in [meeting : Announced, chat : Rooms]
        BY <1>0, <2>2, PostedCards DEF Shared!Posted
    <2>4. card[r.card] = [meeting |-> m, chat |-> chat]
        BY <2>2, <2>3
    <2> QED
        BY <2>2, <2>4
<1> QED
    BY <1>1, <1>2

\* A tap finds its card stored unless its posting is not handled yet or its meeting ended.
LEMMA CardsEarly == ASSUME Shared!CardsFit, CardsInv, [Shared!Next]_Shared!vars PROVE Shared!RefusalsAreEarly
<1>0. Shared!TypeOK /\ StoredAsPosted /\ StoredAsHandled
    BY DEF CardsInv
<1>1. ASSUME NEW c \in Postings, Shared!Tap(c) PROVE Shared!RefusalsAreEarly
    <2>1. refused' \subseteq refused \cup {c} /\ c \in Shared!Posted \ removed
        BY <1>1 DEF Shared!Tap
    <2>2. ASSUME c \notin chosen \cup expired, Shared!Exists(card[c].meeting) PROVE Shared!Allowed(c)
        <3>1. Shared!Tracked(c)
            BY <1>0, <2>1, <2>2 DEF StoredAsHandled, Shared!Exists
        <3>2. PICK r \in cardRows : r.card = c
            BY <3>1 DEF Shared!Tracked
        <3> QED
            BY <1>0, <3>2 DEF Shared!Allowed, Shared!RowsOf, StoredAsPosted
    <2>3. c \in refused' => c \in refused \/ c \in chosen \cup expired
        BY <1>1, <2>2 DEF Shared!Tap
    <2> QED
        BY <2>1, <2>3 DEF Shared!RefusalsAreEarly
<1>2. ASSUME refused' = refused PROVE Shared!RefusalsAreEarly
    BY <1>2 DEF Shared!RefusalsAreEarly
<1>3. [Shared!Next]_Shared!vars => refused' = refused \/ \E c \in Postings : Shared!Tap(c)
    BY DEF Shared!Next, Shared!vars, Shared!Share, Shared!Redeliver, Shared!Choose, Shared!ChooseCommit,
        Shared!TapCommit, Shared!Remove, Shared!DropDead, Shared!End,
           Shared!Reactivate, Shared!Delete
<1> QED
    BY <1>1, <1>2, <1>3

--------------------------------------------------------------------------------
(* The consent *)

\* Past the exchange of its code.
Exchanged(r) == request[r].at \in {"identity", "stage"}

\* A callback that goes on is about an answer that agreed, on a state that was valid; past the exchange
\* the code of that answer is spent, by it and no other, and no link is parked of it yet.
CallbacksAreSound ==
    /\ \A r \in Requests : request[r].at # "idle" =>
         /\ request[r].consent \in 1 .. Len(consents) /\ request[r].age <= Ttl
         /\ consents[request[r].consent].answer = "approved"
    /\ \A r \in Requests : Exchanged(r) =>
         /\ consents[request[r].consent].spent
         /\ \A s \in Requests : Exchanged(s) /\ request[s].consent = request[r].consent => s = r
         /\ \A l \in links : l.consent # request[r].consent
    /\ \A r \in Requests : request[r].at = "stage" => request[r].named

\* A parked link is of an answer there was, that agreed and whose code is spent, and the only one.
LinksAreSound ==
    \A l \in links :
      /\ l.consent \in 1 .. Len(consents)
      /\ consents[l.consent].answer = "approved" /\ consents[l.consent].spent
      /\ l.named /\ l.age <= Ttl
      /\ \A k \in links : k.consent = l.consent => k = l

ConsentInv == Consent!TypeOK /\ CallbacksAreSound /\ LinksAreSound

AnswersGiven == [stamp : 1 .. MaxNow + Ahead, answer : {"approved", "access_denied", "other"}, spent : BOOLEAN]
Callbacks == [at : {"idle", "exchange", "identity", "stage"}, consent : 0 .. MaxConsents, age : 0 .. MaxNow, named : BOOLEAN]

ConsentBounds == 
    /\ Ttl \in Nat /\ Tolerance \in Nat /\ Ahead \in Nat /\ MaxNow \in Nat /\ MaxConsents \in Nat /\ MaxFaults \in Nat
    /\ MaxNow >= 1

LEMMA ConsentInit == ASSUME Consent!ConsentFits PROVE Consent!Init => ConsentInv
<1> SUFFICES ASSUME Consent!Init PROVE ConsentInv
    OBVIOUS
<1>0. ConsentBounds
    BY DEF Consent!ConsentFits, ConsentBounds
<1>1. Consent!Idle \in Callbacks
    BY <1>0 DEF Consent!Idle, Callbacks, ConsentBounds
<1>2. consents \in Seq(AnswersGiven) /\ Len(consents) = 0
    BY DEF Consent!Init
<1>3. Consent!TypeOK
    BY <1>0, <1>1, <1>2 DEF Consent!Init, Consent!TypeOK, ConsentBounds, AnswersGiven, Callbacks, Consent!Pages
<1>4. \A r \in Requests : request[r].at = "idle"
    BY DEF Consent!Init, Consent!Idle
<1> QED
    BY <1>3, <1>4 DEF Consent!Init, ConsentInv, CallbacksAreSound, LinksAreSound, Exchanged

\* What a redirect is handled for.
LEMMA ValidCallback ==
    ASSUME Consent!ConsentFits, ConsentInv, NEW i \in 0 .. Len(consents), NEW clock \in Consent!Clocks, NEW params \in Consent!Arriving(i),
           Consent!Resolve(params, IF i = 0 THEN 0 ELSE consents[i].stamp, clock) = "valid"
    PROVE  /\ i \in 1 .. Len(consents) /\ consents[i].answer = "approved"
           /\ (IF consents[i].stamp > now THEN 0 ELSE now - consents[i].stamp) \in 0 .. MaxNow
           /\ (IF consents[i].stamp > now THEN 0 ELSE now - consents[i].stamp) <= Ttl
<1>0. ConsentBounds /\ now \in 1 .. MaxNow /\ consents \in Seq(AnswersGiven)
    BY DEF Consent!ConsentFits, ConsentBounds, ConsentInv, Consent!TypeOK, AnswersGiven
<1>1. i \in 1 .. Len(consents) /\ consents[i].answer = "approved"
    <2>1. params # Consent!NoParams /\ params.error # "access_denied" /\ params.error # "other" /\ params.code
          /\ params.state # "none" /\ params.state # "forged"
        BY DEF Consent!Resolve
    <2>2. [Consent!NoParams EXCEPT !.code = TRUE, !.state = "forged"].state = "forged"
        BY DEF Consent!NoParams
    <2>3. i # 0
        BY <2>1, <2>2 DEF Consent!Arriving
    <2>4. i \in 1 .. Len(consents) /\ consents[i] \in AnswersGiven
        BY <1>0, <2>3
    <2>5. Consent!Redirect(i) \in [code : BOOLEAN, state : {"ours"}, error : {"none", "access_denied", "other"}]
        BY <2>4 DEF Consent!Redirect, AnswersGiven
    <2>6. /\ [Consent!Redirect(i) EXCEPT !.code = FALSE, !.error = "none"].code = FALSE
          /\ [Consent!Redirect(i) EXCEPT !.state = "none"].state = "none"
          /\ [Consent!Redirect(i) EXCEPT !.state = "forged"].state = "forged"
        BY <2>5
    <2>7. params = Consent!Redirect(i)
        BY <2>1, <2>2, <2>3, <2>6 DEF Consent!Arriving
    <2> QED
        BY <2>1, <2>4, <2>7 DEF Consent!Redirect, AnswersGiven
<1>2. consents[i].stamp \in 1 .. MaxNow + Ahead
    <2>1. consents[i] \in AnswersGiven
        BY <1>0, <1>1
    <2> QED
        BY <2>1 DEF AnswersGiven
<1>3. Consent!InTime(consents[i].stamp, clock)
    BY <1>1 DEF Consent!Resolve
<1>4. clock = now \/ clock = now + Ahead
    BY DEF Consent!Clocks
<1> QED
    BY <1>0, <1>1, <1>2, <1>3, <1>4 DEF ConsentBounds, Consent!InTime

\* What a callback does: it goes on with an answer that agreed, or shows a page.
LEMMA CallbackCases ==
    ASSUME Consent!ConsentFits, ConsentInv, NEW r \in Requests, Consent!Callback(r)
    PROVE  \/ /\ \E i \in 1 .. Len(consents), a \in 0 .. MaxNow :
                   /\ consents[i].answer = "approved" /\ a <= Ttl
                   /\ request' = [request EXCEPT ![r] = [Consent!Idle EXCEPT !.at = "exchange", !.consent = i, !.age = a]]
              /\ page' = page
           \/ /\ \E i \in 0 .. Len(consents), what \in Consent!Pages : page' = [shows |-> what, consent |-> i]
              /\ request' = request
<1>0. PICK i \in 0 .. Len(consents), clock \in Consent!Clocks : \E params \in Consent!Arriving(i) :
        LET stamp == IF i = 0 THEN 0 ELSE consents[i].stamp
            shows == Consent!Resolve(params, stamp, clock)
            age == IF stamp > now THEN 0 ELSE now - stamp IN
        IF shows = "valid"
        THEN /\ request' = [request EXCEPT ![r] = [Consent!Idle EXCEPT !.at = "exchange", !.consent = i, !.age = age]]
             /\ UNCHANGED page
        ELSE Consent!Show(shows, i) /\ UNCHANGED request
    BY DEF Consent!Callback
<1> DEFINE stamp == IF i = 0 THEN 0 ELSE consents[i].stamp
           age == IF stamp > now THEN 0 ELSE now - stamp
<1>1. PICK params \in Consent!Arriving(i) :
        IF Consent!Resolve(params, stamp, clock) = "valid"
        THEN /\ request' = [request EXCEPT ![r] = [Consent!Idle EXCEPT !.at = "exchange", !.consent = i, !.age = age]]
             /\ UNCHANGED page
        ELSE Consent!Show(Consent!Resolve(params, stamp, clock), i) /\ UNCHANGED request
    BY <1>0
<1>2. CASE Consent!Resolve(params, stamp, clock) = "valid"
    <2>1. /\ i \in 1 .. Len(consents) /\ consents[i].answer = "approved"
          /\ (IF consents[i].stamp > now THEN 0 ELSE now - consents[i].stamp) \in 0 .. MaxNow
          /\ (IF consents[i].stamp > now THEN 0 ELSE now - consents[i].stamp) <= Ttl
        BY <1>2, ValidCallback
    <2>2. stamp = consents[i].stamp
        BY <2>1
    <2>3. age = IF consents[i].stamp > now THEN 0 ELSE now - consents[i].stamp
        BY <2>2
    <2> HIDE DEF stamp, age
    <2> QED
        BY <1>1, <1>2, <2>1, <2>3
<1>3. CASE Consent!Resolve(params, stamp, clock) # "valid"
    <2>1. Consent!Resolve(params, stamp, clock) \in Consent!Pages
        BY <1>3 DEF Consent!Resolve, Consent!Pages
    <2> HIDE DEF stamp, age
    <2> QED
        BY <1>1, <1>3, <2>1 DEF Consent!Show
<1> QED
    BY <1>2, <1>3

\* Types.
LEMMA ConsentTyped == ASSUME Consent!ConsentFits, ConsentInv, [Consent!Next]_Consent!vars PROVE Consent!TypeOK'
<1>0. ConsentBounds /\ Consent!TypeOK /\ consents \in Seq(AnswersGiven) /\ request \in [Requests -> Callbacks]
    BY DEF Consent!ConsentFits, ConsentBounds, ConsentInv, Consent!TypeOK, AnswersGiven, Callbacks
<1>i. Consent!Idle \in Callbacks
    BY <1>0 DEF Consent!Idle, Callbacks, ConsentBounds
<1>1. CASE Consent!Tick
    BY <1>0, <1>1 DEF Consent!Tick, Consent!TypeOK, ConsentBounds
<1>2. CASE Consent!DrawMenu
    <2>1. button' \in 0 .. MaxNow + Ahead
        BY <1>0, <1>2 DEF Consent!DrawMenu, Consent!Clocks, Consent!TypeOK, ConsentBounds
    <2>2. page' \in [shows : Consent!Pages, consent : 0 .. MaxConsents]
        BY <1>0, <1>2 DEF Consent!DrawMenu, ConsentBounds, Consent!Pages
    <2> QED
        BY <1>0, <1>2, <2>1, <2>2 DEF Consent!DrawMenu, Consent!TypeOK
<1>3. CASE Consent!Answer
    <2>1. PICK answer \in {"approved", "access_denied", "other"} :
            /\ answer = "other" => faults < MaxFaults
            /\ faults' = IF answer = "other" THEN faults + 1 ELSE faults
            /\ consents' = Append(consents, [stamp |-> button, answer |-> answer, spent |-> FALSE])
        BY <1>3 DEF Consent!Answer
    <2>2. [stamp |-> button, answer |-> answer, spent |-> FALSE] \in AnswersGiven
        BY <1>0, <1>3, <2>1 DEF Consent!Answer, Consent!TypeOK, AnswersGiven, ConsentBounds
    <2>3. consents' \in Seq(AnswersGiven) /\ Len(consents') = Len(consents) + 1
        BY <1>0, <2>1, <2>2
    <2>4. faults' \in 0 .. MaxFaults
        BY <1>0, <2>1 DEF Consent!TypeOK, ConsentBounds
    <2> QED
        BY <1>0, <1>3, <2>3, <2>4 DEF Consent!Answer, Consent!TypeOK, AnswersGiven, ConsentBounds
<1>4. ASSUME NEW r \in Requests, Consent!Callback(r) PROVE Consent!TypeOK'
    <2>1. CASE /\ \E i \in 1 .. Len(consents), a \in 0 .. MaxNow :
                 request' = [request EXCEPT ![r] = [Consent!Idle EXCEPT !.at = "exchange", !.consent = i, !.age = a]]
               /\ page' = page
        <3>1. PICK i \in 1 .. Len(consents), a \in 0 .. MaxNow :
                request' = [request EXCEPT ![r] = [Consent!Idle EXCEPT !.at = "exchange", !.consent = i, !.age = a]]
            BY <2>1
        <3>2. i \in 0 .. MaxConsents
            BY <1>0 DEF Consent!TypeOK, ConsentBounds
        <3>3. [Consent!Idle EXCEPT !.at = "exchange", !.consent = i, !.age = a] \in Callbacks
            BY <1>i, <3>2 DEF Consent!Idle, Callbacks
        <3>4. request' \in [Requests -> Callbacks]
            BY <1>0, <3>1, <3>3
        <3> QED
            BY <1>0, <1>4, <2>1, <3>4 DEF Consent!Callback, Consent!TypeOK, Callbacks
    <2>2. CASE /\ \E i \in 0 .. Len(consents), what \in Consent!Pages : page' = [shows |-> what, consent |-> i]
               /\ request' = request
        <3>1. PICK i \in 0 .. Len(consents), what \in Consent!Pages : page' = [shows |-> what, consent |-> i]
            BY <2>2
        <3>2. i \in 0 .. MaxConsents
            BY <1>0 DEF Consent!TypeOK, ConsentBounds
        <3> QED
            BY <1>0, <1>4, <2>2, <3>1, <3>2 DEF Consent!Callback, Consent!TypeOK, Callbacks
    <2> QED
        BY <1>4, <2>1, <2>2, CallbackCases
<1>5. ASSUME NEW r \in Requests PROVE
             /\ Consent!Finish(r) => request' \in [Requests -> Callbacks]
             /\ \A at \in {"idle", "exchange", "identity", "stage"} : Consent!MoveOn(r, at) => request' \in [Requests -> Callbacks]
             /\ \A what \in Consent!Pages : Consent!Show(what, request[r].consent) => page' \in [shows : Consent!Pages, consent : 0 .. MaxConsents]
             /\ Consent!NoAnswer(r) => page' \in [shows : Consent!Pages, consent : 0 .. MaxConsents] /\ request' \in [Requests -> Callbacks]
             /\ "server error" \in Consent!Pages /\ "one more step" \in Consent!Pages
    <2>1. \A what \in Consent!Pages : Consent!Show(what, request[r].consent) => page' \in [shows : Consent!Pages, consent : 0 .. MaxConsents]
        BY <1>0 DEF Callbacks, Consent!Show
    <2>2. Consent!Finish(r) => request' \in [Requests -> Callbacks]
        BY <1>0, <1>i DEF Consent!Finish
    <2>3. \A at \in {"idle", "exchange", "identity", "stage"} : Consent!MoveOn(r, at) => request' \in [Requests -> Callbacks]
        BY <1>0 DEF Callbacks, Consent!MoveOn
    <2>4. "no answer" \in Consent!Pages /\ "server error" \in Consent!Pages /\ "one more step" \in Consent!Pages
        BY DEF Consent!Pages
    <2> QED
        BY <2>1, <2>2, <2>3, <2>4 DEF Consent!NoAnswer
<1>6. ASSUME NEW r \in Requests, Consent!Exchange(r) PROVE Consent!TypeOK'
    <2>1. consents' = [consents EXCEPT ![request[r].consent].spent = TRUE] /\ request[r].consent \in 1 .. Len(consents)
        BY <1>6 DEF Consent!Exchange, ConsentInv, CallbacksAreSound
    <2>2. consents[request[r].consent] \in AnswersGiven
        BY <1>0, <2>1
    <2>3. [consents[request[r].consent] EXCEPT !.spent = TRUE] \in AnswersGiven
        BY <2>2 DEF AnswersGiven
    <2>4. consents' \in Seq(AnswersGiven) /\ Len(consents') = Len(consents)
        BY <1>0, <2>1, <2>3
    <2>5. faults' \in 0 .. MaxFaults
        BY <1>0, <1>6 DEF Consent!Exchange, Consent!Fault, Consent!TypeOK, ConsentBounds
    <2>6. request' \in [Requests -> Callbacks] /\ page' \in [shows : Consent!Pages, consent : 0 .. MaxConsents]
        BY <1>0, <1>5, <1>6 DEF Consent!Exchange, Consent!TypeOK
    <2>7. UNCHANGED <<now, button, links>>
        BY <1>6 DEF Consent!Exchange
    <2> QED
        BY <1>0, <2>4, <2>5, <2>6, <2>7 DEF Consent!TypeOK, AnswersGiven, Callbacks
<1>7. ASSUME NEW r \in Requests, Consent!FetchIdentity(r) PROVE Consent!TypeOK'
    <2>1. request' = [request EXCEPT ![r].at = "stage", ![r].named = TRUE] => request' \in [Requests -> Callbacks]
        <3>1. [[request[r] EXCEPT !.at = "stage"] EXCEPT !.named = TRUE] \in Callbacks
            BY <1>0 DEF Callbacks
        <3> QED
            BY <1>0, <3>1
    <2>2. request' \in [Requests -> Callbacks] /\ page' \in [shows : Consent!Pages, consent : 0 .. MaxConsents]
        BY <1>0, <1>5, <1>7, <2>1 DEF Consent!FetchIdentity, Consent!IdentityMissing, Consent!TypeOK
    <2>3. faults' \in 0 .. MaxFaults
        BY <1>0, <1>7 DEF Consent!FetchIdentity, Consent!Fault, Consent!TypeOK, ConsentBounds
    <2> QED
        BY <1>0, <1>7, <2>2, <2>3 DEF Consent!FetchIdentity, Consent!TypeOK, Callbacks
<1>8. ASSUME NEW r \in Requests, Consent!Stage(r) PROVE Consent!TypeOK'
    <2>1. [consent |-> request[r].consent, age |-> request[r].age, named |-> request[r].named]
            \in [consent : 1 .. MaxConsents, age : 0 .. MaxNow, named : BOOLEAN]
        <3>1. request[r].consent \in 1 .. Len(consents)
            BY <1>8 DEF Consent!Stage, ConsentInv, CallbacksAreSound
        <3>2. request[r].consent \in 1 .. MaxConsents
            BY <1>0, <3>1 DEF Consent!TypeOK, ConsentBounds
        <3>3. request[r].age \in 0 .. MaxNow /\ request[r].named \in BOOLEAN
            BY <1>0 DEF Callbacks
        <3> QED
            BY <3>2, <3>3, Zenon
    <2>2. links' \subseteq [consent : 1 .. MaxConsents, age : 0 .. MaxNow, named : BOOLEAN]
        BY <1>0, <1>8, <2>1 DEF Consent!Stage, Consent!TypeOK
    <2>3. faults' \in 0 .. MaxFaults
        <3>1. faults' = faults \/ (faults < MaxFaults /\ faults' = faults + 1)
            BY <1>8 DEF Consent!Stage, Consent!Fault
        <3> QED
            BY <1>0, <3>1 DEF Consent!TypeOK, ConsentBounds
    <2>4. request' \in [Requests -> Callbacks] /\ page' \in [shows : Consent!Pages, consent : 0 .. MaxConsents]
        BY <1>0, <1>5, <1>8 DEF Consent!Stage
    <2> QED
        BY <1>0, <1>8, <2>2, <2>3, <2>4 DEF Consent!Stage, Consent!TypeOK, Callbacks
<1>9. CASE UNCHANGED Consent!vars
    BY <1>0, <1>9 DEF Consent!vars, Consent!TypeOK
<1> QED
    BY <1>1, <1>2, <1>3, <1>4, <1>6, <1>7, <1>8, <1>9 DEF Consent!Next, Consent!Work

\* Answers keep what they were and how they are spent: a step only adds one, or spends the one exchanged.
LEMMA AnswersStay ==
    ASSUME Consent!ConsentFits, ConsentInv, [Consent!Next]_Consent!vars, NEW i \in 1 .. Len(consents)
    PROVE  /\ i \in 1 .. Len(consents') /\ consents'[i].answer = consents[i].answer
           /\ consents[i].spent => consents'[i].spent
<1>0. consents \in Seq(AnswersGiven) /\ Len(consents) \in Nat
    BY DEF ConsentInv, Consent!TypeOK, AnswersGiven
<1>1. CASE Consent!Answer
    <2>1. PICK answer \in {"approved", "access_denied", "other"} :
            consents' = Append(consents, [stamp |-> button, answer |-> answer, spent |-> FALSE])
        BY <1>1 DEF Consent!Answer
    <2>2. Len(consents') = Len(consents) + 1 /\ consents'[i] = consents[i]
        BY <1>0, <2>1
    <2> QED
        BY <1>0, <2>2
<1>2. ASSUME NEW r \in Requests, Consent!Exchange(r) PROVE
        /\ i \in 1 .. Len(consents') /\ consents'[i].answer = consents[i].answer
        /\ consents[i].spent => consents'[i].spent
    <2>1. consents' = [consents EXCEPT ![request[r].consent].spent = TRUE]
        BY <1>2 DEF Consent!Exchange
    <2>2. consents[i] \in AnswersGiven
        BY <1>0
    <2> QED
        BY <1>0, <2>1, <2>2 DEF AnswersGiven
<1>3. consents' = consents \/ Consent!Answer \/ \E r \in Requests : Consent!Exchange(r)
    BY DEF Consent!Next, Consent!Work, Consent!Tick, Consent!DrawMenu, Consent!Callback, Consent!FetchIdentity,
        Consent!Stage, Consent!vars
<1> QED
    BY <1>0, <1>1, <1>2, <1>3

\* Each step of a callback, its failures and the browser keep every answer to one callback or one link.
LEMMA ConsentSound ==
    ASSUME Consent!ConsentFits, ConsentInv, [Consent!Next]_Consent!vars
    PROVE  CallbacksAreSound' /\ LinksAreSound'
<1>0. /\ Consent!TypeOK /\ CallbacksAreSound /\ LinksAreSound /\ consents \in Seq(AnswersGiven)
      /\ request \in [Requests -> Callbacks]
    BY DEF ConsentInv, Consent!TypeOK, AnswersGiven, Callbacks
<1>a. \A i \in 1 .. Len(consents) : /\ i \in 1 .. Len(consents') /\ consents'[i].answer = consents[i].answer
                                    /\ consents[i].spent => consents'[i].spent
    BY AnswersStay
<1>1. ASSUME links' = links PROVE LinksAreSound'
    BY <1>0, <1>1, <1>a DEF LinksAreSound
\* A callback that ends, or never went on, leaves the others as they were.
<1>2. ASSUME NEW r \in Requests, request' = [request EXCEPT ![r] = Consent!Idle] \/ request' = request, links' = links
      PROVE  CallbacksAreSound'
    <2>1. \A s \in Requests : request'[s] = request[s] \/ request'[s] = Consent!Idle
        BY <1>0, <1>2
    <2>2. \A s \in Requests : request'[s].at # "idle" => request'[s] = request[s]
        BY <2>1 DEF Consent!Idle
    <2> QED
        BY <1>0, <1>2, <1>a, <2>2 DEF CallbacksAreSound, Exchanged
<1>3. ASSUME request' = request, links' = links PROVE CallbacksAreSound'
    BY <1>0, <1>3, <1>a DEF CallbacksAreSound, Exchanged
<1>4. CASE Consent!Tick \/ Consent!DrawMenu \/ Consent!Answer \/ UNCHANGED Consent!vars
    BY <1>1, <1>3, <1>4 DEF Consent!Tick, Consent!DrawMenu, Consent!Answer, Consent!vars
<1>5. ASSUME NEW r \in Requests, Consent!Callback(r) PROVE CallbacksAreSound' /\ LinksAreSound'
    <2>1. links' = links /\ request[r].at = "idle"
        BY <1>5 DEF Consent!Callback
    <2>2. CASE \E i \in 1 .. Len(consents), a \in 0 .. MaxNow :
                   /\ consents[i].answer = "approved" /\ a <= Ttl
                   /\ request' = [request EXCEPT ![r] = [Consent!Idle EXCEPT !.at = "exchange", !.consent = i, !.age = a]]
        <3>1. PICK i \in 1 .. Len(consents), a \in 0 .. MaxNow :
                   /\ consents[i].answer = "approved" /\ a <= Ttl
                   /\ request' = [request EXCEPT ![r] = [Consent!Idle EXCEPT !.at = "exchange", !.consent = i, !.age = a]]
            BY <2>2
        <3>2. /\ request'[r].at = "exchange" /\ request'[r].consent = i /\ request'[r].age = a
              /\ \A s \in Requests : s # r => request'[s] = request[s]
            BY <1>0, <3>1 DEF Consent!Idle
        <3> QED
            BY <1>0, <1>1, <1>a, <2>1, <3>1, <3>2 DEF CallbacksAreSound, Exchanged
    <2>3. CASE request' = request
        BY <1>1, <1>3, <2>1, <2>3
    <2> QED
        BY <1>5, <2>2, <2>3, CallbackCases
<1>6. ASSUME NEW r \in Requests, Consent!Exchange(r) PROVE CallbacksAreSound' /\ LinksAreSound'
    <2>1. /\ links' = links /\ request[r].at = "exchange"
          /\ consents' = [consents EXCEPT ![request[r].consent].spent = TRUE]
        BY <1>6 DEF Consent!Exchange
    <2>2. CASE ~consents[request[r].consent].spent /\ Consent!MoveOn(r, "identity")
        <3>1. /\ request'[r].at = "identity" /\ request'[r].consent = request[r].consent
              /\ request'[r].age = request[r].age
              /\ \A s \in Requests : s # r => request'[s] = request[s]
            BY <1>0, <2>2 DEF Consent!MoveOn, Callbacks
        <3>2. /\ request[r].consent \in 1 .. Len(consents) /\ request[r].age <= Ttl
              /\ consents[request[r].consent].answer = "approved"
            BY <1>0, <2>1 DEF CallbacksAreSound
        <3>3. consents[request[r].consent] \in AnswersGiven
            BY <1>0, <3>2
        <3>4. consents'[request[r].consent].spent
            BY <1>0, <2>1, <3>2, <3>3 DEF AnswersGiven
        <3>5. \A s \in Requests : Exchanged(s) => request[s].consent # request[r].consent
            BY <1>0, <2>2 DEF CallbacksAreSound
        <3>6. \A l \in links : l.consent # request[r].consent
            BY <1>0, <2>2 DEF LinksAreSound
        <3>7. ~Exchanged(r)
            BY <2>1 DEF Exchanged
        <3>8. \A s \in Requests : request'[s].at # "idle" =>
                 /\ request'[s].consent \in 1 .. Len(consents') /\ request'[s].age <= Ttl
                 /\ consents'[request'[s].consent].answer = "approved"
            BY <1>0, <1>a, <3>1, <3>2 DEF CallbacksAreSound
        <3>9. \A s \in Requests : Exchanged(s)' => s = r \/ (Exchanged(s) /\ request'[s] = request[s])
            BY <3>1 DEF Exchanged
        <3>10. \A s \in Requests : Exchanged(s)' => consents'[request'[s].consent].spent
            BY <1>0, <1>a, <3>1, <3>4, <3>9 DEF CallbacksAreSound, Exchanged
        <3>11. \A s, t \in Requests : Exchanged(s)' /\ Exchanged(t)' /\ request'[t].consent = request'[s].consent => t = s
            BY <1>0, <3>1, <3>5, <3>9 DEF CallbacksAreSound
        <3>12. \A s \in Requests : Exchanged(s)' => \A l \in links' : l.consent # request'[s].consent
            BY <1>0, <2>1, <3>1, <3>6, <3>9 DEF CallbacksAreSound
        <3>13. \A s \in Requests : request'[s].at = "stage" => request'[s].named
            BY <1>0, <3>1 DEF CallbacksAreSound
        <3> QED
            BY <1>1, <2>1, <3>8, <3>10, <3>11, <3>12, <3>13 DEF CallbacksAreSound
    <2>3. CASE Consent!NoAnswer(r)
        BY <1>1, <1>2, <2>1, <2>3 DEF Consent!NoAnswer, Consent!Finish
    <2> QED
        BY <1>6, <2>2, <2>3 DEF Consent!Exchange
<1>7. ASSUME NEW r \in Requests, Consent!FetchIdentity(r) PROVE CallbacksAreSound' /\ LinksAreSound'
    <2>1. links' = links /\ request[r].at = "identity" /\ consents' = consents
        BY <1>7 DEF Consent!FetchIdentity
    <2>2. CASE request' = [request EXCEPT ![r].at = "stage", ![r].named = TRUE]
        <3>1. /\ request'[r].at = "stage" /\ request'[r].consent = request[r].consent
              /\ request'[r].age = request[r].age
              /\ request'[r].named
              /\ \A s \in Requests : s # r => request'[s] = request[s]
            BY <1>0, <2>2 DEF Callbacks
        <3>2. \A s \in Requests : Exchanged(s)' <=> Exchanged(s)
            BY <2>1, <3>1 DEF Exchanged
        <3>3. \A s \in Requests : /\ request'[s].consent = request[s].consent /\ request'[s].age = request[s].age
                                  /\ request'[s].at = "idle" <=> request[s].at = "idle"
            BY <2>1, <3>1
        <3> QED
            BY <1>0, <1>1, <2>1, <3>1, <3>2, <3>3 DEF CallbacksAreSound
    <2>3. CASE Consent!IdentityMissing(r)
        BY <1>1, <1>2, <2>1, <2>3 DEF Consent!IdentityMissing, Consent!NoAnswer, Consent!Finish
    <2> QED
        BY <1>7, <2>2, <2>3 DEF Consent!FetchIdentity
<1>8. ASSUME NEW r \in Requests, Consent!Stage(r) PROVE CallbacksAreSound' /\ LinksAreSound'
    <2>1. request[r].at = "stage" /\ consents' = consents /\ request' = [request EXCEPT ![r] = Consent!Idle]
        BY <1>8 DEF Consent!Stage, Consent!Finish
    <2>2. CASE links' = links
        BY <1>1, <1>2, <2>1, <2>2
    <2>3. CASE links' = links \cup {[consent |-> request[r].consent, age |-> request[r].age, named |-> request[r].named]}
        <3> DEFINE l == [consent |-> request[r].consent, age |-> request[r].age, named |-> request[r].named]
        <3>1. l.consent = request[r].consent /\ l.age = request[r].age /\ l.named = request[r].named
            OBVIOUS
        <3>0. links' = links \cup {l}
            BY <2>3
        <3> HIDE DEF l
        <3>2. Exchanged(r)
            BY <2>1 DEF Exchanged
        <3>3. /\ request[r].consent \in 1 .. Len(consents) /\ request[r].age <= Ttl
              /\ consents[request[r].consent].answer = "approved" /\ consents[request[r].consent].spent
              /\ request[r].named
            BY <1>0, <2>1, <3>2 DEF CallbacksAreSound
        <3>4. \A k \in links : k.consent # request[r].consent
            BY <1>0, <3>2 DEF CallbacksAreSound
        <3>5. LinksAreSound'
            <4>1. ASSUME NEW k \in links'
                  PROVE  /\ k.consent \in 1 .. Len(consents') /\ consents'[k.consent].answer = "approved"
                         /\ consents'[k.consent].spent /\ k.named /\ k.age <= Ttl
                         /\ \A j \in links' : j.consent = k.consent => j = k
                <5>1. CASE k = l
                    BY <2>1, <3>0, <3>1, <3>3, <3>4, <5>1
                <5>2. CASE k \in links
                    <6>1. /\ k.consent \in 1 .. Len(consents) /\ consents[k.consent].answer = "approved"
                          /\ consents[k.consent].spent /\ k.named /\ k.age <= Ttl
                          /\ \A j \in links : j.consent = k.consent => j = k
                        BY <1>0, <5>2 DEF LinksAreSound
                    <6> QED
                        BY <2>1, <3>0, <3>1, <3>4, <5>2, <6>1
                <5> QED
                    BY <3>0, <5>1, <5>2
            <4> QED
                BY <4>1 DEF LinksAreSound
        <3>6. \A s \in Requests : request'[s].at # "idle" => request'[s] = request[s] /\ s # r
            BY <1>0, <2>1 DEF Consent!Idle
        <3>7. \A s \in Requests : Exchanged(s)' => Exchanged(s) /\ s # r /\ request'[s] = request[s]
            BY <3>6 DEF Exchanged
        <3>8. \A s \in Requests : Exchanged(s) /\ s # r => request[s].consent # request[r].consent
            BY <1>0, <3>2 DEF CallbacksAreSound
        <3>9. \A s \in Requests : Exchanged(s)' =>
                 /\ consents'[request'[s].consent].spent
                 /\ \A t \in Requests : Exchanged(t)' /\ request'[t].consent = request'[s].consent => t = s
                 /\ \A k \in links' : k.consent # request'[s].consent
            <4> SUFFICES ASSUME NEW s \in Requests, Exchanged(s)'
                         PROVE  /\ consents'[request'[s].consent].spent
                                /\ \A t \in Requests : Exchanged(t)' /\ request'[t].consent = request'[s].consent => t = s
                                /\ \A k \in links' : k.consent # request'[s].consent
                OBVIOUS
            <4>1. Exchanged(s) /\ s # r /\ request'[s] = request[s]
                BY <3>7
            <4>2. /\ consents[request[s].consent].spent
                  /\ \A t \in Requests : Exchanged(t) /\ request[t].consent = request[s].consent => t = s
                  /\ \A k \in links : k.consent # request[s].consent
                BY <1>0, <4>1 DEF CallbacksAreSound
            <4> QED
                BY <2>1, <3>0, <3>1, <3>7, <3>8, <4>1, <4>2
        <3>10. \A s \in Requests : request'[s].at # "idle" =>
                 /\ request'[s].consent \in 1 .. Len(consents') /\ request'[s].age <= Ttl
                 /\ consents'[request'[s].consent].answer = "approved"
            BY <1>0, <2>1, <3>6 DEF CallbacksAreSound
        <3>11. \A s \in Requests : request'[s].at = "stage" => request'[s].named
            BY <1>0, <3>6 DEF CallbacksAreSound
        <3> QED
            BY <3>5, <3>9, <3>10, <3>11 DEF CallbacksAreSound
    <2> QED
        BY <1>8, <2>2, <2>3 DEF Consent!Stage
<1> QED
    BY <1>4, <1>5, <1>6, <1>7, <1>8 DEF Consent!Next, Consent!Work

LEMMA ConsentStep == ASSUME Consent!ConsentFits, ConsentInv, [Consent!Next]_Consent!vars PROVE ConsentInv'
BY ConsentTyped, ConsentSound DEF ConsentInv

\* The promise is a part of the invariant.
LEMMA ConsentProven == ASSUME ConsentInv PROVE Consent!LinksAreProven
BY DEF ConsentInv, LinksAreSound, Consent!LinksAreProven

--------------------------------------------------------------------------------
(* One part at a time *)

\* A behaviour starts as one of its part.
LEMMA ScreensStart ==
    ASSUME ScreensInit
    PROVE  /\ part = "dates" => Dates!Init
           /\ part = "talk" => Talk!Init
           /\ part = "lists" => Lists!Init
           /\ part = "cards" => Shared!Init
           /\ part = "consent" => Consent!Init
BY DEF ScreensInit

\* A step is one of the part at hand, or changes nothing of it.
LEMMA ScreensStep ==
    ASSUME [ScreensNext]_screensVars
    PROVE  /\ part' = part
           /\ part = "dates" => [Dates!Next]_Dates!vars
           /\ part = "talk" => [Talk!Next]_Talk!vars
           /\ part = "lists" => [Lists!Next]_Lists!vars
           /\ part = "cards" => [Shared!Next]_Shared!vars
           /\ part = "consent" => [Consent!Next]_Consent!vars
<1>1. CASE ScreensNext
    BY <1>1 DEF ScreensNext
<1>2. CASE UNCHANGED screensVars
    BY <1>2 DEF screensVars, DatesVars, TalkVars, ListsVars, CardsVars, ConsentVars, Dates!vars, Dates!row,
        Talk!vars, Talk!registry, Talk!rows, Talk!history, Lists!vars, Shared!vars, Consent!vars
<1> QED
    BY <1>1, <1>2

\* Edits land where asked for, the offered end passes its own rule, and the dates are ordered.
THEOREM DatesCorrect == ScreensSpec => []DatesAreRight
<1>1. ScreensInit => (part = "dates" => DatesInv)
    BY ScreensAssumption, ScreensStart, DatesInit
<1>2. (part = "dates" => DatesInv) /\ [ScreensNext]_screensVars => (part = "dates" => DatesInv)'
    BY ScreensAssumption, ScreensStep, DatesStep
<1>3. (part = "dates" => DatesInv) => DatesAreRight
    BY ScreensAssumption, DatesRight DEF DatesAreRight
<1> QED
    BY <1>1, <1>2, <1>3, PTL DEF ScreensSpec

\* One conversation is live, knows its meeting, its notices are its own, and photos stay distinct.
THEOREM ConversationsCorrect == ScreensSpec => []ConversationsStayApart
<1>1. ScreensInit => (part = "talk" => ConversationsInv)
    BY ScreensAssumption, ScreensStart, ConversationsInit
<1>2. (part = "talk" => ConversationsInv) /\ [ScreensNext]_screensVars => (part = "talk" => ConversationsInv)'
    BY ScreensAssumption, ScreensStep, ConversationsKeep
<1>3. (part = "talk" => ConversationsInv) => ConversationsStayApart
    BY ScreensAssumption, ConversationsApart DEF ConversationsStayApart
<1> QED
    BY <1>1, <1>2, <1>3, PTL DEF ScreensSpec

\* What is typed or sent is written to the meeting and the field the last prompt asked about.
THEOREM AnswersCorrect == ScreensSpec => AnswersLandWhereAsked
<1>1. ScreensInit => (part = "talk" => ConversationsInv)
    BY ScreensAssumption, ScreensStart, ConversationsInit
<1>2. (part = "talk" => ConversationsInv) /\ [ScreensNext]_screensVars => (part = "talk" => ConversationsInv)'
    BY ScreensAssumption, ScreensStep, ConversationsKeep
<1>3. (part = "talk" => ConversationsInv) /\ [ScreensNext]_screensVars
         => [part = "talk" => Talk!AnswerLandsWhereAsked]_screensVars
    <2> SUFFICES ASSUME part = "talk", ConversationsInv, ScreensNext PROVE Talk!AnswerLandsWhereAsked
        OBVIOUS
    <2> QED
        BY ScreensAssumption, ScreensStep, ConversationsStep DEF ScreensNext
<1> QED
    BY <1>1, <1>2, <1>3, PTL DEF ScreensSpec, AnswersLandWhereAsked

\* Pages exist whatever left the list, and an active meeting goes by its own confirmation.
THEOREM ListsCorrect == ScreensSpec => ListsAreReliable
<1>1. ScreensInit => (part = "lists" => ListsInv)
    BY ScreensAssumption, ScreensStart, ListsInit
<1>2. (part = "lists" => ListsInv) /\ [ScreensNext]_screensVars => (part = "lists" => ListsInv)'
    BY ScreensAssumption, ScreensStep, ListsStep
<1>3. (part = "lists" => ListsInv) /\ [ScreensNext]_screensVars
         => [part = "lists" => Lists!ActiveGoByName]_screensVars
    <2> SUFFICES ASSUME part = "lists", ListsInv, ScreensNext PROVE Lists!ActiveGoByName
        OBVIOUS
    <2> QED
        BY ScreensAssumption, ScreensStep, ListsByName
<1>4. (part = "lists" => ListsInv) => (part = "lists" => Lists!PagesExist)
    BY ScreensAssumption, ListsPaged
<1> QED
    BY <1>1, <1>2, <1>3, <1>4, PTL DEF ScreensSpec, ListsAreReliable

\* A search in a chat finds the live meetings made searchable there, and only those (inline search).
THEOREM SearchCorrect == ScreensSpec => []SearchIsExact
<1>1. ScreensInit => (part = "cards" => CardsInv)
    BY ScreensAssumption, ScreensStart, CardsInit
<1>2. (part = "cards" => CardsInv) /\ [ScreensNext]_screensVars => (part = "cards" => CardsInv)'
    BY ScreensAssumption, ScreensStep, CardsStep
<1>3. (part = "cards" => CardsInv) => SearchIsExact
    BY ScreensAssumption, CardsSearch DEF SearchIsExact
<1> QED
    BY <1>1, <1>2, <1>3, PTL DEF ScreensSpec

\* A tap on a card is refused only while its chosen result is under way or once its meeting ended.
THEOREM CardsCorrect == ScreensSpec => CardsAreHonoured
<1>1. ScreensInit => (part = "cards" => CardsInv)
    BY ScreensAssumption, ScreensStart, CardsInit
<1>2. (part = "cards" => CardsInv) /\ [ScreensNext]_screensVars => (part = "cards" => CardsInv)'
    BY ScreensAssumption, ScreensStep, CardsStep
<1>3. (part = "cards" => CardsInv) /\ [ScreensNext]_screensVars
         => [part = "cards" => Shared!RefusalsAreEarly]_screensVars
    <2> SUFFICES ASSUME part = "cards", CardsInv, ScreensNext PROVE Shared!RefusalsAreEarly
        OBVIOUS
    <2> QED
        BY ScreensAssumption, ScreensStep, CardsEarly
<1> QED
    BY <1>1, <1>2, <1>3, PTL DEF ScreensSpec, CardsAreHonoured

\* A link is parked for a spent, approved answer of its own, on a fresh state, and is named.
THEOREM ConsentCorrect == ScreensSpec => []LinksAreProven
<1>1. ScreensInit => (part = "consent" => ConsentInv)
    BY ScreensAssumption, ScreensStart, ConsentInit
<1>2. (part = "consent" => ConsentInv) /\ [ScreensNext]_screensVars => (part = "consent" => ConsentInv)'
    BY ScreensAssumption, ScreensStep, ConsentStep
<1>3. (part = "consent" => ConsentInv) => LinksAreProven
    BY ScreensAssumption, ConsentProven DEF LinksAreProven
<1> QED
    BY <1>1, <1>2, <1>3, PTL DEF ScreensSpec

--------------------------------------------------------------------------------
(* The refresh of the cards: jobs *)

\* Two waiting refreshes make one (card_refresh.py, coalesce).
LEMMA CoalesceIsAJob ==
    ASSUME NEW p \in Job, NEW q \in Job
    PROVE  Coalesce(p, q) \in Job
BY DEF Coalesce, MergeSkip, MergeScopes, Job

\* The merged refresh covers every card either of the two covered.
LEMMA CoalesceCovers ==
    ASSUME NEW p \in Job, NEW q \in Job, NEW c \in Cards, Covers(p, c) \/ Covers(q, c)
    PROVE  Covers(Coalesce(p, q), c)
BY RefreshAssumption DEF Coalesce, MergeSkip, MergeScopes, Covers, Job

\* Lifting the skip of a job takes no card away from it.
LEMMA UnskippedCovers ==
    ASSUME NEW j \in Job
    PROVE  /\ Unskipped(j) \in Job
           /\ \A c \in Cards : Covers(j, c) => Covers(Unskipped(j), c)
BY RefreshAssumption DEF Unskipped, Covers, Job

\* No job at all covers nothing.
LEMMA NoJobCoversNothing == NoJob \notin Job /\ \A c \in Cards : ~Covers(NoJob, c)
<1>1. NoJob.scope = {} /\ \A j \in Job : j.scope # {}
    BY DEF NoJob, Job
<1> QED BY <1>1 DEF Covers

\* What a submit leaves waiting covers what was waiting and what was submitted.
LEMMA SubmitCovers ==
    ASSUME TypeOK, NEW h \in Handlers, Submit(h)
    PROVE  /\ pending' \in Job \cup {NoJob}
           /\ \A c \in Cards : Covers(pending, c) \/ Covers(handler[h].job, c) => Covers(pending', c)
<1> DEFINE job == handler[h].job
<1>1. job \in Job \cup {NoJob} /\ pending \in Job \cup {NoJob}
    BY DEF Submit, TypeOK, Invocation, Idle
<1>2. CASE job = NoJob
    BY <1>1, <1>2, NoJobCoversNothing DEF Submit
<1>3. CASE job # NoJob /\ pending = NoJob
    <2>1. job \in Job /\ pending' = Unskipped(job)
        BY <1>1, <1>3 DEF Submit
    <2> QED BY <1>3, <2>1, UnskippedCovers, NoJobCoversNothing
<1>4. CASE job # NoJob /\ pending # NoJob
    <2>1. job \in Job /\ pending \in Job /\ pending' = Coalesce(pending, Unskipped(job))
        BY <1>1, <1>4 DEF Submit
    <2>2. Unskipped(job) \in Job /\ \A c \in Cards : Covers(job, c) => Covers(Unskipped(job), c)
        BY <2>1, UnskippedCovers
    <2>3. pending' \in Job
        BY <2>1, <2>2, CoalesceIsAJob
    <2>4. \A c \in Cards : Covers(pending, c) \/ Covers(job, c) => Covers(pending', c)
        BY <2>1, <2>2, CoalesceCovers
    <2> QED BY <2>3, <2>4
<1> QED BY <1>2, <1>3, <1>4

--------------------------------------------------------------------------------
(* Types *)

\* The end of a run leaves one digest a card and no new rows (reconcile.py).
LEMMA EndOfRunTyped ==
    ASSUME TypeOK, NEW lost, EndOfRun(lost)
    PROVE  /\ digest' \in [Cards -> Contents] /\ tracked' \subseteq tracked
           /\ doubt' \subseteq Cards /\ Unrecorded(lost) \subseteq Cards /\ running' = Idle
BY DEF TypeOK, EndOfRun, Unrecorded, Stamped, StillTracked, Taken, Drawing, Idle

\* The queue starts well formed.
LEMMA RefreshInitTyped == Init => TypeOK
<1> SUFFICES ASSUME Init PROVE TypeOK
    OBVIOUS
<1>1. (CHOOSE v \in Contents : TRUE) \in Contents
    BY RefreshAssumption
<1> QED BY <1>1, RefreshAssumption DEF Init, TypeOK, Idle, NoJob

\* The fields of a running invocation.
LEMMA InvocationFields ==
    ASSUME TypeOK, NEW h \in Handlers, handler[h].at # "idle"
    PROVE  /\ handler[h] \in Invocation
           /\ handler[h].card \in Tapped \cup {NoCard}
           /\ handler[h].val \in Contents
           /\ handler[h].job \in Job \cup {NoJob}
           /\ handler[h].at # "submit" => handler[h].card \in Cards
           /\ handler[h].answer # "none" => handler[h].card \in Tapped /\ handler[h].answer \in Answers
BY RefreshAssumption DEF TypeOK, Invocation, Idle

\* Every step keeps the queue well formed.
LEMMA RefreshStepTyped == TypeOK /\ [Next]_vars => TypeOK'
<1> SUFFICES ASSUME TypeOK, [Next]_vars PROVE TypeOK'
    OBVIOUS
<1> USE RefreshAssumption DEF TypeOK
<1>1. ASSUME NEW h \in Handlers, NEW item \in Tapped \cup {NoCard}, NEW v \in Contents,
             NEW scope \in ScopesFrom(item), Change(h, item, scope, v)
      PROVE  TypeOK'
    <2> DEFINE behind == (scope \cap tracked) \ {item}
    <2>1. scope \subseteq Cards
        BY DEF ScopesFrom
    <2>2. JobFor(item, scope, behind) \in Job \cup {NoJob}
        BY <2>1 DEF JobFor, Job
    <2>3. content' \in [Cards -> Contents] /\ owed' \subseteq Cards
        BY <1>1, <2>1 DEF Change
    <2> DEFINE Begun(at) == [at |-> at, card |-> item, val |-> v,
                             job |-> JobFor(item, scope, behind), answer |-> "none"]
    <2>4. Begun("submit") \in Invocation /\ (item # NoCard => Begun("edit") \in Invocation)
        <3> HIDE DEF behind
        <3> QED BY <2>2 DEF Invocation
    <2>5. handler' = [handler EXCEPT ![h] = Begun(IF item # NoCard /\ digest[item] # v
                                                 THEN "edit" ELSE "submit")]
        BY <1>1 DEF Change
    <2>6. handler' \in [Handlers -> Invocation \cup {Idle}]
        <3> HIDE DEF Begun
        <3> QED BY <2>4, <2>5
    <2>7. changes' \in 0 .. MaxChanges
        BY <1>1 DEF Change
    <2> QED BY <1>1, <2>3, <2>6, <2>7 DEF Change
<1>2. ASSUME NEW h \in Handlers, EditCurrent(h) PROVE TypeOK'
    <2>1. handler[h].card \in Cards /\ handler[h].val \in Contents /\ handler[h] \in Invocation
        BY <1>2, InvocationFields DEF EditCurrent
    <2>2. PICK a \in Answers : /\ shown' = Shows(handler[h].card, handler[h].val, a)
                               /\ failed' = FailedAfter(handler[h].card, handler[h].val, a)
                               /\ doubt' = DoubtAfter(handler[h].card, a)
                               /\ handler' = [handler EXCEPT ![h].at = "submit", ![h].answer = a]
        BY <1>2 DEF EditCurrent
    <2>3. shown' \in [Cards -> Contents] /\ failed' \subseteq Cards /\ doubt' \subseteq Cards
        BY <2>1, <2>2 DEF Shows, FailedAfter, DoubtAfter
    <2>4. handler' \in [Handlers -> Invocation \cup {Idle}]
        BY <2>1, <2>2 DEF Invocation
    <2> QED BY <1>2, <2>3, <2>4 DEF EditCurrent
<1>3. ASSUME NEW h \in Handlers, handler[h].at = "submit" PROVE AfterSubmit(h) \in Invocation \cup {Idle}
    <2>1. handler[h].answer \in {"ok", "gone"} => [handler[h] EXCEPT !.at = "reconcile"] \in Invocation
        BY <1>3, InvocationFields DEF Invocation
    <2> QED BY <2>1 DEF AfterSubmit
<1>4. ASSUME NEW h \in Handlers, Submit(h) PROVE TypeOK'
    <2>1. pending' \in Job \cup {NoJob}
        BY <1>4, SubmitCovers
    <2>2. handler' \in [Handlers -> Invocation \cup {Idle}]
        BY <1>3, <1>4 DEF Submit
    <2> QED BY <1>4, <2>1, <2>2 DEF Submit
<1>5. ASSUME NEW h \in Handlers, SubmitRefused(h) PROVE TypeOK'
    <2>1. handler' \in [Handlers -> Invocation \cup {Idle}]
        BY <1>3, <1>5 DEF SubmitRefused
    <2> QED BY <1>5, <2>1 DEF SubmitRefused, CoveredBy
<1>6. ASSUME NEW h \in Handlers, Reconcile(h) PROVE TypeOK'
    <2>1. handler[h].val \in Contents /\ handler[h].card \in Cards
        BY <1>6, InvocationFields DEF Reconcile
    <2> QED BY <1>6, <2>1 DEF Reconcile
<1>7. CASE Take
    BY <1>7 DEF Take, Taken
<1>8. CASE Read
    <2>1. running.job \in Job
        BY <1>8 DEF Read, Taken, Drawing, Idle
    <2> QED BY <1>8, <2>1 DEF Read, Drawing, CoveredBy
<1>9. ASSUME NEW c \in Cards, DrawCard(c) PROVE TypeOK'
    <2>1. running \in Drawing
        BY <1>9 DEF DrawCard, Taken, Drawing, Idle
    <2>2. running' \in Drawing
        <3>1. PICK a \in Answers :
                  running' = [running EXCEPT !.todo = @ \ {c},
                                             !.done = IF a = "ok" THEN @ \cup {c} ELSE @,
                                             !.dead = IF a = "gone" THEN @ \cup {c} ELSE @]
            BY <1>9 DEF DrawCard
        <3> QED BY <2>1, <3>1 DEF Drawing
    <2>3. shown' \in [Cards -> Contents] /\ failed' \subseteq Cards /\ doubt' \subseteq Cards
        BY <1>9, <2>1 DEF DrawCard, Drawing, Shows, FailedAfter, DoubtAfter
    <2> QED BY <1>9, <2>2, <2>3 DEF DrawCard
<1>10. ASSUME NEW lost \in BOOLEAN, FinishJob(lost) PROVE TypeOK'
    BY <1>10, EndOfRunTyped DEF FinishJob
<1>11. ASSUME NEW lost \in BOOLEAN, TimeOut(lost) PROVE TypeOK'
    <2>1. running.at = "taken" \/ running \in Drawing
        BY <1>11 DEF TimeOut, Taken, Drawing, Idle
    <2>2. failed' \subseteq Cards
        BY <1>11, <2>1, EndOfRunTyped DEF TimeOut, CoveredBy, Drawing
    <2> QED BY <1>11, <2>2, EndOfRunTyped DEF TimeOut
<1>12. ASSUME running # Idle PROVE Requeued(running.job) \in Job \cup {NoJob}
    BY <1>12 DEF Requeued, Taken, Drawing
<1>13. ASSUME NEW lost \in BOOLEAN, Stop(lost) PROVE TypeOK'
    BY <1>12, <1>13, EndOfRunTyped DEF Stop
<1>14. CASE Drained
    BY <1>14 DEF Drained
<1>15. ASSUME NEW lost \in BOOLEAN, Deadline(lost) PROVE TypeOK'
    BY <1>12, <1>15, EndOfRunTyped DEF Deadline, CoveredBy
<1>16. CASE UNCHANGED vars
    BY <1>16 DEF vars
<1> QED
    BY <1>1, <1>2, <1>4, <1>5, <1>6, <1>7, <1>8, <1>9, <1>10, <1>11, <1>13, <1>14, <1>15, <1>16
    DEF Next, Handle, HandlerStep, EndOfJob

\* The queue, its jobs and the invocations stay well formed (card_refresh.py).
THEOREM RefreshTyped == Spec => []TypeOK
BY RefreshInitTyped, RefreshStepTyped, PTL DEF Spec

--------------------------------------------------------------------------------
(* No card is forgotten *)

\* What ends the wait for a card: the job that covers it reads, or gives up before it has read,
\* or is refused.
WaitEnds(c) ==
    \/ (Read \/ \E lost \in BOOLEAN : TimeOut(lost)) /\ running.at = "taken" /\ Covers(running.job, c)
    \/ \E h \in Handlers : SubmitRefused(h) /\ Covers(handler[h].job, c)

\* An invocation that goes on unsubmitted keeps its job.
LEMMA InvocationKeepsWaiting ==
    ASSUME TypeOK, NEW h \in Handlers, NEW c \in Cards,
           Unsubmitted(h), Covers(handler[h].job, c), UNCHANGED pending \/ Submit(h),
           handler'[h] = handler[h] \/ EditCurrent(h) \/ Submit(h) \/ Reconcile(h)
    PROVE  Awaited(c)'
<1>1. CASE Submit(h)
    BY <1>1, SubmitCovers DEF Awaited
<1>2. CASE handler'[h] = handler[h] /\ UNCHANGED pending
    BY <1>2 DEF Awaited, Unsubmitted
<1>3. CASE EditCurrent(h)
    <2>1. handler'[h].at = "submit" /\ handler'[h].job = handler[h].job
        BY <1>3, InvocationFields DEF EditCurrent, TypeOK, Invocation, Unsubmitted
    <2> QED BY <2>1 DEF Awaited, Unsubmitted
<1> QED BY <1>1, <1>2, <1>3 DEF Reconcile, Unsubmitted

\* In service, a card that is awaited stays so until its wait ends.
LEMMA AwaitedStays ==
    ASSUME TypeOK, [Next]_vars, NEW c \in Cards, Awaited(c), InService', ~WaitEnds(c)
    PROVE  Awaited(c)'
<1>1. ASSUME NEW h \in Handlers, NEW item, NEW scope, NEW v, Change(h, item, scope, v)
      PROVE  Awaited(c)'
    BY <1>1 DEF Change, Awaited, Unsubmitted, TypeOK, Idle
<1>2. ASSUME NEW h \in Handlers, EditCurrent(h) PROVE Awaited(c)'
    <2>1. ASSUME NEW k \in Handlers, Unsubmitted(k), Covers(handler[k].job, c) PROVE Awaited(c)'
        <3>1. handler'[k] = handler[k] \/ EditCurrent(k)
            BY <1>2 DEF EditCurrent, TypeOK
        <3> QED BY <1>2, <2>1, <3>1, InvocationKeepsWaiting DEF EditCurrent
    <2> QED BY <1>2, <2>1 DEF EditCurrent, Awaited
<1>3. ASSUME NEW h \in Handlers, Submit(h) PROVE Awaited(c)'
    <2>1. CASE Covers(pending, c) \/ Covers(handler[h].job, c)
        BY <1>3, <2>1, SubmitCovers DEF Awaited
    <2>2. ASSUME NEW k \in Handlers, k # h, Unsubmitted(k), Covers(handler[k].job, c)
          PROVE  Awaited(c)'
        BY <1>3, <2>2 DEF Submit, Awaited, Unsubmitted, TypeOK
    <2> QED BY <1>3, <2>1, <2>2 DEF Submit, Awaited
<1>4. ASSUME NEW h \in Handlers, SubmitRefused(h) PROVE Awaited(c)'
    BY <1>4 DEF SubmitRefused, Awaited, Unsubmitted, TypeOK, WaitEnds
<1>5. ASSUME NEW h \in Handlers, Reconcile(h) PROVE Awaited(c)'
    BY <1>5 DEF Reconcile, Awaited, Unsubmitted, TypeOK
<1>6. CASE Take
    BY <1>6 DEF Take, Awaited, Unsubmitted, Idle
<1>7. CASE Read
    BY <1>7 DEF Read, Awaited, Unsubmitted, WaitEnds
<1>8. ASSUME NEW d \in Cards, DrawCard(d) PROVE Awaited(c)'
    BY <1>8 DEF DrawCard, Awaited, Unsubmitted
<1>9. ASSUME NEW lost \in BOOLEAN, FinishJob(lost) PROVE Awaited(c)'
    BY <1>9 DEF FinishJob, Awaited, Unsubmitted
<1>10. ASSUME NEW lost \in BOOLEAN, TimeOut(lost) PROVE Awaited(c)'
    BY <1>10 DEF TimeOut, Awaited, Unsubmitted, WaitEnds
<1>11. ASSUME NEW lost \in BOOLEAN, Stop(lost) \/ Drained \/ Deadline(lost) PROVE Awaited(c)'
    BY <1>11 DEF Stop, Drained, Deadline, InService
<1>12. CASE UNCHANGED vars
    BY <1>12 DEF vars, Awaited, Unsubmitted
<1> QED
    BY <1>1, <1>2, <1>3, <1>4, <1>5, <1>6, <1>7, <1>8, <1>9, <1>10, <1>11, <1>12
    DEF Next, Handle, HandlerStep, EndOfJob

\* A queue out of service does not come back, and no card gets its row back.
LEMMA ServiceEnds ==
    ASSUME TypeOK, [Next]_vars
    PROVE  (InService' => InService) /\ tracked' \subseteq tracked
<1>1. ASSUME NEW lost \in BOOLEAN, FinishJob(lost) \/ TimeOut(lost) \/ Stop(lost) \/ Deadline(lost)
      PROVE  (InService' => InService) /\ tracked' \subseteq tracked
    BY <1>1, EndOfRunTyped DEF FinishJob, TimeOut, Stop, Deadline, InService
<1> QED
    BY <1>1 DEF Next, Handle, HandlerStep, EndOfJob, vars, InService, Change, EditCurrent, Submit,
       SubmitRefused, Reconcile, Take, Read, DrawCard, Drained

\* A change leaves each card behind the one tapped to its invocation.
LEMMA ChangeAwaits ==
    ASSUME TypeOK, NEW h \in Handlers, NEW item \in Tapped \cup {NoCard}, NEW v \in Contents,
           NEW scope \in ScopesFrom(item), Change(h, item, scope, v),
           NEW c \in (scope \cap tracked) \ {item}
    PROVE  Awaited(c)'
<1> DEFINE behind == (scope \cap tracked) \ {item}
<1>1. JobFor(item, scope, behind) = [skip |-> item, scope |-> scope]
    BY DEF JobFor
<1>2. handler'[h].job = [skip |-> item, scope |-> scope] /\ handler'[h].at \in {"edit", "submit"}
    BY <1>1 DEF Change, TypeOK
<1> QED BY <1>2 DEF Awaited, Unsubmitted, Covers

\* Owed cards are those a change left behind and no ended wait has taken away.
LEMMA OwedStep ==
    ASSUME TypeOK, [Next]_vars, NEW c \in Cards, c \in owed', c \in tracked', InService'
    PROVE  (c \in owed /\ ~WaitEnds(c)) \/ Awaited(c)'
<1>1. c \in tracked
    BY ServiceEnds
<1>2. ASSUME WaitEnds(c) PROVE c \notin owed'
    <2>1. CASE Read /\ running.at = "taken" /\ Covers(running.job, c)
        BY <1>1, <2>1 DEF Read, CoveredBy
    <2>2. ASSUME NEW lost \in BOOLEAN, TimeOut(lost), running.at = "taken", Covers(running.job, c)
          PROVE  c \notin owed'
        BY <1>1, <2>2 DEF TimeOut, CoveredBy
    <2>3. ASSUME NEW h \in Handlers, SubmitRefused(h), Covers(handler[h].job, c) PROVE c \notin owed'
        <3>1. handler[h].job \in Job
            BY <2>3, InvocationFields DEF SubmitRefused
        <3> QED BY <1>1, <2>3, <3>1, UnskippedCovers DEF SubmitRefused, CoveredBy
    <2> QED BY <1>2, <2>1, <2>2, <2>3 DEF WaitEnds
<1>3. ASSUME NEW h \in Handlers, NEW item \in Tapped \cup {NoCard}, NEW v \in Contents,
             NEW scope \in ScopesFrom(item), Change(h, item, scope, v)
      PROVE  c \in owed \/ Awaited(c)'
    BY <1>3, ChangeAwaits DEF Change
<1>4. c \in owed \/ Awaited(c)'
    BY <1>3 DEF Next, Handle, HandlerStep, EndOfJob, vars, EditCurrent, Submit, SubmitRefused,
       Reconcile, Take, Read, DrawCard, FinishJob, TimeOut, Stop, Drained, Deadline
<1> QED BY <1>2, <1>4

\* In service, no card left to the queue is forgotten, however submits, merges, refusals, reads
\* and timeouts interleave (card_refresh.py, submit, take and coalesce).
THEOREM NothingForgotten == Spec => []NoCardForgotten
<1>1. Init => NoCardForgotten
    BY DEF Init, NoCardForgotten
<1>2. TypeOK /\ NoCardForgotten /\ [Next]_vars => NoCardForgotten'
    <2> SUFFICES ASSUME TypeOK, NoCardForgotten, [Next]_vars, InService',
                        NEW c \in owed', c \in tracked'
                 PROVE  Awaited(c)'
        BY DEF NoCardForgotten
    <2>1. TypeOK' /\ InService /\ c \in tracked
        BY RefreshStepTyped, ServiceEnds
    <2>2. c \in Cards
        BY <2>1 DEF TypeOK
    <2>3. c \in owed => Awaited(c)
        BY <2>1 DEF NoCardForgotten
    <2> QED BY <2>2, <2>3, AwaitedStays, OwedStep
<1> QED BY <1>1, <1>2, RefreshTyped, PTL DEF Spec

--------------------------------------------------------------------------------
(* Digests are truthful *)

\* In the middle of a job too: a card without a doubt about it shows its digest, or what the job
\* has just drawn.  A card with a doubt about it counts as failed.
DrawnInv ==
    /\ doubt \subseteq failed
    /\ running.at = "drawing" => running.done \cap running.todo = {}
    /\ \A c \in Away \ doubt :
            shown[c] = IF running.at = "drawing" /\ c \in running.done THEN running.val[c] ELSE digest[c]

\* A run that ends keeps the digests of the cards it is not in doubt about.
LEMMA EndOfRunTruthful ==
    ASSUME TypeOK, DrawnInv, NEW lost \in BOOLEAN, EndOfRun(lost), UNCHANGED shown,
           failed \cup Unrecorded(lost) \subseteq failed'
    PROVE  DrawnInv'
<1>1. running' = Idle /\ running'.at # "drawing"
    BY DEF EndOfRun, Idle
<1>2. doubt' \subseteq failed' /\ doubt \subseteq doubt'
    BY DEF DrawnInv, EndOfRun
<1>3. ASSUME NEW c \in Away, c \notin doubt' PROVE shown[c] = digest'[c]
    <2>1. c \in Cards /\ c \notin doubt
        BY <1>2, <1>3 DEF Away
    <2>2. CASE running.at = "drawing" /\ c \in running.done
        <3>1. ~lost /\ digest' = Stamped(running)
            BY <1>3, <2>2 DEF EndOfRun, Unrecorded
        <3> QED BY <1>3, <2>1, <2>2, <3>1 DEF Stamped, DrawnInv
    <2>3. CASE ~(running.at = "drawing" /\ c \in running.done)
        BY <1>3, <2>1, <2>3 DEF EndOfRun, Stamped, DrawnInv, TypeOK
    <2> QED BY <2>2, <2>3
<1> QED BY <1>1, <1>2, <1>3 DEF DrawnInv, Away

\* One edit of a job leaves its card shown as recorded, drawn, or in doubt.
LEMMA DrawTruthful ==
    ASSUME TypeOK, DrawnInv, NEW d \in Cards, DrawCard(d)
    PROVE  DrawnInv'
<1>1. running \in Drawing
    BY DEF DrawCard, TypeOK, Taken, Drawing, Idle
<1>2. PICK a \in Answers :
          /\ shown' = Shows(d, running.val[d], a)
          /\ failed' = FailedAfter(d, running.val[d], a)
          /\ doubt' = DoubtAfter(d, a)
          /\ running' = [running EXCEPT !.todo = @ \ {d},
                                        !.done = IF a = "ok" THEN @ \cup {d} ELSE @,
                                        !.dead = IF a = "gone" THEN @ \cup {d} ELSE @]
    BY DEF DrawCard
<1>3. /\ running'.at = "drawing" /\ running'.val = running.val
      /\ running'.done = (IF a = "ok" THEN running.done \cup {d} ELSE running.done)
      /\ running'.todo = running.todo \ {d}
    BY <1>1, <1>2 DEF Drawing
<1>4. d \in running.todo /\ d \notin running.done /\ running.at = "drawing"
    BY DEF DrawCard, DrawnInv
<1>5. doubt' \subseteq failed'
    BY <1>2 DEF DrawnInv, DoubtAfter, FailedAfter
<1>6. running'.done \cap running'.todo = {}
    BY <1>3, <1>4 DEF DrawnInv
<1>7. ASSUME NEW c \in Away, c \notin doubt'
      PROVE  shown'[c] = IF c \in running'.done THEN running.val[c] ELSE digest[c]
    <2>1. CASE c # d
        BY <1>2, <1>3, <1>4, <1>7, <2>1 DEF Shows, DoubtAfter, DrawnInv, TypeOK, Away
    <2>2. CASE c = d /\ a = "ok"
        BY <1>2, <1>3, <2>2 DEF Shows, Applied, TypeOK
    <2>3. CASE c = d /\ a # "ok"
        <3>1. a # "unanswered" /\ doubt' = doubt
            BY <1>2, <1>7, <2>3 DEF DoubtAfter
        <3> QED BY <1>2, <1>3, <1>4, <1>7, <2>3, <3>1 DEF Shows, Applied, DrawnInv, TypeOK
    <2> QED BY <2>1, <2>2, <2>3
<1> QED BY <1>3, <1>5, <1>6, <1>7 DEF DrawnInv, DrawCard, Away

\* Every step keeps what the digests of those cards say true.
LEMMA DrawnStep == TypeOK /\ DrawnInv /\ [Next]_vars => DrawnInv'
<1> SUFFICES ASSUME TypeOK, DrawnInv, [Next]_vars PROVE DrawnInv'
    OBVIOUS
<1>1. ASSUME NEW h \in Handlers, EditCurrent(h) PROVE DrawnInv'
    <2>1. handler[h].card \notin Away
        BY <1>1, RefreshAssumption DEF EditCurrent, TypeOK, Invocation, Idle, Away
    <2> QED BY <1>1, <2>1 DEF EditCurrent, DrawnInv, Shows, FailedAfter, DoubtAfter, TypeOK, Away
<1>2. ASSUME NEW h \in Handlers, Reconcile(h) PROVE DrawnInv'
    <2>1. handler[h].card \notin Away
        BY <1>2, RefreshAssumption DEF Reconcile, TypeOK, Invocation, Idle, Away
    <2> QED BY <1>2, <2>1 DEF Reconcile, DrawnInv, TypeOK, Away
<1>3. CASE Take
    BY <1>3 DEF Take, DrawnInv, Idle, Away
<1>4. CASE Read
    BY <1>4 DEF Read, DrawnInv, Away
<1>5. ASSUME NEW lost \in BOOLEAN, FinishJob(lost) \/ TimeOut(lost) \/ Stop(lost) \/ Deadline(lost)
      PROVE  DrawnInv'
    BY <1>5, EndOfRunTruthful DEF FinishJob, TimeOut, Stop, Deadline
<1>6. ASSUME NEW h \in Handlers,
             Submit(h) \/ SubmitRefused(h)
                \/ \E item \in Tapped \cup {NoCard}, v \in Contents :
                       \E scope \in ScopesFrom(item) : Change(h, item, scope, v)
      PROVE  DrawnInv'
    BY <1>6 DEF Submit, SubmitRefused, Change, DrawnInv, Away
<1>7. CASE Drained \/ UNCHANGED vars
    BY <1>7 DEF Drained, vars, DrawnInv, Away
<1> QED
    BY <1>1, <1>2, <1>3, <1>4, <1>5, <1>6, <1>7, DrawTruthful
    DEF Next, Handle, HandlerStep, EndOfJob

\* The stamps hold from the start.
LEMMA DrawnAlways == Spec => [](TypeOK /\ DrawnInv)
<1>1. Init => DrawnInv
    BY DEF Init, DrawnInv, Idle, Away
<1> QED BY <1>1, RefreshInitTyped, RefreshStepTyped, DrawnStep, PTL DEF Spec

\* Whatever refusals, timeouts, stops and lost reconciles do to a job, a digest between jobs is
\* that of what Telegram shows unless an answer or a record was lost (reconcile.py).
THEOREM DigestsTruthful == Spec => []DigestsAreTruthful
<1>1. DrawnInv => DigestsAreTruthful
    BY DEF DrawnInv, DigestsAreTruthful
<1> QED BY <1>1, DrawnAlways, PTL

--------------------------------------------------------------------------------
(* Stale cards are due *)

\* A card that is out of date, or about to be drawn out of date, is accounted for.
Due(c) ==
    /\ shown[c] # content[c] =>
           \/ Awaited(c)
           \/ running.at = "drawing" /\ c \in running.todo /\ running.val[c] = content[c]
           \/ c \in failed
    /\ running.at = "drawing" /\ c \in running.todo /\ running.val[c] # content[c] =>
           Awaited(c) \/ c \in failed

DueInv == InService => \A c \in Away \cap tracked : Due(c)

\* A wait that ends leaves the card drawn, about to be drawn as it should be, or failed.
LEMMA WaitEndsDue ==
    ASSUME TypeOK, DrawnInv, NEW c \in Away \cap tracked, WaitEnds(c)
    PROVE  Due(c)'
<1>1. ASSUME Read, running.at = "taken", Covers(running.job, c) PROVE Due(c)'
    <2> DEFINE todo == {d \in CoveredBy(running.job) : digest[d] # content[d]}
    <2>1. /\ c \in CoveredBy(running.job)
          /\ running'.at = "drawing" /\ running'.todo = todo /\ running'.val = content
          /\ failed' = failed \ ((CoveredBy(running.job) \ todo) \ doubt)
        BY <1>1 DEF Read, CoveredBy
    <2>2. CASE c \in todo
        BY <1>1, <2>1, <2>2 DEF Due, Read
    <2>3. CASE c \notin todo /\ c \notin doubt
        <3>1. digest[c] = content[c] /\ shown[c] = digest[c]
            BY <1>1, <2>1, <2>3 DEF DrawnInv
        <3> QED BY <1>1, <2>1, <2>3, <3>1 DEF Due, Read
    <2>4. CASE c \in doubt
        BY <1>1, <2>1, <2>4 DEF Due, Read, DrawnInv
    <2> QED BY <2>2, <2>3, <2>4
<1>2. ASSUME NEW lost \in BOOLEAN, TimeOut(lost), running.at = "taken", Covers(running.job, c)
      PROVE  Due(c)'
    BY <1>2 DEF TimeOut, CoveredBy, Due
<1>3. ASSUME NEW h \in Handlers, SubmitRefused(h), Covers(handler[h].job, c) PROVE Due(c)'
    <2>1. handler[h].job \in Job /\ c \in Cards
        BY <1>3, InvocationFields DEF SubmitRefused, Away
    <2>2. Covers(Unskipped(handler[h].job), c)
        BY <1>3, <2>1, UnskippedCovers
    <2> QED BY <1>3, <2>2 DEF SubmitRefused, CoveredBy, Due
<1> QED BY <1>1, <1>2, <1>3 DEF WaitEnds

\* A step that ends no wait for a card leaves it accounted for.
LEMMA DueStep ==
    ASSUME TypeOK, DrawnInv, [Next]_vars, InService', NEW c \in Away \cap tracked, Due(c),
           ~WaitEnds(c)
    PROVE  Due(c)'
<1> SUFFICES ASSUME ~Awaited(c)' PROVE Due(c)'
    BY DEF Due
<1>1. c \in Cards /\ c \in tracked /\ c \notin Tapped /\ c # NoCard
    BY RefreshAssumption DEF Away
<1>2. ~Awaited(c)
    BY <1>1, AwaitedStays
<1>3. ASSUME NEW h \in Handlers, NEW item \in Tapped \cup {NoCard}, NEW v \in Contents,
             NEW scope \in ScopesFrom(item), Change(h, item, scope, v)
      PROVE  Due(c)'
    <2>1. c \notin (scope \cap tracked) \ {item}
        BY <1>3, ChangeAwaits
    <2>2. content'[c] = content[c]
        BY <1>1, <1>3, <2>1 DEF Change
    <2> QED BY <1>2, <1>3, <2>2 DEF Change, Due
<1>4. ASSUME NEW h \in Handlers, EditCurrent(h) PROVE Due(c)'
    <2>1. handler[h].card # c
        BY <1>1, <1>4, InvocationFields DEF EditCurrent, TypeOK, Invocation, Idle
    <2> QED BY <1>1, <1>2, <1>4, <2>1 DEF EditCurrent, Due, Shows, FailedAfter, TypeOK
<1>5. ASSUME NEW h \in Handlers, Submit(h) \/ SubmitRefused(h) \/ Reconcile(h) PROVE Due(c)'
    BY <1>2, <1>5 DEF Submit, SubmitRefused, Reconcile, Due
<1>6. CASE Take
    BY <1>2, <1>6 DEF Take, Due, Idle
<1>7. CASE Read
    <2>1. ~Covers(running.job, c) /\ running.at = "taken"
        BY <1>7 DEF WaitEnds, Read
    <2>2. c \notin CoveredBy(running.job)
        BY <2>1 DEF CoveredBy
    <2>3. running'.todo \subseteq CoveredBy(running.job) /\ (c \in failed => c \in failed')
        BY <1>7, <2>2 DEF Read
    <2> QED BY <1>2, <1>7, <2>1, <2>2, <2>3 DEF Read, Due
<1>8. ASSUME NEW d \in Cards, DrawCard(d) PROVE Due(c)'
    <2>1. running \in Drawing /\ running.at = "drawing" /\ d \in running.todo
        BY <1>8 DEF DrawCard, TypeOK, Taken, Drawing, Idle
    <2>2. PICK a \in Answers :
              /\ shown' = Shows(d, running.val[d], a)
              /\ failed' = FailedAfter(d, running.val[d], a)
              /\ running' = [running EXCEPT !.todo = @ \ {d},
                                            !.done = IF a = "ok" THEN @ \cup {d} ELSE @,
                                            !.dead = IF a = "gone" THEN @ \cup {d} ELSE @]
              /\ content' = content
        BY <1>8 DEF DrawCard
    <2>3. running'.at = "drawing" /\ running'.todo = running.todo \ {d} /\ running'.val = running.val
        BY <2>1, <2>2 DEF Drawing
    <2>4. CASE c # d
        BY <1>1, <1>2, <2>1, <2>2, <2>3, <2>4 DEF Due, Shows, FailedAfter, TypeOK
    <2>5. CASE c = d /\ a # "ok"
        BY <2>2, <2>5 DEF Due, FailedAfter
    <2>6. CASE c = d /\ a = "ok"
        <3>1. shown'[c] = running.val[c] /\ c \notin running'.todo
            BY <1>1, <2>2, <2>3, <2>6 DEF Shows, Applied, TypeOK
        <3>2. running.val[c] # content[c] => c \in failed'
            BY <1>2, <2>1, <2>2, <2>6 DEF Due, FailedAfter
        <3> QED BY <2>2, <3>1, <3>2 DEF Due
    <2> QED BY <2>4, <2>5, <2>6
<1>9. ASSUME NEW lost \in BOOLEAN, FinishJob(lost) PROVE Due(c)'
    BY <1>2, <1>9 DEF FinishJob, EndOfRun, Idle, Due
<1>10. ASSUME NEW lost \in BOOLEAN, TimeOut(lost) PROVE Due(c)'
    BY <1>2, <1>10 DEF TimeOut, EndOfRun, Idle, Due
<1>11. ASSUME NEW lost \in BOOLEAN, Stop(lost) \/ Deadline(lost) \/ Drained PROVE Due(c)'
    BY <1>11 DEF Stop, Deadline, Drained, InService
<1>12. CASE UNCHANGED vars
    BY <1>2, <1>12 DEF vars, Due
<1> QED
    BY <1>3, <1>4, <1>5, <1>6, <1>7, <1>8, <1>9, <1>10, <1>11, <1>12
    DEF Next, Handle, HandlerStep, EndOfJob

\* In service, a card only the worker draws is never out of date in silence (card_refresh.py and
\* the digests of api_wrapper.py).
THEOREM StaleCardsDue == Spec => []StaleCardsAreDue
<1>1. Init => DueInv
    <2> SUFFICES ASSUME Init PROVE \A c \in Away \cap tracked : Due(c)
        BY DEF DueInv
    <2>1. shown = content /\ running.at # "drawing"
        BY DEF Init, Idle
    <2> QED BY <2>1 DEF Due
<1>2. TypeOK /\ DrawnInv /\ DueInv /\ [Next]_vars => DueInv'
    <2> SUFFICES ASSUME TypeOK, DrawnInv, DueInv, [Next]_vars, InService',
                        NEW c \in Away \cap tracked'
                 PROVE  Due(c)'
        BY DEF DueInv, Away
    <2>1. InService /\ c \in Away \cap tracked
        BY ServiceEnds
    <2>2. Due(c)
        BY <2>1 DEF DueInv
    <2> QED BY <2>1, <2>2, WaitEndsDue, DueStep
<1>3. DueInv => StaleCardsAreDue
    BY DEF DueInv, Due, StaleCardsAreDue
<1> QED BY <1>1, <1>2, <1>3, DrawnAlways, PTL DEF Spec

==============================================================================
