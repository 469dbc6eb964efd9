------------------------- MODULE StartNoticesProofs -------------------------
(***************************************************************************)
(* Theorems about StartNotices, for any people and leads, and any number   *)
(* of stops, faults and edits.                                             *)
(***************************************************************************)
EXTENDS StartNotices, TLAPS

-----------------------------------------------------------------------------
(* Type correctness *)

Hearing == [remind : Nat, start : Nat, gone : BOOLEAN]

Reminders == {Case("remind", p) : p \in People}
StartCalls == {Case("start", p) : p \in People}

\* What each variable the invariants speak of holds.
NoticesTyped ==
    /\ place \in [People -> {"out", "waiting", "in"}]
    /\ reminded \in [People -> BOOLEAN] /\ told \in BOOLEAN
    /\ loop \in [Jobs -> {"asleep", "nominating", "sweeping", "draining"}]
    /\ due \in [Jobs -> SUBSET (Reminders \cup {Case("start", TheMeeting)})]
    /\ due["remind"] \subseteq Reminders /\ due["start"] \subseteq {Case("start", TheMeeting)}
    /\ calls \in [Jobs -> SUBSET (Reminders \cup StartCalls)]
    /\ calls["remind"] \subseteq Reminders /\ calls["start"] \subseteq StartCalls
    /\ heard \in [People -> Hearing]

\* A run nominates cases of its own job.
LEMMA NominatedTyped ==
    /\ Nominated("remind") \subseteq Reminders
    /\ Nominated("start") \subseteq {Case("start", TheMeeting)}
BY DEF Nominated, Reminders, Case

\* A case releases calls of its own job, to people.
LEMMA ReleasedTyped ==
    /\ \A p \in People : Released(Case("remind", p)) = {Case("remind", p)}
    /\ Released(Case("start", TheMeeting)) = {Case("start", p) : p \in Recipients}
    /\ Recipients \subseteq People
<1>1. \A p \in People : Released(Case("remind", p)) = {Case("remind", p)}
    BY DEF Released, Case
<1>2. Released(Case("start", TheMeeting)) = {Case("start", p) : p \in Recipients}
    BY NoticesAssumption DEF Released, Case
<1> QED
    BY <1>1, <1>2 DEF Recipients

-----------------------------------------------------------------------------
(* Once for each place *)

UnderWay(p) == Case("remind", p) \in calls["remind"]

\* A reminder is flagged with its call or behind it. The call of a place given up is marked as gone and
\* its flag is down; the next one of that person is not taken before that call is through.
RemindedOnce(p) ==
    /\ heard[p].gone => UnderWay(p) /\ ~reminded[p]
    /\ place[p] = "out" => ~reminded[p]
    /\ ~reminded[p] => heard[p].remind = 0 /\ (UnderWay(p) => heard[p].gone)
    /\ reminded[p] => \/ heard[p].remind = 1 /\ ~UnderWay(p)
                      \/ heard[p].remind = 0 /\ (UnderWay(p) \/ Case("remind", p) \in lost)

\* The start is announced by the calls of one commit.
AnnouncedOnce(p) ==
    /\ ~told => heard[p].start = 0 /\ Case("start", p) \notin calls["start"]
    /\ heard[p].start \in {0, 1}
    /\ Case("start", p) \in calls["start"] => heard[p].start = 0

\* A commit finds the queue of its job empty.
QueuesDrained == \A job \in Jobs : loop[job] # "draining" => calls[job] = {}

NoticesInv ==
    /\ NoticesTyped /\ QueuesDrained
    /\ \A p \in People : RemindedOnce(p) /\ AnnouncedOnce(p)

-----------------------------------------------------------------------------
(* The steps *)

\* A place that is given up has heard nothing, and its reminder is marked if it is under way.
LEMMA VacatedHearing ==
    ASSUME NoticesTyped, NEW p \in People
    PROVE  /\ Vacated(p) \in Hearing /\ Vacated(p).remind = 0 /\ Vacated(p).start = heard[p].start
           /\ Vacated(p).gone <=> UnderWay(p)
<1>1. heard[p] \in Hearing
    BY DEF NoticesTyped
<1>2. /\ Vacated(p).remind = 0 /\ Vacated(p).start = heard[p].start
      /\ Vacated(p).gone <=> UnderWay(p)
    BY <1>1 DEF Vacated, UnderWay, Hearing
<1>3. Vacated(p) \in Hearing
    <2>1. \A b \in BOOLEAN : [heard[p] EXCEPT !.remind = 0, !.gone = b] \in Hearing
        BY <1>1 DEF Hearing
    <2>2. (Case("remind", p) \in calls["remind"]) \in BOOLEAN
        OBVIOUS
    <2> QED
        BY <2>1, <2>2, Zenon DEF Vacated
<1> QED
    BY <1>2, <1>3

LEMMA InitNotices == Init => NoticesInv
<1> SUFFICES ASSUME Init PROVE NoticesInv
    OBVIOUS
<1>1. \A p \in People : heard[p] = [remind |-> 0, start |-> 0, gone |-> FALSE]
    BY DEF Init
<1>2. NoticesTyped /\ QueuesDrained
    BY DEF Init, NoticesTyped, QueuesDrained, Hearing, Jobs
<1>3. \A p \in People : RemindedOnce(p) /\ AnnouncedOnce(p)
    BY <1>1 DEF Init, RemindedOnce, AnnouncedOnce, UnderWay, Jobs
<1> QED
    BY <1>2, <1>3 DEF NoticesInv

\* Bot and owner.
LEMMA EditStep ==
    ASSUME NoticesInv,
           \/ \E t \in 1 .. LastNow : Reschedule(t)
           \/ ClearDate \/ Reactivate
           \/ \E p \in People :
                 \/ \E to \in {"in", "waiting"} : Join(p, to)
                 \/ Promote(p) \/ ToggleStartReminder(p) \/ Depart(p)
    PROVE  NoticesInv'
<1>1. UNCHANGED <<told, loop, due, calls, reminded, heard, lost>>
    BY DEF Edit, service, Reschedule, ClearDate, Reactivate, Join, Promote, ToggleStartReminder, Depart
<1>2. /\ place' \in [People -> {"out", "waiting", "in"}]
      /\ \A p \in People : place'[p] = "out" => place[p] = "out"
    BY DEF NoticesInv, NoticesTyped, Reschedule, ClearDate, Reactivate, Join, Promote, ToggleStartReminder, Depart
<1> QED
    BY <1>1, <1>2 DEF NoticesInv, NoticesTyped, QueuesDrained, RemindedOnce, AnnouncedOnce, UnderWay

\* A place is given up, its flag goes down, its reminder under way is marked.
LEMMA LeaveStep == ASSUME NoticesInv, NEW p \in People, Leave(p) PROVE NoticesInv'
<1>1. /\ place' = [place EXCEPT ![p] = "out"] /\ reminded' = [reminded EXCEPT ![p] = FALSE]
      /\ heard' = [heard EXCEPT ![p] = Vacated(p)] /\ lost' = lost \ {Case("remind", p)}
      /\ UNCHANGED <<told, loop, due, calls>>
    BY DEF Leave, Edit, service, Unlinked
<1>2. /\ Vacated(p) \in Hearing /\ Vacated(p).remind = 0 /\ Vacated(p).start = heard[p].start
      /\ Vacated(p).gone <=> UnderWay(p)
    BY VacatedHearing DEF NoticesInv
<1>3. NoticesTyped' /\ QueuesDrained'
    BY <1>1, <1>2 DEF NoticesInv, NoticesTyped, QueuesDrained
<1>4. ASSUME NEW q \in People PROVE (RemindedOnce(q) /\ AnnouncedOnce(q))'
    <2>1. RemindedOnce(q) /\ AnnouncedOnce(q) /\ NoticesTyped
        BY DEF NoticesInv
    <2>2. CASE q = p
        BY <1>1, <1>2, <2>1, <2>2 DEF NoticesTyped, RemindedOnce, AnnouncedOnce, UnderWay
    <2>3. CASE q # p
        <3>1. Case("remind", q) # Case("remind", p)
            BY <2>3 DEF Case
        <3> QED BY <1>1, <2>1, <2>3, <3>1 DEF NoticesTyped, RemindedOnce, AnnouncedOnce, UnderWay
    <2> QED BY <2>2, <2>3
<1> QED
    BY <1>3, <1>4 DEF NoticesInv

\* The end of the meeting is everybody's leaving.
LEMMA DeactivateStep == ASSUME NoticesInv, Deactivate PROVE NoticesInv'
<1>1. /\ place' = [p \in People |-> "out"] /\ reminded' = [p \in People |-> FALSE]
      /\ heard' = [p \in People |-> IF place[p] = "out" THEN heard[p] ELSE Vacated(p)]
      /\ UNCHANGED <<told, loop, due, calls>>
    BY DEF Deactivate, Edit, service
<1>2. \A p \in People : /\ Vacated(p) \in Hearing /\ Vacated(p).remind = 0
                         /\ (Vacated(p).gone <=> UnderWay(p)) /\ Vacated(p).start = heard[p].start
    BY VacatedHearing DEF NoticesInv
<1>3. NoticesTyped' /\ QueuesDrained'
    BY <1>1, <1>2 DEF NoticesInv, NoticesTyped, QueuesDrained
<1>4. \A p \in People : (RemindedOnce(p) /\ AnnouncedOnce(p))'
    BY <1>1, <1>2 DEF NoticesInv, NoticesTyped, RemindedOnce, AnnouncedOnce, UnderWay
<1> QED
    BY <1>3, <1>4 DEF NoticesInv

LEMMA LoopStep ==
    ASSUME NoticesInv, NEW job \in Jobs,
           Wake(job) \/ Nominate(job) \/ NominateFails(job) \/ Drained(job) \/ Finish(job) \/ \E case \in due[job] : TakeFails(job, case)
    PROVE  NoticesInv'
BY NominatedTyped DEF NoticesInv, NoticesTyped, QueuesDrained, RemindedOnce, AnnouncedOnce, UnderWay, meeting, Jobs,
       Wake, Nominate, NominateFails, Drained, Finish, TakeFails, Step, RunEnds

\* What a stop takes from the queues is recorded as lost, and nothing is under way after it.
LEMMA StopStep == ASSUME NoticesInv, Stop \/ Restart PROVE NoticesInv'
<1>1. CASE Restart
    BY <1>1 DEF NoticesInv, NoticesTyped, QueuesDrained, RemindedOnce, AnnouncedOnce, UnderWay, meeting, Restart
<1>2. CASE Stop
    <2>1. /\ loop' = [job \in Jobs |-> "asleep"] /\ due' = [job \in Jobs |-> {}] /\ calls' = [job \in Jobs |-> {}]
          /\ heard' = [p \in People |-> [heard[p] EXCEPT !.gone = FALSE]]
          /\ lost \subseteq lost' /\ \A job \in Jobs : calls[job] \subseteq lost'
          /\ UNCHANGED <<place, reminded, told>>
        BY <1>2 DEF Stop, meeting
    <2>2. \A p \in People : /\ heard'[p] \in Hearing /\ ~heard'[p].gone
                             /\ heard'[p].remind = heard[p].remind /\ heard'[p].start = heard[p].start
        BY <2>1 DEF NoticesInv, NoticesTyped, Hearing
    <2>3. heard' \in [People -> Hearing]
        BY <2>1, <2>2
    <2>4. NoticesTyped' /\ QueuesDrained'
        BY <2>1, <2>3 DEF NoticesInv, NoticesTyped, QueuesDrained, Jobs
    <2>5. \A p \in People : (RemindedOnce(p) /\ AnnouncedOnce(p))'
        BY <2>1, <2>2 DEF NoticesInv, RemindedOnce, AnnouncedOnce, UnderWay, Jobs
    <2> QED
        BY <2>4, <2>5 DEF NoticesInv
<1> QED
    BY <1>1, <1>2

\* A case is taken: flag and calls together.
LEMMA TakeStep == ASSUME NoticesInv, NEW job \in Jobs, NEW case \in due[job], Take(job, case) PROVE NoticesInv'
<1>1. /\ due' = [due EXCEPT ![job] = @ \ {case}] /\ loop[job] = "sweeping" /\ calls[job] = {}
      /\ UNCHANGED <<place, heard, lost>>
    BY DEF Take, Step, NoticesInv, QueuesDrained
<1>2. CASE ~StillDue(case)
    BY <1>1, <1>2 DEF Take, Step, NoticesInv, NoticesTyped, QueuesDrained, RemindedOnce, AnnouncedOnce, UnderWay, Jobs
<1>3. CASE StillDue(case) /\ job = "remind"
    <2>1. PICK p \in People : case = Case("remind", p)
        BY <1>3 DEF NoticesInv, NoticesTyped, Reminders
    <2>2. ReminderDue(p)
        BY <1>3, <2>1 DEF StillDue, Nominated, Case
    <2>3. /\ reminded' = [reminded EXCEPT ![p] = TRUE] /\ told' = told
          /\ loop' = [loop EXCEPT !["remind"] = "draining"]
          /\ calls' = [calls EXCEPT !["remind"] = {Case("remind", p)}]
        BY <1>3, <2>1, ReleasedTyped DEF Take, Flag, Step, Case
    <2>4. NoticesTyped' /\ QueuesDrained'
        BY <1>1, <1>3, <2>1, <2>3 DEF NoticesInv, NoticesTyped, QueuesDrained, Reminders, Jobs
    <2>5. ASSUME NEW q \in People PROVE (RemindedOnce(q) /\ AnnouncedOnce(q))'
        <3>1. ~UnderWay(q) /\ RemindedOnce(q) /\ AnnouncedOnce(q)
            BY <1>1, <1>3 DEF UnderWay, NoticesInv
        <3>2. UnderWay(q)' <=> q = p
            BY <2>3 DEF UnderWay, Case, NoticesInv, NoticesTyped, Jobs
        <3>3. calls'["start"] = calls["start"]
            BY <2>3 DEF NoticesInv, NoticesTyped, Jobs
        <3> QED
            BY <1>1, <2>2, <2>3, <3>1, <3>2, <3>3 DEF ReminderDue, RemindedOnce, AnnouncedOnce, NoticesInv, NoticesTyped
    <2> QED
        BY <2>4, <2>5 DEF NoticesInv
<1>4. CASE StillDue(case) /\ job = "start"
    <2>1. case = Case("start", TheMeeting)
        BY <1>4 DEF NoticesInv, NoticesTyped
    <2>2. ~told
        BY <1>4, <2>1 DEF StillDue, Nominated, Case, StartDue
    <2>3. /\ reminded' = reminded /\ told' = TRUE
          /\ loop' = [loop EXCEPT !["start"] = "draining"]
          /\ calls' = [calls EXCEPT !["start"] = {Case("start", p) : p \in Recipients}]
        BY <1>4, <2>1, ReleasedTyped, NoticesAssumption DEF Take, Flag, Step, Case
    <2>4. NoticesTyped' /\ QueuesDrained'
        BY <1>1, <1>4, <2>3, ReleasedTyped DEF NoticesInv, NoticesTyped, QueuesDrained, StartCalls, Jobs
    <2>5. ASSUME NEW q \in People PROVE (RemindedOnce(q) /\ AnnouncedOnce(q))'
        <3>1. calls'["remind"] = calls["remind"]
            BY <2>3 DEF NoticesInv, NoticesTyped, Jobs
        <3> QED
            BY <1>1, <2>2, <2>3, <3>1 DEF RemindedOnce, AnnouncedOnce, UnderWay, NoticesInv
    <2> QED
        BY <2>4, <2>5 DEF NoticesInv
<1> QED
    BY <1>2, <1>3, <1>4 DEF Jobs

\* A call is through: its queue is one shorter, and what was heard or lost is that of one person.
LEMMA MadeStep ==
    ASSUME NoticesInv, NEW job \in Jobs, NEW call \in calls[job], Made(job, call)
    PROVE  /\ calls' \in [Jobs -> SUBSET (Reminders \cup StartCalls)]
           /\ \A j \in Jobs : calls'[j] \subseteq calls[j]
           /\ \E p \in People :
                /\ call = Case(job, p)
                /\ \A j \in Jobs, q \in People :
                     Case(j, q) \in calls'[j] <=> Case(j, q) \in calls[j] /\ ~(j = job /\ q = p)
<1>1. calls' = [calls EXCEPT ![job] = @ \ {call}]
    BY DEF Made
<1>2. PICK p \in People : call = Case(job, p)
    BY DEF NoticesInv, NoticesTyped, Jobs, Reminders, StartCalls
<1>3. \A q \in People : Case(job, q) = call <=> q = p
    BY <1>2 DEF Case
<1> QED
    BY <1>1, <1>2, <1>3 DEF NoticesInv, NoticesTyped

\* A reminder of a former place is told by its mark, everything else is heard.
LEMMA DeliverStep ==
    ASSUME NoticesInv, NEW job \in Jobs, NEW call \in calls[job], Deliver(job, call)
    PROVE  NoticesInv'
<1>1. /\ loop[job] = "draining" /\ loop' = [loop EXCEPT ![job] = "draining"] /\ Made(job, call)
      /\ UNCHANGED <<place, reminded, told, due, lost>>
    BY DEF Deliver, Step, meeting
<1>2. PICK p \in People :
          /\ call = Case(job, p)
          /\ \A j \in Jobs, q \in People :
               Case(j, q) \in calls'[j] <=> Case(j, q) \in calls[j] /\ ~(j = job /\ q = p)
    BY <1>1, MadeStep
<1>3. /\ calls' \in [Jobs -> SUBSET (Reminders \cup StartCalls)]
      /\ \A j \in Jobs : calls'[j] \subseteq calls[j]
    BY <1>1, MadeStep
<1>4. call[1] = job /\ call[2] = p /\ Case(job, p) \in calls[job]
    BY <1>2 DEF Case
<1>5. RemindedOnce(p) /\ AnnouncedOnce(p) /\ heard[p] \in Hearing /\ NoticesTyped
    BY DEF NoticesInv, NoticesTyped
<1>6. loop' \in [Jobs -> {"asleep", "nominating", "sweeping", "draining"}] /\ QueuesDrained'
    BY <1>1, <1>3, <1>5 DEF NoticesInv, NoticesTyped, QueuesDrained
<1>7. CASE job = "remind" /\ heard[p].gone
    <2>1. heard' = [heard EXCEPT ![p].gone = FALSE]
        BY <1>4, <1>7 DEF Deliver, Former, Settled
    <2>2. /\ heard' \in [People -> Hearing]
          /\ \A q \in People : heard'[q] = IF q = p THEN [heard[q] EXCEPT !.gone = FALSE] ELSE heard[q]
        BY <2>1, <1>5 DEF NoticesTyped, Hearing
    <2> QED
        BY <1>1, <1>2, <1>3, <1>4, <1>5, <1>6, <1>7, <2>2 DEF NoticesInv, NoticesTyped, Jobs, RemindedOnce, AnnouncedOnce, UnderWay, Hearing
<1>8. CASE job = "remind" /\ ~heard[p].gone
    <2>1. heard' = [heard EXCEPT ![p].remind = @ + 1]
        BY <1>4, <1>8 DEF Deliver, Former
    <2>2. /\ heard' \in [People -> Hearing]
          /\ \A q \in People : heard'[q] = IF q = p THEN [heard[q] EXCEPT !.remind = @ + 1] ELSE heard[q]
        BY <2>1, <1>5 DEF NoticesTyped, Hearing
    <2> QED
        BY <1>1, <1>2, <1>3, <1>4, <1>5, <1>6, <1>8, <2>2 DEF NoticesInv, NoticesTyped, Jobs, RemindedOnce, AnnouncedOnce, UnderWay, Hearing
<1>9. CASE job = "start"
    <2>1. heard' = [heard EXCEPT ![p].start = @ + 1]
        BY <1>4, <1>9 DEF Deliver, Former
    <2>2. /\ heard' \in [People -> Hearing]
          /\ \A q \in People : heard'[q] = IF q = p THEN [heard[q] EXCEPT !.start = @ + 1] ELSE heard[q]
        BY <2>1, <1>5 DEF NoticesTyped, Hearing
    <2> QED
        BY <1>1, <1>2, <1>3, <1>4, <1>5, <1>6, <1>9, <2>2 DEF NoticesInv, NoticesTyped, Jobs, RemindedOnce, AnnouncedOnce, UnderWay, Hearing
<1> QED
    BY <1>7, <1>8, <1>9 DEF Jobs

\* A send that fails is lost, and the mark of a former place with it.
LEMMA FailStep ==
    ASSUME NoticesInv, NEW job \in Jobs, NEW call \in calls[job], SendFails(job, call) \/ SendBlocked(job, call)
    PROVE  NoticesInv'
<1>1. /\ loop[job] = "draining" /\ loop' = [loop EXCEPT ![job] = "draining"] /\ Made(job, call)
      /\ lost' = lost \cup {call} /\ heard' = Settled(call)
      /\ UNCHANGED <<place, reminded, told, due>>
    BY DEF SendFails, SendBlocked, AfterFailure, Step, meeting
<1>2. PICK p \in People :
          /\ call = Case(job, p)
          /\ \A j \in Jobs, q \in People :
               Case(j, q) \in calls'[j] <=> Case(j, q) \in calls[j] /\ ~(j = job /\ q = p)
    BY <1>1, MadeStep
<1>3. /\ calls' \in [Jobs -> SUBSET (Reminders \cup StartCalls)]
      /\ \A j \in Jobs : calls'[j] \subseteq calls[j]
    BY <1>1, MadeStep
<1>4. call[1] = job /\ call[2] = p /\ Case(job, p) \in calls[job]
    BY <1>2 DEF Case
<1>5. RemindedOnce(p) /\ AnnouncedOnce(p) /\ heard[p] \in Hearing /\ NoticesTyped
    BY DEF NoticesInv, NoticesTyped
<1>6. loop' \in [Jobs -> {"asleep", "nominating", "sweeping", "draining"}] /\ QueuesDrained'
    BY <1>1, <1>3, <1>5 DEF NoticesInv, NoticesTyped, QueuesDrained
<1>7. CASE Former(call)
    <2>1. /\ heard' = [heard EXCEPT ![p].gone = FALSE] /\ job = "remind"
        BY <1>1, <1>4, <1>7 DEF Settled, Former
    <2>2. /\ heard' \in [People -> Hearing]
          /\ \A q \in People : heard'[q] = IF q = p THEN [heard[q] EXCEPT !.gone = FALSE] ELSE heard[q]
        BY <2>1, <1>5 DEF NoticesTyped, Hearing
    <2> QED
        BY <1>1, <1>2, <1>3, <1>4, <1>5, <1>6, <2>1, <2>2 DEF NoticesInv, NoticesTyped, Jobs, RemindedOnce, AnnouncedOnce, UnderWay, Hearing
<1>8. CASE ~Former(call)
    <2>1. heard' = heard /\ ~(job = "remind" /\ heard[p].gone)
        BY <1>1, <1>4, <1>8 DEF Settled, Former
    <2> QED
        BY <1>1, <1>2, <1>3, <1>4, <1>5, <1>6, <2>1 DEF NoticesInv, NoticesTyped, Jobs, RemindedOnce, AnnouncedOnce, UnderWay, Hearing
<1> QED
    BY <1>7, <1>8

LEMMA NoticesStep == NoticesInv /\ [Next]_vars => NoticesInv'
<1> SUFFICES ASSUME NoticesInv, [Next]_vars PROVE NoticesInv'
    OBVIOUS
<1>1. CASE \E p \in People : Leave(p) BY <1>1, LeaveStep
<1>2. CASE Deactivate BY <1>2, DeactivateStep
<1>3. CASE Tick
    BY <1>3 DEF Tick, meeting, service, NoticesInv, NoticesTyped, QueuesDrained, RemindedOnce, AnnouncedOnce, UnderWay
<1>4. ASSUME NEW job \in Jobs, Work(job) PROVE NoticesInv'
    BY <1>4, LoopStep, TakeStep, DeliverStep, FailStep DEF Work, TakeOne, Send
<1>5. CASE Stop \/ Restart BY <1>5, StopStep
<1>6. CASE UNCHANGED vars
    BY <1>6 DEF vars, meeting, service, NoticesInv, NoticesTyped, QueuesDrained, RemindedOnce, AnnouncedOnce, UnderWay
<1> QED
    BY <1>1, <1>2, <1>3, <1>4, <1>5, <1>6, EditStep DEF Next

\* What the queues, the flags and what was heard have to do with one another, whatever stops and fails.
THEOREM NoticesCorrect == Spec => []NoticesInv
BY InitNotices, NoticesStep, PTL DEF Spec

\* Nobody hears a notice twice for one place on the list (the flag raised in the commit that releases
\* the call).
THEOREM NoNoticeIsRepeated == Spec => []NoNoticeTwice
<1>1. NoticesInv => NoNoticeTwice
    BY DEF NoticesInv, RemindedOnce, AnnouncedOnce, NoNoticeTwice
<1> QED
    BY <1>1, NoticesCorrect, PTL

\* A flag stands for a reminder heard, under way or lost to a failure of its own or a stop.
THEOREM FlagsAreTried == Spec => []FlaggedMeansTried
<1>1. NoticesInv => FlaggedMeansTried
    BY DEF NoticesInv, RemindedOnce, FlaggedMeansTried, UnderWay
<1> QED
    BY <1>1, NoticesCorrect, PTL

-----------------------------------------------------------------------------
(* Who gets a notice *)

\* A call leaves its queue only by being heard, lost or a former place's.
LEMMA NothingVanishesStep ==
    ASSUME NoticesInv, [Next]_vars, NEW job \in Jobs, NEW call \in calls[job] \ calls'[job]
    PROVE  call \in lost' \/ Former(call) \/ heard'[call[2]][job] > heard[call[2]][job]
<1>1. call[1] = job /\ call[2] \in People /\ heard[call[2]] \in Hearing
    BY DEF NoticesInv, NoticesTyped, Reminders, StartCalls, Case, Jobs
<1>2. ASSUME NEW j \in Jobs, Work(j) PROVE call \in lost' \/ Former(call) \/ heard'[call[2]][job] > heard[call[2]][job]
    <2>1. CASE TakeOne(j)
        <3>1. calls[j] = {} /\ \A i \in Jobs \ {j} : calls'[i] = calls[i]
            BY <2>1 DEF TakeOne, Take, TakeFails, Step, NoticesInv, NoticesTyped, QueuesDrained, meeting
        <3> QED BY <3>1
    <2>2. CASE Send(j)
        <3>1. PICK c \in calls[j] : Deliver(j, c) \/ SendFails(j, c) \/ SendBlocked(j, c)
            BY <2>2 DEF Send
        <3>2. calls' = [calls EXCEPT ![j] = @ \ {c}]
            BY <3>1 DEF Deliver, SendFails, SendBlocked, AfterFailure, Made
        <3>3. c = call /\ j = job
            BY <3>2 DEF NoticesInv, NoticesTyped
        <3>4. CASE SendFails(j, c) \/ SendBlocked(j, c)
            BY <3>3, <3>4 DEF SendFails, SendBlocked
        <3>5. CASE Deliver(j, c) /\ ~Former(c)
            <4>1. heard' = [heard EXCEPT ![call[2]][job] = @ + 1]
                BY <3>3, <3>5 DEF Deliver
            <4>2. CASE job = "remind"
                <5>1. heard'[call[2]].remind = heard[call[2]].remind + 1
                    BY <1>1, <4>1, <4>2 DEF NoticesInv, NoticesTyped, Hearing
                <5> QED BY <1>1, <4>2, <5>1 DEF Hearing
            <4>3. CASE job = "start"
                <5>1. heard'[call[2]].start = heard[call[2]].start + 1
                    BY <1>1, <4>1, <4>3 DEF NoticesInv, NoticesTyped, Hearing
                <5> QED BY <1>1, <4>3, <5>1 DEF Hearing
            <4> QED BY <4>2, <4>3 DEF Jobs
        <3> QED
            BY <3>1, <3>3, <3>4, <3>5
    <2>3. CASE Wake(j) \/ Nominate(j) \/ NominateFails(j) \/ Drained(j) \/ Finish(j)
        BY <2>3 DEF Wake, Nominate, NominateFails, Drained, Finish, Step
    <2> QED
        BY <1>2, <2>1, <2>2, <2>3 DEF Work
<1>3. CASE Stop
    BY <1>3 DEF Stop, Jobs
<1>4. CASE UNCHANGED calls
    BY <1>4
<1> QED
    BY <1>2, <1>3, <1>4 DEF Next, Reschedule, ClearDate, Deactivate, Reactivate, Join, Promote, Leave, ToggleStartReminder,
       Depart, Tick, Edit, service, Restart, vars

\* What is released is due at that moment.
LEMMA ReleasedIsDueStep ==
    ASSUME NoticesInv, [Next]_vars
    PROVE  /\ \A call \in calls'["remind"] \ calls["remind"] : ReminderDue(call[2])
           /\ calls'["start"] \ calls["start"] # {} => StartDue /\ \A c \in calls'["start"] : place[c[2]] = "in"
<1>1. ASSUME NEW job \in Jobs, NEW case \in due[job], Take(job, case), StillDue(case)
      PROVE  /\ \A call \in calls'["remind"] \ calls["remind"] : ReminderDue(call[2])
             /\ calls'["start"] \ calls["start"] # {} => StartDue /\ \A c \in calls'["start"] : place[c[2]] = "in"
    <2>1. calls' = [calls EXCEPT ![job] = Released(case)]
        BY <1>1 DEF Take
    <2>2. CASE job = "remind"
        <3>1. PICK p \in People : case = Case("remind", p)
            BY <2>2 DEF NoticesInv, NoticesTyped, Reminders
        <3>2. ReminderDue(p)
            BY <1>1, <3>1 DEF StillDue, Nominated, Case
        <3>3. calls'["start"] = calls["start"] /\ calls'["remind"] = {Case("remind", p)}
            BY <2>1, <2>2, <3>1, ReleasedTyped DEF NoticesInv, NoticesTyped, Jobs
        <3> QED BY <3>2, <3>3 DEF Case
    <2>3. CASE job = "start"
        <3>1. case = Case("start", TheMeeting)
            BY <2>3 DEF NoticesInv, NoticesTyped
        <3>2. StartDue
            BY <1>1, <3>1 DEF StillDue, Nominated, Case
        <3>3. calls'["remind"] = calls["remind"] /\ calls'["start"] = {Case("start", p) : p \in Recipients}
            BY <2>1, <2>3, <3>1, ReleasedTyped DEF NoticesInv, NoticesTyped, Jobs
        <3> QED BY <3>2, <3>3 DEF Case, Recipients
    <2> QED BY <2>2, <2>3 DEF Jobs
<1>2. CASE \A job \in Jobs : calls'[job] \subseteq calls[job]
    BY <1>2 DEF Jobs
<1>3. ASSUME NEW job \in Jobs, Work(job), ~\A j \in Jobs : calls'[j] \subseteq calls[j]
      PROVE  \E case \in due[job] : Take(job, case) /\ StillDue(case)
    <2>1. ~Send(job)
        BY <1>3 DEF Send, Deliver, SendFails, SendBlocked, AfterFailure, Made, NoticesInv, NoticesTyped
    <2> QED
        BY <1>3, <2>1 DEF Work, TakeOne, Take, TakeFails, Wake, Nominate, NominateFails, Drained, Finish
<1>4. CASE Stop
    BY <1>2, <1>4 DEF Stop
<1> QED
    BY <1>1, <1>2, <1>3, <1>4 DEF Next, Reschedule, ClearDate, Deactivate, Reactivate, Join, Promote, Leave,
       ToggleStartReminder, Depart, Tick, Edit, service, Restart, vars

\* A notice goes to whom it is due when its transaction commits, and is not dropped on the way.
THEOREM NoticesAreDue == Spec => NoticesReachTheDue
<1>1. NoticesInv /\ [Next]_vars =>
          [\A job \in Jobs : \A call \in calls[job] \ calls'[job] :
              \/ call \in lost' \/ Former(call)
              \/ heard'[call[2]][job] > heard[call[2]][job]]_vars
    BY NothingVanishesStep
<1>2. NoticesInv /\ [Next]_vars =>
          [/\ \A call \in calls'["remind"] \ calls["remind"] : ReminderDue(call[2])
           /\ calls'["start"] \ calls["start"] # {} => StartDue /\ \A c \in calls'["start"] : place[c[2]] = "in"]_vars
    BY ReleasedIsDueStep
<1> QED
    BY <1>1, <1>2, NoticesCorrect, PTL DEF Spec, NoticesReachTheDue, NothingVanishes, ReleasedIsDue

=============================================================================
