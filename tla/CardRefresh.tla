----------------------------- MODULE CardRefresh -----------------------------
(***************************************************************************)
(* The background queue that redraws the cards of one meeting after a      *)
(* change: the handlers that commit changes, draw the card they were       *)
(* tapped on and submit the rest; the one waiting job their submits merge   *)
(* into; the worker that takes it, reads the meeting and draws; the digest *)
(* that spares a card already showing what it should; and the stop that    *)
(* interrupts the worker and drains what is left under a deadline.         *)
(*                                                                         *)
(* A change commits under the meeting's row lock and its handler renders   *)
(* what it commits.  Submits under other keys meet this one only at the    *)
(* cap of the queue: a submit that finds no job waiting may be refused.    *)
(* A hold delays the moment a job is taken, which is left open here.       *)
(*                                                                         *)
(* Unused definitions that stand before one of the same parameters are     *)
(* plausible mistakes in its code, for the mutants of PROJECT.json.        *)
(***************************************************************************)
EXTENDS Naturals

CONSTANTS
    Cards,       \* the messages rows of the meeting at the start
    Tapped,      \* the cards whose buttons are used
    Siblings,    \* same_chat_siblings of each of them
    Handlers,    \* invocations running at a time
    Contents,    \* what a card may say
    Answers,     \* how Telegram may answer an edit
    NoCard,      \* None, for a card
    MaxChanges   \* bound: changes committed

ASSUME RefreshAssumption ==
    /\ Tapped \subseteq Cards /\ NoCard \notin Cards
    /\ Siblings \in [Tapped -> SUBSET Cards]
    /\ Contents # {}
    /\ Answers \subseteq {"ok", "refused", "unanswered", "gone"}
    /\ MaxChanges \in Nat

VARIABLES
    content,     \* what the committed meeting says on each card
    shown,       \* what Telegram shows
    digest,      \* messages.render_digest: what it was last confirmed to show
    tracked,     \* the cards that still have a row
    handler,     \* the invocations
    pending,     \* RefreshQueue.pending at the meeting's key
    running,     \* RefreshQueue.in_flight at the meeting's key
    service,     \* whether the queue accepts, drains or has ended
    changes,     \* changes committed so far
    failed,      \* history: cards at which the last attempt failed, or its record did
    doubt,       \* history: cards whose last edit may have been applied without a record
    owed         \* history: cards left to the queue and not set out for since

vars == <<content, shown, digest, tracked, handler, pending, running, service, changes, failed, doubt, owed>>

\* MeetingRefresh.  A scope of None, every card, is Cards.
Job == [skip : Cards \cup {NoCard}, scope : (SUBSET Cards) \ {{}}]
NoJob == [skip |-> NoCard, scope |-> {}]

Covers(job, c) == c \in job.scope /\ c # job.skip
CoveredBy(job) == {c \in tracked : Covers(job, c)}

Idle == [at |-> "idle"]
Invocation ==
    [at : {"edit", "submit"}, card : Tapped, val : Contents, job : Job \cup {NoJob}, answer : {"none"}]
        \cup [at : {"submit", "reconcile"}, card : Tapped, val : Contents, job : Job \cup {NoJob},
              answer : Answers]
        \cup [at : {"submit"}, card : {NoCard}, val : Contents, job : Job \cup {NoJob}, answer : {"none"}]
Taken == [at : {"taken"}, job : Job]
Drawing == [at : {"drawing"}, job : Job, val : [Cards -> Contents],
            todo : SUBSET Cards, done : SUBSET Cards, dead : SUBSET Cards]

\* Every variable holds a value of its kind.
TypeOK ==
    /\ content \in [Cards -> Contents] /\ shown \in [Cards -> Contents] /\ digest \in [Cards -> Contents]
    /\ tracked \in SUBSET Cards
    /\ handler \in [Handlers -> Invocation \cup {Idle}]
    /\ pending \in Job \cup {NoJob}
    /\ running \in Taken \cup Drawing \cup {Idle}
    /\ service \in {"open", "draining", "closed"}
    /\ changes \in 0 .. MaxChanges
    /\ failed \in SUBSET Cards /\ doubt \in SUBSET Cards /\ owed \in SUBSET Cards

Init ==
    /\ content = [c \in Cards |-> CHOOSE v \in Contents : TRUE]
    /\ shown = content /\ digest = content
    /\ tracked = Cards
    /\ handler = [h \in Handlers |-> Idle]
    /\ pending = NoJob /\ running = Idle
    /\ service = "open"
    /\ changes = 0
    /\ failed = {} /\ doubt = {} /\ owed = {}

-----------------------------------------------------------------------------
(* One edit *)

\* The edit reached the card, whatever the bot was told.
Applied(a) == a \in {"ok", "unanswered"}

Shows(c, v, a) == [shown EXCEPT ![c] = IF Applied(a) THEN v ELSE @]

\* An attempt that failed is made good by one that shows what the meeting says.
FailedAfter(c, v, a) ==
    IF a # "ok" THEN failed \cup {c} ELSE IF v = content[c] THEN failed \ {c} ELSE failed

DoubtAfter(c, a) ==
    IF a = "unanswered" THEN doubt \cup {c} ELSE IF a = "ok" THEN doubt \ {c} ELSE doubt

-----------------------------------------------------------------------------
(* The queue *)

MergeSkipKeepingTheFirst(waiting, incoming) == waiting

\* merge_skip: only a card both name is passed over.
MergeSkip(waiting, incoming) == IF waiting = incoming THEN waiting ELSE NoCard

\* merge_scopes: never less than either asked for.
MergeScopes(waiting, incoming) == waiting \cup incoming

\* coalesce.
Coalesce(waiting, incoming) ==
    [skip |-> MergeSkip(waiting.skip, incoming.skip),
     scope |-> MergeScopes(waiting.scope, incoming.scope)]

\* A submit passes nothing over while a job that read the meeting earlier is running.
Unskipped(job) == IF running = Idle THEN job ELSE [job EXCEPT !.skip = NoCard]

\* requeue: a job submitted meanwhile is left alone.
Requeued(job) == IF pending = NoJob THEN job ELSE pending

-----------------------------------------------------------------------------
(* A handler *)

JobForAny(card, scope, behind) == [skip |-> card, scope |-> scope \cap behind]

\* defer_meeting_refresh, unless no card is behind the one tapped.
JobFor(card, scope, behind) == IF behind = {} THEN NoJob ELSE [skip |-> card, scope |-> scope]

\* Every card, or those attach_to_chat passes.
ScopesFrom(card) == {Cards} \cup (IF card = NoCard THEN {} ELSE {Siblings[card]})

\* update_meeting_messages in a write handler, and its commit.  The content of the cards the
\* change reaches becomes v; the card tapped is rendered, unless its digest says it shows v;
\* the cards behind it are left to a job.
Change(h, card, scope, v) ==
    /\ service = "open"
    /\ handler[h] = Idle
    /\ changes < MaxChanges
    /\ card \in tracked \cup {NoCard}
    /\ LET behind == (scope \cap tracked) \ {card}
       IN  /\ content' = [c \in Cards |-> IF c \in behind \cup {card} THEN v ELSE content[c]]
           /\ content' # content
           /\ owed' = owed \cup behind
           /\ handler' = [handler EXCEPT ![h] =
                [at |-> IF card # NoCard /\ digest[card] # v THEN "edit" ELSE "submit",
                 card |-> card, val |-> v, job |-> JobFor(card, scope, behind), answer |-> "none"]]
    /\ changes' = changes + 1
    /\ UNCHANGED <<shown, digest, tracked, pending, running, service, failed, doubt>>

\* _queued_meeting_message_edit, drained after the commit.
EditCurrent(h) ==
    /\ handler[h].at = "edit"
    /\ \E a \in Answers :
            /\ shown' = Shows(handler[h].card, handler[h].val, a)
            /\ failed' = FailedAfter(handler[h].card, handler[h].val, a)
            /\ doubt' = DoubtAfter(handler[h].card, a)
            /\ handler' = [handler EXCEPT ![h].at = "submit", ![h].answer = a]
    /\ UNCHANGED <<content, digest, tracked, pending, running, service, changes, owed>>

AfterSubmit(h) ==
    IF handler[h].answer \in {"ok", "gone"} THEN [handler[h] EXCEPT !.at = "reconcile"] ELSE Idle

SubmitUnlessRunning(h) ==
    /\ handler[h].at = "submit"
    /\ pending' = IF handler[h].job = NoJob \/ running # Idle THEN pending
                  ELSE IF pending = NoJob THEN handler[h].job
                  ELSE Coalesce(pending, handler[h].job)
    /\ handler' = [handler EXCEPT ![h] = AfterSubmit(h)]
    /\ UNCHANGED <<content, shown, digest, tracked, running, service, changes, failed, doubt, owed>>

\* execute_queued, after the drain: submit, where the job becomes the waiting one or merges.
Submit(h) ==
    /\ handler[h].at = "submit"
    /\ pending' = IF handler[h].job = NoJob THEN pending
                  ELSE IF pending = NoJob THEN Unskipped(handler[h].job)
                  ELSE Coalesce(pending, Unskipped(handler[h].job))
    /\ handler' = [handler EXCEPT ![h] = AfterSubmit(h)]
    /\ UNCHANGED <<content, shown, digest, tracked, running, service, changes, failed, doubt, owed>>

\* submit at the cap: only a job that would be a new one is dropped.
SubmitRefused(h) ==
    /\ handler[h].at = "submit"
    /\ handler[h].job # NoJob
    /\ pending = NoJob
    /\ handler' = [handler EXCEPT ![h] = AfterSubmit(h)]
    /\ failed' = failed \cup CoveredBy(Unskipped(handler[h].job))
    /\ owed' = owed \ CoveredBy(Unskipped(handler[h].job))
    /\ UNCHANGED <<content, shown, digest, tracked, pending, running, service, changes, doubt>>

\* apply_reconcile of the handler: stamp the digest, or drop the row of a card that is gone; or
\* the short transaction it runs in is lost.
Reconcile(h) ==
    /\ handler[h].at = "reconcile"
    /\ LET card == handler[h].card
       IN  \/ /\ handler[h].answer = "ok"
              /\ digest' = [digest EXCEPT ![card] = handler[h].val]
              /\ UNCHANGED <<tracked, failed, doubt>>
           \/ /\ handler[h].answer = "gone"
              /\ tracked' = tracked \ {card}
              /\ UNCHANGED <<digest, failed, doubt>>
           \/ /\ doubt' = doubt \cup {card} /\ failed' = failed \cup {card}
              /\ UNCHANGED <<digest, tracked>>
    /\ handler' = [handler EXCEPT ![h] = Idle]
    /\ UNCHANGED <<content, shown, pending, running, service, changes, owed>>

-----------------------------------------------------------------------------
(* The worker *)

\* take: the key leaves `pending` before the meeting is read.
Take ==
    /\ service # "closed"
    /\ running = Idle
    /\ pending # NoJob
    /\ running' = [at |-> "taken", job |-> pending]
    /\ pending' = NoJob
    /\ UNCHANGED <<content, shown, digest, tracked, handler, service, changes, failed, doubt, owed>>

\* execute: the job reads the meeting and queues an edit for every card it covers whose digest
\* is not that of what it should show.  A card it spares is settled, if its digest is right.
Read ==
    /\ running.at = "taken"
    /\ LET covered == CoveredBy(running.job)
           todo == {c \in covered : digest[c] # content[c]}
       IN  /\ running' = [at |-> "drawing", job |-> running.job, val |-> content,
                          todo |-> todo, done |-> {}, dead |-> {}]
           /\ owed' = owed \ covered
           /\ failed' = failed \ ((covered \ todo) \ doubt)
    /\ UNCHANGED <<content, shown, digest, tracked, handler, pending, service, changes, doubt>>

\* One edit of the drain that follows.
DrawCard(c) ==
    /\ running.at = "drawing"
    /\ c \in running.todo
    /\ \E a \in Answers :
            /\ shown' = Shows(c, running.val[c], a)
            /\ failed' = FailedAfter(c, running.val[c], a)
            /\ doubt' = DoubtAfter(c, a)
            /\ running' = [running EXCEPT !.todo = @ \ {c},
                                          !.done = IF a = "ok" THEN @ \cup {c} ELSE @,
                                          !.dead = IF a = "gone" THEN @ \cup {c} ELSE @]
    /\ UNCHANGED <<content, digest, tracked, handler, pending, service, changes, owed>>

StampedIfTried(job) ==
    IF job.at # "drawing" THEN digest
    ELSE [c \in Cards |-> IF Covers(job.job, c) /\ c \notin job.todo THEN job.val[c] ELSE digest[c]]

\* apply_reconcile of a job, which runs however the job ends: advance_render_digests of the cards
\* Telegram confirmed.
Stamped(job) ==
    IF job.at # "drawing" THEN digest
    ELSE [c \in Cards |-> IF c \in job.done THEN job.val[c] ELSE digest[c]]

\* Likewise the rows of the cards Telegram reported gone are dropped.
StillTracked(job) == IF job.at # "drawing" THEN tracked ELSE tracked \ job.dead

\* What the end of the running job leaves unrecorded when its reconcile is lost: to a timeout or
\* a stop that falls into it, or with the connection.
Unrecorded(lost) == IF lost /\ running.at = "drawing" THEN running.done ELSE {}

EndOfRun(lost) ==
    /\ digest' = IF lost THEN digest ELSE Stamped(running)
    /\ tracked' = IF lost THEN tracked ELSE StillTracked(running)
    /\ doubt' = doubt \cup Unrecorded(lost)
    /\ running' = Idle

FinishJob(lost) ==
    /\ running.at = "drawing"
    /\ running.todo = {}
    /\ failed' = failed \cup Unrecorded(lost)
    /\ EndOfRun(lost)
    /\ UNCHANGED <<content, shown, handler, pending, service, changes, owed>>

TimeOutNever(lost) == FALSE /\ UNCHANGED vars

\* run_job's timeout, or an error: what the job did not get to is not attempted again.
TimeOut(lost) ==
    /\ running # Idle
    /\ running.at = "drawing" => running.todo # {}
    /\ LET left == IF running.at = "taken" THEN CoveredBy(running.job) ELSE running.todo
       IN  /\ failed' = failed \cup left \cup Unrecorded(lost)
           /\ owed' = owed \ (IF running.at = "taken" THEN left ELSE {})
    /\ EndOfRun(lost)
    /\ UNCHANGED <<content, shown, handler, pending, service, changes>>

\* stop_worker, once no handler is running: the job it interrupts waits for the drain.
Stop(lost) ==
    /\ service = "open"
    /\ \A h \in Handlers : handler[h] = Idle
    /\ service' = "draining"
    /\ pending' = IF running = Idle THEN pending ELSE Requeued(running.job)
    /\ failed' = failed \cup Unrecorded(lost)
    /\ EndOfRun(lost)
    /\ UNCHANGED <<content, shown, handler, changes, owed>>

\* drain_pending ran out of jobs.
Drained ==
    /\ service = "draining"
    /\ pending = NoJob /\ running = Idle
    /\ service' = "closed"
    /\ UNCHANGED <<content, shown, digest, tracked, handler, pending, running, changes, failed, doubt, owed>>

\* drain_pending ran out of time: report_abandoned names what is left.
Deadline(lost) ==
    /\ service = "draining"
    /\ pending # NoJob \/ running # Idle
    /\ service' = "closed"
    /\ pending' = IF running = Idle THEN pending ELSE Requeued(running.job)
    /\ failed' = failed \cup CoveredBy(pending') \cup Unrecorded(lost)
    /\ EndOfRun(lost)
    /\ UNCHANGED <<content, shown, handler, changes, owed>>

-----------------------------------------------------------------------------
HandlerStep(h) == EditCurrent(h) \/ Submit(h) \/ SubmitRefused(h) \/ Reconcile(h)
Handle(h) ==
    \/ \E card \in Tapped \cup {NoCard}, v \in Contents :
           \E scope \in ScopesFrom(card) : Change(h, card, scope, v)
    \/ HandlerStep(h)
EndOfJob == \E lost \in BOOLEAN : FinishJob(lost) \/ TimeOut(lost)

Next ==
    \/ \E h \in Handlers : Handle(h)
    \/ Take \/ Read \/ (\E c \in Cards : DrawCard(c)) \/ EndOfJob
    \/ \E lost \in BOOLEAN : Stop(lost) \/ Deadline(lost)
    \/ Drained

Spec == Init /\ [][Next]_vars

\* Handlers end, by the timeouts of their requests, and the worker takes what is ready.  A job
\* may hang, in a read or on an edit that is never answered: only its end is fair, and the timeout
\* is what makes it so.
Fairness ==
    /\ \A h \in Handlers : WF_vars(HandlerStep(h))
    /\ WF_vars(Take) /\ WF_vars(EndOfJob) /\ WF_vars(Drained)

FairSpec == Spec /\ Fairness

-----------------------------------------------------------------------------
(* Properties *)

InService == service = "open"

\* The cards nobody acts from, which only the worker draws.
Away == Cards \ Tapped

Unsubmitted(h) == handler[h].at \in {"edit", "submit"}

\* Somebody is still going to read the meeting for the card.
Awaited(c) ==
    \/ Covers(pending, c)
    \/ running.at = "taken" /\ Covers(running.job, c)
    \/ \E h \in Handlers : Unsubmitted(h) /\ Covers(handler[h].job, c)

\* While the queue is in service, a card a change left to it is never forgotten: until some job
\* has read the meeting for it after that change, a job that covers it is waiting, has been taken
\* and has not read, or is about to be submitted.  It is what taking the key out before the read,
\* widening the scope and narrowing the skip are for (card_refresh.py, take and coalesce).
NoCardForgotten ==
    InService => \A c \in owed \cap tracked : Awaited(c)

\* While the queue is in service, a card that only the worker draws and that is out of date is
\* either awaited, about to be drawn by the running job as it should be, or one whose last attempt
\* failed: no change, order of changes, merge, spared edit or timeout leaves it wrong in silence.
StaleCardsAreDue ==
    InService =>
        \A c \in Away \cap tracked :
            shown[c] # content[c] =>
                \/ Awaited(c)
                \/ running.at = "drawing" /\ c \in running.todo /\ running.val[c] = content[c]
                \/ c \in failed

\* Between jobs, the digest of a card only the worker draws is that of what Telegram shows, unless
\* an edit was applied whose answer, or whose record, was lost: neither a refused edit, a timeout
\* nor a stop in the middle of a job leaves a digest that would spare a wrong card
\* (_queued_meeting_message_edit).
DigestsAreTruthful ==
    running.at # "drawing" =>
        \A c \in Away \cap tracked : c \notin doubt => digest[c] = shown[c]

\* A card only the worker draws catches up with the meeting, or the attempt at it failed, or the
\* process has ended: no hung job and no run of submits keeps a change off it for ever.
CardsCatchUp ==
    \A c \in Away :
        c \in tracked /\ shown[c] # content[c] ~>
            c \notin tracked \/ shown[c] = content[c] \/ c \in failed \/ service = "closed"

Quiet == (\A h \in Handlers : handler[h] = Idle) /\ pending = NoJob /\ running = Idle

\* "The queue always ends on the meeting's latest state" (card_refresh.py, lines 13-14): once
\* nothing is under way, and if no edit failed, every card shows what the meeting says.
QueueEndsOnLatest ==
    InService /\ Quiet /\ failed = {} =>
        \A c \in tracked : shown[c] = content[c]
=============================================================================
