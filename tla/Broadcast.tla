------------------------------ MODULE Broadcast ------------------------------
(***************************************************************************)
(* Mass broadcasts: an operator uploads, confirms or discards a draft; the *)
(* runs of the sending job claim the oldest open broadcast, freeze its     *)
(* audience, claim recipients page by page, send, record, wait for         *)
(* retries, and close it with one summary to the operators.                *)
(*                                                                         *)
(* A worker is one run of the job in one process.  A second one exists     *)
(* while a deployment overlaps.  Every database step is a transaction of   *)
(* its own and a worker may stop between any two.                          *)
(*                                                                         *)
(* A row of broadcast_deliveries is told from a later one of the same      *)
(* recipient by the snapshot it was inserted with (born), which stands for *)
(* its id.  Recipients are numbers, in the order of their rows' ids.       *)
(*                                                                         *)
(* Unused definitions that stand before one of the same parameters are     *)
(* plausible mistakes in its code, for the mutants of PROJECT.json.        *)
(***************************************************************************)
EXTENDS Naturals, Sequences, FiniteSets

CONSTANTS
    Users,        \* the recipients
    Speaks,       \* settings.language of each
    Languages,    \* SUPPORTED_LANGUAGES
    Fallback,     \* FALLBACK_LANG
    Contents,     \* uploads: lists of entries with a shape, a language and a body
    Operators,    \* the admins who write broadcasts
    Workers,      \* runs of the sending job at a time
    Broadcasts,   \* the ids broadcasts are given, in this order
    MaxAttempts,  \* MAX_BROADCAST_ATTEMPTS
    MaxTries,     \* MAX_DELIVERY_ATTEMPTS
    BatchSize,    \* BROADCAST_BATCH_SIZE
    NoRow,        \* no delivery row
    Nobody        \* no author

ASSUME BroadcastAssumption ==
    /\ Users \subseteq Nat /\ IsFiniteSet(Users)
    /\ Fallback \in Languages /\ Speaks \in [Users -> Languages]
    /\ Broadcasts \subseteq Nat /\ IsFiniteSet(Broadcasts)
    /\ MaxAttempts \in Nat /\ MaxTries \in Nat \ {0} /\ BatchSize \in Nat \ {0}
    /\ Nobody \notin Operators

VARIABLES
    broadcast,    \* the broadcasts rows
    delivery,     \* the broadcast_deliveries rows
    person,       \* users.status of the recipients
    worker,       \* where each run is
    snapshots,    \* history: how often an audience was inserted
    arrived,      \* history: the snapshots whose message reached a recipient
    summaries,    \* history: summaries sent to the operators
    overlapped    \* history: broadcasts two runs have worked on at once

vars == <<broadcast, delivery, person, worker, snapshots, arrived, summaries, overlapped>>

Open == {"queued", "sending"}
Terminal == {"done", "failed"}
Waiting == {"pending", "retry"}
Outcomes == {"sent", "skipped", "failed", "retry"}
Answers == {"ok", "blocked", "flood", "refused", "error"}

NoCounts == [sent |-> 0, failed |-> 0, skipped |-> 0, orphan |-> 0]
Unused == [status |-> "unused", author |-> Nobody, languages |-> {},
           attempts |-> 0, total |-> 0, counts |-> NoCounts]
Idle == [at |-> "idle"]

Row == [status : Waiting \cup {"in_progress"} \cup Outcomes, tries : 0 .. MaxTries, due : BOOLEAN,
        lang : Languages, born : Nat]

ASSUME NoRowAssumption == NoRow \notin Row

Run ==
    [at : {"claimed", "counted", "sending", "checking", "resetting"}, b : Broadcasts]
        \cup [at : {"closing"}, b : Broadcasts, final : Terminal]
        \cup [at : {"purging"}, b : Broadcasts, won : BOOLEAN]
        \cup [at : {"reporting"}, b : Broadcasts]

\* A page being delivered: the rows it claimed, those not sent yet, the outcomes so far.
IsPage(r) ==
    /\ DOMAIN r = {"at", "b", "rows", "todo", "outcome", "halted"}
    /\ r.at = "delivering" /\ r.b \in Broadcasts /\ r.halted \in BOOLEAN
    /\ r.rows \in [DOMAIN r.rows -> Row] /\ DOMAIN r.rows \subseteq Users
    /\ r.todo \subseteq DOMAIN r.rows
    /\ r.outcome \in [DOMAIN r.rows \ r.todo -> Outcomes]

Counts == [sent : Nat, failed : Nat, skipped : Nat, orphan : Nat]

\* Every variable holds a value of its kind.
TypeOK ==
    /\ broadcast \in [Broadcasts ->
            [status : {"unused", "draft", "discarded"} \cup Open \cup Terminal,
             author : Operators \cup {Nobody}, languages : SUBSET Languages, attempts : 0 .. MaxAttempts + 1,
             total : Nat, counts : Counts]]
    /\ delivery \in [Broadcasts -> [Users -> Row \cup {NoRow}]]
    /\ person \in [Users -> {"member", "left", "erased"}]
    /\ DOMAIN worker = Workers
    /\ \A w \in Workers : worker[w] = Idle \/ worker[w] \in Run \/ IsPage(worker[w])
    /\ snapshots \in [Broadcasts -> Nat]
    /\ arrived \in [Broadcasts -> [Users -> Seq(Nat)]]
    /\ summaries \in [Broadcasts -> Nat]
    /\ overlapped \subseteq Broadcasts

Init ==
    /\ broadcast = [b \in Broadcasts |-> Unused]
    /\ delivery = [b \in Broadcasts |-> [u \in Users |-> NoRow]]
    /\ person \in [Users -> {"member", "left"}]
    /\ worker = [w \in Workers |-> Idle]
    /\ snapshots = [b \in Broadcasts |-> 0]
    /\ arrived = [b \in Broadcasts |-> [u \in Users |-> <<>>]]
    /\ summaries = [b \in Broadcasts |-> 0]
    /\ overlapped = {}

Listed(b) == {u \in Users : delivery[b][u] # NoRow}
InStatus(b, s) == {u \in Listed(b) : delivery[b][u].status \in s}

-----------------------------------------------------------------------------
(* The operator.  One private chat, so one step at a time; a keyboard of an *)
(* earlier draft can be tapped at any later time.                           *)

Discarded(o) == [b \in Broadcasts |->
    IF broadcast[b].author = o /\ broadcast[b].status = "draft"
        THEN [broadcast[b] EXCEPT !.status = "discarded"]
        ELSE broadcast[b]]

\* Entries in a language the bot does not speak are skipped.
Supported(entries) == {i \in DOMAIN entries : entries[i].shaped /\ entries[i].language \in Languages}

AcceptableWithoutFallback(entries) ==
    /\ \A i \in DOMAIN entries : entries[i].shaped
    /\ \A i \in Supported(entries) : entries[i].body = "fine"
    /\ \A i, j \in Supported(entries) : i # j => entries[i].language # entries[j].language

\* parse_and_validate: neither empty nor misshapen, one sendable body per language, the fallback
\* among them.
Acceptable(entries) ==
    /\ \A i \in DOMAIN entries : entries[i].shaped
    /\ \A i \in Supported(entries) : entries[i].body = "fine"
    /\ \A i, j \in Supported(entries) : i # j => entries[i].language # entries[j].language
    /\ \E i \in Supported(entries) : entries[i].language = Fallback

\* broadcast_content_message_handler: the content is acceptable and its previews went out, so
\* create_draft replaces the operator's draft.
Upload(o, entries) ==
    /\ Acceptable(entries)
    /\ \E b \in Broadcasts :
        /\ broadcast[b].status = "unused"
        /\ \A older \in Broadcasts : older < b => broadcast[older].status # "unused"
        /\ broadcast' = [Discarded(o) EXCEPT ![b] = [Unused EXCEPT
                !.status = "draft", !.author = o,
                !.languages = {entries[i].language : i \in Supported(entries)}]]
    /\ UNCHANGED <<delivery, person, worker, snapshots, arrived, summaries, overlapped>>

\* The flow is entered again.
Reenter(o) ==
    /\ broadcast' = Discarded(o)
    /\ UNCHANGED <<delivery, person, worker, snapshots, arrived, summaries, overlapped>>

\* load_draft, for anybody's keyboard and any state the row is in by then.
UsableDraftOfAnyStatus(o, b) == broadcast[b].author = o
UsableDraft(o, b) == broadcast[b].author = o /\ broadcast[b].status = "draft"

Confirm(o, b) ==
    /\ UsableDraft(o, b)
    /\ broadcast' = [broadcast EXCEPT ![b].status = "queued"]
    /\ UNCHANGED <<delivery, person, worker, snapshots, arrived, summaries, overlapped>>

Cancel(o, b) ==
    /\ UsableDraft(o, b)
    /\ broadcast' = [broadcast EXCEPT ![b].status = "discarded"]
    /\ UNCHANGED <<delivery, person, worker, snapshots, arrived, summaries, overlapped>>

-----------------------------------------------------------------------------
(* Claiming a broadcast and freezing its audience *)

WorkingOn(b) == {w \in Workers : worker[w] # Idle /\ worker[w].b = b}

\* claim_next_broadcast.  SKIP LOCKED passes over an older one only while another run holds its row.
\* Attempts past the threshold are told apart no more.
Claim(w, b) ==
    /\ worker[w] = Idle
    /\ broadcast[b].status \in Open
    /\ \A older \in Broadcasts :
        older < b /\ broadcast[older].status \in Open => WorkingOn(older) # {}
    /\ LET attempts == broadcast[b].attempts + 1 IN
        /\ broadcast' = [broadcast EXCEPT
                ![b].status = "sending",
                ![b].attempts = IF attempts > MaxAttempts THEN MaxAttempts + 1 ELSE attempts]
        /\ worker' = [worker EXCEPT ![w] =
                IF attempts > MaxAttempts
                    THEN [at |-> "closing", b |-> b, final |-> "failed"]
                    ELSE [at |-> "claimed", b |-> b]]
    /\ overlapped' = IF WorkingOn(b) = {} THEN overlapped ELSE overlapped \cup {b}
    /\ UNCHANGED <<delivery, person, snapshots, arrived, summaries>>

GoTo(w, at) == worker' = [worker EXCEPT ![w] = [at |-> at, b |-> worker[w].b]]

\* materialize_audience: an audience that exists is used as it is.
CountAudience(w) ==
    /\ worker[w].at = "claimed"
    /\ GoTo(w, IF Listed(worker[w].b) = {} THEN "counted" ELSE "sending")
    /\ UNCHANGED <<broadcast, delivery, person, snapshots, arrived, summaries, overlapped>>

\* The body a recipient is sent.
LanguageSent(b, u) == IF Speaks[u] \in broadcast[b].languages THEN Speaks[u] ELSE Fallback

\* The insert skips whoever another run has listed meanwhile.
InsertAudience(w) ==
    /\ worker[w].at = "counted"
    /\ LET b == worker[w].b
           new == {u \in Users : person[u] = "member" /\ delivery[b][u] = NoRow}
           row(u) == [status |-> "pending", tries |-> 0, due |-> TRUE,
                      lang |-> LanguageSent(b, u), born |-> snapshots[b] + 1]
       IN  /\ delivery' = [delivery EXCEPT ![b] = [u \in Users |-> IF u \in new THEN row(u) ELSE @[u]]]
           /\ snapshots' = [snapshots EXCEPT ![b] = IF new = {} THEN @ ELSE @ + 1]
           /\ broadcast' = [broadcast EXCEPT ![b].total = Cardinality(new \cup Listed(b))]
    /\ GoTo(w, "sending")
    /\ UNCHANGED <<person, arrived, summaries, overlapped>>

-----------------------------------------------------------------------------
(* One page *)

ClaimableWithOrphans(row) ==
    \/ row.status \in {"pending", "in_progress"}
    \/ row.status = "retry" /\ row.due

Claimable(row) ==
    \/ row.status = "pending"
    \/ row.status = "retry" /\ row.due

\* The first BatchSize of a set of recipients.
FirstOf(S) == {u \in S : Cardinality({v \in S : v < u}) < BatchSize}

\* The columns the claim writes.
Started(row) == [row EXCEPT !.status = "in_progress", !.tries = @ + 1, !.due = FALSE]

\* claim_pending_batch: one statement.  An empty page ends send_all_pending.
ClaimBatch(w) ==
    /\ worker[w].at = "sending"
    /\ LET b == worker[w].b
           page == FirstOf({u \in Listed(b) : Claimable(delivery[b][u])})
       IN  IF page = {}
           THEN GoTo(w, "checking") /\ UNCHANGED delivery
           ELSE /\ delivery' = [delivery EXCEPT ![b] =
                        [u \in Users |-> IF u \in page THEN Started(@[u]) ELSE @[u]]]
                /\ worker' = [worker EXCEPT ![w] =
                        [at |-> "delivering", b |-> b, rows |-> [u \in page |-> Started(delivery[b][u])],
                         todo |-> page, outcome |-> <<>>, halted |-> FALSE]]
    /\ UNCHANGED <<broadcast, person, snapshots, arrived, summaries, overlapped>>

\* deliver_one and resolve_delivery_outcome; tries is the attempt this send is.
OutcomeOf(answer, tries) ==
    CASE answer = "ok" -> "sent"
      [] answer = "blocked" -> "skipped"
      [] answer = "refused" -> "failed"
      [] answer \in {"flood", "error"} -> IF tries >= MaxTries THEN "failed" ELSE "retry"

Delivering(w) == worker[w].at = "delivering" /\ worker[w].todo # {} /\ ~worker[w].halted

\* Rows are sent in the order of their ids.
NextIn(page) == CHOOSE u \in page.todo : \A other \in page.todo : u <= other

Reached(b, u, row) == [arrived EXCEPT ![b][u] = Append(@, row.born)]

\* deliver_batch, one recipient.  Flood control leaves the rest of the page untried.
Deliver(w, answer) ==
    /\ Delivering(w)
    /\ LET page == worker[w]
           u == NextIn(page)
           row == page.rows[u]
       IN  /\ worker' = [worker EXCEPT ![w] =
                [page EXCEPT
                    !.todo = @ \ {u},
                    !.outcome = [v \in (DOMAIN @) \cup {u} |->
                        IF v = u THEN OutcomeOf(answer, row.tries) ELSE @[v]],
                    !.halted = (answer = "flood")]]
           /\ arrived' = IF answer = "ok" THEN Reached(page.b, u, row) ELSE arrived
    /\ UNCHANGED <<broadcast, delivery, person, snapshots, summaries, overlapped>>

\* A NetworkError ends the run, and the message may have arrived.
LoseConnection(w) ==
    /\ Delivering(w)
    /\ worker' = [worker EXCEPT ![w] = Idle]
    /\ LET u == NextIn(worker[w])
       IN  arrived' \in {arrived, Reached(worker[w].b, u, worker[w].rows[u])}
    /\ UNCHANGED <<broadcast, delivery, person, snapshots, summaries, overlapped>>

\* record_batch_outcomes: an outcome, or for the untried remainder the attempt given back.
Resolved(page, u, row) ==
    IF u \in page.todo
        THEN [row EXCEPT !.status = "retry", !.due = FALSE, !.tries = @ - 1]
        ELSE [row EXCEPT !.status = page.outcome[u], !.due = FALSE]

\* The updates go by id: a row that is gone, or another one of the same recipient, is not met.
\* Unreachable members are marked as having left.
Record(w) ==
    /\ worker[w].at = "delivering" /\ (worker[w].todo = {} \/ worker[w].halted)
    /\ LET page == worker[w]
           still == {u \in DOMAIN page.rows :
                        delivery[page.b][u] # NoRow /\ delivery[page.b][u].born = page.rows[u].born}
       IN  /\ delivery' = [delivery EXCEPT ![page.b] =
                    [u \in Users |-> IF u \in still THEN Resolved(page, u, @[u]) ELSE @[u]]]
           /\ person' = [u \in Users |->
                    IF person[u] = "member" /\ u \in DOMAIN page.outcome /\ page.outcome[u] = "skipped"
                        THEN "left" ELSE person[u]]
           /\ GoTo(w, IF page.halted THEN "checking" ELSE "sending")
    /\ UNCHANGED <<broadcast, snapshots, arrived, summaries, overlapped>>

-----------------------------------------------------------------------------
(* The end of a run *)

UnfinishedIfDue(b) == {u \in Listed(b) : Claimable(delivery[b][u])}
UnfinishedOrOrphaned(b) == InStatus(b, Waiting \cup {"in_progress"})

\* count_unfinished_deliveries.
Unfinished(b) == InStatus(b, Waiting)

\* defer_for_pending_retries: the broadcast waits as long as a row does, due or not.
CheckUnfinished(w) ==
    /\ worker[w].at = "checking"
    /\ LET b == worker[w].b IN
        worker' = [worker EXCEPT ![w] =
            IF Unfinished(b) # {}
                THEN [at |-> "resetting", b |-> b]
                ELSE [at |-> "closing", b |-> b, final |-> "done"]]
    /\ UNCHANGED <<broadcast, delivery, person, snapshots, arrived, summaries, overlapped>>

\* reset_broadcast_attempts, a transaction of its own.
ResetAttempts(w) ==
    /\ worker[w].at = "resetting"
    /\ broadcast' = [broadcast EXCEPT ![worker[w].b].attempts = 0]
    /\ worker' = [worker EXCEPT ![w] = Idle]
    /\ UNCHANGED <<delivery, person, snapshots, arrived, summaries, overlapped>>

\* build_language_breakdown: the rows of the languages the broadcast has.
InCount(b, statuses) == Cardinality({u \in InStatus(b, statuses) : delivery[b][u].lang \in broadcast[b].languages})

CountsOfTheTried(b) ==
    [sent |-> InCount(b, {"sent"}), failed |-> InCount(b, {"failed"}),
     skipped |-> InCount(b, {"skipped"}), orphan |-> InCount(b, {"in_progress"})]

\* aggregate_delivery_counts, after fail_unattempted_deliveries.
CountsOf(b) ==
    [sent |-> InCount(b, {"sent"}), failed |-> InCount(b, {"failed"} \cup Waiting),
     skipped |-> InCount(b, {"skipped"}), orphan |-> InCount(b, {"in_progress"})]

ClosesAlways(b) == broadcast[b].status # "unused"

\* transition_to_terminal: the compare-and-swap.
Closes(b) == broadcast[b].status = "sending"

\* finalize_broadcast: counts are written whoever has closed the broadcast.
Finalize(w) ==
    /\ worker[w].at = "closing"
    /\ LET b == worker[w].b IN
        /\ broadcast' = [broadcast EXCEPT
                ![b].counts = CountsOf(b),
                ![b].status = IF Closes(b) THEN worker[w].final ELSE @]
        /\ delivery' = [delivery EXCEPT ![b] = [u \in Users |->
                IF u \in InStatus(b, Waiting) THEN [@[u] EXCEPT !.status = "failed"] ELSE @[u]]]
        /\ worker' = [worker EXCEPT ![w] = [at |-> "purging", b |-> b, won |-> Closes(b)]]
    /\ UNCHANGED <<person, snapshots, arrived, summaries, overlapped>>

\* purge_deliveries, and the summary is for the run that closed the broadcast.
Purge(w) ==
    /\ worker[w].at = "purging"
    /\ LET b == worker[w].b IN
        /\ delivery' = [delivery EXCEPT ![b] = [u \in Users |-> NoRow]]
        /\ worker' = [worker EXCEPT ![w] = IF worker[w].won THEN [at |-> "reporting", b |-> b] ELSE Idle]
    /\ UNCHANGED <<broadcast, person, snapshots, arrived, summaries, overlapped>>

\* notify_operators: no failure to send leaves it.
Report(w) ==
    /\ worker[w].at = "reporting"
    /\ summaries' = [summaries EXCEPT ![worker[w].b] = @ + 1]
    /\ worker' = [worker EXCEPT ![w] = Idle]
    /\ UNCHANGED <<broadcast, delivery, person, snapshots, arrived, overlapped>>

-----------------------------------------------------------------------------
(* What happens to it *)

\* The process dies, or a step's transaction fails and the run is faulty.
Crash(w) ==
    /\ worker[w] # Idle
    /\ worker' = [worker EXCEPT ![w] = Idle]
    /\ UNCHANGED <<broadcast, delivery, person, snapshots, arrived, summaries, overlapped>>

\* next_attempt_time passes.
ComeDue(b, u) ==
    /\ delivery[b][u] # NoRow /\ delivery[b][u].status = "retry" /\ ~delivery[b][u].due
    /\ delivery' = [delivery EXCEPT ![b][u].due = TRUE]
    /\ UNCHANGED <<broadcast, person, worker, snapshots, arrived, summaries, overlapped>>

\* A recipient blocks the bot or comes back.
Move(u) ==
    /\ person[u] # "erased"
    /\ person' = [person EXCEPT ![u] = IF @ = "member" THEN "left" ELSE "member"]
    /\ UNCHANGED <<broadcast, delivery, worker, snapshots, arrived, summaries, overlapped>>

\* An account is deleted, and its delivery rows with it.
Erase(u) ==
    /\ person[u] # "erased"
    /\ person' = [person EXCEPT ![u] = "erased"]
    /\ delivery' = [b \in Broadcasts |-> [delivery[b] EXCEPT ![u] = NoRow]]
    /\ UNCHANGED <<broadcast, worker, snapshots, arrived, summaries, overlapped>>

-----------------------------------------------------------------------------

Operate(o) ==
    \/ \E entries \in Contents : Upload(o, entries)
    \/ Reenter(o)
    \/ \E b \in Broadcasts : Confirm(o, b) \/ Cancel(o, b)

\* process_claimed_broadcast, without the failures.
Work(w) ==
    \/ \E b \in Broadcasts : Claim(w, b)
    \/ CountAudience(w) \/ InsertAudience(w)
    \/ ClaimBatch(w) \/ (\E a \in Answers : Deliver(w, a)) \/ Record(w)
    \/ CheckUnfinished(w) \/ ResetAttempts(w)
    \/ Finalize(w) \/ Purge(w) \/ Report(w)

Next ==
    \/ \E o \in Operators : Operate(o)
    \/ \E w \in Workers : Work(w) \/ LoseConnection(w) \/ Crash(w)
    \/ \E b \in Broadcasts, u \in Users : ComeDue(b, u)
    \/ \E u \in Users : Move(u) \/ Erase(u)

Spec == Init /\ [][Next]_vars

\* The event service starts the job periodically and a run goes on unless it fails (weak fairness of
\* each of its steps); a broadcast past the threshold is closed by one of the runs that try (strong
\* fairness of Finalize); time passes.
Fairness ==
    /\ \A w \in Workers : WF_vars(Work(w)) /\ SF_vars(Finalize(w))
    /\ \A b \in Broadcasts, u \in Users : WF_vars(ComeDue(b, u))

FairSpec == Spec /\ Fairness

-----------------------------------------------------------------------------
(* Properties *)

\* A row a run is delivering is in progress and is on no other run's page (claim_pending_batch).
PagesAreDisjoint ==
    \A v, w \in Workers : v # w =>
        ~ (/\ worker[v].at = "delivering" /\ worker[w].at = "delivering" /\ worker[v].b = worker[w].b
           /\ \E u \in DOMAIN worker[v].rows \cap DOMAIN worker[w].rows :
                worker[v].rows[u].born = worker[w].rows[u].born)

\* Of one audience, nobody receives the message twice, whatever runs overlap, crash or time out.
OncePerSnapshot ==
    \A b \in Broadcasts, u \in Users :
        \A i, j \in 1 .. Len(arrived[b][u]) : i # j => arrived[b][u][i] # arrived[b][u][j]

\* broadcast/__init__.py: "No recipient is ever messaged twice."  True of runs that do not overlap,
\* through every crash and resumption.
NoRecipientTwice == \A b \in Broadcasts, u \in Users : Len(arrived[b][u]) <= 1

\* The operators get the summary of a broadcast once, and only of one that is over.
OneSummary ==
    \A b \in Broadcasts :
        /\ summaries[b] <= 1
        /\ summaries[b] = 1 => broadcast[b].status \in Terminal

Reach(b) == Cardinality({u \in Users : arrived[b][u] # <<>>})

\* The counts of a broadcast that is over cover its audience, and who received it is between the
\* sent and the sent with the orphans (no overlap, nobody erased).
CountsAreTrue ==
    \A b \in Broadcasts \ overlapped :
        broadcast[b].status \in Terminal /\ (\A u \in Users : person[u] # "erased") =>
            LET c == broadcast[b].counts IN
                /\ c.sent + c.failed + c.skipped + c.orphan = broadcast[b].total
                /\ c.sent <= Reach(b) /\ Reach(b) <= c.sent + c.orphan

\* A row fails only by a page's verdict or with the broadcast: the retry of a recipient who has
\* attempts left is not given up (no overlap).
RetriesAreTaken ==
    [][\A b \in Broadcasts \ overlapped, u \in Users :
        delivery[b][u] # NoRow /\ delivery'[b][u] # NoRow
            /\ delivery[b][u].status \in Waiting /\ delivery'[b][u].status = "failed"
                => broadcast'[b].status = "failed"]_vars

\* Every confirmed broadcast ends, whatever Telegram answers and however often runs crash, and so
\* does the one behind it.
BroadcastsEnd ==
    \A b \in Broadcasts : broadcast[b].status = "queued" ~> broadcast[b].status \in Terminal

\* What the operators are told of a broadcast is true, and they are told once.
ReportsAreTrue == CountsAreTrue /\ OneSummary

\* Each recipient of one audience is written to once, on one page, and not given up before its attempts.
RecipientsAreServed == [][PagesAreDisjoint' /\ OncePerSnapshot']_vars /\ RetriesAreTaken

=============================================================================
