------------------------------- MODULE Delivery -------------------------------
(***************************************************************************)
(* How one update becomes calls to Telegram.  The update processor runs    *)
(* the updates of one person in one chat one after another.  A handler     *)
(* that writes runs in a transaction while its calls are captured; they    *)
(* are sent after the commit, and what their answers say of the database   *)
(* is reconciled in a second transaction.  A handler that only reads sends *)
(* as it goes.  An exception ends the handler and is answered by the error *)
(* handler.  Every call passes the rate limiter: a pause asked for by      *)
(* Telegram, then a bucket, then the wire.                                 *)
(*                                                                         *)
(* Contents are left out: a call is its kind and its chat.  Time is left   *)
(* out: a pause lapses, a backoff passes.                                  *)
(*                                                                         *)
(* Unused definitions that stand before one of the same parameters are     *)
(* plausible mistakes in its code, for the mutants of PROJECT.json.        *)
(***************************************************************************)
EXTENDS Naturals, Sequences, FiniteSets

CONSTANTS
    Handlers,       \* the tasks that handle updates: the processor's concurrency
    Surfaces,       \* bound: where the updates of this instance come from
    Plans,          \* bound: the calls a handler may come to make
    Attempts,       \* QUEUED_CALL_ATTEMPTS
    NetworkLimit,   \* DRAIN_NETWORK_FAILURE_LIMIT
    InlineLimit,    \* DRAIN_INLINE_EDIT_TIMEOUT_LIMIT
    Retries,        \* retries_on_throttle
    MaxUpdates,     \* bound
    Losable,        \* bound: who may block the bot, and whose card may go
    NoLock

\* The person of the updates, another user, and a card in an inline message of some chat.
Chats == {"caller", "other", "inline"}

\* A call is its kind and the chat it names.
Screens == {"screen"} \X {"caller", "inline"}   \* the tapped message, edited
Cards == {"card"} \X Chats                      \* the message of a tracked card, edited
Replies == {<<"reply", "caller">>}
Notices == {<<"notify", "other">>}              \* to somebody else
Removals == {<<"remove", "caller">>}            \* the tapped message, deleted
Answers == {<<"answer", "query">>}              \* to a query, which names no chat
Calls == Screens \cup Cards \cup Replies \cup Notices \cup Removals \cup Answers

\* A tap or a text in the bot's own chat, a tap on a card elsewhere, an inline query.
AllSurfaces == {"tap", "text", "shared", "query"}

ASSUME DeliveryAssumption ==
    /\ Surfaces \subseteq AllSurfaces /\ Plans \subseteq Seq(Calls) /\ Losable \subseteq Chats
    /\ {Attempts, NetworkLimit, InlineLimit} \subseteq Nat \ {0}
    /\ {Retries, MaxUpdates} \subseteq Nat
    /\ IsFiniteSet(Handlers) /\ NoLock \notin Handlers

VARIABLES
    inv,       \* the invocation of each handler task
    fate,      \* history: how each call of it ended
    posted,    \* history: how often Telegram carried each out
    locks,     \* the processor's map: key to lock object, named by the task that made it
    waiters,   \* of each lock object
    holder,    \* of each lock object
    paused,    \* keys held back after a 429
    blocked,   \* users who blocked the bot or are gone
    lostCards, \* cards deleted from their chat
    tracked,   \* cards that have a row
    left,      \* users recorded unreachable
    updates    \* updates still to come

world == <<blocked, lostCards>>
rows == <<tracked, left>>
serial == <<locks, waiters, holder>>
vars == <<inv, fate, posted, serial, paused, world, rows, updates>>

Idle == [phase |-> "idle", from |-> "tap", mode |-> "write", lock |-> NoLock, calls |-> <<>>, at |-> 1,
         stage |-> "wait", tries |-> 1, plain |-> FALSE, throttles |-> 0, network |-> 0, slow |-> 0,
         dead |-> {}, gone |-> {}]

Init ==
    /\ inv = [h \in Handlers |-> Idle]
    /\ fate = [h \in Handlers |-> <<>>] /\ posted = [h \in Handlers |-> <<>>]
    /\ locks = [k \in {"own", "elsewhere"} |-> NoLock]
    /\ waiters = [l \in Handlers |-> 0] /\ holder = [l \in Handlers |-> NoLock]
    /\ paused = {}
    /\ blocked = {} /\ lostCards = {} /\ tracked = Chats /\ left = {}
    /\ updates = MaxUpdates

-----------------------------------------------------------------------------
(* The update processor: one lock per user and chat, dropped by its last user. *)

\* An update on an inline message, and an inline query, has no chat.
KeyOf(s) == IF s \in {"tap", "text"} THEN "own" ELSE "elsewhere"

\* waiters += 1 on the entry of the key, which is made if there is none.
Arrive(h, s) ==
    /\ inv[h].phase = "idle" /\ s \in Surfaces /\ updates > 0 /\ updates' = updates - 1
    /\ LET k == KeyOf(s)
           \* An object of its own; the names in use are skipped.
           fresh == CHOOSE l \in Handlers : waiters[l] = 0
           l == IF locks[k] = NoLock THEN fresh ELSE locks[k] IN
       /\ locks' = [locks EXCEPT ![k] = l]
       /\ waiters' = [waiters EXCEPT ![l] = @ + 1]
       /\ inv' = [inv EXCEPT ![h] = [Idle EXCEPT !.phase = "queued", !.from = s, !.lock = l]]
    /\ fate' = [fate EXCEPT ![h] = <<>>] /\ posted' = [posted EXCEPT ![h] = <<>>]
    /\ UNCHANGED <<holder, paused, world, rows>>

\* The lock is had, the processing begins.
Enter(h) ==
    /\ inv[h].phase = "queued" /\ holder[inv[h].lock] = NoLock
    /\ holder' = [holder EXCEPT ![inv[h].lock] = h]
    /\ inv' = [inv EXCEPT ![h].phase = "entered"]
    /\ UNCHANGED <<fate, posted, locks, waiters, paused, world, rows, updates>>

DropEntry(l) == [k \in DOMAIN locks |-> IF locks[k] = l THEN NoLock ELSE locks[k]]

\* The finally of do_process_update: the entry goes with its last waiter.
Forget(l) == [k \in DOMAIN locks |-> IF locks[k] = l /\ waiters[l] = 1 THEN NoLock ELSE locks[k]]

Leave(h) ==
    /\ inv[h].phase = "done"
    /\ LET l == inv[h].lock IN
       /\ holder' = [holder EXCEPT ![l] = NoLock]
       /\ waiters' = [waiters EXCEPT ![l] = @ - 1]
       /\ locks' = Forget(l)
    /\ inv' = [inv EXCEPT ![h].phase = "idle"]
    /\ UNCHANGED <<fate, posted, paused, world, rows, updates>>

-----------------------------------------------------------------------------
(* What a handler may raise. *)

\* guards.meeting, for a profile, the state of the meeting and what the caller is to it.
MeetingGuard(access, life, role) ==
    CASE access = "owner_any_state" -> IF life # "none" /\ role = "owner" THEN "granted" ELSE "not_owned"
      [] life = "none" -> "gone"
      [] life = "inactive" -> IF role = "owner" THEN "inactive" ELSE "not_owned"
      [] role = "owner" \/ access = "owner_or_" \o role -> "granted"
      [] OTHER -> "not_owned"

Profiles == {"owner", "owner_or_joined", "owner_or_public", "owner_any_state"}

\* guards.conversation_meeting, for the steps of a conversation.
ConversationGuard(life) == IF life = "active" THEN "granted" ELSE "gone"

\* guards.shared_meeting, for a card: a claim is decided before the state is looked at.
SharedGuard(life, claim, requireActive) ==
    CASE life = "none" -> "stale"
      [] ~claim -> "denied"
      [] life = "inactive" /\ requireActive -> "stale"
      [] OTHER -> "granted"

\* guards.current_user
UserGuard(status) ==
    IF status = "deletion_requested" THEN "pending" ELSE IF status = "none" THEN "unregistered" ELSE "granted"

Lives == {"active", "inactive", "none"}

MeetingErrors == {MeetingGuard(a, l, r) : a \in Profiles, l \in Lives, r \in {"owner", "joined", "public", "none"}}
CardErrors == {SharedGuard(l, c, r) : l \in Lives, c \in BOOLEAN, r \in BOOLEAN}
CallerErrors == {UserGuard(u) : u \in {"member", "deletion_requested", "none"}}

\* The errors of each surface. fault stands for all the others, context for ContextPropertyNotSetError.
Errors(s) ==
    ( CallerErrors \cup {"fault"}
      \cup (IF s = "shared" THEN CardErrors ELSE MeetingErrors)
      \cup (IF s = "text" THEN {ConversationGuard(l) : l \in Lives} \cup {"context"} ELSE {})
    ) \ {"granted"}

-----------------------------------------------------------------------------
(* What the error handler answers. *)

Tap(s) == s \in {"tap", "shared"}
Screen(s) == <<"screen", IF s = "shared" THEN "inline" ELSE "caller">>
Alert == <<"answer", "query">>
Reply == <<"reply", "caller">>

\* notify_guard_error: the query is answered, the main menu sent; without a chat that raises.
MainMenuNotice(s) ==
    (IF Tap(s) THEN <<Alert>> ELSE <<>>) \o (IF s \in {"tap", "text"} THEN <<Reply>> ELSE <<>>)

\* A screen in place of the tapped one, or a message of its own.
InPlace(s) == IF Tap(s) THEN <<Screen(s)>> ELSE IF s = "text" THEN <<Reply>> ELSE <<>>

\* answer_callback_query, answer_inline_query, or what is left for a message.
QueryAnswer(s, otherwise) == IF s = "text" THEN otherwise ELSE <<Alert>>

\* Somebody to be deleted, somebody unknown, and a caller the bot cannot reach.
PendingAnswer(s) == QueryAnswer(s, <<Reply>>)
UnregisteredAnswer(s) == IF KeyOf(s) = "own" THEN InPlace(s) ELSE QueryAnswer(s, <<>>)
UnreachableAnswer(s) == IF Tap(s) THEN <<Alert>> ELSE <<>>

\* A claim denied is an alert; any other refusal of a card puts its banner in place, in a screen's
\* stead or of its own.
SharedAnswer(s, error) == IF error = "denied" THEN <<Alert>> ELSE InPlace(s)
MeetingAnswer(s) == InPlace(s)

\* handler: what each error is answered with.
Answer(s, error) ==
    CASE error = "pending" -> PendingAnswer(s)
      [] error = "unregistered" -> UnregisteredAnswer(s)
      [] error = "unreachable" -> UnreachableAnswer(s)
      [] error \in {"denied", "stale"} -> SharedAnswer(s, error)
      [] error \in {"gone", "inactive", "not_owned"} -> MeetingAnswer(s)
      [] error = "dropped" -> <<>>
      [] OTHER -> MainMenuNotice(s)

\* The invocation turns to its answer. The calls it had queued are gone with the transaction.
Raised(i, error) ==
    LET calls == Answer(i.from, error) IN
    [i EXCEPT !.phase = IF calls = <<>> THEN "done" ELSE "answer",
              !.mode = IF i.mode = "write" THEN "undone" ELSE "failed", !.calls = calls, !.at = 1, !.stage = "wait", !.tries = 1, !.plain = FALSE, !.throttles = 0]

\* The drain moved into the finally of begin_write.
AbortedDrains(i, error) == [i EXCEPT !.phase = "drain", !.mode = "undone"]

\* begin_write: an exception in the body, or at the commit, discards the captured calls.
Aborted(i, error) == Raised(i, error)

-----------------------------------------------------------------------------
(* The handler. *)

Run(h, mode, plan) ==
    /\ inv[h].phase = "entered" /\ plan \in Plans
    /\ inv' = [inv EXCEPT ![h].phase = IF mode = "write" THEN "body" ELSE IF plan = <<>> THEN "done" ELSE "live",
                          ![h].mode = mode, ![h].calls = plan]
    /\ fate' = [fate EXCEPT ![h] = [n \in 1 .. Len(plan) |-> "untried"]]
    /\ posted' = [posted EXCEPT ![h] = [n \in 1 .. Len(plan) |-> 0]]
    /\ UNCHANGED <<serial, paused, world, rows, updates>>

AnsweredWith(h, calls) ==
    /\ inv[h].phase = "entered" /\ Tap(inv[h].from)
    /\ inv' = [inv EXCEPT ![h].phase = "answer", ![h].mode = "failed", ![h].calls = calls]
    /\ UNCHANGED <<fate, posted, serial, paused, world, rows, updates>>

\* A button of the bot's own chat, tapped anywhere else.
PrivateChatOnly(h) == inv[h].from = "shared" /\ AnsweredWith(h, <<Alert>>)

\* A button of the old bot: its message is replaced where it is the bot's to replace.
LegacyButton(h) == AnsweredWith(h, IF inv[h].from = "tap" THEN <<Alert, Screen("tap")>> ELSE <<Alert>>)

\* A button of a conversation that is over.
StaleConversationButton(h) == inv[h].from = "tap" /\ AnsweredWith(h, <<Alert, Screen("tap")>>)

\* What a handler for admins does with everybody else.
Dropped(h) ==
    /\ inv[h].phase = "entered" /\ inv' = [inv EXCEPT ![h].phase = "done", ![h].mode = "failed"]
    /\ UNCHANGED <<fate, posted, serial, paused, world, rows, updates>>

Commit(h) ==
    /\ inv[h].phase = "body"
    /\ inv' = [inv EXCEPT ![h].phase = IF inv[h].calls = <<>> THEN "reconcile" ELSE "drain", ![h].mode = "written"]
    /\ UNCHANGED <<fate, posted, serial, paused, world, rows, updates>>

Abort(h, error) ==
    /\ inv[h].phase = "body" /\ error \in Errors(inv[h].from)
    /\ inv' = [inv EXCEPT ![h] = Aborted(inv[h], error)]
    /\ UNCHANGED <<fate, posted, serial, paused, world, rows, updates>>

-----------------------------------------------------------------------------
(* The rate limiter. *)

\* A request that names no chat pauses, and waits for, everybody.
Held(key) == "query" \in paused \/ key \in paused

Current(h) == inv[h].calls[inv[h].at]
Sending(h) == inv[h].phase \in {"live", "drain", "answer"}

\* pauses.wait; then the bucket, which only takes time.
Clear(h) ==
    /\ Sending(h) /\ inv[h].stage = "wait" /\ ~Held(Current(h)[2])
    /\ inv' = [inv EXCEPT ![h].stage = "bucket"]
    /\ UNCHANGED <<fate, posted, serial, paused, world, rows, updates>>

\* _run_request: the bucket lets it through, paused or not.
Fire(h) ==
    /\ Sending(h) /\ inv[h].stage = "bucket"
    /\ inv' = [inv EXCEPT ![h].stage = "wire"]
    /\ UNCHANGED <<fate, posted, serial, paused, world, rows, updates>>

Lapse ==
    /\ \E key \in paused : paused' = paused \ {key}
    /\ UNCHANGED <<inv, fate, posted, serial, world, rows, updates>>

-----------------------------------------------------------------------------
(* Answers, and what becomes of the call. *)

Flying(h) == Sending(h) /\ inv[h].stage = "wire"

Repeats(call) == TRUE

\* queued_call_is_retryable: what may have been carried out is repeated only where that is harmless.
Idempotent(call) == call \notin Replies \cup Notices

Inline(call) == call[2] = "inline"

\* The call after this one; a drain skips its inline edits once these are stalled.
NextCall(i, slow) ==
    LET rest == {n \in i.at + 1 .. Len(i.calls) : slow < InlineLimit \/ ~Inline(i.calls[n])} IN
    IF rest = {} THEN Len(i.calls) + 1 ELSE CHOOSE n \in rest : \A o \in rest : n <= o

Onto(i, n, over) ==
    [i EXCEPT !.phase = IF n > Len(i.calls) THEN over ELSE @,
              !.at = n, !.stage = "wait", !.tries = 1, !.plain = FALSE, !.throttles = 0]

\* DrainReport.record, and the two bounds of _drain_outbox.
Drained(i, outcome) ==
    LET network == CASE outcome = "network" -> i.network + 1
                     [] outcome = "slow" -> i.network
                     [] OTHER -> 0
        slow == IF outcome = "slow" THEN i.slow + 1 ELSE i.slow
        next == IF network >= NetworkLimit THEN Len(i.calls) + 1 ELSE NextCall(i, slow)
    IN  Onto([i EXCEPT !.network = network, !.slow = slow], next, "reconcile")

\* A call that is through, one the drain records and gets over, or one that raises.
Through(i) == IF i.phase = "drain" THEN Drained(i, "sent") ELSE Onto(i, i.at + 1, "done")

SilenceEverywhere(i, outcome, error) ==
    CASE i.phase = "drain" -> Drained(i, "network")
      [] i.phase = "live" -> Raised(i, error)
      [] OTHER -> [i EXCEPT !.phase = "done"]

Failed(i, outcome, error) ==
    CASE i.phase = "drain" -> Drained(i, outcome)
      [] i.phase = "live" -> Raised(i, error)
      \* Every answer of the error handler is best-effort.
      [] OTHER -> [i EXCEPT !.phase = "done"]

\* The history is that of the planned calls, not of the answers to an error.
Planned(h) == inv[h].phase \in {"live", "drain"}
Ends(h, how) == fate' = IF Planned(h) THEN [fate EXCEPT ![h][inv[h].at] = how] ELSE fate
CarriedOut(h, n) == posted' = IF Planned(h) THEN [posted EXCEPT ![h][inv[h].at] = @ + n] ELSE posted

\* Also "message is not modified", and a message to remove that is gone.
Accepted(h) ==
    /\ Flying(h)
    /\ Current(h)[2] \notin blocked /\ (Current(h)[1] = "card" => Current(h)[2] \notin lostCards)
    /\ inv' = [inv EXCEPT ![h] = Through(inv[h])]
    /\ Ends(h, "answered") /\ CarriedOut(h, 1)
    /\ UNCHANGED <<serial, paused, world, rows, updates>>

\* Forbidden, or "not found". A card is dropped and a notified user marked, both in the reconcile; of
\* the tapped screen nothing is kept, and only a block raises.
Unreachable(h) ==
    /\ Flying(h)
    /\ LET i == inv[h]  call == Current(h) IN
       /\ call[2] \in blocked \/ (call[1] = "card" /\ call[2] \in lostCards)
       /\ CASE call[1] = "card" ->
                 /\ inv' = [inv EXCEPT ![h] = Through([i EXCEPT !.dead = IF i.phase = "drain" THEN @ \cup {call[2]} ELSE @])]
                 /\ UNCHANGED left
            [] call[1] = "notify" /\ i.phase = "drain" ->
                 /\ inv' = [inv EXCEPT ![h] = Drained([i EXCEPT !.gone = @ \cup {call[2]}], "sent")]
                 /\ UNCHANGED left
            \* InactiveUserInteraction reaches the error handler, or the refusal of the caller's chat.
            [] OTHER ->
                 /\ inv' = [inv EXCEPT ![h] = Failed(i, "failed", IF call[1] = "notify" THEN "dropped" ELSE "unreachable")]
                 /\ left' = IF i.phase = "live" THEN left \cup {call[2]} ELSE left
    /\ Ends(h, "lost")
    /\ UNCHANGED <<posted, serial, paused, world, tracked, updates>>

\* Another BadRequest: a permanent answer, though PTB derives it from NetworkError.
Refused(h) ==
    /\ Flying(h)
    /\ inv' = [inv EXCEPT ![h] = Failed(inv[h], "failed", "fault")]
    /\ Ends(h, "answered")
    /\ UNCHANGED <<posted, serial, paused, world, rows, updates>>

\* Custom emoji refused: the same once more without them, behind the limiter again.
RefusedEmoji(h) ==
    /\ Flying(h) /\ ~inv[h].plain
    /\ inv' = [inv EXCEPT ![h].stage = "wait", ![h].plain = TRUE, ![h].throttles = 0]
    /\ UNCHANGED <<fate, posted, serial, paused, world, rows, updates>>

UncountedThrottle(i) == [i EXCEPT !.stage = "wait"]

\* process_request: the pause binds the key; the call itself is tried again as often as configured.
Throttled(i) ==
    IF i.throttles < Retries THEN [i EXCEPT !.stage = "wait", !.throttles = @ + 1] ELSE Failed(i, "failed", "fault")

TooMany(h) ==
    /\ Flying(h)
    /\ paused' = paused \cup {Current(h)[2]}
    /\ inv' = [inv EXCEPT ![h] = Throttled(inv[h])]
    /\ IF inv[h].throttles < Retries THEN UNCHANGED fate ELSE Ends(h, "answered")
    /\ UNCHANGED <<posted, serial, world, rows, updates>>

\* _invoke_queued_with_retry
Again(i) == [i EXCEPT !.stage = "wait", !.tries = @ + 1, !.plain = FALSE, !.throttles = 0]
OnceMore(i, retryable) == i.phase = "drain" /\ i.tries <= Attempts /\ retryable

MayRepeat(i, retryable) == i.phase = "drain" /\ i.tries < Attempts /\ retryable

\* No connection: Telegram has seen nothing.
NoConnection(h) ==
    /\ Flying(h)
    /\ LET i == inv[h] IN
       IF MayRepeat(i, TRUE)
       THEN inv' = [inv EXCEPT ![h] = Again(i)] /\ UNCHANGED fate
       ELSE inv' = [inv EXCEPT ![h] = Failed(i, "network", "fault")] /\ Ends(h, "silent")
    /\ UNCHANGED <<posted, serial, paused, world, rows, updates>>

\* Sent, and no answer: Telegram may have carried it out. Only a read timeout marks an inline edit.
NoAnswer(h) ==
    /\ Flying(h) /\ \E readTimeout \in BOOLEAN :
       LET i == inv[h]
           slow == readTimeout /\ Inline(Current(h)) IN
       IF MayRepeat(i, Idempotent(Current(h)))
       THEN inv' = [inv EXCEPT ![h] = Again(i)] /\ UNCHANGED fate
       ELSE /\ inv' = [inv EXCEPT ![h] = Failed(i, IF slow THEN "slow" ELSE "network", "fault")]
            /\ Ends(h, IF slow THEN "slow" ELSE "silent")
    /\ \E n \in {0, 1} : CarriedOut(h, n)
    /\ UNCHANGED <<serial, paused, world, rows, updates>>

-----------------------------------------------------------------------------
(* The end of a write. *)

OnlyIfSent(i) == IF i.network >= NetworkLimit THEN [i EXCEPT !.dead = {}, !.gone = {}] ELSE i

\* execute_queued ends with the submits of the refreshes; the fix-ups are those the drain recorded.
Recorded(i) == i

Reconcile(h) ==
    /\ inv[h].phase = "reconcile"
    /\ LET i == Recorded(inv[h]) IN
       tracked' = tracked \ i.dead /\ left' = left \cup i.gone
    /\ inv' = [inv EXCEPT ![h].phase = "done"]
    /\ UNCHANGED <<fate, posted, serial, paused, world, updates>>

\* The second transaction fails: the error handler tells the user of a change that has landed.
ReconcileFails(h) ==
    /\ inv[h].phase = "reconcile" /\ inv[h].dead \cup inv[h].gone # {}
    /\ inv' = [inv EXCEPT ![h] = Raised(inv[h], "fault")]
    /\ UNCHANGED <<fate, posted, serial, paused, world, rows, updates>>

\* The process goes, and with it whatever it had not sent. Rows stay.
Crash ==
    /\ \E h \in Handlers : inv[h].phase # "idle"
    /\ inv' = [h \in Handlers |-> Idle]
    /\ fate' = [h \in Handlers |-> <<>>] /\ posted' = [h \in Handlers |-> <<>>]
    /\ locks' = [k \in DOMAIN locks |-> NoLock]
    /\ waiters' = [l \in Handlers |-> 0] /\ holder' = [l \in Handlers |-> NoLock]
    /\ paused' = {}
    /\ UNCHANGED <<world, rows, updates>>

\* People block the bot and delete messages.
Block(u) ==
    /\ u \notin blocked /\ blocked' = blocked \cup {u}
    /\ UNCHANGED <<inv, fate, posted, serial, paused, lostCards, rows, updates>>

DeleteCard(c) ==
    /\ c \notin lostCards /\ lostCards' = lostCards \cup {c}
    /\ UNCHANGED <<inv, fate, posted, serial, paused, blocked, rows, updates>>

Serve(h) ==
    \/ Enter(h) \/ Leave(h) \/ PrivateChatOnly(h) \/ LegacyButton(h) \/ StaleConversationButton(h) \/ Dropped(h)
    \/ \E mode \in {"write", "read"}, plan \in Plans : Run(h, mode, plan)
    \/ Commit(h) \/ (\E error \in Errors(inv[h].from) : Abort(h, error))
    \/ Clear(h) \/ Fire(h) \/ Reconcile(h) \/ ReconcileFails(h)

Telegram(h) ==
    \/ Accepted(h) \/ Unreachable(h) \/ Refused(h) \/ TooMany(h)
    \/ NoConnection(h) \/ NoAnswer(h) \/ RefusedEmoji(h)

World == Crash \/ Lapse \/ (\E u \in Losable \ {"inline"} : Block(u)) \/ (\E c \in Losable : DeleteCard(c))

Next ==
    \/ \E h \in Handlers : Serve(h) \/ Telegram(h) \/ (\E s \in Surfaces : Arrive(h, s))
    \/ World

Spec == Init /\ [][Next]_vars

\* Tasks run, requests end (they have timeouts) and pauses lapse.
FairSpec == Spec /\ WF_vars(Lapse) /\ \A h \in Handlers : WF_vars(Serve(h)) /\ WF_vars(Telegram(h))

-----------------------------------------------------------------------------
(* Properties. *)

Kinds == {"screen", "card", "reply", "notify", "remove", "answer"}
Fates == {"untried", "answered", "lost", "silent", "slow"}

TypeOK ==
    /\ \A h \in Handlers :
       /\ inv[h].phase \in {"idle", "queued", "entered", "body", "live", "drain", "reconcile", "answer", "done"}
       /\ inv[h].mode \in {"write", "written", "read", "failed", "undone"}
       /\ inv[h].tries \in 1 .. Attempts /\ inv[h].throttles \in 0 .. Retries
       /\ fate[h] \in Seq(Fates) /\ posted[h] \in Seq(Nat)
    /\ tracked \subseteq Chats /\ left \subseteq Chats

\* A message is never posted twice on account of one planned call, however its requests end: not even
\* when Telegram carried the first one out and its answer was lost, which the drain retries
\* (queued_call_is_retryable).
NoDoublePost ==
    \A h \in Handlers : inv[h].mode # "failed" => \A n \in DOMAIN posted[h] :
        inv[h].mode = "written" /\ inv[h].calls[n][1] \in {"reply", "notify"} => posted[h][n] <= 1

\* A change that was rolled back leaves no trace at Telegram: none of the calls its handler made has
\* been sent, at whatever point the handler or the commit failed (begin_write discards the outbox).
UndoneWritesAreSilent ==
    \A h \in Handlers : inv[h].mode \in {"write", "undone"} =>
        \A n \in DOMAIN fate[h] : fate[h][n] = "untried" /\ posted[h][n] = 0

\* When a write is over, every card Telegram disowned during its drain is untracked and every user
\* it could not reach is recorded, also when the drain was cut short (begin_write's reconcile).
LossesAreRecorded ==
    \A h \in Handlers : inv[h].mode = "written" /\ inv[h].phase = "done" =>
        \A n \in DOMAIN fate[h] : fate[h][n] = "lost" =>
            /\ inv[h].calls[n][1] = "card" => inv[h].calls[n][2] \notin tracked
            /\ inv[h].calls[n][1] = "notify" => inv[h].calls[n][2] \in left

\* A drain gives a call up unsent only when Telegram had gone silent on as many of the calls before
\* it in a row as the limit says, or when inline edits had stalled and this is another: one bad call
\* does not take the others with it (_drain_outbox).
OneFailureIsLocal ==
    \A h \in Handlers : inv[h].mode = "written" /\ inv[h].phase \in {"reconcile", "done"} =>
        \A n \in DOMAIN fate[h] : fate[h][n] = "untried" =>
            LET tried == {m \in DOMAIN fate[h] : fate[h][m] # "untried"}
                slow == {m \in tried : fate[h][m] = "slow"}
                Last(m) == Cardinality({o \in tried \ slow : o >= m}) <= NetworkLimit
            IN  \/ Inline(inv[h].calls[n]) /\ Cardinality(slow) >= InlineLimit
                \/ /\ Cardinality(tried \ slow) >= NetworkLimit
                   /\ \A m \in tried \ slow : Last(m) => fate[h][m] = "silent"

\* Two updates of one person in one chat are never handled at the same time, however many wait, fail or
\* finish in between (do_process_update).
OneUpdatePerKey ==
    \A g, h \in Handlers :
        /\ g # h
        /\ inv[g].phase \notin {"idle", "queued"} /\ inv[h].phase \notin {"idle", "queued"}
        => KeyOf(inv[g].from) # KeyOf(inv[h].from)

\* Every update is through in the end, whatever Telegram answers: throttled calls are tried a bounded
\* number of times, errors are answered once, and the lock goes to the next in line.
UpdatesEnd == \A h \in Handlers : inv[h].phase # "idle" ~> inv[h].phase = "idle"

\* rate_limiter.py: "The wait Telegram asked for binds the key, not the call".
PausesBind == [][\A h \in Handlers : inv[h].stage = "bucket" /\ inv'[h].stage = "wire" => ~Held(Current(h)[2])]_vars

\* A drain does all it can: whatever it found lost is recorded, and no call is given up for another.
DrainIsThorough == LossesAreRecorded /\ OneFailureIsLocal

=============================================================================
