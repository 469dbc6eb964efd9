----------------------------- MODULE SharedCards -----------------------------
(***************************************************************************)
(* Sharing a meeting into other chats and finding it there                 *)
(* (handlers/inline_query, meeting/attach_to_chat, the guard               *)
(* shared_meeting, models/messages.py).  An inline query offers meetings;  *)
(* Telegram posts the chosen one as a card and tells the bot in an update  *)
(* of its own, which may come late, twice or never.  A tap on the card     *)
(* says in which chat it lies; "make it searchable" stores that, and a     *)
(* search in a chat lists the meetings whose stored cards lie there.       *)
(*                                                                         *)
(* The chosen result and the attachment read and write the stored cards    *)
(* without a lock that both take, so each reads, and commits later.  A     *)
(* card removed by people is found gone by an edit, which drops its rows.  *)
(*                                                                         *)
(* Unused definitions that stand before one of the same parameters are     *)
(* plausible mistakes in its code, for the mutants of PROJECT.json.        *)
(***************************************************************************)
EXTENDS Naturals, FiniteSets

CONSTANTS
    Meetings,
    Chats,
    Cards,          \* inline messages, in the order Telegram posts them
    MaxRedeliveries \* bound: chosen results delivered again

\* A card that was posted is told from one that was not, and a chat from no chat.
CardsFit ==
    /\ Cards \subseteq Nat /\ MaxRedeliveries \in Nat
    /\ "none" \notin Meetings /\ "unknown" \notin Chats

VARIABLES
    active,         \* meetings that have not ended
    public,         \* meetings anybody may share, for good here
    known,          \* meetings whose row still exists
    card,           \* what Telegram posted: [meeting, chat], or NoCard
    removed,        \* cards people deleted from their chat
    expired,        \* cards whose meeting has ended since they were posted
    chosen,         \* chosen results under way, by card
    again,          \* redeliveries so far
    rows,           \* messages rows: [n, card, meeting, chat], chat "unknown" until a tap
    writer,         \* the transaction open for each card's update: what it read
    enabled,        \* cards whose tap was answered "searchable"
    refused         \* cards a tap was refused on

vars == <<active, public, known, card, removed, expired, chosen, again, rows, writer, enabled, refused>>

NoCard == [meeting |-> "none", chat |-> "none"]
Updates == {"chosen", "tap"}
Idle == [open |-> FALSE, found |-> FALSE]

Posted == {c \in Cards : card[c] # NoCard}
Row(update, c, chat) == [by |-> update, card |-> c, meeting |-> card[c].meeting, chat |-> chat]

TypeOK ==
    /\ active \subseteq Meetings /\ public \subseteq Meetings /\ known \subseteq Meetings
    /\ card \in [Cards -> [meeting : Meetings, chat : Chats] \cup {NoCard}]
    /\ removed \subseteq Cards /\ expired \subseteq Cards /\ chosen \subseteq Cards /\ again \in 0 .. MaxRedeliveries
    /\ rows \subseteq [by : Updates, card : Cards, meeting : Meetings, chat : Chats \cup {"unknown"}]
    /\ writer \in [Updates \X Cards -> [open : BOOLEAN, found : BOOLEAN]]
    /\ enabled \subseteq Cards /\ refused \subseteq Cards

Init ==
    /\ active = Meetings /\ public \in SUBSET Meetings /\ known = Meetings
    /\ card = [c \in Cards |-> NoCard] /\ removed = {} /\ expired = {} /\ chosen = {} /\ again = 0 /\ rows = {}
    /\ writer = [u \in Updates \X Cards |-> Idle] /\ enabled = {} /\ refused = {}

--------------------------------------------------------------------------------
(* Sharing. *)

\* search_chat_meetings: active meetings with a stored card in the chat, each once.
Found(chat) == {m \in active \cap known : \E r \in rows : r.meeting = m /\ r.chat = chat}

\* What the panel may offer in a chat: inline_view and share_meeting to the owner, share_meeting of a
\* public meeting to anybody, a search to whoever is in the chat.
Offered(byOwner, chat) ==
    {m \in active \cap known : byOwner \/ m \in public} \cup Found(chat)

\* Telegram posts the next card, and owes the bot the chosen result.
Share ==
    \E c \in Cards, byOwner \in BOOLEAN, chat \in Chats :
      /\ card[c] = NoCard /\ \A d \in Cards : d < c => card[d] # NoCard
      /\ \E m \in Offered(byOwner, chat) : card' = [card EXCEPT ![c] = [meeting |-> m, chat |-> chat]]
      /\ chosen' = chosen \cup {c}
      /\ UNCHANGED <<active, public, known, removed, expired, again, rows, writer, enabled, refused>>

Redeliver(c) ==
    /\ c \in Posted \ chosen /\ again < MaxRedeliveries /\ again' = again + 1
    /\ chosen' = chosen \cup {c}
    /\ UNCHANGED <<active, public, known, card, removed, expired, rows, writer, enabled, refused>>

\* meetup_id_for_inline_message.
Tracked(c) == \E r \in rows : r.card = c

\* chosen_result looks the meeting up in any state: a card is claimed even if it ended since.
Exists(m) == m \in known

\* chosen_inline_result_handler: nothing for a meeting that is gone or a card that is tracked.
Choose(c) ==
    /\ c \in chosen /\ ~writer[<<"chosen", c>>].open
    /\ IF Exists(card[c].meeting)
       THEN writer' = [writer EXCEPT ![<<"chosen", c>>] = [open |-> TRUE, found |-> Tracked(c)]] /\ UNCHANGED chosen
       ELSE chosen' = chosen \ {c} /\ UNCHANGED writer
    /\ UNCHANGED <<active, public, known, card, removed, expired, again, rows, enabled, refused>>

Close(update, c) == writer' = [writer EXCEPT ![<<update, c>>] = Idle]

\* Its commit; a meeting deleted meanwhile fails the foreign key, and nothing is stored.
ChooseCommit(c) ==
    /\ writer[<<"chosen", c>>].open
    /\ rows' = IF writer[<<"chosen", c>>].found \/ card[c].meeting \notin known THEN rows
               ELSE rows \cup {Row("chosen", c, "unknown")}
    /\ Close("chosen", c) /\ chosen' = chosen \ {c}
    /\ UNCHANGED <<active, public, known, card, removed, expired, again, enabled, refused>>

--------------------------------------------------------------------------------
(* A tap on "make it searchable", by somebody with no part in the meeting. *)

RowsOf(m) == {r \in rows : r.meeting = m}

\* A card of this chat.
AllowedInChat(c) ==
    LET m == card[c].meeting IN m \in public \/ \E r \in RowsOf(m) : r.chat = card[c].chat

\* The message-bound arms of meeting_interaction_allowed: the tapped card, or one in the same chat.
Allowed(c) ==
    LET m == card[c].meeting IN
    \/ m \in public
    \/ \E r \in RowsOf(m) : r.card = c \/ r.chat = card[c].chat

\* attach_to_chat up to its writes; a refusal or a missing meeting ends it.
Tap(c) ==
    /\ c \in Posted \ removed /\ ~writer[<<"tap", c>>].open
    /\ IF Exists(card[c].meeting) /\ Allowed(c)
       THEN writer' = [writer EXCEPT ![<<"tap", c>>] = [open |-> TRUE, found |-> Tracked(c)]] /\ UNCHANGED refused
       ELSE /\ refused' = IF Exists(card[c].meeting) THEN refused \cup {c} ELSE refused
            /\ UNCHANGED writer
    /\ UNCHANGED <<active, public, known, card, removed, expired, chosen, again, rows, enabled>>

\* is_already_attached: another card of the meeting makes it findable in this chat.
Already(c) == \E r \in RowsOf(card[c].meeting) : r.chat = card[c].chat

\* Nothing to store where the meeting is found already.
CaptureIfNew(r, c) == IF r.card = c /\ r.chat = "unknown" /\ ~Already(c) THEN [r EXCEPT !.chat = card[c].chat] ELSE r

\* capture_chat_instance on the tapped card's row.
Capture(r, c) == IF r.card = c /\ r.chat = "unknown" THEN [r EXCEPT !.chat = card[c].chat] ELSE r

\* The first row of the card, which message_from_update returns.
First(c) == LET mine == {r \in rows : r.card = c} IN
    IF Cardinality(mine) = 1 THEN mine ELSE {r \in mine : r.by = "chosen"}

\* The commit: the row it found captures the chat, or a new row is linked.  When the row or the
\* meeting went meanwhile nothing is stored, whatever the tap was told.
TapCommit(c) ==
    /\ writer[<<"tap", c>>].open
    /\ Close("tap", c)
    /\ IF card[c].meeting \notin known \/ (writer[<<"tap", c>>].found /\ ~Tracked(c))
       THEN UNCHANGED <<rows, enabled>>
       ELSE /\ rows' = IF writer[<<"tap", c>>].found
                       THEN (rows \ First(c)) \cup {Capture(r, c) : r \in First(c)}
                       ELSE rows \cup {Row("tap", c, card[c].chat)}
            /\ enabled' = enabled \cup {c}
    /\ UNCHANGED <<active, public, known, card, removed, expired, chosen, again, refused>>

--------------------------------------------------------------------------------
(* What else happens to cards and meetings. *)

Remove(c) ==
    /\ c \in Posted \ removed
    /\ removed' = removed \cup {c}
    /\ UNCHANGED <<active, public, known, card, expired, chosen, again, rows, writer, enabled, refused>>

\* An edit finds the card gone: the reconciler deletes the row that was edited.
DropDead ==
    /\ \E r \in rows : r.card \in removed /\ rows' = rows \ {r}
    /\ UNCHANGED <<active, public, known, card, removed, expired, chosen, again, writer, enabled, refused>>

Of(m) == {c \in Posted : card[c].meeting = m}

\* Deactivation tells the cards and drops their rows: no card of the meeting is stored any more.
End(m) ==
    /\ m \in active
    /\ active' = active \ {m} /\ rows' = rows \ RowsOf(m)
    /\ expired' = expired \cup Of(m) /\ enabled' = enabled \ Of(m)
    /\ UNCHANGED <<public, known, card, removed, chosen, again, writer, refused>>

Reactivate(m) ==
    /\ m \in known \ active
    /\ active' = active \cup {m}
    /\ UNCHANGED <<public, known, card, removed, expired, chosen, again, rows, writer, enabled, refused>>

\* The meeting is deleted, and its messages with it.
Delete(m) ==
    /\ m \in known
    /\ known' = known \ {m} /\ active' = active \ {m} /\ rows' = rows \ RowsOf(m)
    /\ UNCHANGED <<public, card, removed, expired, chosen, again, writer, enabled, refused>>

Next ==
    \/ Share
    \/ \E c \in Cards : \/ Redeliver(c) \/ Choose(c) \/ ChooseCommit(c)
                        \/ Tap(c) \/ TapCommit(c) \/ Remove(c)
    \/ DropDead
    \/ \E m \in Meetings : End(m) \/ Reactivate(m) \/ Delete(m)

Spec == Init /\ [][Next]_vars

--------------------------------------------------------------------------------
(* Properties. *)

\* A search in a chat finds exactly the live meetings somebody made searchable there through a card
\* that is still there (or not yet known to be gone), and no meeting of another chat.
SearchIsExact ==
    \A chat \in Chats, m \in active :
      LET attached == {c \in enabled : card[c] = [meeting |-> m, chat |-> chat]} IN
      /\ attached \ removed # {} => m \in Found(chat)
      /\ m \in Found(chat) => attached # {}

\* Whoever holds a card may use it once Telegram's word that it was posted has been handled, as long
\* as its meeting has not ended since: until then a tap may be refused, and nothing else refuses one.
RefusalsAreEarly == refused' \ refused \subseteq chosen \cup expired
=============================================================================
