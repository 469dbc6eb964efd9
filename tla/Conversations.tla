----------------------------- MODULE Conversations -----------------------------
(***************************************************************************)
(* The conversations one person has with the bot in the private chat.      *)
(* python-telegram-bot keeps one state per conversation and offers an      *)
(* update to the conversations in the order of their registration; beside  *)
(* it, the bot's own registry (MitupUserData) keeps the meeting each flow  *)
(* is about, the notice of the flow entered last and the slot of a photo   *)
(* to be replaced.  Every screen the bot ever sent stays in the chat, so   *)
(* any button may be tapped at any time.                                   *)
(*                                                                         *)
(* Updates of one person's private chat are handled one after another, so  *)
(* a handler is one step.  Texts, titles and dates are left out: what is   *)
(* kept is which meeting an answer is written to, and the photos.          *)
(*                                                                         *)
(* Unused definitions that stand before one of the same parameters are     *)
(* plausible mistakes in its code, for the mutants of PROJECT.json.        *)
(***************************************************************************)
EXTENDS Naturals, Sequences, FiniteSets, SequencesExt

CONSTANTS
    Meetings,       \* the meetings this person owns
    Photos,         \* photos, by file_unique_id
    MaxPhotos,      \* MEETING_IMAGES_MAX
    InitialPhotos,  \* what a meeting may already hold
    FlowsInPlay,    \* bound: the conversations this instance opens
    MaxTaps,        \* bound: updates of this person
    NoMeeting, NoFlow, NoSlot

\* The conversations, in the order bind gives them to the application.
FlowOrder == <<"timezone", "timeout", "reminder", "description", "photos", "place", "pin",
               "limit", "title", "start", "end", "create", "invite">>

Flows == Range(FlowOrder)

ConversationsFit ==
    /\ MaxPhotos \in Nat /\ MaxTaps \in Nat /\ FlowsInPlay \subseteq Flows
    /\ \A s \in InitialPhotos :
        s \in Seq(Photos) /\ Len(s) <= MaxPhotos /\ \A i, j \in DOMAIN s : s[i] = s[j] => i = j
    /\ NoMeeting \notin Meetings /\ NoFlow \notin Flows

\* The flows that keep the meeting they are about.
AboutMeeting == {"description", "photos", "place", "pin", "limit", "title", "start", "end", "invite"}

VARIABLES
    conv,     \* PTB: the state of each conversation
    stored,   \* the registry's meeting ids
    active,   \* active_context: the flow whose on-exit notice is shown
    slot,     \* REPLACE_MEETING_IMAGE's position, with the meeting whose chip stored it
    open,     \* the meetings that are active; the others are past ones
    dated,    \* the meetings that have a start
    photos,   \* meeting_images
    host,     \* the owner's tier allows photos
    taps,     \* updates still to come
    prompts,  \* remove confirmations in the chat: meeting, position, photo shown
    asked,    \* history: what the last prompt asked for
    outcome   \* history: what the last update did

registry == <<stored, active, slot>>
rows == <<open, dated, photos, host>>
history == <<asked, outcome>>
vars == <<conv, registry, rows, taps, prompts, history>>

Nothing == [kind |-> "nothing"]

Init ==
    /\ conv = [f \in Flows |-> "none"]
    /\ stored = [f \in AboutMeeting |-> NoMeeting]
    /\ active = NoFlow
    /\ slot = NoSlot
    /\ open = Meetings
    /\ dated = {}
    /\ photos \in [Meetings -> InitialPhotos]
    /\ host = TRUE
    /\ taps = MaxTaps
    /\ prompts = {}
    /\ asked = <<NoFlow, NoMeeting>>
    /\ outcome = Nothing

-----------------------------------------------------------------------------
(* The framework. *)

Live(f) == conv[f] # "none"

\* PTB offers an update to the conversations in order: the first live one that takes it has it.
Receives(f) ==
    LET place(g) == CHOOSE i \in DOMAIN FlowOrder : FlowOrder[i] = g IN
    Live(f) /\ \A g \in Flows : Live(g) => place(f) <= place(g)

\* end_conversations with one key for every conversation misses the one that is not per chat.
EndOthersInChat(f) == [g \in Flows |-> IF g \in {f, "invite"} THEN conv[g] ELSE "none"]

\* end_conversations(keep)
EndOthers(f) == [g \in Flows |-> IF g = f THEN conv[f] ELSE "none"]

Closed == [g \in Flows |-> "none"]

\* SoleConversationHandler forgotten: only the conversation itself moves.
Alone(f, state) == [conv EXCEPT ![f] = state]

\* SoleConversationHandler: a conversation left live ends the others; one that ends leaves them be.
Sole(f, state) ==
    IF state = "none" THEN [conv EXCEPT ![f] = "none"] ELSE [EndOthers(f) EXCEPT ![f] = state]

\* An update of this person that is not about photos or prompts.
Update == taps > 0 /\ taps' = taps - 1

\* remove_context for each context, the notice with it.
CleanUserData(flows) ==
    /\ stored' = [f \in AboutMeeting |-> IF f \in flows THEN NoMeeting ELSE stored[f]]
    /\ active' = IF active \in flows THEN NoFlow ELSE active

\* cleanup_states drops what the meeting editors keep and ends every conversation.
CleanupStates ==
    /\ CleanUserData({"title", "description", "place", "pin", "start", "end", "photos"})
    /\ slot' = NoSlot
    /\ conv' = Closed

\* clean_all_user_data, with its registry alone.
ClearOnly ==
    /\ stored' = [f \in AboutMeeting |-> NoMeeting] /\ active' = NoFlow /\ slot' = NoSlot
    /\ UNCHANGED conv

\* clean_all_user_data
CleanAllUserData ==
    /\ stored' = [f \in AboutMeeting |-> NoMeeting] /\ active' = NoFlow /\ slot' = NoSlot
    /\ conv' = Closed

\* guards.meeting, for an active meeting or (OWNER_ANY_STATE) for any; nothing is found without an id.
Editable(m) == m \in open
Owned(m) == m \in Meetings

\* A handler that leaves its conversation in a state and the registry alone.
Stays(f, state) ==
    /\ Update /\ conv' = Sole(f, state)
    /\ outcome' = Nothing
    /\ UNCHANGED <<registry, rows, prompts, asked>>

\* The registry of a shown prompt: store_meeting_id and store_on_exit.
Keeps(f, m) == stored' = [stored EXCEPT ![f] = m] /\ active' = f /\ asked' = <<f, m>>

\* An entry point: its prompt, or a guard that raises. Then this conversation is over, no other.
Opens(f, m, found) ==
    /\ f \in FlowsInPlay
    /\ IF ~found THEN Stays(f, "none")
       ELSE Update /\ conv' = Sole(f, "live") /\ Keeps(f, m) /\ outcome' = Nothing
            /\ UNCHANGED <<slot, rows, prompts>>

\* Where an answer is written.
Written(f) == [kind |-> "written", on |-> <<f, stored[f]>>]

\* An answer read under meeting_id(ensure_clean=True): the id goes whether the guard raises or not.
Answered(f, found) ==
    /\ Receives(f) /\ Update /\ conv' = Sole(f, "none") /\ CleanUserData({f})
    /\ outcome' = IF found THEN Written(f) ELSE Nothing
    /\ UNCHANGED <<slot, rows, prompts, asked>>

\* An answer a live conversation cannot use: the prompt again, unless its guard raises.
Reprompted(f, found) == Receives(f) /\ Stays(f, IF found THEN "live" ELSE "none")

\* The date cards and the photo screen are drawn anew, registry and all, by every answer.
Redrawn(f, found) ==
    /\ Receives(f) /\ Update
    /\ IF ~found THEN conv' = Sole(f, "none") /\ UNCHANGED <<stored, active, asked>>
       ELSE conv' = Sole(f, "live") /\ Keeps(f, stored[f])
    /\ UNCHANGED <<slot, open, photos, host, prompts>>

\* Buttons outside the conversations, which the fallback of a live invitation takes first.
Reaches == Update /\ ~Live("invite")

-----------------------------------------------------------------------------
(* Edits of a meeting. *)

OpenTitle(m) == Opens("title", m, Editable(m))
TypeTitle == Answered("title", Editable(stored["title"]))
RejectLongTitle == Reprompted("title", Editable(stored["title"]))

OpenDescription(m) == Opens("description", m, Editable(m))
TypeDescription == Answered("description", Editable(stored["description"]))
RejectLongDescription == Reprompted("description", Editable(stored["description"]))

OpenPlace(m) == Opens("place", m, Owned(m))
TypePlace == Answered("place", Owned(stored["place"]))
RejectLongPlace == Reprompted("place", Owned(stored["place"]))

OpenPin(m) == Opens("pin", m, Owned(m))
SendPin == Answered("pin", Owned(stored["pin"]))
\* Any other message, commands too.
SendNoPin == Reprompted("pin", Owned(stored["pin"]))

\* Leaves the ids behind.
CancelPlace == \E f \in {"place", "pin"} : Receives(f) /\ Stays(f, "none")

OpenLimit(m) == Opens("limit", m, Editable(m))
\* The id is read without being consumed, for a refused number; the end of the flow clears it.
TypeLimit == Answered("limit", Owned(stored["limit"]))
\* A number above the plan's, anything else, commands too.
RefuseLimit == Reprompted("limit", Owned(stored["limit"]))
\* Writes the meeting the old button names, or raises; the id stays behind.
NoLimit == Receives("limit") /\ Stays("limit", "none")

CancelLimit ==
    /\ Receives("limit") /\ Update /\ CleanAllUserData
    /\ outcome' = Nothing /\ UNCHANGED <<rows, prompts, asked>>

\* The cancel of the first three, the fallback of the end editor.
CancelEdit ==
    /\ \E f \in {"title", "description", "photos", "end"} : Receives(f)
    /\ Update /\ CleanupStates
    /\ outcome' = Nothing /\ UNCHANGED <<rows, prompts, asked>>

\* The editor card, and the two confirmations that leave the date cards.
ShowEditor(m) ==
    /\ Reaches
    /\ IF Editable(m) THEN CleanupStates ELSE UNCHANGED <<conv, registry>>
    /\ outcome' = Nothing /\ UNCHANGED <<rows, prompts, asked>>

-----------------------------------------------------------------------------
(* Dates: here a date is set, refused or cleared. *)

\* Opening, reopening and turning the card, and its time prompt.
StartCard(m) == Opens("start", m, Editable(m))

\* A tapped day is taken or refused; the card is up either way.
PickStart(m) ==
    /\ "start" \in FlowsInPlay /\ Editable(m) /\ Update
    /\ conv' = Sole("start", "live") /\ Keeps("start", m)
    /\ dated' = dated \cup {m}
    /\ outcome' = Nothing
    /\ UNCHANGED <<slot, open, photos, host, prompts>>

TypeStart ==
    /\ Editable(stored["start"]) /\ Redrawn("start", TRUE)
    /\ dated' = dated \cup {stored["start"]}
    /\ outcome' = Written("start")

RejectStart ==
    /\ Redrawn("start", Editable(stored["start"]))
    /\ outcome' = Nothing /\ UNCHANGED dated

\* The state goes before the guard can raise.
CancelStart ==
    /\ Receives("start") /\ Update /\ CleanupStates
    /\ outcome' = Nothing /\ UNCHANGED <<rows, prompts, asked>>

\* refuse_without_start_time ends the conversation from every entry point.
EndCard(m) == Opens("end", m, Editable(m) /\ m \in dated)

\* recover_typed_without_start_time: nothing to measure an end from any more.
WithoutStart ==
    /\ Receives("end") /\ Editable(stored["end"]) /\ stored["end"] \notin dated
    /\ Update /\ CleanupStates
    /\ outcome' = Nothing /\ UNCHANGED <<rows, prompts, asked>>

TypeEnd ==
    /\ stored["end"] \in dated /\ Editable(stored["end"]) /\ Redrawn("end", TRUE)
    /\ outcome' = Written("end") /\ UNCHANGED dated

RejectEnd ==
    /\ Editable(stored["end"]) => stored["end"] \in dated
    /\ Redrawn("end", Editable(stored["end"]))
    /\ outcome' = Nothing /\ UNCHANGED dated

\* clean_all_user_data, before anything can raise.
CancelEnd ==
    /\ Receives("end") /\ Update /\ CleanAllUserData
    /\ outcome' = Nothing /\ UNCHANGED <<rows, prompts, asked>>

\* A confirmation still in the chat; no state is dropped here.
ConfirmClearTimes(m) ==
    /\ Reaches /\ Editable(m)
    /\ dated' = dated \ {m}
    /\ outcome' = Nothing
    /\ UNCHANGED <<conv, registry, open, photos, host, prompts, asked>>

-----------------------------------------------------------------------------
(* Settings, new meetings, menus. *)

Setting(f) == f \in FlowsInPlay /\ Update /\ conv' = Sole(f, "live") /\ asked' = <<f, NoMeeting>>
              /\ outcome' = Nothing /\ UNCHANGED <<stored, slot, rows, prompts>>

OpenTimezone == Setting("timezone") /\ active' = "timezone"
\* These two register no notice.
OpenTimeout == Setting("timeout") /\ UNCHANGED active
OpenReminder == Setting("reminder") /\ UNCHANGED active

\* A place or a number that resolves, or the cancel; nothing is cleaned.
EndTimezone == Receives("timezone") /\ Stays("timezone", "none")
EndTimeout == Receives("timeout") /\ Stays("timeout", "none")
EndReminder == Receives("reminder") /\ Stays("reminder", "none")
RetrySetting == \E f \in {"timezone", "timeout", "reminder"} : Reprompted(f, TRUE)

\* The button, below the cap or at it.
OpenCreate == Setting("create") /\ active' = "create"
OpenCreateAtCap == "create" \in FlowsInPlay /\ Stays("create", "none")

\* A title is taken, or the cap is reached by now: the notice stays behind.
TypeNewTitle == Receives("create") /\ Stays("create", "none")
RejectNewTitle == Reprompted("create", TRUE)

MainMenu ==
    /\ Reaches /\ CleanAllUserData
    /\ outcome' = Nothing /\ UNCHANGED <<rows, prompts, asked>>

\* Ends in the main menu, from its own conversation.
CancelCreate == Receives("create") /\ MainMenu

\* Conversations whose fallbacks or wrong-input handlers take a command before anything else.
TakesCommands == {"timezone", "timeout", "reminder", "description", "photos", "place", "pin", "limit", "title"}

\* /start, or /main_menu; a live create takes the first by its entry point and not the second.
StartCommand ==
    /\ Update /\ \A f \in TakesCommands : ~Live(f)
    /\ CleanAllUserData
    /\ outcome' = Nothing /\ UNCHANGED <<rows, prompts, asked>>

LinkAlone ==
    /\ "create" \in FlowsInPlay /\ Update /\ \A f \in TakesCommands : ~Live(f)
    /\ conv' = Sole("create", "live")
    /\ asked' = <<"create", NoMeeting>> /\ outcome' = Nothing
    /\ UNCHANGED <<registry, rows, prompts>>

\* The same with the payload of inline mode's link: straight to the title step, with no notice.
StartLink ==
    /\ "create" \in FlowsInPlay /\ Update /\ \A f \in TakesCommands : ~Live(f)
    /\ stored' = [f \in AboutMeeting |-> NoMeeting] /\ active' = NoFlow /\ slot' = NoSlot
    /\ conv' = [Closed EXCEPT !["create"] = "live"]
    /\ asked' = <<"create", NoMeeting>> /\ outcome' = Nothing
    /\ UNCHANGED <<rows, prompts>>

\* filter_messages_without_text, the fallback of these: a sticker, or a command.
Falls == {"timezone", "create", "description", "photos", "place", "title"}

\* It shows the notice of the active flow again.
ShowNotice ==
    /\ active # NoFlow /\ Update
    /\ \E f \in Falls : Receives(f) /\ outcome' = [kind |-> "notice", on |-> <<f, active>>]
    /\ UNCHANGED <<conv, registry, rows, prompts, asked>>

\* Without one the conversation is abandoned.
Abandon ==
    /\ active = NoFlow /\ \E f \in Falls : Receives(f)
    /\ Update /\ CleanAllUserData
    /\ outcome' = Nothing /\ UNCHANGED <<rows, prompts, asked>>

-----------------------------------------------------------------------------
(* Guests.  An invitation starts from any card, the shared ones too. *)

\* The previous attempt is cleared before the guard; a refusal, or no room, is the end of it.
OpenInvite(m) == Editable(m) /\ Opens("invite", m, TRUE)
InviteRefused ==
    /\ "invite" \in FlowsInPlay /\ Update /\ conv' = Sole("invite", "none") /\ CleanUserData({"invite"})
    /\ outcome' = Nothing /\ UNCHANGED <<slot, rows, prompts, asked>>

\* The confirmation of the name, unless the meeting is over.
NameGuest ==
    /\ conv["invite"] = "live" /\ Receives("invite")
    /\ Stays("invite", IF Editable(stored["invite"]) THEN "confirm" ELSE "none")

\* The button's meeting must be the one this conversation was entered for.
ConfirmGuest(m) ==
    /\ conv["invite"] = "confirm"
    /\ Answered("invite", m = stored["invite"] /\ Editable(m))

\* Cancel, decline, a meeting that filled up, or any button that is nobody's entry point.
EndInvite == Answered("invite", FALSE)

\* Join or Leave on a card in somebody else's chat, which the invitation's fallback takes and drops.
TapSharedCard ==
    /\ Update
    /\ outcome' = [kind |-> IF Live("invite") THEN "dropped" ELSE "served"]
    /\ UNCHANGED <<conv, registry, rows, prompts, asked>>

-----------------------------------------------------------------------------
(* Photos. *)

\* The editor for a host; for any other owner the locked screen, which ends the conversation.
Screen(m, kept) ==
    IF host
    THEN conv' = Sole("photos", "live") /\ Keeps("photos", m) /\ slot' = kept
    ELSE conv' = Sole("photos", "none") /\ CleanUserData({"photos"}) /\ slot' = NoSlot /\ UNCHANGED asked

\* Every chip is an entry point.  One whose meeting is over raises.
Chip(m) == "photos" \in FlowsInPlay /\ Editable(m) /\ Update
ChipOfAPastMeeting == "photos" \in FlowsInPlay /\ open # Meetings /\ Stays("photos", "none")

\* The editor; a Remove chip whose photo is gone redraws it too.
OpenPhotos(m) ==
    /\ Chip(m) /\ Screen(m, NoSlot)
    /\ outcome' = Nothing /\ UNCHANGED <<rows, prompts>>

SetImageLayout(m) == OpenPhotos(m)

ReplaceUnchecked(m, i) ==
    /\ Chip(m) /\ Screen(m, [at |-> i, of |-> m])
    /\ outcome' = Nothing /\ UNCHANGED <<rows, prompts>>

ReplaceChip(m, i) ==
    /\ Chip(m) /\ i \in DOMAIN photos[m] /\ Screen(m, [at |-> i, of |-> m])
    /\ outcome' = Nothing /\ UNCHANGED <<rows, prompts>>

\* ask_confirmation ends the conversation, so that a photo sent meanwhile is not taken for one more.
\* Position 0 is Remove all.
RemoveChip(m, i) ==
    /\ Chip(m) /\ i \in {0} \cup DOMAIN photos[m]
    /\ conv' = Sole("photos", "none") /\ CleanUserData({"photos"}) /\ slot' = NoSlot
    /\ prompts' = prompts \cup {[of |-> m, at |-> i, shown |-> IF i = 0 THEN <<>> ELSE <<photos[m][i]>>]}
    /\ outcome' = Nothing /\ UNCHANGED <<rows, asked>>

\* drop_image: the ones after it move down.
DropImage(s, i) == IF i = 0 THEN <<>> ELSE RemoveAt(s, i)

\* Confirm: the photo at that position now, if there is one; the prompt makes way for the screen.
ConfirmRemove(pr) ==
    /\ Chip(pr.of) /\ prompts' = prompts \ {pr}
    /\ LET held == photos[pr.of]
           there == pr.at \in {0} \cup DOMAIN held IN
       /\ photos' = [photos EXCEPT ![pr.of] = IF there THEN DropImage(held, pr.at) ELSE held]
       /\ outcome' = IF there
                     THEN [kind |-> "removed", shown |-> pr.shown,
                           gone |-> IF pr.at = 0 THEN <<>> ELSE <<held[pr.at]>>]
                     ELSE Nothing
    /\ Screen(pr.of, NoSlot)
    /\ UNCHANGED <<open, dated, host>>

\* Decline redraws the screen and leaves a slot chosen elsewhere.
DeclineRemove(pr) ==
    /\ Chip(pr.of) /\ prompts' = prompts \ {pr}
    /\ Screen(pr.of, slot)
    /\ outcome' = Nothing /\ UNCHANGED rows

\* A slot past the photos held now came from a stale screen.
Replacing(m) == IF slot # NoSlot /\ slot.at \in DOMAIN photos[m] THEN slot.at ELSE 0

Unseen(m, p) == 0

\* Where this photo is held already, 0 for nowhere.
HeldAt(m, p) == IF p \in Range(photos[m]) THEN CHOOSE i \in DOMAIN photos[m] : photos[m][i] = p ELSE 0

StorePhoto(s, p, i) == IF i = 0 THEN Append(s, p) ELSE [s EXCEPT ![i] = p]

\* images_photo_message_handler: refused when it is held elsewhere, which keeps the slot, or when
\* there is no room; the same photo again only clears the slot.
TakePhoto(m, p) ==
    LET at == Replacing(m)
        held == HeldAt(m, p)
        elsewhere == held # 0 /\ held # at
        stores == ~elsewhere /\ held = 0 /\ (at # 0 \/ Len(photos[m]) < MaxPhotos)
    IN  /\ photos' = IF stores THEN [photos EXCEPT ![m] = StorePhoto(@, p, at)] ELSE photos
        /\ outcome' = IF stores THEN Written("photos") ELSE Nothing
        /\ Screen(m, IF elsewhere /\ at # 0 THEN slot ELSE NoSlot)

SendPhoto(p) ==
    /\ Receives("photos") /\ Update
    /\ LET m == stored["photos"] IN
       IF ~Editable(m)
       THEN conv' = Sole("photos", "none") /\ outcome' = Nothing /\ UNCHANGED <<registry, photos, asked>>
       ELSE IF host THEN TakePhoto(m, p)
       ELSE Screen(m, slot) /\ outcome' = Nothing /\ UNCHANGED photos
    /\ UNCHANGED <<open, dated, host, prompts>>

\* An image sent as a file, or anything else that is no command.
SendNoPhoto ==
    /\ Receives("photos") /\ Update
    /\ LET m == stored["photos"] IN
       IF Editable(m) THEN Screen(m, slot) ELSE conv' = Sole("photos", "none") /\ UNCHANGED <<registry, asked>>
    /\ outcome' = Nothing /\ UNCHANGED <<rows, prompts>>

-----------------------------------------------------------------------------
(* What else happens. *)

\* The deactivation job ends a meeting under its owner's hands.
Deactivate(m) ==
    /\ m \in open /\ open' = open \ {m} /\ outcome' = Nothing
    /\ UNCHANGED <<conv, registry, dated, photos, host, taps, prompts, asked>>

\* The tier lapses.
LoseTier ==
    /\ host /\ host' = FALSE /\ outcome' = Nothing
    /\ UNCHANGED <<conv, registry, open, dated, photos, taps, prompts, asked>>

\* Conversations and the registry sit in memory and go together.
Restart ==
    /\ CleanAllUserData /\ outcome' = Nothing
    /\ UNCHANGED <<rows, taps, prompts, asked>>

Editing ==
    \/ \E m \in Meetings : OpenTitle(m) \/ OpenDescription(m) \/ OpenPlace(m) \/ OpenPin(m) \/ OpenLimit(m)
                           \/ ShowEditor(m)
    \/ TypeTitle \/ RejectLongTitle \/ TypeDescription \/ RejectLongDescription
    \/ TypePlace \/ RejectLongPlace \/ SendPin \/ SendNoPin \/ CancelPlace
    \/ TypeLimit \/ RefuseLimit \/ NoLimit \/ CancelLimit \/ CancelEdit

Dating ==
    \/ \E m \in Meetings : StartCard(m) \/ PickStart(m) \/ EndCard(m) \/ ConfirmClearTimes(m)
    \/ TypeStart \/ RejectStart \/ CancelStart
    \/ WithoutStart \/ TypeEnd \/ RejectEnd \/ CancelEnd

Menus ==
    \/ OpenTimezone \/ OpenTimeout \/ OpenReminder \/ EndTimezone \/ EndTimeout \/ EndReminder \/ RetrySetting
    \/ OpenCreate \/ OpenCreateAtCap \/ TypeNewTitle \/ RejectNewTitle \/ CancelCreate
    \/ MainMenu \/ StartCommand \/ StartLink \/ ShowNotice \/ Abandon

Inviting ==
    \/ \E m \in Meetings : OpenInvite(m) \/ ConfirmGuest(m)
    \/ InviteRefused \/ NameGuest \/ EndInvite \/ TapSharedCard

Photographing ==
    \/ \E m \in Meetings :
        \/ OpenPhotos(m) \/ SetImageLayout(m)
        \/ \E i \in 0 .. MaxPhotos : ReplaceChip(m, i) \/ RemoveChip(m, i)
    \/ \E pr \in prompts : ConfirmRemove(pr) \/ DeclineRemove(pr)
    \/ \E p \in Photos : SendPhoto(p)
    \/ SendNoPhoto \/ ChipOfAPastMeeting

Around == (\E m \in Meetings : Deactivate(m)) \/ LoseTier \/ Restart

Next == Editing \/ Dating \/ Menus \/ Inviting \/ Photographing \/ Around

Spec == Init /\ [][Next]_vars

-----------------------------------------------------------------------------
(* Properties. *)

\* The state is well formed: flows about a meeting, slots in range of what a screen could offer.
TypeOK ==
    /\ conv \in [Flows -> {"none", "live", "confirm"}]
    /\ \A f \in Flows : conv[f] = "confirm" => f = "invite"
    /\ stored \in [AboutMeeting -> Meetings \cup {NoMeeting}]
    /\ active \in Flows \cup {NoFlow}
    /\ slot \in {NoSlot} \cup [at : 1 .. MaxPhotos, of : Meetings]
    /\ open \subseteq Meetings /\ dated \subseteq Meetings /\ host \in BOOLEAN
    /\ \A m \in Meetings : photos[m] \in Seq(Photos)
    /\ taps \in 0 .. MaxTaps
    /\ asked \in (Flows \cup {NoFlow}) \X (Meetings \cup {NoMeeting})

\* A text is never up for grabs: whatever old buttons are tapped, in whatever order, one conversation
\* is live at a time, so the first match in the handler group is the one the person is in.
OneFlowAtATime == \A f, g \in Flows : Live(f) /\ Live(g) => f = g

\* The steps that read the registry never find their meeting gone while their conversation is live:
\* recover_from_lost_context is the backstop its docstring says it is.
LiveFlowKnowsItsMeeting == \A f \in AboutMeeting : Live(f) => stored[f] # NoMeeting

\* What is typed or sent goes to the meeting, and the field, the last prompt asked about: never to
\* that of an older prompt, a conversation left behind or a registry entry nobody cleaned.
AnswerLandsWhereAsked == outcome'.kind = "written" => outcome'.on = asked

\* A meeting's card holds a photo once and no more photos than the limit, whatever is replaced,
\* removed and sent again from screens of different age.
PhotosStayDistinct ==
    \A m \in Meetings :
        /\ Len(photos[m]) <= MaxPhotos
        /\ \A i, j \in DOMAIN photos[m] : photos[m][i] = photos[m][j] => i = j

\* The notice an unusable message brings up, and its cancel button, are those of the conversation the
\* message was sent into and not of one left earlier, whose context nothing cleaned.
NoticeNamesTheLiveFlow == outcome.kind = "notice" => outcome.on[1] = outcome.on[2]

\* Confirming the removal of one photo removes the photo the prompt showed.
RemovesThePhotoShown == outcome.kind = "removed" => outcome.shown = outcome.gone

\* Conversations do not leak into each other: one is live, it knows its meeting, its notices are its
\* own, and what it does to the photos of a meeting keeps them distinct.
ConversationsStayApart ==
    OneFlowAtATime /\ LiveFlowKnowsItsMeeting /\ NoticeNamesTheLiveFlow /\ PhotosStayDistinct

=============================================================================
