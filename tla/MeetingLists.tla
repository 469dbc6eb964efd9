---------------------------- MODULE MeetingLists -----------------------------
(***************************************************************************)
(* The bot-chat screens a meeting is reached and deleted from: the active, *)
(* joined and past lists with their pages, the detail and past screens,    *)
(* the three delete prompts (handlers/main_menu, meeting/show_meeting,     *)
(* show_past_meeting, delete_meeting), the guard every one of them goes    *)
(* through and the screens that answer its rejections.                     *)
(*                                                                         *)
(* One person has several screens in the chat.  A screen keeps the buttons *)
(* it was drawn with while its meetings end, come back, are destroyed by   *)
(* the sweep or are left, and while the same person acts on another        *)
(* screen.  Taps of one person are handled one at a time (see Delivery),   *)
(* so a handler is one step.  Guests are the placeholder accounts of       *)
(* invited people, which live inside a meeting.                            *)
(*                                                                         *)
(* Unused definitions that stand before one of the same parameters are     *)
(* plausible mistakes in its code, for the mutants of PROJECT.json.        *)
(***************************************************************************)
EXTENDS Integers, Sequences, FiniteSets, FiniteSetsExt, Functions

CONSTANTS
    Own,            \* ids of the person's own meetings
    Others,         \* ids of meetings of other people
    Screens,        \* messages of the bot in the person's chat
    PageSize,       \* MEETINGS_PER_PAGE
    MaxChanges      \* bound: changes that come from elsewhere

\* Ids are the creation order, and pages are numbered from 1.
ListsFit ==
    /\ IsFiniteSet(Own \cup Others) /\ Own \cup Others \subseteq Nat /\ Own \cap Others = {}
    /\ PageSize \in Nat \ {0} /\ MaxChanges \in Nat

VARIABLES
    state,          \* each meeting is "active", "past" or "gone"
    due,            \* what the past list sorts by: the deletion due time, later ones undated
    joined,         \* the meetings of others the person is on
    guests,         \* meetings with placeholder accounts
    orphans,        \* placeholder accounts whose meeting is gone, by that meeting
    screen,         \* what each screen was drawn as
    changes

vars == <<state, due, joined, guests, orphans, screen, changes>>

Listable == Own \cup Others
Kinds == {"active", "joined", "past"}
Dues == {1, 2}

\* What a screen was drawn as.  rows are the meetings it shows, pages the length of its list.
View == [at : {"menu", "list", "detail", "past", "prompt", "past_prompt", "all_prompt", "ended", "deleted", "refused", "error"},
         kind : Kinds \cup {"none"}, page : 0 .. Cardinality(Listable), pages : 0 .. Cardinality(Listable),
         meeting : Listable \cup {0}, rows : SUBSET Listable]

Blank == [at |-> "menu", kind |-> "none", page |-> 0, pages |-> 0, meeting |-> 0, rows |-> {}]

TypeOK ==
    /\ state \in [Listable -> {"active", "past", "gone"}] /\ due \in [Listable -> Dues] /\ joined \subseteq Others
    /\ guests \subseteq Own /\ orphans \subseteq Own /\ screen \in [Screens -> View] /\ changes \in 0 .. MaxChanges

Init ==
    /\ state = [m \in Listable |-> "active"] /\ due = [m \in Listable |-> 1] /\ joined = Others
    /\ guests = Own /\ orphans = {} /\ screen = [s \in Screens |-> Blank] /\ changes = 0

--------------------------------------------------------------------------------
(* The lists and their pages. *)

Of(value) == {m \in Own : state[m] = value}

\* What is listed before what.
ByAge == {p \in Listable \X Listable : p[1] < p[2]}
ByDue == {p \in Listable \X Listable : due[p[1]] < due[p[2]] \/ (due[p[1]] = due[p[2]] /\ p[1] < p[2])}

\* sorted, by an order in which no two are level.
InOrder(S, before) ==
    CHOOSE list \in [1 .. Cardinality(S) -> S] : \A i, j \in DOMAIN list : i < j => <<list[i], list[j]>> \in before

\* The three lists, and what is on them.
Members(kind) ==
    CASE kind = "active" -> Of("active")
      [] kind = "joined" -> {m \in joined : state[m] = "active"}
      [] kind = "past" -> Of("past")

Listed(kind) == InOrder(Members(kind), IF kind = "past" THEN ByDue ELSE ByAge)

PagesOf(count) == (count + PageSize - 1) \div PageSize

\* The page the button was drawn with.
AsRequested(page, count) == page

\* clamp_page.
Clamp(page, count) == Max({1, Min({page, Max({1, PagesOf(count)})})})

\* page_slice.
Slice(list, page) ==
    Range(SubSeq(list, (page - 1) * PageSize + 1, Min({page * PageSize, Len(list)})))

\* PaginatedMitupView over a list that is not empty; a page outside it cannot be built.
Paged(at, kind, list, page) ==
    IF page \in 1 .. PagesOf(Len(list))
    THEN [at |-> at, kind |-> kind, page |-> page, pages |-> PagesOf(Len(list)), meeting |-> 0, rows |-> Slice(list, page)]
    ELSE [Blank EXCEPT !.at = "error"]

About(at, m, kind, page) ==
    [at |-> at, kind |-> kind, page |-> page, pages |-> 0, meeting |-> m, rows |-> {m}]

Draw(s, view) == screen' = [screen EXCEPT ![s] = view]
Show(s, view) == Draw(s, view) /\ UNCHANGED <<state, due, joined, guests, orphans, changes>>

\* An empty list is told in an alert and leaves the screen as it is.
ShowPage(s, at, kind, page) ==
    LET list == Listed(kind) IN
    Show(s, IF list = <<>> THEN screen[s] ELSE Paged(at, kind, list, Clamp(page, Len(list))))

--------------------------------------------------------------------------------
(* The guard, its three profiles here, and the screens of its rejections. *)

Owned(m) == m \in Own /\ state[m] # "gone"

\* meeting() for a live profile: the screen that refuses, or "detail".
Live(m, alsoJoined) ==
    CASE state[m] = "gone" -> "deleted"
      [] state[m] = "past" -> IF m \in Own THEN "ended" ELSE "menu"
      [] OTHER -> IF m \in Own \/ (alsoJoined /\ m \in joined) THEN "detail" ELSE "menu"

\* meeting_access_view with the row of buttons the guard was given.
Answered(at, m, kind, page) == IF at = "menu" THEN Blank ELSE About(at, m, kind, page)

--------------------------------------------------------------------------------
(* Taps on what screen s shows. *)

Chip(s) == screen[s].at = "menu" /\ \E kind \in Kinds : ShowPage(s, "list", kind, 1)

Arrow(s) ==
    LET v == screen[s] IN
    /\ v.at \in {"list", "all_prompt"}
    /\ \E page \in {v.page - 1, v.page + 1} \cap 1 .. v.pages : ShowPage(s, v.at, v.kind, page)

\* The way back of a meeting's screens: its list when it came from one, else the main menu.
Back(s) ==
    LET v == screen[s] IN
    /\ v.at \in {"detail", "past", "ended", "deleted", "refused"} /\ v.kind # "none"
    /\ ShowPage(s, "list", v.kind, v.page)

MainMenu(s) == screen[s].at # "menu" /\ Show(s, Blank)

\* callback_query_show_meeting and callback_query_show_past_meeting.
Open(s) ==
    LET v == screen[s] IN
    /\ v.at = "list"
    /\ \E m \in v.rows :
         Show(s, IF v.kind # "past" THEN Answered(Live(m, TRUE), m, v.kind, v.page)
                 ELSE IF Owned(m) THEN About("past", m, "past", v.page) ELSE Blank)

\* The delete key of a row, of an owner's card, of a finished meeting and of the screen that refuses it.
AskDelete(s) ==
    LET v == screen[s] IN
    /\ v.at \in {"list", "detail", "past", "ended"}
    /\ \E m \in v.rows \cap Own :
         IF ~Owned(m) THEN Show(s, Blank)
         ELSE IF v.at \in {"list", "past"} /\ v.kind = "past" THEN Show(s, About("past_prompt", m, "past", v.page))
         ELSE Show(s, About("prompt", m, "none", 0))

Decline(s) ==
    LET v == screen[s] IN
    \/ v.at = "prompt" /\ Show(s, Answered(Live(v.meeting, FALSE), v.meeting, "none", 0))
    \/ /\ v.at = "past_prompt"
       /\ Show(s, IF Owned(v.meeting) THEN About("past", v.meeting, "past", v.page) ELSE Blank)
    \/ v.at = "all_prompt" /\ ShowPage(s, "list", "past", v.page)

Destroy(doomed) == state' = [m \in Listable |-> IF m \in doomed THEN "gone" ELSE state[m]]

\* callback_query_confirm_delete_meeting: the invited accounts go with the meeting.
ConfirmDelete(s) ==
    LET m == screen[s].meeting IN
    /\ screen[s].at = "prompt"
    /\ IF Owned(m) THEN Destroy({m}) /\ guests' = guests \ {m} ELSE UNCHANGED <<state, guests>>
    /\ Draw(s, Blank)
    /\ UNCHANGED <<due, joined, orphans, changes>>

\* callback_query_confirm_delete_past_meeting, whatever the state; the invited accounts stay.
ConfirmDeletePast(s) ==
    LET m == screen[s].meeting IN
    /\ screen[s].at = "past_prompt"
    /\ IF Owned(m) THEN Destroy({m}) /\ guests' = guests \ {m} /\ orphans' = orphans \cup (guests \cap {m})
       ELSE UNCHANGED <<state, guests, orphans>>
    /\ Draw(s, Blank)
    /\ UNCHANGED <<due, joined, changes>>

AskDeleteAll(s) ==
    LET v == screen[s] IN
    v.at = "list" /\ v.kind = "past" /\ ShowPage(s, "all_prompt", "past", v.page)

\* The meetings the prompt was drawn with.
AsPrompted(s) == {m \in screen[s].rows : state[m] # "gone"}

\* The set is re-derived from the account that pressed the button.
Purged(s) == Of("past")

\* callback_query_confirm_delete_all_past_meetings with purge_meetups.
ConfirmDeleteAll(s) ==
    /\ screen[s].at = "all_prompt"
    /\ Destroy(Purged(s)) /\ guests' = guests \ Purged(s)
    /\ Draw(s, Blank)
    /\ UNCHANGED <<due, joined, orphans, changes>>

\* callback_query_reactivate_meeting; the cap may refuse with a way back to the past list.
Reactivate(s) ==
    LET v == screen[s] m == v.meeting IN
    /\ v.at \in {"past", "ended"}
    /\ \/ ~Owned(m) /\ Show(s, Blank)
       \/ Owned(m) /\ state[m] = "active" /\ Show(s, About("detail", m, "none", 0))
       \/ Owned(m) /\ state[m] = "past" /\ Show(s, [Blank EXCEPT !.at = "refused", !.kind = "past", !.page = 1])
       \/ /\ Owned(m) /\ state[m] = "past"
          /\ state' = [state EXCEPT ![m] = "active"]
          /\ Draw(s, About("detail", m, "none", 0))
          /\ UNCHANGED <<due, joined, guests, orphans, changes>>

\* The refresh key of a card: the same screen again, without a list to go back to.
Refresh(s) ==
    LET m == screen[s].meeting IN
    screen[s].at = "detail" /\ Show(s, Answered(Live(m, TRUE), m, "none", 0))

--------------------------------------------------------------------------------
(* What happens to the meetings meanwhile: the jobs and other people.  Deactivation empties a meeting
   of its people, guests included, so only one that came back can have guests again. *)

Elsewhere == changes < MaxChanges /\ changes' = changes + 1

End(m) ==
    /\ Elsewhere /\ state[m] = "active"
    /\ state' = [state EXCEPT ![m] = "past"]
    /\ \E t \in Dues : due' = [due EXCEPT ![m] = t]
    /\ joined' = joined \ {m} /\ guests' = guests \ {m}
    /\ UNCHANGED <<orphans, screen>>

Sweep(m) ==
    /\ Elsewhere /\ state[m] = "past"
    /\ Destroy({m}) /\ guests' = guests \ {m}
    /\ UNCHANGED <<due, joined, orphans, screen>>

Invite(m) ==
    /\ Elsewhere /\ m \in Own \ guests /\ state[m] = "active"
    /\ guests' = guests \cup {m}
    /\ UNCHANGED <<state, due, joined, orphans, screen>>

Leave(m) ==
    /\ Elsewhere /\ m \in joined
    /\ joined' = joined \ {m}
    /\ UNCHANGED <<state, due, guests, orphans, screen>>

Tap(s) ==
    \/ Chip(s) \/ Arrow(s) \/ Back(s) \/ MainMenu(s) \/ Open(s) \/ AskDelete(s) \/ Decline(s) \/ AskDeleteAll(s)
    \/ ConfirmDelete(s) \/ ConfirmDeletePast(s) \/ ConfirmDeleteAll(s) \/ Reactivate(s) \/ Refresh(s)

Next == (\E s \in Screens : Tap(s)) \/ \E m \in Listable : End(m) \/ Sweep(m) \/ Invite(m) \/ Leave(m)

Spec == Init /\ [][Next]_vars

--------------------------------------------------------------------------------
(* Properties. *)

\* A page can always be built, whatever page the button was drawn with and however the list shrank
\* since: no list answers a tap with an error or with nothing, and every meeting of a list is on a
\* page that the arrows reach from the first.
PagesExist ==
    /\ \A s \in Screens : screen[s].at # "error" /\ (screen[s].at = "list" => screen[s].rows # {})
    /\ \A kind \in Kinds :
         LET list == Listed(kind) IN Members(kind) = UNION {Slice(list, p) : p \in 1 .. PagesOf(Len(list))}

\* A meeting that is active is deleted only by a confirmation that names it: the bulk confirmation
\* takes what is past when it is pressed, and spares what came back while its prompt was open.
ActiveGoByName ==
    \A m \in Own : state[m] = "active" /\ state'[m] = "gone" =>
        \E s \in Screens : screen[s].meeting = m /\ screen[s].at \in {"prompt", "past_prompt"}

\* "This screen is only reachable for a finished meeting, so was_active is settled": the past prompt
\* deletes only finished meetings.
PastPromptTakesFinishedOnly ==
    [][\A s \in Screens : ConfirmDeletePast(s) => state[screen[s].meeting] # "active"]_vars
=============================================================================
