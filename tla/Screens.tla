------------------------------- MODULE Screens -------------------------------
(***************************************************************************)
(* The machines behind the screens of the bot, side by side: the dates of  *)
(* a meeting, the conversations that edit it, the lists it is found in,    *)
(* the cards it is shared by, and the consent a Patreon account is linked  *)
(* by.  They share no state, so a behaviour is one of one of them, chosen  *)
(* in the initial state; variables of the same name are told apart by      *)
(* part, and those of the other parts stay Unused.                         *)
(***************************************************************************)
EXTENDS Integers, Sequences, FiniteSets

CONSTANTS
    \* Of the dates.
    Zones, Day, MaxDuration, HorizonDays, Unlimited, LastNow, LastDate, NoDate,
    \* Of the conversations.
    Meetings, Photos, MaxPhotos, InitialPhotos, FlowsInPlay, MaxTaps, NoMeeting, NoFlow, NoSlot,
    \* Of the lists.
    Own, Others, Prompts, PageSize, MaxListChanges,
    \* Of the shared cards.
    Announced, Rooms, Postings, MaxRedeliveries,
    \* Of the consent.
    Requests, Ttl, Tolerance, Ahead, MaxNow, MaxConsents, MaxFaults

VARIABLES
    part, now, active,
    zone, start, end, lock, wanted,
    conv, stored, slot, open, dated, photos, host, taps, prompts, asked, outcome,
    state, due, joined, guests, orphans, screen, listChanges,
    public, known, card, removed, expired, chosen, again, cardRows, writer, enabled, refused,
    button, consents, request, page, links, faults

Dates == INSTANCE MeetingDates
Talk == INSTANCE Conversations
Lists == INSTANCE MeetingLists WITH Screens <- Prompts, MaxChanges <- MaxListChanges, changes <- listChanges
Shared == INSTANCE SharedCards WITH Meetings <- Announced, Chats <- Rooms, Cards <- Postings, rows <- cardRows
Consent == INSTANCE PatreonConsent

\* The constants of each instance are what its module expects.
ASSUME ScreensAssumption ==
    Dates!DatesFit /\ Talk!ConversationsFit /\ Lists!ListsFit /\ Shared!CardsFit /\ Consent!ConsentFits

DatesVars == <<zone, start, end, lock, wanted>>
TalkVars == <<conv, slot, open, dated, photos, host, taps, prompts, asked, outcome>>
ListsVars == <<state, due, joined, guests, orphans, listChanges>>
CardsVars == <<public, known, card, removed, expired, chosen, again, cardRows, writer, enabled, refused>>
ConsentVars == <<button, consents, request, page, links, faults>>
screensVars == <<part, now, active, stored, screen, DatesVars, TalkVars, ListsVars, CardsVars, ConsentVars>>

--------------------------------------------------------------------------------
(* The variables only one part has, unused. *)

Unused == 0

NoDates ==
    /\ zone = Unused /\ start = Unused /\ end = Unused /\ lock = Unused /\ wanted = Unused
NoTalk ==
    /\ conv = Unused /\ slot = Unused /\ open = Unused /\ dated = Unused /\ photos = Unused
    /\ host = Unused /\ taps = Unused /\ prompts = Unused /\ asked = Unused /\ outcome = Unused
NoLists ==
    /\ state = Unused /\ due = Unused /\ joined = Unused /\ guests = Unused /\ orphans = Unused
    /\ listChanges = Unused
NoCards ==
    /\ public = Unused /\ known = Unused /\ card = Unused /\ removed = Unused /\ expired = Unused
    /\ chosen = Unused /\ again = Unused /\ cardRows = Unused /\ writer = Unused /\ enabled = Unused
    /\ refused = Unused
NoConsent ==
    /\ button = Unused /\ consents = Unused /\ request = Unused /\ page = Unused /\ links = Unused
    /\ faults = Unused

\* None of these machines runs.
NoScreens ==
    /\ now = Unused /\ active = Unused
    /\ NoDates /\ NoTalk /\ NoLists /\ NoCards /\ NoConsent

--------------------------------------------------------------------------------

ScreensInit ==
    \/ /\ part = "dates" /\ Dates!Init /\ stored = Unused /\ screen = Unused
       /\ NoTalk /\ NoLists /\ NoCards /\ NoConsent
    \/ /\ part = "talk" /\ Talk!Init /\ now = Unused /\ screen = Unused
       /\ NoDates /\ NoLists /\ NoCards /\ NoConsent
    \/ /\ part = "lists" /\ Lists!Init /\ now = Unused /\ active = Unused /\ stored = Unused
       /\ NoDates /\ NoTalk /\ NoCards /\ NoConsent
    \/ /\ part = "cards" /\ Shared!Init /\ now = Unused /\ stored = Unused /\ screen = Unused
       /\ NoDates /\ NoTalk /\ NoLists /\ NoConsent
    \/ /\ part = "consent" /\ Consent!Init /\ active = Unused /\ stored = Unused /\ screen = Unused
       /\ NoDates /\ NoTalk /\ NoLists /\ NoCards

ScreensNext ==
    /\ UNCHANGED part
    /\ \/ /\ part = "dates" /\ Dates!Next
          /\ UNCHANGED <<stored, screen, TalkVars, ListsVars, CardsVars, ConsentVars>>
       \/ /\ part = "talk" /\ Talk!Next
          /\ UNCHANGED <<now, screen, DatesVars, ListsVars, CardsVars, ConsentVars>>
       \/ /\ part = "lists" /\ Lists!Next
          /\ UNCHANGED <<now, active, stored, DatesVars, TalkVars, CardsVars, ConsentVars>>
       \/ /\ part = "cards" /\ Shared!Next
          /\ UNCHANGED <<now, stored, screen, DatesVars, TalkVars, ListsVars, ConsentVars>>
       \/ /\ part = "consent" /\ Consent!Next
          /\ UNCHANGED <<active, stored, screen, DatesVars, TalkVars, ListsVars, CardsVars>>

ScreensSpec == ScreensInit /\ [][ScreensNext]_screensVars

--------------------------------------------------------------------------------
(* Properties: those of the parts. *)

\* The dates the editor stores are those the owner asked for, in order, and the end it offers instead
\* of one that is too long passes the cap, across every change of the clocks.
DatesAreRight == part = "dates" => Dates!DatesAreRight

\* Conversations do not leak into each other, whatever old buttons are tapped.
ConversationsStayApart == part = "talk" => Talk!ConversationsStayApart

\* What is typed or sent goes to the meeting and the field the last prompt asked about.
AnswersLandWhereAsked == [][part = "talk" => Talk!AnswerLandsWhereAsked]_screensVars

\* Every page a tap asks for can be built, whatever left the list since the button was drawn, and an
\* active meeting is deleted by a confirmation that names it and by no other.
ListsAreReliable ==
    /\ [](part = "lists" => Lists!PagesExist)
    /\ [][part = "lists" => Lists!ActiveGoByName]_screensVars

\* A search in a chat finds the live meetings made searchable there, and no others.
SearchIsExact == part = "cards" => Shared!SearchIsExact

\* A card is honoured from the moment its posting is known until its meeting ends.
CardsAreHonoured == [][part = "cards" => Shared!RefusalsAreEarly]_screensVars

\* A Patreon identity is parked for somebody who agreed, whom Patreon named, on a fresh state, once.
LinksAreProven == part = "consent" => Consent!LinksAreProven

=============================================================================
