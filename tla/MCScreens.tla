------------------------------ MODULE MCScreens ------------------------------
(***************************************************************************)
(* Small instances of the machines of Screens, and beside them one of the  *)
(* texts, one of the pairing codes of Supporters and one of the locks of   *)
(* Delivery, which order the updates.  They share no state either: a       *)
(* behaviour is one of one part.  In the others Supporters and Delivery    *)
(* rest in an initial state and all other variables are Unused.            *)
(***************************************************************************)
EXTENDS Screens, Delivery, Supporters, TLC

CONSTANTS
    p1, p2, p3, pa, w1, w2, h1, h2,
    x1, x2,     \* Two of what a part has two alike of: meetings, screens, chats, requests, people.
    c1, c2      \* Two pairing codes.

VARIABLES
    text, classic, stage, edits, meant

--------------------------------------------------------------------------------
(* What the configuration cannot spell. *)

\* Zones: clocks that never move, that skip one unit, that repeat one.
MCZones == {[change |-> 0, before |-> 0, after |-> 0], [change |-> 5, before |-> 0, after |-> 1],
            [change |-> 5, before |-> 1, after |-> 0]}

\* A meeting without photos, and one with two.
MCPhotos == {<<>>, <<p1, p2>>}

\* Handlers that call nobody: here only the locks matter.
MCPlans == {<<>>}

\* No pledge changes: here only the codes matter, and somebody who leaves, returns or asks to be erased.
MCBudgets == {[pledges |-> 0, grants |-> 0, moves |-> 1]}

--------------------------------------------------------------------------------
\* Texts of three characters with up to two entities, small stored rows, and what is put around them.
Sample == INSTANCE Texts WITH TypedTexts <- {}, OldRows <- {}, Fragments <- {}, Templates <- {}, Keyboards <- {},
    Limits <- {}, MaxText <- 0, MaxEdits <- 0

Chars == {<<"W", "x", "<">>, <<"x", "W", "&">>, <<"x", "n", "$">>}

Spans(s) == {<<Sample!UnitOf(s, i), Sample!UnitOf(s, j + 1) - Sample!UnitOf(s, i)>> :
             <<i, j>> \in {p \in (1 .. 3) \X (1 .. 3) : p[1] <= p[2]}}

\* Telegram joins spans of one type.
Apart(e, f) == e.type # f.type \/ Sample!End(e) < f.off \/ Sample!End(f) < e.off

Entities(s, types) == {Sample!Entity(type, p[1], p[2]) : type \in types, p \in Spans(s)}

Single == UNION {{Sample!Plain(s)} \cup {Sample!Formatted(s, <<e>>) : e \in Entities(s, {"b", "i", "code", "hashtag"})} :
                 s \in Chars}

\* Of any two spans, also those that cross.
Paired ==
    LET s == <<"W", "x", "<">>
        some == Entities(s, {"b", "emoji", "pre"})
    IN  {Sample!Formatted(s, <<p[1], p[2]>>) : p \in {p \in some \X some : Apart(p[1], p[2])}}

RowTokens == {Sample!Opening("b"), Sample!Closing("b"), Sample!Opening("i"), Sample!Closing("i"),
              Sample!Opening("odd"), Sample!Closing("odd"), Sample!Ref("<")}

Name == Sample!Token("var", "name")

Catalog == {<<Sample!Char("x"), Name>>, <<Sample!Opening("b"), Name, Sample!Closing("b")>>,
            <<Sample!Opening("pre"), Name, Sample!Closing("pre"), Name>>, <<Sample!Opening("b"), Name>>}

Written == INSTANCE Texts WITH
    TypedTexts <- Single \cup Paired, OldRows <- UNION {[1 .. n -> RowTokens] : n \in 1 .. 3},
    Fragments <- {Sample!Formatted(<<"x", "W">>, <<Sample!Entity("i", 1, 2)>>)}, Templates <- Catalog,
    Keyboards <- {<<>>, <<<<"tap", "tap">>, <<>>, <<"off">>>>, <<<<"tap">>>>},
    Limits <- {0, 1, 3, 4}, MaxText <- 6, MaxEdits <- 2

--------------------------------------------------------------------------------
(* One part at a time. *)

NoTexts ==
    /\ text = Unused /\ classic = Unused /\ stage = Unused /\ edits = Unused /\ meant = Unused

TextsVars == <<text, classic, stage, edits, meant>>
mcVars == <<screensVars, TextsVars, supportersVars, vars>>

MCInit ==
    /\ Init /\ SupportersInit
    /\ \/ ScreensInit /\ NoTexts
       \/ part = "texts" /\ Written!Init /\ NoScreens
       \/ part \in {"codes", "updates"} /\ stored = Unused /\ screen = Unused /\ NoScreens /\ NoTexts
    /\ part # "codes" => pledge = [p \in Patrons |-> 0]

MCNext ==
    \/ ScreensNext /\ UNCHANGED <<TextsVars, supportersVars, vars>>
    \/ /\ part = "texts" /\ Written!Next
       /\ UNCHANGED <<part, now, active, DatesVars, TalkVars, ListsVars, CardsVars, ConsentVars>>
       /\ UNCHANGED <<supportersVars, vars>>
    \/ part = "codes" /\ SupportersNext /\ UNCHANGED <<screensVars, TextsVars, vars>>
    \/ part = "updates" /\ Next /\ UNCHANGED <<screensVars, TextsVars, supportersVars>>

MCSpec == MCInit /\ [][MCNext]_mcVars

\* What a part has two alike of, and its pairing codes.
Alike == Permutations({x1, x2}) \cup Permutations({c1, c2}) \cup Permutations({w1, w2})

--------------------------------------------------------------------------------
(* Property: that of the texts, beside those of the modules extended. *)

\* What is typed reaches the reader whole and as markup that nests, also from rows of earlier builds.
CardReadsAsTyped == part = "texts" => Written!CardReadsAsTyped

=============================================================================
