--------------------------------- MODULE Texts ---------------------------------
(***************************************************************************)
(* The life of a text a person wrote: its entities, counted in UTF-16      *)
(* units; the tagged string that is stored; the rich HTML that is sent,    *)
(* with buttons and photos.                                                *)
(*                                                                         *)
(* A character is a class: "x" plain, "W" one of two units, "n" a newline, *)
(* and "<", "&" and "$", which stand for a tag, a character reference and  *)
(* a placeholder somebody typed: unescaped, each would be read as one.  A  *)
(* stored string and an HTML body are sequences of tokens.                 *)
(*                                                                         *)
(* Unused definitions that stand before one of the same parameters are     *)
(* plausible mistakes in its code, for the mutants of PROJECT.json.        *)
(***************************************************************************)
EXTENDS Integers, SequencesExt

CONSTANTS
    TypedTexts,   \* formatted texts people send
    OldRows,      \* stored strings of any build of the program
    Fragments,    \* formatted texts the program puts around others
    Templates,    \* catalog strings: tokens with the placeholder "name"
    Keyboards,    \* sequences of rows of buttons: "tap" or, disabled, "off"
    Limits,       \* lengths a text is shortened to
    MaxText,      \* MAX_RICH_TEXT_LENGTH
    MaxEdits      \* bound: compositions of one text

VARIABLES
    text,      \* FormattedText: its characters and entities
    stored,    \* the column
    screen,    \* the rich HTML
    classic,   \* the keyboard beside it
    stage,
    edits,
    meant      \* history: each character and the formats it was given

vars == <<text, stored, screen, classic, stage, edits, meant>>

-----------------------------------------------------------------------------
(* UTF-16. *)

Width(c) == IF c = "W" THEN 2 ELSE 1

Utf16Len(s) == FoldLeft(LAMBDA n, c : n + Width(c), 0, s)

\* The unit at which the i-th character starts.
UnitOf(s, i) == Utf16Len(SubSeq(s, 1, i - 1))

CharsBefore(s, unit) == Cardinality({i \in DOMAIN s : UnitOf(s, i) < unit})

DecodeSpan(s, from, to) == SubSeq(s, CharsBefore(s, from) + 1, CharsBefore(s, to))

Utf16Cut(s, limit) ==
    LET n == CharsBefore(s, limit) IN
    IF n > 0 /\ UnitOf(s, n) + Width(s[n]) > limit THEN SubSeq(s, 1, n - 1) ELSE SubSeq(s, 1, n)

-----------------------------------------------------------------------------
(* Entities. *)

Entity(type, off, len) == [type |-> type, off |-> off, len |-> len]
End(e) == e.off + e.len

Formatted(chars, ents) == [chars |-> chars, ents |-> ents]
Plain(s) == Formatted(s, <<>>)

MapSeq(s, Op(_)) == [i \in DOMAIN s |-> Op(s[i])]

Shifted(ents, by) == MapSeq(ents, LAMBDA e : [e EXCEPT !.off = @ + by])

\* Characters in place of units.
AppendByChars(a, b) == Formatted(a.chars \o b.chars, a.ents \o Shifted(b.ents, Len(a.chars)))

Joined(a, b) == Formatted(a.chars \o b.chars, a.ents \o Shifted(b.ents, Utf16Len(a.chars)))

Wrapped(t, type) ==
    IF t.chars = <<>> THEN t
    ELSE Formatted(t.chars, <<Entity(type, 0, Utf16Len(t.chars))>> \o t.ents)

\* An entity across the cut is left as it is.
KeptWhole(ents, limit) == SelectSeq(ents, LAMBDA e : e.off < limit)

ClampEntities(ents, limit) ==
    LET clamp(e) == IF End(e) <= limit THEN e ELSE [e EXCEPT !.len = limit - e.off]
    IN  MapSeq(SelectSeq(ents, LAMBDA e : e.off < limit), clamp)

Truncate(t, limit) ==
    LET cut == Utf16Cut(t.chars, limit) IN
    IF Utf16Len(t.chars) <= limit THEN t ELSE Formatted(cut, ClampEntities(t.ents, Utf16Len(cut)))

Ellipsize(t, limit) ==
    IF Utf16Len(t.chars) <= limit THEN t
    ELSE IF limit < 1 THEN Plain(<<>>)
    ELSE Joined(Truncate(t, limit - 1), Plain(<<"...">>))

-----------------------------------------------------------------------------
(* Tokens. *)

Token(is, of) == [is |-> is, of |-> of]
Char(c) == Token("char", c)
Ref(c) == Token("ref", c)
Opening(type) == Token("open", type)
Closing(type) == Token("close", type)

Markup == {"<", "&"}

\* What is typed goes out as it is.
AsTyped(c) == Char(c)

EscapeChar(c) == IF c \in Markup THEN Ref(c) ELSE Char(c)

\* escape_content: outside a pre block a newline becomes the break that survives the parser.
EscapeContent(s, pre) ==
    MapSeq(s, LAMBDA c : IF c = "n" /\ ~pre THEN Token("br", c) ELSE EscapeChar(c))

\* TOKEN_RE and html.unescape: what a typed look-alike is read as when it stands unescaped.
Read(token) ==
    CASE token = Char("<") -> Opening("b")
      [] token = Char("&") -> Char("<")
      [] token = Char("$") -> Token("var", "$")
      [] token.is = "ref" -> Char(token.of)
      [] OTHER -> token

-----------------------------------------------------------------------------
(* Storing: serialize_entities. *)

Serializable == {"b", "i", "emoji"}

NestingOrder(e, f) == e.off < f.off \/ (e.off = f.off /\ e.len > f.len)

FlushUntil(s, w, end) ==
    [w EXCEPT !.out = @ \o MapSeq(DecodeSpan(s, w.at, end), EscapeChar), !.at = end]

RECURSIVE CloseSpans(_, _, _)
CloseSpans(s, w, by) ==
    IF w.open = <<>> \/ End(Last(w.open)) > by THEN w
    ELSE LET flushed == FlushUntil(s, w, End(Last(w.open))) IN
         CloseSpans(s, [flushed EXCEPT !.out = Append(@, Closing(Last(w.open).type)), !.open = Front(@)], by)

OpenSpan(s, w, e) ==
    LET closed == CloseSpans(s, w, e.off)
        flushed == FlushUntil(s, closed, e.off)
    IN  IF closed.open # <<>> /\ End(e) > End(Last(closed.open)) THEN closed
        ELSE [flushed EXCEPT !.out = Append(@, Opening(e.type)), !.open = Append(@, e)]

SerializeEntities(t) ==
    LET kept == SortSeq(SelectSeq(t.ents, LAMBDA e : e.type \in Serializable), NestingOrder)
        written == FoldLeft(LAMBDA w, e : OpenSpan(t.chars, w, e), [out |-> <<>>, open |-> <<>>, at |-> 0], kept)
        total == Utf16Len(t.chars)
    IN  FlushUntil(t.chars, CloseSpans(t.chars, written, total), total).out

-----------------------------------------------------------------------------
(* Reading a stored string back into entities: parse_format_tags. *)

CloseActive(r, type) ==
    LET off == r.active[type]
        len == Utf16Len(r.chars) - off
    IN  IF type \notin DOMAIN r.active THEN r
        ELSE [r EXCEPT !.active = [k \in DOMAIN @ \ {type} |-> @[k]],
                       !.ents = IF type \in Serializable /\ len > 0 THEN Append(@, Entity(type, off, len)) ELSE @]

ParseToken(r, token) ==
    CASE token.is = "open" -> [r EXCEPT !.active = (token.of :> Utf16Len(r.chars)) @@ @]
      [] token.is = "close" -> CloseActive(r, token.of)
      [] OTHER -> [r EXCEPT !.chars = Append(@, token.of)]

ParseFormatTags(row) ==
    LET r == FoldLeft(ParseToken, [chars |-> <<>>, ents |-> <<>>, active |-> <<>>], MapSeq(row, Read))
    IN  Formatted(r.chars, SortSeq(r.ents, LAMBDA e, f : e.off < f.off))

\* A typed placeholder goes with the tags.
LiteralRuns(row) ==
    MapSeq(SelectSeq(MapSeq(row, Read), LAMBDA k : k.is = "char"), LAMBDA k : k.of)

\* strip_format_tags: its plain text.
StripFormatTags(row) ==
    MapSeq(SelectSeq(MapSeq(row, Read), LAMBDA k : k.is \in {"char", "var"}), LAMBDA k : k.of)

-----------------------------------------------------------------------------
(* Rendering tokens to rich HTML: RichTemplateRenderer. *)

RichTags == {"b", "i", "emoji", "code", "pre"}

Raised == <<Token("raised", "")>>
InsidePre(open) == "pre" \in ToSet(open)

\* A tag of another name is closed in place of the last one.
CloseNamed(r, type) ==
    [r EXCEPT !.out = Append(@, Closing(type)), !.open = SelectSeq(@, LAMBDA o : o # type)]

\* Only the tag opened last is closed; one nobody can read was absorbed without markup.
CloseLast(r, type) ==
    IF r.open = <<>> \/ Last(r.open) # type THEN [r EXCEPT !.bad = TRUE]
    ELSE [r EXCEPT !.open = Front(@), !.out = IF type \in RichTags THEN Append(@, Closing(type)) ELSE @]

OpenTag(r, type) ==
    IF type \in RichTags
    THEN [r EXCEPT !.out = Append(@, Opening(type)), !.open = Append(@, type)]
    ELSE [r EXCEPT !.open = Append(@, type), !.bad = TRUE]

\* What a placeholder stands for; in a stored row it is what somebody typed.
Substitution(r, token, value, lenient) ==
    LET run == IF lenient THEN <<token.of>> ELSE value
    IN  [r EXCEPT !.out = @ \o EscapeContent(run, InsidePre(r.open))]

RenderToken(r, token, value, lenient) ==
    CASE token.is = "open" -> OpenTag(r, token.of)
      [] token.is = "close" -> CloseLast(r, token.of)
      [] token.is = "var" -> Substitution(r, token, value, lenient)
      [] OTHER -> [r EXCEPT !.out = @ \o EscapeContent(<<token.of>>, InsidePre(r.open))]

\* close_dangling
CloseDangling(r) ==
    r.out \o MapSeq(SelectSeq(Reverse(r.open), LAMBDA o : o \in RichTags), Closing)

Rendered(tokens, value, lenient) ==
    FoldLeft(LAMBDA r, k : RenderToken(r, Read(k), value, lenient),
             [out |-> <<>>, open |-> <<>>, bad |-> FALSE], tokens)

RenderRichTags(row) == CloseDangling(Rendered(row, <<>>, TRUE))

\* The strict reader of our own strings raises where the lenient one drops.
RenderRichTemplate(tokens, value) ==
    LET r == Rendered(tokens, value, FALSE) IN IF r.bad \/ r.open # <<>> THEN Raised ELSE r.out

-----------------------------------------------------------------------------
(* Entities to rich HTML: formatted_text_to_rich_html. *)

Crossing(e, f) == e.off < f.off /\ f.off < End(e) /\ End(e) < End(f)

\* From one entity that sits in no other to the next, each around those nested in it.
RECURSIVE RichHtmlBetween(_, _, _, _, _)
RichHtmlBetween(s, ents, start, end, pre) ==
    IF ents = <<>> THEN EscapeContent(DecodeSpan(s, start, end), pre)
    ELSE LET e == Head(ents)
             nested == SelectSeq(Tail(ents), LAMBDA f : f.off < End(e))
             later == SelectSeq(Tail(ents), LAMBDA f : f.off >= End(e))
         IN  EscapeContent(DecodeSpan(s, start, e.off), pre) \o <<Opening(e.type)>>
             \o RichHtmlBetween(s, nested, e.off, End(e), pre \/ e.type = "pre")
             \o <<Closing(e.type)>> \o RichHtmlBetween(s, later, End(e), end, pre)

FormattedTextToRichHtml(t) ==
    IF \/ \E e, f \in ToSet(t.ents) : Crossing(e, f)
       \/ \E e \in ToSet(t.ents) : e.type \notin RichTags
    THEN Raised
    ELSE RichHtmlBetween(t.chars, SortSeq(t.ents, NestingOrder), 0, Utf16Len(t.chars), FALSE)

-----------------------------------------------------------------------------
(* The payload. *)

Button(b) == Token("button", b)
Rows(keyboard) == SelectSeq(keyboard, LAMBDA row : row # <<>>)
Buttons(keyboard) == FlattenSeq(Rows(keyboard))

\* Buttons fold into the content behind a rule that separates them from a body.
ClosingKeyboard(body, keyboard) ==
    LET chips == MapSeq(Buttons(keyboard), Button)
    IN  IF chips = <<>> \/ body = <<>> THEN chips ELSE <<Token("rule", "n")>> \o chips

\* The buttons stay in the content of an inline message too.
FoldedAnyway(body, keyboard, inline) == [body |-> body \o ClosingKeyboard(body, keyboard), classic |-> <<>>]

\* An inline message carries them beside it.
Payload(body, keyboard, inline) ==
    IF inline THEN [body |-> body, classic |-> Buttons(keyboard)]
    ELSE [body |-> body \o ClosingKeyboard(body, keyboard), classic |-> <<>>]

RichTextLength(body) == Len(SelectSeq(body, LAMBDA k : k.is \notin {"open", "close"}))

WithoutCustomEmoji(body) == SelectSeq(body, LAMBDA k : k \notin {Opening("emoji"), Closing("emoji")})

-----------------------------------------------------------------------------
(* Steps. *)

\* The formats of each character by the entities over it.
Formats(t) ==
    [i \in DOMAIN t.chars |->
        [c |-> t.chars[i],
         f |-> {e.type : e \in {e \in ToSet(t.ents) : e.off <= UnitOf(t.chars, i) /\ UnitOf(t.chars, i) < End(e)}}]]

Compose(new, formats) ==
    /\ stage = "typed" /\ edits < MaxEdits
    /\ text' = new /\ meant' = formats /\ edits' = edits + 1
    /\ UNCHANGED <<stored, screen, classic, stage>>

Prepend(t) == Compose(Joined(t, text), Formats(t) \o meant)
AppendText(t) == Compose(Joined(text, t), meant \o Formats(t))
JoinLines(t) == Compose(Joined(Joined(text, Plain(<<"n">>)), t), Append(meant, [c |-> "n", f |-> {}]) \o Formats(t))
Wrap(type) == Compose(Wrapped(text, type), MapSeq(meant, LAMBDA m : [m EXCEPT !.f = @ \cup {type}]))

\* As many characters as fit before the ellipsis keep their formats.
Shorten(limit) ==
    LET fits == {n \in 0 .. Len(meant) : Utf16Len(SubSeq(text.chars, 1, n)) < limit}
        most == CHOOSE n \in fits : \A m \in fits : m <= n
    IN  /\ Utf16Len(text.chars) > limit
        /\ Compose(Ellipsize(text, limit),
                   IF limit = 0 THEN <<>> ELSE Append(SubSeq(meant, 1, most), [c |-> "...", f |-> {}]))

\* capture_tagged_text on what was sent.
Capture ==
    /\ stage = "typed" /\ edits = 0
    /\ stored' = SerializeEntities(text) /\ stage' = "stored"
    /\ UNCHANGED <<text, screen, classic, edits, meant>>

Show(html, from) ==
    /\ IF html = Raised THEN stage' = "raised" /\ UNCHANGED screen
       ELSE stage' = from /\ screen' = html
    /\ UNCHANGED <<classic, edits>>

\* A card shows the column; the entity reader and the plain title read it too.
ShowStored ==
    /\ stage \in {"stored", "old"} /\ Show(RenderRichTags(stored), IF stage = "old" THEN "dusted" ELSE "shown")
    /\ text' = ParseFormatTags(stored) /\ UNCHANGED <<stored, meant>>

ShowEntities ==
    stage = "typed" /\ Show(FormattedTextToRichHtml(text), "shown") /\ UNCHANGED <<text, stored, meant>>

\* A message of ours names what a person wrote, without its formats.
ShowMessage(tokens) ==
    /\ stage = "typed" /\ edits = 0
    /\ Show(RenderRichTemplate(tokens, text.chars), "quoted") /\ UNCHANGED <<text, stored, meant>>

Send(keyboard, inline) ==
    LET sent == Payload(screen, keyboard, inline) IN
    /\ stage \in {"shown", "quoted", "dusted"}
    /\ IF \/ inline /\ "off" \in ToSet(Buttons(keyboard))
          \/ RichTextLength(sent.body) > MaxText
       THEN stage' = "raised" /\ UNCHANGED <<screen, classic>>
       ELSE stage' = "sent" /\ screen' = sent.body /\ classic' = sent.classic
    /\ meant' = [asked |-> Buttons(keyboard), inline |-> inline, body |-> screen]
    /\ UNCHANGED <<text, stored, edits>>

\* The second attempt, once the bot may not send custom emoji.
SendWithoutEmoji ==
    /\ stage = "sent" /\ Opening("emoji") \in ToSet(screen)
    /\ screen' = WithoutCustomEmoji(screen) /\ stage' = "again"
    /\ UNCHANGED <<text, stored, classic, edits, meant>>

-----------------------------------------------------------------------------

Init ==
    /\ \/ stage = "typed" /\ text \in TypedTexts /\ stored = <<>> /\ meant = Formats(text)
       \/ stage = "old" /\ stored \in OldRows /\ text = Plain(<<>>) /\ meant = <<>>
    /\ screen = <<>> /\ classic = <<>> /\ edits = 0

Next ==
    \/ \E t \in Fragments : Prepend(t) \/ AppendText(t) \/ JoinLines(t)
    \/ Wrap("b")
    \/ \E limit \in Limits : Shorten(limit)
    \/ Capture \/ ShowStored \/ ShowEntities
    \/ \E tokens \in Templates : ShowMessage(tokens)
    \/ \E keyboard \in Keyboards, inline \in BOOLEAN : Send(keyboard, inline)
    \/ SendWithoutEmoji

Spec == Init /\ [][Next]_vars

-----------------------------------------------------------------------------
(* What a reader sees of a body, as the clients read it. *)

SeeToken(seen, token) ==
    CASE token.is = "open" -> [seen EXCEPT !.open = Append(@, token.of)]
      [] token.is = "close" ->
            IF seen.open # <<>> /\ Last(seen.open) = token.of THEN [seen EXCEPT !.open = Front(@)]
            ELSE [seen EXCEPT !.nests = FALSE]
      [] token.is = "br" /\ InsidePre(seen.open) -> seen
      [] token.is \in {"button", "rule"} -> seen
      [] OTHER ->
            LET c == IF token = Char("n") /\ ~InsidePre(seen.open) THEN " " ELSE token.of
            IN  [seen EXCEPT !.chars = Append(@, [c |-> c, f |-> ToSet(seen.open)])]

\* An unescaped look-alike is the tag or the character the client makes of it.
ClientRead(token) == IF token \in {Char("<"), Char("&")} THEN Read(token) ELSE token

Seen(body) == FoldLeft(LAMBDA s, k : SeeToken(s, ClientRead(k)), [chars |-> <<>>, open |-> <<>>, nests |-> TRUE], body)

Letters(marked) == MapSeq(marked, LAMBDA m : m.c)

-----------------------------------------------------------------------------
(* Properties. *)

\* No entity reaches past the text, is empty, or cuts a character of two units in half, after any
\* sequence of compositions and cuts: Telegram refuses the whole message for one that does.
EntitiesFit ==
    \A e \in ToSet(text.ents) :
        /\ e.len > 0
        /\ \E i, j \in DOMAIN text.chars :
                e.off = UnitOf(text.chars, i) /\ End(e) = UnitOf(text.chars, j) + Width(text.chars[j])

\* Every character keeps exactly the formats it was given, wherever texts joined before it or a cut
\* behind it move it, and a cut text ends on an ellipsis.
FormatsFollow == stage = "typed" => Formats(text) = meant

\* A card shows what its owner typed: each character once, whatever it looks like, with the formats
\* that nest; a format is lost only to the dialect or to one it crosses.
CardShowsWhatWasTyped ==
    stage = "shown" =>
        LET seen == Seen(screen).chars
            whole == Len(seen) = Len(meant) /\ Letters(seen) = Letters(meant)
            carried == IF stored = <<>> THEN RichTags ELSE Serializable
            crossed == \E i, j, k \in DOMAIN meant : \E p, q \in carried :
                /\ {p, q} \subseteq meant[j].f
                /\ p \in meant[i].f \ meant[k].f /\ q \in meant[k].f \ meant[i].f
        IN  /\ whole
            /\ \A i \in DOMAIN seen : seen[i].f \subseteq meant[i].f
            /\ \/ crossed
               \/ \A i \in DOMAIN seen : seen[i].f = meant[i].f \cap carried

\* The three readers of a captured column agree: the card, the entities, and the plain title of
\* notices and previews.
ReadersAgree ==
    stage = "shown" /\ stored # <<>> =>
        /\ Seen(screen).chars = Formats(text)
        /\ StripFormatTags(stored) = text.chars

\* What goes out nests: a body Telegram cannot parse is refused whole. That holds of every row an
\* earlier build stored and of every message that quotes somebody.
ScreenNests ==
    stage \in {"shown", "quoted", "dusted", "sent", "again"} =>
        Seen(screen).nests /\ Seen(screen).open = <<>>

\* Each button reaches the reader once, and none in the content of an inline message, where the card
\* could no longer be claimed; the second attempt shows the same characters.
ButtonsOnce ==
    stage \in {"sent", "again"} =>
        LET chips == MapSeq(SelectSeq(screen, LAMBDA k : k.is = "button"), LAMBDA k : k.of) IN
        /\ chips \o classic = meant.asked
        /\ meant.inline => chips = <<>>
        /\ Letters(Seen(screen).chars) = Letters(Seen(meant.body).chars)

\* What is typed reaches the reader whole, with its formats and as markup that nests, through storage,
\* composition, cuts and buttons.
CardReadsAsTyped ==
    EntitiesFit /\ FormatsFollow /\ CardShowsWhatWasTyped /\ ReadersAgree /\ ScreenNests /\ ButtonsOnce

=============================================================================
