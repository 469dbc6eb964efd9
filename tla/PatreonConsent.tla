---------------------------- MODULE PatreonConsent ----------------------------
(***************************************************************************)
(* The browser's half of linking a Patreon account: web/patreon.py with    *)
(* libs/patreon oauth.py, pairing.py and pending_links.py.  The menu shows *)
(* a button whose URL carries a signed, dated state; the person answers at *)
(* Patreon, which sends the browser back with a code that works once; the  *)
(* callback checks the state, trades the code for an identity and parks it *)
(* as a pending link, which Supporters redeems.                            *)
(*                                                                         *)
(* Addresses are opened again, cut, changed, or made up; processes do not  *)
(* agree on the time; calls to Patreon fail after they took effect.        *)
(*                                                                         *)
(* Unused definitions that stand before one of the same parameters are     *)
(* plausible mistakes in its code, for the mutants of PROJECT.json.        *)
(***************************************************************************)
EXTENDS Naturals, Sequences, FiniteSets

CONSTANTS
    Requests,       \* callbacks handled at the same time
    Ttl,            \* age up to which a state is accepted
    Tolerance,      \* how far in the future a stamp may lie
    Ahead,          \* how far a clock of the service may run ahead
    MaxNow,         \* bound: the last moment
    MaxConsents,    \* bound: answers at Patreon
    MaxFaults       \* bound: failures of Patreon and of the database

\* The bounds are numbers, and there is a first moment.
ConsentFits == {Ttl, Tolerance, Ahead, MaxNow, MaxConsents, MaxFaults} \subseteq Nat /\ MaxNow > 0

VARIABLES
    now,
    button,         \* the stamp of the state in the button on the screen, 0 without one
    consents,       \* answers at Patreon: [stamp, answer, spent], answer "approved" or an error
    request,        \* each callback in progress: [at, consent, age of its state on arrival]
    page,           \* the page the browser shows: [shows, consent]
    links,          \* pending links: the consent, the age of its state, whether Patreon named the patron
    faults          \* failures so far

vars == <<now, button, consents, request, page, links, faults>>

Idle == [at |-> "idle", consent |-> 0, age |-> 0, named |-> FALSE]

Pages == {"none", "bare", "denied", "patreon error", "incomplete", "expired", "invalid", "no answer", "server error",
          "one more step"}

TypeOK ==
    /\ now \in 1 .. MaxNow /\ button \in 0 .. MaxNow + Ahead
    /\ consents \in Seq([stamp : 1 .. MaxNow + Ahead, answer : {"approved", "access_denied", "other"},
                         spent : BOOLEAN])
    /\ Len(consents) <= MaxConsents
    /\ request \in [Requests -> [at : {"idle", "exchange", "identity", "stage"}, consent : 0 .. MaxConsents, age : 0 .. MaxNow,
                             named : BOOLEAN]]
    /\ page \in [shows : Pages, consent : 0 .. MaxConsents]
    /\ links \subseteq [consent : 1 .. MaxConsents, age : 0 .. MaxNow, named : BOOLEAN]
    /\ faults \in 0 .. MaxFaults

Init ==
    /\ now = 1 /\ button = 0 /\ consents = <<>> /\ request = [r \in Requests |-> Idle]
    /\ page = [shows |-> "none", consent |-> 0] /\ links = {} /\ faults = 0

Tick ==
    /\ now < MaxNow /\ now' = now + 1
    /\ UNCHANGED <<button, consents, request, page, links, faults>>

\* A clock of the service, any of them.
Clocks == {now, now + Ahead}

Fault == faults < MaxFaults /\ faults' = faults + 1
Show(what, consent) == page' = [shows |-> what, consent |-> consent]

--------------------------------------------------------------------------------

\* The Collaborate menu: authorization_url puts a fresh state into the button.
DrawMenu ==
    /\ \E clock \in Clocks : button' = clock
    /\ page' = [shows |-> "none", consent |-> 0]
    /\ UNCHANGED <<now, consents, request, links, faults>>

\* The person, or whoever has the address, answers at Patreon.
Answer ==
    /\ button # 0 /\ Len(consents) < MaxConsents
    /\ \E answer \in {"approved", "access_denied", "other"} :
         /\ answer = "other" => faults < MaxFaults
         /\ faults' = IF answer = "other" THEN faults + 1 ELSE faults
         /\ consents' = Append(consents, [stamp |-> button, answer |-> answer, spent |-> FALSE])
    /\ UNCHANGED <<now, button, request, page, links>>

\* The parameters of the redirect, and what else arrives: less, a state that is not ours, or nothing.
NoParams == [code |-> FALSE, state |-> "none", error |-> "none"]

Redirect(i) ==
    IF consents[i].answer = "approved" THEN [code |-> TRUE, state |-> "ours", error |-> "none"]
    ELSE [code |-> FALSE, state |-> "ours", error |-> consents[i].answer]

Arriving(i) ==
    {NoParams, [NoParams EXCEPT !.code = TRUE, !.state = "forged"]} \cup
    (IF i = 0 THEN {} ELSE
     {Redirect(i), [Redirect(i) EXCEPT !.code = FALSE, !.error = "none"], [Redirect(i) EXCEPT !.state = "none"],
      [Redirect(i) EXCEPT !.state = "forged"]})

\* Authentic at any age.
AgeUnchecked(stamp, clock) == TRUE

\* validate_state on an authentic token: neither past its time nor from the future.
InTime(stamp, clock) == clock <= stamp + Ttl /\ stamp <= clock + Tolerance

\* resolve_callback and resolve_state, in their order; a bare hit is told nothing.
Resolve(params, stamp, clock) ==
    CASE params = NoParams -> "bare"
      [] params.error = "access_denied" -> "denied"
      [] params.error = "other" -> "patreon error"
      [] ~params.code \/ params.state = "none" -> "incomplete"
      [] params.state = "forged" -> "invalid"
      [] ~InTime(stamp, clock) -> "expired"
      [] OTHER -> "valid"

\* patreon_callback: a page at once, or the exchange.
Callback(r) ==
    /\ request[r].at = "idle"
    /\ \E i \in 0 .. Len(consents), clock \in Clocks : \E params \in Arriving(i) :
         LET stamp == IF i = 0 THEN 0 ELSE consents[i].stamp
             outcome == Resolve(params, stamp, clock)
             age == IF stamp > now THEN 0 ELSE now - stamp IN
         IF outcome = "valid"
         THEN /\ request' = [request EXCEPT ![r] = [Idle EXCEPT !.at = "exchange", !.consent = i, !.age = age]]
              /\ UNCHANGED page
         ELSE Show(outcome, i) /\ UNCHANGED request
    /\ UNCHANGED <<now, button, consents, links, faults>>

Finish(r) == request' = [request EXCEPT ![r] = Idle]
MoveOn(r, at) == request' = [request EXCEPT ![r].at = at]

\* Nothing is known of the identity: the page of a failed call.
NoAnswer(r) == Finish(r) /\ Show("no answer", request[r].consent)

\* exchange_code: Patreon takes a code once, whether its answer arrives or not.
Exchange(r) ==
    LET i == request[r].consent IN
    /\ request[r].at = "exchange"
    /\ consents' = [consents EXCEPT ![i].spent = TRUE]
    /\ \/ ~consents[i].spent /\ MoveOn(r, "identity") /\ UNCHANGED <<page, faults>>
       \/ consents[i].spent /\ NoAnswer(r) /\ UNCHANGED faults
       \/ Fault /\ NoAnswer(r)
    /\ UNCHANGED <<now, button, links>>

\* Whatever the answer to the identity request was.
StageAnyway(r) == MoveOn(r, "stage") /\ UNCHANGED page

\* A failed request ends the callback.
IdentityMissing(r) == NoAnswer(r)

\* fetch_identity with the token of the exchange.
FetchIdentity(r) ==
    /\ request[r].at = "identity"
    /\ \/ request' = [request EXCEPT ![r].at = "stage", ![r].named = TRUE] /\ UNCHANGED <<page, faults>>
       \/ Fault /\ IdentityMissing(r)
    /\ UNCHANGED <<now, button, consents, links>>

\* stage_pending_link in its transaction, and the page with the pairing code.
Stage(r) ==
    LET i == request[r].consent IN
    /\ request[r].at = "stage"
    /\ \/ /\ links' = links \cup {[consent |-> i, age |-> request[r].age, named |-> request[r].named]}
          /\ Show("one more step", i) /\ UNCHANGED faults
       \/ Fault /\ Show("server error", i) /\ UNCHANGED links
    /\ Finish(r)
    /\ UNCHANGED <<now, button, consents>>

Work(r) == Exchange(r) \/ FetchIdentity(r) \/ Stage(r)

Next == Tick \/ DrawMenu \/ Answer \/ \E r \in Requests : Callback(r) \/ Work(r)

Spec == Init /\ [][Next]_vars

--------------------------------------------------------------------------------
(* Properties. *)

\* A link is parked only for a person who agreed at Patreon, whom Patreon named, on a state that was
\* still valid when the browser came back, and once for each answer, whichever addresses are opened
\* again, cut or made up and whichever call fails.
LinksAreProven ==
    \A l \in links :
      /\ consents[l.consent].answer = "approved" /\ consents[l.consent].spent
      /\ l.named /\ l.age <= Ttl
      /\ \A k \in links : k.consent = l.consent => k = l
=============================================================================
