------------------------------ MODULE Supporters ------------------------------
(***************************************************************************)
(* Supporter tiers.  Five writers decide users.supporter_level and the     *)
(* subscription row beside it: the confirmation of a pairing code, the     *)
(* unlinking, an admin's grant, Patreon's membership webhook and the daily *)
(* sweep.  Each reads the two rows without a lock, decides, and writes the *)
(* columns it changed at its commit; the calls on the hosts-only group run *)
(* after it.  Any two of them may overlap.                                 *)
(*                                                                         *)
(* Tiers are their ranks, 0 for none.  A subscription row is told from a   *)
(* later one of the same account by the code that created it (id), and its *)
(* support_expiration is "none", "running" or "over".                      *)
(*                                                                         *)
(* Unused definitions that stand before one of the same parameters are     *)
(* plausible mistakes in its code, for the mutants of PROJECT.json.        *)
(***************************************************************************)
EXTENDS Naturals, Sequences, FiniteSets

CONSTANTS
    Users,         \* people, by Telegram id
    Patrons,       \* Patreon accounts
    Codes,         \* pairing codes
    Workers,       \* requests of the bot and the web server served at a time
    Amounts,       \* what an active membership is entitled to, in cents
    PatronMin,     \* patron_min_cents
    OrganizerMin,  \* organizer_min_cents
    GrantLevels,   \* the tiers admins grant
    GroupAdmins,   \* administrators of the hosts-only group
    Budgets,       \* bound: changes of memberships at Patreon, grants, departures and stopped sweeps
    MaxTries,      \* how often Patreon delivers one event
    NoSub, NoLink, Nobody, Job

Levels == 0 .. 3

ASSUME SupporterAssumption ==
    /\ Amounts \subseteq Nat \ {0} /\ GrantLevels \subseteq Levels /\ GroupAdmins \subseteq Users
    /\ {PatronMin, OrganizerMin} \subseteq Nat /\ Budgets \subseteq [pledges : Nat, grants : Nat, moves : Nat]
    /\ MaxTries \in Nat \ {0} /\ Job \notin Workers /\ Nobody \notin Users

VARIABLES
    pledge,     \* at Patreon: the entitled amount of an active patron, 0 for the others
    events,     \* webhook deliveries Patreon still owes
    account,    \* the users rows
    sub,        \* the supporter_subscriptions rows
    pending,    \* the patreon_pending_links rows
    group,      \* where each user stands in the hosts-only group
    tx,         \* what each request, and the daily job, is doing
    sweep,      \* the daily job
    budget,     \* changes that may still happen
    raced,      \* history: accounts two writers have worked on at once
    claimers,   \* history: who was shown the prompt of a code
    landed      \* history: the accounts a code was written to

supportersVars == <<pledge, events, account, sub, pending, group, tx, sweep, budget, raced, claimers, landed>>
tables == <<account, sub, pending, group>>
history == <<raced, claimers, landed>>

Actors == Workers \cup {Job}
NoTx == [op |-> "idle"]
Resting == [at |-> "resting"]
NoAccount == [status |-> "absent", level |-> 0, granted |-> 0]

Highest(a, b) == IF a >= b THEN a ELSE b
IsSupporter(level) == level >= 1

LevelForAmount(cents) == IF cents >= OrganizerMin THEN 3 ELSE IF cents >= PatronMin THEN 2 ELSE 1

\* What a membership is worth: NONE for anybody who is not an active patron.
TargetLevel(cents) == IF cents = 0 THEN 0 ELSE LevelForAmount(cents)

SupportersInit ==
    /\ pledge \in [Patrons -> {0} \cup Amounts]
    /\ events = {}
    /\ account = [u \in Users |-> [NoAccount EXCEPT !.status = "member"]]
    /\ sub = [u \in Users |-> NoSub]
    /\ pending = [c \in Codes |-> NoLink]
    /\ group = [u \in Users |-> "out"]
    /\ tx = [a \in Actors |-> NoTx]
    /\ sweep = Resting
    /\ budget \in Budgets
    /\ raced = {}
    /\ claimers = [c \in Codes |-> {}]
    /\ landed = [c \in Codes |-> <<>>]

-----------------------------------------------------------------------------
(* Patreon. *)

\* A membership changes and a delivery is owed for it.
Pledge(p, cents) ==
    /\ budget.pledges > 0 /\ pledge[p] # cents
    /\ pledge' = [pledge EXCEPT ![p] = cents]
    /\ budget' = [budget EXCEPT !.pledges = @ - 1]
    /\ events' = events \cup {[n |-> budget.pledges, patron |-> p, amount |-> cents, tries |-> MaxTries]}
    /\ UNCHANGED <<tables, tx, sweep, history>>

\* Consent in a browser: exchange_and_stage parks the identity and what it is worth now, under a
\* code nobody has presented yet.
Stage(c, p) ==
    /\ pending[c] = NoLink /\ claimers[c] = {} /\ landed[c] = <<>>
    /\ pending' = [pending EXCEPT ![c] =
            [patron |-> p, level |-> TargetLevel(pledge[p]), claimer |-> Nobody, spent |-> FALSE, live |-> TRUE]]
    /\ UNCHANGED <<pledge, events, account, sub, group, tx, sweep, budget, history>>

\* Its life of minutes ends; a spent code is over already.
Expire(c) ==
    /\ pending[c] # NoLink /\ pending[c].live /\ ~pending[c].spent
    /\ pending' = [pending EXCEPT ![c].live = FALSE]
    /\ UNCHANGED <<pledge, events, account, sub, group, tx, sweep, budget, history>>

\* Seven days pass.
RunwayEnds(u) ==
    /\ sub[u] # NoSub /\ sub[u].runway = "running"
    /\ sub' = [sub EXCEPT ![u].runway = "over"]
    /\ UNCHANGED <<pledge, events, account, pending, group, tx, sweep, budget, history>>

-----------------------------------------------------------------------------
(* Accounts. *)

\* The bot is blocked; the account is onboarded again; its erasure is asked for.
MoveOn(u, from, to) ==
    /\ account[u].status \in from
    /\ IF to = "member" THEN UNCHANGED budget
       ELSE budget.moves > 0 /\ budget' = [budget EXCEPT !.moves = @ - 1]
    /\ account' = [account EXCEPT ![u].status = to]
    /\ UNCHANGED <<pledge, events, sub, pending, group, tx, sweep, history>>

RecordBlock(u) == MoveOn(u, {"member"}, "left")
Onboard(u) == MoveOn(u, {"left", "absent"}, "member")
RequestErasure(u) == MoveOn(u, {"member", "left"}, "marked")

\* Rows of patreon_pending_links a confirmation has spent and not committed yet: other statements wait.
HeldCodes == {tx[a].code : a \in {x \in Actors : tx[x].op = "link"}}

Finished(c) == pending[c] # NoLink /\ (pending[c].spent \/ ~pending[c].live)

Reads == {"link", "unlink", "grant", "event", "due", "sync"}

\* The clean-up: who left or asked for it goes, subscription included; claimed codes of the latter
\* and finished codes go too.  A transaction that read such an account has a row that is no more.
Cleanup ==
    LET gone == {u \in Users : account[u].status \in {"left", "marked"}}
        marked == {u \in Users : account[u].status = "marked"}
        swept == {c \in Codes : Finished(c) \/ (pending[c] # NoLink /\ pending[c].claimer \in marked)}
    IN  /\ gone # {} \/ swept # {}
        /\ swept \cap HeldCodes = {}
        /\ account' = [u \in Users |-> IF u \in gone THEN NoAccount ELSE account[u]]
        /\ sub' = [u \in Users |-> IF u \in gone THEN NoSub ELSE sub[u]]
        /\ pending' = [c \in Codes |-> IF c \in swept THEN NoLink ELSE pending[c]]
        /\ tx' = [a \in Actors |->
                IF tx[a].op \in Reads /\ tx[a].u \in gone THEN [tx[a] EXCEPT !.acc = NoAccount] ELSE tx[a]]
        /\ UNCHANGED <<pledge, events, group, sweep, budget, history>>

-----------------------------------------------------------------------------
(* Pairing codes. *)

LiveRow(c) == pending[c] # NoLink /\ ~pending[c].spent /\ pending[c].live

LiveRowForAnybody(c, u) == LiveRow(c)

ClaimableBy(c, u) == LiveRow(c) /\ pending[c].claimer \in {Nobody, u}

\* command_start_patreon_link: the code is bound to the sender, who is shown the prompt.
Claim(u, c) ==
    /\ account[u].status = "member" /\ c \notin HeldCodes
    /\ ClaimableBy(c, u)
    /\ pending' = [pending EXCEPT ![c].claimer = u]
    /\ claimers' = [claimers EXCEPT ![c] = @ \cup {u}]
    /\ UNCHANGED <<pledge, events, account, sub, group, tx, sweep, budget, raced, landed>>

UnspentOrNot(c, u) == pending[c] # NoLink /\ pending[c].live /\ pending[c].claimer = u

ConsumableBy(c, u) == LiveRow(c) /\ pending[c].claimer = u

-----------------------------------------------------------------------------
(* The transactions.  Begin is everything up to the reads a decision rests *)
(* on; CommitTx is the decision, the flush and the commit.                 *)

\* The actor reads u's two rows for op.
Reading(op, u) == [op |-> op, u |-> u, acc |-> account[u], held |-> sub[u]]

Begin(a, t) ==
    /\ tx[a] = NoTx
    /\ tx' = [tx EXCEPT ![a] = t]
    /\ raced' = IF \E b \in Actors \ {a} : tx[b] # NoTx /\ tx[b].u = t.u THEN raced \cup {t.u} ELSE raced

\* One chat is served one update at a time.
Chatting(u) == \E a \in Workers : tx[a].op \in {"link", "unlink"} /\ tx[a].u = u

\* callback_query_confirm_patreon_link: the code is consumed, then the rows are read.
BeginLink(a, u, c) ==
    /\ account[u].status \in {"member", "left"} /\ ~Chatting(u)
    /\ c \notin HeldCodes /\ ConsumableBy(c, u)
    /\ Begin(a, [op |-> "link", u |-> u, acc |-> account[u], held |-> sub[u], code |-> c,
                 worth |-> pending[c].level])
    /\ UNCHANGED <<pledge, events, tables, sweep, budget, claimers, landed>>

\* callback_query_confirm_unlink_patreon.
BeginUnlink(a, u) ==
    /\ account[u].status \in {"member", "left"} /\ ~Chatting(u)
    /\ sub[u] # NoSub
    /\ Begin(a, Reading("unlink", u))
    /\ UNCHANGED <<pledge, events, tables, sweep, budget, claimers, landed>>

\* callback_query_confirm_grant: load_target takes registered members only.
BeginGrant(a, u, level) ==
    /\ budget.grants > 0 /\ account[u].status = "member"
    /\ budget' = [budget EXCEPT !.grants = @ - 1]
    /\ Begin(a, [op |-> "grant", u |-> u, acc |-> account[u], held |-> sub[u], worth |-> level])
    /\ UNCHANGED <<pledge, events, tables, sweep, claimers, landed>>

Linked(p) == {u \in Users : sub[u] # NoSub /\ sub[u].patron = p}

\* patreon_webhook: an event of a patron nobody is linked to is answered and done with.  A delivery
\* may come again although it is being served or has been: its answer came late or was lost.
Deliver(a, e) ==
    /\ events' \in {events \ {e}} \cup
         IF e.tries > 1 THEN {(events \ {e}) \cup {[e EXCEPT !.tries = @ - 1]}} ELSE {}
    /\ IF Linked(e.patron) = {} THEN tx[a] = NoTx /\ UNCHANGED <<tx, raced>>
       ELSE \E u \in Linked(e.patron) :
            Begin(a, [op |-> "event", u |-> u, acc |-> account[u], held |-> sub[u],
                      worth |-> TargetLevel(e.amount)])
    /\ UNCHANGED <<pledge, tables, sweep, budget, claimers, landed>>

-----------------------------------------------------------------------------
(* What each decides, from what it read: the account's level and floor and *)
(* the subscription it leaves.                                             *)

Runway(s, told) == [s EXCEPT !.runway = "running", !.told = told]

\* link_patreon_account: a new row, or the account's row pointed at the identity; the grace mark of
\* an existing row stays.
LinkPatreonAccount(t) ==
    LET p == pending[t.code].patron
        s == IF t.held = NoSub THEN [id |-> t.code, patron |-> p, runway |-> "none", told |-> FALSE]
             ELSE [t.held EXCEPT !.patron = p]
    IN  [acc |-> [t.acc EXCEPT !.level = Highest(t.worth, t.acc.granted)],
         sub |-> [s EXCEPT !.runway = IF IsSupporter(t.worth) THEN "running" ELSE "none"]]

UnlinkToNothing(t) == [acc |-> [t.acc EXCEPT !.level = 0], sub |-> NoSub]

Unlink(t) == [acc |-> [t.acc EXCEPT !.level = t.acc.granted], sub |-> NoSub]

\* apply_grant: a linked account's level only goes up.
ApplyGrant(t) ==
    [acc |-> [t.acc EXCEPT !.granted = t.worth,
                           !.level = IF t.held # NoSub THEN Highest(t.acc.level, t.worth) ELSE t.worth],
     sub |-> t.held]

GainWithoutFloor(t) ==
    IF IsSupporter(t.worth)
        THEN [acc |-> [t.acc EXCEPT !.level = t.worth], sub |-> Runway(t.held, FALSE)]
        ELSE [acc |-> t.acc, sub |-> Runway(t.held, TRUE)]

\* apply_membership_transition: a gain applies at once, above the granted floor; a loss keeps the
\* level and opens a window at whose end the sweep revokes, unless the floor covers it all.
ApplyMembershipTransition(t) ==
    LET effective == Highest(t.worth, t.acc.granted)
        same == [acc |-> t.acc, sub |-> t.held]
    IN  IF IsSupporter(t.worth)
        THEN IF effective = t.acc.level THEN same
             ELSE [acc |-> [t.acc EXCEPT !.level = effective], sub |-> Runway(t.held, FALSE)]
        ELSE IF t.acc.granted >= t.acc.level THEN same
             ELSE [acc |-> t.acc, sub |-> Runway(t.held, TRUE)]

\* advance_grace_flow: an active patron's runway is renewed; a lapsed one is told once and, at the
\* end of the second window, falls to the floor.
AdvanceGraceFlow(t) ==
    IF t.active THEN [acc |-> t.acc, sub |-> Runway(t.held, FALSE)]
    ELSE IF ~t.held.told THEN [acc |-> t.acc, sub |-> Runway(t.held, TRUE)]
    ELSE [acc |-> [t.acc EXCEPT !.level = t.acc.granted], sub |-> [t.held EXCEPT !.runway = "none"]]

\* apply_target_level.
ApplyTargetLevel(t) ==
    LET target == Highest(t.worth, t.acc.granted) IN
    IF target = t.acc.level THEN [acc |-> t.acc, sub |-> t.held]
    ELSE [acc |-> [t.acc EXCEPT !.level = target], sub |-> Runway(t.held, FALSE)]

Decision(t) ==
    CASE t.op = "link" -> LinkPatreonAccount(t)
      [] t.op = "unlink" -> Unlink(t)
      [] t.op = "grant" -> ApplyGrant(t)
      [] t.op = "event" -> ApplyMembershipTransition(t)
      [] t.op = "due" -> AdvanceGraceFlow(t)
      [] t.op = "sync" -> ApplyTargetLevel(t)

Readmission == <<"unban">>

UnbannedFirst(u) == IF u \in GroupAdmins THEN <<>> ELSE <<"unban", "ban">>

\* withdraw_from_hosts_group: out, and free to come back.
Withdrawal(u) ==
    IF u \in GroupAdmins THEN <<>> ELSE IF group[u] = "in" THEN <<"ban", "unban">> ELSE <<"unban">>

\* remove_from_hosts_group.
Removal(u) == IF u \in GroupAdmins THEN <<>> ELSE <<"ban">>

\* The calls on the group a decision queues.
GroupCalls(t, d) ==
    LET was == IsSupporter(t.acc.level)
        is == IsSupporter(d.acc.level)
    IN  CASE t.op = "link" /\ IsSupporter(t.worth) -> Readmission
          [] t.op = "unlink" /\ ~is -> Withdrawal(t.u)
          [] t.op \in {"grant", "event"} /\ ~was /\ is -> Readmission
          [] t.op = "grant" /\ was /\ ~is -> Withdrawal(t.u)
          [] t.op = "due" /\ ~t.active /\ t.held.told /\ ~is -> Removal(t.u)
          [] OTHER -> <<>>

-----------------------------------------------------------------------------
(* The commit. *)

\* Only the columns a decision changed are written.
Columns(now, read, new) == [f \in DOMAIN now |-> IF new[f] # read[f] THEN new[f] ELSE now[f]]

IsRow(u, id) == IF sub[u] = NoSub THEN FALSE ELSE sub[u].id = id

\* The rows read are gone, so the write matches nothing and the transaction is rolled back.
Stale(t, d) ==
    \/ t.acc.status = "absent" /\ (d.acc # t.acc \/ t.op = "link")
    \/ t.held # NoSub /\ d.sub \notin {NoSub, t.held} /\ ~IsRow(t.u, t.held.id)
    \/ t.held = NoSub /\ d.sub # NoSub /\ sub[t.u] # NoSub

\* The row afterwards: deleted if it is still the one read, inserted, or its changed columns written.
SubAfter(t, d) ==
    IF d.sub = NoSub THEN IF t.held # NoSub /\ IsRow(t.u, t.held.id) THEN NoSub ELSE sub[t.u]
    ELSE IF t.held = NoSub THEN d.sub
    ELSE IF d.sub = t.held THEN sub[t.u]
    ELSE Columns(sub[t.u], t.held, d.sub)

NeverElsewhere(t) == FALSE

\* The identity is, or at the flush turns out to be, another account's: the code is spent for nothing.
ClaimedElsewhere(t) == t.op = "link" /\ \E v \in Users \ {t.u} : v \in Linked(pending[t.code].patron)

Spend(t) ==
    IF t.op = "link" THEN pending' = [pending EXCEPT ![t.code].spent = TRUE] ELSE UNCHANGED pending

Finish(a) == tx' = [tx EXCEPT ![a] = NoTx]

CommitTx(a) ==
    LET t == tx[a] IN
    /\ t.op \in Reads
    /\ IF ClaimedElsewhere(t) THEN Spend(t) /\ Finish(a) /\ UNCHANGED <<account, sub, landed>>
       ELSE LET d == Decision(t) IN
            /\ ~Stale(t, d)
            /\ account' = [account EXCEPT ![t.u] = IF t.acc.status = "absent" THEN @ ELSE Columns(@, t.acc, d.acc)]
            /\ sub' = [sub EXCEPT ![t.u] = SubAfter(t, d)]
            /\ Spend(t)
            /\ landed' = IF t.op = "link" THEN [landed EXCEPT ![t.code] = Append(@, t.u)] ELSE landed
            /\ tx' = [tx EXCEPT ![a] = IF GroupCalls(t, d) = <<>> THEN NoTx
                                       ELSE [op |-> "calls", u |-> t.u, calls |-> GroupCalls(t, d)]]
    /\ UNCHANGED <<pledge, events, group, sweep, budget, raced, claimers>>

\* The transaction is rolled back: a row it read is gone, or the process stops.
RollBack(a) ==
    /\ tx[a].op \in Reads
    /\ ~ClaimedElsewhere(tx[a]) /\ Stale(tx[a], Decision(tx[a]))
    /\ Finish(a)
    /\ UNCHANGED <<pledge, events, tables, sweep, budget, history>>

Called(at, call) ==
    CASE call = "ban" -> "banned"
      [] call = "unban" -> IF at = "banned" THEN "out" ELSE at

\* One queued call on the group.
Drain(a) ==
    LET t == tx[a] IN
    /\ t.op = "calls"
    /\ group' = [group EXCEPT ![t.u] = Called(@, Head(t.calls))]
    /\ tx' = [tx EXCEPT ![a] = IF Len(t.calls) = 1 THEN NoTx ELSE [t EXCEPT !.calls = Tail(@)]]
    /\ UNCHANGED <<pledge, events, account, sub, pending, sweep, budget, history>>

\* hosts_group_join_request_handler.
JoinRequest(u) ==
    /\ group[u] = "out" /\ account[u].status # "absent" /\ IsSupporter(account[u].level)
    /\ group' = [group EXCEPT ![u] = "in"]
    /\ UNCHANGED <<pledge, events, account, sub, pending, tx, sweep, budget, history>>

-----------------------------------------------------------------------------
(* The daily sweep. *)

LiveWithRunway(u) == account[u].status = "member" /\ sub[u] # NoSub /\ sub[u].runway # "none"

Due(u) == account[u].status = "member" /\ sub[u] # NoSub /\ sub[u].runway = "over"
LiveLinked(u) == account[u].status = "member" /\ sub[u] # NoSub
Nominated(us) == {[u |-> u, id |-> sub[u].id] : u \in us}

\* The roster is fetched; then the due rows are nominated, and after them the live ones.
FetchRoster ==
    /\ sweep = Resting
    /\ sweep' = [at |-> "fetched", roster |-> pledge, todo |-> {}]
    /\ UNCHANGED <<pledge, events, tables, tx, budget, history>>

Nominate ==
    /\ sweep # Resting /\ sweep.todo = {} /\ tx[Job] = NoTx
    /\ sweep' = CASE sweep.at = "fetched" ->
                        [sweep EXCEPT !.at = "due", !.todo = Nominated({u \in Users : Due(u)})]
                  [] sweep.at = "due" ->
                        [sweep EXCEPT !.at = "sync", !.todo = Nominated({u \in Users : LiveLinked(u)})]
                  [] sweep.at = "sync" -> Resting
    /\ UNCHANGED <<pledge, events, tables, tx, budget, history>>

\* A nominated row is read again; one that no longer qualifies is skipped, and so is a member the
\* level pass does not find in the roster.
Process(n) ==
    LET u == n.u
        there == IsRow(u, n.id)
        amount == IF there THEN sweep.roster[sub[u].patron] ELSE 0
        due == sweep.at = "due" /\ there /\ Due(u)
        live == sweep.at = "sync" /\ there /\ LiveLinked(u) /\ amount > 0
    IN  /\ sweep # Resting /\ n \in sweep.todo /\ tx[Job] = NoTx
        /\ sweep' = [sweep EXCEPT !.todo = @ \ {n}]
        /\ CASE due -> Begin(Job, [op |-> "due", u |-> u, acc |-> account[u], held |-> sub[u],
                                   active |-> amount > 0])
             [] live -> Begin(Job, [op |-> "sync", u |-> u, acc |-> account[u], held |-> sub[u],
                                    worth |-> LevelForAmount(amount)])
             [] OTHER -> UNCHANGED <<tx, raced>>
        /\ UNCHANGED <<pledge, events, tables, budget, claimers, landed>>

\* Some of the rows fail, or the job stops and the rest is nominated again tomorrow.
SweepStops ==
    /\ sweep # Resting
    /\ sweep' = Resting
    /\ tx' = [tx EXCEPT ![Job] = NoTx]
    /\ budget.moves > 0 /\ budget' = [budget EXCEPT !.moves = @ - 1]
    /\ UNCHANGED <<pledge, events, tables, history>>

-----------------------------------------------------------------------------
SupportersNext ==
    \/ \E p \in Patrons : \/ \E cents \in {0} \cup Amounts : Pledge(p, cents)
                          \/ \E c \in Codes : Stage(c, p)
    \/ \E c \in Codes : Expire(c)
    \/ \E u \in Users : \/ RunwayEnds(u) \/ RecordBlock(u) \/ Onboard(u) \/ RequestErasure(u) \/ JoinRequest(u)
                        \/ \E c \in Codes : Claim(u, c)
    \/ \E a \in Workers :
        \/ \E u \in Users : \/ \E c \in Codes : BeginLink(a, u, c)
                            \/ BeginUnlink(a, u)
                            \/ \E level \in GrantLevels : BeginGrant(a, u, level)
        \/ \E e \in events : Deliver(a, e)
    \/ \E a \in Actors : CommitTx(a) \/ RollBack(a) \/ Drain(a)
    \/ Cleanup \/ FetchRoster \/ Nominate \/ SweepStops
    \/ \E u \in Users, c \in Codes : Process([u |-> u, id |-> c])

SupportersSpec == SupportersInit /\ [][SupportersNext]_supportersVars

\* The job runs every day, time passes, and what is begun ends.
SupportersFairSpec ==
    /\ SupportersSpec
    /\ \A a \in Actors : WF_supportersVars(CommitTx(a)) /\ WF_supportersVars(RollBack(a)) /\ WF_supportersVars(Drain(a))
    /\ WF_supportersVars(FetchRoster) /\ WF_supportersVars(Nominate)
    /\ \A u \in Users, c \in Codes : WF_supportersVars(Process([u |-> u, id |-> c]))
    /\ \A u \in Users : WF_supportersVars(RunwayEnds(u))

-----------------------------------------------------------------------------
(* Properties. *)

AccountRow == [status : {"absent", "member", "left", "marked"}, level : Levels, granted : Levels]
SubRow == [id : Codes, patron : Patrons, runway : {"none", "running", "over"}, told : BOOLEAN]
LinkRow == [patron : Patrons, level : Levels, claimer : Users \cup {Nobody}, spent : BOOLEAN, live : BOOLEAN]

ASSUME RowAssumption == NoSub \notin SubRow /\ NoLink \notin LinkRow

\* All but a confirmation and a grant rest on a subscription.
Transactions ==
    [op : {"link"}, u : Users, acc : AccountRow, held : SubRow \cup {NoSub}, code : Codes, worth : Levels]
        \cup [op : {"grant"}, u : Users, acc : AccountRow, held : SubRow \cup {NoSub}, worth : Levels]
        \cup [op : {"unlink"}, u : Users, acc : AccountRow, held : SubRow]
        \cup [op : {"event", "sync"}, u : Users, acc : AccountRow, held : SubRow, worth : Levels]
        \cup [op : {"due"}, u : Users, acc : AccountRow, held : SubRow, active : BOOLEAN]

Calling == [op : {"calls"}, u : Users, calls : {<<"ban">>, <<"unban">>, <<"ban", "unban">>}]

\* Every variable holds a value of its kind.
SupportersTypeOK ==
    /\ pledge \in [Patrons -> {0} \cup Amounts]
    /\ events \subseteq [n : Nat, patron : Patrons, amount : {0} \cup Amounts, tries : 1 .. MaxTries]
    /\ account \in [Users -> AccountRow]
    /\ sub \in [Users -> SubRow \cup {NoSub}]
    /\ pending \in [Codes -> LinkRow \cup {NoLink}]
    /\ group \in [Users -> {"out", "in", "banned"}]
    /\ tx \in [Actors -> {NoTx} \cup Transactions \cup Calling]
    /\ sweep = Resting
       \/ (DOMAIN sweep = {"at", "roster", "todo"} /\ sweep.at \in {"fetched", "due", "sync"})
    /\ budget \in [pledges : Nat, grants : Nat, moves : Nat]
    /\ raced \subseteq Users
    /\ claimers \in [Codes -> SUBSET Users]
    /\ landed \in [Codes -> Seq(Users)]

\* An account no two writers have worked on at once never falls below its granted floor, and without
\* a subscription it holds exactly that ("every writer resolves through this, so a grant survives any
\* Patreon transition").  The writers lock nothing, so overlapping ones can break it: see the README.
LevelsAreBacked ==
    \A u \in Users \ raced :
        /\ account[u].level >= account[u].granted
        /\ sub[u] = NoSub => account[u].level = account[u].granted

\* A code is shown to one account, lands on that one at most, and at most once, however often and by
\* whomever the link or the button is tapped.
OnePersonPerCode ==
    \A c \in Codes :
        /\ Cardinality(claimers[c]) <= 1
        /\ Len(landed[c]) <= 1
        /\ \A i \in DOMAIN landed[c] : landed[c][i] \in claimers[c]

\* One Patreon account backs one account, although the check reads without a lock.
OneAccountPerPatron == \A p \in Patrons : Cardinality(Linked(p)) <= 1

\* A pairing code, and a Patreon account, is one person's.
LinksAreExclusive == OnePersonPerCode /\ OneAccountPerPatron

Served(u) == sub[u] # NoSub /\ account[u].status = "member" /\ pledge[sub[u].patron] > 0

\* Whatever was lost, repeated, reordered or overlapped: the daily sweep brings every linked active
\* patron to the tier of the pledge, or to the granted one above it, and keeps it there.
PatronsGetTheirTier ==
    \A u \in Users : <>[](Served(u) =>
        account[u].level = Highest(LevelForAmount(pledge[sub[u].patron]), account[u].granted))

\* Lowering the floor of a linked account "leaves the stored level for the daily reconciliation to
\* settle against their real entitlement" (supporter_grant/utils.py): a linked account that pays
\* nothing ends at its floor.
UnpaidTiersEnd ==
    \A u \in Users : <>[](LiveLinked(u) /\ ~Served(u) => account[u].level = account[u].granted)

\* "Become a Host again and you can rejoin" (docs/collaborate/donation.md): a host nobody is working
\* on, with no delivery owed, is not banned from the group.
HostsCanRejoin ==
    \A u \in Users \ raced :
        IsSupporter(account[u].level) /\ events = {} /\ (\A a \in Actors : tx[a] # NoTx => tx[a].u # u)
            => group[u] # "banned"

=============================================================================
