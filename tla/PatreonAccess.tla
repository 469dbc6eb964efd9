----------------------------- MODULE PatreonAccess -----------------------------
(***************************************************************************)
(* The bot's own standing at Patreon: libs/patreon creator_token.py,       *)
(* client.py and webhooks.py, web/app.py, web/patreon.py and the sweep of  *)
(* events/supporter_check.py.  One OAuth pair, the creator's, manages the  *)
(* membership webhook and reads the roster of the campaign.  It is seeded  *)
(* from configuration and rotated into one database row by whoever needs   *)
(* it: each web process that boots, and the daily job.  A refresh token    *)
(* works once, and a new pair ends the old one, access token included.     *)
(*                                                                         *)
(* All pairs but the newest are alike, so the model keeps who holds the    *)
(* newest one and counts none.  Levels are Supporters' business: here the  *)
(* database knows of a patron only whether they pay.  A patron stays on    *)
(* one page of the roster.                                                 *)
(*                                                                         *)
(* Unused definitions that stand before one of the same parameters are     *)
(* plausible mistakes in its code, for the mutants of PROJECT.json.        *)
(***************************************************************************)
EXTENDS Naturals, FiniteSets

CONSTANTS
    Webs,           \* web processes; a rolling deployment runs several at once
    Job,            \* the process of the daily supporter check
    Patrons,        \* members of the campaign linked to an account
    PageOf,         \* the page of the roster, 1 or 2, that lists each of them
    Shapes,         \* what a webhook is registered for: query of its URI and triggers
    FirstShape,     \* the one of the first release
    MaxSeeds,       \* bound: seeds an operator takes from the developer portal
    MaxReleases,    \* bound: releases of the web service
    MaxBoots,       \* bound: boots of web processes
    MaxFaults,      \* bound: crashes, failed calls and lost answers
    MaxChanges      \* bound: pledges and cancellations

ASSUME AccessAssumption ==
    /\ Job \notin Webs /\ FirstShape \in Shapes
    /\ PageOf \in [Patrons -> 1 .. 2]
    /\ {MaxReleases, MaxBoots, MaxFaults, MaxChanges} \subseteq Nat /\ MaxSeeds \in Nat \ {0}
    \* What is not a process may hold the pair, too.
    /\ {"row", "seed", "stale"} \cap (Webs \cup {Job}) = {}

VARIABLES
    \* At Patreon.
    seeds,      \* how many seeds the portal has handed out; the last one is the current seed
    hooks,      \* webhooks registered for our endpoint: [id, shape, paused]
    paying,     \* the patrons who pay
    post,       \* deliveries on their way: [patron, pays, hook]
    \* Configuration in service.
    web,        \* of the web service: [seed, shape]
    events,     \* of the daily job: its seed
    \* In the database.
    token,      \* PatreonCreatorToken: the seed whose fingerprint it carries, 0 without a row
    secret,     \* PatreonWebhook: the webhook whose secret is stored, 0 without a row
    known,      \* the patrons last reported as paying
    \* In memory.
    proc,       \* each process: [at, seed, shape, hook, roster, dipped]; dipped is history: the patrons who
                \* did not pay at some moment of the job's run
    \* Who holds the newest pair: the row, the current seed, a process.
    holders,
    \* History.
    mishap,     \* the newest pair was lost to a crash, a lost answer or a seed taken too early
    registered, \* whether some registration ended with the secret stored
    spent       \* [boots, faults, releases, changes] counted against the bounds

accessVars == <<seeds, hooks, paying, post, web, events, token, secret, known, proc, holders, mishap, registered, spent>>

Procs == Webs \cup {Job}
NewProcess == [at |-> "off", seed |-> 0, shape |-> "none", hook |-> 0, roster |-> {}, dipped |-> {}]

AccessTypeOK ==
    /\ seeds \in 1 .. MaxSeeds /\ token \in 0 .. seeds /\ events \in 1 .. seeds
    /\ web \in [seed : 1 .. seeds, shape : Shapes]
    /\ hooks \subseteq [id : 1 .. MaxBoots + 1, shape : Shapes, paused : BOOLEAN]
    /\ post \subseteq [patron : Patrons, pays : BOOLEAN, hook : 1 .. MaxBoots + 1]
    /\ {paying, known} \subseteq SUBSET Patrons
    /\ holders \subseteq Procs \cup {"row", "seed"}
    /\ proc \in [Procs -> [at : {"off", "refresh", "store", "list", "create", "update", "persist", "serving",
                                 "page1", "page2", "apply"},
                           seed : 0 .. seeds, shape : Shapes \cup {"none"}, hook : 0 .. MaxBoots + 1,
                           roster : SUBSET Patrons, dipped : SUBSET Patrons]]
    /\ {mishap, registered} \subseteq BOOLEAN

\* The first deployment, with a webhook somebody registered by hand or none.  Everybody has pledged,
\* which nobody told the database.
AccessInit ==
    /\ seeds = 1 /\ events = 1 /\ token = 0 /\ secret = 0
    /\ web = [seed |-> 1, shape |-> FirstShape]
    /\ hooks \in {{}} \cup {{[id |-> 1, shape |-> s, paused |-> FALSE]} : s \in Shapes}
    /\ paying = Patrons /\ known = {} /\ post = {}
    /\ proc = [p \in Procs |-> NewProcess] /\ holders = {"seed"}
    /\ mishap = FALSE /\ registered = FALSE
    /\ spent = [boots |-> 0, faults |-> 0, releases |-> 0, changes |-> 0]

--------------------------------------------------------------------------------
(* The credential.                                                                                  *)

Spend(what, bound) == spent[what] < bound /\ spent' = [spent EXCEPT ![what] = @ + 1]
MoveTo(p, place) == proc' = [proc EXCEPT ![p].at = place]

\* A mistake: the stored pair wins over a new seed.
StoredPairFirst(seed) == IF token # 0 THEN "row" ELSE IF seed = seeds THEN "seed" ELSE "stale"

\* The pair load_creator_state picks under a seed: the stored one if it descends from that seed.
Source(seed) == IF token = seed THEN "row" ELSE IF seed = seeds THEN "seed" ELSE "stale"

\* p loads the pair it is going to refresh.
LoadCreatorState(p, seed, shape, out) ==
    /\ proc' = [proc EXCEPT ![p] = [NewProcess EXCEPT !.at = "refresh", !.seed = seed, !.shape = shape, !.dipped = out]]
    /\ holders' = IF Source(seed) \in holders THEN holders \cup {p} ELSE holders \ {p}

\* What p does when it has, or cannot get, what it asked Patreon for.  Without it a web
\* process serves all the same and the job ends its run.
GiveUp(p) == proc' = [proc EXCEPT ![p] = [NewProcess EXCEPT !.at = IF p = Job THEN "off" ELSE "serving"]]
Drop(p) == holders' = holders \ {p}

\* Patreon answers a refresh with a new pair, or with invalid_grant if the token was used before.
Refresh(p) ==
    /\ proc[p].at = "refresh"
    /\ IF p \in holders THEN holders' = {p} /\ MoveTo(p, "store") ELSE GiveUp(p) /\ UNCHANGED holders
    /\ UNCHANGED <<seeds, hooks, paying, post, web, events, token, secret, known, mishap, registered, spent>>

\* The call fails; Patreon may have issued the pair whose answer never came.
RefreshFails(p) ==
    /\ proc[p].at = "refresh" /\ Spend("faults", MaxFaults)
    /\ GiveUp(p)
    /\ \/ Drop(p) /\ UNCHANGED mishap
       \/ p \in holders /\ holders' = {} /\ mishap' = TRUE
    /\ UNCHANGED <<seeds, hooks, paying, post, web, events, token, secret, known, registered>>

\* A mistake: the row keeps the fingerprint it was inserted with.
FirstSeedKept(p) == IF token = 0 THEN proc[p].seed ELSE token

\* store_creator_token: the one row takes the pair and the fingerprint it was loaded under.
StoredSeed(p) == proc[p].seed

StoreCreatorToken(p) ==
    /\ proc[p].at = "store"
    /\ token' = StoredSeed(p)
    /\ holders' = IF p \in holders THEN holders \cup {"row"} ELSE holders \ {"row"}
    /\ MoveTo(p, IF p = Job THEN "page1" ELSE "list")
    /\ UNCHANGED <<seeds, hooks, paying, post, web, events, secret, known, mishap, registered, spent>>

\* A mistake: the sweep takes a page that fails for the last one.
FailedPageIsTheLast(p) == IF p = Job THEN MoveTo(p, "apply") ELSE GiveUp(p)

\* The error leaves the registration, which swallows it, or the run.
Abandon(p) == GiveUp(p)

\* A call made with an access token that a later pair has ended, or that fails otherwise.
CallFails(p) ==
    /\ proc[p].at \in {"list", "create", "update", "page1", "page2"}
    /\ IF p \in holders THEN Spend("faults", MaxFaults) ELSE UNCHANGED spent
    /\ Abandon(p) /\ Drop(p)
    /\ UNCHANGED <<seeds, hooks, paying, post, web, events, token, secret, known, mishap, registered>>

\* An operator takes a new seed from the portal, which ends every other pair.  Nothing recovers a
\* lost credential but this.
Reseed ==
    /\ seeds < MaxSeeds
    /\ seeds' = seeds + 1
    /\ holders' = {"seed"}
    /\ mishap' = \E p \in Procs : proc[p].at = "store"
    /\ UNCHANGED <<hooks, paying, post, web, events, token, secret, known, proc, registered, spent>>

\* The web service is released with the current seed, or the job is.
ReleaseWeb ==
    /\ Spend("releases", MaxReleases)
    /\ \E s \in Shapes : web' = [seed |-> seeds, shape |-> s]
    /\ web' # web
    /\ UNCHANGED <<seeds, hooks, paying, post, events, token, secret, known, proc, holders, mishap, registered>>

ReleaseEvents ==
    /\ events # seeds /\ events' = seeds
    /\ UNCHANGED <<seeds, hooks, paying, post, web, token, secret, known, proc, holders, mishap, registered, spent>>

--------------------------------------------------------------------------------
(* A web process: its lifespan, and the webhook it registers before it serves.                      *)

\* It boots: Telegram's webhook and the card worker come first, and their failure ends the process.
\* A failed registration does not.
Boot(p) ==
    /\ proc[p].at = "off" /\ Spend("boots", MaxBoots)
    /\ LoadCreatorState(p, web.seed, web.shape, {})
    /\ UNCHANGED <<seeds, hooks, paying, post, web, events, token, secret, known, mishap, registered>>

\* A mistake: the webhook is looked up by its whole URI.
SameShape(shape) == {h \in hooks : h.shape = shape}

\* The listed webhooks that are ours: uri_matches compares what precedes the query.
Matching(shape) == hooks

\* A mistake: a webhook that did not drift needs nothing more.
DoneIfUnchanged(p, h) ==
    IF h.shape = proc[p].shape THEN GiveUp(p) /\ Drop(p) /\ registered' = TRUE
    ELSE proc' = [proc EXCEPT ![p].hook = h.id, ![p].at = "update"] /\ UNCHANGED <<holders, registered>>

\* ensure_webhook goes on with the one it found: drift_reason decides whether it is patched first.
Adopt(p, h) ==
    /\ proc' = [proc EXCEPT ![p].hook = h.id, ![p].at = IF h.shape # proc[p].shape THEN "update" ELSE "persist"]
    /\ UNCHANGED <<holders, registered>>

\* list_webhooks, and what ensure_webhook makes of it.
ListWebhooks(p) ==
    /\ proc[p].at = "list" /\ p \in holders
    /\ \/ Matching(proc[p].shape) = {} /\ MoveTo(p, "create") /\ UNCHANGED <<holders, registered>>
       \/ \E h \in Matching(proc[p].shape) : Adopt(p, h)
    /\ UNCHANGED <<seeds, hooks, paying, post, web, events, token, secret, known, mishap, spent>>

\* create_webhook; the answer carries the secret, if it arrives.
CreateWebhook(p) ==
    LET id == Cardinality(hooks) + 1 IN
    /\ proc[p].at = "create" /\ p \in holders
    /\ hooks' = hooks \cup {[id |-> id, shape |-> proc[p].shape, paused |-> FALSE]}
    /\ \/ proc' = [proc EXCEPT ![p].hook = id, ![p].at = "persist"] /\ UNCHANGED <<holders, spent>>
       \/ Spend("faults", MaxFaults) /\ GiveUp(p) /\ Drop(p)
    /\ UNCHANGED <<seeds, paying, post, web, events, token, secret, known, mishap, registered>>

\* update_webhook sets the URI and the triggers, and leaves a paused webhook paused.
UpdateWebhook(p) ==
    /\ proc[p].at = "update" /\ p \in holders
    /\ hooks' = {IF h.id = proc[p].hook THEN [h EXCEPT !.shape = proc[p].shape] ELSE h : h \in hooks}
    /\ MoveTo(p, "persist")
    /\ UNCHANGED <<seeds, paying, post, web, events, token, secret, known, holders, mishap, registered, spent>>

\* store_webhook; a resource that came without its secret leaves the row as it is.
Persist(p) ==
    /\ proc[p].at = "persist"
    /\ \/ secret' = proc[p].hook /\ registered' = TRUE /\ UNCHANGED spent
       \/ Spend("faults", MaxFaults) /\ UNCHANGED <<secret, registered>>
    /\ GiveUp(p) /\ Drop(p)
    /\ UNCHANGED <<seeds, hooks, paying, post, web, events, token, known, mishap>>

\* The lifespan ends after the shutdown steps, each of which runs whatever the others did.
Stop(p) ==
    /\ proc[p].at = "serving"
    /\ proc' = [proc EXCEPT ![p] = NewProcess]
    /\ UNCHANGED <<seeds, hooks, paying, post, web, events, token, secret, known, holders, mishap, registered, spent>>

\* A process dies before it serves, or in the middle of a run.  What it had not stored is gone.
Die(p) ==
    /\ proc[p].at \notin {"off", "serving"} /\ Spend("faults", MaxFaults)
    /\ proc' = [proc EXCEPT ![p] = NewProcess]
    /\ Drop(p)
    /\ mishap' = (mishap \/ (proc[p].at = "store" /\ p \in holders))
    /\ UNCHANGED <<seeds, hooks, paying, post, web, events, token, secret, known, registered>>

--------------------------------------------------------------------------------
(* What the database learns of patrons: from deliveries, and from the daily sweep.                  *)

\* Somebody pledges or cancels, and the webhook, unless it is paused, writes to us.
Change(m) ==
    LET pays == m \notin paying IN
    /\ Spend("changes", MaxChanges)
    /\ paying' = IF pays THEN paying \cup {m} ELSE paying \ {m}
    /\ proc' = IF pays \/ proc[Job].at = "off" THEN proc ELSE [proc EXCEPT ![Job].dipped = @ \cup {m}]
    /\ post' = post \cup {[patron |-> m, pays |-> pays, hook |-> h.id] : h \in {x \in hooks : ~x.paused}}
    /\ UNCHANGED <<seeds, hooks, web, events, token, secret, known, holders, mishap, registered>>

Told(m, pays) == IF pays THEN known \cup {m} ELSE known \ {m}

\* signature_verdict: only the stored secret verifies a delivery.
Verified(d) == secret = d.hook

\* patreon_webhook.  A delivery that is applied may come again, if Patreon missed the answer.
Deliver(d) ==
    /\ \E p \in Webs : proc[p].at = "serving"
    /\ Verified(d)
    /\ known' = Told(d.patron, d.pays)
    /\ \/ post' = post \ {d} /\ UNCHANGED spent
       \/ Spend("faults", MaxFaults) /\ UNCHANGED post
    /\ UNCHANGED <<seeds, hooks, paying, web, events, token, secret, proc, holders, mishap, registered>>

\* Nobody answers, or 403.  Patreon gives up on the delivery and may pause the webhook.
DeliveryFails(d) ==
    /\ \/ ~Verified(d)
       \/ \A p \in Webs : proc[p].at # "serving"
    /\ post' = post \ {d}
    /\ \/ UNCHANGED hooks
       \/ hooks' = {IF h.id = d.hook THEN [h EXCEPT !.paused = TRUE] ELSE h : h \in hooks}
    /\ UNCHANGED <<seeds, paying, web, events, token, secret, known, proc, holders, mishap, registered, spent>>

\* The daily job begins.
StartCheck ==
    /\ proc[Job].at = "off"
    /\ LoadCreatorState(Job, events, "none", Patrons \ paying)
    /\ UNCHANGED <<seeds, hooks, paying, post, web, events, token, secret, known, mishap, registered, spent>>

\* iter_campaign_members: page after page, each with the access token of this run.
ReadPage(n) ==
    LET at == IF n = 1 THEN "page1" ELSE "page2" IN
    /\ proc[Job].at = at /\ Job \in holders
    /\ proc' = [proc EXCEPT ![Job].roster = @ \cup {m \in paying : PageOf[m] = n},
                            ![Job].at = IF n = 1 THEN "page2" ELSE "apply"]
    /\ UNCHANGED <<seeds, hooks, paying, post, web, events, token, secret, known, holders, mishap, registered, spent>>

\* The two passes over the linked members; whoever is not on the roster does not pay.
Reconcile ==
    /\ proc[Job].at = "apply"
    /\ known' = proc[Job].roster
    /\ proc' = [proc EXCEPT ![Job] = NewProcess]
    /\ Drop(Job)
    /\ UNCHANGED <<seeds, hooks, paying, post, web, events, token, secret, mishap, registered, spent>>

--------------------------------------------------------------------------------

Acquire(p) == Refresh(p) \/ RefreshFails(p) \/ StoreCreatorToken(p) \/ CallFails(p)
RegisterWebhook(p) == ListWebhooks(p) \/ CreateWebhook(p) \/ UpdateWebhook(p) \/ Persist(p)
Sweep == StartCheck \/ (\E n \in 1 .. 2 : ReadPage(n)) \/ Reconcile

AccessNext ==
    \/ \E p \in Procs : Acquire(p) \/ Die(p)
    \/ \E p \in Webs : Boot(p) \/ RegisterWebhook(p) \/ Stop(p)
    \/ Sweep
    \/ Reseed \/ ReleaseWeb \/ ReleaseEvents
    \/ \E m \in Patrons : Change(m)
    \/ \E d \in post : Deliver(d) \/ DeliveryFails(d)

AccessSpec == AccessInit /\ [][AccessNext]_accessVars

\* The job runs every day and its release comes; a running process goes on.  Nobody has to boot,
\* to release the web service, or to take a new seed.
AccessFairSpec ==
    /\ AccessSpec
    /\ WF_accessVars(Sweep) /\ WF_accessVars(ReleaseEvents) /\ \A p \in Procs : WF_accessVars(Acquire(p))
    /\ WF_accessVars(\E d \in post : Deliver(d) \/ DeliveryFails(d))

--------------------------------------------------------------------------------
(* What has to hold.                                                                                *)

\* The newest pair is where the next process configured with the current seed will look for it, or on its
\* way there: single-use refresh tokens, several refreshers and seeds taken by hand lose the
\* creator's access in no way but the three the history records (creator_token.py).
CredentialIsNotLost ==
    mishap \/ Source(seeds) \in holders \/ \E p \in Procs : proc[p].at = "store" /\ p \in holders

\* One webhook, however many processes boot at once, die after creating it or find one that drifted
\* ("a redeploy never creates a duplicate", webhooks.py).
WebhookIsUnique == Cardinality(hooks) <= 1

\* Once a process has registered, what Patreon delivers is verified, whoever serves it and whatever
\* earlier boots left half done.
DeliveriesVerify == registered => \A h \in hooks : secret = h.id

\* There is one webhook, and its deliveries can be told from forged ones.
WebhookWorks == WebhookIsUnique /\ DeliveriesVerify

\* The daily sweep counts as lapsed only people who did not pay at some moment of that run: no page of
\* the roster goes missing, whoever ends its access token halfway.
LapsesAreReal == [][Reconcile => known \ known' \subseteq proc[Job].dipped]_accessVars

\* The database ends up knowing who pays, deliveries lost, late and out of order or not, unless the
\* credential is lost for good.
PledgesAreLearnt == <>[](known = paying) \/ <>[]mishap

=============================================================================
