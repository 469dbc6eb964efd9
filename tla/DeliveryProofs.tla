---------------------------- MODULE DeliveryProofs ----------------------------
(***************************************************************************)
(* Theorems about Delivery, for any tasks and surfaces, any plans of calls,*)
(* and any limits.                                                         *)
(***************************************************************************)
EXTENDS Delivery, FiniteSetTheorems, SequenceTheorems, WellFoundedInduction, TLAPS

-----------------------------------------------------------------------------
(* Type correctness *)

Phases == {"idle", "queued", "entered", "body", "live", "drain", "reconcile", "answer", "done"}

Invocation ==
    [phase : Phases, from : AllSurfaces, mode : {"write", "written", "read", "failed", "undone"},
     lock : Handlers \cup {NoLock}, calls : Seq(Calls), at : Nat \ {0}, stage : {"wait", "bucket", "wire"},
     tries : Nat \ {0}, plain : BOOLEAN, throttles : Nat, network : Nat, slow : Nat,
     dead : SUBSET Chats, gone : SUBSET Chats]

DeliveryTyped ==
    /\ inv \in [Handlers -> Invocation]
    /\ fate \in [Handlers -> Seq(Fates)] /\ posted \in [Handlers -> Seq(Nat)]
    /\ locks \in [{"own", "elsewhere"} -> Handlers \cup {NoLock}]
    /\ waiters \in [Handlers -> Nat] /\ holder \in [Handlers -> Handlers \cup {NoLock}]
    /\ blocked \subseteq Chats /\ tracked \subseteq Chats /\ left \subseteq Chats

-----------------------------------------------------------------------------
(* The processor's locks *)

Users(l) == {h \in Handlers : inv[h].phase # "idle" /\ inv[h].lock = l}

\* The map holds the lock of a key as long as somebody counts on it; who is past the door holds it.
LocksHeld ==
    /\ \A l \in Handlers : waiters[l] = Cardinality(Users(l))
    /\ \A h \in Handlers : inv[h].phase # "idle" => inv[h].lock \in Handlers /\ locks[KeyOf(inv[h].from)] = inv[h].lock
    /\ \A h \in Handlers : inv[h].phase \notin {"idle", "queued"} => holder[inv[h].lock] = h

-----------------------------------------------------------------------------
(* One invocation *)

\* Where an invocation can be under each mode, and what it starts from.
Phased(h) ==
    LET i == inv[h] IN
    /\ i.phase \in {"queued", "entered", "body"} => /\ i.mode = "write"
                                                    /\ i.at = 1 /\ i.network = 0 /\ i.slow = 0 /\ i.dead = {} /\ i.gone = {}
    /\ i.phase = "live" => i.mode = "read"
    /\ i.phase \in {"drain", "reconcile"} => i.mode = "written"
    /\ i.phase = "answer" => i.mode \in {"failed", "undone"}
    /\ i.phase \in {"body", "live"} \/ i.mode = "written" =>
            Len(fate[h]) = Len(i.calls) /\ Len(posted[h]) = Len(i.calls)
    /\ i.phase \in {"live", "drain"} => i.at <= Len(i.calls)

\* Before its commit a write has sent nothing, nor after it was undone.
Silent(h) ==
    inv[h].mode \in {"write", "undone"} => /\ \A n \in DOMAIN fate[h] : fate[h][n] = "untried" /\ posted[h][n] = 0
                                           /\ DOMAIN fate[h] = DOMAIN posted[h]

\* The calls ahead have not been tried; of the one at hand only a repeatable one may have been carried
\* out. No other is carried out twice.
Ahead(h) ==
    /\ inv[h].phase = "drain" =>
        \A n \in inv[h].at .. Len(inv[h].calls) :
            /\ fate[h][n] = "untried"
            /\ posted[h][n] = 0 \/ (n = inv[h].at /\ Idempotent(inv[h].calls[n]))
    /\ inv[h].mode = "written" =>
        \A n \in 1 .. Len(inv[h].calls) : ~Idempotent(inv[h].calls[n]) => posted[h][n] <= 1

\* What the drain found lost is noted until it is recorded.
Noted(h) ==
    inv[h].mode = "written" => \A n \in 1 .. Len(inv[h].calls) : fate[h][n] = "lost" =>
        LET call == inv[h].calls[n] IN
        /\ inv[h].phase \in {"drain", "reconcile"} => /\ call[1] = "card" => call[2] \in inv[h].dead
                                                      /\ call[1] = "notify" => call[2] \in inv[h].gone
        /\ inv[h].phase = "done" => /\ call[1] = "card" => call[2] \notin tracked
                                    /\ call[1] = "notify" => call[2] \in left

\* The calls a drain tried, but for the inline edits that stalled, and these.
Heard(f) == {n \in DOMAIN f : f[n] \notin {"untried", "slow"}}
Stalled(f) == {n \in DOMAIN f : f[n] = "slow"}
From(S, m) == {o \in S : o >= m}

\* The drain's counters are of the calls it tried: the last ones in a row that met silence, and the
\* stalled ones. It skips only inline edits, once enough have stalled, unless it breaks off.
Counted(h) ==
    LET i == inv[h]  f == fate[h]
        Skipped(n) == Inline(i.calls[n]) /\ i.slow >= InlineLimit IN
    inv[h].mode = "written" /\ i.phase \in {"drain", "reconcile", "done"} =>
        /\ i.slow = Cardinality(Stalled(f))
        /\ i.network <= Cardinality(Heard(f))
        /\ \A m \in Heard(f) : Cardinality(From(Heard(f), m)) <= i.network => f[m] = "silent"
        /\ i.network <= NetworkLimit
        /\ i.phase = "drain" =>
            /\ i.network < NetworkLimit
            /\ \A n \in 1 .. i.at - 1 : f[n] = "untried" => Skipped(n)
        /\ i.phase # "drain" =>
            i.network = NetworkLimit \/ \A n \in DOMAIN f : f[n] = "untried" => Skipped(n)

Settled(h) == Phased(h) /\ Silent(h) /\ Ahead(h) /\ Noted(h) /\ Counted(h)

DeliveryInv == DeliveryTyped /\ LocksHeld /\ \A h \in Handlers : Settled(h)

-----------------------------------------------------------------------------
(* What an invocation turns into *)

\* What the error handler sends is a call.
LEMMA ErrorCalls ==
    /\ Alert \in Calls /\ Reply \in Calls /\ \A s : Screen(s) \in Calls
BY DEF Alert, Reply, Screen, Calls, Screens, Replies, Answers

\* What an error is answered with is a sequence of calls.
LEMMA AnswerTyped == \A s, error : Answer(s, error) \in Seq(Calls)
<1> TAKE s, error
<1>1. /\ <<>> \in Seq(Calls) /\ <<Alert>> \in Seq(Calls) /\ <<Reply>> \in Seq(Calls) /\ <<Screen(s)>> \in Seq(Calls)
      /\ <<Alert, Screen("tap")>> \in Seq(Calls)
    BY ErrorCalls
<1>2. MainMenuNotice(s) \in Seq(Calls)
    <2> HIDE DEF Alert, Reply
    <2>1. \A u, v \in Seq(Calls) : u \o v \in Seq(Calls)
        BY ConcatProperties
    <2> QED
        BY <1>1, <2>1 DEF MainMenuNotice
<1>3. InPlace(s) \in Seq(Calls) /\ PendingAnswer(s) \in Seq(Calls) /\ UnregisteredAnswer(s) \in Seq(Calls)
    BY <1>1 DEF InPlace, PendingAnswer, UnregisteredAnswer, QueryAnswer
<1>4. UnreachableAnswer(s) \in Seq(Calls) /\ SharedAnswer(s, error) \in Seq(Calls) /\ MeetingAnswer(s) \in Seq(Calls)
    BY <1>1, <1>3 DEF UnreachableAnswer, SharedAnswer, MeetingAnswer
<1> QED
    BY <1>1, <1>2, <1>3, <1>4 DEF Answer

\* An error ends the plan; a write is undone by it, anything else has failed.
LEMMA RaisedInvocation ==
    ASSUME NEW i \in Invocation, NEW error
    PROVE  LET r == Raised(i, error) IN
           /\ r \in Invocation /\ r.phase \in {"answer", "done"} /\ r.from = i.from /\ r.lock = i.lock
           /\ r.mode = IF i.mode = "write" THEN "undone" ELSE "failed"
<1> DEFINE R(calls, phase, mode) ==
             [i EXCEPT !.phase = phase, !.mode = mode, !.calls = calls, !.at = 1, !.stage = "wait",
                       !.tries = 1, !.plain = FALSE, !.throttles = 0]
<1>1. ASSUME NEW calls \in Seq(Calls), NEW phase \in {"done", "answer"}, NEW mode \in {"undone", "failed"}
      PROVE  /\ R(calls, phase, mode) \in Invocation
             /\ R(calls, phase, mode).phase = phase /\ R(calls, phase, mode).mode = mode
             /\ R(calls, phase, mode).from = i.from /\ R(calls, phase, mode).lock = i.lock
    <2>1. phase \in Phases /\ 1 \in Nat \ {0} /\ 0 \in Nat
        BY DEF Phases
    <2>2. R(calls, phase, mode) \in Invocation
        BY <2>1, Zenon DEF Invocation
    <2>3. /\ R(calls, phase, mode).phase = phase /\ R(calls, phase, mode).mode = mode
          /\ R(calls, phase, mode).from = i.from /\ R(calls, phase, mode).lock = i.lock
        BY DEF Invocation
    <2> QED
        BY <2>2, <2>3
<1> DEFINE calls == Answer(i.from, error)
           phase == IF calls = <<>> THEN "done" ELSE "answer"
           mode == IF i.mode = "write" THEN "undone" ELSE "failed"
<1>2. Raised(i, error) = R(calls, phase, mode)
    BY DEF Raised
<1>3. calls \in Seq(Calls) /\ phase \in {"done", "answer"} /\ mode \in {"undone", "failed"}
    BY AnswerTyped
<1> HIDE DEF R, calls, phase
<1> QED
    BY <1>1, <1>2, <1>3

\* The turn of the n-th call.
LEMMA OntoInvocation ==
    ASSUME NEW i \in Invocation, NEW n \in Nat \ {0}, NEW over \in {"reconcile", "done"}
    PROVE  LET r == Onto(i, n, over) IN
           /\ r \in Invocation /\ r.at = n /\ r.phase = IF n > Len(i.calls) THEN over ELSE i.phase
           /\ r.from = i.from /\ r.lock = i.lock /\ r.mode = i.mode /\ r.calls = i.calls
           /\ r.network = i.network /\ r.slow = i.slow /\ r.dead = i.dead /\ r.gone = i.gone
<1> DEFINE R(phase) ==
             [i EXCEPT !.phase = phase, !.at = n, !.stage = "wait", !.tries = 1, !.plain = FALSE, !.throttles = 0]
           next == IF n > Len(i.calls) THEN over ELSE i.phase
<1>1. next \in Phases /\ 1 \in Nat \ {0} /\ 0 \in Nat
    BY DEF Invocation, Phases
<1>2. R(next) \in Invocation
    BY <1>1, Zenon DEF Invocation
<1>3. /\ R(next).at = n /\ R(next).phase = next
      /\ R(next).from = i.from /\ R(next).lock = i.lock /\ R(next).mode = i.mode /\ R(next).calls = i.calls
      /\ R(next).network = i.network /\ R(next).slow = i.slow /\ R(next).dead = i.dead /\ R(next).gone = i.gone
    BY DEF Invocation
<1>4. Onto(i, n, over) = R(next)
    BY DEF Onto
<1> HIDE DEF R
<1> QED
    BY <1>2, <1>3, <1>4

\* The next call of a drain, and what it passes over.
LEMMA NextCallIsFirst ==
    ASSUME NEW i \in Invocation, NEW slow \in Nat
    PROVE  LET n == NextCall(i, slow) IN
           /\ n \in Nat /\ ((i.at < n /\ n <= Len(i.calls)) \/ n = Len(i.calls) + 1)
           /\ \A m \in i.at + 1 .. Len(i.calls) : m < n => Inline(i.calls[m]) /\ slow >= InlineLimit
<1> DEFINE rest == {n \in i.at + 1 .. Len(i.calls) : slow < InlineLimit \/ ~Inline(i.calls[n])}
<1>1. i.at \in Nat /\ Len(i.calls) \in Nat /\ InlineLimit \in Nat
    BY DeliveryAssumption DEF Invocation
<1>2. CASE rest = {}
    BY <1>1, <1>2 DEF NextCall
<1>3. CASE rest # {}
    <2> DEFINE R == OpToRel(<, Nat)
    <2>1. PICK n \in rest : \A m \in rest : <<m, n>> \notin R
        <3>1. IsWellFoundedOn(R, Nat)
            BY NatLessThanWellFounded
        <3>2. rest \subseteq Nat
            BY <1>1
        <3> HIDE DEF R, rest
        <3> QED
            BY <1>3, <3>1, <3>2, WFMin
    <2>2. ASSUME NEW m \in rest PROVE n <= m
        <3>1. m \in Nat /\ n \in Nat
            BY <1>1
        <3>2. m < n => <<m, n>> \in R
            BY <3>1 DEF OpToRel
        <3> HIDE DEF R, rest
        <3>3. ~(m < n)
            BY <2>1, <3>2
        <3> QED
            BY <3>1, <3>3
    <2>3. NextCall(i, slow) \in rest /\ \A m \in rest : NextCall(i, slow) <= m
        BY <1>3, <2>2 DEF NextCall
    <2> HIDE DEF R
    <2>4. NextCall(i, slow) \in i.at + 1 .. Len(i.calls)
        BY <2>3
    <2>5. ASSUME NEW m \in i.at + 1 .. Len(i.calls), m < NextCall(i, slow) PROVE m \notin rest
        BY <1>1, <2>3, <2>4, <2>5
    <2> QED
        BY <1>1, <2>4, <2>5
<1> QED
    BY <1>2, <1>3

\* A drain gets over the call at hand: what it counts, and where it goes on or ends.
LEMMA DrainedInvocation ==
    ASSUME NEW i \in Invocation, i.at <= Len(i.calls),
           NEW outcome \in {"sent", "failed", "network", "slow"}
    PROVE  LET r == Drained(i, outcome)
               Skipped(n) == Inline(i.calls[n]) /\ r.slow >= InlineLimit
           IN  /\ r \in Invocation /\ r.phase \in {i.phase, "reconcile"}
               /\ r.from = i.from /\ r.lock = i.lock /\ r.mode = i.mode /\ r.calls = i.calls
               /\ r.dead = i.dead /\ r.gone = i.gone
               /\ r.slow = IF outcome = "slow" THEN i.slow + 1 ELSE i.slow
               /\ r.network = IF outcome = "network" THEN i.network + 1 ELSE IF outcome = "slow" THEN i.network ELSE 0
               /\ r.phase # "reconcile" =>
                    /\ i.at < r.at /\ r.at <= Len(i.calls) /\ r.network < NetworkLimit
                    /\ \A n \in i.at + 1 .. r.at - 1 : Skipped(n)
               /\ r.phase = "reconcile" /\ i.phase # "reconcile" /\ r.network < NetworkLimit =>
                    \A n \in i.at + 1 .. Len(i.calls) : Skipped(n)
<1> DEFINE network == CASE outcome = "network" -> i.network + 1 [] outcome = "slow" -> i.network [] OTHER -> 0
           slow == IF outcome = "slow" THEN i.slow + 1 ELSE i.slow
           next == IF network >= NetworkLimit THEN Len(i.calls) + 1 ELSE NextCall(i, slow)
           j == [i EXCEPT !.network = network, !.slow = slow]
<1>1. i.at \in Nat \ {0} /\ i.network \in Nat /\ i.slow \in Nat /\ Len(i.calls) \in Nat /\ NetworkLimit \in Nat
    BY DeliveryAssumption DEF Invocation
<1>2. /\ network = IF outcome = "network" THEN i.network + 1 ELSE IF outcome = "slow" THEN i.network ELSE 0
      /\ network \in Nat /\ slow \in Nat
    BY <1>1
<1> HIDE DEF network
<1>3. /\ j \in Invocation /\ j.network = network /\ j.slow = slow
      /\ j.phase = i.phase /\ j.at = i.at /\ j.from = i.from /\ j.lock = i.lock /\ j.mode = i.mode
      /\ j.calls = i.calls /\ j.dead = i.dead /\ j.gone = i.gone
    <2>1. j \in Invocation
        BY <1>2, Zenon DEF Invocation
    <2>2. /\ j.network = network /\ j.slow = slow
          /\ j.phase = i.phase /\ j.at = i.at /\ j.from = i.from /\ j.lock = i.lock /\ j.mode = i.mode
          /\ j.calls = i.calls /\ j.dead = i.dead /\ j.gone = i.gone
        BY DEF Invocation
    <2> QED
        BY <2>1, <2>2
<1> HIDE DEF slow
<1>4. /\ NextCall(i, slow) \in Nat
      /\ (i.at < NextCall(i, slow) /\ NextCall(i, slow) <= Len(i.calls)) \/ NextCall(i, slow) = Len(i.calls) + 1
      /\ \A m \in i.at + 1 .. Len(i.calls) : m < NextCall(i, slow) => Inline(i.calls[m]) /\ slow >= InlineLimit
    BY <1>2, NextCallIsFirst
<1>5. Drained(i, outcome) = Onto(j, next, "reconcile")
    BY DEF Drained, network, slow
<1>6. next \in Nat \ {0}
    BY <1>1, <1>4
<1> HIDE DEF j, next
<1> DEFINE r == Onto(j, next, "reconcile")
<1>7. /\ r \in Invocation /\ r.at = next /\ r.phase = IF next > Len(j.calls) THEN "reconcile" ELSE j.phase
      /\ r.from = j.from /\ r.lock = j.lock /\ r.mode = j.mode /\ r.calls = j.calls
      /\ r.network = j.network /\ r.slow = j.slow /\ r.dead = j.dead /\ r.gone = j.gone
    BY <1>3, <1>6, OntoInvocation
<1> HIDE DEF r
<1> QED
    BY <1>1, <1>2, <1>3, <1>4, <1>5, <1>6, <1>7, SMTT(60) DEF next, slow, r

-----------------------------------------------------------------------------
(* What a drain counts *)

\* The calls a history counts are finitely many of its calls.
LEMMA SetsOfCalls ==
    ASSUME NEW f \in Seq(Fates)
    PROVE  /\ IsFiniteSet(Heard(f)) /\ IsFiniteSet(Stalled(f))
           /\ Heard(f) \subseteq 1 .. Len(f) /\ Stalled(f) \subseteq 1 .. Len(f)
           /\ \A m : IsFiniteSet(From(Heard(f), m)) /\ Cardinality(From(Heard(f), m)) \in Nat
           /\ Cardinality(Heard(f)) \in Nat /\ Cardinality(Stalled(f)) \in Nat
<1>1. DOMAIN f = 1 .. Len(f) /\ IsFiniteSet(1 .. Len(f))
    BY FS_Interval
<1>2. Heard(f) \subseteq 1 .. Len(f) /\ Stalled(f) \subseteq 1 .. Len(f) /\ \A m : From(Heard(f), m) \subseteq 1 .. Len(f)
    BY <1>1 DEF Heard, Stalled, From
<1> QED
    BY <1>1, <1>2, FS_Subset, FS_CardinalityType

\* One more call is through, behind all the others tried.
LEMMA OneMoreTried ==
    ASSUME NEW f \in Seq(Fates), NEW n \in 1 .. Len(f), NEW how \in Fates \ {"untried"},
           \A m \in n .. Len(f) : f[m] = "untried",
           NEW g \in Seq(Fates), Len(g) = Len(f), g[n] = how, \A m \in 1 .. Len(f) : m # n => g[m] = f[m]
    PROVE  /\ how = "slow" => /\ Heard(g) = Heard(f) /\ Cardinality(Stalled(g)) = Cardinality(Stalled(f)) + 1
           /\ how # "slow" =>
                /\ Stalled(g) = Stalled(f) /\ Heard(g) = Heard(f) \cup {n}
                /\ Cardinality(Heard(g)) = Cardinality(Heard(f)) + 1
                /\ Cardinality(From(Heard(g), n)) = 1
                /\ \A m \in Heard(f) : Cardinality(From(Heard(g), m)) = Cardinality(From(Heard(f), m)) + 1
<1>1. DOMAIN g = 1 .. Len(f) /\ DOMAIN f = 1 .. Len(f) /\ n \in Nat
    OBVIOUS
<1>2. /\ n \notin Heard(f) /\ n \notin Stalled(f)
      /\ \A m \in Heard(f) : m \in Nat /\ m < n
    BY <1>1 DEF Heard, Stalled
<1>3. CASE how = "slow"
    <2>1. Heard(g) = Heard(f) /\ Stalled(g) = Stalled(f) \cup {n}
        BY <1>1, <1>2, <1>3 DEF Heard, Stalled
    <2> QED
        BY <1>1, <1>2, <1>3, <2>1, SetsOfCalls, FS_AddElement
<1>4. CASE how # "slow"
    <2>1. Heard(g) = Heard(f) \cup {n} /\ Stalled(g) = Stalled(f)
        BY <1>1, <1>2, <1>4 DEF Heard, Stalled
    <2>2. Cardinality(Heard(g)) = Cardinality(Heard(f)) + 1
        BY <1>2, <2>1, SetsOfCalls, FS_AddElement
    <2>3. Cardinality(From(Heard(g), n)) = 1
        <3>1. From(Heard(g), n) = {n}
            BY <1>2, <2>1 DEF From
        <3> QED
            BY <3>1, FS_Singleton
    <2>4. ASSUME NEW m \in Heard(f)
          PROVE  Cardinality(From(Heard(g), m)) = Cardinality(From(Heard(f), m)) + 1
        <3>1. From(Heard(g), m) = From(Heard(f), m) \cup {n} /\ n \notin From(Heard(f), m)
            BY <1>2, <2>1, <2>4 DEF From
        <3> QED
            BY <3>1, SetsOfCalls, FS_AddElement
    <2> QED
        BY <1>1, <1>4, <2>1, <2>2, <2>3, <2>4
<1> QED
    BY <1>3, <1>4

-----------------------------------------------------------------------------
(* One task at a time *)

Busy(h) == inv[h].phase \notin {"idle", "queued"}

\* Only task h goes on; what is recorded of losses stays recorded.
OnlyOf(h) ==
    /\ inv' \in [Handlers -> Invocation] /\ fate' \in [Handlers -> Seq(Fates)] /\ posted' \in [Handlers -> Seq(Nat)]
    /\ \A g \in Handlers : g # h => inv'[g] = inv[g] /\ fate'[g] = fate[g] /\ posted'[g] = posted[g]
    /\ tracked' \subseteq tracked /\ left \subseteq left' /\ left' \subseteq Chats /\ UNCHANGED world

\* A step of one task leaves every other settled.
LEMMA OthersSettled ==
    ASSUME DeliveryInv, NEW h \in Handlers, OnlyOf(h), NEW g \in Handlers, g # h
    PROVE  Settled(g)'
<1>1. inv'[g] = inv[g] /\ fate'[g] = fate[g] /\ posted'[g] = posted[g] /\ Settled(g)
    BY DEF OnlyOf, DeliveryInv
<1>2. Phased(g)' /\ Silent(g)' /\ Ahead(g)' /\ Counted(g)'
    BY <1>1 DEF Settled, Phased, Silent, Ahead, Counted
<1>3. Noted(g)'
    BY <1>1 DEF Settled, Noted, OnlyOf
<1> QED
    BY <1>2, <1>3 DEF Settled

\* Whoever is past the door moves on with the lock they have.
LEMMA TaskStep ==
    ASSUME DeliveryInv, NEW h \in Handlers, OnlyOf(h), Busy(h), Busy(h)', UNCHANGED serial,
           inv'[h].lock = inv[h].lock, inv'[h].from = inv[h].from, Settled(h)'
    PROVE  DeliveryInv'
<1>1. DeliveryTyped'
    BY DEF DeliveryInv, DeliveryTyped, OnlyOf, serial, world
<1>2. \A l : Users(l)' = Users(l)
    BY DEF Users, OnlyOf, Busy
<1>3. LocksHeld'
    <2>1. LocksHeld /\ locks' = locks /\ waiters' = waiters /\ holder' = holder
        BY DEF DeliveryInv, serial
    <2>2. \A l \in Handlers : waiters'[l] = Cardinality(Users(l)')
        BY <1>2, <2>1, Zenon DEF LocksHeld
    <2>3. \A g \in Handlers : /\ inv'[g].lock = inv[g].lock /\ inv'[g].from = inv[g].from
                              /\ inv'[g].phase \notin {"idle", "queued"} <=> inv[g].phase \notin {"idle", "queued"}
                              /\ inv'[g].phase # "idle" <=> inv[g].phase # "idle"
        BY DEF OnlyOf, Busy
    <2> QED
        BY <2>1, <2>2, <2>3 DEF LocksHeld
<1>4. \A g \in Handlers : Settled(g)'
    BY OthersSettled
<1> QED
    BY <1>1, <1>3, <1>4 DEF DeliveryInv

\* A step that sends nothing.
LEMMA QuietStep ==
    ASSUME DeliveryInv, NEW h \in Handlers, Busy(h), NEW r \in Invocation, inv' = [inv EXCEPT ![h] = r],
           UNCHANGED <<fate, posted, serial, world, rows>>,
           r.phase \notin {"idle", "queued"}, r.lock = inv[h].lock, r.from = inv[h].from, Settled(h)'
    PROVE  DeliveryInv'
<1>1. inv'[h] = r /\ OnlyOf(h)
    BY DEF DeliveryInv, DeliveryTyped, OnlyOf, rows
<1> QED
    BY <1>1, TaskStep DEF Busy

-----------------------------------------------------------------------------
(* The end of a call *)

\* Telegram may have carried out the call at hand once more, and its fate is known.
Carried(h) ==
    /\ posted' \in [Handlers -> Seq(Nat)] /\ \A g \in Handlers : g # h => posted'[g] = posted[g]
    /\ Len(posted'[h]) = Len(posted[h])
    /\ \A n \in 1 .. Len(posted[h]) : n # inv[h].at => posted'[h][n] = posted[h][n]
    /\ posted'[h][inv[h].at] <= posted[h][inv[h].at] + 1

Marked(h, how) ==
    /\ fate' \in [Handlers -> Seq(Fates)] /\ \A g \in Handlers : g # h => fate'[g] = fate[g]
    /\ Len(fate'[h]) = Len(fate[h]) /\ fate'[h][inv[h].at] = how
    /\ \A n \in 1 .. Len(fate[h]) : n # inv[h].at => fate'[h][n] = fate[h][n]

\* A task that sends has a call at hand: of its plan, or of the answer to an error.
LEMMA AtHand ==
    ASSUME DeliveryInv, NEW h \in Handlers, Sending(h)
    PROVE  /\ Busy(h) /\ inv[h] \in Invocation /\ inv[h].at \in Nat \ {0} /\ Len(inv[h].calls) \in Nat
           /\ fate[h] \in Seq(Fates) /\ posted[h] \in Seq(Nat)
           /\ Planned(h) => /\ inv[h].at \in 1 .. Len(inv[h].calls) /\ Current(h) \in Calls
                            /\ Len(fate[h]) = Len(inv[h].calls) /\ Len(posted[h]) = Len(inv[h].calls)
                            /\ posted[h][inv[h].at] \in Nat
           /\ Planned(h) \/ inv[h].phase = "answer"
<1>1. inv[h] \in Invocation /\ fate[h] \in Seq(Fates) /\ posted[h] \in Seq(Nat) /\ Phased(h)
    BY DEF DeliveryInv, DeliveryTyped, Settled
<1>2. inv[h].at \in Nat \ {0} /\ inv[h].calls \in Seq(Calls) /\ Busy(h) /\ (Planned(h) \/ inv[h].phase = "answer")
    BY <1>1 DEF Invocation, Sending, Planned, Busy
<1>3. Planned(h) => /\ inv[h].at \in 1 .. Len(inv[h].calls)
                    /\ Len(fate[h]) = Len(inv[h].calls) /\ Len(posted[h]) = Len(inv[h].calls)
    BY <1>1, <1>2 DEF Phased, Planned
<1>4. Planned(h) => Current(h) \in Calls /\ posted[h][inv[h].at] \in Nat
    BY <1>1, <1>2, <1>3, ElementOfSeq DEF Current
<1> QED
    BY <1>1, <1>2, <1>3, <1>4

\* A planned call that ends has its fate recorded, and no other call has.
LEMMA EndsMarks ==
    ASSUME DeliveryInv, NEW h \in Handlers, Planned(h), NEW how \in Fates, Ends(h, how)
    PROVE  Marked(h, how)
<1>1. /\ fate[h] \in Seq(Fates) /\ inv[h].at \in 1 .. Len(fate[h])
    BY AtHand DEF Planned, Sending
<1> DEFINE g == [fate[h] EXCEPT ![inv[h].at] = how]
<1>2. /\ g \in Seq(Fates) /\ Len(g) = Len(fate[h]) /\ g[inv[h].at] = how
      /\ \A n \in 1 .. Len(fate[h]) : n # inv[h].at => g[n] = fate[h][n]
    BY <1>1, ExceptSeq
<1>3. fate' = [fate EXCEPT ![h] = g]
    BY DEF Ends
<1> HIDE DEF g
<1> QED
    BY <1>2, <1>3 DEF DeliveryInv, DeliveryTyped, Marked

\* A request carries out the call at hand at most once more, and no other call.
LEMMA CarriesOnce ==
    ASSUME DeliveryInv, NEW h \in Handlers, Planned(h), UNCHANGED posted \/ \E n \in {0, 1} : CarriedOut(h, n)
    PROVE  Carried(h)
<1>1. posted[h] \in Seq(Nat) /\ inv[h].at \in 1 .. Len(posted[h]) /\ posted[h][inv[h].at] \in Nat
    BY AtHand DEF Planned, Sending
<1>2. CASE UNCHANGED posted
    BY <1>1, <1>2 DEF DeliveryInv, DeliveryTyped, Carried
<1>3. ASSUME NEW n \in {0, 1}, CarriedOut(h, n) PROVE Carried(h)
    <2> DEFINE p == [posted[h] EXCEPT ![inv[h].at] = posted[h][inv[h].at] + n]
    <2>1. posted' = [posted EXCEPT ![h] = p]
        BY <1>3 DEF CarriedOut
    <2>2. /\ p \in Seq(Nat) /\ Len(p) = Len(posted[h]) /\ p[inv[h].at] = posted[h][inv[h].at] + n
          /\ \A m \in 1 .. Len(posted[h]) : m # inv[h].at => p[m] = posted[h][m]
        BY <1>1, ExceptSeq
    <2> HIDE DEF p
    <2> QED
        BY <1>1, <2>1, <2>2 DEF DeliveryInv, DeliveryTyped, Carried
<1> QED
    BY <1>2, <1>3

\* An answer to an error is sent, or given up.
LEMMA AnswerEnds ==
    ASSUME DeliveryInv, NEW h \in Handlers, Sending(h), ~Planned(h),
           NEW r \in Invocation, inv' = [inv EXCEPT ![h] = r],
           r.phase \in {"answer", "done"}, r.mode = inv[h].mode, r.lock = inv[h].lock, r.from = inv[h].from,
           UNCHANGED <<fate, posted, serial, world, rows>>
    PROVE  DeliveryInv'
<1>1. inv'[h] = r /\ fate'[h] = fate[h] /\ posted'[h] = posted[h] /\ inv[h].phase = "answer" /\ Busy(h)
    BY AtHand DEF DeliveryInv, DeliveryTyped
<1>2. Settled(h) /\ inv[h].mode \in {"failed", "undone"}
    BY <1>1 DEF DeliveryInv, Settled, Phased
<1>3. Settled(h)'
    BY <1>1, <1>2 DEF Settled, Phased, Silent, Ahead, Noted, Counted
<1> QED
    BY <1>1, <1>3, QuietStep

\* A call of a reader ends: its next call, its end, or an error.
LEMMA LiveEnds ==
    ASSUME DeliveryInv, NEW h \in Handlers, inv[h].phase = "live", NEW how \in Fates, Marked(h, how), Carried(h),
           NEW r \in Invocation, inv' = [inv EXCEPT ![h] = r], r.lock = inv[h].lock, r.from = inv[h].from,
           \/ r.phase = "live" /\ r.mode = "read" /\ r.calls = inv[h].calls /\ r.at <= Len(inv[h].calls)
           \/ r.phase = "done" /\ r.mode = "read"
           \/ r.phase \in {"answer", "done"} /\ r.mode = "failed",
           UNCHANGED <<serial, world, tracked>>, left \subseteq left', left' \subseteq Chats
    PROVE  DeliveryInv'
<1>1. /\ inv'[h] = r /\ OnlyOf(h)
    BY DEF DeliveryInv, DeliveryTyped, OnlyOf, Marked, Carried
<1>2. Len(fate[h]) = Len(inv[h].calls) /\ Len(posted[h]) = Len(inv[h].calls)
    BY AtHand DEF Sending, Planned
<1>3. Settled(h)'
    BY <1>1, <1>2 DEF Settled, Phased, Silent, Ahead, Noted, Counted, Marked, Carried
<1> QED
    BY <1>1, <1>3, TaskStep DEF Busy

\* A call of a drain ends: what its loss says is noted, and the drain counts it and goes on.
LEMMA DrainEnds ==
    ASSUME DeliveryInv, NEW h \in Handlers, inv[h].phase = "drain",
           NEW outcome \in {"sent", "failed", "network", "slow"}, NEW how \in Fates \ {"untried"},
           outcome = "network" <=> how = "silent", outcome = "slow" <=> how = "slow",
           Marked(h, how), Carried(h),
           NEW i \in Invocation, i.phase = "drain", i.mode = "written", i.calls = inv[h].calls, i.at = inv[h].at,
           i.lock = inv[h].lock, i.from = inv[h].from, i.network = inv[h].network, i.slow = inv[h].slow,
           inv[h].dead \subseteq i.dead, inv[h].gone \subseteq i.gone,
           how = "lost" => /\ Current(h)[1] = "card" => Current(h)[2] \in i.dead
                           /\ Current(h)[1] = "notify" => Current(h)[2] \in i.gone,
           inv' = [inv EXCEPT ![h] = Drained(i, outcome)],
           UNCHANGED <<serial, world, rows>>
    PROVE  DeliveryInv'
<1> DEFINE r == Drained(i, outcome)
           n == inv[h].at
           f == fate[h]
           g == fate'[h]
<1>1. /\ inv[h] \in Invocation /\ n \in 1 .. Len(inv[h].calls) /\ Len(inv[h].calls) \in Nat
      /\ f \in Seq(Fates) /\ posted[h] \in Seq(Nat)
      /\ Len(f) = Len(inv[h].calls) /\ Len(posted[h]) = Len(inv[h].calls) /\ posted[h][n] \in Nat
      /\ inv[h].mode = "written" /\ Settled(h)
    BY AtHand DEF Sending, Planned, DeliveryInv, Settled, Phased
<1>2. /\ r \in Invocation /\ r.phase \in {"drain", "reconcile"}
      /\ r.from = inv[h].from /\ r.lock = inv[h].lock /\ r.mode = "written" /\ r.calls = inv[h].calls
      /\ r.dead = i.dead /\ r.gone = i.gone
      /\ r.slow = IF outcome = "slow" THEN inv[h].slow + 1 ELSE inv[h].slow
      /\ r.network = IF outcome = "network" THEN inv[h].network + 1 ELSE IF outcome = "slow" THEN inv[h].network ELSE 0
      /\ r.phase = "drain" =>
            /\ n < r.at /\ r.at <= Len(inv[h].calls) /\ r.network < NetworkLimit
            /\ \A m \in n + 1 .. r.at - 1 : Inline(inv[h].calls[m]) /\ r.slow >= InlineLimit
      /\ r.phase = "reconcile" /\ r.network < NetworkLimit =>
            \A m \in n + 1 .. Len(inv[h].calls) : Inline(inv[h].calls[m]) /\ r.slow >= InlineLimit
    <2>1. i.at <= Len(i.calls)
        BY <1>1
    <2>2. LET Skipped(m) == Inline(i.calls[m]) /\ r.slow >= InlineLimit
          IN  /\ r \in Invocation /\ r.phase \in {i.phase, "reconcile"}
              /\ r.from = i.from /\ r.lock = i.lock /\ r.mode = i.mode /\ r.calls = i.calls
              /\ r.dead = i.dead /\ r.gone = i.gone
              /\ r.slow = IF outcome = "slow" THEN i.slow + 1 ELSE i.slow
              /\ r.network = IF outcome = "network" THEN i.network + 1 ELSE IF outcome = "slow" THEN i.network ELSE 0
              /\ r.phase # "reconcile" =>
                   /\ i.at < r.at /\ r.at <= Len(i.calls) /\ r.network < NetworkLimit
                   /\ \A m \in i.at + 1 .. r.at - 1 : Skipped(m)
              /\ r.phase = "reconcile" /\ i.phase # "reconcile" /\ r.network < NetworkLimit =>
                   \A m \in i.at + 1 .. Len(i.calls) : Skipped(m)
        BY <2>1, DrainedInvocation
    <2> HIDE DEF r
    <2> QED
        BY <2>2
<1> HIDE DEF r
<1>3. inv'[h] = r /\ OnlyOf(h) /\ tracked' = tracked /\ left' = left
    BY <1>2 DEF DeliveryInv, DeliveryTyped, OnlyOf, Marked, Carried, rows, r
<1>4. \A m \in n .. Len(f) : f[m] = "untried"
    BY <1>1 DEF Settled, Ahead
<1>5. /\ g \in Seq(Fates) /\ Len(g) = Len(f) /\ g[n] = how /\ \A m \in 1 .. Len(f) : m # n => g[m] = f[m]
      /\ how = "slow" => /\ Heard(g) = Heard(f) /\ Cardinality(Stalled(g)) = Cardinality(Stalled(f)) + 1
      /\ how # "slow" =>
           /\ Stalled(g) = Stalled(f) /\ Heard(g) = Heard(f) \cup {n}
           /\ Cardinality(Heard(g)) = Cardinality(Heard(f)) + 1
           /\ Cardinality(From(Heard(g), n)) = 1
           /\ \A m \in Heard(f) : Cardinality(From(Heard(g), m)) = Cardinality(From(Heard(f), m)) + 1
    <2>1. /\ g \in Seq(Fates) /\ Len(g) = Len(f) /\ g[n] = how /\ \A m \in 1 .. Len(f) : m # n => g[m] = f[m]
        BY DEF Marked
    <2>2. f \in Seq(Fates) /\ n \in 1 .. Len(f)
        BY <1>1
    <2> HIDE DEF f, n, g
    <2> QED
        BY <1>4, <2>1, <2>2, OneMoreTried
<1>6. Phased(h)' /\ Silent(h)'
    BY <1>1, <1>2, <1>3, <1>5 DEF Phased, Silent, Marked, Carried
<1>7. Ahead(h)'
    <2>1. ASSUME NEW m \in 1 .. Len(f), ~Idempotent(inv[h].calls[m]) PROVE posted'[h][m] <= 1
        <3>1. posted[h][m] <= 1 /\ (m = n => posted[h][m] = 0)
            BY <1>1, <2>1 DEF Settled, Ahead
        <3>2. /\ m # n => posted'[h][m] = posted[h][m]
              /\ posted'[h][n] <= posted[h][n] + 1 /\ posted'[h] \in Seq(Nat) /\ Len(posted'[h]) = Len(f)
            BY <1>1, <2>1 DEF Carried
        <3>3. posted'[h][n] \in Nat
            <4> HIDE DEF n, f
            <4> QED
                BY <1>1, <3>2, ElementOfSeq
        <3> QED
            BY <3>1, <3>2, <3>3
    <2>2. r.phase = "drain" => \A m \in r.at .. Len(f) : g[m] = "untried" /\ posted'[h][m] = 0
        <3> SUFFICES ASSUME r.phase = "drain", NEW m \in r.at .. Len(f)
                     PROVE  g[m] = "untried" /\ posted'[h][m] = 0
            OBVIOUS
        <3>1. m \in n .. Len(f) /\ m # n /\ m \in 1 .. Len(f)
            <4>1. r.at \in Nat
                BY <1>2 DEF Invocation
            <4> QED
                BY <1>1, <1>2, <4>1
        <3>2. f[m] = "untried" /\ posted[h][m] = 0
            BY <1>1, <3>1 DEF Settled, Ahead
        <3> QED
            BY <1>1, <1>5, <3>1, <3>2 DEF Carried
    <2> QED
        BY <1>1, <1>2, <1>3, <2>1, <2>2 DEF Ahead
<1>8. Noted(h)'
    <2> SUFFICES ASSUME NEW m \in 1 .. Len(f), g[m] = "lost"
                 PROVE  /\ inv[h].calls[m][1] = "card" => inv[h].calls[m][2] \in i.dead
                        /\ inv[h].calls[m][1] = "notify" => inv[h].calls[m][2] \in i.gone
        BY <1>1, <1>2, <1>3 DEF Noted
    <2>1. CASE m = n
        BY <1>5, <2>1 DEF Current
    <2>2. CASE m # n
        <3>1. f[m] = "lost"
            BY <1>5, <2>2
        <3> QED
            BY <1>1, <3>1 DEF Settled, Noted
    <2> QED
        BY <2>1, <2>2
<1>9. Counted(h)'
    <2>1. /\ inv[h].slow = Cardinality(Stalled(f)) /\ inv[h].network <= Cardinality(Heard(f))
          /\ \A m \in Heard(f) : Cardinality(From(Heard(f), m)) <= inv[h].network => f[m] = "silent"
          /\ inv[h].network < NetworkLimit /\ NetworkLimit \in Nat /\ inv[h].network \in Nat /\ inv[h].slow \in Nat
          /\ \A m \in 1 .. n - 1 : f[m] = "untried" => Inline(inv[h].calls[m]) /\ inv[h].slow >= InlineLimit
        BY <1>1, DeliveryAssumption DEF Settled, Counted, Invocation
    <2>2. /\ Cardinality(Heard(f)) \in Nat /\ Cardinality(Stalled(f)) \in Nat /\ InlineLimit \in Nat
          /\ \A m : Cardinality(From(Heard(f), m)) \in Nat
        BY <1>1, SetsOfCalls, DeliveryAssumption
    <2>9. \A m \in Heard(f) : m \in 1 .. Len(f) /\ m # n
        BY <1>1, <1>4 DEF Heard
    <2>3. r.slow = Cardinality(Stalled(g)) /\ r.network <= Cardinality(Heard(g)) /\ r.network <= NetworkLimit
        BY <1>2, <1>5, <2>1, <2>2
    <2>4. ASSUME NEW m \in Heard(g), Cardinality(From(Heard(g), m)) <= r.network PROVE g[m] = "silent"
        <3>1. CASE how = "slow"
            BY <1>2, <1>5, <2>1, <2>2, <2>4, <2>9, <3>1, SMTT(60)
        <3>2. CASE how = "silent"
            BY <1>2, <1>5, <2>1, <2>2, <2>4, <2>9, <3>2, SMTT(60)
        <3>3. CASE how \notin {"slow", "silent"}
            BY <1>2, <1>5, <2>1, <2>2, <2>4, <2>9, <3>3, SMTT(60)
        <3> QED
            BY <3>1, <3>2, <3>3
    <2>5. \A m \in 1 .. n : g[m] = "untried" => Inline(inv[h].calls[m]) /\ r.slow >= InlineLimit
        <3>1. r.slow >= inv[h].slow
            BY <1>2, <2>1
        <3>2. \A m \in 1 .. n : g[m] = "untried" => m \in 1 .. n - 1 /\ f[m] = "untried"
            BY <1>1, <1>5
        <3> QED
            BY <1>2, <2>1, <2>2, <3>1, <3>2
    <2>6. r.phase = "drain" => \A m \in 1 .. r.at - 1 : g[m] = "untried" => Inline(inv[h].calls[m]) /\ r.slow >= InlineLimit
        BY <1>1, <1>2, <2>5
    <2>7. r.phase = "reconcile" => r.network = NetworkLimit
                \/ \A m \in 1 .. Len(f) : g[m] = "untried" => Inline(inv[h].calls[m]) /\ r.slow >= InlineLimit
        <3> SUFFICES ASSUME r.phase = "reconcile", r.network < NetworkLimit, NEW m \in 1 .. Len(f), g[m] = "untried"
                     PROVE  Inline(inv[h].calls[m]) /\ r.slow >= InlineLimit
            BY <1>2, <2>1, <2>3
        <3>1. m \in 1 .. n \/ m \in n + 1 .. Len(inv[h].calls)
            BY <1>1
        <3> QED
            BY <1>2, <2>5, <3>1
    <2>8. DOMAIN g = 1 .. Len(f)
        BY <1>1, <1>5
    <2> QED
        BY <1>2, <1>3, <2>3, <2>4, <2>6, <2>7, <2>8 DEF Counted
<1> QED
    BY <1>2, <1>3, <1>6, <1>7, <1>8, <1>9, TaskStep DEF Settled, Busy


-----------------------------------------------------------------------------
(* The handler's steps *)

\* Who is past the door, and what the invariant says of them.
LEMMA Typed ==
    ASSUME DeliveryInv, NEW h \in Handlers
    PROVE  /\ inv[h] \in Invocation /\ inv[h].from \in AllSurfaces /\ inv[h].calls \in Seq(Calls)
           /\ Len(inv[h].calls) \in Nat /\ fate[h] \in Seq(Fates) /\ posted[h] \in Seq(Nat) /\ Settled(h)
BY DEF DeliveryInv, DeliveryTyped, Invocation

\* What has failed is over but for its answer; so is a write undone that had sent nothing.
LEMMA GivenUp ==
    ASSUME DeliveryInv, NEW h \in Handlers, Busy(h), NEW r \in Invocation, inv' = [inv EXCEPT ![h] = r],
           r.phase \in {"answer", "done"}, r.lock = inv[h].lock, r.from = inv[h].from,
           r.mode = "failed" \/ (r.mode = "undone" /\ inv[h].mode = "write"),
           UNCHANGED <<fate, posted, serial, world, rows>>
    PROVE  DeliveryInv'
<1>1. inv'[h] = r /\ fate'[h] = fate[h] /\ posted'[h] = posted[h] /\ Settled(h)
    BY DEF DeliveryInv, DeliveryTyped
<1>2. Settled(h)'
    BY <1>1 DEF Settled, Phased, Silent, Ahead, Noted, Counted
<1> QED
    BY <1>1, <1>2, QuietStep

\* A button that is not for this place: an alert, or another screen.
LEMMA AnsweredWithStep ==
    ASSUME DeliveryInv, NEW h \in Handlers, NEW calls \in Seq(Calls), AnsweredWith(h, calls)
    PROVE  DeliveryInv'
<1> DEFINE r == [inv[h] EXCEPT !.phase = "answer", !.mode = "failed", !.calls = calls]
<1>1. inv[h] \in Invocation /\ inv[h].phase = "entered" /\ "answer" \in Phases
    BY Typed DEF AnsweredWith, Phases
<1>2. r \in Invocation
    BY <1>1, Zenon DEF Invocation
<1>3. /\ r.phase = "answer" /\ r.mode = "failed" /\ r.lock = inv[h].lock /\ r.from = inv[h].from
    BY <1>1 DEF Invocation
<1>4. inv' = [inv EXCEPT ![h] = r]
    BY <1>1 DEF AnsweredWith, DeliveryInv, DeliveryTyped, Invocation
<1> HIDE DEF r
<1> QED
    BY <1>1, <1>2, <1>3, <1>4, GivenUp DEF AnsweredWith, Busy

\* An update that no handler takes.
LEMMA DroppedStep ==
    ASSUME DeliveryInv, NEW h \in Handlers, Dropped(h)
    PROVE  DeliveryInv'
<1> DEFINE r == [inv[h] EXCEPT !.phase = "done", !.mode = "failed"]
<1>1. inv[h] \in Invocation /\ inv[h].phase = "entered" /\ "done" \in Phases
    BY Typed DEF Dropped, Phases
<1>2. r \in Invocation
    BY <1>1, Zenon DEF Invocation
<1>3. /\ r.phase = "done" /\ r.mode = "failed" /\ r.lock = inv[h].lock /\ r.from = inv[h].from
    BY <1>1 DEF Invocation
<1>4. inv' = [inv EXCEPT ![h] = r]
    BY <1>1 DEF Dropped, DeliveryInv, DeliveryTyped, Invocation
<1> HIDE DEF r
<1> QED
    BY <1>1, <1>2, <1>3, <1>4, GivenUp DEF Dropped, Busy

\* An exception in the body of a write, or in its reconcile.
LEMMA RaisedStep ==
    ASSUME DeliveryInv, NEW h \in Handlers, inv[h].phase \in {"body", "reconcile"}, NEW error,
           inv' = [inv EXCEPT ![h] = Raised(inv[h], error)],
           UNCHANGED <<fate, posted, serial, world, rows>>
    PROVE  DeliveryInv'
<1> DEFINE r == Raised(inv[h], error)
<1>1. inv[h] \in Invocation /\ Busy(h)
    BY Typed DEF Busy
<1>2. /\ r \in Invocation /\ r.phase \in {"answer", "done"} /\ r.from = inv[h].from /\ r.lock = inv[h].lock
      /\ r.mode = IF inv[h].mode = "write" THEN "undone" ELSE "failed"
    BY <1>1, RaisedInvocation
<1> HIDE DEF r
<1>3. inv' = [inv EXCEPT ![h] = r]
    BY DEF r
<1> QED
    BY <1>1, <1>2, <1>3, GivenUp

\* A handler begins: a write captures its calls, a reader sends them as it goes.
LEMMA RunStep ==
    ASSUME DeliveryInv, NEW h \in Handlers, NEW mode \in {"write", "read"}, NEW plan \in Plans, Run(h, mode, plan)
    PROVE  DeliveryInv'
<1> DEFINE phase == IF mode = "write" THEN "body" ELSE IF plan = <<>> THEN "done" ELSE "live"
           r == [inv[h] EXCEPT !.phase = phase, !.mode = mode, !.calls = plan]
           f == [n \in 1 .. Len(plan) |-> "untried"]
           p == [n \in 1 .. Len(plan) |-> 0]
<1>1. inv[h] \in Invocation /\ inv[h].phase = "entered" /\ phase \in Phases /\ plan \in Seq(Calls) /\ Settled(h)
    BY Typed, DeliveryAssumption DEF Run, Phases
<1>2. Len(plan) \in Nat /\ (plan # <<>> => 1 <= Len(plan))
    BY <1>1
<1>3. r \in Invocation
    BY <1>1, Zenon DEF Invocation
<1>4. /\ r.phase = phase /\ r.mode = mode /\ r.calls = plan /\ r.lock = inv[h].lock /\ r.from = inv[h].from
      /\ r.at = inv[h].at /\ r.network = inv[h].network /\ r.slow = inv[h].slow
      /\ r.dead = inv[h].dead /\ r.gone = inv[h].gone
    BY <1>1 DEF Invocation
<1>5. inv' = [inv EXCEPT ![h] = r] /\ fate' = [fate EXCEPT ![h] = f] /\ posted' = [posted EXCEPT ![h] = p]
    BY <1>1 DEF Run, DeliveryInv, DeliveryTyped, Invocation
<1>6. /\ f \in Seq(Fates) /\ p \in Seq(Nat) /\ Len(f) = Len(plan) /\ Len(p) = Len(plan)
      /\ DOMAIN f = 1 .. Len(plan) /\ DOMAIN p = 1 .. Len(plan)
      /\ \A n \in 1 .. Len(plan) : f[n] = "untried" /\ p[n] = 0
    BY <1>2 DEF Fates
<1> HIDE DEF r, f, p
<1>7. inv'[h] = r /\ fate'[h] = f /\ posted'[h] = p /\ OnlyOf(h)
    <2>1. /\ inv \in [Handlers -> Invocation] /\ fate \in [Handlers -> Seq(Fates)] /\ posted \in [Handlers -> Seq(Nat)]
          /\ UNCHANGED <<rows, world>> /\ left \subseteq Chats
        BY DEF Run, DeliveryInv, DeliveryTyped
    <2>2. inv'[h] = r /\ fate'[h] = f /\ posted'[h] = p
        BY <1>5, <2>1
    <2>3. /\ inv' \in [Handlers -> Invocation] /\ fate' \in [Handlers -> Seq(Fates)] /\ posted' \in [Handlers -> Seq(Nat)]
          /\ \A g \in Handlers : g # h => inv'[g] = inv[g] /\ fate'[g] = fate[g] /\ posted'[g] = posted[g]
        BY <1>3, <1>5, <1>6, <2>1, Zenon
    <2>4. OnlyOf(h)
        BY <2>1, <2>3 DEF OnlyOf, rows
    <2> QED
        BY <2>2, <2>4
<1>8. r.phase \in {"body", "done", "live"} /\ r.mode # "written" /\ (r.phase = "live" => r.mode = "read" /\ plan # <<>>)
      /\ (r.phase = "body" => r.mode = "write") /\ r.mode \in {"read", "write"}
    BY <1>4
<1>9. /\ inv[h].at = 1 /\ inv[h].network = 0 /\ inv[h].slow = 0 /\ inv[h].dead = {} /\ inv[h].gone = {}
    BY <1>1 DEF Settled, Phased
<1>10. Phased(h)'
    BY <1>2, <1>4, <1>6, <1>7, <1>8, <1>9 DEF Phased
<1>11. Silent(h)' /\ Ahead(h)' /\ Noted(h)' /\ Counted(h)'
    BY <1>6, <1>7, <1>8 DEF Silent, Ahead, Noted, Counted
<1> HIDE DEF phase
<1> QED
    BY <1>1, <1>4, <1>7, <1>8, <1>10, <1>11, TaskStep DEF Run, Settled, Busy

\* The drain of a write starts from calls none of which has been tried.
LEMMA CommitStep ==
    ASSUME DeliveryInv, NEW h \in Handlers, Commit(h)
    PROVE  DeliveryInv'
<1> DEFINE phase == IF inv[h].calls = <<>> THEN "reconcile" ELSE "drain"
           r == [inv[h] EXCEPT !.phase = phase, !.mode = "written"]
<1>1. inv[h] \in Invocation /\ inv[h].phase = "body" /\ phase \in Phases /\ Settled(h)
    BY Typed DEF Commit, Phases
<1>2. /\ inv[h].mode = "write" /\ inv[h].at = 1 /\ inv[h].network = 0 /\ inv[h].slow = 0
      /\ Len(fate[h]) = Len(inv[h].calls) /\ Len(posted[h]) = Len(inv[h].calls)
      /\ Len(inv[h].calls) \in Nat /\ (inv[h].calls # <<>> => 1 <= Len(inv[h].calls))
      /\ DOMAIN fate[h] = 1 .. Len(inv[h].calls)
    BY <1>1, Typed DEF Settled, Phased
<1>3. \A n \in 1 .. Len(inv[h].calls) : fate[h][n] = "untried" /\ posted[h][n] = 0
    BY <1>1, <1>2 DEF Settled, Silent
<1>4. r \in Invocation
    BY <1>1, Zenon DEF Invocation
<1>5. /\ r.phase = phase /\ r.mode = "written" /\ r.calls = inv[h].calls
      /\ r.lock = inv[h].lock /\ r.from = inv[h].from
      /\ r.at = inv[h].at /\ r.network = inv[h].network /\ r.slow = inv[h].slow
    BY <1>1 DEF Invocation
<1>6. inv' = [inv EXCEPT ![h] = r]
    BY <1>1 DEF Commit, DeliveryInv, DeliveryTyped, Invocation
<1> HIDE DEF r
<1>7. inv'[h] = r /\ fate'[h] = fate[h] /\ posted'[h] = posted[h]
    BY <1>6 DEF Commit, DeliveryInv, DeliveryTyped
<1>8. Phased(h)' /\ Silent(h)' /\ Ahead(h)' /\ Noted(h)'
    BY <1>2, <1>3, <1>5, <1>7 DEF Phased, Silent, Ahead, Noted
<1>9. Counted(h)'
    <2>1. Heard(fate[h]) = {} /\ Stalled(fate[h]) = {} /\ Cardinality({}) = 0
        BY <1>2, <1>3, FS_EmptySet DEF Heard, Stalled
    <2>2. NetworkLimit \in Nat \ {0}
        BY DeliveryAssumption
    <2> QED
        BY <1>2, <1>3, <1>5, <1>7, <2>1, <2>2 DEF Counted
<1> QED
    BY <1>1, <1>4, <1>5, <1>6, <1>8, <1>9, QuietStep DEF Commit, Settled, Busy

\* What the drain noted is recorded.
LEMMA ReconcileStep ==
    ASSUME DeliveryInv, NEW h \in Handlers, Reconcile(h)
    PROVE  DeliveryInv'
<1> DEFINE r == [inv[h] EXCEPT !.phase = "done"]
<1>1. inv[h] \in Invocation /\ inv[h].phase = "reconcile" /\ "done" \in Phases /\ Settled(h)
    BY Typed DEF Reconcile, Phases
<1>2. r \in Invocation
    BY <1>1, Zenon DEF Invocation
<1>3. /\ r.phase = "done" /\ r.mode = inv[h].mode /\ r.calls = inv[h].calls
      /\ r.lock = inv[h].lock /\ r.from = inv[h].from
      /\ r.at = inv[h].at /\ r.network = inv[h].network /\ r.slow = inv[h].slow
      /\ r.dead = inv[h].dead /\ r.gone = inv[h].gone
    BY <1>1 DEF Invocation
<1>4. inv' = [inv EXCEPT ![h] = r] /\ tracked' = tracked \ inv[h].dead /\ left' = left \cup inv[h].gone
    BY <1>1 DEF Reconcile, Recorded
<1>5. inv[h].gone \subseteq Chats
    BY <1>1 DEF Invocation
<1> HIDE DEF r
<1>6. inv'[h] = r /\ fate'[h] = fate[h] /\ posted'[h] = posted[h] /\ OnlyOf(h)
    BY <1>2, <1>4, <1>5 DEF Reconcile, DeliveryInv, DeliveryTyped, OnlyOf
<1>7. Phased(h)' /\ Silent(h)' /\ Ahead(h)' /\ Counted(h)'
    BY <1>1, <1>3, <1>6 DEF Settled, Phased, Silent, Ahead, Counted
<1>8. Noted(h)'
    BY <1>1, <1>3, <1>4, <1>6 DEF Settled, Noted
<1> QED
    BY <1>1, <1>3, <1>6, <1>7, <1>8, TaskStep DEF Reconcile, Settled, Busy

-----------------------------------------------------------------------------
(* Requests *)

\* The call at hand is sent (again), or waits for its turn.
LEMMA StillAtHand ==
    ASSUME DeliveryInv, NEW h \in Handlers, Sending(h),
           NEW r \in Invocation, inv' = [inv EXCEPT ![h] = r],
           r.at = inv[h].at, r.phase = inv[h].phase, r.from = inv[h].from, r.lock = inv[h].lock,
           r.mode = inv[h].mode, r.calls = inv[h].calls, r.network = inv[h].network, r.slow = inv[h].slow,
           r.dead = inv[h].dead, r.gone = inv[h].gone,
           UNCHANGED posted \/ (inv[h].phase = "drain" /\ Idempotent(Current(h)) /\ Carried(h)),
           UNCHANGED <<fate, serial, world, rows>>
    PROVE  DeliveryInv'
<1>1. inv'[h] = r /\ fate'[h] = fate[h] /\ OnlyOf(h)
    BY DEF DeliveryInv, DeliveryTyped, OnlyOf, rows, Carried
<1>2. inv[h] \in Invocation /\ Settled(h) /\ Busy(h) /\ Len(inv[h].calls) \in Nat
    BY AtHand, Typed
<1>3. tracked' = tracked /\ left' = left
    BY DEF rows
<1>4. CASE UNCHANGED posted
    <2>1. Phased(h)'
        BY <1>1, <1>2, <1>4 DEF Settled, Phased
    <2>2. Silent(h)' /\ Ahead(h)'
        BY <1>1, <1>2, <1>4 DEF Settled, Silent, Ahead
    <2>3. Noted(h)' /\ Counted(h)'
        BY <1>1, <1>2, <1>3, <1>4 DEF Settled, Noted, Counted
    <2> QED
        BY <1>1, <1>2, <2>1, <2>2, <2>3, TaskStep DEF Settled, Busy
<1>5. CASE inv[h].phase = "drain" /\ Idempotent(Current(h)) /\ Carried(h)
    <2>1. /\ inv[h].mode = "written" /\ Len(posted[h]) = Len(inv[h].calls)
          /\ Len(posted'[h]) = Len(posted[h])
          /\ \A n \in 1 .. Len(inv[h].calls) : n # inv[h].at => posted'[h][n] = posted[h][n]
          /\ inv[h].at \in Nat \ {0}
        BY <1>2, <1>5, AtHand DEF Settled, Phased, Carried
    <2>2. Phased(h)' /\ Silent(h)'
        BY <1>1, <1>2, <2>1 DEF Settled, Phased, Silent
    <2>3. Noted(h)' /\ Counted(h)'
        BY <1>1, <1>2, <1>3, <2>1 DEF Settled, Noted, Counted
    <2>4. Ahead(h)'
        BY <1>1, <1>2, <1>5, <2>1 DEF Settled, Ahead, Current
    <2> QED
        BY <1>1, <1>2, <2>2, <2>3, <2>4, TaskStep DEF Settled, Busy
<1> QED
    BY <1>4, <1>5

\* A call gets past the pauses, and past its bucket.
LEMMA ClearStep ==
    ASSUME DeliveryInv, NEW h \in Handlers, Clear(h) \/ Fire(h)
    PROVE  DeliveryInv'
<1>1. PICK stage \in {"bucket", "wire"} : inv' = [inv EXCEPT ![h].stage = stage]
    BY DEF Clear, Fire
<1> DEFINE r == [inv[h] EXCEPT !.stage = stage]
<1>2. inv[h] \in Invocation /\ Sending(h) /\ stage \in {"wait", "bucket", "wire"}
    BY Typed DEF Clear, Fire
<1>3. r \in Invocation
    BY <1>2, Zenon DEF Invocation
<1>4. /\ r.at = inv[h].at /\ r.phase = inv[h].phase /\ r.from = inv[h].from /\ r.lock = inv[h].lock
      /\ r.mode = inv[h].mode /\ r.calls = inv[h].calls /\ r.network = inv[h].network /\ r.slow = inv[h].slow
      /\ r.dead = inv[h].dead /\ r.gone = inv[h].gone
    BY <1>2 DEF Invocation
<1>5. inv' = [inv EXCEPT ![h] = r]
    BY <1>1, <1>2 DEF DeliveryInv, DeliveryTyped
<1> HIDE DEF r
<1> QED
    BY <1>2, <1>3, <1>4, <1>5, StillAtHand DEF Clear, Fire

\* A call is sent again.
LEMMA AgainStep ==
    ASSUME DeliveryInv, NEW h \in Handlers, Sending(h),
           NEW tries \in Nat \ {0}, NEW plain \in BOOLEAN, NEW throttles \in Nat,
           inv' = [inv EXCEPT ![h] = [inv[h] EXCEPT !.stage = "wait", !.tries = tries, !.plain = plain,
                                                    !.throttles = throttles]],
           UNCHANGED posted \/ (inv[h].phase = "drain" /\ Idempotent(Current(h)) /\ Carried(h)),
           UNCHANGED <<fate, serial, world, rows>>
    PROVE  DeliveryInv'
<1> DEFINE r == [inv[h] EXCEPT !.stage = "wait", !.tries = tries, !.plain = plain, !.throttles = throttles]
<1>1. inv[h] \in Invocation
    BY Typed
<1>2. /\ r \in Invocation /\ r.at = inv[h].at /\ r.phase = inv[h].phase /\ r.from = inv[h].from /\ r.lock = inv[h].lock
      /\ r.mode = inv[h].mode /\ r.calls = inv[h].calls /\ r.network = inv[h].network /\ r.slow = inv[h].slow
      /\ r.dead = inv[h].dead /\ r.gone = inv[h].gone
    <2>1. r \in Invocation
        BY <1>1, Zenon DEF Invocation
    <2>2. /\ r.at = inv[h].at /\ r.phase = inv[h].phase /\ r.from = inv[h].from /\ r.lock = inv[h].lock
          /\ r.mode = inv[h].mode /\ r.calls = inv[h].calls /\ r.network = inv[h].network /\ r.slow = inv[h].slow
          /\ r.dead = inv[h].dead /\ r.gone = inv[h].gone
        BY <1>1 DEF Invocation
    <2> QED
        BY <2>1, <2>2
<1> HIDE DEF r
<1>3. inv' = [inv EXCEPT ![h] = r]
    BY DEF r
<1> QED
    BY <1>2, <1>3, StillAtHand

\* A call is through, and what its loss says is noted.
LEMMA ThroughEnds ==
    ASSUME DeliveryInv, NEW h \in Handlers, Sending(h), NEW how \in {"answered", "lost"}, Ends(h, how),
           UNCHANGED posted \/ \E n \in {0, 1} : CarriedOut(h, n),
           NEW i \in Invocation, i.phase = inv[h].phase, i.mode = inv[h].mode, i.calls = inv[h].calls, i.at = inv[h].at,
           i.lock = inv[h].lock, i.from = inv[h].from, i.network = inv[h].network, i.slow = inv[h].slow,
           inv[h].dead \subseteq i.dead, inv[h].gone \subseteq i.gone,
           inv[h].phase = "drain" /\ how = "lost" => /\ Current(h)[1] = "card" => Current(h)[2] \in i.dead
                                                     /\ Current(h)[1] = "notify" => Current(h)[2] \in i.gone,
           inv' = [inv EXCEPT ![h] = Through(i)],
           UNCHANGED <<serial, world, rows>>
    PROVE  DeliveryInv'
<1>1. how \in Fates \ {"untried"} /\ how \notin {"silent", "slow"} /\ i.at \in Nat \ {0} /\ Len(i.calls) \in Nat
    BY AtHand DEF Fates
<1>2. CASE inv[h].phase = "drain"
    <2>1. Planned(h) /\ Marked(h, how) /\ Carried(h)
        BY <1>1, <1>2, EndsMarks, CarriesOnce DEF Planned
    <2>2. inv' = [inv EXCEPT ![h] = Drained(i, "sent")] /\ inv[h].mode = "written"
        BY <1>2, Typed DEF Through, Settled, Phased
    <2> QED
        BY <1>1, <1>2, <2>1, <2>2, DrainEnds
<1>3. CASE inv[h].phase # "drain"
    <2> DEFINE r == Onto(i, i.at + 1, "done")
    <2>1. /\ r \in Invocation /\ r.at = i.at + 1 /\ r.phase = IF i.at + 1 > Len(i.calls) THEN "done" ELSE i.phase
          /\ r.from = i.from /\ r.lock = i.lock /\ r.mode = i.mode /\ r.calls = i.calls
        <3>1. i.at + 1 \in Nat \ {0} /\ "done" \in {"reconcile", "done"}
            BY <1>1
        <3> QED
            BY <3>1, OntoInvocation
    <2>2. inv' = [inv EXCEPT ![h] = r]
        BY <1>3 DEF Through
    <2> HIDE DEF r
    <2>3. CASE inv[h].phase = "live"
        <3>1. Planned(h) /\ Marked(h, how) /\ Carried(h)
            BY <1>1, <2>3, EndsMarks, CarriesOnce DEF Planned
        <3>2. inv[h].mode = "read" /\ left \subseteq Chats
            BY <2>3, Typed DEF Settled, Phased, DeliveryInv, DeliveryTyped
        <3>3. /\ \/ r.phase = "live" /\ r.mode = "read" /\ r.calls = inv[h].calls /\ r.at <= Len(inv[h].calls)
                 \/ r.phase = "done" /\ r.mode = "read"
                 \/ r.phase \in {"answer", "done"} /\ r.mode = "failed"
              /\ r.lock = inv[h].lock /\ r.from = inv[h].from
            BY <1>1, <2>1, <2>3, <3>2
        <3>4. UNCHANGED <<serial, world, tracked>> /\ left \subseteq left' /\ left' \subseteq Chats
            BY <3>2 DEF rows
        <3>5. r \in Invocation /\ how \in Fates
            BY <1>1, <2>1
        <3> QED
            BY <2>2, <2>3, <3>1, <3>3, <3>4, <3>5, LiveEnds
    <2>4. CASE inv[h].phase = "answer"
        <3>1. ~Planned(h) /\ UNCHANGED <<fate, posted>>
            BY <2>4 DEF Planned, Ends, CarriedOut
        <3>2. r \in Invocation /\ r.phase \in {"answer", "done"}
            BY <2>1, <2>4
        <3>3. r.mode = inv[h].mode /\ r.lock = inv[h].lock /\ r.from = inv[h].from
            BY <2>1
        <3>4. UNCHANGED <<fate, posted, serial, world, rows>>
            BY <3>1
        <3> QED
            BY <2>2, <3>1, <3>2, <3>3, <3>4, AnswerEnds
    <2> QED
        BY <1>3, <2>3, <2>4 DEF Sending
<1> QED
    BY <1>2, <1>3

\* A call fails: the drain gets over it, a reader does not, and an answer to an error is best-effort.
LEMMA FailedEnds ==
    ASSUME DeliveryInv, NEW h \in Handlers, Sending(h), NEW how \in {"answered", "lost", "silent", "slow"}, Ends(h, how),
           UNCHANGED posted \/ \E n \in {0, 1} : CarriedOut(h, n),
           NEW outcome \in {"failed", "network", "slow"}, outcome = "network" <=> how = "silent",
           outcome = "slow" <=> how = "slow",
           inv[h].phase = "drain" /\ how = "lost" => Current(h)[1] \notin {"card", "notify"},
           NEW error, inv' = [inv EXCEPT ![h] = Failed(inv[h], outcome, error)],
           UNCHANGED <<serial, world, tracked>>,
           left \subseteq left', left' \subseteq Chats, inv[h].phase # "live" => UNCHANGED left
    PROVE  DeliveryInv'
<1>1. how \in Fates \ {"untried"} /\ inv[h] \in Invocation
    BY Typed DEF Fates
<1>2. CASE inv[h].phase = "drain"
    <2>1. Planned(h) /\ Marked(h, how) /\ Carried(h)
        BY <1>1, <1>2, EndsMarks, CarriesOnce DEF Planned
    <2>2. inv' = [inv EXCEPT ![h] = Drained(inv[h], outcome)] /\ inv[h].mode = "written"
        BY <1>2, Typed DEF Failed, Settled, Phased
    <2>3. PICK i \in Invocation : i = inv[h]
        BY <1>1
    <2>4. /\ i.phase = "drain" /\ i.mode = "written" /\ i.calls = inv[h].calls /\ i.at = inv[h].at
          /\ i.lock = inv[h].lock /\ i.from = inv[h].from /\ i.network = inv[h].network /\ i.slow = inv[h].slow
          /\ inv[h].dead \subseteq i.dead /\ inv[h].gone \subseteq i.gone
          /\ how = "lost" => /\ Current(h)[1] = "card" => Current(h)[2] \in i.dead
                             /\ Current(h)[1] = "notify" => Current(h)[2] \in i.gone
          /\ inv' = [inv EXCEPT ![h] = Drained(i, outcome)]
        BY <1>2, <2>2, <2>3
    <2>5. UNCHANGED <<serial, world, rows>>
        BY <1>2 DEF rows
    <2>6. CASE outcome = "failed"
        BY <1>1, <1>2, <2>1, <2>4, <2>5, <2>6, DrainEnds
    <2>7. CASE outcome = "network"
        BY <1>1, <1>2, <2>1, <2>4, <2>5, <2>7, DrainEnds
    <2>8. CASE outcome = "slow"
        BY <1>1, <1>2, <2>1, <2>4, <2>5, <2>8, DrainEnds
    <2> QED
        BY <2>6, <2>7, <2>8
<1>3. CASE inv[h].phase = "live"
    <2> DEFINE r == Raised(inv[h], error)
    <2>1. /\ r \in Invocation /\ r.phase \in {"answer", "done"} /\ r.from = inv[h].from /\ r.lock = inv[h].lock
          /\ r.mode = IF inv[h].mode = "write" THEN "undone" ELSE "failed"
        BY <1>1, RaisedInvocation
    <2>2. inv' = [inv EXCEPT ![h] = r] /\ inv[h].mode = "read"
        BY <1>3, Typed DEF Failed, Settled, Phased
    <2> HIDE DEF r
    <2>3. Planned(h) /\ Marked(h, how) /\ Carried(h)
        BY <1>1, <1>3, EndsMarks, CarriesOnce DEF Planned
    <2> QED
        BY <1>1, <1>3, <2>1, <2>2, <2>3, LiveEnds
<1>4. CASE inv[h].phase = "answer"
    <2> DEFINE r == [inv[h] EXCEPT !.phase = "done"]
    <2>1. r \in Invocation
        BY <1>1, "done" \in Phases, Zenon DEF Invocation, Phases
    <2>2. /\ r.phase = "done" /\ r.mode = inv[h].mode /\ r.lock = inv[h].lock /\ r.from = inv[h].from
        BY <1>1 DEF Invocation
    <2>3. inv' = [inv EXCEPT ![h] = r]
        BY <1>4 DEF Failed
    <2>4. ~Planned(h) /\ UNCHANGED <<fate, posted>>
        BY <1>4 DEF Planned, Ends, CarriedOut
    <2> HIDE DEF r
    <2> QED
        BY <1>4, <2>1, <2>2, <2>3, <2>4, AnswerEnds DEF rows
<1> QED
    BY <1>2, <1>3, <1>4 DEF Sending

-----------------------------------------------------------------------------
(* What Telegram answers *)

\* A call is carried out and said to be.
LEMMA AcceptedStep ==
    ASSUME DeliveryInv, NEW h \in Handlers, Accepted(h)
    PROVE  DeliveryInv'
<1>1. PICK i \in Invocation : i = inv[h]
    BY Typed
<1>2. /\ Sending(h) /\ Ends(h, "answered") /\ CarriedOut(h, 1) /\ inv' = [inv EXCEPT ![h] = Through(i)]
      /\ UNCHANGED <<serial, world, rows>>
    BY <1>1 DEF Accepted, Flying
<1>3. /\ i.phase = inv[h].phase /\ i.mode = inv[h].mode /\ i.calls = inv[h].calls /\ i.at = inv[h].at
      /\ i.lock = inv[h].lock /\ i.from = inv[h].from /\ i.network = inv[h].network /\ i.slow = inv[h].slow
      /\ inv[h].dead \subseteq i.dead /\ inv[h].gone \subseteq i.gone
    BY <1>1
<1>4. \E n \in {0, 1} : CarriedOut(h, n)
    BY <1>2
<1> QED
    BY <1>2, <1>3, <1>4, ThroughEnds

\* A card that is gone is noted by a drain, like a user who is.
LEMMA UnreachableStep ==
    ASSUME DeliveryInv, NEW h \in Handlers, Unreachable(h)
    PROVE  DeliveryInv'
<1> DEFINE call == Current(h)
<1>1. /\ Sending(h) /\ Ends(h, "lost") /\ UNCHANGED <<posted, serial, world, tracked>>
      /\ inv[h] \in Invocation /\ inv[h].dead \subseteq Chats /\ inv[h].gone \subseteq Chats
      /\ blocked \subseteq Chats /\ left \subseteq Chats
    BY Typed DEF Unreachable, Flying, DeliveryInv, DeliveryTyped, Invocation
<1>2. call[2] \in blocked \/ (call[1] = "card" /\ call[2] \in lostCards)
    BY DEF Unreachable
<1>3. Planned(h) => call \in Calls
    BY <1>1, AtHand
<1>4. CASE call[1] = "card"
    <2> DEFINE dead == IF inv[h].phase = "drain" THEN inv[h].dead \cup {call[2]} ELSE inv[h].dead
    <2>1. inv' = [inv EXCEPT ![h] = Through([inv[h] EXCEPT !.dead = dead])] /\ UNCHANGED left
        BY <1>4 DEF Unreachable
    <2>2. dead \in SUBSET Chats
        <3>1. inv[h].phase = "drain" => call[2] \in Chats
            BY <1>3, <1>4 DEF Planned, Calls, Screens, Cards, Replies, Notices, Removals, Answers
        <3> QED
            BY <1>1, <3>1
    <2> DEFINE j == [inv[h] EXCEPT !.dead = dead]
    <2>3. j \in Invocation
        BY <1>1, <2>2, Zenon DEF Invocation
    <2>4. /\ j.phase = inv[h].phase /\ j.mode = inv[h].mode /\ j.calls = inv[h].calls /\ j.at = inv[h].at
          /\ j.lock = inv[h].lock /\ j.from = inv[h].from /\ j.network = inv[h].network /\ j.slow = inv[h].slow
          /\ inv[h].dead \subseteq j.dead /\ inv[h].gone \subseteq j.gone
          /\ inv[h].phase = "drain" => call[2] \in j.dead
        BY <1>1 DEF Invocation
    <2> HIDE DEF j, dead
    <2>5. inv' = [inv EXCEPT ![h] = Through(j)]
        BY <2>1 DEF j
    <2>6. UNCHANGED <<serial, world, rows>>
        BY <1>1, <2>1 DEF rows
    <2> QED
        BY <1>1, <1>4, <2>3, <2>4, <2>5, <2>6, ThroughEnds
<1>5. CASE call[1] = "notify" /\ inv[h].phase = "drain"
    <2> DEFINE gone == inv[h].gone \cup {call[2]}
    <2>1. inv' = [inv EXCEPT ![h] = Drained([inv[h] EXCEPT !.gone = gone], "sent")] /\ UNCHANGED left
        BY <1>5 DEF Unreachable
    <2>2. gone \in SUBSET Chats
        BY <1>1, <1>2, <1>5
    <2> DEFINE j == [inv[h] EXCEPT !.gone = gone]
    <2>3. j \in Invocation
        BY <1>1, <2>2, Zenon DEF Invocation
    <2>4. /\ j.phase = inv[h].phase /\ j.mode = inv[h].mode /\ j.calls = inv[h].calls /\ j.at = inv[h].at
          /\ j.lock = inv[h].lock /\ j.from = inv[h].from /\ j.network = inv[h].network /\ j.slow = inv[h].slow
          /\ inv[h].dead \subseteq j.dead /\ inv[h].gone \subseteq j.gone
          /\ call[2] \in j.gone
        BY <1>1 DEF Invocation
    <2> HIDE DEF j, gone
    <2>5. inv' = [inv EXCEPT ![h] = Through(j)]
        BY <1>5, <2>1, <2>4 DEF j, Through
    <2>6. UNCHANGED <<serial, world, rows>>
        BY <1>1, <2>1 DEF rows
    <2> QED
        BY <1>1, <1>5, <2>3, <2>4, <2>5, <2>6, ThroughEnds
<1>6. CASE call[1] # "card" /\ ~(call[1] = "notify" /\ inv[h].phase = "drain")
    <2>1. PICK error : inv' = [inv EXCEPT ![h] = Failed(inv[h], "failed", error)]
        BY <1>6 DEF Unreachable
    <2>2. left' = IF inv[h].phase = "live" THEN left \cup {call[2]} ELSE left
        BY <1>6 DEF Unreachable
    <2>3. left \subseteq left' /\ left' \subseteq Chats /\ (inv[h].phase # "live" => UNCHANGED left)
        BY <1>1, <1>2, <1>6, <2>2
    <2> QED
        BY <1>1, <1>6, <2>1, <2>3, FailedEnds
<1> QED
    BY <1>4, <1>5, <1>6

\* A call is refused for good.
LEMMA RefusedStep ==
    ASSUME DeliveryInv, NEW h \in Handlers, Refused(h)
    PROVE  DeliveryInv'
<1>1. /\ Sending(h) /\ Ends(h, "answered") /\ inv' = [inv EXCEPT ![h] = Failed(inv[h], "failed", "fault")]
      /\ UNCHANGED <<posted, serial, world, tracked, left>> /\ left \subseteq left' /\ left' \subseteq Chats
    BY DEF Refused, Flying, rows, DeliveryInv, DeliveryTyped
<1> QED
    BY <1>1, FailedEnds

\* A call refused for its emoji goes again without them.
LEMMA RefusedEmojiStep ==
    ASSUME DeliveryInv, NEW h \in Handlers, RefusedEmoji(h)
    PROVE  DeliveryInv'
<1> DEFINE tries == inv[h].tries
<1>1. inv[h] \in Invocation /\ tries \in Nat \ {0} /\ Sending(h)
    BY Typed DEF Invocation, RefusedEmoji, Flying
<1>2. inv' = [inv EXCEPT ![h] = [inv[h] EXCEPT !.stage = "wait", !.tries = tries, !.plain = TRUE, !.throttles = 0]]
    BY <1>1 DEF RefusedEmoji, DeliveryInv, DeliveryTyped, Invocation
<1>3. UNCHANGED <<fate, posted, serial, world, rows>>
    BY DEF RefusedEmoji
<1> HIDE DEF tries
<1> QED
    BY <1>1, <1>2, <1>3, AgainStep

\* Throttled too often, a call fails like one that is refused.
LEMMA TooManyStep ==
    ASSUME DeliveryInv, NEW h \in Handlers, TooMany(h)
    PROVE  DeliveryInv'
<1>1. /\ inv[h] \in Invocation /\ Sending(h) /\ inv[h].throttles \in Nat /\ left \subseteq Chats
      /\ inv[h].tries \in Nat \ {0} /\ inv[h].plain \in BOOLEAN
    BY Typed DEF Invocation, TooMany, Flying, DeliveryInv, DeliveryTyped
<1>2. CASE inv[h].throttles < Retries
    <2> DEFINE tries == inv[h].tries
               plain == inv[h].plain
               throttles == inv[h].throttles + 1
    <2>1. [inv[h] EXCEPT !.stage = "wait", !.throttles = @ + 1]
            = [inv[h] EXCEPT !.stage = "wait", !.tries = tries, !.plain = plain, !.throttles = throttles]
        BY <1>1 DEF Invocation
    <2>2. tries \in Nat \ {0} /\ plain \in BOOLEAN /\ throttles \in Nat
        BY <1>1
    <2> HIDE DEF tries, plain, throttles
    <2>3. inv' = [inv EXCEPT ![h] = [inv[h] EXCEPT !.stage = "wait", !.tries = tries, !.plain = plain, !.throttles = throttles]]
        BY <1>2, <2>1 DEF TooMany, Throttled
    <2>4. UNCHANGED <<fate, posted, serial, world, rows>>
        BY <1>2 DEF TooMany
    <2> QED
        BY <1>1, <2>2, <2>3, <2>4, AgainStep
<1>3. CASE ~(inv[h].throttles < Retries)
    <2>1. /\ Ends(h, "answered") /\ inv' = [inv EXCEPT ![h] = Failed(inv[h], "failed", "fault")]
          /\ UNCHANGED <<posted, serial, world, tracked, left>> /\ left \subseteq left' /\ left' \subseteq Chats
        BY <1>1, <1>3 DEF TooMany, Throttled, rows
    <2> QED
        BY <1>1, <2>1, FailedEnds
<1> QED
    BY <1>2, <1>3

\* Without a connection nothing was carried out, so any call may be repeated.
LEMMA NoConnectionStep ==
    ASSUME DeliveryInv, NEW h \in Handlers, NoConnection(h)
    PROVE  DeliveryInv'
<1>1. inv[h] \in Invocation /\ Sending(h) /\ inv[h].tries + 1 \in Nat \ {0} /\ left \subseteq Chats
    <2>1. inv[h] \in Invocation /\ Sending(h) /\ left \subseteq Chats
        BY Typed DEF NoConnection, Flying, DeliveryInv, DeliveryTyped
    <2>2. inv[h].tries \in Nat \ {0}
        BY <2>1 DEF Invocation
    <2> QED
        BY <2>1, <2>2
<1>2. CASE MayRepeat(inv[h], TRUE)
    <2>1. inv' = [inv EXCEPT ![h] = [inv[h] EXCEPT !.stage = "wait", !.tries = inv[h].tries + 1, !.plain = FALSE, !.throttles = 0]]
        BY <1>2 DEF NoConnection, Again
    <2>2. UNCHANGED <<fate, posted, serial, world, rows>>
        BY <1>2 DEF NoConnection
    <2> QED
        BY <1>1, <2>1, <2>2, AgainStep
<1>3. CASE ~MayRepeat(inv[h], TRUE)
    <2>1. /\ Ends(h, "silent") /\ inv' = [inv EXCEPT ![h] = Failed(inv[h], "network", "fault")]
          /\ UNCHANGED <<posted, serial, world, tracked, left>> /\ left \subseteq left' /\ left' \subseteq Chats
        BY <1>1, <1>3 DEF NoConnection, rows
    <2> QED
        BY <1>1, <2>1, FailedEnds
<1> QED
    BY <1>2, <1>3

\* A call that may have been carried out is repeated only if it posts nothing.
LEMMA NoAnswerStep ==
    ASSUME DeliveryInv, NEW h \in Handlers, NoAnswer(h)
    PROVE  DeliveryInv'
<1>1. inv[h] \in Invocation /\ Sending(h) /\ inv[h].tries + 1 \in Nat \ {0} /\ left \subseteq Chats
    <2>1. inv[h] \in Invocation /\ Sending(h) /\ left \subseteq Chats
        BY Typed DEF NoAnswer, Flying, DeliveryInv, DeliveryTyped
    <2>2. inv[h].tries \in Nat \ {0}
        BY <2>1 DEF Invocation
    <2> QED
        BY <2>1, <2>2
<1>2. (\E n \in {0, 1} : CarriedOut(h, n)) /\ UNCHANGED <<serial, world, rows>>
    BY DEF NoAnswer
<1>3. CASE MayRepeat(inv[h], Idempotent(Current(h)))
    <2>1. inv' = [inv EXCEPT ![h] = [inv[h] EXCEPT !.stage = "wait", !.tries = inv[h].tries + 1, !.plain = FALSE, !.throttles = 0]]
        BY <1>3 DEF NoAnswer, Again
    <2>2. UNCHANGED <<fate, serial, world, rows>>
        BY <1>2, <1>3 DEF NoAnswer
    <2>3. inv[h].phase = "drain" /\ Idempotent(Current(h)) /\ Carried(h)
        BY <1>2, <1>3, CarriesOnce DEF MayRepeat, Planned
    <2> QED
        BY <1>1, <2>1, <2>2, <2>3, AgainStep
<1>4. CASE ~MayRepeat(inv[h], Idempotent(Current(h)))
    <2>1. PICK slow \in BOOLEAN : /\ inv' = [inv EXCEPT ![h] = Failed(inv[h], IF slow THEN "slow" ELSE "network", "fault")]
                                  /\ Ends(h, IF slow THEN "slow" ELSE "silent")
        BY <1>4 DEF NoAnswer, Inline
    <2>2. UNCHANGED <<serial, world, tracked, left>> /\ left \subseteq left' /\ left' \subseteq Chats
        BY <1>1, <1>2 DEF rows
    <2>3. CASE slow
        BY <1>1, <1>2, <2>1, <2>2, <2>3, FailedEnds
    <2>4. CASE ~slow
        BY <1>1, <1>2, <2>1, <2>2, <2>4, FailedEnds
    <2> QED
        BY <2>3, <2>4
<1> QED
    BY <1>3, <1>4

-----------------------------------------------------------------------------
(* The door *)

\* Finitely many tasks count on a lock.
LEMMA UsersFinite ==
    \A l : IsFiniteSet(Users(l)) /\ Cardinality(Users(l)) \in Nat
BY DeliveryAssumption, FS_Subset, FS_CardinalityType DEF Users

\* A task past the door, or at it, is settled whatever the locks are.
LEMMA AtTheDoor ==
    ASSUME DeliveryInv, NEW h \in Handlers, NEW r \in Invocation, inv' = [inv EXCEPT ![h] = r],
           UNCHANGED <<fate, posted, world, rows>>, Settled(h)'
    PROVE  /\ inv' \in [Handlers -> Invocation] /\ inv'[h] = r /\ \A g \in Handlers : g # h => inv'[g] = inv[g]
           /\ \A g \in Handlers : Settled(g)'
<1>1. inv'[h] = r /\ OnlyOf(h)
    BY DEF DeliveryInv, DeliveryTyped, OnlyOf, rows
<1> QED
    BY <1>1, OthersSettled DEF OnlyOf

\* Who comes in found the door open: nobody else holds the lock.
LEMMA EnterStep ==
    ASSUME DeliveryInv, NEW h \in Handlers, Enter(h)
    PROVE  DeliveryInv'
<1> DEFINE r == [inv[h] EXCEPT !.phase = "entered"]
           l == inv[h].lock
<1>1. inv[h] \in Invocation /\ inv[h].phase = "queued" /\ "entered" \in Phases /\ Settled(h)
    BY Typed DEF Enter, Phases
<1>2. r \in Invocation
    BY <1>1, Zenon DEF Invocation
<1>3. /\ r.phase = "entered" /\ r.mode = inv[h].mode /\ r.calls = inv[h].calls
      /\ r.lock = inv[h].lock /\ r.from = inv[h].from
      /\ r.at = inv[h].at /\ r.network = inv[h].network /\ r.slow = inv[h].slow
      /\ r.dead = inv[h].dead /\ r.gone = inv[h].gone
    BY <1>1 DEF Invocation
<1>4. inv' = [inv EXCEPT ![h] = r]
    BY <1>1 DEF Enter, DeliveryInv, DeliveryTyped
<1> HIDE DEF r
<1>5. inv'[h] = r /\ fate'[h] = fate[h] /\ posted'[h] = posted[h]
    BY <1>4 DEF Enter, DeliveryInv, DeliveryTyped
<1>6. Settled(h)'
    <2>1. Phased(h)'
        BY <1>1, <1>3, <1>5 DEF Settled, Phased
    <2>2. Silent(h)' /\ Ahead(h)' /\ Noted(h)' /\ Counted(h)'
        BY <1>1, <1>3, <1>5 DEF Settled, Phased, Silent, Ahead, Noted, Counted
    <2> QED
        BY <2>1, <2>2 DEF Settled
<1>7. /\ inv' \in [Handlers -> Invocation] /\ \A g \in Handlers : g # h => inv'[g] = inv[g]
      /\ \A g \in Handlers : Settled(g)'
    BY <1>2, <1>4, <1>6, AtTheDoor DEF Enter
<1>8. /\ l \in Handlers /\ holder[l] = NoLock /\ holder' = [holder EXCEPT ![l] = h]
      /\ locks' = locks /\ waiters' = waiters /\ holder \in [Handlers -> Handlers \cup {NoLock}]
    BY <1>1 DEF Enter, DeliveryInv, DeliveryTyped, LocksHeld
<1>9. DeliveryTyped'
    BY <1>7, <1>8 DEF DeliveryInv, DeliveryTyped, Enter, world, rows
<1>10. LocksHeld'
    <2>1. \A m : Users(m)' = Users(m)
        BY <1>1, <1>3, <1>5, <1>7 DEF Users
    <2>2. \A m \in Handlers : waiters'[m] = Cardinality(Users(m)')
        BY <1>8, <2>1, Zenon DEF DeliveryInv, LocksHeld
    <2>3. ASSUME NEW g \in Handlers, inv'[g].phase # "idle"
          PROVE  inv'[g].lock \in Handlers /\ locks'[KeyOf(inv'[g].from)] = inv'[g].lock
        BY <1>1, <1>3, <1>5, <1>7, <1>8, <2>3 DEF DeliveryInv, LocksHeld
    <2>4. ASSUME NEW g \in Handlers, inv'[g].phase \notin {"idle", "queued"}
          PROVE  holder'[inv'[g].lock] = g
        <3>1. CASE g = h
            BY <1>3, <1>5, <1>8, <3>1
        <3>2. CASE g # h
            <4>1. inv'[g] = inv[g] /\ inv[g].lock \in Handlers /\ holder[inv[g].lock] = g
                BY <1>7, <2>4, <3>2 DEF DeliveryInv, LocksHeld
            <4>2. inv[g].lock # l
                BY <1>8, <4>1, DeliveryAssumption
            <4> QED
                BY <1>8, <4>1, <4>2
        <3> QED
            BY <3>1, <3>2
    <2> QED
        BY <2>2, <2>3, <2>4 DEF LocksHeld
<1> QED
    BY <1>7, <1>9, <1>10 DEF DeliveryInv

\* Who leaves takes the entry of the key along only if nobody else counts on it.
LEMMA LeaveStep ==
    ASSUME DeliveryInv, NEW h \in Handlers, Leave(h)
    PROVE  DeliveryInv'
<1> DEFINE r == [inv[h] EXCEPT !.phase = "idle"]
<1>1. inv[h] \in Invocation /\ inv[h].phase = "done" /\ "idle" \in Phases /\ Settled(h)
    BY Typed DEF Leave, Phases
<1> PICK l \in Handlers : l = inv[h].lock
    BY <1>1 DEF DeliveryInv, LocksHeld
<1>2. r \in Invocation
    BY <1>1, Zenon DEF Invocation
<1>3. /\ r.phase = "idle" /\ r.mode = inv[h].mode /\ r.calls = inv[h].calls
    BY <1>1 DEF Invocation
<1>4. inv' = [inv EXCEPT ![h] = r]
    BY <1>1 DEF Leave, DeliveryInv, DeliveryTyped
<1> HIDE DEF r
<1>5. inv'[h] = r /\ fate'[h] = fate[h] /\ posted'[h] = posted[h]
    BY <1>4 DEF Leave, DeliveryInv, DeliveryTyped
<1>6. Settled(h)'
    BY <1>1, <1>3, <1>5 DEF Settled, Phased, Silent, Ahead, Noted, Counted
<1>7. /\ inv' \in [Handlers -> Invocation] /\ \A g \in Handlers : g # h => inv'[g] = inv[g]
      /\ \A g \in Handlers : Settled(g)'
    BY <1>2, <1>4, <1>6, AtTheDoor DEF Leave
<1>8. /\ l \in Handlers /\ holder[l] = h /\ holder' = [holder EXCEPT ![l] = NoLock]
      /\ locks' = Forget(l) /\ waiters' = [waiters EXCEPT ![l] = @ - 1]
      /\ holder \in [Handlers -> Handlers \cup {NoLock}] /\ waiters \in [Handlers -> Nat]
      /\ locks \in [{"own", "elsewhere"} -> Handlers \cup {NoLock}]
    BY <1>1 DEF Leave, DeliveryInv, DeliveryTyped, LocksHeld
<1>9. /\ h \in Users(l) /\ waiters[l] = Cardinality(Users(l))
      /\ Users(l)' = Users(l) \ {h} /\ \A m : m # l => Users(m)' = Users(m)
    <2>1. h \in Users(l) /\ waiters[l] = Cardinality(Users(l))
        BY <1>1, <1>8 DEF Users, DeliveryInv, LocksHeld
    <2>2. \A m : Users(m)' = Users(m) \ {h}
        BY <1>3, <1>5, <1>7 DEF Users
    <2>3. ASSUME NEW m, m # l PROVE Users(m)' = Users(m)
        <3>1. h \notin Users(m)
            BY <2>3 DEF Users
        <3> QED
            BY <2>2, <3>1
    <2>4. Users(l)' = Users(l) \ {h}
        BY <2>2
    <2> QED
        BY <2>1, <2>3, <2>4
<1>10. Cardinality(Users(l)') = waiters[l] - 1 /\ waiters[l] - 1 \in Nat
    BY <1>9, UsersFinite, FS_RemoveElement, FS_CardinalityType, FS_Subset
<1>11. DeliveryTyped'
    <2>1. locks' \in [{"own", "elsewhere"} -> Handlers \cup {NoLock}]
        BY <1>8 DEF Forget
    <2>2. waiters' \in [Handlers -> Nat] /\ holder' \in [Handlers -> Handlers \cup {NoLock}]
        BY <1>8, <1>10
    <2> QED
        BY <1>7, <2>1, <2>2 DEF DeliveryInv, DeliveryTyped, Leave, world, rows
<1>12. LocksHeld'
    <2>1. \A m \in Handlers : waiters'[m] = Cardinality(Users(m)')
        <3> SUFFICES ASSUME NEW m \in Handlers PROVE waiters'[m] = Cardinality(Users(m)')
            OBVIOUS
        <3>1. CASE m = l
            BY <1>8, <1>10, <3>1
        <3>2. CASE m # l
            <4>1. waiters'[m] = waiters[m] /\ waiters[m] = Cardinality(Users(m))
                BY <1>8, <3>2 DEF DeliveryInv, LocksHeld
            <4>2. Users(m)' = Users(m)
                BY <1>9, <3>2
            <4> QED
                BY <4>1, <4>2
        <3> QED
            BY <3>1, <3>2
    <2>2. ASSUME NEW g \in Handlers, inv'[g].phase # "idle"
          PROVE  /\ g # h /\ inv'[g] = inv[g] /\ inv[g].lock \in Handlers
                 /\ locks[KeyOf(inv[g].from)] = inv[g].lock /\ locks'[KeyOf(inv[g].from)] = inv[g].lock
        <3>1. g # h /\ inv'[g] = inv[g] /\ inv[g].lock \in Handlers /\ locks[KeyOf(inv[g].from)] = inv[g].lock
            BY <1>3, <1>5, <1>7, <2>2 DEF DeliveryInv, LocksHeld
        <3>2. inv[g].lock = l => waiters[l] # 1
            <4> SUFFICES ASSUME inv[g].lock = l PROVE Cardinality(Users(l) \ {h}) # 0
                BY <1>9, <1>10
            <4>1. g \in Users(l) \ {h}
                BY <2>2, <3>1 DEF Users
            <4>2. IsFiniteSet(Users(l) \ {h})
                BY UsersFinite, FS_Subset
            <4> QED
                BY <4>1, <4>2, FS_EmptySet
        <3>3. KeyOf(inv[g].from) \in DOMAIN locks
            BY <1>8 DEF KeyOf
        <3> QED
            BY <1>8, <3>1, <3>2, <3>3 DEF Forget
    <2>3. ASSUME NEW g \in Handlers, inv'[g].phase \notin {"idle", "queued"}
          PROVE  holder'[inv'[g].lock] = g
        <3>1. g # h /\ inv'[g] = inv[g] /\ inv[g].lock \in Handlers /\ holder[inv[g].lock] = g
            BY <2>2, <2>3 DEF DeliveryInv, LocksHeld
        <3> QED
            BY <1>8, <3>1
    <2> QED
        BY <2>1, <2>2, <2>3 DEF LocksHeld
<1> QED
    BY <1>7, <1>11, <1>12 DEF DeliveryInv

\* A key without a lock gets an object nobody counts on: whoever comes in was idle, so one is left.
LEMMA FreshLock ==
    ASSUME DeliveryInv, NEW h \in Handlers, inv[h].phase = "idle"
    PROVE  \E l \in Handlers : waiters[l] = 0
<1> SUFFICES ASSUME \A l \in Handlers : waiters[l] # 0 PROVE FALSE
    OBVIOUS
<1> DEFINE T == Handlers \ {h}
           f == [l \in Handlers |-> CHOOSE g \in Users(l) : TRUE]
<1>1. ASSUME NEW l \in Handlers PROVE f[l] \in Users(l)
    <2>1. Users(l) # {}
        BY <1>1, FS_EmptySet DEF DeliveryInv, LocksHeld
    <2> QED
        BY <2>1
<1>2. \A l : Users(l) \subseteq T /\ \A g \in Users(l) : inv[g].lock = l
    BY DEF Users
<1>3. f \in [Handlers -> T]
    BY <1>1, <1>2
<1>4. IsFiniteSet(Handlers) /\ IsFiniteSet(T) /\ Cardinality(T) < Cardinality(Handlers)
    <2>1. IsFiniteSet(Handlers) /\ IsFiniteSet(T) /\ Cardinality(T) = Cardinality(Handlers) - 1
        BY DeliveryAssumption, FS_RemoveElement
    <2>2. Cardinality(Handlers) \in Nat
        BY <2>1, FS_CardinalityType
    <2> QED
        BY <2>1, <2>2
<1> HIDE DEF f
<1>5. PICK x, y \in Handlers : x # y /\ f[x] = f[y]
    <2> HIDE DEF T
    <2> QED
        BY <1>3, <1>4, FS_PigeonHole
<1> QED
    BY <1>1, <1>2, <1>5

\* Who arrives counts on the lock of their key, which is everybody's who came for that key before.
LEMMA ArriveStep ==
    ASSUME DeliveryInv, NEW h \in Handlers, NEW s \in Surfaces, Arrive(h, s)
    PROVE  DeliveryInv'
<1> DEFINE k == KeyOf(s)
           fresh == CHOOSE l \in Handlers : waiters[l] = 0
<1> PICK l : l = IF locks[k] = NoLock THEN fresh ELSE locks[k]
    OBVIOUS
<1> DEFINE r == [Idle EXCEPT !.phase = "queued", !.from = s, !.lock = l]
<1>1. /\ inv[h] \in Invocation /\ inv[h].phase = "idle" /\ k \in {"own", "elsewhere"} /\ s \in AllSurfaces
      /\ holder \in [Handlers -> Handlers \cup {NoLock}] /\ waiters \in [Handlers -> Nat]
      /\ locks \in [{"own", "elsewhere"} -> Handlers \cup {NoLock}]
    BY Typed, DeliveryAssumption DEF Arrive, DeliveryInv, DeliveryTyped, KeyOf
<1>2. /\ locks' = [locks EXCEPT ![k] = l] /\ waiters' = [waiters EXCEPT ![l] = @ + 1] /\ holder' = holder
      /\ inv' = [inv EXCEPT ![h] = r] /\ fate' = [fate EXCEPT ![h] = <<>>] /\ posted' = [posted EXCEPT ![h] = <<>>]
      /\ UNCHANGED <<world, rows>>
    BY DEF Arrive
<1>3. l \in Handlers
    <2>1. fresh \in Handlers
        BY <1>1, FreshLock
    <2> QED
        BY <1>1, <2>1
<1> HIDE DEF fresh
<1>4. (locks[k] = NoLock \/ locks[k] = l) /\ locks'[k] = l /\ \A m \in {"own", "elsewhere"} : m # k => locks'[m] = locks[m]
    BY <1>1, <1>2
<1> HIDE DEF k
<1>5. /\ r.phase = "queued" /\ r.mode = "write" /\ r.lock = l /\ r.from = s /\ r.calls = <<>>
      /\ r.at = 1 /\ r.network = 0 /\ r.slow = 0 /\ r.dead = {} /\ r.gone = {}
    BY DEF Idle
<1>6. r \in Invocation
    <2>1. /\ "queued" \in Phases /\ 1 \in Nat \ {0} /\ 0 \in Nat /\ <<>> \in Seq(Calls) /\ l \in Handlers \cup {NoLock}
          /\ "tap" \in AllSurfaces /\ "idle" \in Phases
        BY <1>3 DEF Phases, AllSurfaces
    <2>2. Idle \in Invocation
        BY <2>1 DEF Idle, Invocation
    <2> QED
        BY <1>1, <2>1, <2>2, Zenon DEF Invocation
<1> HIDE DEF r
<1>7. /\ <<>> \in Seq(Fates) /\ <<>> \in Seq(Nat) /\ fate \in [Handlers -> Seq(Fates)] /\ posted \in [Handlers -> Seq(Nat)]
      /\ inv \in [Handlers -> Invocation]
    BY DEF DeliveryInv, DeliveryTyped
<1>8. /\ inv'[h] = r /\ fate'[h] = <<>> /\ posted'[h] = <<>>
      /\ \A g \in Handlers : g # h => inv'[g] = inv[g] /\ fate'[g] = fate[g] /\ posted'[g] = posted[g]
      /\ inv' \in [Handlers -> Invocation] /\ fate' \in [Handlers -> Seq(Fates)] /\ posted' \in [Handlers -> Seq(Nat)]
    BY <1>2, <1>6, <1>7, Zenon
<1>9. OnlyOf(h)
    BY <1>2, <1>8 DEF OnlyOf, rows, DeliveryInv, DeliveryTyped
<1>10. \A g \in Handlers : Settled(g)'
    <2>1. Phased(h)' /\ Silent(h)' /\ Ahead(h)' /\ Noted(h)' /\ Counted(h)'
        BY <1>5, <1>8 DEF Phased, Silent, Ahead, Noted, Counted
    <2> QED
        BY <1>9, <2>1, OthersSettled DEF Settled
<1>11. DeliveryTyped'
    <2>1. locks' \in [{"own", "elsewhere"} -> Handlers \cup {NoLock}] /\ waiters' \in [Handlers -> Nat]
        BY <1>1, <1>2, <1>3
    <2> QED
        BY <1>1, <1>2, <1>8, <2>1 DEF DeliveryInv, DeliveryTyped, world, rows
<1>12. Users(l)' = Users(l) \cup {h} /\ h \notin Users(l) /\ \A m : m # l => Users(m)' = Users(m)
    BY <1>1, <1>5, <1>8 DEF Users
<1>13. LocksHeld'
    <2>1. ASSUME NEW m \in Handlers PROVE waiters'[m] = Cardinality(Users(m)')
        <3>1. waiters[m] = Cardinality(Users(m))
            BY DEF DeliveryInv, LocksHeld
        <3>2. CASE m = l
            <4>1. Cardinality(Users(l) \cup {h}) = Cardinality(Users(l)) + 1
                BY <1>12, UsersFinite, FS_AddElement
            <4> QED
                BY <1>1, <1>2, <1>3, <1>12, <3>1, <3>2, <4>1
        <3>3. CASE m # l
            <4>1. Users(m)' = Users(m)
                BY <1>12, <3>3
            <4> QED
                BY <1>1, <1>2, <3>1, <3>3, <4>1
        <3> QED
            BY <3>2, <3>3
    <2>2. ASSUME NEW g \in Handlers, inv'[g].phase # "idle"
          PROVE  inv'[g].lock \in Handlers /\ locks'[KeyOf(inv'[g].from)] = inv'[g].lock
        <3>1. CASE g = h
            BY <1>3, <1>4, <1>5, <1>8, <3>1 DEF k
        <3>2. CASE g # h
            <4>1. inv'[g] = inv[g] /\ inv[g].lock \in Handlers /\ locks[KeyOf(inv[g].from)] = inv[g].lock
                BY <1>8, <2>2, <3>2 DEF DeliveryInv, LocksHeld
            <4>2. KeyOf(inv[g].from) \in {"own", "elsewhere"} /\ inv[g].lock # NoLock
                BY <4>1, DeliveryAssumption DEF KeyOf
            <4> QED
                BY <1>4, <4>1, <4>2
        <3> QED
            BY <3>1, <3>2
    <2>3. ASSUME NEW g \in Handlers, inv'[g].phase \notin {"idle", "queued"}
          PROVE  holder'[inv'[g].lock] = g
        <3>1. g # h
            BY <1>5, <1>8, <2>3
        <3>2. inv'[g] = inv[g] /\ holder[inv[g].lock] = g
            BY <1>8, <2>3, <3>1 DEF DeliveryInv, LocksHeld
        <3> QED
            BY <1>2, <3>2
    <2> QED
        BY <2>1, <2>2, <2>3 DEF LocksHeld
<1> QED
    BY <1>10, <1>11, <1>13 DEF DeliveryInv

-----------------------------------------------------------------------------
(* The invariant, and what follows from it *)

\* Everything starts idle.
LEMMA DeliveryStarts == Init => DeliveryInv
<1> SUFFICES ASSUME Init PROVE DeliveryInv
    OBVIOUS
<1>1. Idle \in Invocation
    <2>1. "idle" \in Phases /\ 1 \in Nat \ {0} /\ 0 \in Nat /\ <<>> \in Seq(Calls) /\ "tap" \in AllSurfaces
        BY DEF Phases, AllSurfaces
    <2> QED
        BY <2>1 DEF Idle, Invocation
<1>2. \A h \in Handlers : inv[h] = Idle /\ fate[h] = <<>> /\ posted[h] = <<>>
    BY DEF Init
<1>3. DeliveryTyped
    BY <1>1 DEF Init, DeliveryTyped
<1>4. LocksHeld
    <2>1. \A l : Users(l) = {}
        BY <1>2 DEF Users, Idle
    <2> QED
        BY <1>2, <2>1, FS_EmptySet DEF Init, LocksHeld, Idle
<1>5. \A h \in Handlers : Settled(h)
    BY <1>2 DEF Idle, Settled, Phased, Silent, Ahead, Noted, Counted
<1> QED
    BY <1>3, <1>4, <1>5 DEF DeliveryInv

\* A crash leaves every task and every lock as they start.
LEMMA CrashStep ==
    ASSUME DeliveryInv, Crash
    PROVE  DeliveryInv'
<1>1. Idle \in Invocation
    <2>1. "idle" \in Phases /\ 1 \in Nat \ {0} /\ 0 \in Nat /\ <<>> \in Seq(Calls) /\ "tap" \in AllSurfaces
        BY DEF Phases, AllSurfaces
    <2> QED
        BY <2>1 DEF Idle, Invocation
<1>2. \A h \in Handlers : inv'[h] = Idle /\ fate'[h] = <<>> /\ posted'[h] = <<>>
    BY DEF Crash
<1>3. DeliveryTyped'
    BY <1>1 DEF Crash, DeliveryInv, DeliveryTyped, world, rows
<1>4. LocksHeld'
    <2>1. \A l \in Handlers : Users(l)' = {}
        BY <1>2 DEF Users, Idle
    <2> QED
        BY <1>2, <2>1, FS_EmptySet DEF Crash, LocksHeld, Idle
<1>5. \A h \in Handlers : Settled(h)'
    BY <1>2 DEF Idle, Settled, Phased, Silent, Ahead, Noted, Counted
<1> QED
    BY <1>3, <1>4, <1>5 DEF DeliveryInv

\* Nothing of a task depends on pauses, on who blocks the bot, or on which cards are lost.
LEMMA Elsewhere ==
    ASSUME DeliveryInv, UNCHANGED <<inv, fate, posted, serial, rows>>, blocked' \subseteq Chats
    PROVE  DeliveryInv'
<1>1. /\ inv' = inv /\ fate' = fate /\ posted' = posted /\ locks' = locks /\ waiters' = waiters /\ holder' = holder
      /\ tracked' = tracked /\ left' = left
    BY DEF serial, rows
<1>2. DeliveryTyped'
    BY <1>1 DEF DeliveryInv, DeliveryTyped
<1>3. LocksHeld'
    BY <1>1 DEF DeliveryInv, LocksHeld, Users
<1>4. \A h \in Handlers : Settled(h)'
    BY <1>1 DEF DeliveryInv, Settled, Phased, Silent, Ahead, Noted, Counted
<1> QED
    BY <1>2, <1>3, <1>4 DEF DeliveryInv

\* What happens outside of the tasks.
LEMMA WorldStep ==
    ASSUME DeliveryInv, World
    PROVE  DeliveryInv'
<1>1. CASE Crash
    BY <1>1, CrashStep
<1>2. CASE Lapse \/ (\E u \in Losable \ {"inline"} : Block(u)) \/ (\E c \in Losable : DeleteCard(c))
    <2>1. UNCHANGED <<inv, fate, posted, serial, rows>> /\ blocked' \subseteq Chats
        BY <1>2, DeliveryAssumption DEF Lapse, Block, DeleteCard, world, DeliveryInv, DeliveryTyped
    <2> QED
        BY <2>1, Elsewhere
<1> QED
    BY <1>1, <1>2 DEF World

\* What a task does by itself.
LEMMA ServeStep ==
    ASSUME DeliveryInv, NEW h \in Handlers, Serve(h)
    PROVE  DeliveryInv'
<1>1. CASE Enter(h)
    BY <1>1, EnterStep
<1>2. CASE Leave(h)
    BY <1>2, LeaveStep
<1>3. CASE PrivateChatOnly(h) \/ LegacyButton(h) \/ StaleConversationButton(h)
    <2>1. <<Alert>> \in Seq(Calls) /\ <<Alert, Screen("tap")>> \in Seq(Calls)
        <3> HIDE DEF Alert, Screen
        <3> QED
            BY ErrorCalls
    <2>2. \E calls \in Seq(Calls) : AnsweredWith(h, calls)
        BY <1>3, <2>1 DEF PrivateChatOnly, LegacyButton, StaleConversationButton
    <2> QED
        BY <2>2, AnsweredWithStep
<1>4. CASE Dropped(h)
    BY <1>4, DroppedStep
<1>5. CASE \E mode \in {"write", "read"}, plan \in Plans : Run(h, mode, plan)
    BY <1>5, RunStep
<1>6. CASE Commit(h)
    BY <1>6, CommitStep
<1>7. CASE \E error \in Errors(inv[h].from) : Abort(h, error)
    BY <1>7, RaisedStep DEF Abort, Aborted
<1>8. CASE Clear(h) \/ Fire(h)
    BY <1>8, ClearStep
<1>9. CASE Reconcile(h)
    BY <1>9, ReconcileStep
<1>10. CASE ReconcileFails(h)
    BY <1>10, RaisedStep DEF ReconcileFails
<1> QED
    BY <1>1, <1>2, <1>3, <1>4, <1>5, <1>6, <1>7, <1>8, <1>9, <1>10 DEF Serve

\* Every step keeps the invariant: one lemma above for each action.
LEMMA DeliveryContinues == DeliveryInv /\ [Next]_vars => DeliveryInv'
<1> SUFFICES ASSUME DeliveryInv, [Next]_vars PROVE DeliveryInv'
    OBVIOUS
<1>1. ASSUME NEW h \in Handlers, Serve(h) PROVE DeliveryInv'
    BY <1>1, ServeStep
<1>2. ASSUME NEW h \in Handlers, Telegram(h) PROVE DeliveryInv'
    BY <1>2, AcceptedStep, UnreachableStep, RefusedStep, TooManyStep, NoConnectionStep, NoAnswerStep, RefusedEmojiStep
       DEF Telegram
<1>3. ASSUME NEW h \in Handlers, NEW s \in Surfaces, Arrive(h, s) PROVE DeliveryInv'
    BY <1>3, ArriveStep
<1>4. CASE World
    BY <1>4, WorldStep
<1>5. CASE UNCHANGED vars
    <2>1. UNCHANGED <<inv, fate, posted, serial, rows>> /\ blocked' \subseteq Chats
        BY <1>5 DEF vars, world, DeliveryInv, DeliveryTyped
    <2> QED
        BY <2>1, Elsewhere
<1> QED
    BY <1>1, <1>2, <1>3, <1>4, <1>5 DEF Next

\* In every reachable state the locks, the calls of each task and what Telegram said of them fit
\* together as the processor and the drain rely on.
THEOREM DeliveryCorrect == Spec => []DeliveryInv
BY DeliveryStarts, DeliveryContinues, PTL DEF Spec

\* Nothing that may have reached somebody is sent to them again: the retry of the drain leaves out the
\* calls that post a message (queued_call_is_retryable).
THEOREM NothingIsPostedTwice == Spec => []NoDoublePost
<1>1. DeliveryInv => NoDoublePost
    <2> SUFFICES ASSUME DeliveryInv, NEW h \in Handlers, NEW n \in DOMAIN posted[h],
                        inv[h].mode = "written", inv[h].calls[n][1] \in {"reply", "notify"}
                 PROVE  posted[h][n] <= 1
        BY DEF NoDoublePost
    <2>1. n \in 1 .. Len(inv[h].calls) /\ inv[h].calls \in Seq(Calls) /\ Ahead(h)
        BY Typed DEF Settled, Phased
    <2>2. inv[h].calls[n] \in Calls
        BY <2>1, ElementOfSeq
    <2>3. ~Idempotent(inv[h].calls[n])
        BY <2>2 DEF Idempotent, Calls, Screens, Cards, Replies, Notices, Removals, Answers
    <2> QED
        BY <2>1, <2>3 DEF Ahead
<1> QED
    BY <1>1, DeliveryCorrect, PTL

\* A handler or a commit that fails leaves nothing sent: begin_write discards the outbox.
THEOREM UndoneIsUnsent == Spec => []UndoneWritesAreSilent
<1>1. DeliveryInv => UndoneWritesAreSilent
    BY DEF DeliveryInv, Settled, Silent, UndoneWritesAreSilent
<1> QED
    BY <1>1, DeliveryCorrect, PTL

\* A drain that is over has recorded every loss, and gave a call up only after Telegram had gone silent
\* on the last calls of the run, or as one more inline edit (_drain_outbox, reconcile).
THEOREM TheDrainIsThorough == Spec => []DrainIsThorough
<1>1. DeliveryInv => LossesAreRecorded
    <2> SUFFICES ASSUME DeliveryInv, NEW h \in Handlers, inv[h].mode = "written", inv[h].phase = "done",
                        NEW n \in DOMAIN fate[h], fate[h][n] = "lost"
                 PROVE  /\ inv[h].calls[n][1] = "card" => inv[h].calls[n][2] \notin tracked
                        /\ inv[h].calls[n][1] = "notify" => inv[h].calls[n][2] \in left
        BY DEF LossesAreRecorded
    <2>1. n \in 1 .. Len(inv[h].calls) /\ Noted(h)
        BY Typed DEF Settled, Phased
    <2> QED
        BY <2>1 DEF Noted
<1>2. DeliveryInv => OneFailureIsLocal
    <2> SUFFICES ASSUME DeliveryInv, NEW h \in Handlers, inv[h].mode = "written", inv[h].phase \in {"reconcile", "done"},
                        NEW n \in DOMAIN fate[h], fate[h][n] = "untried"
                 PROVE  LET tried == {m \in DOMAIN fate[h] : fate[h][m] # "untried"}
                            slow == {m \in tried : fate[h][m] = "slow"}
                            Last(m) == Cardinality({o \in tried \ slow : o >= m}) <= NetworkLimit
                        IN  \/ Inline(inv[h].calls[n]) /\ Cardinality(slow) >= InlineLimit
                            \/ /\ Cardinality(tried \ slow) >= NetworkLimit
                               /\ \A m \in tried \ slow : Last(m) => fate[h][m] = "silent"
        BY DEF OneFailureIsLocal
    <2> DEFINE f == fate[h]
               tried == {m \in DOMAIN f : f[m] # "untried"}
               slow == {m \in tried : f[m] = "slow"}
    <2>1. tried \ slow = Heard(f) /\ slow = Stalled(f)
        BY DEF Heard, Stalled
    <2>2. \A m : {o \in tried \ slow : o >= m} = From(Heard(f), m)
        BY <2>1 DEF From
    <2>3. /\ inv[h].slow = Cardinality(Stalled(f)) /\ inv[h].network <= Cardinality(Heard(f))
          /\ \A m \in Heard(f) : Cardinality(From(Heard(f), m)) <= inv[h].network => f[m] = "silent"
          /\ inv[h].network = NetworkLimit \/ (Inline(inv[h].calls[n]) /\ inv[h].slow >= InlineLimit)
        BY Typed DEF Settled, Counted
    <2> HIDE DEF f, tried, slow
    <2>4. CASE inv[h].network = NetworkLimit
        <3>1. Cardinality(tried \ slow) >= NetworkLimit
            <4>1. Cardinality(Heard(f)) \in Nat /\ NetworkLimit \in Nat
                BY Typed, SetsOfCalls, DeliveryAssumption DEF f
            <4> QED
                BY <2>1, <2>3, <2>4, <4>1
        <3>2. \A m \in tried \ slow : Cardinality({o \in tried \ slow : o >= m}) <= NetworkLimit => f[m] = "silent"
            BY <2>1, <2>2, <2>3, <2>4
        <3> QED
            BY <3>1, <3>2 DEF f, tried, slow
    <2>5. CASE Inline(inv[h].calls[n]) /\ inv[h].slow >= InlineLimit
        BY <2>1, <2>3, <2>5 DEF f, tried, slow
    <2> QED
        BY <2>3, <2>4, <2>5
<1> QED
    BY <1>1, <1>2, DeliveryCorrect, PTL DEF DrainIsThorough

\* The updates of one person in one chat are handled one after another: whoever is past the door holds
\* the lock the processor keeps for the key (do_process_update).
THEOREM OneAtATime == Spec => []OneUpdatePerKey
<1>1. DeliveryInv => OneUpdatePerKey
    BY DEF DeliveryInv, LocksHeld, OneUpdatePerKey
<1> QED
    BY <1>1, DeliveryCorrect, PTL
=============================================================================
