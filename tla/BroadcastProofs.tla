--------------------------- MODULE BroadcastProofs ---------------------------
(***************************************************************************)
(* Proofs of what Broadcast promises: whoever is written to, is written to *)
(* once for each audience; nobody with attempts left is given up; and what *)
(* the operators are told of a broadcast is true, and told once.           *)
(***************************************************************************)
EXTENDS Broadcast, FiniteSetTheorems, SequenceTheorems, NaturalsInduction, WellFoundedInduction,
        TLAPS

-----------------------------------------------------------------------------
(* Rows, pages and runs *)

LEMMA RunFacts ==
    ASSUME TypeOK, NEW w \in Workers
    PROVE  /\ worker[w] = Idle <=> worker[w].at = "idle"
           /\ worker[w].at # "idle" => worker[w].b \in Broadcasts
           /\ worker[w].at = "delivering" => IsPage(worker[w])
           /\ worker[w].at = "closing" => worker[w].final \in Terminal
           /\ worker[w].at = "purging" => worker[w].won \in BOOLEAN
<1>1. worker[w] = Idle \/ worker[w] \in Run \/ IsPage(worker[w])
  BY DEF TypeOK
<1>2. CASE worker[w] = Idle
  BY <1>2 DEF Idle
<1>3. CASE worker[w] \in Run
  BY <1>3 DEF Run, Idle
<1>4. CASE IsPage(worker[w])
  BY <1>4 DEF IsPage, Idle
<1>5. QED
  BY <1>1, <1>2, <1>3, <1>4

\* A run moves on, the others stay where they are.
LEMMA RunMoves ==
    ASSUME TypeOK, NEW w \in Workers, NEW x, worker' = [worker EXCEPT ![w] = x]
    PROVE  /\ worker'[w] = x /\ \A v \in Workers \ {w} : worker'[v] = worker[v]
           /\ x = Idle \/ x \in Run \/ IsPage(x) =>
                 /\ DOMAIN worker' = Workers
                 /\ \A v \in Workers : worker'[v] = Idle \/ worker'[v] \in Run \/ IsPage(worker'[v])
BY DEF TypeOK

LEMMA GoneTo ==
    ASSUME TypeOK, NEW w \in Workers, worker[w].at # "idle",
           NEW at \in {"claimed", "counted", "sending", "checking", "resetting"}, GoTo(w, at)
    PROVE  /\ worker'[w] = [at |-> at, b |-> worker[w].b]
           /\ \A v \in Workers \ {w} : worker'[v] = worker[v]
           /\ DOMAIN worker' = Workers
           /\ \A v \in Workers : worker'[v] = Idle \/ worker'[v] \in Run \/ IsPage(worker'[v])
<1>1. [at |-> at, b |-> worker[w].b] \in Run
  BY RunFacts DEF Run
<1>2. QED
  BY <1>1, RunMoves DEF GoTo

LEMMA RowsOf ==
    ASSUME TypeOK, NEW b \in Broadcasts, NEW f \in [Users -> Row \cup {NoRow}],
           delivery' = [delivery EXCEPT ![b] = f]
    PROVE  /\ delivery' \in [Broadcasts -> [Users -> Row \cup {NoRow}]]
           /\ delivery'[b] = f /\ \A c \in Broadcasts \ {b} : delivery'[c] = delivery[c]
BY DEF TypeOK

LEMMA StartedRow ==
    ASSUME NEW row \in Row, row.tries < MaxTries
    PROVE  /\ Started(row) \in Row
           /\ Started(row).status = "in_progress" /\ Started(row).tries = row.tries + 1
           /\ Started(row).born = row.born /\ Started(row).lang = row.lang
<1>1. row.tries + 1 \in 0 .. MaxTries
  BY BroadcastAssumption DEF Row
<1>2. QED
  BY <1>1 DEF Started, Row

LEMMA ResolvedRow ==
    ASSUME NEW page, IsPage(page), NEW u \in DOMAIN page.rows, NEW row \in Row, row.tries >= 1
    PROVE  /\ Resolved(page, u, row) \in Row
           /\ Resolved(page, u, row).born = row.born /\ Resolved(page, u, row).lang = row.lang
           /\ u \in page.todo => /\ Resolved(page, u, row).status = "retry"
                                 /\ Resolved(page, u, row).tries = row.tries - 1
           /\ u \notin page.todo => /\ Resolved(page, u, row).status = page.outcome[u]
                                    /\ Resolved(page, u, row).tries = row.tries
                                    /\ page.outcome[u] \in Outcomes
<1>1. row.tries - 1 \in 0 .. MaxTries
  BY BroadcastAssumption DEF Row
<1>2. CASE u \in page.todo
  <2>1. Resolved(page, u, row) = [row EXCEPT !.status = "retry", !.due = FALSE, !.tries = row.tries - 1]
    BY <1>2 DEF Resolved
  <2>2. [row EXCEPT !.status = "retry", !.due = FALSE, !.tries = row.tries - 1] \in Row
    <3>1. "retry" \in Waiting \cup {"in_progress"} \cup Outcomes /\ FALSE \in BOOLEAN
      BY DEF Waiting
    <3>2. QED
      BY <1>1, <3>1, Zenon DEF Row
  <2>3. QED
    BY <1>2, <2>1, <2>2 DEF Row
<1>3. CASE u \notin page.todo
  BY <1>3 DEF Resolved, Row, IsPage, Outcomes
<1>4. QED
  BY <1>2, <1>3

LEMMA LeastNatural ==
    ASSUME NEW T \in SUBSET Nat, T # {}
    PROVE  \E n \in T : \A m \in T : n <= m
<1> DEFINE R == OpToRel(<, Nat)
<1>1. PICK n \in T : \A m \in T : <<m, n>> \notin R
  <2>1. IsWellFoundedOn(R, Nat)
    BY NatLessThanWellFounded
  <2> HIDE DEF R
  <2>2. QED
    BY <2>1, WFMin
<1>2. ASSUME NEW m \in T PROVE n <= m
  <2>1. m < n => <<m, n>> \in R
    BY DEF OpToRel
  <2> HIDE DEF R
  <2>2. ~(m < n)
    BY <1>1, <2>1
  <2>3. QED
    BY <2>2
<1>3. QED
  BY <1>2

LEMMA NextIsUntried ==
    ASSUME TypeOK, NEW w \in Workers, Delivering(w)
    PROVE  /\ IsPage(worker[w]) /\ worker[w].b \in Broadcasts
           /\ NextIn(worker[w]) \in worker[w].todo
           /\ worker[w].todo \subseteq DOMAIN worker[w].rows
           /\ NextIn(worker[w]) \in Users
<1>1. IsPage(worker[w])
  BY RunFacts DEF Delivering
<1>2. worker[w].todo \in SUBSET Nat /\ worker[w].todo # {} /\ worker[w].todo \subseteq Users
  BY <1>1, BroadcastAssumption DEF IsPage, Delivering
<1>3. \E u \in worker[w].todo : \A other \in worker[w].todo : u <= other
  BY <1>2, LeastNatural
<1>4. QED
  BY <1>1, <1>2, <1>3 DEF NextIn, IsPage

Entries(q) == {q[i] : i \in 1 .. Len(q)}

LEMMA EntriesAppended ==
    ASSUME NEW q \in Seq(Nat), NEW n \in Nat
    PROVE  /\ Append(q, n) \in Seq(Nat) /\ Append(q, n) # <<>>
           /\ Len(q) \in Nat /\ Len(Append(q, n)) = Len(q) + 1
           /\ \A i \in 1 .. Len(q) : Append(q, n)[i] = q[i]
           /\ Append(q, n)[Len(q) + 1] = n
           /\ Entries(Append(q, n)) = Entries(q) \cup {n}
<1>1. /\ Append(q, n) \in Seq(Nat) /\ Append(q, n) # <<>>
      /\ Len(q) \in Nat /\ Len(Append(q, n)) = Len(q) + 1
      /\ \A i \in 1 .. Len(q) : Append(q, n)[i] = q[i]
      /\ Append(q, n)[Len(q) + 1] = n
  BY AppendProperties
<1> DEFINE p == Append(q, n)
<1> HIDE DEF p
<1>2. /\ Len(q) \in Nat /\ Len(p) = Len(q) + 1 /\ p[Len(q) + 1] = n
      /\ \A i \in 1 .. Len(q) : p[i] = q[i]
  BY <1>1 DEF p
<1>3. 1 .. Len(p) = (1 .. Len(q)) \cup {Len(q) + 1}
  BY <1>2
<1>4. Entries(p) = Entries(q) \cup {n}
  BY <1>2, <1>3 DEF Entries
<1>5. QED
  BY <1>1, <1>4 DEF p

-----------------------------------------------------------------------------
(* What is sent and what is recorded of it *)

\* A row of a page is in progress, at an attempt there was; the delivery row of its
\* recipient is that row, or one inserted later; and unless the page has it as sent,
\* its message has not arrived.
PageSound(w, u) ==
    LET b == worker[w].b
        row == worker[w].rows[u]
    IN  /\ row.status = "in_progress" /\ row.tries >= 1 /\ row.born <= snapshots[b]
        /\ delivery[b][u] # NoRow /\ delivery[b][u].born = row.born => delivery[b][u] = row
        /\ u \in worker[w].todo \/ worker[w].outcome[u] # "sent" =>
              row.born \notin Entries(arrived[b][u])
        /\ u \notin worker[w].todo /\ worker[w].outcome[u] = "retry" => row.tries < MaxTries

PagesSound ==
    \A w \in Workers : worker[w].at = "delivering" =>
        \A u \in DOMAIN worker[w].rows : PageSound(w, u)

\* A row that waits has attempts left and its message has not arrived.
RowSound(b, u) ==
    delivery[b][u] # NoRow =>
        LET row == delivery[b][u] IN
            /\ row.born <= snapshots[b]
            /\ row.status \in Waiting => row.tries < MaxTries /\ row.born \notin Entries(arrived[b][u])
            /\ row.status = "in_progress" => row.tries >= 1

RowsSound == \A b \in Broadcasts, u \in Users : RowSound(b, u)

ArrivalsKnown ==
    \A b \in Broadcasts, u \in Users : \A n \in Entries(arrived[b][u]) : n <= snapshots[b]

DeliveryInv ==
    /\ TypeOK
    /\ PagesSound /\ RowsSound /\ ArrivalsKnown /\ PagesAreDisjoint /\ OncePerSnapshot


\* Nothing that is sent, or recorded of a sending, changes.
LEMMA QuietKeeps ==
    ASSUME DeliveryInv, TypeOK', UNCHANGED <<delivery, snapshots, arrived>>,
           \A w \in Workers : worker'[w].at = "delivering" => worker'[w] = worker[w]
    PROVE  DeliveryInv'
<1>1. PagesSound'
  BY DEF DeliveryInv, PagesSound, PageSound
<1>2. RowsSound' /\ ArrivalsKnown' /\ OncePerSnapshot'
  BY DEF DeliveryInv, RowsSound, RowSound, ArrivalsKnown, OncePerSnapshot
<1>3. PagesAreDisjoint'
  <2> SUFFICES ASSUME NEW v \in Workers, NEW w \in Workers, v # w,
                      worker'[v].at = "delivering", worker'[w].at = "delivering",
                      worker'[v].b = worker'[w].b,
                      NEW u \in DOMAIN worker'[v].rows \cap DOMAIN worker'[w].rows,
                      worker'[v].rows[u].born = worker'[w].rows[u].born
               PROVE  FALSE
    BY DEF PagesAreDisjoint
  <2>1. worker'[v] = worker[v] /\ worker'[w] = worker[w]
    OBVIOUS
  <2>2. QED
    BY <2>1 DEF DeliveryInv, PagesAreDisjoint
<1>4. QED
  BY <1>1, <1>2, <1>3 DEF DeliveryInv

\* Rows go away, fall due or fail with their broadcast: those in progress stay or go.
LEMMA FewerRowsKeep ==
    ASSUME DeliveryInv, TypeOK', UNCHANGED <<snapshots, arrived>>,
           \A w \in Workers : worker'[w].at = "delivering" => worker'[w] = worker[w],
           \A b \in Broadcasts, u \in Users : delivery'[b][u] # NoRow =>
              /\ delivery[b][u] # NoRow
              /\ \/ delivery'[b][u] = delivery[b][u]
                 \/ /\ delivery[b][u].status \in Waiting
                    /\ delivery'[b][u].status \in Waiting \cup {"failed"}
                    /\ delivery'[b][u].born = delivery[b][u].born
                    /\ delivery'[b][u].tries = delivery[b][u].tries
    PROVE  DeliveryInv'
<1>1. ArrivalsKnown' /\ OncePerSnapshot'
  BY DEF DeliveryInv, ArrivalsKnown, OncePerSnapshot
<1>2. RowsSound'
  <2> SUFFICES ASSUME NEW b \in Broadcasts, NEW u \in Users PROVE RowSound(b, u)'
    BY DEF RowsSound
  <2>1. RowSound(b, u)
    BY DEF DeliveryInv, RowsSound
  <2>2. QED
    BY <2>1 DEF RowSound, Waiting
<1>3. PagesSound'
  <2> SUFFICES ASSUME NEW w \in Workers, worker'[w].at = "delivering", NEW u \in DOMAIN worker'[w].rows
               PROVE  PageSound(w, u)'
    BY DEF PagesSound
  <2>1. worker'[w] = worker[w] /\ PageSound(w, u)
    BY DEF DeliveryInv, PagesSound
  <2>2. worker[w].b \in Broadcasts /\ u \in Users
    BY <2>1, RunFacts DEF DeliveryInv, IsPage
  <2>3. QED
    BY <2>1, <2>2 DEF PageSound, Waiting
<1>4. PagesAreDisjoint'
  <2> SUFFICES ASSUME NEW v \in Workers, NEW w \in Workers, v # w,
                      worker'[v].at = "delivering", worker'[w].at = "delivering",
                      worker'[v].b = worker'[w].b,
                      NEW u \in DOMAIN worker'[v].rows \cap DOMAIN worker'[w].rows,
                      worker'[v].rows[u].born = worker'[w].rows[u].born
               PROVE  FALSE
    BY DEF PagesAreDisjoint
  <2>1. worker'[v] = worker[v] /\ worker'[w] = worker[w]
    OBVIOUS
  <2>2. QED
    BY <2>1 DEF DeliveryInv, PagesAreDisjoint
<1>5. QED
  BY <1>1, <1>2, <1>3, <1>4 DEF DeliveryInv


\* The rows of table broadcasts.
BroadcastRow ==
    [status : {"unused", "draft", "discarded"} \cup Open \cup Terminal,
     author : Operators \cup {Nobody}, languages : SUBSET Languages, attempts : 0 .. MaxAttempts + 1,
     total : Nat, counts : Counts]

LEMMA DiscardedRow ==
    ASSUME TypeOK, NEW o \in Operators, NEW b \in Broadcasts
    PROVE  /\ Discarded(o)[b] \in BroadcastRow
           /\ Discarded(o)[b].languages = broadcast[b].languages
           /\ Discarded(o)[b].total = broadcast[b].total /\ Discarded(o)[b].counts = broadcast[b].counts
           /\ \/ Discarded(o)[b].status = broadcast[b].status
              \/ Discarded(o)[b].status = "discarded" /\ broadcast[b].status = "draft"
<1>1. broadcast[b] \in BroadcastRow
  BY DEF TypeOK, BroadcastRow
<1>2. [broadcast[b] EXCEPT !.status = "discarded"] \in BroadcastRow
  <2>1. "discarded" \in {"unused", "draft", "discarded"} \cup Open \cup Terminal
    OBVIOUS
  <2>2. QED
    BY <1>1, <2>1, Zenon DEF BroadcastRow
<1>3. QED
  BY <1>1, <1>2 DEF Discarded, BroadcastRow

\* What an operator does to the rows of the broadcasts: a new draft, or drafts that end.
LEMMA OperateShape ==
    ASSUME TypeOK, NEW o \in Operators, Operate(o)
    PROVE  /\ UNCHANGED <<delivery, person, worker, snapshots, arrived, summaries, overlapped>>
           /\ broadcast' \in [Broadcasts -> BroadcastRow]
           /\ \A b \in Broadcasts :
                \/ /\ broadcast[b].status = "unused" /\ broadcast'[b].status = "draft"
                   /\ Fallback \in broadcast'[b].languages /\ broadcast'[b].total = 0
                \/ /\ broadcast'[b].languages = broadcast[b].languages
                   /\ broadcast'[b].total = broadcast[b].total /\ broadcast'[b].counts = broadcast[b].counts
                   /\ \/ broadcast'[b].status = broadcast[b].status
                      \/ broadcast[b].status = "draft" /\ broadcast'[b].status \in {"discarded", "queued"}
<1>t. broadcast \in [Broadcasts -> BroadcastRow] /\ Discarded(o) \in [Broadcasts -> BroadcastRow]
  <2>1. DOMAIN Discarded(o) = Broadcasts /\ Discarded(o) = [b \in Broadcasts |-> Discarded(o)[b]]
    BY DEF Discarded
  <2>2. QED
    BY <2>1, DiscardedRow DEF TypeOK, BroadcastRow
<1>1. ASSUME NEW entries \in Contents, Upload(o, entries)
      PROVE  /\ broadcast' \in [Broadcasts -> BroadcastRow]
             /\ \A b \in Broadcasts :
                \/ /\ broadcast[b].status = "unused" /\ broadcast'[b].status = "draft"
                   /\ Fallback \in broadcast'[b].languages /\ broadcast'[b].total = 0
                \/ broadcast'[b] = Discarded(o)[b]
  <2> DEFINE spoken == {entries[i].language : i \in Supported(entries)}
             row == [Unused EXCEPT !.status = "draft", !.author = o, !.languages = spoken]
  <2>1. PICK b \in Broadcasts : broadcast[b].status = "unused" /\ broadcast' = [Discarded(o) EXCEPT ![b] = row]
    BY <1>1 DEF Upload
  <2>2. spoken \subseteq Languages /\ Fallback \in spoken
    BY <1>1 DEF Upload, Acceptable, Supported
  <2>3. row.status = "draft" /\ row.languages = spoken /\ row.total = 0
    <3> HIDE DEF spoken
    <3> QED BY DEF Unused
  <2>4. row \in BroadcastRow
    <3>1. NoCounts \in Counts /\ 0 \in 0 .. MaxAttempts + 1
      BY BroadcastAssumption DEF NoCounts, Counts
    <3>2. Unused \in BroadcastRow
      BY <3>1 DEF Unused, BroadcastRow
    <3>3. /\ "draft" \in {"unused", "draft", "discarded"} \cup Open \cup Terminal
          /\ o \in Operators \cup {Nobody} /\ spoken \in SUBSET Languages
      BY <2>2
    <3> HIDE DEF spoken
    <3>4. QED
      BY <3>2, <3>3, Zenon DEF BroadcastRow
  <2> HIDE DEF row
  <2>5. broadcast'[b] = row /\ \A c \in Broadcasts \ {b} : broadcast'[c] = Discarded(o)[c]
    BY <1>t, <2>1
  <2>6. QED
    BY <1>t, <2>1, <2>2, <2>3, <2>4, <2>5
<1>2. ASSUME NEW b \in Broadcasts, UsableDraft(o, b), NEW s \in {"queued", "discarded"},
             broadcast' = [broadcast EXCEPT ![b].status = s]
      PROVE  /\ broadcast' \in [Broadcasts -> BroadcastRow]
             /\ \A c \in Broadcasts :
                   /\ broadcast'[c].languages = broadcast[c].languages
                   /\ broadcast'[c].total = broadcast[c].total /\ broadcast'[c].counts = broadcast[c].counts
                   /\ \/ broadcast'[c].status = broadcast[c].status
                      \/ broadcast[c].status = "draft" /\ broadcast'[c].status \in {"discarded", "queued"}
  <2>1. broadcast[b].status = "draft" /\ broadcast[b] \in BroadcastRow
    BY <1>2, <1>t DEF UsableDraft
  <2>2. [broadcast[b] EXCEPT !.status = s] \in BroadcastRow
    <3>1. s \in {"unused", "draft", "discarded"} \cup Open \cup Terminal
      BY <1>2 DEF Open
    <3>2. QED
      BY <2>1, <3>1, Zenon DEF BroadcastRow
  <2>3. broadcast' = [broadcast EXCEPT ![b] = [broadcast[b] EXCEPT !.status = s]]
    BY <1>2
  <2>4. broadcast' \in [Broadcasts -> BroadcastRow]
    BY <1>t, <2>2, <2>3
  <2>5. broadcast'[b] = [broadcast[b] EXCEPT !.status = s] /\ \A c \in Broadcasts \ {b} : broadcast'[c] = broadcast[c]
    BY <1>t, <2>3
  <2>6. /\ broadcast'[b].languages = broadcast[b].languages /\ broadcast'[b].status = s
        /\ broadcast'[b].total = broadcast[b].total /\ broadcast'[b].counts = broadcast[b].counts
    BY <2>1, <2>5 DEF BroadcastRow
  <2>7. QED
    BY <2>1, <2>4, <2>5, <2>6
<1>3. CASE Reenter(o)
  BY <1>3, <1>t, DiscardedRow DEF Reenter
<1>4. CASE \E entries \in Contents : Upload(o, entries)
  <2>1. UNCHANGED <<delivery, person, worker, snapshots, arrived, summaries, overlapped>>
    BY <1>4 DEF Upload
  <2>2. /\ broadcast' \in [Broadcasts -> BroadcastRow]
        /\ \A b \in Broadcasts :
            \/ /\ broadcast[b].status = "unused" /\ broadcast'[b].status = "draft"
               /\ Fallback \in broadcast'[b].languages /\ broadcast'[b].total = 0
            \/ broadcast'[b] = Discarded(o)[b]
    BY <1>1, <1>4
  <2>3. QED
    BY <2>1, <2>2, DiscardedRow
<1>5. CASE \E b \in Broadcasts : Confirm(o, b) \/ Cancel(o, b)
  BY <1>2, <1>5 DEF Confirm, Cancel
<1>6. QED
  BY <1>3, <1>4, <1>5 DEF Operate

LEMMA OperateSound ==
    ASSUME DeliveryInv, NEW o \in Operators, Operate(o)
    PROVE  DeliveryInv'
<1>1. TypeOK'
  BY OperateShape DEF DeliveryInv, TypeOK, BroadcastRow
<1>2. QED
  BY <1>1, OperateShape, QuietKeeps DEF DeliveryInv


LEMMA BroadcastOf ==
    ASSUME TypeOK, NEW b \in Broadcasts, NEW r \in BroadcastRow, broadcast' = [broadcast EXCEPT ![b] = r]
    PROVE  /\ broadcast' \in [Broadcasts -> BroadcastRow]
           /\ broadcast'[b] = r /\ \A c \in Broadcasts \ {b} : broadcast'[c] = broadcast[c]
BY DEF TypeOK, BroadcastRow

\* A run takes a broadcast on.
LEMMA ClaimShape ==
    ASSUME TypeOK, NEW w \in Workers, NEW b \in Broadcasts, Claim(w, b)
    PROVE  /\ TypeOK'
           /\ UNCHANGED <<delivery, person, snapshots, arrived, summaries>>
           /\ broadcast[b].status \in Open /\ broadcast'[b].status = "sending"
           /\ broadcast'[b].languages = broadcast[b].languages
           /\ broadcast'[b].total = broadcast[b].total /\ broadcast'[b].counts = broadcast[b].counts
           /\ \A c \in Broadcasts \ {b} : broadcast'[c] = broadcast[c]
           /\ worker[w].at = "idle" /\ worker'[w].b = b
           /\ \/ worker'[w].at = "closing" /\ worker'[w].final = "failed"
              \/ worker'[w].at = "claimed"
           /\ \A v \in Workers \ {w} : worker'[v] = worker[v]
           /\ overlapped \subseteq overlapped' /\ overlapped' \subseteq overlapped \cup {b}
           /\ (\E v \in Workers : worker[v].at # "idle" /\ worker[v].b = b) => b \in overlapped'
<1> DEFINE attempts == broadcast[b].attempts + 1
           n == IF attempts > MaxAttempts THEN MaxAttempts + 1 ELSE attempts
           r == [broadcast[b] EXCEPT !.status = "sending", !.attempts = n]
           x == IF attempts > MaxAttempts
                    THEN [at |-> "closing", b |-> b, final |-> "failed"]
                    ELSE [at |-> "claimed", b |-> b]
<1>1. worker' = [worker EXCEPT ![w] = x] /\ broadcast' = [broadcast EXCEPT ![b] = r]
  BY DEF Claim
<1>2. n \in 0 .. MaxAttempts + 1 /\ broadcast[b] \in BroadcastRow
  BY BroadcastAssumption DEF TypeOK, BroadcastRow
<1>3. r \in BroadcastRow
  <2>1. "sending" \in {"unused", "draft", "discarded"} \cup Open \cup Terminal
    BY DEF Open
  <2> HIDE DEF n
  <2>2. QED
    BY <1>2, <2>1, Zenon DEF BroadcastRow
<1>4. /\ r.status = "sending" /\ r.languages = broadcast[b].languages
      /\ r.total = broadcast[b].total /\ r.counts = broadcast[b].counts
  BY <1>2 DEF BroadcastRow
<1>5. x \in Run /\ x.b = b /\ ((x.at = "closing" /\ x.final = "failed") \/ x.at = "claimed")
  BY DEF Run, Terminal
<1> HIDE DEF r, x
<1>6. /\ broadcast' \in [Broadcasts -> BroadcastRow]
      /\ broadcast'[b] = r /\ \A c \in Broadcasts \ {b} : broadcast'[c] = broadcast[c]
  BY <1>1, <1>3, BroadcastOf
<1>7. /\ worker'[w] = x /\ \A v \in Workers \ {w} : worker'[v] = worker[v]
      /\ DOMAIN worker' = Workers
      /\ \A v \in Workers : worker'[v] = Idle \/ worker'[v] \in Run \/ IsPage(worker'[v])
  BY <1>1, <1>5, RunMoves
<1>8. /\ UNCHANGED <<delivery, person, snapshots, arrived, summaries>> /\ worker[w].at = "idle"
      /\ broadcast[b].status \in Open
      /\ overlapped' = IF WorkingOn(b) = {} THEN overlapped ELSE overlapped \cup {b}
  BY DEF Claim, Idle
<1>9. TypeOK'
  BY <1>6, <1>7, <1>8 DEF TypeOK, BroadcastRow
<1>10. (\E v \in Workers : worker[v].at # "idle" /\ worker[v].b = b) => WorkingOn(b) # {}
  BY RunFacts DEF WorkingOn
<1>11. QED
  BY <1>4, <1>5, <1>6, <1>7, <1>8, <1>9, <1>10

\* The steps of a run that change nothing but its own place.
LEMMA StepAside ==
    ASSUME TypeOK, NEW w \in Workers,
           CountAudience(w) \/ CheckUnfinished(w) \/ Crash(w)
    PROVE  /\ TypeOK'
           /\ UNCHANGED <<broadcast, delivery, person, snapshots, arrived, summaries, overlapped>>
           /\ \A v \in Workers \ {w} : worker'[v] = worker[v]
           /\ worker'[w].at # "idle" =>
                 worker[w].at # "idle" /\ worker'[w].b = worker[w].b /\ worker[w].b \in Broadcasts
           /\ worker'[w].at \in {"idle", "counted", "sending", "resetting", "closing"}
           /\ worker'[w].at = "closing" =>
                 /\ worker[w].at = "checking"
                 /\ worker'[w].final = "done" /\ Unfinished(worker[w].b) = {}
           /\ worker'[w].at \in {"counted", "sending", "resetting"} =>
                 worker[w].at \in {"claimed", "checking"}
<1>1. CASE CountAudience(w)
  <2>1. worker[w].at # "idle" /\ worker[w].b \in Broadcasts
    BY <1>1, RunFacts DEF CountAudience
  <2>2. PICK at \in {"counted", "sending"} : GoTo(w, at)
    BY <1>1 DEF CountAudience
  <2>3. /\ worker'[w] = [at |-> at, b |-> worker[w].b]
        /\ \A v \in Workers \ {w} : worker'[v] = worker[v]
        /\ DOMAIN worker' = Workers
        /\ \A v \in Workers : worker'[v] = Idle \/ worker'[v] \in Run \/ IsPage(worker'[v])
    BY <2>1, <2>2, GoneTo
  <2>4. UNCHANGED <<broadcast, delivery, person, snapshots, arrived, summaries, overlapped>>
        /\ worker[w].at = "claimed"
    BY <1>1 DEF CountAudience
  <2>5. TypeOK'
    BY <2>3, <2>4 DEF TypeOK
  <2>6. QED
    BY <2>1, <2>3, <2>4, <2>5
<1>2. CASE CheckUnfinished(w)
  <2> DEFINE b == worker[w].b
             x == IF Unfinished(b) # {} THEN [at |-> "resetting", b |-> b]
                  ELSE [at |-> "closing", b |-> b, final |-> "done"]
  <2>1. b \in Broadcasts /\ worker[w].at = "checking"
    BY <1>2, RunFacts DEF CheckUnfinished
  <2>2. x \in Run /\ x.b = b
        /\ (x.at = "resetting" \/ (x.at = "closing" /\ x.final = "done" /\ Unfinished(b) = {}))
    <3>1. CASE Unfinished(b) # {}
      <4>1. x = [at |-> "resetting", b |-> b]
        BY <3>1
      <4>2. [at |-> "resetting", b |-> b] \in Run
        BY <2>1 DEF Run
      <4> HIDE DEF x
      <4>3. QED
        BY <4>1, <4>2
    <3>2. CASE Unfinished(b) = {}
      <4>1. x = [at |-> "closing", b |-> b, final |-> "done"]
        BY <3>2
      <4>2. QED
        BY <2>1, <3>2, <4>1 DEF Run, Terminal
    <3>3. QED
      BY <3>1, <3>2
  <2>3. worker' = [worker EXCEPT ![w] = x]
        /\ UNCHANGED <<broadcast, delivery, person, snapshots, arrived, summaries, overlapped>>
    BY <1>2 DEF CheckUnfinished
  <2> HIDE DEF x
  <2>4. /\ worker'[w] = x /\ \A v \in Workers \ {w} : worker'[v] = worker[v]
        /\ DOMAIN worker' = Workers
        /\ \A v \in Workers : worker'[v] = Idle \/ worker'[v] \in Run \/ IsPage(worker'[v])
    BY <2>2, <2>3, RunMoves
  <2>5. TypeOK'
    BY <2>3, <2>4 DEF TypeOK
  <2>6. QED
    BY <2>1, <2>2, <2>3, <2>4, <2>5
<1>3. CASE Crash(w)
  <2>1. /\ worker'[w] = Idle /\ \A v \in Workers \ {w} : worker'[v] = worker[v]
        /\ DOMAIN worker' = Workers
        /\ \A v \in Workers : worker'[v] = Idle \/ worker'[v] \in Run \/ IsPage(worker'[v])
    BY <1>3, RunMoves DEF Crash
  <2>2. UNCHANGED <<broadcast, delivery, person, snapshots, arrived, summaries, overlapped>>
    BY <1>3 DEF Crash
  <2>3. TypeOK'
    BY <2>1, <2>2 DEF TypeOK
  <2>4. QED
    BY <2>1, <2>2, <2>3 DEF Idle
<1>4. QED
  BY <1>1, <1>2, <1>3

LEMMA ResetShape ==
    ASSUME TypeOK, NEW w \in Workers, ResetAttempts(w)
    PROVE  /\ TypeOK'
           /\ UNCHANGED <<delivery, person, snapshots, arrived, summaries, overlapped>>
           /\ \A c \in Broadcasts : /\ broadcast'[c].status = broadcast[c].status
                                    /\ broadcast'[c].languages = broadcast[c].languages
                                    /\ broadcast'[c].total = broadcast[c].total
                                    /\ broadcast'[c].counts = broadcast[c].counts
           /\ worker'[w] = Idle /\ \A v \in Workers \ {w} : worker'[v] = worker[v]
<1> DEFINE b == worker[w].b
           r == [broadcast[b] EXCEPT !.attempts = 0]
<1>1. b \in Broadcasts
  BY RunFacts DEF ResetAttempts
<1>2. broadcast[b] \in BroadcastRow
  BY <1>1 DEF TypeOK, BroadcastRow
<1>3. r \in BroadcastRow
  <2>1. 0 \in 0 .. MaxAttempts + 1
    BY BroadcastAssumption
  <2>2. QED
    BY <1>2, <2>1, Zenon DEF BroadcastRow
<1>4. /\ r.status = broadcast[b].status /\ r.languages = broadcast[b].languages
      /\ r.total = broadcast[b].total /\ r.counts = broadcast[b].counts
  BY <1>2 DEF BroadcastRow
<1>5. broadcast' = [broadcast EXCEPT ![b] = r]
  BY DEF ResetAttempts
<1> HIDE DEF r
<1>6. /\ broadcast' \in [Broadcasts -> BroadcastRow]
      /\ broadcast'[b] = r /\ \A c \in Broadcasts \ {b} : broadcast'[c] = broadcast[c]
  BY <1>1, <1>3, <1>5, BroadcastOf
<1>7. /\ worker'[w] = Idle /\ \A v \in Workers \ {w} : worker'[v] = worker[v]
      /\ DOMAIN worker' = Workers
      /\ \A v \in Workers : worker'[v] = Idle \/ worker'[v] \in Run \/ IsPage(worker'[v])
  BY RunMoves DEF ResetAttempts
<1>8. UNCHANGED <<delivery, person, snapshots, arrived, summaries, overlapped>>
  BY DEF ResetAttempts
<1>9. TypeOK'
  BY <1>6, <1>7, <1>8 DEF TypeOK, BroadcastRow
<1>10. QED
  BY <1>4, <1>6, <1>7, <1>8, <1>9


\* The audience is inserted: whoever has no row gets one of a new snapshot.
LEMMA InsertShape ==
    ASSUME TypeOK, NEW w \in Workers, InsertAudience(w), NEW b, b = worker[w].b
    PROVE  /\ TypeOK' /\ b \in Broadcasts /\ worker[w].at = "counted"
           /\ UNCHANGED <<person, arrived, summaries, overlapped>>
           /\ worker'[w].at = "sending" /\ worker'[w].b = b
           /\ \A v \in Workers \ {w} : worker'[v] = worker[v]
           /\ \A c \in Broadcasts \ {b} : /\ delivery'[c] = delivery[c]
                                          /\ snapshots'[c] = snapshots[c]
                                          /\ broadcast'[c] = broadcast[c]
           /\ snapshots[b] <= snapshots'[b]
           /\ \A u \in Users :
                 \/ delivery'[b][u] = delivery[b][u]
                 \/ /\ delivery[b][u] = NoRow /\ delivery'[b][u] # NoRow
                    /\ delivery'[b][u].status = "pending" /\ delivery'[b][u].tries = 0
                    /\ delivery'[b][u].born = snapshots[b] + 1 /\ snapshots'[b] = snapshots[b] + 1
                    /\ delivery'[b][u].lang = LanguageSent(b, u)
           /\ broadcast'[b].total = Cardinality(Listed(b)')
           /\ broadcast'[b].status = broadcast[b].status
           /\ broadcast'[b].languages = broadcast[b].languages
           /\ broadcast'[b].counts = broadcast[b].counts
<1> DEFINE new == {u \in Users : person[u] = "member" /\ delivery[b][u] = NoRow}
           row(u) == [status |-> "pending", tries |-> 0, due |-> TRUE,
                      lang |-> LanguageSent(b, u), born |-> snapshots[b] + 1]
           f == [u \in Users |-> IF u \in new THEN row(u) ELSE delivery[b][u]]
           n == Cardinality(new \cup Listed(b))
           r == [broadcast[b] EXCEPT !.total = n]
           k == IF new = {} THEN snapshots[b] ELSE snapshots[b] + 1
<1>1. worker[w].at = "counted" /\ b \in Broadcasts
  BY RunFacts DEF InsertAudience
<1>2. snapshots[b] \in Nat /\ k \in Nat /\ snapshots[b] <= k
  BY <1>1 DEF TypeOK
<1>3. \A u \in Users : row(u) \in Row /\ row(u) # NoRow
  <2> TAKE u \in Users
  <2>1. LanguageSent(b, u) \in Languages
    BY BroadcastAssumption DEF LanguageSent
  <2>2. 0 \in 0 .. MaxTries /\ snapshots[b] + 1 \in Nat
    BY <1>2, BroadcastAssumption
  <2>3. row(u) \in Row
    BY <2>1, <2>2 DEF Row, Waiting
  <2>4. QED
    BY <2>3, NoRowAssumption
<1>4. f \in [Users -> Row \cup {NoRow}]
  BY <1>1, <1>3 DEF TypeOK
<1>5. delivery' = [delivery EXCEPT ![b] = f]
  BY DEF InsertAudience
<1>6. /\ delivery' \in [Broadcasts -> [Users -> Row \cup {NoRow}]]
      /\ delivery'[b] = f /\ \A c \in Broadcasts \ {b} : delivery'[c] = delivery[c]
  <2> HIDE DEF f
  <2> QED BY <1>1, <1>4, <1>5, RowsOf
<1>7. \A u \in Users :
         IF u \in new
         THEN /\ delivery[b][u] = NoRow /\ delivery'[b][u] # NoRow
              /\ delivery'[b][u].status = "pending" /\ delivery'[b][u].tries = 0
              /\ delivery'[b][u].born = snapshots[b] + 1
              /\ delivery'[b][u].lang = LanguageSent(b, u)
         ELSE delivery'[b][u] = delivery[b][u]
  <2> TAKE u \in Users
  <2>1. CASE u \in new
    <3>1. delivery'[b][u] = row(u) /\ delivery[b][u] = NoRow
      BY <1>6, <2>1
    <3>2. QED
      BY <1>3, <2>1, <3>1
  <2>2. CASE u \notin new
    BY <1>6, <2>2
  <2>3. QED
    BY <2>1, <2>2
<1>8. Listed(b)' = new \cup Listed(b)
  BY <1>7 DEF Listed
<1>9. n \in Nat
  <2>1. IsFiniteSet(new \cup Listed(b))
    <3>1. new \cup Listed(b) \in SUBSET Users
      BY DEF Listed
    <3>2. QED
      BY <3>1, BroadcastAssumption, FS_Subset
  <2>2. QED
    BY <2>1, FS_CardinalityType
<1>10. snapshots' = [snapshots EXCEPT ![b] = k]
  BY DEF InsertAudience
<1>11. broadcast' = [broadcast EXCEPT ![b] = r]
  BY DEF InsertAudience
<1>12. r \in BroadcastRow
  <2>1. broadcast[b] \in BroadcastRow
    BY <1>1 DEF TypeOK, BroadcastRow
  <2> HIDE DEF n
  <2>2. QED
    BY <1>9, <2>1, Zenon DEF BroadcastRow
<1>13. /\ r.total = n /\ r.status = broadcast[b].status /\ r.languages = broadcast[b].languages
       /\ r.counts = broadcast[b].counts
  <2>1. broadcast[b] \in BroadcastRow
    BY <1>1 DEF TypeOK, BroadcastRow
  <2> HIDE DEF n
  <2>2. QED
    BY <2>1 DEF BroadcastRow
<1>14. GoTo(w, "sending") /\ UNCHANGED <<person, arrived, summaries, overlapped>>
  BY DEF InsertAudience
<1>15. /\ worker'[w] = [at |-> "sending", b |-> worker[w].b]
       /\ \A v \in Workers \ {w} : worker'[v] = worker[v]
       /\ DOMAIN worker' = Workers
       /\ \A v \in Workers : worker'[v] = Idle \/ worker'[v] \in Run \/ IsPage(worker'[v])
  BY <1>1, <1>14, GoneTo
<1> HIDE DEF r, f, n, k
<1>16. /\ snapshots' \in [Broadcasts -> Nat] /\ snapshots'[b] = k
       /\ \A c \in Broadcasts \ {b} : snapshots'[c] = snapshots[c]
  BY <1>1, <1>2, <1>10 DEF TypeOK
<1>17. /\ broadcast' \in [Broadcasts -> BroadcastRow]
       /\ broadcast'[b] = r /\ \A c \in Broadcasts \ {b} : broadcast'[c] = broadcast[c]
  BY <1>1, <1>11, <1>12, BroadcastOf
<1>18. TypeOK'
  BY <1>6, <1>14, <1>15, <1>16, <1>17 DEF TypeOK, BroadcastRow
<1>19. new # {} => k = snapshots[b] + 1
  BY DEF k
<1>20. n = Cardinality(Listed(b)')
  BY <1>8 DEF n
<1>21. \A u \in Users :
         \/ delivery'[b][u] = delivery[b][u]
         \/ /\ delivery[b][u] = NoRow /\ delivery'[b][u] # NoRow
            /\ delivery'[b][u].status = "pending" /\ delivery'[b][u].tries = 0
            /\ delivery'[b][u].born = snapshots[b] + 1 /\ snapshots'[b] = snapshots[b] + 1
            /\ delivery'[b][u].lang = LanguageSent(b, u)
  <2> HIDE DEF new
  <2> QED BY <1>7, <1>16, <1>19
<1>22. QED
  BY <1>1, <1>2, <1>6, <1>13, <1>14, <1>15, <1>16, <1>17, <1>18, <1>20, <1>21

\* A snapshot's rows are nobody's page yet and nothing of them has arrived.
LEMMA InsertSound ==
    ASSUME DeliveryInv, NEW w \in Workers, InsertAudience(w)
    PROVE  DeliveryInv'
<1>1. PICK b : b = worker[w].b
  OBVIOUS
<1>t. TypeOK /\ \A c \in Broadcasts : snapshots[c] \in Nat
  BY DEF DeliveryInv, TypeOK
<1>2. /\ TypeOK' /\ b \in Broadcasts /\ UNCHANGED arrived /\ worker'[w].at = "sending"
      /\ \A v \in Workers \ {w} : worker'[v] = worker[v]
      /\ \A c \in Broadcasts \ {b} : delivery'[c] = delivery[c] /\ snapshots'[c] = snapshots[c]
      /\ snapshots[b] <= snapshots'[b]
      /\ \A u \in Users :
            \/ delivery'[b][u] = delivery[b][u]
            \/ /\ delivery'[b][u] # NoRow
               /\ delivery'[b][u].status = "pending" /\ delivery'[b][u].tries = 0
               /\ delivery'[b][u].born = snapshots[b] + 1 /\ snapshots'[b] = snapshots[b] + 1
  BY <1>t, <1>1, InsertShape
<1>s. \A c \in Broadcasts : snapshots[c] \in Nat /\ snapshots'[c] \in Nat /\ snapshots[c] <= snapshots'[c]
  <2> TAKE c \in Broadcasts
  <2>1. snapshots[c] \in Nat /\ snapshots'[c] \in Nat
    BY <1>t, <1>2 DEF TypeOK
  <2>2. snapshots'[c] = snapshots[c] \/ c = b
    BY <1>2
  <2>3. QED
    BY <1>2, <2>1, <2>2
<1>3. ArrivalsKnown' /\ OncePerSnapshot'
  <2>1. ASSUME NEW c \in Broadcasts, NEW u \in Users, NEW m \in Entries(arrived[c][u])
        PROVE  m <= snapshots'[c]
    <3>1. m <= snapshots[c] /\ snapshots[c] <= snapshots'[c] /\ snapshots'[c] \in Nat /\ snapshots[c] \in Nat
      BY <1>s, <2>1 DEF DeliveryInv, ArrivalsKnown
    <3>2. m \in Nat
      BY <2>1, LenProperties, ElementOfSeq DEF Entries, DeliveryInv, TypeOK
    <3>3. QED
      BY <3>1, <3>2
  <2>2. QED
    BY <1>2, <2>1 DEF DeliveryInv, ArrivalsKnown, OncePerSnapshot
<1>4. RowsSound'
  <2> SUFFICES ASSUME NEW c \in Broadcasts, NEW u \in Users PROVE RowSound(c, u)'
    BY DEF RowsSound
  <2>1. RowSound(c, u) /\ \A m \in Entries(arrived[c][u]) : m <= snapshots[c]
    BY DEF DeliveryInv, RowsSound, ArrivalsKnown
  <2>2. CASE delivery'[c][u] = delivery[c][u]
    <3>1. delivery[c][u] # NoRow => delivery[c][u].born \in Nat
      BY DEF DeliveryInv, TypeOK, Row
    <3>2. snapshots[c] <= snapshots'[c] /\ snapshots[c] \in Nat /\ snapshots'[c] \in Nat
      BY <1>s
    <3>3. QED
      BY <1>2, <2>1, <2>2, <3>1, <3>2 DEF RowSound
  <2>3. CASE c = b /\ /\ delivery'[b][u].status = "pending" /\ delivery'[b][u].tries = 0
                      /\ delivery'[b][u].born = snapshots[b] + 1 /\ snapshots'[b] = snapshots[b] + 1
    <3>1. snapshots[b] + 1 \notin Entries(arrived[b][u])
      BY <1>t, <1>2, <2>1, <2>3
    <3>2. 0 < MaxTries /\ snapshots[b] + 1 <= snapshots'[b]
      BY <1>t, <1>2, <2>3, BroadcastAssumption
    <3>3. QED
      BY <1>2, <2>3, <3>1, <3>2 DEF RowSound
  <2>4. QED
    BY <1>2, <2>2, <2>3
<1>5. PagesSound'
  <2> SUFFICES ASSUME NEW v \in Workers, worker'[v].at = "delivering", NEW u \in DOMAIN worker'[v].rows
               PROVE  PageSound(v, u)'
    BY DEF PagesSound
  <2>1. worker'[v] = worker[v] /\ PageSound(v, u)
    BY <1>2 DEF DeliveryInv, PagesSound
  <2>2. worker[v].b \in Broadcasts /\ u \in Users /\ worker[v].rows[u] \in Row
    BY <2>1, RunFacts DEF DeliveryInv, IsPage
  <2> DEFINE c == worker[v].b
             row == worker[v].rows[u]
  <2>3. row.born \in Nat /\ row.born <= snapshots[c]
    BY <2>1, <2>2 DEF PageSound, Row
  <2>4. row.born <= snapshots'[c]
    <3>1. snapshots[c] <= snapshots'[c] /\ snapshots[c] \in Nat /\ snapshots'[c] \in Nat
      BY <1>s, <2>2
    <3>2. QED
      BY <2>3, <3>1
  <2>5. delivery'[c][u] # NoRow /\ delivery'[c][u].born = row.born => delivery'[c][u] = row
    <3>1. CASE delivery'[c][u] = delivery[c][u]
      BY <2>1, <3>1 DEF PageSound
    <3>2. CASE delivery'[c][u].born = snapshots[c] + 1
      <4>1. delivery'[c][u].born # row.born
        BY <1>t, <2>2, <2>3, <3>2
      <4>2. QED
        BY <4>1
    <3>3. QED
      BY <1>2, <2>2, <3>1, <3>2
  <2>6. QED
    BY <1>2, <2>1, <2>4, <2>5 DEF PageSound
<1>6. PagesAreDisjoint'
  <2> SUFFICES ASSUME NEW x \in Workers, NEW v \in Workers, x # v,
                      worker'[x].at = "delivering", worker'[v].at = "delivering",
                      worker'[x].b = worker'[v].b,
                      NEW u \in DOMAIN worker'[x].rows \cap DOMAIN worker'[v].rows,
                      worker'[x].rows[u].born = worker'[v].rows[u].born
               PROVE  FALSE
    BY DEF PagesAreDisjoint
  <2>1. worker'[x] = worker[x] /\ worker'[v] = worker[v]
    BY <1>2
  <2>2. QED
    BY <2>1 DEF DeliveryInv, PagesAreDisjoint
<1>7. QED
  BY <1>2, <1>3, <1>4, <1>5, <1>6 DEF DeliveryInv


\* A run claims a page of rows that wait, or finds none.
LEMMA ClaimBatchShape ==
    ASSUME DeliveryInv, NEW w \in Workers, ClaimBatch(w), NEW b, b = worker[w].b
    PROVE  /\ TypeOK' /\ b \in Broadcasts /\ worker[w].at = "sending"
           /\ UNCHANGED <<broadcast, person, snapshots, arrived, summaries, overlapped>>
           /\ worker'[w].b = b
           /\ \A v \in Workers \ {w} : worker'[v] = worker[v]
           /\ \A c \in Broadcasts \ {b} : delivery'[c] = delivery[c]
           /\ \/ worker'[w].at = "checking" /\ UNCHANGED delivery
              \/ \E page \in SUBSET Users :
                    /\ worker'[w].at = "delivering" /\ DOMAIN worker'[w].rows = page
                    /\ worker'[w].todo = page
                    /\ \A u \in Users \ page : delivery'[b][u] = delivery[b][u]
                    /\ \A u \in page :
                          /\ delivery[b][u] # NoRow /\ delivery[b][u].status \in Waiting
                          /\ delivery'[b][u] # NoRow
                          /\ delivery'[b][u] = worker'[w].rows[u]
                          /\ delivery'[b][u].status = "in_progress"
                          /\ delivery'[b][u].tries = delivery[b][u].tries + 1
                          /\ delivery'[b][u].born = delivery[b][u].born
                          /\ delivery'[b][u].lang = delivery[b][u].lang
<1> DEFINE page == FirstOf({u \in Listed(b) : Claimable(delivery[b][u])})
           f == [u \in Users |-> IF u \in page THEN Started(delivery[b][u]) ELSE delivery[b][u]]
           rows == [u \in page |-> Started(delivery[b][u])]
           x == [at |-> "delivering", b |-> b, rows |-> rows, todo |-> page, outcome |-> <<>>,
                 halted |-> FALSE]
<1>1. worker[w].at = "sending" /\ b \in Broadcasts /\ TypeOK
  BY RunFacts DEF ClaimBatch, DeliveryInv
<1>2. UNCHANGED <<broadcast, person, snapshots, arrived, summaries, overlapped>>
  BY DEF ClaimBatch
<1>3. \A u \in page : /\ u \in Users /\ delivery[b][u] # NoRow /\ delivery[b][u].status \in Waiting
                      /\ delivery[b][u] \in Row /\ delivery[b][u].tries < MaxTries
  <2>1. \A u \in page : /\ u \in Users /\ delivery[b][u] # NoRow /\ delivery[b][u].status \in Waiting
    BY DEF FirstOf, Listed, Claimable, Waiting
  <2>2. \A u \in Users : RowSound(b, u) /\ delivery[b][u] \in Row \cup {NoRow}
    BY <1>1 DEF DeliveryInv, RowsSound, TypeOK
  <2> HIDE DEF page
  <2>3. QED
    BY <2>1, <2>2 DEF RowSound
<1> HIDE DEF page
<1>4. \A u \in page :
         /\ Started(delivery[b][u]) \in Row /\ Started(delivery[b][u]) # NoRow
         /\ Started(delivery[b][u]).status = "in_progress"
         /\ Started(delivery[b][u]).tries = delivery[b][u].tries + 1
         /\ Started(delivery[b][u]).born = delivery[b][u].born
         /\ Started(delivery[b][u]).lang = delivery[b][u].lang
  BY <1>3, StartedRow, NoRowAssumption
<1>5. CASE page = {}
  <2>1. GoTo(w, "checking") /\ UNCHANGED delivery
    BY <1>5 DEF ClaimBatch, page
  <2>2. /\ worker'[w] = [at |-> "checking", b |-> worker[w].b]
        /\ \A v \in Workers \ {w} : worker'[v] = worker[v]
        /\ DOMAIN worker' = Workers
        /\ \A v \in Workers : worker'[v] = Idle \/ worker'[v] \in Run \/ IsPage(worker'[v])
    BY <1>1, <2>1, GoneTo
  <2>3. TypeOK'
    BY <1>1, <1>2, <2>1, <2>2 DEF TypeOK
  <2>4. QED
    BY <1>1, <1>2, <2>1, <2>2, <2>3
<1>6. CASE page # {}
  <2>1. delivery' = [delivery EXCEPT ![b] = f] /\ worker' = [worker EXCEPT ![w] = x]
    BY <1>6 DEF ClaimBatch, page
  <2>2. f \in [Users -> Row \cup {NoRow}]
    BY <1>1, <1>3, <1>4 DEF TypeOK
  <2>3. IsPage(x)
    <3>1. rows \in [page -> Row] /\ DOMAIN rows = page /\ page \subseteq Users
      BY <1>3, <1>4
    <3> HIDE DEF rows
    <3>2. <<>> \in [page \ page -> Outcomes]
      BY DEF Outcomes
    <3>3. /\ x.at = "delivering" /\ x.b = b /\ x.rows = rows /\ x.todo = page
          /\ x.outcome = <<>> /\ x.halted = FALSE
          /\ DOMAIN x = {"at", "b", "rows", "todo", "outcome", "halted"}
      OBVIOUS
    <3> HIDE DEF x
    <3>4. QED
      BY <1>1, <3>1, <3>2, <3>3 DEF IsPage
  <2>4. x.at = "delivering" /\ x.b = b /\ x.rows = rows /\ x.todo = page
    OBVIOUS
  <2> HIDE DEF x
  <2>5. /\ worker'[w] = x /\ \A v \in Workers \ {w} : worker'[v] = worker[v]
        /\ DOMAIN worker' = Workers
        /\ \A v \in Workers : worker'[v] = Idle \/ worker'[v] \in Run \/ IsPage(worker'[v])
    BY <1>1, <2>1, <2>3, RunMoves
  <2>6. /\ delivery' \in [Broadcasts -> [Users -> Row \cup {NoRow}]]
        /\ delivery'[b] = f /\ \A c \in Broadcasts \ {b} : delivery'[c] = delivery[c]
    <3> HIDE DEF f
    <3> QED BY <1>1, <2>1, <2>2, RowsOf
  <2>7. TypeOK'
    BY <1>1, <1>2, <2>5, <2>6 DEF TypeOK
  <2>8. /\ DOMAIN rows = page /\ page \in SUBSET Users
        /\ \A u \in page : rows[u] = Started(delivery[b][u]) /\ f[u] = Started(delivery[b][u])
        /\ \A u \in Users \ page : f[u] = delivery[b][u]
    BY <1>3
  <2> HIDE DEF f, rows
  <2>9. QED
    BY <1>1, <1>2, <1>3, <1>4, <2>4, <2>5, <2>6, <2>7, <2>8
<1>7. QED
  BY <1>5, <1>6

\* The rows of a new page were waiting, so no other page has them and their message
\* has not arrived.
LEMMA ClaimBatchSound ==
    ASSUME DeliveryInv, NEW w \in Workers, ClaimBatch(w)
    PROVE  DeliveryInv'
<1>1. PICK b : b = worker[w].b
  OBVIOUS
<1>2. /\ TypeOK' /\ b \in Broadcasts
      /\ UNCHANGED <<snapshots, arrived>>
      /\ worker'[w].b = b
      /\ \A v \in Workers \ {w} : worker'[v] = worker[v]
      /\ \A c \in Broadcasts \ {b} : delivery'[c] = delivery[c]
  BY <1>1, ClaimBatchShape
<1>3. CASE worker'[w].at = "checking" /\ UNCHANGED delivery
  <2>1. \A v \in Workers : worker'[v].at = "delivering" => worker'[v] = worker[v]
    BY <1>2, <1>3
  <2>2. QED
    BY <1>2, <1>3, <2>1, QuietKeeps
<1>4. ASSUME NEW page \in SUBSET Users,
             worker'[w].at = "delivering", DOMAIN worker'[w].rows = page,
             worker'[w].todo = page,
             \A u \in Users \ page : delivery'[b][u] = delivery[b][u],
             \A u \in page :
                /\ delivery[b][u] # NoRow /\ delivery[b][u].status \in Waiting
                /\ delivery'[b][u] # NoRow
                /\ delivery'[b][u] = worker'[w].rows[u]
                /\ delivery'[b][u].status = "in_progress"
                /\ delivery'[b][u].tries = delivery[b][u].tries + 1
                /\ delivery'[b][u].born = delivery[b][u].born
      PROVE  DeliveryInv'
  <2>1. ArrivalsKnown' /\ OncePerSnapshot'
    BY <1>2 DEF DeliveryInv, ArrivalsKnown, OncePerSnapshot
  <2>2. \A u \in page : /\ delivery[b][u].born <= snapshots[b]
                        /\ delivery[b][u].born \notin Entries(arrived[b][u])
                        /\ delivery[b][u].tries + 1 >= 1
    <3>1. \A u \in page : RowSound(b, u) /\ delivery[b][u] \in Row
      BY <1>2, <1>4 DEF DeliveryInv, RowsSound, TypeOK
    <3>2. \A u \in page : delivery[b][u].tries \in 0 .. MaxTries
      BY <3>1 DEF Row
    <3>3. QED
      BY <1>4, <3>1, <3>2, BroadcastAssumption DEF RowSound
  <2>3. RowsSound'
    <3> SUFFICES ASSUME NEW c \in Broadcasts, NEW u \in Users PROVE RowSound(c, u)'
      BY DEF RowsSound
    <3>1. RowSound(c, u)
      BY DEF DeliveryInv, RowsSound
    <3>2. CASE c = b /\ u \in page
      BY <1>2, <1>4, <2>2, <3>2 DEF RowSound, Waiting
    <3>3. CASE ~(c = b /\ u \in page)
      <4>1. delivery'[c][u] = delivery[c][u]
        BY <1>2, <1>4, <3>3
      <4>2. QED
        BY <1>2, <3>1, <4>1 DEF RowSound
    <3>4. QED
      BY <3>2, <3>3
  <2>4. ASSUME NEW v \in Workers \ {w}, worker[v].at = "delivering", NEW u \in DOMAIN worker[v].rows
        PROVE  /\ PageSound(v, u)'
               /\ ~(worker[v].b = b /\ u \in page /\ worker[v].rows[u].born = delivery[b][u].born)
    <3>1. worker'[v] = worker[v] /\ PageSound(v, u)
      BY <1>2, <2>4 DEF DeliveryInv, PagesSound
    <3>2. worker[v].b \in Broadcasts /\ u \in Users
      BY <2>4, RunFacts DEF DeliveryInv, IsPage
    <3>3. CASE worker[v].b = b /\ u \in page
      <4>1. worker[v].rows[u].born # delivery[b][u].born
        <5>1. worker[v].rows[u].born = delivery[b][u].born => delivery[b][u].status = "in_progress"
          BY <1>4, <3>1, <3>3 DEF PageSound
        <5>2. QED
          BY <1>4, <3>3, <5>1 DEF Waiting
      <4>2. QED
        BY <1>2, <1>4, <3>1, <3>3, <4>1 DEF PageSound
    <3>4. CASE ~(worker[v].b = b /\ u \in page)
      <4>1. delivery'[worker[v].b][u] = delivery[worker[v].b][u]
        BY <1>2, <1>4, <3>2, <3>4
      <4>2. QED
        BY <1>2, <3>1, <3>4, <4>1 DEF PageSound
    <3>5. QED
      BY <3>3, <3>4
  <2>5. PagesSound'
    <3>1. \A u \in page : PageSound(w, u)'
      BY <1>2, <1>4, <2>2 DEF PageSound
    <3>2. QED
      BY <1>2, <1>4, <2>4, <3>1 DEF PagesSound
  <2>6. PagesAreDisjoint'
    <3> SUFFICES ASSUME NEW x \in Workers, NEW v \in Workers, x # v,
                        worker'[x].at = "delivering", worker'[v].at = "delivering",
                        worker'[x].b = worker'[v].b,
                        NEW u \in DOMAIN worker'[x].rows \cap DOMAIN worker'[v].rows,
                        worker'[x].rows[u].born = worker'[v].rows[u].born
                 PROVE  FALSE
      BY DEF PagesAreDisjoint
    <3>1. CASE x # w /\ v # w
      <4>1. worker'[x] = worker[x] /\ worker'[v] = worker[v]
        BY <1>2, <3>1
      <4>2. QED
        BY <4>1 DEF DeliveryInv, PagesAreDisjoint
    <3>2. CASE x = w
      <4>1. v \in Workers \ {w} /\ worker'[v] = worker[v] /\ u \in page
        BY <1>2, <1>4, <3>2
      <4>2. worker[v].b = b /\ worker[v].rows[u].born = delivery[b][u].born
        BY <1>2, <1>4, <3>2, <4>1
      <4>3. QED
        BY <2>4, <4>1, <4>2
    <3>3. CASE v = w
      <4>1. x \in Workers \ {w} /\ worker'[x] = worker[x] /\ u \in page
        BY <1>2, <1>4, <3>3
      <4>2. worker[x].b = b /\ worker[x].rows[u].born = delivery[b][u].born
        BY <1>2, <1>4, <3>3, <4>1
      <4>3. QED
        BY <2>4, <4>1, <4>2
    <3>4. QED
      BY <3>1, <3>2, <3>3
  <2>7. QED
    BY <1>2, <2>1, <2>3, <2>5, <2>6 DEF DeliveryInv
<1>5. QED
  BY <1>1, <1>3, <1>4, ClaimBatchShape


LEMMA OutcomeFacts ==
    ASSUME NEW answer \in Answers, NEW tries \in Nat
    PROVE  /\ OutcomeOf(answer, tries) \in Outcomes
           /\ OutcomeOf(answer, tries) = "sent" <=> answer = "ok"
           /\ OutcomeOf(answer, tries) = "retry" => tries < MaxTries
BY BroadcastAssumption DEF OutcomeOf, Answers, Outcomes

\* A message that reaches somebody leaves everything else as it was.
LEMMA ReachedShape ==
    ASSUME TypeOK, NEW b \in Broadcasts, NEW u \in Users, NEW row \in Row,
           arrived' = Reached(b, u, row)
    PROVE  /\ arrived' \in [Broadcasts -> [Users -> Seq(Nat)]]
           /\ arrived'[b][u] = Append(arrived[b][u], row.born)
           /\ \A c \in Broadcasts, v \in Users : ~(c = b /\ v = u) => arrived'[c][v] = arrived[c][v]
           /\ row.born \in Nat /\ arrived[b][u] \in Seq(Nat)
<1>1. row.born \in Nat /\ arrived[b][u] \in Seq(Nat)
  BY DEF TypeOK, Row
<1>2. Append(arrived[b][u], row.born) \in Seq(Nat)
  BY <1>1, EntriesAppended
<1>3. arrived' = [arrived EXCEPT ![b] = [arrived[b] EXCEPT ![u] = Append(arrived[b][u], row.born)]]
  BY DEF Reached
<1> DEFINE q == Append(arrived[b][u], row.born)
<1> HIDE DEF q
<1>4. QED
  <2>1. q \in Seq(Nat) /\ arrived' = [arrived EXCEPT ![b] = [arrived[b] EXCEPT ![u] = q]]
    BY <1>2, <1>3 DEF q
  <2>2. /\ arrived' \in [Broadcasts -> [Users -> Seq(Nat)]] /\ arrived'[b][u] = q
        /\ \A c \in Broadcasts, v \in Users : ~(c = b /\ v = u) => arrived'[c][v] = arrived[c][v]
    BY <2>1 DEF TypeOK
  <2>3. QED
    BY <1>1, <2>2 DEF q

\* One recipient of a page gets an answer.
LEMMA DeliverShape ==
    ASSUME TypeOK, NEW w \in Workers, NEW answer \in Answers, Deliver(w, answer)
    PROVE  /\ TypeOK' /\ UNCHANGED <<broadcast, delivery, person, snapshots, summaries, overlapped>>
           /\ \A v \in Workers \ {w} : worker'[v] = worker[v]
           /\ worker[w].at = "delivering" /\ worker[w].b \in Broadcasts
           /\ worker'[w].at = "delivering" /\ worker'[w].b = worker[w].b
           /\ worker'[w].rows = worker[w].rows
           /\ \E u \in worker[w].todo :
                 /\ u \in Users /\ u \in DOMAIN worker[w].rows /\ worker[w].rows[u] \in Row
                 /\ worker'[w].todo = worker[w].todo \ {u}
                 /\ \A v \in DOMAIN worker[w].rows \ worker[w].todo :
                       worker'[w].outcome[v] = worker[w].outcome[v]
                 /\ worker'[w].outcome[u] = "sent" <=> answer = "ok"
                 /\ worker'[w].outcome[u] = "retry" => worker[w].rows[u].tries < MaxTries
                 /\ arrived' = IF answer = "ok" THEN Reached(worker[w].b, u, worker[w].rows[u]) ELSE arrived
<1> DEFINE page == worker[w]
           b == page.b
           u == NextIn(page)
           row == page.rows[u]
           o == OutcomeOf(answer, row.tries)
           out == [v \in (DOMAIN page.outcome) \cup {u} |-> IF v = u THEN o ELSE page.outcome[v]]
           x == [page EXCEPT !.todo = page.todo \ {u}, !.outcome = out, !.halted = (answer = "flood")]
<1>1. /\ IsPage(page) /\ b \in Broadcasts /\ u \in page.todo /\ u \in Users
      /\ page.todo \subseteq DOMAIN page.rows
      /\ page.at = "delivering"
  BY NextIsUntried DEF Deliver, Delivering
<1>2. row \in Row /\ row.tries \in Nat
  BY <1>1, BroadcastAssumption DEF IsPage, Row
<1>3. o \in Outcomes /\ (o = "sent" <=> answer = "ok") /\ (o = "retry" => row.tries < MaxTries)
  BY <1>2, OutcomeFacts
<1>4. worker' = [worker EXCEPT ![w] = x]
  BY DEF Deliver
<1>5. /\ DOMAIN page = {"at", "b", "rows", "todo", "outcome", "halted"}
      /\ page.outcome \in [DOMAIN page.rows \ page.todo -> Outcomes]
      /\ page.rows \in [DOMAIN page.rows -> Row] /\ DOMAIN page.rows \subseteq Users
  BY <1>1 DEF IsPage
<1> HIDE DEF o
<1>6. /\ out \in [DOMAIN page.rows \ (page.todo \ {u}) -> Outcomes]
      /\ out[u] = o /\ \A v \in DOMAIN page.rows \ page.todo : out[v] = page.outcome[v]
  BY <1>1, <1>3, <1>5
<1> HIDE DEF out
<1>7. /\ DOMAIN x = {"at", "b", "rows", "todo", "outcome", "halted"}
      /\ x.at = "delivering" /\ x.b = b /\ x.rows = page.rows
      /\ x.todo = page.todo \ {u} /\ x.outcome = out /\ x.halted \in BOOLEAN
  BY <1>1, <1>5
<1> HIDE DEF x
<1>8. IsPage(x)
  BY <1>1, <1>5, <1>6, <1>7 DEF IsPage
<1>9. /\ worker'[w] = x /\ \A v \in Workers \ {w} : worker'[v] = worker[v]
      /\ DOMAIN worker' = Workers
      /\ \A v \in Workers : worker'[v] = Idle \/ worker'[v] \in Run \/ IsPage(worker'[v])
  BY <1>4, <1>8, RunMoves
<1>10. UNCHANGED <<broadcast, delivery, person, snapshots, summaries, overlapped>>
  BY DEF Deliver
<1>11. arrived' = IF answer = "ok" THEN Reached(b, u, row) ELSE arrived
  BY DEF Deliver
<1> HIDE DEF u, row
<1>12. arrived' \in [Broadcasts -> [Users -> Seq(Nat)]]
  <2>1. CASE answer = "ok"
    BY <1>1, <1>2, <1>11, <2>1, ReachedShape
  <2>2. CASE answer # "ok"
    BY <1>11, <2>2 DEF TypeOK
  <2>3. QED
    BY <2>1, <2>2
<1>13. TypeOK'
  BY <1>9, <1>10, <1>12 DEF TypeOK
<1>14. QED
  <2>1. row = page.rows[u]
    BY DEF row
  <2>2. QED
    BY <1>1, <1>2, <1>3, <1>6, <1>7, <1>9, <1>10, <1>11, <1>13, <2>1

\* The connection is lost while one recipient is written to, who may have the message.
LEMMA LoseShape ==
    ASSUME TypeOK, NEW w \in Workers, LoseConnection(w)
    PROVE  /\ TypeOK' /\ UNCHANGED <<broadcast, delivery, person, snapshots, summaries, overlapped>>
           /\ worker'[w] = Idle /\ \A v \in Workers \ {w} : worker'[v] = worker[v]
           /\ worker[w].at = "delivering" /\ worker[w].b \in Broadcasts
           /\ \E u \in worker[w].todo :
                 /\ u \in Users /\ u \in DOMAIN worker[w].rows /\ worker[w].rows[u] \in Row
                 /\ arrived' \in {arrived, Reached(worker[w].b, u, worker[w].rows[u])}
<1> DEFINE page == worker[w]
           b == page.b
           u == NextIn(page)
           row == page.rows[u]
<1>1. /\ IsPage(page) /\ b \in Broadcasts /\ u \in page.todo /\ u \in Users
      /\ page.todo \subseteq DOMAIN page.rows
      /\ page.at = "delivering"
  BY NextIsUntried DEF LoseConnection, Delivering
<1>2. row \in Row
  BY <1>1 DEF IsPage
<1>3. arrived' \in {arrived, Reached(b, u, row)}
  BY DEF LoseConnection
<1> HIDE DEF u, row
<1>4. arrived' \in [Broadcasts -> [Users -> Seq(Nat)]]
  <2>1. CASE arrived' = Reached(b, u, row)
    BY <1>1, <1>2, <2>1, ReachedShape
  <2>2. CASE arrived' = arrived
    BY <2>2 DEF TypeOK
  <2>3. QED
    BY <1>3, <2>1, <2>2
<1>5. /\ worker'[w] = Idle /\ \A v \in Workers \ {w} : worker'[v] = worker[v]
      /\ DOMAIN worker' = Workers
      /\ \A v \in Workers : worker'[v] = Idle \/ worker'[v] \in Run \/ IsPage(worker'[v])
  BY RunMoves DEF LoseConnection
<1>6. UNCHANGED <<broadcast, delivery, person, snapshots, summaries, overlapped>>
  BY DEF LoseConnection
<1>7. TypeOK'
  BY <1>4, <1>5, <1>6 DEF TypeOK
<1>8. QED
  <2>1. row = page.rows[u]
    BY DEF row
  <2>2. QED
    BY <1>1, <1>2, <1>3, <1>5, <1>6, <1>7, <2>1


\* Of a row on one page alone a message arrives that had not arrived before.
LEMMA ArrivalSound ==
    ASSUME DeliveryInv, TypeOK', NEW w \in Workers, worker[w].at = "delivering",
           NEW b \in Broadcasts, b = worker[w].b, NEW u \in worker[w].todo, u \in Users,
           u \in DOMAIN worker[w].rows, worker[w].rows[u] \in Row,
           UNCHANGED <<delivery, snapshots>>,
           \A v \in Workers \ {w} : worker'[v] = worker[v],
           arrived' \in {arrived, Reached(b, u, worker[w].rows[u])},
           worker'[w].at = "delivering" =>
              /\ worker'[w].b = b /\ worker'[w].rows = worker[w].rows
              /\ worker'[w].todo = worker[w].todo \ {u}
              /\ \A v \in DOMAIN worker[w].rows \ worker[w].todo :
                    worker'[w].outcome[v] = worker[w].outcome[v]
              /\ worker'[w].outcome[u] = "sent" \/ arrived' = arrived
              /\ worker'[w].outcome[u] = "retry" => worker[w].rows[u].tries < MaxTries
    PROVE  DeliveryInv'
<1> DEFINE row == worker[w].rows[u]
<1>t. TypeOK
  BY DEF DeliveryInv
<1>1. /\ PageSound(w, u) /\ row.born \in Nat
      /\ row.born \notin Entries(arrived[b][u]) /\ row.born <= snapshots[b]
  BY DEF DeliveryInv, PagesSound, PageSound, Row
<1>2. /\ \A c \in Broadcasts, v \in Users : ~(c = b /\ v = u) => arrived'[c][v] = arrived[c][v]
      /\ arrived'[b][u] = arrived[b][u] \/ arrived'[b][u] = Append(arrived[b][u], row.born)
      /\ arrived' = arrived \/ arrived'[b][u] = Append(arrived[b][u], row.born)
      /\ arrived[b][u] \in Seq(Nat)
  <2>1. CASE arrived' = arrived
    BY <1>t, <2>1 DEF TypeOK
  <2>2. CASE arrived' = Reached(b, u, row)
    BY <1>t, <2>2, ReachedShape
  <2>3. QED
    BY <2>1, <2>2
<1>3. Entries(arrived'[b][u]) \subseteq Entries(arrived[b][u]) \cup {row.born}
  <2> DEFINE n == row.born
             q == arrived[b][u]
  <2>1. n \in Nat /\ q \in Seq(Nat) /\ (arrived'[b][u] = q \/ arrived'[b][u] = Append(q, n))
    BY <1>1, <1>2
  <2> HIDE DEF n, q
  <2>2. Entries(Append(q, n)) = Entries(q) \cup {n}
    BY <2>1, EntriesAppended
  <2>3. Entries(arrived'[b][u]) \subseteq Entries(q) \cup {n}
    BY <2>1, <2>2
  <2>4. QED
    BY <2>3 DEF n, q
<1>4. ArrivalsKnown'
  BY <1>1, <1>2, <1>3 DEF DeliveryInv, ArrivalsKnown
<1>5. OncePerSnapshot'
  <2> SUFFICES ASSUME NEW c \in Broadcasts, NEW v \in Users,
                      NEW i \in 1 .. Len(arrived'[c][v]), NEW j \in 1 .. Len(arrived'[c][v]), i # j
               PROVE  arrived'[c][v][i] # arrived'[c][v][j]
    BY DEF OncePerSnapshot
  <2>1. CASE arrived'[c][v] = arrived[c][v]
    BY <2>1 DEF DeliveryInv, OncePerSnapshot
  <2>2. CASE c = b /\ v = u /\ arrived'[b][u] = Append(arrived[b][u], row.born)
    <3> DEFINE q == arrived[b][u]
               p == arrived'[b][u]
    <3>1. /\ Len(q) \in Nat /\ Len(p) = Len(q) + 1 /\ p[Len(q) + 1] = row.born
          /\ \A k \in 1 .. Len(q) : p[k] = q[k]
      BY <1>1, <1>2, <2>2, EntriesAppended
    <3>2. \A k \in 1 .. Len(q) : q[k] # row.born
      BY <1>1 DEF Entries
    <3>3. \A k, l \in 1 .. Len(q) : k # l => q[k] # q[l]
      BY DEF DeliveryInv, OncePerSnapshot
    <3>4. i \in 1 .. Len(p) /\ j \in 1 .. Len(p)
      BY <2>2
    <3> HIDE DEF p, q
    <3>5. p[i] # p[j]
      <4>1. CASE i \in 1 .. Len(q) /\ j \in 1 .. Len(q)
        BY <3>1, <3>3, <4>1
      <4>2. CASE i = Len(q) + 1
        BY <3>1, <3>2, <3>4, <4>2
      <4>3. CASE j = Len(q) + 1
        BY <3>1, <3>2, <3>4, <4>3
      <4>4. QED
        BY <3>1, <3>4, <4>1, <4>2, <4>3
    <3>6. QED
      BY <2>2, <3>5 DEF p
  <2>3. QED
    BY <1>2, <2>1, <2>2
<1>6. RowsSound'
  <2> SUFFICES ASSUME NEW c \in Broadcasts, NEW v \in Users PROVE RowSound(c, v)'
    BY DEF RowsSound
  <2>1. RowSound(c, v)
    BY DEF DeliveryInv, RowsSound
  <2>2. CASE c = b /\ v = u
    <3>1. delivery[b][u] # NoRow /\ delivery[b][u].status \in Waiting => delivery[b][u].born # row.born
      BY <1>1 DEF PageSound, Waiting
    <3>2. QED
      BY <1>3, <2>1, <2>2, <3>1 DEF RowSound
  <2>3. CASE ~(c = b /\ v = u)
    BY <1>2, <2>1, <2>3 DEF RowSound
  <2>4. QED
    BY <2>2, <2>3
<1>7. PagesSound'
  <2>1. ASSUME NEW x \in Workers \ {w}, worker[x].at = "delivering", NEW v \in DOMAIN worker[x].rows
        PROVE  PageSound(x, v)'
    <3>1. worker'[x] = worker[x] /\ PageSound(x, v)
      BY <2>1 DEF DeliveryInv, PagesSound
    <3>2. worker[x].b \in Broadcasts /\ v \in Users
      BY <1>t, <2>1, RunFacts DEF IsPage
    <3>3. CASE worker[x].b = b /\ v = u
      <4>1. worker[x].rows[u].born # row.born
        BY <2>1, <3>3 DEF DeliveryInv, PagesAreDisjoint
      <4>2. QED
        BY <1>3, <3>1, <3>3, <4>1 DEF PageSound
    <3>4. CASE ~(worker[x].b = b /\ v = u)
      <4>1. arrived'[worker[x].b][v] = arrived[worker[x].b][v]
        BY <1>2, <3>2, <3>4
      <4>2. QED
        BY <3>1, <4>1 DEF PageSound
    <3>5. QED
      BY <3>3, <3>4
  <2>2. ASSUME worker'[w].at = "delivering", NEW v \in DOMAIN worker'[w].rows
        PROVE  PageSound(w, v)'
    <3>1. v \in DOMAIN worker[w].rows /\ PageSound(w, v) /\ v \in Users
      BY <1>t, <2>2, RunFacts DEF DeliveryInv, PagesSound, IsPage
    <3>2. CASE v = u
      <4>1. u \notin worker'[w].todo
        BY <2>2
      <4>2. arrived' # arrived => worker'[w].outcome[u] = "sent"
        BY <2>2
      <4>3. arrived' = arrived => row.born \notin Entries(arrived'[b][u])
        BY <1>1
      <4>4. QED
        BY <1>1, <2>2, <3>2, <4>1, <4>2, <4>3 DEF PageSound
    <3>3. CASE v # u
      <4>1. arrived'[b][v] = arrived[b][v]
        BY <1>2, <3>1, <3>3
      <4>2. v \in worker'[w].todo <=> v \in worker[w].todo
        BY <2>2, <3>3
      <4>3. v \notin worker[w].todo => worker'[w].outcome[v] = worker[w].outcome[v]
        BY <2>2, <3>1
      <4>4. QED
        BY <2>2, <3>1, <4>1, <4>2, <4>3 DEF PageSound
    <3>4. QED
      BY <3>2, <3>3
  <2>3. QED
    BY <2>1, <2>2 DEF PagesSound
<1>8. PagesAreDisjoint'
  <2> SUFFICES ASSUME NEW x \in Workers, NEW v \in Workers, x # v,
                      worker'[x].at = "delivering", worker'[v].at = "delivering",
                      worker'[x].b = worker'[v].b,
                      NEW z \in DOMAIN worker'[x].rows \cap DOMAIN worker'[v].rows,
                      worker'[x].rows[z].born = worker'[v].rows[z].born
               PROVE  FALSE
    BY DEF PagesAreDisjoint
  <2>1. \A y \in {x, v} : /\ worker[y].at = "delivering" /\ worker'[y].b = worker[y].b
                          /\ worker'[y].rows = worker[y].rows
    OBVIOUS
  <2>2. QED
    BY <2>1 DEF DeliveryInv, PagesAreDisjoint
<1>9. QED
  BY <1>4, <1>5, <1>6, <1>7, <1>8 DEF DeliveryInv

LEMMA DeliverSound ==
    ASSUME DeliveryInv, NEW w \in Workers,
           LoseConnection(w) \/ \E answer \in Answers : Deliver(w, answer)
    PROVE  DeliveryInv'
<1>t. TypeOK
  BY DEF DeliveryInv
<1>1. CASE LoseConnection(w)
  <2>1. /\ TypeOK' /\ UNCHANGED <<delivery, snapshots>>
        /\ worker'[w].at # "delivering" /\ \A v \in Workers \ {w} : worker'[v] = worker[v]
        /\ worker[w].at = "delivering" /\ worker[w].b \in Broadcasts
    BY <1>t, <1>1, LoseShape DEF Idle
  <2>2. PICK u \in worker[w].todo :
           /\ u \in Users /\ u \in DOMAIN worker[w].rows /\ worker[w].rows[u] \in Row
           /\ arrived' \in {arrived, Reached(worker[w].b, u, worker[w].rows[u])}
    BY <1>t, <1>1, LoseShape
  <2>3. QED
    BY <2>1, <2>2, ArrivalSound
<1>2. ASSUME NEW answer \in Answers, Deliver(w, answer) PROVE DeliveryInv'
  <2>1. /\ TypeOK' /\ UNCHANGED <<delivery, snapshots>>
        /\ \A v \in Workers \ {w} : worker'[v] = worker[v]
        /\ worker[w].at = "delivering" /\ worker[w].b \in Broadcasts
        /\ worker'[w].b = worker[w].b /\ worker'[w].rows = worker[w].rows
    BY <1>t, <1>2, DeliverShape
  <2>2. PICK u \in worker[w].todo :
           /\ u \in Users /\ u \in DOMAIN worker[w].rows /\ worker[w].rows[u] \in Row
           /\ worker'[w].todo = worker[w].todo \ {u}
           /\ \A v \in DOMAIN worker[w].rows \ worker[w].todo :
                 worker'[w].outcome[v] = worker[w].outcome[v]
           /\ worker'[w].outcome[u] = "sent" <=> answer = "ok"
           /\ worker'[w].outcome[u] = "retry" => worker[w].rows[u].tries < MaxTries
           /\ arrived' = IF answer = "ok" THEN Reached(worker[w].b, u, worker[w].rows[u]) ELSE arrived
    BY <1>t, <1>2, DeliverShape
  <2>3. /\ arrived' \in {arrived, Reached(worker[w].b, u, worker[w].rows[u])}
        /\ worker'[w].outcome[u] = "sent" \/ arrived' = arrived
    BY <2>2
  <2>4. QED
    BY <2>1, <2>2, <2>3, ArrivalSound
<1>3. QED
  BY <1>1, <1>2

\* A run records a page: the rows that are still those of the page are resolved.
LEMMA RecordShape ==
    ASSUME DeliveryInv, NEW w \in Workers, Record(w), NEW b, b = worker[w].b
    PROVE  /\ TypeOK' /\ b \in Broadcasts /\ worker[w].at = "delivering"
           /\ UNCHANGED <<broadcast, snapshots, arrived, summaries, overlapped>>
           /\ worker'[w].at \in {"checking", "sending"} /\ worker'[w].b = b
           /\ \A v \in Workers \ {w} : worker'[v] = worker[v]
           /\ \A c \in Broadcasts \ {b} : delivery'[c] = delivery[c]
           /\ \A u \in Users : person'[u] = "erased" <=> person[u] = "erased"
           /\ \A u \in Users :
                 \/ /\ delivery'[b][u] = delivery[b][u]
                    /\ delivery[b][u] # NoRow /\ u \in DOMAIN worker[w].rows =>
                          delivery[b][u].born # worker[w].rows[u].born
                 \/ /\ u \in DOMAIN worker[w].rows /\ PageSound(w, u)
                    /\ delivery[b][u] # NoRow /\ delivery[b][u] = worker[w].rows[u]
                    /\ delivery'[b][u] # NoRow
                    /\ delivery'[b][u].born = delivery[b][u].born
                    /\ delivery'[b][u].lang = delivery[b][u].lang
                    /\ u \in worker[w].todo => /\ delivery'[b][u].status = "retry"
                                               /\ delivery'[b][u].tries = delivery[b][u].tries - 1
                    /\ u \notin worker[w].todo => /\ delivery'[b][u].status = worker[w].outcome[u]
                                                  /\ worker[w].outcome[u] \in Outcomes
                                                  /\ delivery'[b][u].tries = delivery[b][u].tries
<1> DEFINE page == worker[w]
           still == {u \in DOMAIN page.rows :
                        delivery[b][u] # NoRow /\ delivery[b][u].born = page.rows[u].born}
           f == [u \in Users |-> IF u \in still THEN Resolved(page, u, delivery[b][u]) ELSE delivery[b][u]]
           next == IF page.halted THEN "checking" ELSE "sending"
<1>t. TypeOK
  BY DEF DeliveryInv
<1>1. worker[w].at = "delivering" /\ b \in Broadcasts /\ IsPage(page) /\ DOMAIN page.rows \subseteq Users
  BY <1>t, RunFacts DEF Record, IsPage
<1>2. \A u \in still :
         /\ u \in Users /\ u \in DOMAIN page.rows /\ PageSound(w, u) /\ delivery[b][u] # NoRow
         /\ delivery[b][u] = page.rows[u] /\ delivery[b][u] \in Row /\ delivery[b][u].tries >= 1
  <2> TAKE u \in still
  <2>1. u \in Users /\ u \in DOMAIN page.rows /\ PageSound(w, u) /\ delivery[b][u] # NoRow
        /\ delivery[b][u].born = page.rows[u].born
    BY <1>1 DEF DeliveryInv, PagesSound
  <2>2. delivery[b][u] = page.rows[u] /\ delivery[b][u].tries >= 1
    BY <2>1 DEF PageSound
  <2>3. delivery[b][u] \in Row
    BY <1>t, <1>1, <2>1 DEF TypeOK
  <2>4. QED
    BY <2>1, <2>2, <2>3
<1>3. \A u \in still :
         LET row == delivery[b][u] IN
         /\ Resolved(page, u, row) \in Row /\ Resolved(page, u, row) # NoRow
         /\ Resolved(page, u, row).born = row.born /\ Resolved(page, u, row).lang = row.lang
         /\ u \in page.todo => /\ Resolved(page, u, row).status = "retry"
                               /\ Resolved(page, u, row).tries = row.tries - 1
         /\ u \notin page.todo => /\ Resolved(page, u, row).status = page.outcome[u]
                                  /\ Resolved(page, u, row).tries = row.tries
                                  /\ page.outcome[u] \in Outcomes
  <2> HIDE DEF still, page
  <2> QED BY <1>1, <1>2, ResolvedRow, NoRowAssumption
<1>4. /\ delivery' = [delivery EXCEPT ![b] = f] /\ GoTo(w, next)
      /\ UNCHANGED <<broadcast, snapshots, arrived, summaries, overlapped>>
      /\ person' = [u \in Users |->
            IF person[u] = "member" /\ u \in DOMAIN page.outcome /\ page.outcome[u] = "skipped"
                THEN "left" ELSE person[u]]
  BY DEF Record
<1>5. \A u \in Users : /\ u \in still => f[u] = Resolved(page, u, delivery[b][u])
                       /\ u \notin still => f[u] = delivery[b][u]
  OBVIOUS
<1>6. f \in [Users -> Row \cup {NoRow}]
  <2>1. \A u \in Users : delivery[b][u] \in Row \cup {NoRow}
    BY <1>t, <1>1 DEF TypeOK
  <2> HIDE DEF still
  <2>2. QED
    BY <1>3, <2>1
<1> HIDE DEF f
<1>7. /\ delivery' \in [Broadcasts -> [Users -> Row \cup {NoRow}]]
      /\ delivery'[b] = f /\ \A c \in Broadcasts \ {b} : delivery'[c] = delivery[c]
  BY <1>t, <1>1, <1>4, <1>6, RowsOf
<1>8. next \in {"checking", "sending"}
  OBVIOUS
<1> HIDE DEF next
<1>9. /\ worker'[w] = [at |-> next, b |-> worker[w].b]
      /\ \A v \in Workers \ {w} : worker'[v] = worker[v]
      /\ DOMAIN worker' = Workers
      /\ \A v \in Workers : worker'[v] = Idle \/ worker'[v] \in Run \/ IsPage(worker'[v])
  BY <1>t, <1>1, <1>4, <1>8, GoneTo
<1>10. /\ person' \in [Users -> {"member", "left", "erased"}]
       /\ \A u \in Users : person'[u] = "erased" <=> person[u] = "erased"
  BY <1>t, <1>4 DEF TypeOK
<1>11. TypeOK'
  BY <1>t, <1>4, <1>7, <1>9, <1>10 DEF TypeOK
<1>12. \A u \in Users : u \notin still =>
          (delivery[b][u] # NoRow /\ u \in DOMAIN page.rows => delivery[b][u].born # page.rows[u].born)
  OBVIOUS
<1> HIDE DEF still
<1>13. QED
  BY <1>1, <1>2, <1>3, <1>4, <1>5, <1>7, <1>8, <1>9, <1>10, <1>11, <1>12

\* What is to be tried again is recorded with attempts left, and has not arrived; no
\* other page has the rows that change.
LEMMA RecordSound ==
    ASSUME DeliveryInv, NEW w \in Workers, Record(w)
    PROVE  DeliveryInv'
<1>1. PICK b : b = worker[w].b
  OBVIOUS
<1>t. TypeOK
  BY DEF DeliveryInv
<1>2. /\ TypeOK' /\ b \in Broadcasts /\ UNCHANGED <<snapshots, arrived>>
      /\ worker[w].at = "delivering" /\ worker'[w].at # "delivering"
      /\ \A v \in Workers \ {w} : worker'[v] = worker[v]
      /\ \A c \in Broadcasts \ {b} : delivery'[c] = delivery[c]
  BY <1>1, RecordShape
<1>3. \A u \in Users :
         \/ delivery'[b][u] = delivery[b][u]
         \/ /\ u \in DOMAIN worker[w].rows /\ PageSound(w, u)
            /\ delivery[b][u] # NoRow /\ delivery[b][u] = worker[w].rows[u]
            /\ delivery'[b][u] # NoRow
            /\ delivery'[b][u].born = delivery[b][u].born
            /\ u \in worker[w].todo => /\ delivery'[b][u].status = "retry"
                                       /\ delivery'[b][u].tries = delivery[b][u].tries - 1
            /\ u \notin worker[w].todo => /\ delivery'[b][u].status = worker[w].outcome[u]
                                          /\ worker[w].outcome[u] \in Outcomes
                                          /\ delivery'[b][u].tries = delivery[b][u].tries
  BY <1>1, RecordShape
<1>4. ArrivalsKnown' /\ OncePerSnapshot'
  BY <1>2 DEF DeliveryInv, ArrivalsKnown, OncePerSnapshot
<1>5. RowsSound'
  <2> SUFFICES ASSUME NEW c \in Broadcasts, NEW u \in Users PROVE RowSound(c, u)'
    BY DEF RowsSound
  <2>1. RowSound(c, u) /\ (delivery[c][u] # NoRow => delivery[c][u] \in Row)
    BY <1>t DEF DeliveryInv, RowsSound, TypeOK
  <2>2. CASE delivery'[c][u] = delivery[c][u]
    BY <1>2, <2>1, <2>2 DEF RowSound
  <2>3. CASE c = b /\ delivery'[b][u] # delivery[b][u]
    <3>1. /\ PageSound(w, u) /\ delivery[b][u] # NoRow /\ delivery[b][u] = worker[w].rows[u]
          /\ delivery'[b][u] # NoRow /\ delivery'[b][u].born = delivery[b][u].born
          /\ u \in worker[w].todo => /\ delivery'[b][u].status = "retry"
                                     /\ delivery'[b][u].tries = delivery[b][u].tries - 1
          /\ u \notin worker[w].todo => /\ delivery'[b][u].status = worker[w].outcome[u]
                                        /\ worker[w].outcome[u] \in Outcomes
                                        /\ delivery'[b][u].tries = delivery[b][u].tries
      BY <1>3, <2>3
    <3>2. delivery[b][u].tries \in 0 .. MaxTries /\ delivery[b][u].born <= snapshots[b]
      BY <2>1, <2>3, <3>1 DEF RowSound, Row
    <3>3. CASE u \in worker[w].todo
      <4>1. delivery'[b][u].tries < MaxTries
        BY <3>1, <3>2, <3>3, BroadcastAssumption
      <4>2. delivery'[b][u].born \notin Entries(arrived[b][u])
        BY <1>1, <3>1, <3>3 DEF PageSound
      <4>3. QED
        BY <1>2, <2>3, <3>1, <3>2, <3>3, <4>1, <4>2 DEF RowSound
    <3>4. CASE u \notin worker[w].todo
      <4>1. delivery'[b][u].status \in Waiting =>
               delivery'[b][u].tries < MaxTries /\ delivery'[b][u].born \notin Entries(arrived[b][u])
        BY <1>1, <3>1, <3>4 DEF PageSound, Waiting, Outcomes
      <4>2. delivery'[b][u].status # "in_progress"
        BY <3>1, <3>4 DEF Outcomes
      <4>3. QED
        BY <1>2, <2>3, <3>1, <3>2, <4>1, <4>2 DEF RowSound
    <3>5. QED
      BY <3>3, <3>4
  <2>4. QED
    BY <1>2, <2>2, <2>3
<1>6. PagesSound'
  <2> SUFFICES ASSUME NEW v \in Workers, worker'[v].at = "delivering", NEW u \in DOMAIN worker'[v].rows
               PROVE  PageSound(v, u)'
    BY DEF PagesSound
  <2>1. v # w /\ worker'[v] = worker[v] /\ worker[v].at = "delivering" /\ PageSound(v, u)
    BY <1>2 DEF DeliveryInv, PagesSound
  <2>2. worker[v].b \in Broadcasts /\ u \in Users
    BY <1>t, <2>1, RunFacts DEF IsPage
  <2>3. CASE delivery'[worker[v].b][u] = delivery[worker[v].b][u]
    BY <1>2, <2>1, <2>3 DEF PageSound
  <2>4. CASE worker[v].b = b /\ delivery'[b][u] # delivery[b][u]
    <3>1. /\ u \in DOMAIN worker[w].rows /\ delivery[b][u] = worker[w].rows[u]
          /\ delivery'[b][u].born = delivery[b][u].born
      BY <1>3, <2>2, <2>4
    <3>2. worker[v].rows[u].born # worker[w].rows[u].born
      BY <1>1, <1>2, <2>1, <2>4, <3>1 DEF DeliveryInv, PagesAreDisjoint
    <3>3. QED
      BY <1>2, <2>1, <2>4, <3>1, <3>2 DEF PageSound
  <2>5. QED
    BY <1>2, <2>2, <2>3, <2>4
<1>7. PagesAreDisjoint'
  <2> SUFFICES ASSUME NEW x \in Workers, NEW v \in Workers, x # v,
                      worker'[x].at = "delivering", worker'[v].at = "delivering",
                      worker'[x].b = worker'[v].b,
                      NEW u \in DOMAIN worker'[x].rows \cap DOMAIN worker'[v].rows,
                      worker'[x].rows[u].born = worker'[v].rows[u].born
               PROVE  FALSE
    BY DEF PagesAreDisjoint
  <2>1. worker'[x] = worker[x] /\ worker'[v] = worker[v]
    BY <1>2
  <2>2. QED
    BY <2>1 DEF DeliveryInv, PagesAreDisjoint
<1>8. QED
  BY <1>2, <1>4, <1>5, <1>6, <1>7 DEF DeliveryInv

LEMMA FiniteRows ==
    ASSUME NEW T \in SUBSET Users
    PROVE  IsFiniteSet(T) /\ Cardinality(T) \in Nat
<1>1. IsFiniteSet(T)
  BY BroadcastAssumption, FS_Subset
<1>2. QED
  BY <1>1, FS_CardinalityType

LEMMA CountsAreNumbers ==
    ASSUME NEW b \in Broadcasts
    PROVE  CountsOf(b) \in Counts
<1>1. ASSUME NEW s PROVE InCount(b, s) \in Nat
  <2>1. {u \in InStatus(b, s) : delivery[b][u].lang \in broadcast[b].languages} \in SUBSET Users
    BY DEF InStatus, Listed
  <2>2. QED
    BY <2>1, FiniteRows DEF InCount
<1>2. QED
  BY <1>1 DEF CountsOf, Counts

\* A run closes a broadcast that is open; the rows that wait fail with it, and the
\* counts are of the rows as they were.
LEMMA FinalizeShape ==
    ASSUME TypeOK, NEW w \in Workers, Finalize(w), NEW b, b = worker[w].b
    PROVE  /\ TypeOK' /\ b \in Broadcasts /\ worker[w].at = "closing"
           /\ UNCHANGED <<person, snapshots, arrived, summaries, overlapped>>
           /\ worker'[w].at = "purging" /\ worker'[w].b = b
           /\ worker'[w].won = (broadcast[b].status = "sending")
           /\ \A v \in Workers \ {w} : worker'[v] = worker[v]
           /\ \A c \in Broadcasts \ {b} : delivery'[c] = delivery[c] /\ broadcast'[c] = broadcast[c]
           /\ broadcast'[b].counts = CountsOf(b)
           /\ broadcast'[b].total = broadcast[b].total
           /\ broadcast'[b].languages = broadcast[b].languages
           /\ broadcast[b].status = "sending" => broadcast'[b].status = worker[w].final
           /\ broadcast[b].status # "sending" => broadcast'[b].status = broadcast[b].status
           /\ worker[w].final \in Terminal
           /\ \A u \in Users :
                 \/ /\ delivery'[b][u] = delivery[b][u]
                    /\ delivery[b][u] # NoRow => delivery[b][u].status \notin Waiting
                 \/ /\ delivery[b][u] # NoRow /\ delivery[b][u].status \in Waiting
                    /\ u \in Unfinished(b)
                    /\ delivery'[b][u] # NoRow /\ delivery'[b][u].status = "failed"
                    /\ delivery'[b][u].born = delivery[b][u].born
                    /\ delivery'[b][u].lang = delivery[b][u].lang
                    /\ delivery'[b][u].tries = delivery[b][u].tries
<1> DEFINE s == IF broadcast[b].status = "sending" THEN worker[w].final ELSE broadcast[b].status
           c == CountsOf(b)
           r == [broadcast[b] EXCEPT !.counts = c, !.status = s]
           x == [at |-> "purging", b |-> b, won |-> (broadcast[b].status = "sending")]
           f == [u \in Users |-> IF u \in InStatus(b, Waiting)
                    THEN [delivery[b][u] EXCEPT !.status = "failed"] ELSE delivery[b][u]]
<1>1. worker[w].at = "closing" /\ b \in Broadcasts /\ worker[w].final \in Terminal
  BY RunFacts DEF Finalize
<1>2. broadcast[b] \in BroadcastRow
  BY <1>1 DEF TypeOK, BroadcastRow
<1>3. s \in {"unused", "draft", "discarded"} \cup Open \cup Terminal /\ c \in Counts
  BY <1>1, <1>2, CountsAreNumbers DEF BroadcastRow
<1>4. r \in BroadcastRow
  <2> HIDE DEF s, c
  <2>1. QED
    BY <1>2, <1>3, Zenon DEF BroadcastRow
<1>5. r.status = s /\ r.counts = c /\ r.total = broadcast[b].total /\ r.languages = broadcast[b].languages
  <2> HIDE DEF s, c
  <2>1. QED
    BY <1>2 DEF BroadcastRow
<1>6. /\ broadcast' = [broadcast EXCEPT ![b] = r]
      /\ delivery' = [delivery EXCEPT ![b] = f] /\ worker' = [worker EXCEPT ![w] = x]
      /\ UNCHANGED <<person, snapshots, arrived, summaries, overlapped>>
  BY DEF Finalize, Closes
<1>7. x \in Run /\ x.at = "purging" /\ x.b = b /\ x.won = (broadcast[b].status = "sending")
  BY <1>1 DEF Run
<1>8. \A u \in Users :
         \/ /\ f[u] = delivery[b][u]
            /\ delivery[b][u] # NoRow => delivery[b][u].status \notin Waiting
         \/ /\ delivery[b][u] # NoRow /\ delivery[b][u].status \in Waiting /\ u \in Unfinished(b)
            /\ f[u] \in Row /\ f[u] # NoRow /\ f[u].status = "failed"
            /\ f[u].born = delivery[b][u].born /\ f[u].lang = delivery[b][u].lang
            /\ f[u].tries = delivery[b][u].tries
  <2> TAKE u \in Users
  <2>1. CASE u \in InStatus(b, Waiting)
    <3>1. delivery[b][u] \in Row /\ delivery[b][u] # NoRow /\ delivery[b][u].status \in Waiting
      BY <1>1, <2>1 DEF InStatus, Listed, TypeOK
    <3>2. f[u] = [delivery[b][u] EXCEPT !.status = "failed"]
      BY <2>1
    <3>3. [delivery[b][u] EXCEPT !.status = "failed"] \in Row
      <4>1. "failed" \in Waiting \cup {"in_progress"} \cup Outcomes
        BY DEF Outcomes
      <4>2. QED
        BY <3>1, <4>1, Zenon DEF Row
    <3>4. f[u] # NoRow
      BY <3>2, <3>3, NoRowAssumption
    <3>5. u \in Unfinished(b)
      BY <2>1 DEF Unfinished
    <3> HIDE DEF f
    <3>6. QED
      BY <3>1, <3>2, <3>3, <3>4, <3>5 DEF Row
  <2>2. CASE u \notin InStatus(b, Waiting)
    BY <2>2 DEF InStatus, Listed
  <2>3. QED
    BY <2>1, <2>2
<1>9. f \in [Users -> Row \cup {NoRow}]
  <2>1. f = [u \in Users |-> f[u]] /\ \A u \in Users : delivery[b][u] \in Row \cup {NoRow}
    BY <1>1 DEF TypeOK
  <2> HIDE DEF f
  <2>2. QED
    BY <1>8, <2>1
<1>10. /\ broadcast[b].status = "sending" => s = worker[w].final
       /\ broadcast[b].status # "sending" => s = broadcast[b].status
  OBVIOUS
<1> HIDE DEF r, x, f, s
<1>11. /\ broadcast' \in [Broadcasts -> BroadcastRow]
       /\ broadcast'[b] = r /\ \A d \in Broadcasts \ {b} : broadcast'[d] = broadcast[d]
  BY <1>1, <1>4, <1>6, BroadcastOf
<1>12. /\ delivery' \in [Broadcasts -> [Users -> Row \cup {NoRow}]]
       /\ delivery'[b] = f /\ \A d \in Broadcasts \ {b} : delivery'[d] = delivery[d]
  BY <1>1, <1>6, <1>9, RowsOf
<1>13. /\ worker'[w] = x /\ \A v \in Workers \ {w} : worker'[v] = worker[v]
       /\ DOMAIN worker' = Workers
       /\ \A v \in Workers : worker'[v] = Idle \/ worker'[v] \in Run \/ IsPage(worker'[v])
  BY <1>6, <1>7, RunMoves
<1>14. TypeOK'
  BY <1>6, <1>11, <1>12, <1>13 DEF TypeOK, BroadcastRow
<1>15. QED
  BY <1>1, <1>5, <1>6, <1>7, <1>8, <1>10, <1>11, <1>12, <1>13, <1>14

\* The rows of a broadcast that is closed go.
LEMMA PurgeShape ==
    ASSUME TypeOK, NEW w \in Workers, Purge(w), NEW b, b = worker[w].b
    PROVE  /\ TypeOK' /\ b \in Broadcasts /\ worker[w].at = "purging"
           /\ UNCHANGED <<broadcast, person, snapshots, arrived, summaries, overlapped>>
           /\ \A v \in Workers \ {w} : worker'[v] = worker[v]
           /\ \A c \in Broadcasts \ {b} : delivery'[c] = delivery[c]
           /\ \A u \in Users : delivery'[b][u] = NoRow
           /\ worker[w].won => worker'[w].at = "reporting" /\ worker'[w].b = b
           /\ ~worker[w].won => worker'[w] = Idle
<1> DEFINE x == IF worker[w].won THEN [at |-> "reporting", b |-> b] ELSE Idle
           f == [u \in Users |-> NoRow]
<1>1. worker[w].at = "purging" /\ b \in Broadcasts /\ worker[w].won \in BOOLEAN
  BY RunFacts DEF Purge
<1>2. x = Idle \/ x \in Run
  BY <1>1 DEF Run
<1>3. /\ delivery' = [delivery EXCEPT ![b] = f] /\ worker' = [worker EXCEPT ![w] = x]
      /\ UNCHANGED <<broadcast, person, snapshots, arrived, summaries, overlapped>>
  BY DEF Purge
<1>4. f \in [Users -> Row \cup {NoRow}] /\ \A u \in Users : f[u] = NoRow
  OBVIOUS
<1>5. /\ worker[w].won => x.at = "reporting" /\ x.b = b
      /\ ~worker[w].won => x = Idle
  OBVIOUS
<1> HIDE DEF x, f
<1>6. /\ delivery' \in [Broadcasts -> [Users -> Row \cup {NoRow}]]
      /\ delivery'[b] = f /\ \A d \in Broadcasts \ {b} : delivery'[d] = delivery[d]
  BY <1>1, <1>3, <1>4, RowsOf
<1>7. /\ worker'[w] = x /\ \A v \in Workers \ {w} : worker'[v] = worker[v]
      /\ DOMAIN worker' = Workers
      /\ \A v \in Workers : worker'[v] = Idle \/ worker'[v] \in Run \/ IsPage(worker'[v])
  BY <1>2, <1>3, RunMoves
<1>8. TypeOK'
  BY <1>3, <1>6, <1>7 DEF TypeOK
<1>9. QED
  BY <1>1, <1>3, <1>4, <1>5, <1>6, <1>7, <1>8

LEMMA ReportShape ==
    ASSUME TypeOK, NEW w \in Workers, Report(w), NEW b, b = worker[w].b
    PROVE  /\ TypeOK' /\ b \in Broadcasts /\ worker[w].at = "reporting"
           /\ UNCHANGED <<broadcast, delivery, person, snapshots, arrived, overlapped>>
           /\ worker'[w] = Idle /\ \A v \in Workers \ {w} : worker'[v] = worker[v]
           /\ summaries'[b] = summaries[b] + 1
           /\ \A c \in Broadcasts \ {b} : summaries'[c] = summaries[c]
<1>1. worker[w].at = "reporting" /\ b \in Broadcasts
  BY RunFacts DEF Report
<1>2. /\ worker' = [worker EXCEPT ![w] = Idle] /\ summaries' = [summaries EXCEPT ![b] = summaries[b] + 1]
      /\ UNCHANGED <<broadcast, delivery, person, snapshots, arrived, overlapped>>
  BY DEF Report
<1>3. /\ worker'[w] = Idle /\ \A v \in Workers \ {w} : worker'[v] = worker[v]
      /\ DOMAIN worker' = Workers
      /\ \A v \in Workers : worker'[v] = Idle \/ worker'[v] \in Run \/ IsPage(worker'[v])
  BY <1>2, RunMoves
<1>4. /\ summaries' \in [Broadcasts -> Nat] /\ summaries'[b] = summaries[b] + 1
      /\ \A c \in Broadcasts \ {b} : summaries'[c] = summaries[c]
  BY <1>1, <1>2 DEF TypeOK
<1>5. TypeOK'
  BY <1>2, <1>3, <1>4 DEF TypeOK
<1>6. QED
  BY <1>1, <1>2, <1>3, <1>4, <1>5

\* What happens to a broadcast from outside: a row falls due, a recipient moves, or is erased.
LEMMA OutsideShape ==
    ASSUME TypeOK,
           \/ \E b \in Broadcasts, u \in Users : ComeDue(b, u)
           \/ \E u \in Users : Move(u) \/ Erase(u)
    PROVE  /\ TypeOK'
           /\ UNCHANGED <<broadcast, worker, snapshots, arrived, summaries, overlapped>>
           /\ \A b \in Broadcasts, u \in Users :
                 \/ delivery'[b][u] = delivery[b][u]
                 \/ /\ delivery[b][u] # NoRow /\ delivery[b][u].status = "retry"
                    /\ delivery'[b][u] # NoRow /\ delivery'[b][u].status = "retry"
                    /\ delivery'[b][u].born = delivery[b][u].born
                    /\ delivery'[b][u].tries = delivery[b][u].tries
                    /\ delivery'[b][u].lang = delivery[b][u].lang
                 \/ delivery'[b][u] = NoRow /\ person'[u] = "erased"
           /\ \A u \in Users : person[u] = "erased" => person'[u] = "erased"
<1>1. CASE \E b \in Broadcasts, u \in Users : ComeDue(b, u)
  <2>1. PICK b \in Broadcasts, u \in Users : ComeDue(b, u)
    BY <1>1
  <2> DEFINE r == [delivery[b][u] EXCEPT !.due = TRUE]
             f == [delivery[b] EXCEPT ![u] = r]
  <2>2. delivery[b][u] \in Row /\ delivery[b][u] # NoRow /\ delivery[b][u].status = "retry"
    BY <2>1 DEF ComeDue, TypeOK
  <2>3. r \in Row
    <3>1. TRUE \in BOOLEAN
      OBVIOUS
    <3>2. QED
      BY <2>2, <3>1, Zenon DEF Row
  <2>4. /\ r # NoRow /\ r.status = "retry" /\ r.born = delivery[b][u].born
        /\ r.tries = delivery[b][u].tries /\ r.lang = delivery[b][u].lang
    BY <2>2, <2>3, NoRowAssumption DEF Row
  <2>5. /\ delivery' = [delivery EXCEPT ![b] = f]
        /\ UNCHANGED <<broadcast, person, worker, snapshots, arrived, summaries, overlapped>>
    BY <2>1 DEF ComeDue
  <2> HIDE DEF r
  <2>6. /\ f \in [Users -> Row \cup {NoRow}] /\ f[u] = r
        /\ \A v \in Users \ {u} : f[v] = delivery[b][v]
    BY <2>3 DEF TypeOK
  <2> HIDE DEF f
  <2>7. /\ delivery' \in [Broadcasts -> [Users -> Row \cup {NoRow}]]
        /\ delivery'[b] = f /\ \A d \in Broadcasts \ {b} : delivery'[d] = delivery[d]
    BY <2>5, <2>6, RowsOf
  <2>8. TypeOK'
    BY <2>5, <2>7 DEF TypeOK
  <2>9. QED
    BY <2>2, <2>4, <2>5, <2>6, <2>7, <2>8
<1>2. ASSUME NEW u \in Users, Move(u)
      PROVE  /\ UNCHANGED <<broadcast, delivery, worker, snapshots, arrived, summaries, overlapped>>
             /\ person' \in [Users -> {"member", "left", "erased"}]
             /\ \A v \in Users : person[v] = "erased" => person'[v] = "erased"
  BY <1>2 DEF Move, TypeOK
<1>3. CASE \E u \in Users : Move(u)
  <2>1. /\ UNCHANGED <<broadcast, delivery, worker, snapshots, arrived, summaries, overlapped>>
        /\ person' \in [Users -> {"member", "left", "erased"}]
        /\ \A v \in Users : person[v] = "erased" => person'[v] = "erased"
    BY <1>2, <1>3
  <2>2. TypeOK'
    BY <2>1 DEF TypeOK
  <2>3. QED
    BY <2>1, <2>2
<1>4. CASE \E u \in Users : Erase(u)
  <2>1. PICK u \in Users : Erase(u)
    BY <1>4
  <2>2. UNCHANGED <<broadcast, worker, snapshots, arrived, summaries, overlapped>>
    BY <2>1 DEF Erase
  <2>3. /\ person' \in [Users -> {"member", "left", "erased"}] /\ person'[u] = "erased"
        /\ \A v \in Users \ {u} : person'[v] = person[v]
    BY <2>1 DEF Erase, TypeOK
  <2>4. /\ delivery' \in [Broadcasts -> [Users -> Row \cup {NoRow}]]
        /\ \A b \in Broadcasts : delivery'[b][u] = NoRow
        /\ \A b \in Broadcasts, v \in Users \ {u} : delivery'[b][v] = delivery[b][v]
    BY <2>1 DEF Erase, TypeOK
  <2>5. TypeOK'
    BY <2>2, <2>3, <2>4 DEF TypeOK
  <2>6. QED
    BY <2>2, <2>3, <2>4, <2>5
<1>5. QED
  BY <1>1, <1>3, <1>4

-----------------------------------------------------------------------------
(* Each recipient of one audience is written to once *)

LEMMA RowsThatEndSound ==
    ASSUME DeliveryInv, NEW w \in Workers, Finalize(w) \/ Purge(w) \/ Report(w)
    PROVE  DeliveryInv'
<1>t. TypeOK
  BY DEF DeliveryInv
<1>1. PICK b : b = worker[w].b
  OBVIOUS
<1>2. CASE Finalize(w)
  <2>1. /\ TypeOK' /\ b \in Broadcasts /\ UNCHANGED <<snapshots, arrived>> /\ worker'[w].at # "delivering"
        /\ \A v \in Workers \ {w} : worker'[v] = worker[v]
        /\ \A c \in Broadcasts \ {b} : delivery'[c] = delivery[c]
        /\ \A u \in Users :
              \/ delivery'[b][u] = delivery[b][u]
              \/ /\ delivery[b][u] # NoRow /\ delivery[b][u].status \in Waiting
                 /\ delivery'[b][u].status = "failed"
                 /\ delivery'[b][u].born = delivery[b][u].born
                 /\ delivery'[b][u].tries = delivery[b][u].tries
    BY <1>t, <1>1, <1>2, FinalizeShape
  <2>2. \A v \in Workers : worker'[v].at = "delivering" => worker'[v] = worker[v]
    BY <2>1
  <2>3. \A c \in Broadcasts, u \in Users : delivery'[c][u] # NoRow =>
           /\ delivery[c][u] # NoRow
           /\ \/ delivery'[c][u] = delivery[c][u]
              \/ /\ delivery[c][u].status \in Waiting
                 /\ delivery'[c][u].status \in Waiting \cup {"failed"}
                 /\ delivery'[c][u].born = delivery[c][u].born
                 /\ delivery'[c][u].tries = delivery[c][u].tries
    BY <2>1
  <2>4. QED
    BY <2>1, <2>2, <2>3, FewerRowsKeep
<1>3. CASE Purge(w)
  <2>1. /\ TypeOK' /\ b \in Broadcasts /\ UNCHANGED <<snapshots, arrived>>
        /\ worker'[w].at # "delivering"
        /\ \A v \in Workers \ {w} : worker'[v] = worker[v]
        /\ \A c \in Broadcasts \ {b} : delivery'[c] = delivery[c]
        /\ \A u \in Users : delivery'[b][u] = NoRow
    <3>1. worker[w].won \in BOOLEAN
      BY <1>t, <1>3, RunFacts DEF Purge
    <3>2. QED
      BY <1>t, <1>1, <1>3, <3>1, PurgeShape DEF Idle
  <2>2. \A v \in Workers : worker'[v].at = "delivering" => worker'[v] = worker[v]
    BY <2>1
  <2>3. \A c \in Broadcasts, u \in Users : delivery'[c][u] # NoRow =>
           /\ delivery[c][u] # NoRow
           /\ \/ delivery'[c][u] = delivery[c][u]
              \/ /\ delivery[c][u].status \in Waiting
                 /\ delivery'[c][u].status \in Waiting \cup {"failed"}
                 /\ delivery'[c][u].born = delivery[c][u].born
                 /\ delivery'[c][u].tries = delivery[c][u].tries
    BY <2>1
  <2>4. QED
    BY <2>1, <2>2, <2>3, FewerRowsKeep
<1>4. CASE Report(w)
  <2>1. /\ TypeOK' /\ UNCHANGED <<delivery, snapshots, arrived>> /\ worker'[w].at # "delivering"
        /\ \A v \in Workers \ {w} : worker'[v] = worker[v]
    BY <1>t, <1>1, <1>4, ReportShape DEF Idle
  <2>2. \A v \in Workers : worker'[v].at = "delivering" => worker'[v] = worker[v]
    BY <2>1
  <2>3. QED
    BY <2>1, <2>2, QuietKeeps
<1>5. QED
  BY <1>2, <1>3, <1>4

LEMMA OutsideSound ==
    ASSUME DeliveryInv,
           \/ \E b \in Broadcasts, u \in Users : ComeDue(b, u)
           \/ \E u \in Users : Move(u) \/ Erase(u)
    PROVE  DeliveryInv'
<1>1. /\ TypeOK' /\ UNCHANGED <<worker, snapshots, arrived>>
      /\ \A b \in Broadcasts, u \in Users :
            \/ delivery'[b][u] = delivery[b][u]
            \/ /\ delivery[b][u] # NoRow /\ delivery[b][u].status = "retry"
               /\ delivery'[b][u].status = "retry"
               /\ delivery'[b][u].born = delivery[b][u].born
               /\ delivery'[b][u].tries = delivery[b][u].tries
            \/ delivery'[b][u] = NoRow
  BY OutsideShape DEF DeliveryInv
<1>2. \A v \in Workers : worker'[v].at = "delivering" => worker'[v] = worker[v]
  BY <1>1
<1>3. \A c \in Broadcasts, u \in Users : delivery'[c][u] # NoRow =>
         /\ delivery[c][u] # NoRow
         /\ \/ delivery'[c][u] = delivery[c][u]
            \/ /\ delivery[c][u].status \in Waiting
               /\ delivery'[c][u].status \in Waiting \cup {"failed"}
               /\ delivery'[c][u].born = delivery[c][u].born
               /\ delivery'[c][u].tries = delivery[c][u].tries
  BY <1>1 DEF Waiting
<1>4. QED
  BY <1>1, <1>2, <1>3, FewerRowsKeep

\* The other steps of a run move it alone, or take no page on.
LEMMA RunSound ==
    ASSUME DeliveryInv, NEW w \in Workers,
           \/ \E b \in Broadcasts : Claim(w, b)
           \/ CountAudience(w) \/ CheckUnfinished(w) \/ Crash(w) \/ ResetAttempts(w)
    PROVE  DeliveryInv'
<1>t. TypeOK
  BY DEF DeliveryInv
<1>1. /\ TypeOK' /\ UNCHANGED <<delivery, snapshots, arrived>> /\ worker'[w].at # "delivering"
      /\ \A v \in Workers \ {w} : worker'[v] = worker[v]
  <2>1. CASE \E b \in Broadcasts : Claim(w, b)
    <3>1. PICK b \in Broadcasts : Claim(w, b)
      BY <2>1
    <3>2. QED
      BY <1>t, <3>1, ClaimShape
  <2>2. CASE CountAudience(w) \/ CheckUnfinished(w) \/ Crash(w)
    BY <1>t, <2>2, StepAside
  <2>3. CASE ResetAttempts(w)
    BY <1>t, <2>3, ResetShape DEF Idle
  <2>4. QED
    BY <2>1, <2>2, <2>3
<1>2. \A v \in Workers : worker'[v].at = "delivering" => worker'[v] = worker[v]
  BY <1>1
<1>3. QED
  BY <1>1, <1>2, QuietKeeps

LEMMA InitSound == Init => DeliveryInv
<1> SUFFICES ASSUME Init PROVE DeliveryInv
  OBVIOUS
<1>1. Unused \in BroadcastRow
  <2>1. NoCounts \in Counts /\ 0 \in 0 .. MaxAttempts + 1
    BY BroadcastAssumption DEF NoCounts, Counts
  <2>2. QED
    BY <2>1 DEF Unused, BroadcastRow
<1>2. TypeOK
  BY <1>1 DEF Init, TypeOK, BroadcastRow
<1>3. /\ \A w \in Workers : worker[w].at # "delivering"
      /\ \A b \in Broadcasts, u \in Users : delivery[b][u] = NoRow /\ arrived[b][u] = <<>>
  BY DEF Init, Idle
<1>4. 1 .. Len(<<>>) = {}
  OBVIOUS
<1>5. Entries(<<>>) = {}
  BY <1>4 DEF Entries
<1>6. OncePerSnapshot
  BY <1>3, <1>4 DEF OncePerSnapshot
<1>7. QED
  BY <1>2, <1>3, <1>5, <1>6 DEF DeliveryInv, PagesSound, RowsSound, RowSound, ArrivalsKnown, PagesAreDisjoint

\* What is sent, what is recorded of it and what is to be sent agree, whatever runs
\* overlap, stop or lose their connection.
THEOREM DeliveriesCorrect == Spec => []DeliveryInv
<1>1. DeliveryInv /\ [Next]_vars => DeliveryInv'
  <2> SUFFICES ASSUME DeliveryInv, [Next]_vars PROVE DeliveryInv'
    OBVIOUS
  <2>1. CASE UNCHANGED vars
    <3>1. TypeOK' /\ UNCHANGED <<delivery, snapshots, arrived, worker>>
      BY <2>1 DEF vars, DeliveryInv, TypeOK
    <3>2. QED
      BY <3>1, QuietKeeps
  <2>2. CASE Next
    <3>1. CASE \E o \in Operators : Operate(o)
      BY <3>1, OperateSound
    <3>2. ASSUME NEW w \in Workers, Work(w) PROVE DeliveryInv'
      BY <3>2, RunSound, InsertSound, ClaimBatchSound, DeliverSound, RecordSound, RowsThatEndSound DEF Work
    <3>3. ASSUME NEW w \in Workers, LoseConnection(w) \/ Crash(w) PROVE DeliveryInv'
      BY <3>3, RunSound, DeliverSound
    <3>4. CASE \/ \E b \in Broadcasts, u \in Users : ComeDue(b, u)
               \/ \E u \in Users : Move(u) \/ Erase(u)
      BY <3>4, OutsideSound
    <3>5. QED
      BY <2>2, <3>1, <3>2, <3>3, <3>4 DEF Next
  <2>3. QED
    BY <2>1, <2>2
<1>2. QED
  BY <1>1, InitSound, PTL DEF Spec

-----------------------------------------------------------------------------
(* Runs: who works on a broadcast, and who closes it *)

Works(w, b) == worker[w].at # "idle" /\ worker[w].b = b

\* Runs, rows and messages are of broadcasts somebody confirmed and a run claimed.
StartedSound ==
    \A b \in Broadcasts :
        /\ broadcast[b].status \in {"unused", "draft", "discarded", "queued"} =>
              /\ \A w \in Workers : ~Works(w, b)
              /\ \A u \in Users : delivery[b][u] = NoRow /\ arrived[b][u] = <<>>
        /\ broadcast[b].status # "unused" => Fallback \in broadcast[b].languages
        /\ \A u \in Users : delivery[b][u] # NoRow => delivery[b][u].lang \in broadcast[b].languages

\* A run that has closed a broadcast is its only one to report.
Reports(w, b) ==
    /\ Works(w, b)
    /\ worker[w].at = "reporting" \/ (worker[w].at = "purging" /\ worker[w].won)

ReportsSound ==
    \A b \in Broadcasts :
        /\ summaries[b] >= 1 => summaries[b] = 1 /\ broadcast[b].status \in Terminal
        /\ \A w \in Workers : Reports(w, b) =>
              /\ broadcast[b].status \in Terminal /\ summaries[b] = 0
              /\ \A v \in Workers \ {w} : ~Reports(v, b)

\* Of a broadcast no two runs have worked on at once: its run works on an open one up
\* to the close, and closes it as done with nothing left to try.
AloneSound ==
    \A b \in Broadcasts :
        /\ \A v, w \in Workers : v # w /\ Works(v, b) /\ Works(w, b) => b \in overlapped
        /\ b \notin overlapped => \A w \in Workers : Works(w, b) =>
              /\ worker[w].at \notin {"purging", "reporting"} => broadcast[b].status = "sending"
              /\ worker[w].at \in {"purging", "reporting"} => broadcast[b].status \in Terminal
              /\ worker[w].at = "closing" /\ worker[w].final = "done" => Unfinished(b) = {}

RunsInv == StartedSound /\ ReportsSound /\ AloneSound

\* A run that has not closed its broadcast takes a step on it, or stops.
LEMMA RunStays ==
    ASSUME RunsInv, TypeOK, TypeOK', NEW w \in Workers, NEW b \in Broadcasts,
           worker[w].at # "idle", worker[w].b = b,
           UNCHANGED <<summaries, overlapped>>,
           \A v \in Workers \ {w} : worker'[v] = worker[v],
           \A c \in Broadcasts : broadcast'[c].status = broadcast[c].status
                                 /\ broadcast'[c].languages = broadcast[c].languages,
           \A c \in Broadcasts \ {b} : \A u \in Users :
                 delivery'[c][u] = delivery[c][u] /\ arrived'[c][u] = arrived[c][u],
           \A u \in Users : delivery'[b][u] # NoRow => delivery'[b][u].lang \in broadcast[b].languages,
           worker'[w].at # "idle" =>
              /\ worker[w].at \notin {"closing", "purging", "reporting"}
              /\ worker'[w].at \notin {"purging", "reporting"} /\ worker'[w].b = b
              /\ worker'[w].at = "closing" /\ worker'[w].final = "done" => Unfinished(b)' = {}
    PROVE  RunsInv'
<1>1. \A v \in Workers : worker[v] = Idle <=> worker[v].at = "idle"
  BY RunFacts
<1>2. \A c \in Broadcasts, v \in Workers : Works(v, c)' => Works(v, c)
  BY DEF Works
<1>3. Works(w, b)
  BY DEF Works
<1>4. StartedSound'
  <2> SUFFICES ASSUME NEW c \in Broadcasts
               PROVE  /\ broadcast'[c].status \in {"unused", "draft", "discarded", "queued"} =>
                            /\ \A v \in Workers : ~Works(v, c)'
                            /\ \A u \in Users : delivery'[c][u] = NoRow /\ arrived'[c][u] = <<>>
                      /\ broadcast'[c].status # "unused" => Fallback \in broadcast'[c].languages
                      /\ \A u \in Users : delivery'[c][u] # NoRow =>
                            delivery'[c][u].lang \in broadcast'[c].languages
    BY DEF StartedSound
  <2>1. CASE c = b
    BY <1>3, <2>1 DEF RunsInv, StartedSound
  <2>2. CASE c # b
    BY <1>2, <2>2 DEF RunsInv, StartedSound
  <2>3. QED
    BY <2>1, <2>2
<1>5. ReportsSound'
  <2>1. \A c \in Broadcasts, v \in Workers : Reports(v, c)' => Reports(v, c)
    BY <1>2 DEF Reports, Works
  <2>2. QED
    BY <2>1 DEF RunsInv, ReportsSound
<1>6. AloneSound'
  <2>1. ASSUME NEW c \in Broadcasts, NEW v \in Workers, NEW x \in Workers, v # x, Works(v, c)', Works(x, c)'
        PROVE  c \in overlapped'
    BY <1>2, <2>1 DEF RunsInv, AloneSound
  <2>2. ASSUME NEW c \in Broadcasts, c \notin overlapped', NEW v \in Workers, Works(v, c)'
        PROVE  /\ worker'[v].at \notin {"purging", "reporting"} => broadcast'[c].status = "sending"
               /\ worker'[v].at \in {"purging", "reporting"} => broadcast'[c].status \in Terminal
               /\ worker'[v].at = "closing" /\ worker'[v].final = "done" => Unfinished(c)' = {}
    <3>1. /\ Works(v, c)
          /\ worker[v].at \notin {"purging", "reporting"} => broadcast[c].status = "sending"
          /\ worker[v].at \in {"purging", "reporting"} => broadcast[c].status \in Terminal
          /\ worker[v].at = "closing" /\ worker[v].final = "done" => Unfinished(c) = {}
      BY <1>2, <2>2 DEF RunsInv, AloneSound
    <3>2. CASE v = w
      BY <2>2, <3>1, <3>2 DEF Works
    <3>3. CASE v # w
      <4>1. c # b
        BY <1>3, <2>2, <3>1, <3>3 DEF RunsInv, AloneSound
      <4>2. Unfinished(c)' = Unfinished(c)
        BY <4>1 DEF Unfinished, InStatus, Listed
      <4>3. QED
        BY <3>1, <3>3, <4>2
    <3>4. QED
      BY <3>2, <3>3
  <2>3. QED
    BY <2>1, <2>2 DEF AloneSound
<1>7. QED
  BY <1>4, <1>5, <1>6 DEF RunsInv

LEMMA OperateRuns ==
    ASSUME TypeOK, RunsInv, NEW o \in Operators, Operate(o)
    PROVE  RunsInv'
<1>1. /\ UNCHANGED <<delivery, worker, arrived, summaries, overlapped>>
      /\ \A b \in Broadcasts :
            \/ /\ broadcast[b].status = "unused" /\ broadcast'[b].status = "draft"
               /\ Fallback \in broadcast'[b].languages
            \/ /\ broadcast'[b].languages = broadcast[b].languages
               /\ \/ broadcast'[b].status = broadcast[b].status
                  \/ broadcast[b].status = "draft" /\ broadcast'[b].status \in {"discarded", "queued"}
  BY OperateShape
<1>2. StartedSound'
  <2> SUFFICES ASSUME NEW c \in Broadcasts
               PROVE  /\ broadcast'[c].status \in {"unused", "draft", "discarded", "queued"} =>
                            /\ \A v \in Workers : ~Works(v, c)'
                            /\ \A u \in Users : delivery'[c][u] = NoRow /\ arrived'[c][u] = <<>>
                      /\ broadcast'[c].status # "unused" => Fallback \in broadcast'[c].languages
                      /\ \A u \in Users : delivery'[c][u] # NoRow =>
                            delivery'[c][u].lang \in broadcast'[c].languages
    BY DEF StartedSound
  <2>1. \A v \in Workers : Works(v, c)' <=> Works(v, c)
    BY <1>1 DEF Works
  <2>2. CASE broadcast[c].status \in {"unused", "draft"}
    BY <1>1, <2>1, <2>2 DEF RunsInv, StartedSound
  <2>3. CASE /\ broadcast'[c].status = broadcast[c].status
             /\ broadcast'[c].languages = broadcast[c].languages
    BY <1>1, <2>1, <2>3 DEF RunsInv, StartedSound
  <2>4. QED
    BY <1>1, <2>2, <2>3
<1>3. \A c \in Broadcasts : (\E v \in Workers : Works(v, c)) \/ broadcast[c].status \in Terminal =>
         broadcast'[c].status = broadcast[c].status
  BY <1>1 DEF RunsInv, StartedSound, Terminal
<1>4. ReportsSound'
  <2>1. \A c \in Broadcasts, v \in Workers : Reports(v, c)' <=> Reports(v, c)
    BY <1>1 DEF Reports, Works
  <2>2. QED
    BY <1>1, <1>3, <2>1 DEF RunsInv, ReportsSound
<1>5. AloneSound'
  BY <1>1, <1>3 DEF RunsInv, AloneSound, Works, Unfinished, InStatus, Listed
<1>6. QED
  BY <1>2, <1>4, <1>5 DEF RunsInv

LEMMA ClaimRuns ==
    ASSUME TypeOK, RunsInv, NEW w \in Workers, NEW b \in Broadcasts, Claim(w, b)
    PROVE  RunsInv'
<1>1. /\ UNCHANGED <<delivery, arrived, summaries>>
      /\ broadcast[b].status \in Open /\ broadcast'[b].status = "sending"
      /\ broadcast'[b].languages = broadcast[b].languages
      /\ \A c \in Broadcasts \ {b} : broadcast'[c] = broadcast[c]
      /\ worker[w].at = "idle" /\ worker'[w].b = b
      /\ \/ worker'[w].at = "closing" /\ worker'[w].final = "failed"
         \/ worker'[w].at = "claimed"
      /\ \A v \in Workers \ {w} : worker'[v] = worker[v]
      /\ overlapped \subseteq overlapped'
      /\ (\E v \in Workers : worker[v].at # "idle" /\ worker[v].b = b) => b \in overlapped'
  BY ClaimShape
<1>2. /\ \A v \in Workers \ {w} : \A c \in Broadcasts : Works(v, c)' <=> Works(v, c)
      /\ \A c \in Broadcasts : Works(w, c)' => c = b
      /\ ~Works(w, b)
  BY <1>1 DEF Works
<1>3. StartedSound'
  BY <1>1, <1>2 DEF RunsInv, StartedSound, Open
<1>4. ReportsSound'
  <2>1. \A c \in Broadcasts, v \in Workers : Reports(v, c)' => Reports(v, c)
    BY <1>1, <1>2 DEF Reports
  <2>2. \A c \in Broadcasts : broadcast[c].status \in Terminal => broadcast'[c].status = broadcast[c].status
    BY <1>1 DEF Open, Terminal
  <2>3. QED
    BY <1>1, <2>1, <2>2 DEF RunsInv, ReportsSound
<1>5. AloneSound'
  <2>1. ASSUME NEW c \in Broadcasts, NEW v \in Workers, NEW x \in Workers, v # x, Works(v, c)', Works(x, c)'
        PROVE  c \in overlapped'
    <3>1. CASE v # w /\ x # w
      BY <1>1, <1>2, <2>1, <3>1 DEF RunsInv, AloneSound
    <3>2. CASE v = w
      BY <1>1, <1>2, <2>1, <3>2 DEF Works
    <3>3. CASE x = w
      BY <1>1, <1>2, <2>1, <3>3 DEF Works
    <3>4. QED
      BY <3>1, <3>2, <3>3
  <2>2. ASSUME NEW c \in Broadcasts, c \notin overlapped', NEW v \in Workers, Works(v, c)'
        PROVE  /\ worker'[v].at \notin {"purging", "reporting"} => broadcast'[c].status = "sending"
               /\ worker'[v].at \in {"purging", "reporting"} => broadcast'[c].status \in Terminal
               /\ worker'[v].at = "closing" /\ worker'[v].final = "done" => Unfinished(c)' = {}
    <3>1. CASE v = w
      BY <1>1, <1>2, <2>2, <3>1
    <3>2. CASE v # w
      <4>1. c # b
        BY <1>1, <1>2, <2>2, <3>2 DEF Works
      <4>2. broadcast'[c] = broadcast[c] /\ worker'[v] = worker[v] /\ c \notin overlapped /\ Works(v, c)
        BY <1>1, <1>2, <2>2, <3>2, <4>1
      <4>3. Unfinished(c)' = Unfinished(c)
        BY <1>1 DEF Unfinished, InStatus, Listed
      <4>4. QED
        BY <4>2, <4>3 DEF RunsInv, AloneSound
    <3>3. QED
      BY <3>1, <3>2
  <2>3. QED
    BY <2>1, <2>2 DEF AloneSound
<1>6. QED
  BY <1>3, <1>4, <1>5 DEF RunsInv

\* Whoever closes a broadcast that is open is its one run to report.
LEMMA FinalizeRuns ==
    ASSUME TypeOK, RunsInv, NEW w \in Workers, Finalize(w)
    PROVE  RunsInv'
<1>1. PICK b : b = worker[w].b
  OBVIOUS
<1>2. /\ TypeOK' /\ b \in Broadcasts /\ worker[w].at = "closing"
      /\ UNCHANGED <<arrived, summaries, overlapped>>
      /\ worker'[w].at = "purging" /\ worker'[w].b = b
      /\ worker'[w].won = (broadcast[b].status = "sending")
      /\ \A v \in Workers \ {w} : worker'[v] = worker[v]
      /\ \A c \in Broadcasts \ {b} : delivery'[c] = delivery[c] /\ broadcast'[c] = broadcast[c]
      /\ broadcast'[b].languages = broadcast[b].languages
      /\ broadcast[b].status = "sending" => broadcast'[b].status = worker[w].final
      /\ broadcast[b].status # "sending" => broadcast'[b].status = broadcast[b].status
      /\ worker[w].final \in Terminal
      /\ \A u \in Users :
            \/ delivery'[b][u] = delivery[b][u]
            \/ delivery[b][u] # NoRow /\ delivery'[b][u].lang = delivery[b][u].lang
  BY <1>1, FinalizeShape
<1>3. \A v \in Workers, c \in Broadcasts : Works(v, c)' <=> Works(v, c)
  BY <1>1, <1>2 DEF Works
<1>4. Works(w, b) /\ broadcast[b].status \notin {"unused", "draft", "discarded", "queued"}
  BY <1>1, <1>2 DEF Works, RunsInv, StartedSound
<1>5. /\ broadcast'[b].status \notin {"unused", "draft", "discarded", "queued"}
      /\ broadcast'[b].status \in Terminal
  <2>1. broadcast[b].status \in {"sending"} \cup Terminal
    BY <1>2, <1>4 DEF TypeOK, Open
  <2>2. QED
    BY <1>2, <2>1 DEF Terminal
<1>6. StartedSound'
  <2> SUFFICES ASSUME NEW c \in Broadcasts
               PROVE  /\ broadcast'[c].status \in {"unused", "draft", "discarded", "queued"} =>
                            /\ \A v \in Workers : ~Works(v, c)'
                            /\ \A u \in Users : delivery'[c][u] = NoRow /\ arrived'[c][u] = <<>>
                      /\ broadcast'[c].status # "unused" => Fallback \in broadcast'[c].languages
                      /\ \A u \in Users : delivery'[c][u] # NoRow =>
                            delivery'[c][u].lang \in broadcast'[c].languages
    BY DEF StartedSound
  <2>1. CASE c = b
    BY <1>2, <1>4, <1>5, <2>1 DEF RunsInv, StartedSound
  <2>2. CASE c # b
    BY <1>2, <1>3, <2>2 DEF RunsInv, StartedSound
  <2>3. QED
    BY <2>1, <2>2
<1>7. ReportsSound'
  <2> SUFFICES ASSUME NEW c \in Broadcasts
               PROVE  /\ summaries'[c] >= 1 => summaries'[c] = 1 /\ broadcast'[c].status \in Terminal
                      /\ \A v \in Workers : Reports(v, c)' =>
                            /\ broadcast'[c].status \in Terminal /\ summaries'[c] = 0
                            /\ \A x \in Workers \ {v} : ~Reports(x, c)'
    BY DEF ReportsSound
  <2>1. \A v \in Workers \ {w} : Reports(v, c)' <=> Reports(v, c)
    BY <1>2, <1>3 DEF Reports
  <2>2. CASE c # b
    <3>1. ~Reports(w, c)'
      BY <1>2, <2>2 DEF Reports, Works
    <3>2. QED
      BY <1>2, <2>1, <2>2, <3>1 DEF RunsInv, ReportsSound
  <2>3. CASE c = b /\ broadcast[b].status = "sending"
    <3>1. \A v \in Workers : ~Reports(v, b)
      BY <2>3 DEF RunsInv, ReportsSound, Terminal
    <3>2. summaries[b] = 0
      <4>1. summaries[b] \in Nat
        BY <1>2 DEF TypeOK
      <4>2. ~(summaries[b] >= 1)
        BY <1>2, <2>3 DEF RunsInv, ReportsSound, Terminal
      <4>3. QED
        BY <4>1, <4>2
    <3>3. QED
      BY <1>2, <1>5, <2>1, <2>3, <3>1, <3>2
  <2>4. CASE c = b /\ broadcast[b].status # "sending"
    <3>1. ~Reports(w, c)'
      BY <1>2, <2>4 DEF Reports
    <3>2. QED
      BY <1>2, <1>5, <2>1, <2>4, <3>1 DEF RunsInv, ReportsSound
  <2>5. QED
    BY <2>2, <2>3, <2>4
<1>8. AloneSound'
  <2>1. ASSUME NEW c \in Broadcasts, NEW v \in Workers, NEW x \in Workers, v # x, Works(v, c)', Works(x, c)'
        PROVE  c \in overlapped'
    BY <1>2, <1>3, <2>1 DEF RunsInv, AloneSound
  <2>2. ASSUME NEW c \in Broadcasts, c \notin overlapped', NEW v \in Workers, Works(v, c)'
        PROVE  /\ worker'[v].at \notin {"purging", "reporting"} => broadcast'[c].status = "sending"
               /\ worker'[v].at \in {"purging", "reporting"} => broadcast'[c].status \in Terminal
               /\ worker'[v].at = "closing" /\ worker'[v].final = "done" => Unfinished(c)' = {}
    <3>1. c \notin overlapped /\ Works(v, c)
      BY <1>2, <1>3, <2>2
    <3>2. CASE v = w
      BY <1>1, <1>2, <1>5, <2>2, <3>1, <3>2 DEF Works
    <3>3. CASE v # w
      <4>1. c # b
        BY <1>2, <1>4, <3>1, <3>3 DEF RunsInv, AloneSound
      <4>2. broadcast'[c] = broadcast[c] /\ worker'[v] = worker[v]
        BY <1>2, <3>3, <4>1
      <4>3. Unfinished(c)' = Unfinished(c)
        BY <1>2, <4>1 DEF Unfinished, InStatus, Listed
      <4>4. QED
        BY <3>1, <4>2, <4>3 DEF RunsInv, AloneSound
    <3>4. QED
      BY <3>2, <3>3
  <2>3. QED
    BY <2>1, <2>2 DEF AloneSound
<1>9. QED
  BY <1>6, <1>7, <1>8 DEF RunsInv

LEMMA PurgeRuns ==
    ASSUME TypeOK, RunsInv, NEW w \in Workers, Purge(w)
    PROVE  RunsInv'
<1>1. PICK b : b = worker[w].b
  OBVIOUS
<1>2. /\ b \in Broadcasts /\ worker[w].at = "purging" /\ worker[w].won \in BOOLEAN
      /\ UNCHANGED <<broadcast, arrived, summaries, overlapped>>
      /\ \A v \in Workers \ {w} : worker'[v] = worker[v]
      /\ \A c \in Broadcasts \ {b} : delivery'[c] = delivery[c]
      /\ \A u \in Users : delivery'[b][u] = NoRow
      /\ worker[w].won => worker'[w].at = "reporting" /\ worker'[w].b = b
      /\ ~worker[w].won => worker'[w].at = "idle"
  BY <1>1, PurgeShape, RunFacts DEF Idle
<1>3. /\ \A v \in Workers, c \in Broadcasts : Works(v, c)' => Works(v, c)
      /\ \A v \in Workers, c \in Broadcasts : Reports(v, c)' => Reports(v, c)
  BY <1>1, <1>2 DEF Works, Reports
<1>4. StartedSound'
  <2>1. \A c \in Broadcasts, u \in Users : delivery'[c][u] # NoRow => delivery'[c][u] = delivery[c][u]
    BY <1>2
  <2>2. QED
    BY <1>2, <1>3, <2>1 DEF RunsInv, StartedSound
<1>5. ReportsSound'
  BY <1>2, <1>3 DEF RunsInv, ReportsSound
<1>6. AloneSound'
  <2>1. ASSUME NEW c \in Broadcasts, NEW v \in Workers, NEW x \in Workers, v # x, Works(v, c)', Works(x, c)'
        PROVE  c \in overlapped'
    BY <1>2, <1>3, <2>1 DEF RunsInv, AloneSound
  <2>2. ASSUME NEW c \in Broadcasts, c \notin overlapped', NEW v \in Workers, Works(v, c)'
        PROVE  /\ worker'[v].at \notin {"purging", "reporting"} => broadcast'[c].status = "sending"
               /\ worker'[v].at \in {"purging", "reporting"} => broadcast'[c].status \in Terminal
               /\ worker'[v].at = "closing" /\ worker'[v].final = "done" => Unfinished(c)' = {}
    <3>1. c \notin overlapped /\ Works(v, c)
      BY <1>2, <1>3, <2>2
    <3>2. CASE v = w
      BY <1>2, <2>2, <3>1, <3>2 DEF Works, RunsInv, AloneSound
    <3>3. CASE v # w
      <4>1. Unfinished(c)' \subseteq Unfinished(c)
        <5>1. \A u \in Users : delivery'[c][u] # NoRow => delivery'[c][u] = delivery[c][u]
          BY <1>2
        <5>2. QED
          BY <5>1 DEF Unfinished, InStatus, Listed
      <4>2. worker'[v] = worker[v]
        BY <1>2, <3>3
      <4>3. QED
        BY <1>2, <3>1, <4>1, <4>2 DEF RunsInv, AloneSound
    <3>4. QED
      BY <3>2, <3>3
  <2>3. QED
    BY <2>1, <2>2 DEF AloneSound
<1>7. QED
  BY <1>4, <1>5, <1>6 DEF RunsInv

LEMMA ReportRuns ==
    ASSUME TypeOK, RunsInv, NEW w \in Workers, Report(w)
    PROVE  RunsInv'
<1>1. PICK b : b = worker[w].b
  OBVIOUS
<1>2. /\ b \in Broadcasts /\ worker[w].at = "reporting"
      /\ UNCHANGED <<broadcast, delivery, arrived, overlapped>>
      /\ worker'[w].at = "idle" /\ \A v \in Workers \ {w} : worker'[v] = worker[v]
      /\ summaries'[b] = summaries[b] + 1
      /\ \A c \in Broadcasts \ {b} : summaries'[c] = summaries[c]
  BY <1>1, ReportShape DEF Idle
<1>3. /\ \A v \in Workers, c \in Broadcasts : Works(v, c)' => Works(v, c)
      /\ \A v \in Workers, c \in Broadcasts : Reports(v, c)' => v # w /\ Reports(v, c)
      /\ Reports(w, b)
  BY <1>1, <1>2 DEF Works, Reports
<1>4. StartedSound'
  BY <1>2, <1>3 DEF RunsInv, StartedSound
<1>5. ReportsSound'
  <2> SUFFICES ASSUME NEW c \in Broadcasts
               PROVE  /\ summaries'[c] >= 1 => summaries'[c] = 1 /\ broadcast'[c].status \in Terminal
                      /\ \A v \in Workers : Reports(v, c)' =>
                            /\ broadcast'[c].status \in Terminal /\ summaries'[c] = 0
                            /\ \A x \in Workers \ {v} : ~Reports(x, c)'
    BY DEF ReportsSound
  <2>1. CASE c = b
    <3>1. /\ summaries[b] = 0 /\ broadcast[b].status \in Terminal
          /\ \A x \in Workers \ {w} : ~Reports(x, b)
      BY <1>2, <1>3 DEF RunsInv, ReportsSound
    <3>2. QED
      BY <1>2, <1>3, <2>1, <3>1
  <2>2. CASE c # b
    BY <1>2, <1>3, <2>2 DEF RunsInv, ReportsSound
  <2>3. QED
    BY <2>1, <2>2
<1>6. AloneSound'
  <2>1. ASSUME NEW c \in Broadcasts, NEW v \in Workers, Works(v, c)'
        PROVE  v # w /\ worker'[v] = worker[v] /\ Works(v, c)
    BY <1>2, <1>3, <2>1 DEF Works
  <2>2. \A c \in Broadcasts : Unfinished(c)' = Unfinished(c)
    BY <1>2 DEF Unfinished, InStatus, Listed
  <2>3. QED
    BY <1>2, <2>1, <2>2 DEF RunsInv, AloneSound
<1>7. QED
  BY <1>4, <1>5, <1>6 DEF RunsInv

LEMMA OutsideRuns ==
    ASSUME TypeOK, RunsInv,
           \/ \E b \in Broadcasts, u \in Users : ComeDue(b, u)
           \/ \E u \in Users : Move(u) \/ Erase(u)
    PROVE  RunsInv'
<1>1. /\ UNCHANGED <<broadcast, worker, arrived, summaries, overlapped>>
      /\ \A b \in Broadcasts, u \in Users : delivery'[b][u] # NoRow =>
            /\ delivery[b][u] # NoRow /\ delivery'[b][u].lang = delivery[b][u].lang
            /\ delivery'[b][u].status = delivery[b][u].status
  BY OutsideShape
<1>2. \A v \in Workers, c \in Broadcasts : (Works(v, c)' <=> Works(v, c)) /\ (Reports(v, c)' <=> Reports(v, c))
  BY <1>1 DEF Works, Reports
<1>3. StartedSound'
  BY <1>1, <1>2 DEF RunsInv, StartedSound
<1>4. ReportsSound'
  BY <1>1, <1>2 DEF RunsInv, ReportsSound
<1>5. \A c \in Broadcasts : Unfinished(c)' \subseteq Unfinished(c)
  BY <1>1 DEF Unfinished, InStatus, Listed
<1>6. AloneSound'
  BY <1>1, <1>2, <1>5 DEF RunsInv, AloneSound
<1>7. QED
  BY <1>3, <1>4, <1>6 DEF RunsInv

\* The steps of a run on its broadcast before it closes it.
LEMMA WorkRuns ==
    ASSUME DeliveryInv, RunsInv, NEW w \in Workers,
           \/ CountAudience(w) \/ InsertAudience(w) \/ ClaimBatch(w)
           \/ \E a \in Answers : Deliver(w, a)
           \/ LoseConnection(w) \/ Record(w)
           \/ CheckUnfinished(w) \/ ResetAttempts(w) \/ Crash(w)
    PROVE  RunsInv'
<1>1. PICK b : b = worker[w].b
  OBVIOUS
<1>t. TypeOK
  BY DEF DeliveryInv
<1>2. b \in Broadcasts => Fallback \in broadcast[b].languages \/ worker[w].at = "idle"
  BY <1>1 DEF RunsInv, StartedSound, Works
<1>3. /\ TypeOK' /\ worker[w].at # "idle" /\ b \in Broadcasts
      /\ UNCHANGED <<summaries, overlapped>>
      /\ \A v \in Workers \ {w} : worker'[v] = worker[v]
      /\ \A c \in Broadcasts : broadcast'[c].status = broadcast[c].status
                               /\ broadcast'[c].languages = broadcast[c].languages
      /\ \A c \in Broadcasts \ {b} : \A u \in Users :
            delivery'[c][u] = delivery[c][u] /\ arrived'[c][u] = arrived[c][u]
      /\ \A u \in Users : delivery'[b][u] # NoRow => delivery'[b][u].lang \in broadcast[b].languages
      /\ worker'[w].at # "idle" =>
            /\ worker[w].at \notin {"closing", "purging", "reporting"}
            /\ worker'[w].at \notin {"purging", "reporting"} /\ worker'[w].b = b
            /\ worker'[w].at = "closing" /\ worker'[w].final = "done" => Unfinished(b)' = {}
  <2>r. b \in Broadcasts => \A u \in Users : delivery[b][u] # NoRow => delivery[b][u].lang \in broadcast[b].languages
    BY DEF RunsInv, StartedSound
  <2>1. CASE CountAudience(w) \/ CheckUnfinished(w) \/ Crash(w)
    <3>1. worker[w].at # "idle" /\ b \in Broadcasts
      BY <1>t, <1>1, <2>1, RunFacts DEF CountAudience, CheckUnfinished, Crash
    <3>2. /\ TypeOK' /\ UNCHANGED <<broadcast, delivery, arrived, summaries, overlapped>>
          /\ \A v \in Workers \ {w} : worker'[v] = worker[v]
          /\ worker'[w].at # "idle" => worker'[w].b = b
          /\ worker'[w].at \in {"idle", "counted", "sending", "resetting", "closing"}
          /\ worker'[w].at = "closing" => worker[w].at = "checking" /\ Unfinished(b) = {}
          /\ worker'[w].at \in {"counted", "sending", "resetting"} => worker[w].at \in {"claimed", "checking"}
      BY <1>t, <1>1, <2>1, StepAside
    <3>3. Unfinished(b)' = Unfinished(b)
      BY <3>2 DEF Unfinished, InStatus, Listed
    <3>4. QED
      BY <2>r, <3>1, <3>2, <3>3
  <2>2. CASE InsertAudience(w)
    <3>1. /\ TypeOK' /\ b \in Broadcasts /\ worker[w].at = "counted"
          /\ UNCHANGED <<arrived, summaries, overlapped>>
          /\ worker'[w].at = "sending" /\ worker'[w].b = b
          /\ \A v \in Workers \ {w} : worker'[v] = worker[v]
          /\ \A c \in Broadcasts \ {b} : delivery'[c] = delivery[c] /\ broadcast'[c] = broadcast[c]
          /\ \A u \in Users :
                \/ delivery'[b][u] = delivery[b][u]
                \/ delivery'[b][u].lang = LanguageSent(b, u)
          /\ broadcast'[b].status = broadcast[b].status
          /\ broadcast'[b].languages = broadcast[b].languages
      BY <1>t, <1>1, <2>2, InsertShape
    <3>2. \A u \in Users : LanguageSent(b, u) \in broadcast[b].languages
      BY <1>2, <3>1 DEF LanguageSent
    <3>3. QED
      BY <2>r, <3>1, <3>2
  <2>3. CASE ClaimBatch(w)
    <3>1. /\ TypeOK' /\ b \in Broadcasts /\ worker[w].at = "sending"
          /\ UNCHANGED <<broadcast, arrived, summaries, overlapped>>
          /\ worker'[w].b = b /\ worker'[w].at \in {"checking", "delivering"}
          /\ \A v \in Workers \ {w} : worker'[v] = worker[v]
          /\ \A c \in Broadcasts \ {b} : delivery'[c] = delivery[c]
          /\ \A u \in Users :
                \/ delivery'[b][u] = delivery[b][u]
                \/ delivery[b][u] # NoRow /\ delivery'[b][u].lang = delivery[b][u].lang
      BY <1>1, <2>3, ClaimBatchShape
    <3>2. QED
      BY <2>r, <3>1
  <2>4. CASE LoseConnection(w) \/ \E a \in Answers : Deliver(w, a)
    <3>1. /\ TypeOK' /\ UNCHANGED <<broadcast, delivery, summaries, overlapped>>
          /\ \A v \in Workers \ {w} : worker'[v] = worker[v]
          /\ worker[w].at = "delivering" /\ b \in Broadcasts
          /\ worker'[w].at = "idle" \/ (worker'[w].at = "delivering" /\ worker'[w].b = b)
      BY <1>t, <1>1, <2>4, LoseShape, DeliverShape DEF Idle
    <3>2. PICK u \in Users : /\ worker[w].rows[u] \in Row
                             /\ arrived' = arrived \/ arrived' = Reached(b, u, worker[w].rows[u])
      BY <1>t, <1>1, <2>4, LoseShape, DeliverShape
    <3>3. \A c \in Broadcasts \ {b} : \A v \in Users : arrived'[c][v] = arrived[c][v]
      BY <1>t, <3>1, <3>2, ReachedShape
    <3>4. QED
      BY <2>r, <3>1, <3>3
  <2>5. CASE Record(w)
    <3>1. /\ TypeOK' /\ b \in Broadcasts /\ worker[w].at = "delivering"
          /\ UNCHANGED <<broadcast, arrived, summaries, overlapped>>
          /\ worker'[w].at \in {"checking", "sending"} /\ worker'[w].b = b
          /\ \A v \in Workers \ {w} : worker'[v] = worker[v]
          /\ \A c \in Broadcasts \ {b} : delivery'[c] = delivery[c]
          /\ \A u \in Users :
                \/ delivery'[b][u] = delivery[b][u]
                \/ delivery[b][u] # NoRow /\ delivery'[b][u].lang = delivery[b][u].lang
      BY <1>1, <2>5, RecordShape
    <3>2. QED
      BY <2>r, <3>1
  <2>6. CASE ResetAttempts(w)
    <3>1. worker[w].at = "resetting" /\ b \in Broadcasts
      BY <1>t, <1>1, <2>6, RunFacts DEF ResetAttempts
    <3>2. QED
      BY <1>t, <2>r, <2>6, <3>1, ResetShape DEF Idle
  <2>7. QED
    BY <2>1, <2>2, <2>3, <2>4, <2>5, <2>6
<1>4. QED
  BY <1>t, <1>1, <1>3, RunStays

LEMMA InitRuns == Init => RunsInv
<1> SUFFICES ASSUME Init PROVE RunsInv
  OBVIOUS
<1>1. /\ \A w \in Workers : worker[w].at = "idle"
      /\ \A b \in Broadcasts : broadcast[b].status = "unused" /\ summaries[b] = 0
      /\ \A b \in Broadcasts, u \in Users : delivery[b][u] = NoRow /\ arrived[b][u] = <<>>
  BY DEF Init, Idle, Unused
<1>2. \A w \in Workers, b \in Broadcasts : ~Works(w, b)
  BY <1>1 DEF Works
<1>3. QED
  BY <1>1, <1>2 DEF RunsInv, StartedSound, ReportsSound, AloneSound, Reports

LEMMA RunsStep == DeliveryInv /\ RunsInv /\ [Next]_vars => RunsInv'
<1> SUFFICES ASSUME DeliveryInv, RunsInv, [Next]_vars PROVE RunsInv'
  OBVIOUS
<1>t. TypeOK
  BY DEF DeliveryInv
<1>1. CASE UNCHANGED vars
  BY <1>1 DEF vars, RunsInv, StartedSound, ReportsSound, AloneSound, Reports, Works, Unfinished, InStatus, Listed
<1>2. CASE Next
  <2>1. CASE \E o \in Operators : Operate(o)
    BY <1>t, <2>1, OperateRuns
  <2>2. ASSUME NEW w \in Workers, Work(w) PROVE RunsInv'
    <3>1. CASE \E b \in Broadcasts : Claim(w, b)
      BY <1>t, <3>1, ClaimRuns
    <3>2. CASE Finalize(w) \/ Purge(w) \/ Report(w)
      BY <1>t, <3>2, FinalizeRuns, PurgeRuns, ReportRuns
    <3>3. QED
      BY <2>2, <3>1, <3>2, WorkRuns DEF Work
  <2>3. ASSUME NEW w \in Workers, LoseConnection(w) \/ Crash(w) PROVE RunsInv'
    BY <2>3, WorkRuns
  <2>4. CASE \/ \E b \in Broadcasts, u \in Users : ComeDue(b, u)
             \/ \E u \in Users : Move(u) \/ Erase(u)
    BY <1>t, <2>4, OutsideRuns
  <2>5. QED
    BY <1>2, <2>1, <2>2, <2>3, <2>4 DEF Next
<1>3. QED
  BY <1>1, <1>2

THEOREM RunsCorrect == Spec => []RunsInv
<1>1. QED
  BY InitRuns, RunsStep, DeliveriesCorrect, PTL DEF Spec

\* A row fails by the verdict of its page, or with its broadcast.
LEMMA RetriesTakenStep ==
    ASSUME DeliveryInv, RunsInv, [Next]_vars, NEW b \in Broadcasts \ overlapped, NEW u \in Users,
           delivery[b][u] # NoRow, delivery'[b][u] # NoRow,
           delivery[b][u].status \in Waiting, delivery'[b][u].status = "failed"
    PROVE  broadcast'[b].status = "failed"
<1>t. TypeOK
  BY DEF DeliveryInv
<1>0. delivery'[b][u] # delivery[b][u]
  BY DEF Waiting
<1>1. ASSUME NEW w \in Workers, Finalize(w) PROVE broadcast'[b].status = "failed"
  <2>1. PICK c : c = worker[w].b
    OBVIOUS
  <2>2. /\ worker[w].at = "closing"
        /\ \A d \in Broadcasts \ {c} : delivery'[d] = delivery[d]
        /\ broadcast[c].status = "sending" => broadcast'[c].status = worker[w].final
        /\ worker[w].final \in Terminal
        /\ \A v \in Users : delivery'[c][v] = delivery[c][v] \/ v \in Unfinished(c)
    BY <1>t, <1>1, <2>1, FinalizeShape
  <2>3. b = c /\ u \in Unfinished(b)
    BY <1>0, <2>2
  <2>4. Works(w, b)
    BY <2>1, <2>2, <2>3 DEF Works
  <2>5. broadcast[b].status = "sending" /\ worker[w].final # "done"
    BY <2>2, <2>3, <2>4 DEF RunsInv, AloneSound
  <2>6. QED
    BY <2>2, <2>3, <2>5 DEF Terminal
<1>2. ASSUME NEW w \in Workers, InsertAudience(w) \/ ClaimBatch(w) \/ Record(w) \/ Purge(w)
      PROVE  FALSE
  <2>1. PICK c : c = worker[w].b
    OBVIOUS
  <2>2. /\ \A d \in Broadcasts \ {c} : delivery'[d] = delivery[d]
        /\ \A v \in Users :
              \/ delivery'[c][v] = delivery[c][v] \/ delivery[c][v] = NoRow \/ delivery'[c][v] = NoRow
              \/ delivery'[c][v].status # "failed"
              \/ delivery[c][v].status \notin Waiting
    <3>1. CASE InsertAudience(w)
      BY <1>t, <2>1, <3>1, InsertShape
    <3>2. CASE ClaimBatch(w)
      BY <2>1, <3>2, ClaimBatchShape
    <3>3. CASE Record(w)
      <4>1. /\ \A d \in Broadcasts \ {c} : delivery'[d] = delivery[d]
            /\ \A v \in Users :
                  \/ delivery'[c][v] = delivery[c][v]
                  \/ PageSound(w, v) /\ delivery[c][v] = worker[w].rows[v]
        BY <2>1, <3>3, RecordShape
      <4>2. QED
        BY <4>1 DEF PageSound, Waiting
    <3>4. CASE Purge(w)
      BY <1>t, <2>1, <3>4, PurgeShape
    <3>5. QED
      BY <1>2, <3>1, <3>2, <3>3, <3>4
  <2>3. QED
    BY <1>0, <2>2
<1>3. ASSUME \/ UNCHANGED vars
             \/ \E o \in Operators : Operate(o)
             \/ \E w \in Workers :
                   \/ \E c \in Broadcasts : Claim(w, c)
                   \/ CountAudience(w) \/ CheckUnfinished(w) \/ ResetAttempts(w) \/ Report(w)
                   \/ (\E a \in Answers : Deliver(w, a)) \/ LoseConnection(w) \/ Crash(w)
      PROVE  FALSE
  <2>1. UNCHANGED delivery
    BY <1>t, <1>3, OperateShape, ClaimShape, StepAside, ResetShape, ReportShape, DeliverShape, LoseShape DEF vars
  <2>2. QED
    BY <1>0, <2>1
<1>4. ASSUME \/ \E c \in Broadcasts, v \in Users : ComeDue(c, v)
             \/ \E v \in Users : Move(v) \/ Erase(v)
      PROVE  FALSE
  BY <1>t, <1>0, <1>4, OutsideShape
<1>5. QED
  BY <1>1, <1>2, <1>3, <1>4 DEF Next, Work

\* Each recipient of one audience is on one page at a time and receives the message
\* once, whatever runs overlap, stop or lose their connection; and while runs do not
\* overlap, nobody who may be tried again is given up but with the whole broadcast.
THEOREM EachIsServedOnce == Spec => RecipientsAreServed
<1>1. DeliveryInv' => PagesAreDisjoint' /\ OncePerSnapshot'
  BY DEF DeliveryInv
<1>2. DeliveryInv /\ DeliveryInv' /\ RunsInv /\ [Next]_vars =>
         /\ [PagesAreDisjoint' /\ OncePerSnapshot']_vars
         /\ [\A b \in Broadcasts \ overlapped, u \in Users :
                delivery[b][u] # NoRow /\ delivery'[b][u] # NoRow
                    /\ delivery[b][u].status \in Waiting /\ delivery'[b][u].status = "failed"
                        => broadcast'[b].status = "failed"]_vars
  BY <1>1, RetriesTakenStep
<1>3. QED
  BY <1>2, DeliveriesCorrect, RunsCorrect, PTL DEF Spec, RecipientsAreServed, RetriesAreTaken

\* The operators get the summary of a broadcast once, and only when it is over.
THEOREM SummariesAreSentOnce == Spec => []OneSummary
<1>1. DeliveryInv /\ RunsInv => OneSummary
  <2> SUFFICES ASSUME DeliveryInv, RunsInv, NEW b \in Broadcasts
               PROVE  summaries[b] <= 1 /\ (summaries[b] = 1 => broadcast[b].status \in Terminal)
    BY DEF OneSummary
  <2>1. summaries[b] \in Nat
    BY DEF DeliveryInv, TypeOK
  <2>2. summaries[b] >= 1 => summaries[b] = 1 /\ broadcast[b].status \in Terminal
    BY DEF RunsInv, ReportsSound
  <2>3. QED
    BY <2>1, <2>2
<1>2. QED
  BY <1>1, DeliveriesCorrect, RunsCorrect, PTL

-----------------------------------------------------------------------------
(* The counts of a broadcast that nothing disturbs *)

Kept == \A u \in Users : person[u] # "erased"

\* While a broadcast that nothing disturbs is open, its rows are its audience, and
\* the message has reached those marked sent and perhaps some still in progress.
TallySound(b) ==
    /\ broadcast[b].total = Cardinality(Listed(b))
    /\ \A u \in Users :
        /\ arrived[b][u] # <<>> => delivery[b][u] # NoRow /\ delivery[b][u].status \in {"sent", "in_progress"}
        /\ delivery[b][u] # NoRow /\ delivery[b][u].status = "sent" => arrived[b][u] # <<>>
    /\ \A w \in Workers : Works(w, b) /\ worker[w].at = "delivering" =>
        \A u \in DOMAIN worker[w].rows :
            /\ delivery[b][u] # NoRow /\ delivery[b][u].born = worker[w].rows[u].born
            /\ arrived[b][u] # <<>> <=> u \notin worker[w].todo /\ worker[w].outcome[u] = "sent"

CountsCover(b) ==
    LET c == broadcast[b].counts IN
        /\ c.sent + c.failed + c.skipped + c.orphan = broadcast[b].total
        /\ c.sent <= Reach(b) /\ Reach(b) <= c.sent + c.orphan

TallyOf(b) == IF broadcast[b].status \in Terminal THEN CountsCover(b) ELSE TallySound(b)

TallyInv == Kept => \A b \in Broadcasts \ overlapped : TallyOf(b)

LEMMA DisjointRows ==
    ASSUME NEW S \in SUBSET Users, NEW T \in SUBSET Users, S \cap T = {}
    PROVE  Cardinality(S \cup T) = Cardinality(S) + Cardinality(T)
<1>1. IsFiniteSet(S) /\ IsFiniteSet(T) /\ Cardinality(S) \in Nat /\ Cardinality(T) \in Nat
  BY FiniteRows
<1>2. Cardinality(S \cup T) = Cardinality(S) + Cardinality(T) - Cardinality(S \cap T)
  BY <1>1, FS_Union
<1>3. Cardinality(S \cap T) = 0
  BY FS_EmptySet
<1>4. QED
  BY <1>1, <1>2, <1>3

LEMMA FewerRows ==
    ASSUME NEW T \in SUBSET Users, NEW S \in SUBSET T
    PROVE  Cardinality(S) \in Nat /\ Cardinality(T) \in Nat /\ Cardinality(S) <= Cardinality(T)
<1>1. IsFiniteSet(T) /\ Cardinality(T) \in Nat /\ Cardinality(S) \in Nat
  BY FiniteRows
<1>2. QED
  BY <1>1, FS_Subset

\* Each row is counted once, and the message has reached those counted as sent and
\* perhaps those counted as orphans.
LEMMA CountsAddUp ==
    ASSUME TypeOK, StartedSound, NEW b \in Broadcasts, TallySound(b), NEW c, c = CountsOf(b)
    PROVE  /\ c.sent + c.failed + c.skipped + c.orphan = broadcast[b].total
           /\ c.sent <= Reach(b) /\ Reach(b) <= c.sent + c.orphan
<1> DEFINE S == InStatus(b, {"sent"})
           F == InStatus(b, {"failed"} \cup Waiting)
           K == InStatus(b, {"skipped"})
           P == InStatus(b, {"in_progress"})
           R == {u \in Users : arrived[b][u] # <<>>}
<1>1. \A s : {u \in InStatus(b, s) : delivery[b][u].lang \in broadcast[b].languages} = InStatus(b, s)
  BY DEF StartedSound, InStatus, Listed
<1>2. /\ c.sent = Cardinality(S) /\ c.failed = Cardinality(F)
      /\ c.skipped = Cardinality(K) /\ c.orphan = Cardinality(P)
  BY <1>1 DEF CountsOf, InCount
<1>3. /\ S \in SUBSET Users /\ F \in SUBSET Users /\ K \in SUBSET Users /\ P \in SUBSET Users
      /\ R \in SUBSET Users
  BY DEF InStatus, Listed
<1>4. Listed(b) = ((S \cup F) \cup K) \cup P
  <2>1. \A u \in Listed(b) : delivery[b][u].status \in Waiting \cup {"in_progress"} \cup Outcomes
    BY DEF Listed, TypeOK, Row
  <2>2. QED
    BY <2>1 DEF InStatus, Outcomes, Waiting
<1>5. S \cap F = {} /\ (S \cup F) \cap K = {} /\ ((S \cup F) \cup K) \cap P = {} /\ S \cap P = {}
  BY DEF InStatus, Waiting
<1>6. S \subseteq R /\ R \subseteq S \cup P
  BY DEF TallySound, InStatus, Listed
<1>7. broadcast[b].total = Cardinality(Listed(b)) /\ Reach(b) = Cardinality(R)
  BY DEF TallySound, Reach
<1> HIDE DEF S, F, K, P, R
<1>8. /\ Cardinality(S) \in Nat /\ Cardinality(F) \in Nat /\ Cardinality(K) \in Nat
      /\ Cardinality(P) \in Nat /\ Cardinality(R) \in Nat
  BY <1>3, FiniteRows
<1>9. /\ Cardinality(S \cup F) = Cardinality(S) + Cardinality(F)
      /\ Cardinality((S \cup F) \cup K) = Cardinality(S \cup F) + Cardinality(K)
      /\ Cardinality(((S \cup F) \cup K) \cup P) = Cardinality((S \cup F) \cup K) + Cardinality(P)
      /\ Cardinality(S \cup P) = Cardinality(S) + Cardinality(P)
  <2>1. S \cup F \in SUBSET Users /\ (S \cup F) \cup K \in SUBSET Users
    BY <1>3
  <2>2. Cardinality(S \cup F) = Cardinality(S) + Cardinality(F)
    BY <1>3, <1>5, DisjointRows
  <2>3. Cardinality((S \cup F) \cup K) = Cardinality(S \cup F) + Cardinality(K)
    BY <1>3, <1>5, <2>1, DisjointRows
  <2>4. Cardinality(((S \cup F) \cup K) \cup P) = Cardinality((S \cup F) \cup K) + Cardinality(P)
    BY <1>3, <1>5, <2>1, DisjointRows
  <2>5. Cardinality(S \cup P) = Cardinality(S) + Cardinality(P)
    BY <1>3, <1>5, DisjointRows
  <2>6. QED
    BY <2>2, <2>3, <2>4, <2>5
<1>10. Cardinality(S) <= Cardinality(R) /\ Cardinality(R) <= Cardinality(S \cup P)
  <2>1. S \in SUBSET R /\ R \in SUBSET (S \cup P) /\ S \cup P \in SUBSET Users
    BY <1>3, <1>6
  <2>2. QED
    BY <1>3, <2>1, FewerRows
<1>11. QED
  BY <1>2, <1>4, <1>7, <1>8, <1>9, <1>10

\* A step that leaves a broadcast's tally alone.
LEMMA TallyStays ==
    ASSUME NEW b \in Broadcasts, TallyOf(b),
           broadcast'[b].status \in Terminal <=> broadcast[b].status \in Terminal,
           broadcast'[b].total = broadcast[b].total, broadcast'[b].counts = broadcast[b].counts,
           \A u \in Users : arrived'[b][u] = arrived[b][u],
           \/ broadcast[b].status \in Terminal
           \/ \A u \in Users :
                 \/ delivery'[b][u] = delivery[b][u]
                 \/ /\ delivery[b][u] # NoRow /\ delivery'[b][u] # NoRow
                    /\ delivery'[b][u].status = delivery[b][u].status
                    /\ delivery'[b][u].born = delivery[b][u].born,
           \A v \in Workers : Works(v, b)' /\ worker'[v].at = "delivering" => worker'[v] = worker[v],
           \A v \in Workers : worker[v].at = "delivering" => DOMAIN worker[v].rows \subseteq Users
    PROVE  TallyOf(b)'
<1>1. CASE broadcast[b].status \in Terminal
  <2>1. Reach(b)' = Reach(b)
    BY DEF Reach
  <2>2. CountsCover(b)'
    BY <1>1, <2>1 DEF TallyOf, CountsCover
  <2>3. QED
    BY <1>1, <2>2 DEF TallyOf
<1>2. CASE broadcast[b].status \notin Terminal
  <2>1. \A u \in Users :
           \/ delivery'[b][u] = delivery[b][u]
           \/ /\ delivery[b][u] # NoRow /\ delivery'[b][u] # NoRow
              /\ delivery'[b][u].status = delivery[b][u].status
              /\ delivery'[b][u].born = delivery[b][u].born
    BY <1>2
  <2>2. TallySound(b)
    BY <1>2 DEF TallyOf
  <2>3. Listed(b)' = Listed(b)
    BY <2>1 DEF Listed
  <2>4. \A u \in Users :
           /\ arrived'[b][u] # <<>> =>
                 delivery'[b][u] # NoRow /\ delivery'[b][u].status \in {"sent", "in_progress"}
           /\ delivery'[b][u] # NoRow /\ delivery'[b][u].status = "sent" => arrived'[b][u] # <<>>
    BY <2>1, <2>2 DEF TallySound
  <2>5. ASSUME NEW v \in Workers, Works(v, b)', worker'[v].at = "delivering",
               NEW u \in DOMAIN worker'[v].rows
        PROVE  /\ delivery'[b][u] # NoRow /\ delivery'[b][u].born = worker'[v].rows[u].born
               /\ arrived'[b][u] # <<>> <=> u \notin worker'[v].todo /\ worker'[v].outcome[u] = "sent"
    <3>1. worker'[v] = worker[v] /\ Works(v, b) /\ u \in Users
      BY <2>5 DEF Works
    <3>2. /\ delivery[b][u] # NoRow /\ delivery[b][u].born = worker[v].rows[u].born
          /\ arrived[b][u] # <<>> <=> u \notin worker[v].todo /\ worker[v].outcome[u] = "sent"
      BY <2>2, <2>5, <3>1 DEF TallySound
    <3>3. QED
      BY <2>1, <3>1, <3>2
  <2>6. TallySound(b)'
    BY <2>2, <2>3, <2>4, <2>5 DEF TallySound
  <2>7. QED
    BY <1>2, <2>6 DEF TallyOf
<1>3. QED
  BY <1>1, <1>2

LEMMA PageUsers ==
    ASSUME TypeOK
    PROVE  \A v \in Workers : worker[v].at = "delivering" => DOMAIN worker[v].rows \subseteq Users
BY RunFacts DEF IsPage

\* The operators' steps, claims and the steps that concern no row or no open broadcast.
LEMMA QuietTally ==
    ASSUME DeliveryInv, RunsInv, TallyInv,
           \/ \E o \in Operators : Operate(o)
           \/ \E w \in Workers :
                 \/ \E b \in Broadcasts : Claim(w, b)
                 \/ CountAudience(w) \/ CheckUnfinished(w) \/ Crash(w) \/ ResetAttempts(w)
                 \/ Purge(w) \/ Report(w)
           \/ \E b \in Broadcasts, u \in Users : ComeDue(b, u)
           \/ \E u \in Users : Move(u) \/ Erase(u)
           \/ UNCHANGED vars
    PROVE  TallyInv'
<1>t. TypeOK /\ \A v \in Workers : worker[v].at = "delivering" => DOMAIN worker[v].rows \subseteq Users
  BY PageUsers DEF DeliveryInv
<1> SUFFICES ASSUME Kept', NEW c \in Broadcasts, c \notin overlapped' PROVE TallyOf(c)'
  BY DEF TallyInv
<1>1. ASSUME Kept, c \notin overlapped PROVE TallyOf(c)
  BY <1>1 DEF TallyInv
<1>2. CASE \E o \in Operators : Operate(o)
  <2>1. /\ UNCHANGED <<delivery, person, worker, arrived, overlapped>>
        /\ \/ /\ broadcast[c].status = "unused" /\ broadcast'[c].status = "draft"
              /\ broadcast'[c].total = 0
           \/ /\ broadcast'[c].total = broadcast[c].total /\ broadcast'[c].counts = broadcast[c].counts
              /\ \/ broadcast'[c].status = broadcast[c].status
                 \/ broadcast[c].status = "draft" /\ broadcast'[c].status \in {"discarded", "queued"}
    BY <1>t, <1>2, OperateShape
  <2>2. TallyOf(c)
    BY <1>1, <2>1 DEF Kept
  <2>3. CASE broadcast[c].status = "unused" /\ broadcast'[c].status = "draft" /\ broadcast'[c].total = 0
    <3>1. /\ \A v \in Workers : ~Works(v, c)
          /\ \A u \in Users : delivery[c][u] = NoRow /\ arrived[c][u] = <<>>
      BY <2>3 DEF RunsInv, StartedSound
    <3>2. Listed(c)' = {}
      BY <2>1, <3>1 DEF Listed
    <3>3. Cardinality(Listed(c)') = 0
      BY <3>2, FS_EmptySet
    <3>4. TallySound(c)'
      BY <2>1, <2>3, <3>1, <3>3 DEF TallySound, Works
    <3>5. QED
      BY <2>3, <3>4 DEF TallyOf, Terminal
  <2>4. CASE /\ broadcast'[c].total = broadcast[c].total /\ broadcast'[c].counts = broadcast[c].counts
             /\ \/ broadcast'[c].status = broadcast[c].status
                \/ broadcast[c].status = "draft" /\ broadcast'[c].status \in {"discarded", "queued"}
    <3>1. broadcast'[c].status \in Terminal <=> broadcast[c].status \in Terminal
      BY <2>4 DEF Terminal
    <3>2. QED
      BY <1>t, <2>1, <2>2, <2>4, <3>1, TallyStays
  <2>5. QED
    BY <2>1, <2>3, <2>4
<1>3. ASSUME NEW w \in Workers,
             \/ \E b \in Broadcasts : Claim(w, b)
             \/ CountAudience(w) \/ CheckUnfinished(w) \/ Crash(w) \/ ResetAttempts(w) \/ Report(w)
      PROVE  TallyOf(c)'
  <2>1. /\ UNCHANGED <<delivery, person, arrived>> /\ worker'[w].at # "delivering"
        /\ \A v \in Workers \ {w} : worker'[v] = worker[v]
        /\ overlapped \subseteq overlapped'
        /\ broadcast'[c].status \in Terminal <=> broadcast[c].status \in Terminal
        /\ broadcast'[c].total = broadcast[c].total /\ broadcast'[c].counts = broadcast[c].counts
    <3>1. CASE \E b \in Broadcasts : Claim(w, b)
      <4>1. PICK b \in Broadcasts : Claim(w, b)
        BY <3>1
      <4>2. /\ UNCHANGED <<delivery, person, arrived>>
            /\ broadcast[b].status \in Open /\ broadcast'[b].status = "sending"
            /\ broadcast'[b].total = broadcast[b].total /\ broadcast'[b].counts = broadcast[b].counts
            /\ \A d \in Broadcasts \ {b} : broadcast'[d] = broadcast[d]
            /\ worker'[w].at # "delivering"
            /\ \A v \in Workers \ {w} : worker'[v] = worker[v]
            /\ overlapped \subseteq overlapped'
        BY <1>t, <4>1, ClaimShape
      <4>3. CASE c = b
        BY <4>2, <4>3 DEF Open, Terminal
      <4>4. CASE c # b
        BY <4>2, <4>4
      <4>5. QED
        BY <4>3, <4>4
    <3>2. CASE CountAudience(w) \/ CheckUnfinished(w) \/ Crash(w)
      BY <1>t, <3>2, StepAside
    <3>3. CASE ResetAttempts(w)
      BY <1>t, <3>3, ResetShape DEF Idle
    <3>4. CASE Report(w)
      BY <1>t, <3>4, ReportShape DEF Idle
    <3>5. QED
      BY <1>3, <3>1, <3>2, <3>3, <3>4
  <2>2. TallyOf(c)
    BY <1>1, <2>1 DEF Kept
  <2>3. \A v \in Workers : Works(v, c)' /\ worker'[v].at = "delivering" => worker'[v] = worker[v]
    BY <2>1
  <2>4. QED
    BY <1>t, <2>1, <2>2, <2>3, TallyStays
<1>4. ASSUME NEW w \in Workers, Purge(w) PROVE TallyOf(c)'
  <2>1. PICK b : b = worker[w].b
    OBVIOUS
  <2>2. /\ b \in Broadcasts /\ worker[w].at = "purging"
        /\ UNCHANGED <<broadcast, person, arrived, overlapped>>
        /\ \A v \in Workers \ {w} : worker'[v] = worker[v]
        /\ \A d \in Broadcasts \ {b} : delivery'[d] = delivery[d]
    BY <1>t, <1>4, <2>1, PurgeShape
  <2>3. worker'[w].at # "delivering"
    <3>1. worker[w].won \in BOOLEAN
      BY <1>t, <2>2, RunFacts
    <3>2. QED
      BY <1>t, <1>4, <2>1, <3>1, PurgeShape DEF Idle
  <2>4. TallyOf(c)
    BY <1>1, <2>2 DEF Kept
  <2>5. c = b => broadcast[c].status \in Terminal
    BY <2>1, <2>2 DEF RunsInv, AloneSound, Works
  <2>6. broadcast[c].status \in Terminal \/ \A u \in Users : delivery'[c][u] = delivery[c][u]
    BY <2>2, <2>5
  <2>7. \A v \in Workers : Works(v, c)' /\ worker'[v].at = "delivering" => worker'[v] = worker[v]
    BY <2>2, <2>3
  <2>8. QED
    BY <1>t, <2>2, <2>4, <2>6, <2>7, TallyStays
<1>5. CASE \/ \E b \in Broadcasts, u \in Users : ComeDue(b, u)
           \/ \E u \in Users : Move(u) \/ Erase(u)
  <2>1. /\ UNCHANGED <<broadcast, worker, arrived, overlapped>>
        /\ \A u \in Users :
              \/ delivery'[c][u] = delivery[c][u]
              \/ /\ delivery[c][u] # NoRow /\ delivery[c][u].status = "retry"
                 /\ delivery'[c][u] # NoRow /\ delivery'[c][u].status = "retry"
                 /\ delivery'[c][u].born = delivery[c][u].born
              \/ delivery'[c][u] = NoRow /\ person'[u] = "erased"
        /\ \A u \in Users : person[u] = "erased" => person'[u] = "erased"
    BY <1>t, <1>5, OutsideShape
  <2>2. Kept /\ \A u \in Users : person'[u] # "erased"
    BY <2>1 DEF Kept
  <2>3. TallyOf(c)
    BY <1>1, <2>1, <2>2
  <2>4. \A u \in Users :
           \/ delivery'[c][u] = delivery[c][u]
           \/ /\ delivery[c][u] # NoRow /\ delivery'[c][u] # NoRow
              /\ delivery'[c][u].status = delivery[c][u].status
              /\ delivery'[c][u].born = delivery[c][u].born
    BY <2>1, <2>2
  <2>5. QED
    BY <1>t, <2>1, <2>3, <2>4, TallyStays
<1>6. CASE UNCHANGED vars
  <2>1. UNCHANGED <<broadcast, delivery, person, worker, arrived, overlapped>>
    BY <1>6 DEF vars
  <2>2. TallyOf(c)
    BY <1>1, <2>1 DEF Kept
  <2>3. QED
    BY <1>t, <2>1, <2>2, TallyStays
<1>7. QED
  BY <1>2, <1>3, <1>4, <1>5, <1>6

\* The step of a run on one broadcast leaves the others alone.
LEMMA TallyElsewhere ==
    ASSUME TypeOK, NEW w \in Workers, NEW b \in Broadcasts, NEW c \in Broadcasts, c # b, TallyOf(c),
           \A v \in Workers \ {w} : worker'[v] = worker[v],
           worker'[w].at # "idle" => worker'[w].b = b,
           broadcast'[c] = broadcast[c], delivery'[c] = delivery[c],
           \A u \in Users : arrived'[c][u] = arrived[c][u]
    PROVE  TallyOf(c)'
<1>1. \A v \in Workers : Works(v, c)' /\ worker'[v].at = "delivering" => worker'[v] = worker[v]
  BY DEF Works
<1>2. \A v \in Workers : worker[v].at = "delivering" => DOMAIN worker[v].rows \subseteq Users
  BY PageUsers
<1>3. QED
  BY <1>1, <1>2, TallyStays

\* The one run of a broadcast works on one that is open.
LEMMA AloneOnIt ==
    ASSUME RunsInv, NEW w \in Workers, NEW b \in Broadcasts, b \notin overlapped, TallyOf(b),
           worker[w].b = b, worker[w].at \notin {"idle", "purging", "reporting"}
    PROVE  /\ broadcast[b].status = "sending" /\ TallySound(b) /\ Works(w, b)
           /\ \A v \in Workers \ {w} : ~Works(v, b)
           /\ worker[w].at = "closing" /\ worker[w].final = "done" => Unfinished(b) = {}
<1>1. Works(w, b)
  BY DEF Works
<1>2. broadcast[b].status = "sending" /\ (\A v \in Workers \ {w} : ~Works(v, b))
      /\ (worker[w].at = "closing" /\ worker[w].final = "done" => Unfinished(b) = {})
  BY <1>1 DEF RunsInv, AloneSound
<1>3. QED
  BY <1>1, <1>2 DEF TallyOf, Terminal

\* What is to be shown of the broadcast a run works on: its rows against what arrived,
\* and the page of the run.
LEMMA TallyHere ==
    ASSUME NEW w \in Workers, NEW b \in Broadcasts,
           \A v \in Workers \ {w} : worker'[v] = worker[v] /\ ~Works(v, b),
           broadcast'[b].status \notin Terminal,
           broadcast'[b].total = Cardinality(Listed(b)'),
           \A u \in Users :
              /\ arrived'[b][u] # <<>> =>
                    delivery'[b][u] # NoRow /\ delivery'[b][u].status \in {"sent", "in_progress"}
              /\ delivery'[b][u] # NoRow /\ delivery'[b][u].status = "sent" => arrived'[b][u] # <<>>,
           worker'[w].at = "delivering" =>
              \A u \in DOMAIN worker'[w].rows :
                 /\ delivery'[b][u] # NoRow /\ delivery'[b][u].born = worker'[w].rows[u].born
                 /\ arrived'[b][u] # <<>> <=> u \notin worker'[w].todo /\ worker'[w].outcome[u] = "sent"
    PROVE  TallyOf(b)'
<1>1. \A v \in Workers : Works(v, b)' => v = w
  BY DEF Works
<1>2. TallySound(b)'
  BY <1>1 DEF TallySound
<1>3. QED
  BY <1>2 DEF TallyOf

LEMMA InsertTally ==
    ASSUME DeliveryInv, RunsInv, TallyInv, NEW w \in Workers, InsertAudience(w)
    PROVE  TallyInv'
<1>t. TypeOK
  BY DEF DeliveryInv
<1>1. PICK b : b = worker[w].b
  OBVIOUS
<1>2. /\ b \in Broadcasts /\ worker[w].at = "counted"
      /\ UNCHANGED <<person, arrived, overlapped>>
      /\ worker'[w].at = "sending" /\ worker'[w].b = b
      /\ \A v \in Workers \ {w} : worker'[v] = worker[v]
      /\ \A c \in Broadcasts \ {b} : delivery'[c] = delivery[c] /\ broadcast'[c] = broadcast[c]
      /\ \A u \in Users :
            \/ delivery'[b][u] = delivery[b][u]
            \/ /\ delivery[b][u] = NoRow /\ delivery'[b][u] # NoRow
               /\ delivery'[b][u].status = "pending"
      /\ broadcast'[b].total = Cardinality(Listed(b)')
      /\ broadcast'[b].status = broadcast[b].status
  BY <1>t, <1>1, InsertShape
<1> SUFFICES ASSUME Kept', NEW c \in Broadcasts, c \notin overlapped' PROVE TallyOf(c)'
  BY DEF TallyInv
<1>3. TallyOf(c) /\ c \notin overlapped
  BY <1>2 DEF TallyInv, Kept
<1>4. CASE c # b
  BY <1>t, <1>2, <1>3, <1>4, TallyElsewhere
<1>5. CASE c = b
  <2>1. /\ broadcast[b].status = "sending" /\ TallySound(b)
        /\ \A v \in Workers \ {w} : ~Works(v, b)
    BY <1>1, <1>2, <1>3, <1>5, AloneOnIt
  <2>2. \A u \in Users :
           /\ arrived'[b][u] # <<>> =>
                 delivery'[b][u] # NoRow /\ delivery'[b][u].status \in {"sent", "in_progress"}
           /\ delivery'[b][u] # NoRow /\ delivery'[b][u].status = "sent" => arrived'[b][u] # <<>>
    BY <1>2, <2>1 DEF TallySound
  <2>3. \A v \in Workers \ {w} : worker'[v] = worker[v] /\ ~Works(v, b)
    BY <1>2, <2>1
  <2>4. broadcast'[b].status \notin Terminal
    BY <1>2, <2>1 DEF Terminal
  <2>5. worker'[w].at # "delivering"
    BY <1>2
  <2>6. TallyOf(b)'
    BY <1>2, <2>2, <2>3, <2>4, <2>5, TallyHere
  <2>7. QED
    BY <1>5, <2>6
<1>6. QED
  BY <1>4, <1>5

LEMMA ClaimBatchTally ==
    ASSUME DeliveryInv, RunsInv, TallyInv, NEW w \in Workers, ClaimBatch(w)
    PROVE  TallyInv'
<1>t. TypeOK
  BY DEF DeliveryInv
<1>1. PICK b : b = worker[w].b
  OBVIOUS
<1>2. /\ b \in Broadcasts /\ worker[w].at = "sending"
      /\ UNCHANGED <<broadcast, person, arrived, overlapped>>
      /\ worker'[w].b = b
      /\ \A v \in Workers \ {w} : worker'[v] = worker[v]
      /\ \A c \in Broadcasts \ {b} : delivery'[c] = delivery[c]
      /\ \/ worker'[w].at = "checking" /\ UNCHANGED delivery
         \/ \E page \in SUBSET Users :
               /\ worker'[w].at = "delivering" /\ DOMAIN worker'[w].rows = page
               /\ worker'[w].todo = page
               /\ \A u \in Users \ page : delivery'[b][u] = delivery[b][u]
               /\ \A u \in page :
                     /\ delivery[b][u] # NoRow /\ delivery[b][u].status \in Waiting
                     /\ delivery'[b][u] # NoRow
                     /\ delivery'[b][u] = worker'[w].rows[u]
                     /\ delivery'[b][u].status = "in_progress"
  BY <1>1, ClaimBatchShape
<1> SUFFICES ASSUME Kept', NEW c \in Broadcasts, c \notin overlapped' PROVE TallyOf(c)'
  BY DEF TallyInv
<1>3. TallyOf(c) /\ c \notin overlapped
  BY <1>2 DEF TallyInv, Kept
<1>4. CASE c # b
  BY <1>t, <1>2, <1>3, <1>4, TallyElsewhere
<1>5. CASE c = b
  <2>1. /\ broadcast[b].status = "sending" /\ TallySound(b)
        /\ \A v \in Workers \ {w} : ~Works(v, b)
    BY <1>1, <1>2, <1>3, <1>5, AloneOnIt
  <2>2. \A v \in Workers \ {w} : worker'[v] = worker[v] /\ ~Works(v, b)
    BY <1>2, <2>1
  <2>3. broadcast'[b].status \notin Terminal
    BY <1>2, <2>1 DEF Terminal
  <2>4. CASE worker'[w].at = "checking" /\ UNCHANGED delivery
    <3>1. broadcast'[b].total = Cardinality(Listed(b)')
      BY <1>2, <2>1, <2>4 DEF TallySound, Listed
    <3>2. \A u \in Users :
             /\ arrived'[b][u] # <<>> =>
                   delivery'[b][u] # NoRow /\ delivery'[b][u].status \in {"sent", "in_progress"}
             /\ delivery'[b][u] # NoRow /\ delivery'[b][u].status = "sent" => arrived'[b][u] # <<>>
      BY <1>2, <2>1, <2>4 DEF TallySound
    <3>3. worker'[w].at # "delivering"
      BY <2>4
    <3>4. TallyOf(b)'
      BY <1>2, <2>2, <2>3, <3>1, <3>2, <3>3, TallyHere
    <3>5. QED
      BY <1>5, <3>4
  <2>5. ASSUME NEW page \in SUBSET Users,
               worker'[w].at = "delivering", DOMAIN worker'[w].rows = page,
               worker'[w].todo = page,
               \A u \in Users \ page : delivery'[b][u] = delivery[b][u],
               \A u \in page :
                     /\ delivery[b][u] # NoRow /\ delivery[b][u].status \in Waiting
                     /\ delivery'[b][u] # NoRow
                     /\ delivery'[b][u] = worker'[w].rows[u]
                     /\ delivery'[b][u].status = "in_progress"
        PROVE  TallyOf(b)'
    <3>1. Listed(b)' = Listed(b)
      BY <2>5 DEF Listed
    <3>2. broadcast'[b].total = Cardinality(Listed(b)')
      BY <1>2, <2>1, <3>1 DEF TallySound
    <3>3. \A u \in page : arrived[b][u] = <<>>
      BY <2>1, <2>5 DEF TallySound, Waiting
    <3>4. \A u \in Users :
             /\ arrived'[b][u] # <<>> =>
                   delivery'[b][u] # NoRow /\ delivery'[b][u].status \in {"sent", "in_progress"}
             /\ delivery'[b][u] # NoRow /\ delivery'[b][u].status = "sent" => arrived'[b][u] # <<>>
      <4> TAKE u \in Users
      <4>1. CASE u \in page
        BY <1>2, <2>5, <3>3, <4>1
      <4>2. CASE u \notin page
        BY <1>2, <2>1, <2>5, <4>2 DEF TallySound
      <4>3. QED
        BY <4>1, <4>2
    <3>5. \A u \in DOMAIN worker'[w].rows :
             /\ delivery'[b][u] # NoRow /\ delivery'[b][u].born = worker'[w].rows[u].born
             /\ arrived'[b][u] # <<>> <=> u \notin worker'[w].todo /\ worker'[w].outcome[u] = "sent"
      BY <1>2, <2>5, <3>3
    <3>6. QED
      BY <1>2, <2>2, <2>3, <3>2, <3>4, <3>5, TallyHere
  <2>6. QED
    BY <1>2, <1>5, <2>4, <2>5
<1>6. QED
  BY <1>4, <1>5

\* The message reaches a row in progress, which the page has as sent or will never record.
LEMMA DeliverTally ==
    ASSUME DeliveryInv, RunsInv, TallyInv, NEW w \in Workers,
           LoseConnection(w) \/ \E answer \in Answers : Deliver(w, answer)
    PROVE  TallyInv'
<1>t. TypeOK
  BY DEF DeliveryInv
<1>1. PICK b : b = worker[w].b
  OBVIOUS
<1>2. /\ b \in Broadcasts /\ worker[w].at = "delivering"
      /\ UNCHANGED <<broadcast, delivery, person, overlapped>>
      /\ \A v \in Workers \ {w} : worker'[v] = worker[v]
      /\ worker'[w].at # "idle" => worker'[w].b = b
      /\ \E u \in worker[w].todo :
            /\ u \in Users /\ u \in DOMAIN worker[w].rows /\ worker[w].rows[u] \in Row
            /\ \/ arrived' = arrived
               \/ arrived' = Reached(b, u, worker[w].rows[u])
            /\ worker'[w].at = "delivering" =>
                  /\ worker'[w].rows = worker[w].rows
                  /\ worker'[w].todo = worker[w].todo \ {u}
                  /\ \A v \in DOMAIN worker[w].rows \ worker[w].todo :
                        worker'[w].outcome[v] = worker[w].outcome[v]
                  /\ worker'[w].outcome[u] = "sent" => arrived' = Reached(b, u, worker[w].rows[u])
                  /\ worker'[w].outcome[u] # "sent" => arrived' = arrived
  <2>1. CASE LoseConnection(w)
    BY <1>t, <1>1, <2>1, LoseShape DEF Idle
  <2>2. ASSUME NEW answer \in Answers, Deliver(w, answer)
        PROVE  /\ b \in Broadcasts /\ worker[w].at = "delivering"
               /\ UNCHANGED <<broadcast, delivery, person, overlapped>>
               /\ \A v \in Workers \ {w} : worker'[v] = worker[v]
               /\ worker'[w].at # "idle" => worker'[w].b = b
               /\ \E u \in worker[w].todo :
                     /\ u \in Users /\ u \in DOMAIN worker[w].rows /\ worker[w].rows[u] \in Row
                     /\ \/ arrived' = arrived
                        \/ arrived' = Reached(b, u, worker[w].rows[u])
                     /\ worker'[w].at = "delivering" =>
                           /\ worker'[w].rows = worker[w].rows
                           /\ worker'[w].todo = worker[w].todo \ {u}
                           /\ \A v \in DOMAIN worker[w].rows \ worker[w].todo :
                                 worker'[w].outcome[v] = worker[w].outcome[v]
                           /\ worker'[w].outcome[u] = "sent" => arrived' = Reached(b, u, worker[w].rows[u])
                           /\ worker'[w].outcome[u] # "sent" => arrived' = arrived
    <3>1. /\ b \in Broadcasts /\ worker[w].at = "delivering"
          /\ UNCHANGED <<broadcast, delivery, person, overlapped>>
          /\ \A v \in Workers \ {w} : worker'[v] = worker[v]
          /\ worker'[w].b = b /\ worker'[w].rows = worker[w].rows
      BY <1>t, <1>1, <2>2, DeliverShape
    <3>2. PICK u \in worker[w].todo :
             /\ u \in Users /\ u \in DOMAIN worker[w].rows /\ worker[w].rows[u] \in Row
             /\ worker'[w].todo = worker[w].todo \ {u}
             /\ \A v \in DOMAIN worker[w].rows \ worker[w].todo :
                   worker'[w].outcome[v] = worker[w].outcome[v]
             /\ worker'[w].outcome[u] = "sent" <=> answer = "ok"
             /\ arrived' = IF answer = "ok" THEN Reached(b, u, worker[w].rows[u]) ELSE arrived
      BY <1>t, <1>1, <2>2, DeliverShape
    <3>3. QED
      BY <3>1, <3>2
  <2>3. QED
    BY <2>1, <2>2
<1>3. PICK u \in worker[w].todo :
         /\ u \in Users /\ u \in DOMAIN worker[w].rows /\ worker[w].rows[u] \in Row
         /\ \/ arrived' = arrived
            \/ arrived' = Reached(b, u, worker[w].rows[u])
         /\ worker'[w].at = "delivering" =>
               /\ worker'[w].rows = worker[w].rows
               /\ worker'[w].todo = worker[w].todo \ {u}
               /\ \A v \in DOMAIN worker[w].rows \ worker[w].todo :
                     worker'[w].outcome[v] = worker[w].outcome[v]
               /\ worker'[w].outcome[u] = "sent" => arrived' = Reached(b, u, worker[w].rows[u])
               /\ worker'[w].outcome[u] # "sent" => arrived' = arrived
  BY <1>2
<1>4. /\ \A c \in Broadcasts, v \in Users : ~(c = b /\ v = u) => arrived'[c][v] = arrived[c][v]
      /\ arrived' = Reached(b, u, worker[w].rows[u]) => arrived'[b][u] # <<>>
  <2>1. CASE arrived' = arrived /\ arrived' # Reached(b, u, worker[w].rows[u])
    BY <2>1
  <2>2. CASE arrived' = Reached(b, u, worker[w].rows[u])
    <3>1. /\ \A c \in Broadcasts, v \in Users : ~(c = b /\ v = u) => arrived'[c][v] = arrived[c][v]
          /\ arrived'[b][u] = Append(arrived[b][u], worker[w].rows[u].born)
          /\ worker[w].rows[u].born \in Nat /\ arrived[b][u] \in Seq(Nat)
      BY <1>t, <1>2, <1>3, <2>2, ReachedShape
    <3>2. arrived'[b][u] # <<>>
      BY <3>1, EntriesAppended
    <3>3. QED
      BY <3>1, <3>2
  <2>3. QED
    BY <1>3, <2>1, <2>2
<1> SUFFICES ASSUME Kept', NEW c \in Broadcasts, c \notin overlapped' PROVE TallyOf(c)'
  BY DEF TallyInv
<1>5. TallyOf(c) /\ c \notin overlapped
  BY <1>2 DEF TallyInv, Kept
<1>6. CASE c # b
  <2>1. \A v \in Users : arrived'[c][v] = arrived[c][v]
    BY <1>4, <1>6
  <2>2. broadcast'[c] = broadcast[c] /\ delivery'[c] = delivery[c]
    BY <1>2
  <2>3. QED
    BY <1>t, <1>2, <1>5, <1>6, <2>1, <2>2, TallyElsewhere
<1>7. CASE c = b
  <2>1. /\ broadcast[b].status = "sending" /\ TallySound(b) /\ Works(w, b)
        /\ \A v \in Workers \ {w} : ~Works(v, b)
    BY <1>1, <1>2, <1>5, <1>7, AloneOnIt
  <2>2. \A v \in Workers \ {w} : worker'[v] = worker[v] /\ ~Works(v, b)
    BY <1>2, <2>1
  <2>3. broadcast'[b].status \notin Terminal
    BY <1>2, <2>1 DEF Terminal
  <2>4. broadcast'[b].total = Cardinality(Listed(b)')
    BY <1>2, <2>1 DEF TallySound, Listed
  <2>5. \A v \in DOMAIN worker[w].rows :
           /\ delivery[b][v] # NoRow /\ delivery[b][v].born = worker[w].rows[v].born
           /\ arrived[b][v] # <<>> <=> v \notin worker[w].todo /\ worker[w].outcome[v] = "sent"
    BY <1>2, <2>1 DEF TallySound
  <2>6. delivery[b][u] # NoRow /\ delivery[b][u].status = "in_progress" /\ arrived[b][u] = <<>>
    <3>1. PageSound(w, u)
      BY <1>2, <1>3 DEF DeliveryInv, PagesSound
    <3>2. delivery[b][u] # NoRow /\ delivery[b][u].born = worker[w].rows[u].born /\ arrived[b][u] = <<>>
      BY <1>3, <2>5
    <3>3. QED
      BY <1>1, <3>1, <3>2 DEF PageSound
  <2>7. \A v \in Users :
           /\ arrived'[b][v] # <<>> =>
                 delivery'[b][v] # NoRow /\ delivery'[b][v].status \in {"sent", "in_progress"}
           /\ delivery'[b][v] # NoRow /\ delivery'[b][v].status = "sent" => arrived'[b][v] # <<>>
    <3> TAKE v \in Users
    <3>1. CASE v = u
      BY <1>2, <2>6, <3>1
    <3>2. CASE v # u
      BY <1>2, <1>4, <2>1, <3>2 DEF TallySound
    <3>3. QED
      BY <3>1, <3>2
  <2>8. ASSUME worker'[w].at = "delivering", NEW v \in DOMAIN worker'[w].rows
        PROVE  /\ delivery'[b][v] # NoRow /\ delivery'[b][v].born = worker'[w].rows[v].born
               /\ arrived'[b][v] # <<>> <=> v \notin worker'[w].todo /\ worker'[w].outcome[v] = "sent"
    <3>1. v \in DOMAIN worker[w].rows /\ v \in Users
      BY <1>t, <1>2, <1>3, <2>8, PageUsers
    <3>2. CASE v = u
      <4>1. u \notin worker'[w].todo
        BY <1>3, <2>8
      <4>2. arrived'[b][u] # <<>> <=> worker'[w].outcome[u] = "sent"
        BY <1>3, <1>4, <2>6, <2>8
      <4>3. QED
        BY <1>2, <1>3, <2>5, <2>8, <3>1, <3>2, <4>1, <4>2
    <3>3. CASE v # u
      <4>1. arrived'[b][v] = arrived[b][v]
        BY <1>2, <1>4, <3>1, <3>3
      <4>2. v \in worker'[w].todo <=> v \in worker[w].todo
        BY <1>3, <2>8, <3>3
      <4>3. v \notin worker[w].todo => worker'[w].outcome[v] = worker[w].outcome[v]
        BY <1>3, <2>8, <3>1
      <4>4. QED
        BY <1>2, <1>3, <2>5, <2>8, <3>1, <4>1, <4>2, <4>3
    <3>4. QED
      BY <3>2, <3>3
  <2>9. TallyOf(b)'
    BY <1>2, <2>2, <2>3, <2>4, <2>7, <2>8, TallyHere
  <2>10. QED
    BY <1>7, <2>9
<1>8. QED
  BY <1>6, <1>7

LEMMA RecordTally ==
    ASSUME DeliveryInv, RunsInv, TallyInv, NEW w \in Workers, Record(w)
    PROVE  TallyInv'
<1>t. TypeOK
  BY DEF DeliveryInv
<1>1. PICK b : b = worker[w].b
  OBVIOUS
<1>2. /\ b \in Broadcasts /\ worker[w].at = "delivering"
      /\ UNCHANGED <<broadcast, arrived, overlapped>>
      /\ worker'[w].at \in {"checking", "sending"} /\ worker'[w].b = b
      /\ \A v \in Workers \ {w} : worker'[v] = worker[v]
      /\ \A c \in Broadcasts \ {b} : delivery'[c] = delivery[c]
      /\ \A u \in Users : person'[u] = "erased" <=> person[u] = "erased"
      /\ \A u \in Users :
            \/ /\ delivery'[b][u] = delivery[b][u]
               /\ delivery[b][u] # NoRow /\ u \in DOMAIN worker[w].rows =>
                     delivery[b][u].born # worker[w].rows[u].born
            \/ /\ u \in DOMAIN worker[w].rows
               /\ delivery[b][u] # NoRow /\ delivery'[b][u] # NoRow
               /\ u \in worker[w].todo => delivery'[b][u].status = "retry"
               /\ u \notin worker[w].todo => delivery'[b][u].status = worker[w].outcome[u]
  BY <1>1, RecordShape
<1> SUFFICES ASSUME Kept', NEW c \in Broadcasts, c \notin overlapped' PROVE TallyOf(c)'
  BY DEF TallyInv
<1>3. TallyOf(c) /\ c \notin overlapped
  BY <1>2 DEF TallyInv, Kept
<1>4. CASE c # b
  BY <1>t, <1>2, <1>3, <1>4, TallyElsewhere
<1>5. CASE c = b
  <2>1. /\ broadcast[b].status = "sending" /\ TallySound(b) /\ Works(w, b)
        /\ \A v \in Workers \ {w} : ~Works(v, b)
    BY <1>1, <1>2, <1>3, <1>5, AloneOnIt
  <2>2. \A v \in Workers \ {w} : worker'[v] = worker[v] /\ ~Works(v, b)
    BY <1>2, <2>1
  <2>3. broadcast'[b].status \notin Terminal
    BY <1>2, <2>1 DEF Terminal
  <2>4. Listed(b)' = Listed(b)
    BY <1>2 DEF Listed
  <2>5. broadcast'[b].total = Cardinality(Listed(b)')
    BY <1>2, <2>1, <2>4 DEF TallySound
  <2>6. \A u \in Users :
           /\ arrived'[b][u] # <<>> =>
                 delivery'[b][u] # NoRow /\ delivery'[b][u].status \in {"sent", "in_progress"}
           /\ delivery'[b][u] # NoRow /\ delivery'[b][u].status = "sent" => arrived'[b][u] # <<>>
    <3> TAKE u \in Users
    <3>1. CASE delivery'[b][u] = delivery[b][u]
      BY <1>2, <2>1, <3>1 DEF TallySound
    <3>2. CASE /\ u \in DOMAIN worker[w].rows
               /\ delivery[b][u] # NoRow /\ delivery'[b][u] # NoRow
               /\ u \in worker[w].todo => delivery'[b][u].status = "retry"
               /\ u \notin worker[w].todo => delivery'[b][u].status = worker[w].outcome[u]
      <4>1. arrived[b][u] # <<>> <=> u \notin worker[w].todo /\ worker[w].outcome[u] = "sent"
        BY <1>2, <2>1, <3>2 DEF TallySound
      <4>2. QED
        BY <1>2, <3>2, <4>1
    <3>3. QED
      BY <1>2, <3>1, <3>2
  <2>7. worker'[w].at # "delivering"
    BY <1>2
  <2>8. TallyOf(b)'
    BY <1>2, <2>2, <2>3, <2>5, <2>6, <2>7, TallyHere
  <2>9. QED
    BY <1>5, <2>8
<1>6. QED
  BY <1>4, <1>5

LEMMA FinalizeTally ==
    ASSUME DeliveryInv, RunsInv, TallyInv, NEW w \in Workers, Finalize(w)
    PROVE  TallyInv'
<1>t. TypeOK
  BY DEF DeliveryInv
<1>1. PICK b : b = worker[w].b
  OBVIOUS
<1>2. /\ b \in Broadcasts /\ worker[w].at = "closing"
      /\ UNCHANGED <<person, arrived, overlapped>>
      /\ worker'[w].b = b
      /\ \A v \in Workers \ {w} : worker'[v] = worker[v]
      /\ \A c \in Broadcasts \ {b} : delivery'[c] = delivery[c] /\ broadcast'[c] = broadcast[c]
      /\ broadcast'[b].counts = CountsOf(b)
      /\ broadcast'[b].total = broadcast[b].total
      /\ broadcast[b].status = "sending" => broadcast'[b].status = worker[w].final
      /\ worker[w].final \in Terminal
  BY <1>t, <1>1, FinalizeShape
<1> SUFFICES ASSUME Kept', NEW c \in Broadcasts, c \notin overlapped' PROVE TallyOf(c)'
  BY DEF TallyInv
<1>3. TallyOf(c) /\ c \notin overlapped
  BY <1>2 DEF TallyInv, Kept
<1>4. CASE c # b
  BY <1>t, <1>2, <1>3, <1>4, TallyElsewhere
<1>5. CASE c = b
  <2>1. broadcast[b].status = "sending" /\ TallySound(b)
    BY <1>1, <1>2, <1>3, <1>5, AloneOnIt
  <2>2. PICK n : n = CountsOf(b)
    OBVIOUS
  <2>3. /\ n.sent + n.failed + n.skipped + n.orphan = broadcast[b].total
        /\ n.sent <= Reach(b) /\ Reach(b) <= n.sent + n.orphan
    BY <1>t, <1>2, <2>1, <2>2, CountsAddUp DEF RunsInv
  <2>4. broadcast'[b].counts = n /\ Reach(b)' = Reach(b)
    BY <1>2, <2>2 DEF Reach
  <2>5. CountsCover(b)'
    BY <1>2, <2>3, <2>4 DEF CountsCover
  <2>6. QED
    BY <1>2, <1>5, <2>1, <2>5 DEF TallyOf
<1>6. QED
  BY <1>4, <1>5

LEMMA InitTally == Init => TallyInv
<1> SUFFICES ASSUME Init, NEW b \in Broadcasts PROVE TallyOf(b)
  BY DEF TallyInv
<1>1. /\ \A w \in Workers : worker[w].at = "idle"
      /\ broadcast[b].status = "unused" /\ broadcast[b].total = 0
      /\ \A u \in Users : delivery[b][u] = NoRow /\ arrived[b][u] = <<>>
  BY DEF Init, Idle, Unused
<1>2. Listed(b) = {}
  BY <1>1 DEF Listed
<1>3. Cardinality(Listed(b)) = 0
  BY <1>2, FS_EmptySet
<1>4. TallySound(b)
  BY <1>1, <1>3 DEF TallySound, Works
<1>5. QED
  BY <1>1, <1>4 DEF TallyOf, Terminal

\* While nobody is erased, what a broadcast that no two runs worked on at once counts is
\* its audience, and who has its message is known up to the orphans.
THEOREM TallyCorrect == Spec => []TallyInv
<1>1. DeliveryInv /\ RunsInv /\ TallyInv /\ [Next]_vars => TallyInv'
  <2> SUFFICES ASSUME DeliveryInv, RunsInv, TallyInv, [Next]_vars PROVE TallyInv'
    OBVIOUS
  <2>1. ASSUME NEW w \in Workers, Work(w) PROVE TallyInv'
    BY <2>1, QuietTally, InsertTally, ClaimBatchTally, DeliverTally, RecordTally, FinalizeTally DEF Work
  <2>2. ASSUME NEW w \in Workers, LoseConnection(w) \/ Crash(w) PROVE TallyInv'
    BY <2>2, QuietTally, DeliverTally
  <2>3. CASE \/ \E o \in Operators : Operate(o)
             \/ \E b \in Broadcasts, u \in Users : ComeDue(b, u)
             \/ \E u \in Users : Move(u) \/ Erase(u)
             \/ UNCHANGED vars
    BY <2>3, QuietTally
  <2>4. QED
    BY <2>1, <2>2, <2>3 DEF Next
<1>2. QED
  BY <1>1, InitTally, DeliveriesCorrect, RunsCorrect, PTL DEF Spec

\* What the operators are told of a broadcast is true, and they are told once.
THEOREM OperatorsAreToldTheTruth == Spec => []ReportsAreTrue
<1>1. TallyInv => CountsAreTrue
  BY DEF TallyInv, TallyOf, CountsCover, CountsAreTrue, Kept
<1>2. TallyInv /\ OneSummary => ReportsAreTrue
  BY <1>1 DEF ReportsAreTrue
<1>3. QED
  BY <1>2, TallyCorrect, SummariesAreSentOnce, PTL


==============================================================================
