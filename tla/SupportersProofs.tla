--------------------------- MODULE SupportersProofs ---------------------------
(***************************************************************************)
(* Proofs of what Supporters promises: an account that one writer at a     *)
(* time works on holds its granted tier at least, and exactly that when it *)
(* has no subscription; a pairing code and a Patreon account are one       *)
(* person's, however the writers overlap.                                  *)
(***************************************************************************)
EXTENDS Supporters, FiniteSetTheorems, SequenceTheorems, TLAPS

-----------------------------------------------------------------------------
(* Tiers and transactions *)

LEMMA Tiers ==
    /\ \A cents \in Nat : TargetLevel(cents) \in Levels /\ LevelForAmount(cents) \in Levels
    /\ \A x, y \in Levels : Highest(x, y) \in Levels /\ Highest(x, y) >= x /\ Highest(x, y) >= y
BY DEF TargetLevel, LevelForAmount, Highest, Levels

LEMMA AmountsAreNumbers == \A x \in {0} \cup Amounts : x \in Nat
<1>1. Amounts \subseteq Nat \ {0}
  BY SupporterAssumption
<1>2. QED
  BY <1>1

LEMMA TransactionFacts ==
    ASSUME NEW t \in Transactions
    PROVE  /\ t.op \in Reads /\ t.op # "idle" /\ t.op # "calls"
           /\ t.u \in Users /\ t.acc \in AccountRow /\ t.held \in SubRow \cup {NoSub}
           /\ t.op \in {"link", "grant", "event", "sync"} => t.worth \in Levels
           /\ t.op \in {"unlink", "event", "sync", "due"} => t.held \in SubRow
           /\ t.op = "due" => t.active \in BOOLEAN
           /\ t.op = "link" => t.code \in Codes
BY DEF Transactions, Reads

LEMMA ActorFacts ==
    ASSUME SupportersTypeOK, NEW a \in Actors
    PROVE  /\ tx[a] \in {NoTx} \cup Transactions \cup Calling
           /\ tx[a] = NoTx <=> tx[a].op = "idle"
           /\ tx[a] \in Transactions <=> tx[a].op \in Reads
           /\ tx[a] \in Calling <=> tx[a].op = "calls"
           /\ tx[a].op # "idle" => tx[a].u \in Users
<1>1. tx[a] \in {NoTx} \cup Transactions \cup Calling
  BY DEF SupportersTypeOK
<1>2. CASE tx[a] = NoTx
  <2>1. NoTx.op = "idle" /\ "u" \notin DOMAIN NoTx
    BY DEF NoTx
  <2>2. NoTx \notin Transactions
    BY <2>1, TransactionFacts
  <2>3. NoTx \notin Calling
    BY <2>1 DEF Calling
  <2>4. QED
    BY <1>1, <1>2, <2>1, <2>2, <2>3 DEF Reads
<1>3. CASE tx[a] \in Transactions
  BY <1>1, <1>3, TransactionFacts DEF NoTx, Calling
<1>4. CASE tx[a] \in Calling
  <2>1. tx[a].op = "calls" /\ tx[a].u \in Users
    BY <1>4 DEF Calling
  <2>2. NoTx.op = "idle" /\ "calls" \notin Reads
    BY DEF NoTx, Reads
  <2>3. tx[a] \notin Transactions /\ tx[a] # NoTx
    BY <2>1, <2>2, TransactionFacts
  <2>4. QED
    BY <1>1, <1>4, <2>1, <2>2, <2>3
<1>5. QED
  BY <1>1, <1>2, <1>3, <1>4

\* One actor takes a step, the others stay where they are.
LEMMA ActorMoves ==
    ASSUME SupportersTypeOK, NEW a \in Actors, NEW x, tx' = [tx EXCEPT ![a] = x]
    PROVE  /\ tx'[a] = x /\ \A b \in Actors \ {a} : tx'[b] = tx[b]
           /\ x \in {NoTx} \cup Transactions \cup Calling =>
                 tx' \in [Actors -> {NoTx} \cup Transactions \cup Calling]
<1> DEFINE T == {NoTx} \cup Transactions \cup Calling
<1>1. tx \in [Actors -> T]
  BY DEF SupportersTypeOK
<1> HIDE DEF T
<1>2. QED
  <2>1. /\ tx'[a] = x /\ \A b \in Actors \ {a} : tx'[b] = tx[b]
        /\ x \in T => tx' \in [Actors -> T]
    BY <1>1
  <2>2. QED
    BY <2>1 DEF T

\* Of a row, the columns that were changed are written.
LEMMA AccountWritten ==
    ASSUME NEW now \in AccountRow, NEW read \in AccountRow, NEW new \in AccountRow
    PROVE  /\ Columns(now, read, new) \in AccountRow
           /\ now.level = read.level => Columns(now, read, new).level = new.level
           /\ now.granted = read.granted => Columns(now, read, new).granted = new.granted
           /\ new.status = read.status => Columns(now, read, new).status = now.status
<1>1. DOMAIN now = {"status", "level", "granted"}
  BY DEF AccountRow
<1>2. Columns(now, read, new) =
         [status |-> IF new.status # read.status THEN new.status ELSE now.status,
          level |-> IF new.level # read.level THEN new.level ELSE now.level,
          granted |-> IF new.granted # read.granted THEN new.granted ELSE now.granted]
  BY <1>1 DEF Columns
<1>3. QED
  BY <1>2 DEF AccountRow

LEMMA SubWritten ==
    ASSUME NEW now \in SubRow, NEW read \in SubRow, NEW new \in SubRow
    PROVE  /\ Columns(now, read, new) \in SubRow
           /\ new.id = read.id => Columns(now, read, new).id = now.id
           /\ Columns(now, read, new).patron \in {now.patron, new.patron}
           /\ new.patron = read.patron => Columns(now, read, new).patron = now.patron
<1>1. DOMAIN now = {"id", "patron", "runway", "told"}
  BY DEF SubRow
<1>2. Columns(now, read, new) =
         [id |-> IF new.id # read.id THEN new.id ELSE now.id,
          patron |-> IF new.patron # read.patron THEN new.patron ELSE now.patron,
          runway |-> IF new.runway # read.runway THEN new.runway ELSE now.runway,
          told |-> IF new.told # read.told THEN new.told ELSE now.told]
  BY <1>1 DEF Columns
<1>3. QED
  BY <1>2 DEF SubRow

\* The tier is set, the rest of the account is left alone.
LEMMA LevelSet ==
    ASSUME NEW acc \in AccountRow, NEW n \in Levels, NEW x, x = [acc EXCEPT !.level = n]
    PROVE  /\ x \in AccountRow /\ x.level = n /\ x.granted = acc.granted /\ x.status = acc.status
BY DEF AccountRow

LEMMA RunwaySet ==
    ASSUME NEW held \in SubRow, NEW runway \in {"none", "running", "over"}, NEW told \in BOOLEAN,
           NEW s, s = [held EXCEPT !.runway = runway, !.told = told]
    PROVE  s \in SubRow /\ s # NoSub /\ s.id = held.id /\ s.patron = held.patron
BY RowAssumption DEF SubRow

\* The account is at its granted tier at least, and at that one when it has no subscription.
Backed(acc, held) ==
    /\ acc.level >= acc.granted
    /\ held = NoSub => acc.level = acc.granted

\* What a decision d on what t has read may be.
Sound(t, d) ==
    /\ d.acc \in AccountRow /\ d.acc.status = t.acc.status /\ d.sub \in SubRow \cup {NoSub}
    /\ Backed(t.acc, t.held) => Backed(d.acc, d.sub)
    /\ t.op # "link" /\ d.sub # NoSub =>
          t.held # NoSub /\ d.sub.patron = t.held.patron /\ d.sub.id = t.held.id
    /\ t.op = "link" =>
          /\ d.sub # NoSub /\ d.sub.patron = pending[t.code].patron
          /\ t.held # NoSub => d.sub.id = t.held.id

\* A decision of a writer that goes by the account's subscription.
LEMMA KeptSound ==
    ASSUME NEW t \in Transactions, t.op # "link", NEW d, NEW x \in AccountRow, NEW s \in SubRow \cup {NoSub},
           d = [acc |-> x, sub |-> s], x.status = t.acc.status,
           Backed(t.acc, t.held) => Backed(x, s),
           s # NoSub => t.held # NoSub /\ s.patron = t.held.patron /\ s.id = t.held.id
    PROVE  Sound(t, d)
<1>1. d.acc = x /\ d.sub = s
  OBVIOUS
<1>2. QED
  BY <1>1 DEF Sound

LEMMA LinkSound ==
    ASSUME NEW t \in Transactions, t.op = "link", pending[t.code] \in LinkRow
    PROVE  Sound(t, LinkPatreonAccount(t))
<1>1. PICK acc \in AccountRow, held \in SubRow \cup {NoSub} : acc = t.acc /\ held = t.held
  BY TransactionFacts
<1>2. PICK p \in Patrons : p = pending[t.code].patron
  BY DEF LinkRow
<1>3. t.code \in Codes /\ t.worth \in Levels
  BY TransactionFacts
<1>4. PICK s : s = IF held = NoSub THEN [id |-> t.code, patron |-> p, runway |-> "none", told |-> FALSE]
                   ELSE [held EXCEPT !.patron = p]
  OBVIOUS
<1>5. s \in SubRow /\ s.patron = p /\ (held # NoSub => s.id = held.id)
  BY <1>3, <1>4 DEF SubRow
<1>6. PICK r : r = [s EXCEPT !.runway = IF IsSupporter(t.worth) THEN "running" ELSE "none"]
  OBVIOUS
<1>7. r \in SubRow /\ r # NoSub /\ r.patron = p /\ r.id = s.id
  BY <1>5, <1>6, RowAssumption DEF SubRow
<1>8. acc.granted \in Levels
  BY DEF AccountRow
<1>9. PICK n \in Levels : n = Highest(t.worth, acc.granted) /\ n >= acc.granted
  BY <1>3, <1>8, Tiers
<1>10. PICK x : x = [acc EXCEPT !.level = n]
  OBVIOUS
<1>11. x \in AccountRow /\ x.level = n /\ x.granted = acc.granted /\ x.status = acc.status
  BY <1>10, LevelSet
<1>12. LinkPatreonAccount(t) = [acc |-> x, sub |-> r]
  BY <1>1, <1>2, <1>4, <1>6, <1>9, <1>10 DEF LinkPatreonAccount
<1>13. LinkPatreonAccount(t).acc = x /\ LinkPatreonAccount(t).sub = r
  BY <1>12
<1>14. QED
  BY <1>1, <1>2, <1>5, <1>7, <1>9, <1>11, <1>13 DEF Sound, Backed

LEMMA UnlinkSound ==
    ASSUME NEW t \in Transactions, t.op = "unlink"
    PROVE  Sound(t, Unlink(t))
<1>1. PICK acc \in AccountRow : acc = t.acc
  BY TransactionFacts
<1>2. acc.granted \in Levels
  BY DEF AccountRow
<1>3. PICK x : x = [acc EXCEPT !.level = acc.granted]
  OBVIOUS
<1>4. x \in AccountRow /\ x.level = acc.granted /\ x.granted = acc.granted /\ x.status = acc.status
  BY <1>2, <1>3, LevelSet
<1>5. Unlink(t) = [acc |-> x, sub |-> NoSub]
  BY <1>1, <1>3 DEF Unlink
<1>6. Backed(x, NoSub)
  BY <1>2, <1>4 DEF Backed, Levels
<1>7. QED
  BY <1>1, <1>4, <1>5, <1>6, KeptSound

LEMMA GrantSound ==
    ASSUME NEW t \in Transactions, t.op = "grant"
    PROVE  Sound(t, ApplyGrant(t))
<1>1. PICK acc \in AccountRow, held \in SubRow \cup {NoSub} : acc = t.acc /\ held = t.held
  BY TransactionFacts
<1>2. PICK g \in Levels : g = t.worth
  BY TransactionFacts
<1>3. acc.level \in Levels
  BY DEF AccountRow
<1>4. PICK n \in Levels : /\ n = IF held # NoSub THEN Highest(acc.level, g) ELSE g
                          /\ n >= g /\ (held = NoSub => n = g)
  <2>1. g >= g
    BY DEF Levels
  <2>2. QED
    BY <1>3, <2>1, Tiers
<1>5. PICK x : x = [acc EXCEPT !.granted = g, !.level = n]
  OBVIOUS
<1>6. x \in AccountRow /\ x.level = n /\ x.granted = g /\ x.status = acc.status
  BY <1>5 DEF AccountRow
<1>7. ApplyGrant(t) = [acc |-> x, sub |-> held]
  BY <1>1, <1>2, <1>4, <1>5 DEF ApplyGrant
<1>8. Backed(x, held)
  BY <1>4, <1>6 DEF Backed
<1>9. QED
  BY <1>1, <1>6, <1>7, <1>8, KeptSound

\* The account is left as it is, or moved to a tier above its floor, and the subscription keeps its
\* identity.
LEMMA MovedSound ==
    ASSUME NEW t \in Transactions, t.op # "link", t.held \in SubRow, NEW n \in Levels, n >= t.acc.granted,
           NEW s \in SubRow, s # NoSub, s.id = t.held.id, s.patron = t.held.patron
    PROVE  /\ Sound(t, [acc |-> t.acc, sub |-> s])
           /\ Sound(t, [acc |-> [t.acc EXCEPT !.level = n], sub |-> s])
<1>1. PICK acc \in AccountRow, held \in SubRow : acc = t.acc /\ held = t.held
  BY TransactionFacts
<1>2. held # NoSub
  BY RowAssumption
<1>3. Sound(t, [acc |-> acc, sub |-> s])
  <2>1. Backed(acc, held) => Backed(acc, s)
    BY DEF Backed
  <2>2. QED
    BY <1>1, <1>2, <2>1, KeptSound
<1>4. Sound(t, [acc |-> [acc EXCEPT !.level = n], sub |-> s])
  <2>1. PICK x : x = [acc EXCEPT !.level = n]
    OBVIOUS
  <2>2. x \in AccountRow /\ x.level = n /\ x.granted = acc.granted /\ x.status = acc.status
    BY <2>1, LevelSet
  <2>3. Backed(x, s)
    BY <1>1, <2>2 DEF Backed
  <2>4. Sound(t, [acc |-> x, sub |-> s])
    BY <1>1, <1>2, <2>2, <2>3, KeptSound
  <2>5. QED
    BY <2>1, <2>4
<1>5. QED
  BY <1>1, <1>3, <1>4

LEMMA EventSound ==
    ASSUME NEW t \in Transactions, t.op = "event"
    PROVE  Sound(t, ApplyMembershipTransition(t))
<1>1. t.held \in SubRow /\ t.held # NoSub /\ t.worth \in Levels /\ t.acc.granted \in Levels
  BY TransactionFacts, RowAssumption DEF AccountRow
<1>2. PICK n \in Levels : n = Highest(t.worth, t.acc.granted) /\ n >= t.acc.granted
  BY <1>1, Tiers
<1>3. PICK s, r : s = Runway(t.held, FALSE) /\ r = Runway(t.held, TRUE)
  OBVIOUS
<1>4. /\ s \in SubRow /\ s # NoSub /\ s.id = t.held.id /\ s.patron = t.held.patron
      /\ r \in SubRow /\ r # NoSub /\ r.id = t.held.id /\ r.patron = t.held.patron
  BY <1>1, <1>3, RunwaySet DEF Runway
<1>5. \/ ApplyMembershipTransition(t) = [acc |-> t.acc, sub |-> t.held]
      \/ ApplyMembershipTransition(t) = [acc |-> [t.acc EXCEPT !.level = n], sub |-> s]
      \/ ApplyMembershipTransition(t) = [acc |-> t.acc, sub |-> r]
  BY <1>2, <1>3 DEF ApplyMembershipTransition
<1>6. Sound(t, [acc |-> t.acc, sub |-> t.held])
  BY <1>1, <1>2, MovedSound
<1>7. Sound(t, [acc |-> [t.acc EXCEPT !.level = n], sub |-> s])
  BY <1>1, <1>2, <1>4, MovedSound
<1>8. Sound(t, [acc |-> t.acc, sub |-> r])
  BY <1>1, <1>2, <1>4, MovedSound
<1>9. QED
  BY <1>5, <1>6, <1>7, <1>8

LEMMA DueSound ==
    ASSUME NEW t \in Transactions, t.op = "due"
    PROVE  Sound(t, AdvanceGraceFlow(t))
<1>1. /\ t.held \in SubRow /\ t.held # NoSub /\ t.held.told \in BOOLEAN
  BY TransactionFacts, RowAssumption DEF SubRow
<1>2. PICK n \in Levels : n = t.acc.granted /\ n >= t.acc.granted
  BY TransactionFacts DEF AccountRow, Levels
<1>3. PICK s, r, o : /\ s = Runway(t.held, FALSE) /\ r = Runway(t.held, TRUE)
                     /\ o = [t.held EXCEPT !.runway = "none"]
  OBVIOUS
<1>4. /\ s \in SubRow /\ s # NoSub /\ s.id = t.held.id /\ s.patron = t.held.patron
      /\ r \in SubRow /\ r # NoSub /\ r.id = t.held.id /\ r.patron = t.held.patron
  BY <1>1, <1>3, RunwaySet DEF Runway
<1>5. o \in SubRow /\ o # NoSub /\ o.id = t.held.id /\ o.patron = t.held.patron
  BY <1>1, <1>3, RowAssumption DEF SubRow
<1>6. \/ AdvanceGraceFlow(t) = [acc |-> t.acc, sub |-> s]
      \/ AdvanceGraceFlow(t) = [acc |-> t.acc, sub |-> r]
      \/ AdvanceGraceFlow(t) = [acc |-> [t.acc EXCEPT !.level = n], sub |-> o]
  BY <1>2, <1>3 DEF AdvanceGraceFlow
<1>7. Sound(t, [acc |-> t.acc, sub |-> s])
  BY <1>1, <1>2, <1>4, MovedSound
<1>8. Sound(t, [acc |-> t.acc, sub |-> r])
  BY <1>1, <1>2, <1>4, MovedSound
<1>9. Sound(t, [acc |-> [t.acc EXCEPT !.level = n], sub |-> o])
  BY <1>1, <1>2, <1>5, MovedSound
<1>10. QED
  BY <1>6, <1>7, <1>8, <1>9

LEMMA SyncSound ==
    ASSUME NEW t \in Transactions, t.op = "sync"
    PROVE  Sound(t, ApplyTargetLevel(t))
<1>1. t.held \in SubRow /\ t.held # NoSub /\ t.worth \in Levels /\ t.acc.granted \in Levels
  BY TransactionFacts, RowAssumption DEF AccountRow
<1>2. PICK n \in Levels : n = Highest(t.worth, t.acc.granted) /\ n >= t.acc.granted
  BY <1>1, Tiers
<1>3. PICK s : s = Runway(t.held, FALSE)
  OBVIOUS
<1>4. s \in SubRow /\ s # NoSub /\ s.id = t.held.id /\ s.patron = t.held.patron
  BY <1>1, <1>3, RunwaySet DEF Runway
<1>5. \/ ApplyTargetLevel(t) = [acc |-> t.acc, sub |-> t.held]
      \/ ApplyTargetLevel(t) = [acc |-> [t.acc EXCEPT !.level = n], sub |-> s]
  BY <1>2, <1>3 DEF ApplyTargetLevel
<1>6. Sound(t, [acc |-> t.acc, sub |-> t.held])
  BY <1>1, <1>2, MovedSound
<1>7. Sound(t, [acc |-> [t.acc EXCEPT !.level = n], sub |-> s])
  BY <1>1, <1>2, <1>4, MovedSound
<1>8. QED
  BY <1>5, <1>6, <1>7

\* What every writer decides, of an account as it read it: never a tier below the granted one, and
\* without a subscription that one; the identity and the row are another only by a confirmation.
LEMMA DecisionSound ==
    ASSUME NEW t \in Transactions, t.op = "link" => pending[t.code] \in LinkRow
    PROVE  Sound(t, Decision(t))
<1>1. t.op \in {"link", "unlink", "grant", "event", "due", "sync"}
  BY TransactionFacts DEF Reads
<1>2. CASE t.op = "link"
  BY <1>2, LinkSound DEF Decision
<1>3. CASE t.op = "unlink"
  BY <1>3, UnlinkSound DEF Decision
<1>4. CASE t.op = "grant"
  BY <1>4, GrantSound DEF Decision
<1>5. CASE t.op = "event"
  BY <1>5, EventSound DEF Decision
<1>6. CASE t.op = "due"
  BY <1>6, DueSound DEF Decision
<1>7. CASE t.op = "sync"
  BY <1>7, SyncSound DEF Decision
<1>8. QED
  BY <1>1, <1>2, <1>3, <1>4, <1>5, <1>6, <1>7

-----------------------------------------------------------------------------
(* Every variable holds a value of its kind *)

LEMMA TransactionMade ==
    ASSUME NEW u \in Users, NEW acc \in AccountRow, NEW held \in SubRow \cup {NoSub}
    PROVE  /\ \A c \in Codes, n \in Levels :
                 [op |-> "link", u |-> u, acc |-> acc, held |-> held, code |-> c, worth |-> n] \in Transactions
           /\ \A n \in Levels : [op |-> "grant", u |-> u, acc |-> acc, held |-> held, worth |-> n] \in Transactions
           /\ held # NoSub =>
                 /\ [op |-> "unlink", u |-> u, acc |-> acc, held |-> held] \in Transactions
                 /\ \A n \in Levels, op \in {"event", "sync"} :
                       [op |-> op, u |-> u, acc |-> acc, held |-> held, worth |-> n] \in Transactions
                 /\ \A b \in BOOLEAN :
                       [op |-> "due", u |-> u, acc |-> acc, held |-> held, active |-> b] \in Transactions
BY DEF Transactions

\* A transaction whose account is gone.
LEMMA TransactionCut ==
    ASSUME NEW t \in Transactions, NEW x, x = [t EXCEPT !.acc = NoAccount]
    PROVE  /\ x \in Transactions /\ x.op = t.op /\ x.u = t.u /\ x.acc = NoAccount /\ x.held = t.held
           /\ x.op = "link" => x.code = t.code
<1>1. NoAccount \in AccountRow
  BY DEF NoAccount, AccountRow, Levels
<1>2. QED
  BY <1>1 DEF Transactions

LEMMA InitTypes == SupportersInit => SupportersTypeOK
<1> SUFFICES ASSUME SupportersInit PROVE SupportersTypeOK
  OBVIOUS
<1>1. account \in [Users -> AccountRow]
  BY DEF SupportersInit, NoAccount, AccountRow, Levels
<1>2. tx \in [Actors -> {NoTx} \cup Transactions \cup Calling]
  BY DEF SupportersInit
<1>3. /\ sub \in [Users -> SubRow \cup {NoSub}] /\ pending \in [Codes -> LinkRow \cup {NoLink}]
      /\ group \in [Users -> {"out", "in", "banned"}] /\ claimers \in [Codes -> SUBSET Users]
      /\ landed \in [Codes -> Seq(Users)]
  BY DEF SupportersInit
<1>4. budget \in [pledges : Nat, grants : Nat, moves : Nat]
  BY SupporterAssumption DEF SupportersInit
<1>5. QED
  BY <1>1, <1>2, <1>3, <1>4 DEF SupportersInit, SupportersTypeOK

\* What one actor does to tx, and no step to anything else, leaves the kinds as they are.
Placed ==
    /\ events' \subseteq [n : Nat, patron : Patrons, amount : {0} \cup Amounts, tries : 1 .. MaxTries]
    /\ pledge' \in [Patrons -> {0} \cup Amounts]
    /\ account' \in [Users -> AccountRow]
    /\ sub' \in [Users -> SubRow \cup {NoSub}]
    /\ pending' \in [Codes -> LinkRow \cup {NoLink}]
    /\ group' \in [Users -> {"out", "in", "banned"}]
    /\ sweep' = Resting
       \/ (DOMAIN sweep' = {"at", "roster", "todo"} /\ sweep'.at \in {"fetched", "due", "sync"})
    /\ budget' \in [pledges : Nat, grants : Nat, moves : Nat]
    /\ raced' \subseteq Users
    /\ claimers' \in [Codes -> SUBSET Users]
    /\ landed' \in [Codes -> Seq(Users)]

LEMMA PlacedTypes ==
    ASSUME Placed, tx' \in [Actors -> {NoTx} \cup Transactions \cup Calling]
    PROVE  SupportersTypeOK'
BY DEF Placed, SupportersTypeOK

LEMMA BudgetSpent ==
    ASSUME SupportersTypeOK
    PROVE  /\ budget.pledges > 0 => [budget EXCEPT !.pledges = @ - 1] \in [pledges : Nat, grants : Nat, moves : Nat]
           /\ budget.grants > 0 => [budget EXCEPT !.grants = @ - 1] \in [pledges : Nat, grants : Nat, moves : Nat]
           /\ budget.moves > 0 => [budget EXCEPT !.moves = @ - 1] \in [pledges : Nat, grants : Nat, moves : Nat]
<1>1. budget \in [pledges : Nat, grants : Nat, moves : Nat]
  BY DEF SupportersTypeOK
<1>2. QED
  BY <1>1

LEMMA PledgeTypes ==
    ASSUME SupportersTypeOK, NEW p \in Patrons, NEW cents \in {0} \cup Amounts, Pledge(p, cents)
    PROVE  SupportersTypeOK'
<1>1. pledge' \in [Patrons -> {0} \cup Amounts]
  BY DEF SupportersTypeOK, Pledge
<1>2. budget' \in [pledges : Nat, grants : Nat, moves : Nat]
  BY BudgetSpent DEF Pledge
<1>3. events' \subseteq [n : Nat, patron : Patrons, amount : {0} \cup Amounts, tries : 1 .. MaxTries]
  <2>1. budget.pledges \in Nat /\ MaxTries \in 1 .. MaxTries
    BY SupporterAssumption DEF SupportersTypeOK
  <2>2. [n |-> budget.pledges, patron |-> p, amount |-> cents, tries |-> MaxTries]
           \in [n : Nat, patron : Patrons, amount : {0} \cup Amounts, tries : 1 .. MaxTries]
    BY <2>1
  <2>3. QED
    BY <2>2 DEF SupportersTypeOK, Pledge
<1>4. QED
  BY <1>1, <1>2, <1>3 DEF SupportersTypeOK, Pledge, tables, history

LEMMA StageTypes ==
    ASSUME SupportersTypeOK, NEW c \in Codes, NEW p \in Patrons, Stage(c, p)
    PROVE  SupportersTypeOK'
<1>1. TargetLevel(pledge[p]) \in Levels
  <2>1. pledge[p] \in {0} \cup Amounts
    BY DEF SupportersTypeOK
  <2>2. pledge[p] \in Nat
    BY <2>1, AmountsAreNumbers
  <2>3. QED
    BY <2>2, Tiers
<1>2. [patron |-> p, level |-> TargetLevel(pledge[p]), claimer |-> Nobody, spent |-> FALSE, live |-> TRUE] \in LinkRow
  BY <1>1 DEF LinkRow
<1>3. pending' \in [Codes -> LinkRow \cup {NoLink}]
  BY <1>2 DEF SupportersTypeOK, Stage
<1>4. QED
  BY <1>3 DEF SupportersTypeOK, Stage, history

LEMMA ExpireTypes ==
    ASSUME SupportersTypeOK, NEW c \in Codes, Expire(c)
    PROVE  SupportersTypeOK'
<1>1. pending[c] \in LinkRow
  BY DEF SupportersTypeOK, Expire
<1>2. [pending[c] EXCEPT !.live = FALSE] \in LinkRow
  BY <1>1 DEF LinkRow
<1>3. pending' \in [Codes -> LinkRow \cup {NoLink}]
  BY <1>2 DEF SupportersTypeOK, Expire
<1>4. QED
  BY <1>3 DEF SupportersTypeOK, Expire, history

LEMMA RunwayEndsTypes ==
    ASSUME SupportersTypeOK, NEW u \in Users, RunwayEnds(u)
    PROVE  SupportersTypeOK'
<1>1. sub[u] \in SubRow
  BY DEF SupportersTypeOK, RunwayEnds
<1>2. [sub[u] EXCEPT !.runway = "over"] \in SubRow
  BY <1>1 DEF SubRow
<1>3. sub' \in [Users -> SubRow \cup {NoSub}]
  BY <1>2 DEF SupportersTypeOK, RunwayEnds
<1>4. QED
  BY <1>3 DEF SupportersTypeOK, RunwayEnds, history

LEMMA MoveOnTypes ==
    ASSUME SupportersTypeOK, NEW u \in Users, NEW from, NEW to \in {"member", "left", "marked"}, MoveOn(u, from, to)
    PROVE  SupportersTypeOK'
<1>1. [account[u] EXCEPT !.status = to] \in AccountRow
  <2>1. account[u] \in AccountRow
    BY DEF SupportersTypeOK
  <2>2. to \in {"absent", "member", "left", "marked"}
    OBVIOUS
  <2>3. QED
    BY <2>1, <2>2 DEF AccountRow
<1>2. account' \in [Users -> AccountRow]
  BY <1>1 DEF SupportersTypeOK, MoveOn
<1>3. budget' \in [pledges : Nat, grants : Nat, moves : Nat]
  BY BudgetSpent DEF MoveOn, SupportersTypeOK
<1>4. QED
  BY <1>2, <1>3 DEF SupportersTypeOK, MoveOn, history

LEMMA JoinRequestTypes ==
    ASSUME SupportersTypeOK, NEW u \in Users, JoinRequest(u)
    PROVE  SupportersTypeOK'
<1>1. group' \in [Users -> {"out", "in", "banned"}]
  BY DEF SupportersTypeOK, JoinRequest
<1>2. QED
  BY <1>1 DEF SupportersTypeOK, JoinRequest, history

LEMMA CleanupTypes ==
    ASSUME SupportersTypeOK, Cleanup
    PROVE  SupportersTypeOK'
<1>1. PICK gone \in SUBSET Users, swept \in SUBSET Codes :
         /\ account' = [u \in Users |-> IF u \in gone THEN NoAccount ELSE account[u]]
         /\ sub' = [u \in Users |-> IF u \in gone THEN NoSub ELSE sub[u]]
         /\ pending' = [c \in Codes |-> IF c \in swept THEN NoLink ELSE pending[c]]
         /\ tx' = [a \in Actors |->
                IF tx[a].op \in Reads /\ tx[a].u \in gone THEN [tx[a] EXCEPT !.acc = NoAccount] ELSE tx[a]]
  BY DEF Cleanup
<1>2. account' \in [Users -> AccountRow]
  BY <1>1 DEF SupportersTypeOK, NoAccount, AccountRow, Levels
<1>3. sub' \in [Users -> SubRow \cup {NoSub}] /\ pending' \in [Codes -> LinkRow \cup {NoLink}]
  BY <1>1 DEF SupportersTypeOK
<1>4. tx' \in [Actors -> {NoTx} \cup Transactions \cup Calling]
  <2>1. ASSUME NEW a \in Actors
        PROVE  tx'[a] \in {NoTx} \cup Transactions \cup Calling
    <3>1. CASE tx[a].op \in Reads
      BY <1>1, <3>1, ActorFacts, TransactionCut
    <3>2. CASE tx[a].op \notin Reads
      BY <1>1, <3>2, ActorFacts
    <3>3. QED
      BY <3>1, <3>2
  <2>2. QED
    BY <1>1, <2>1
<1>5. QED
  BY <1>2, <1>3, <1>4 DEF SupportersTypeOK, Cleanup, history

LEMMA ClaimTypes ==
    ASSUME SupportersTypeOK, NEW u \in Users, NEW c \in Codes, Claim(u, c)
    PROVE  SupportersTypeOK'
<1>1. pending[c] \in LinkRow
  BY DEF SupportersTypeOK, Claim, ClaimableBy, LiveRow
<1>2. [pending[c] EXCEPT !.claimer = u] \in LinkRow
  BY <1>1 DEF LinkRow
<1>3. pending' \in [Codes -> LinkRow \cup {NoLink}]
  BY <1>2 DEF SupportersTypeOK, Claim
<1>4. claimers' \in [Codes -> SUBSET Users]
  BY DEF SupportersTypeOK, Claim
<1>5. QED
  BY <1>3, <1>4 DEF SupportersTypeOK, Claim

\* A transaction begins with what is there, and the account is raced if somebody is at it already.
Starts(a, t) ==
    /\ tx[a] = NoTx /\ t \in Transactions
    /\ t.acc = account[t.u] /\ t.held = sub[t.u]
    /\ tx' = [tx EXCEPT ![a] = t]
    /\ raced' = IF \E b \in Actors \ {a} : tx[b] # NoTx /\ tx[b].u = t.u THEN raced \cup {t.u} ELSE raced

LEMMA StartsFromBegin ==
    ASSUME NEW a, NEW t \in Transactions, t.acc = account[t.u], t.held = sub[t.u], Begin(a, t)
    PROVE  Starts(a, t)
BY DEF Begin, Starts

LEMMA RowsRead ==
    ASSUME SupportersTypeOK, NEW u \in Users
    PROVE  account[u] \in AccountRow /\ sub[u] \in SubRow \cup {NoSub}
BY DEF SupportersTypeOK

LEMMA StartsTypes ==
    ASSUME SupportersTypeOK, NEW a \in Actors, NEW t, Starts(a, t)
    PROVE  /\ tx' \in [Actors -> {NoTx} \cup Transactions \cup Calling]
           /\ raced' \subseteq Users
<1>1. tx' \in [Actors -> {NoTx} \cup Transactions \cup Calling]
  <2>1. t \in {NoTx} \cup Transactions \cup Calling
    BY DEF Starts
  <2>2. tx' = [tx EXCEPT ![a] = t]
    BY DEF Starts
  <2>3. QED
    BY <2>1, <2>2, ActorMoves
<1>2. raced' \subseteq Users
  <2>1. t.u \in Users
    BY TransactionFacts DEF Starts
  <2>2. QED
    BY <2>1 DEF Starts, SupportersTypeOK
<1>3. QED
  BY <1>1, <1>2

LEMMA BeginLinkTypes ==
    ASSUME SupportersTypeOK, NEW a \in Workers, NEW u \in Users, NEW c \in Codes, BeginLink(a, u, c)
    PROVE  /\ SupportersTypeOK'
           /\ \E t \in Transactions : Starts(a, t) /\ t.op = "link" /\ t.u = u /\ t.code = c
<1>1. PICK acc \in AccountRow, held \in SubRow \cup {NoSub} : acc = account[u] /\ held = sub[u]
  BY RowsRead
<1>2. PICK n \in Levels : n = pending[c].level
  <2>1. pending[c] \in LinkRow
    BY DEF SupportersTypeOK, BeginLink, ConsumableBy, LiveRow
  <2>2. QED
    BY <2>1 DEF LinkRow
<1>3. PICK t : t = [op |-> "link", u |-> u, acc |-> acc, held |-> held, code |-> c, worth |-> n]
  OBVIOUS
<1>4. t \in Transactions /\ t.op = "link" /\ t.u = u /\ t.acc = acc /\ t.held = held /\ t.code = c
  <2>1. t \in Transactions
    BY <1>3, TransactionMade
  <2>2. QED
    BY <1>3, <2>1
<1>5. Begin(a, t)
  BY <1>1, <1>2, <1>3 DEF BeginLink
<1>6. Starts(a, t)
  BY <1>1, <1>4, <1>5, StartsFromBegin
<1>7. SupportersTypeOK'
  <2>1. a \in Actors
    BY DEF Actors
  <2>2. tx' \in [Actors -> {NoTx} \cup Transactions \cup Calling] /\ raced' \subseteq Users
    BY <1>6, <2>1, StartsTypes
  <2>3. QED
    BY <2>2 DEF SupportersTypeOK, BeginLink, tables
<1>8. QED
  BY <1>4, <1>6, <1>7

LEMMA BeginUnlinkTypes ==
    ASSUME SupportersTypeOK, NEW a \in Workers, NEW u \in Users, BeginUnlink(a, u)
    PROVE  SupportersTypeOK' /\ \E t \in Transactions : Starts(a, t) /\ t.op = "unlink"
<1>1. PICK acc \in AccountRow, held \in SubRow \cup {NoSub} : acc = account[u] /\ held = sub[u]
  BY RowsRead
<1>2. held # NoSub
  BY <1>1 DEF BeginUnlink
<1>3. PICK t : t = [op |-> "unlink", u |-> u, acc |-> acc, held |-> held]
  OBVIOUS
<1>4. t \in Transactions /\ t.op = "unlink" /\ t.u = u /\ t.acc = acc /\ t.held = held
  <2>1. t \in Transactions
    BY <1>2, <1>3, TransactionMade
  <2>2. QED
    BY <1>3, <2>1
<1>5. Begin(a, t)
  BY <1>1, <1>3 DEF BeginUnlink, Reading
<1>6. Starts(a, t)
  BY <1>1, <1>4, <1>5, StartsFromBegin
<1>7. SupportersTypeOK'
  <2>1. a \in Actors
    BY DEF Actors
  <2>2. tx' \in [Actors -> {NoTx} \cup Transactions \cup Calling] /\ raced' \subseteq Users
    BY <1>6, <2>1, StartsTypes
  <2>3. QED
    BY <2>2 DEF SupportersTypeOK, BeginUnlink, tables
<1>8. QED
  BY <1>4, <1>6, <1>7

LEMMA BeginGrantTypes ==
    ASSUME SupportersTypeOK, NEW a \in Workers, NEW u \in Users, NEW level \in GrantLevels, BeginGrant(a, u, level)
    PROVE  SupportersTypeOK' /\ \E t \in Transactions : Starts(a, t) /\ t.op = "grant"
<1>1. PICK acc \in AccountRow, held \in SubRow \cup {NoSub} : acc = account[u] /\ held = sub[u]
  BY RowsRead
<1>2. level \in Levels
  BY SupporterAssumption
<1>3. PICK t : t = [op |-> "grant", u |-> u, acc |-> acc, held |-> held, worth |-> level]
  OBVIOUS
<1>4. t \in Transactions /\ t.op = "grant" /\ t.u = u /\ t.acc = acc /\ t.held = held
  <2>1. t \in Transactions
    BY <1>2, <1>3, TransactionMade
  <2>2. QED
    BY <1>3, <2>1
<1>5. Begin(a, t)
  BY <1>1, <1>3 DEF BeginGrant
<1>6. Starts(a, t)
  BY <1>1, <1>4, <1>5, StartsFromBegin
<1>7. SupportersTypeOK'
  <2>1. a \in Actors
    BY DEF Actors
  <2>2. tx' \in [Actors -> {NoTx} \cup Transactions \cup Calling] /\ raced' \subseteq Users
    BY <1>6, <2>1, StartsTypes
  <2>3. budget' \in [pledges : Nat, grants : Nat, moves : Nat]
    BY BudgetSpent DEF BeginGrant
  <2>4. QED
    BY <2>2, <2>3 DEF SupportersTypeOK, BeginGrant, tables
<1>8. QED
  BY <1>4, <1>6, <1>7

LEMMA DeliverTypes ==
    ASSUME SupportersTypeOK, NEW a \in Workers, NEW e \in events, Deliver(a, e)
    PROVE  /\ SupportersTypeOK'
           /\ UNCHANGED <<tx, raced>> \/ \E t \in Transactions : Starts(a, t) /\ t.op = "event"
<1> DEFINE Event == [n : Nat, patron : Patrons, amount : {0} \cup Amounts, tries : 1 .. MaxTries]
<1>1. e \in Event /\ events \subseteq Event
  BY DEF SupportersTypeOK
<1>2. events' \subseteq Event
  <2>1. e.tries > 1 => [e EXCEPT !.tries = @ - 1] \in Event
    <3>1. e.tries \in 1 .. MaxTries /\ MaxTries \in Nat
      BY <1>1, SupporterAssumption
    <3>2. e.tries > 1 => e.tries - 1 \in 1 .. MaxTries
      BY <3>1
    <3>3. QED
      BY <1>1, <3>2
  <2> HIDE DEF Event
  <2>2. events' \in {events \ {e}} \cup
         IF e.tries > 1 THEN {(events \ {e}) \cup {[e EXCEPT !.tries = @ - 1]}} ELSE {}
    BY DEF Deliver
  <2>3. QED
    BY <1>1, <2>1, <2>2
<1>3. CASE Linked(e.patron) = {}
  BY <1>2, <1>3 DEF SupportersTypeOK, Deliver, tables
<1>4. CASE Linked(e.patron) # {}
  <2>1. PICK u \in Linked(e.patron) :
            Begin(a, [op |-> "event", u |-> u, acc |-> account[u], held |-> sub[u],
                      worth |-> TargetLevel(e.amount)])
    BY <1>4 DEF Deliver
  <2>2. u \in Users /\ sub[u] # NoSub
    BY DEF Linked
  <2>3. PICK acc \in AccountRow, held \in SubRow \cup {NoSub} : acc = account[u] /\ held = sub[u]
    BY <2>2, RowsRead
  <2>4. PICK n \in Levels : n = TargetLevel(e.amount)
    <3>1. e.amount \in Nat
      BY <1>1, AmountsAreNumbers
    <3>2. QED
      BY <3>1, Tiers
  <2>5. PICK t : t = [op |-> "event", u |-> u, acc |-> acc, held |-> held, worth |-> n]
    OBVIOUS
  <2>6. t \in Transactions /\ t.op = "event" /\ t.u = u /\ t.acc = acc /\ t.held = held
    <3>1. t \in Transactions
      BY <2>2, <2>3, <2>5, TransactionMade
    <3>2. QED
      BY <2>5, <3>1
  <2>7. Begin(a, t)
    BY <2>1, <2>3, <2>4, <2>5
  <2>8. Starts(a, t)
    BY <2>3, <2>6, <2>7, StartsFromBegin
  <2>9. SupportersTypeOK'
    <3>1. a \in Actors
      BY DEF Actors
    <3>2. tx' \in [Actors -> {NoTx} \cup Transactions \cup Calling] /\ raced' \subseteq Users
      BY <2>8, <3>1, StartsTypes
    <3>3. QED
      BY <1>2, <3>2 DEF SupportersTypeOK, Deliver, tables
  <2>10. QED
    BY <2>6, <2>8, <2>9
<1>5. QED
  BY <1>3, <1>4

LEMMA FetchRosterTypes ==
    ASSUME SupportersTypeOK, FetchRoster
    PROVE  SupportersTypeOK'
<1>1. sweep' = [at |-> "fetched", roster |-> pledge, todo |-> {}]
  BY DEF FetchRoster
<1>2. DOMAIN sweep' = {"at", "roster", "todo"} /\ sweep'.at = "fetched"
  BY <1>1
<1>3. QED
  BY <1>2 DEF SupportersTypeOK, FetchRoster, tables, history

LEMMA NominateTypes ==
    ASSUME SupportersTypeOK, Nominate
    PROVE  SupportersTypeOK'
<1>1. DOMAIN sweep = {"at", "roster", "todo"} /\ sweep.at \in {"fetched", "due", "sync"}
  BY DEF SupportersTypeOK, Nominate
<1>2. \/ sweep' = Resting
      \/ \E n : sweep' = [sweep EXCEPT !.at = "due", !.todo = n]
      \/ \E n : sweep' = [sweep EXCEPT !.at = "sync", !.todo = n]
  BY <1>1 DEF Nominate
<1>3. sweep' = Resting \/ (DOMAIN sweep' = {"at", "roster", "todo"} /\ sweep'.at \in {"fetched", "due", "sync"})
  BY <1>1, <1>2
<1>4. QED
  BY <1>3 DEF SupportersTypeOK, Nominate, tables, history

LEMMA ProcessTypes ==
    ASSUME SupportersTypeOK, NEW u \in Users, NEW c \in Codes, Process([u |-> u, id |-> c])
    PROVE  /\ SupportersTypeOK'
           /\ UNCHANGED <<tx, raced>> \/ \E t \in Transactions : Starts(Job, t) /\ t.op \in {"due", "sync"}
<1> DEFINE n == [u |-> u, id |-> c]
           amount == IF IsRow(u, c) THEN sweep.roster[sub[u].patron] ELSE 0
           due == sweep.at = "due" /\ IsRow(u, c) /\ Due(u)
           live == sweep.at = "sync" /\ IsRow(u, c) /\ LiveLinked(u) /\ amount > 0
<1>1. n.u = u /\ n.id = c
  OBVIOUS
<1>2. /\ sweep # Resting
      /\ sweep' = [sweep EXCEPT !.todo = @ \ {n}]
      /\ UNCHANGED <<pledge, events, tables, budget, claimers, landed>>
      /\ CASE due -> Begin(Job, [op |-> "due", u |-> u, acc |-> account[u], held |-> sub[u],
                                 active |-> amount > 0])
           [] live -> Begin(Job, [op |-> "sync", u |-> u, acc |-> account[u], held |-> sub[u],
                                  worth |-> LevelForAmount(amount)])
           [] OTHER -> UNCHANGED <<tx, raced>>
  <2> HIDE DEF n
  <2>1. Process(n)
    BY DEF n
  <2>2. QED
    BY <1>1, <2>1 DEF Process
<1>3. DOMAIN sweep' = {"at", "roster", "todo"} /\ sweep'.at \in {"fetched", "due", "sync"}
  <2>1. DOMAIN sweep = {"at", "roster", "todo"} /\ sweep.at \in {"fetched", "due", "sync"}
    BY <1>2 DEF SupportersTypeOK
  <2> HIDE DEF n
  <2>2. QED
    BY <1>2, <2>1
<1>4. PICK acc \in AccountRow, held \in SubRow \cup {NoSub} : acc = account[u] /\ held = sub[u]
  BY RowsRead
<1>5. Job \in Actors
  BY DEF Actors
<1>6. ASSUME NEW t, Starts(Job, t) PROVE SupportersTypeOK'
  <2>1. tx' \in [Actors -> {NoTx} \cup Transactions \cup Calling] /\ raced' \subseteq Users
    BY <1>5, <1>6, StartsTypes
  <2>2. QED
    BY <1>2, <1>3, <2>1 DEF SupportersTypeOK, tables
<1>7. CASE due
  <2>1. held # NoSub
    BY <1>4, <1>7 DEF Due
  <2>2. PICK b \in BOOLEAN : b = (amount > 0)
    <3> HIDE DEF amount
    <3>1. CASE amount > 0
      <4>1. TRUE = (amount > 0)
        BY <3>1
      <4>2. QED
        BY <4>1
    <3>2. CASE ~(amount > 0)
      <4>1. FALSE = (amount > 0)
        BY <3>2
      <4>2. QED
        BY <4>1
    <3>3. QED
      BY <3>1, <3>2
  <2>3. PICK t : t = [op |-> "due", u |-> u, acc |-> acc, held |-> held, active |-> b]
    OBVIOUS
  <2>4. t \in Transactions /\ t.op = "due" /\ t.u = u /\ t.acc = acc /\ t.held = held
    <3>1. t \in Transactions
      BY <2>1, <2>3, TransactionMade
    <3>2. QED
      BY <2>3, <3>1
  <2>5. Begin(Job, t)
    <3>1. Begin(Job, [op |-> "due", u |-> u, acc |-> account[u], held |-> sub[u], active |-> amount > 0])
      BY <1>2, <1>7
    <3> HIDE DEF amount
    <3>2. QED
      BY <1>4, <2>2, <2>3, <3>1
  <2>6. Starts(Job, t)
    BY <1>4, <2>4, <2>5, StartsFromBegin
  <2>7. QED
    BY <1>6, <2>4, <2>6
<1>8. CASE ~due /\ live
  <2>1. held # NoSub
    BY <1>4, <1>8 DEF LiveLinked
  <2>2. PICK w \in Levels : w = LevelForAmount(amount)
    BY DEF LevelForAmount, Levels
  <2>3. PICK t : t = [op |-> "sync", u |-> u, acc |-> acc, held |-> held, worth |-> w]
    OBVIOUS
  <2>4. t \in Transactions /\ t.op = "sync" /\ t.u = u /\ t.acc = acc /\ t.held = held
    <3>1. t \in Transactions
      BY <2>1, <2>3, TransactionMade
    <3>2. QED
      BY <2>3, <3>1
  <2>5. Begin(Job, t)
    <3>1. Begin(Job, [op |-> "sync", u |-> u, acc |-> account[u], held |-> sub[u],
                      worth |-> LevelForAmount(amount)])
      BY <1>2, <1>8
    <3> HIDE DEF amount
    <3>2. QED
      BY <1>4, <2>2, <2>3, <3>1
  <2>6. Starts(Job, t)
    BY <1>4, <2>4, <2>5, StartsFromBegin
  <2>7. QED
    BY <1>6, <2>4, <2>6
<1>9. CASE ~due /\ ~live
  <2>1. UNCHANGED <<tx, raced>>
    BY <1>2, <1>9
  <2>2. QED
    BY <1>2, <1>3, <2>1 DEF SupportersTypeOK, tables
<1>10. QED
  BY <1>7, <1>8, <1>9

LEMMA SweepStopsTypes ==
    ASSUME SupportersTypeOK, SweepStops
    PROVE  /\ SupportersTypeOK' /\ tx'[Job] = NoTx /\ \A b \in Actors \ {Job} : tx'[b] = tx[b]
<1>1. Job \in Actors /\ tx' = [tx EXCEPT ![Job] = NoTx]
  BY DEF Actors, SweepStops
<1>2. /\ tx' \in [Actors -> {NoTx} \cup Transactions \cup Calling]
      /\ tx'[Job] = NoTx /\ \A b \in Actors \ {Job} : tx'[b] = tx[b]
  BY <1>1, ActorMoves
<1>3. budget' \in [pledges : Nat, grants : Nat, moves : Nat]
  BY BudgetSpent DEF SweepStops
<1>4. sweep' = Resting
  BY DEF SweepStops
<1>5. QED
  BY <1>2, <1>3, <1>4 DEF SupportersTypeOK, SweepStops, tables, history

LEMMA RollBackTypes ==
    ASSUME SupportersTypeOK, NEW a \in Actors, RollBack(a)
    PROVE  /\ SupportersTypeOK' /\ tx'[a] = NoTx /\ \A b \in Actors \ {a} : tx'[b] = tx[b]
<1>1. tx' = [tx EXCEPT ![a] = NoTx]
  BY DEF RollBack, Finish
<1>2. /\ tx' \in [Actors -> {NoTx} \cup Transactions \cup Calling]
      /\ tx'[a] = NoTx /\ \A b \in Actors \ {a} : tx'[b] = tx[b]
  BY <1>1, ActorMoves
<1>3. QED
  BY <1>2 DEF SupportersTypeOK, RollBack, tables, history

LEMMA DrainTypes ==
    ASSUME SupportersTypeOK, NEW a \in Actors, Drain(a)
    PROVE  /\ SupportersTypeOK'
           /\ tx[a].op = "calls"
           /\ tx'[a] = NoTx \/ (tx'[a] \in Calling /\ tx'[a].u = tx[a].u)
           /\ \A b \in Actors \ {a} : tx'[b] = tx[b]
<1>1. PICK t \in Calling : t = tx[a]
  BY ActorFacts DEF Drain
<1>2. /\ t.u \in Users /\ t.op = "calls" /\ Head(t.calls) \in {"ban", "unban"}
      /\ Len(t.calls) = 1 \/ Tail(t.calls) = <<"unban">>
  <2>1. t.u \in Users /\ t.op = "calls" /\ t.calls \in {<<"ban">>, <<"unban">>, <<"ban", "unban">>}
    BY DEF Calling
  <2>2. CASE t.calls = <<"ban">>
    BY <2>1, <2>2
  <2>3. CASE t.calls = <<"unban">>
    BY <2>1, <2>3
  <2>4. CASE t.calls = <<"ban", "unban">>
    BY <2>1, <2>4
  <2>5. QED
    BY <2>1, <2>2, <2>3, <2>4
<1>3. group' \in [Users -> {"out", "in", "banned"}]
  <2>1. group \in [Users -> {"out", "in", "banned"}]
    BY DEF SupportersTypeOK
  <2>2. Called(group[t.u], Head(t.calls)) \in {"out", "in", "banned"}
    BY <1>2, <2>1 DEF Called
  <2>3. group' = [group EXCEPT ![t.u] = Called(@, Head(t.calls))]
    BY <1>1 DEF Drain
  <2>4. QED
    BY <2>1, <2>2, <2>3
<1>4. PICK x : x = IF Len(t.calls) = 1 THEN NoTx ELSE [t EXCEPT !.calls = Tail(@)]
  OBVIOUS
<1>5. x = NoTx \/ (x \in Calling /\ x.u = t.u)
  BY <1>2, <1>4 DEF Calling
<1>6. tx' = [tx EXCEPT ![a] = x]
  BY <1>1, <1>4 DEF Drain
<1>7. /\ tx' \in [Actors -> {NoTx} \cup Transactions \cup Calling]
      /\ tx'[a] = x /\ \A b \in Actors \ {a} : tx'[b] = tx[b]
  BY <1>5, <1>6, ActorMoves
<1>8. QED
  BY <1>1, <1>2, <1>3, <1>5, <1>7 DEF SupportersTypeOK, Drain, history

-----------------------------------------------------------------------------
(* What a commit writes *)

\* A code being confirmed is one transaction's, unspent, and its claimer's.
ConfirmSound(a) ==
    tx[a].op = "link" =>
        /\ pending[tx[a].code] # NoLink /\ ~pending[tx[a].code].spent
        /\ pending[tx[a].code].claimer = tx[a].u
        /\ \A b \in Actors \ {a} : tx[b].op = "link" => tx[b].code # tx[a].code

LEMMA CallsQueued ==
    ASSUME NEW t, NEW d
    PROVE  GroupCalls(t, d) \in {<<>>, <<"ban">>, <<"unban">>, <<"ban", "unban">>}
BY DEF GroupCalls, Withdrawal, Removal, Readmission

\* The subscription a commit leaves: none, where the one it read is gone; otherwise of the account's
\* own identity, unless a confirmation has another.
LEMMA SubLeft ==
    ASSUME SupportersTypeOK, NEW t \in Transactions, NEW d, Sound(t, d), ~Stale(t, d), NEW s, s = SubAfter(t, d)
    PROVE  /\ s \in SubRow \cup {NoSub}
           /\ t.acc.status = "absent" /\ sub[t.u] = NoSub => s = NoSub
           /\ d.sub # NoSub /\ (IF t.held = NoSub THEN sub[t.u] = NoSub ELSE IsRow(t.u, t.held.id)) => s # NoSub
           /\ s # NoSub =>
                 \/ sub[t.u] # NoSub /\ s.patron = sub[t.u].patron
                 \/ t.op = "link" /\ s.patron = pending[t.code].patron
<1>1. PICK now \in SubRow \cup {NoSub}, held \in SubRow \cup {NoSub}, new \in SubRow \cup {NoSub} :
         now = sub[t.u] /\ held = t.held /\ new = d.sub
  BY TransactionFacts, RowsRead DEF Sound
<1>2. s = IF new = NoSub THEN IF held # NoSub /\ IsRow(t.u, held.id) THEN NoSub ELSE now
          ELSE IF held = NoSub THEN new
          ELSE IF new = held THEN now
          ELSE Columns(now, held, new)
  BY <1>1 DEF SubAfter
<1>3. /\ t.acc.status = "absent" => t.op # "link"
      /\ held # NoSub /\ new \notin {NoSub, held} => IsRow(t.u, held.id)
      /\ held = NoSub /\ new # NoSub => now = NoSub
  BY <1>1 DEF Stale
<1>4. /\ t.op # "link" /\ new # NoSub => held # NoSub /\ new.patron = held.patron
      /\ t.op = "link" => new # NoSub /\ new.patron = pending[t.code].patron
  BY <1>1 DEF Sound
<1>5. \A id : IsRow(t.u, id) => now # NoSub
  BY <1>1 DEF IsRow
<1>6. ASSUME now \in SubRow, held \in SubRow, new \in SubRow, NEW x, x = Columns(now, held, new)
      PROVE  /\ x \in SubRow /\ x # NoSub /\ x.patron \in {now.patron, new.patron}
             /\ new.patron = held.patron => x.patron = now.patron
  BY <1>6, SubWritten, RowAssumption
<1>7. CASE new = NoSub
  BY <1>1, <1>2, <1>4, <1>7
<1>8. CASE new # NoSub /\ held = NoSub
  BY <1>1, <1>2, <1>3, <1>4, <1>8
<1>9. CASE new # NoSub /\ held # NoSub /\ new = held
  BY <1>1, <1>2, <1>5, <1>9
<1>10. CASE new # NoSub /\ held # NoSub /\ new # held
  <2>1. s = Columns(now, held, new) /\ now # NoSub
    BY <1>2, <1>3, <1>5, <1>10
  <2>2. /\ s \in SubRow /\ s # NoSub /\ s.patron \in {now.patron, new.patron}
        /\ new.patron = held.patron => s.patron = now.patron
    BY <1>1, <1>6, <1>10, <2>1
  <2>3. QED
    BY <1>1, <1>4, <1>10, <2>1, <2>2
<1>11. QED
  BY <1>7, <1>8, <1>9, <1>10

\* The rows a commit writes by its decision d.
Writes(t, d) ==
    /\ account' = [account EXCEPT ![t.u] = IF t.acc.status = "absent" THEN @ ELSE Columns(@, t.acc, d.acc)]
    /\ sub' = [sub EXCEPT ![t.u] = SubAfter(t, d)]
    /\ landed' = IF t.op = "link" THEN [landed EXCEPT ![t.code] = Append(@, t.u)] ELSE landed

LEMMA WritesTypes ==
    ASSUME SupportersTypeOK, NEW t \in Transactions, NEW d, Sound(t, d), ~Stale(t, d), Writes(t, d)
    PROVE  /\ account' \in [Users -> AccountRow]
           /\ sub' \in [Users -> SubRow \cup {NoSub}]
           /\ landed' \in [Codes -> Seq(Users)]
<1>1. t.u \in Users /\ t.acc \in AccountRow /\ d.acc \in AccountRow /\ account[t.u] \in AccountRow
  BY TransactionFacts, RowsRead DEF Sound
<1>2. Columns(account[t.u], t.acc, d.acc) \in AccountRow
  BY <1>1, AccountWritten
<1>3. account' \in [Users -> AccountRow]
  <2>1. account \in [Users -> AccountRow]
    BY DEF SupportersTypeOK
  <2>2. account' = [account EXCEPT ![t.u] =
           IF t.acc.status = "absent" THEN account[t.u] ELSE Columns(account[t.u], t.acc, d.acc)]
    BY DEF Writes
  <2>3. QED
    BY <1>1, <1>2, <2>1, <2>2
<1>4. sub' \in [Users -> SubRow \cup {NoSub}]
  <2>1. sub \in [Users -> SubRow \cup {NoSub}]
    BY DEF SupportersTypeOK
  <2>2. SubAfter(t, d) \in SubRow \cup {NoSub}
    BY SubLeft
  <2>3. QED
    BY <2>1, <2>2 DEF Writes
<1>5. landed' \in [Codes -> Seq(Users)]
  <2>1. landed \in [Codes -> Seq(Users)]
    BY DEF SupportersTypeOK
  <2>2. CASE t.op = "link"
    <3>1. t.code \in Codes /\ landed' = [landed EXCEPT ![t.code] = Append(landed[t.code], t.u)]
      BY <2>2, TransactionFacts DEF Writes
    <3>2. Append(landed[t.code], t.u) \in Seq(Users)
      BY <1>1, <2>1, <3>1, AppendProperties
    <3>3. QED
      BY <2>1, <3>1, <3>2
  <2>3. CASE t.op # "link"
    BY <2>1, <2>3 DEF Writes
  <2>4. QED
    BY <2>2, <2>3
<1>6. QED
  BY <1>3, <1>4, <1>5

LEMMA CommitShape ==
    ASSUME SupportersTypeOK, NEW a \in Actors, ConfirmSound(a), CommitTx(a), NEW t, t = tx[a]
    PROVE  /\ SupportersTypeOK' /\ t \in Transactions /\ raced' = raced /\ claimers' = claimers
           /\ tx'[a].op \notin Reads /\ (tx'[a].op # "idle" => tx'[a].u = t.u)
           /\ \A b \in Actors \ {a} : tx'[b] = tx[b]
           /\ pending' = IF t.op = "link" THEN [pending EXCEPT ![t.code].spent = TRUE] ELSE pending
           /\ \/ UNCHANGED <<account, sub, landed>>
              \/ ~ClaimedElsewhere(t) /\ \E d : Sound(t, d) /\ ~Stale(t, d) /\ Writes(t, d)
<1>1. t \in Transactions /\ t.u \in Users
  BY ActorFacts, TransactionFacts DEF CommitTx
<1>2. /\ UNCHANGED <<pledge, events, group, sweep, budget, raced, claimers>>
      /\ pending' = IF t.op = "link" THEN [pending EXCEPT ![t.code].spent = TRUE] ELSE pending
  BY DEF CommitTx, Spend
<1>3. t.op = "link" => t.code \in Codes /\ pending[t.code] \in LinkRow
  BY <1>1, TransactionFacts DEF ConfirmSound, SupportersTypeOK
<1>4. pending' \in [Codes -> LinkRow \cup {NoLink}]
  <2>1. pending \in [Codes -> LinkRow \cup {NoLink}]
    BY DEF SupportersTypeOK
  <2>2. CASE t.op = "link"
    <3>1. [pending[t.code] EXCEPT !.spent = TRUE] \in LinkRow
      BY <1>3, <2>2 DEF LinkRow
    <3>2. QED
      BY <1>2, <1>3, <2>1, <2>2, <3>1
  <2>3. QED
    BY <1>2, <2>1, <2>2
<1>5. ASSUME NEW x \in {NoTx} \cup Calling, x \in Calling => x.u = t.u, tx' = [tx EXCEPT ![a] = x]
      PROVE  /\ tx' \in [Actors -> {NoTx} \cup Transactions \cup Calling]
             /\ tx'[a].op \notin Reads /\ (tx'[a].op # "idle" => tx'[a].u = t.u)
             /\ \A b \in Actors \ {a} : tx'[b] = tx[b]
  <2>1. /\ tx'[a] = x /\ \A b \in Actors \ {a} : tx'[b] = tx[b]
        /\ tx' \in [Actors -> {NoTx} \cup Transactions \cup Calling]
    BY <1>5, ActorMoves
  <2>2. x.op \in {"idle", "calls"} /\ (x.op = "calls" => x \in Calling)
    BY DEF NoTx, Calling
  <2>3. QED
    BY <1>5, <2>1, <2>2 DEF Reads
<1>6. CASE ClaimedElsewhere(t)
  <2>1. tx' = [tx EXCEPT ![a] = NoTx] /\ UNCHANGED <<account, sub, landed>>
    BY <1>6 DEF CommitTx, Finish
  <2>2. NoTx \notin Calling
    BY DEF NoTx, Calling
  <2>3. /\ tx' \in [Actors -> {NoTx} \cup Transactions \cup Calling]
        /\ tx'[a].op \notin Reads /\ (tx'[a].op # "idle" => tx'[a].u = t.u)
        /\ \A b \in Actors \ {a} : tx'[b] = tx[b]
    BY <1>5, <2>1, <2>2
  <2>4. SupportersTypeOK'
    BY <1>2, <1>4, <2>1, <2>3 DEF SupportersTypeOK
  <2>5. QED
    BY <1>1, <1>2, <2>1, <2>3, <2>4
<1>7. CASE ~ClaimedElsewhere(t)
  <2>1. PICK d : d = Decision(t)
    OBVIOUS
  <2>2. PICK x : x = IF GroupCalls(t, d) = <<>> THEN NoTx
                     ELSE [op |-> "calls", u |-> t.u, calls |-> GroupCalls(t, d)]
    OBVIOUS
  <2>3. ~Stale(t, d) /\ Writes(t, d) /\ tx' = [tx EXCEPT ![a] = x]
    BY <1>7, <2>1, <2>2 DEF CommitTx, Writes
  <2>4. Sound(t, d)
    BY <1>1, <1>3, <2>1, DecisionSound
  <2>5. x \in {NoTx} \cup Calling /\ (x \in Calling => x.u = t.u)
    <3>1. PICK calls : calls = GroupCalls(t, d)
      OBVIOUS
    <3>2. calls \in {<<>>, <<"ban">>, <<"unban">>, <<"ban", "unban">>}
      BY <3>1, CallsQueued
    <3>3. CASE calls = <<>>
      <4>1. x = NoTx
        BY <2>2, <3>1, <3>3
      <4>2. NoTx \notin Calling
        BY DEF NoTx, Calling
      <4>3. QED
        BY <4>1, <4>2
    <3>4. CASE calls # <<>>
      <4>1. x = [op |-> "calls", u |-> t.u, calls |-> calls]
        BY <2>2, <3>1, <3>4
      <4>2. x \in Calling /\ x.u = t.u
        BY <1>1, <3>2, <3>4, <4>1 DEF Calling
      <4>3. QED
        BY <4>2
    <3>5. QED
      BY <3>3, <3>4
  <2>6. /\ tx' \in [Actors -> {NoTx} \cup Transactions \cup Calling]
        /\ tx'[a].op \notin Reads /\ (tx'[a].op # "idle" => tx'[a].u = t.u)
        /\ \A b \in Actors \ {a} : tx'[b] = tx[b]
    BY <1>5, <2>3, <2>5
  <2>7. /\ account' \in [Users -> AccountRow] /\ sub' \in [Users -> SubRow \cup {NoSub}]
        /\ landed' \in [Codes -> Seq(Users)]
    BY <1>1, <2>3, <2>4, WritesTypes
  <2>8. SupportersTypeOK'
    BY <1>2, <1>4, <2>6, <2>7 DEF SupportersTypeOK
  <2>9. QED
    BY <1>1, <1>2, <1>7, <2>3, <2>4, <2>6, <2>8
<1>8. QED
  BY <1>6, <1>7

-----------------------------------------------------------------------------
(* Codes and identities *)

\* A code's claimer is the one it was shown to; it lands on its claimer, when it is spent.
CodeSound(c) ==
    /\ claimers[c] = {} \/ \E u \in Users : claimers[c] = {u}
    /\ landed[c] = <<>> \/ \E u \in claimers[c] : landed[c] = <<u>>
    /\ pending[c] # NoLink =>
          /\ claimers[c] = IF pending[c].claimer = Nobody THEN {} ELSE {pending[c].claimer}
          /\ ~pending[c].spent => landed[c] = <<>>

PatronsApart ==
    \A u, v \in Users :
        u # v /\ sub[u] # NoSub /\ sub[v] # NoSub => sub[u].patron # sub[v].patron

CodesInv ==
    /\ SupportersTypeOK
    /\ \A c \in Codes : CodeSound(c)
    /\ \A a \in Actors : ConfirmSound(a)
    /\ PatronsApart

\* No code is written but to end its life, or to delete one nobody is confirming; nobody begins a
\* confirmation, and no subscription gets another identity.
CodesKept ==
    /\ UNCHANGED <<claimers, landed>>
    /\ \A c \in Codes :
          \/ pending'[c] = NoLink /\ c \notin HeldCodes
          \/ /\ pending'[c] # NoLink => pending[c] # NoLink
             /\ pending[c] # NoLink =>
                  /\ pending'[c] # NoLink /\ pending'[c].claimer = pending[c].claimer
                  /\ pending'[c].spent = pending[c].spent
    /\ \A b \in Actors : tx'[b].op = "link" =>
          tx[b].op = "link" /\ tx'[b].code = tx[b].code /\ tx'[b].u = tx[b].u
    /\ \A u \in Users : sub'[u] # NoSub => sub[u] # NoSub /\ sub'[u].patron = sub[u].patron

LEMMA LinkFacts ==
    ASSUME SupportersTypeOK, NEW a \in Actors, tx[a].op = "link"
    PROVE  tx[a].code \in Codes /\ tx[a].code \in HeldCodes /\ tx[a].u \in Users
<1>1. tx[a] \in Transactions
  BY ActorFacts DEF Reads
<1>2. QED
  BY <1>1, TransactionFacts DEF HeldCodes

LEMMA KeptCodes ==
    ASSUME CodesInv, SupportersTypeOK', CodesKept
    PROVE  CodesInv'
<1>1. ASSUME NEW c \in Codes
      PROVE  CodeSound(c)'
  BY DEF CodesInv, CodeSound, CodesKept
<1>2. ASSUME NEW a \in Actors
      PROVE  ConfirmSound(a)'
  <2>1. SUFFICES ASSUME tx'[a].op = "link"
                 PROVE  /\ pending'[tx'[a].code] # NoLink /\ ~pending'[tx'[a].code].spent
                        /\ pending'[tx'[a].code].claimer = tx'[a].u
                        /\ \A b \in Actors \ {a} : tx'[b].op = "link" => tx'[b].code # tx'[a].code
    BY DEF ConfirmSound
  <2>2. tx[a].op = "link" /\ tx'[a].code = tx[a].code /\ tx'[a].u = tx[a].u
    BY <2>1 DEF CodesKept
  <2>3. tx[a].code \in Codes /\ tx[a].code \in HeldCodes
    BY <2>2, LinkFacts DEF CodesInv
  <2>4. ConfirmSound(a)
    BY DEF CodesInv
  <2>5. QED
    BY <2>2, <2>3, <2>4 DEF ConfirmSound, CodesKept
<1>3. PatronsApart'
  BY DEF CodesInv, PatronsApart, CodesKept
<1>4. QED
  BY <1>1, <1>2, <1>3 DEF CodesInv

\* What begins, other than a confirmation, leaves the codes.
LEMMA StartsKeep ==
    ASSUME SupportersTypeOK, NEW a \in Actors, NEW t, Starts(a, t), t.op # "link",
           UNCHANGED <<pending, sub, claimers, landed>>
    PROVE  CodesKept
<1>1. tx' = [tx EXCEPT ![a] = t]
  BY DEF Starts
<1>2. tx'[a] = t /\ \A b \in Actors \ {a} : tx'[b] = tx[b]
  BY <1>1, ActorMoves
<1>3. QED
  BY <1>2 DEF CodesKept

LEMMA StageCodes ==
    ASSUME CodesInv, NEW c \in Codes, NEW p \in Patrons, Stage(c, p)
    PROVE  CodesInv'
<1>1. SupportersTypeOK'
  BY StageTypes DEF CodesInv
<1>2. PICK row : row = [patron |-> p, level |-> TargetLevel(pledge[p]), claimer |-> Nobody, spent |-> FALSE,
                        live |-> TRUE]
  OBVIOUS
<1>3. row.claimer = Nobody /\ ~row.spent
  BY <1>2
<1>4. /\ pending'[c] = row /\ \A x \in Codes \ {c} : pending'[x] = pending[x]
      /\ pending[c] = NoLink /\ claimers[c] = {} /\ landed[c] = <<>>
      /\ UNCHANGED <<sub, tx, claimers, landed>>
  <2>1. pending \in [Codes -> LinkRow \cup {NoLink}] /\ pending' = [pending EXCEPT ![c] = row]
    BY <1>2 DEF CodesInv, SupportersTypeOK, Stage
  <2>2. QED
    BY <2>1 DEF Stage, history
<1>5. ASSUME NEW x \in Codes
      PROVE  CodeSound(x)'
  BY <1>3, <1>4 DEF CodesInv, CodeSound
<1>6. ASSUME NEW a \in Actors
      PROVE  ConfirmSound(a)'
  <2>1. ConfirmSound(a) /\ (tx[a].op = "link" => tx[a].code \in Codes)
    BY LinkFacts DEF CodesInv
  <2>2. QED
    BY <1>4, <2>1 DEF ConfirmSound
<1>7. PatronsApart'
  BY <1>4 DEF CodesInv, PatronsApart
<1>8. QED
  BY <1>1, <1>5, <1>6, <1>7 DEF CodesInv

LEMMA ClaimCodes ==
    ASSUME CodesInv, NEW u \in Users, NEW c \in Codes, Claim(u, c)
    PROVE  CodesInv'
<1>1. SupportersTypeOK'
  BY ClaimTypes DEF CodesInv
<1>2. PICK old \in LinkRow : old = pending[c] /\ old # NoLink
  BY DEF CodesInv, SupportersTypeOK, Claim, ClaimableBy, LiveRow
<1>3. PICK row : row = [old EXCEPT !.claimer = u]
  OBVIOUS
<1>4. row \in LinkRow /\ row.claimer = u /\ row.spent = old.spent
  BY <1>2, <1>3 DEF LinkRow
<1>5. /\ pending'[c] = row /\ \A x \in Codes \ {c} : pending'[x] = pending[x]
      /\ claimers'[c] = claimers[c] \cup {u} /\ \A x \in Codes \ {c} : claimers'[x] = claimers[x]
      /\ c \notin HeldCodes /\ old.claimer \in {Nobody, u} /\ ~old.spent
      /\ UNCHANGED <<sub, tx, landed>>
  <2>1. pending \in [Codes -> LinkRow \cup {NoLink}] /\ pending' = [pending EXCEPT ![c] = row]
    BY <1>2, <1>3 DEF CodesInv, SupportersTypeOK, Claim
  <2>2. claimers \in [Codes -> SUBSET Users] /\ claimers' = [claimers EXCEPT ![c] = claimers[c] \cup {u}]
    BY DEF CodesInv, SupportersTypeOK, Claim
  <2>3. QED
    BY <1>2, <2>1, <2>2 DEF Claim, ClaimableBy, LiveRow
<1>6. Nobody # u
  BY SupporterAssumption
<1>7. CodeSound(c)'
  <2>1. CodeSound(c)
    BY DEF CodesInv
  <2>2. claimers[c] = (IF old.claimer = Nobody THEN {} ELSE {old.claimer}) /\ landed[c] = <<>>
    BY <1>2, <1>5, <2>1 DEF CodeSound
  <2>3. claimers'[c] = {u}
    BY <1>5, <2>2
  <2>4. QED
    BY <1>4, <1>5, <1>6, <2>2, <2>3 DEF CodeSound
<1>8. ASSUME NEW x \in Codes \ {c}
      PROVE  CodeSound(x)'
  <2>1. CodeSound(x)
    BY DEF CodesInv
  <2>2. QED
    BY <1>5, <2>1 DEF CodeSound
<1>9. ASSUME NEW a \in Actors
      PROVE  ConfirmSound(a)'
  <2>1. ConfirmSound(a) /\ (tx[a].op = "link" => tx[a].code \in Codes \ {c})
    BY <1>5, LinkFacts DEF CodesInv
  <2>2. QED
    BY <1>5, <2>1 DEF ConfirmSound
<1>10. PatronsApart'
  BY <1>5 DEF CodesInv, PatronsApart
<1>11. QED
  BY <1>1, <1>7, <1>8, <1>9, <1>10 DEF CodesInv

LEMMA BeginLinkCodes ==
    ASSUME CodesInv, NEW a \in Workers, NEW u \in Users, NEW c \in Codes, BeginLink(a, u, c)
    PROVE  CodesInv'
<1>1. SupportersTypeOK /\ a \in Actors
  BY DEF CodesInv, Actors
<1>2. SupportersTypeOK' /\ \E t \in Transactions : Starts(a, t) /\ t.op = "link" /\ t.u = u /\ t.code = c
  BY <1>1, BeginLinkTypes
<1>3. PICK t \in Transactions : Starts(a, t) /\ t.op = "link" /\ t.u = u /\ t.code = c
  BY <1>2
<1>4. tx'[a] = t /\ \A b \in Actors \ {a} : tx'[b] = tx[b]
  BY <1>1, <1>3, ActorMoves DEF Starts
<1>5. /\ c \notin HeldCodes /\ pending[c] # NoLink /\ ~pending[c].spent /\ pending[c].claimer = u
      /\ UNCHANGED <<pending, sub, claimers, landed>>
  BY DEF BeginLink, ConsumableBy, LiveRow, tables
<1>6. ASSUME NEW x \in Codes
      PROVE  CodeSound(x)'
  BY <1>5 DEF CodesInv, CodeSound
<1>7. ASSUME NEW b \in Actors, tx[b].op = "link"
      PROVE  tx[b].code # c
  BY <1>1, <1>5, <1>7, LinkFacts
<1>8. ConfirmSound(a)'
  BY <1>3, <1>4, <1>5, <1>7 DEF ConfirmSound
<1>9. ASSUME NEW b \in Actors \ {a}
      PROVE  ConfirmSound(b)'
  <2>1. ConfirmSound(b)
    BY DEF CodesInv
  <2>2. QED
    BY <1>3, <1>4, <1>5, <1>7, <2>1 DEF ConfirmSound
<1>10. PatronsApart'
  BY <1>5 DEF CodesInv, PatronsApart
<1>11. QED
  BY <1>2, <1>6, <1>8, <1>9, <1>10 DEF CodesInv

LEMMA CleanupCodes ==
    ASSUME CodesInv, Cleanup
    PROVE  CodesInv'
<1>1. SupportersTypeOK /\ SupportersTypeOK'
  BY CleanupTypes DEF CodesInv
<1>2. PICK gone \in SUBSET Users, swept \in SUBSET Codes :
         /\ swept \cap HeldCodes = {}
         /\ sub' = [u \in Users |-> IF u \in gone THEN NoSub ELSE sub[u]]
         /\ pending' = [c \in Codes |-> IF c \in swept THEN NoLink ELSE pending[c]]
         /\ tx' = [a \in Actors |->
                IF tx[a].op \in Reads /\ tx[a].u \in gone THEN [tx[a] EXCEPT !.acc = NoAccount] ELSE tx[a]]
         /\ UNCHANGED <<claimers, landed>>
  BY DEF Cleanup, history
<1>3. ASSUME NEW c \in Codes
      PROVE  (pending'[c] = NoLink /\ c \notin HeldCodes) \/ pending'[c] = pending[c]
  BY <1>2
<1>4. ASSUME NEW b \in Actors, tx'[b].op = "link"
      PROVE  tx[b].op = "link" /\ tx'[b].code = tx[b].code /\ tx'[b].u = tx[b].u
  <2>1. CASE tx[b].op \in Reads /\ tx[b].u \in gone
    <3>1. tx[b] \in Transactions /\ tx'[b] = [tx[b] EXCEPT !.acc = NoAccount]
      BY <1>1, <1>2, <2>1, ActorFacts
    <3>2. QED
      BY <1>4, <3>1, TransactionCut
  <2>2. CASE ~(tx[b].op \in Reads /\ tx[b].u \in gone)
    BY <1>2, <1>4, <2>2
  <2>3. QED
    BY <2>1, <2>2
<1>5. ASSUME NEW u \in Users
      PROVE  sub'[u] # NoSub => sub[u] # NoSub /\ sub'[u].patron = sub[u].patron
  BY <1>2
<1>6. CodesKept
  BY <1>2, <1>3, <1>4, <1>5 DEF CodesKept
<1>7. QED
  BY <1>1, <1>6, KeptCodes

\* A confirmation spends the code it consumed, on the account the code was shown to, and on an
\* identity no other account has.
LEMMA CommitCodes ==
    ASSUME CodesInv, NEW a \in Actors, CommitTx(a)
    PROVE  CodesInv'
<1>1. PICK t : t = tx[a]
  OBVIOUS
<1>2. SupportersTypeOK /\ ConfirmSound(a)
  BY DEF CodesInv
<1>3. /\ SupportersTypeOK' /\ t \in Transactions /\ raced' = raced /\ claimers' = claimers
      /\ tx'[a].op \notin Reads /\ (tx'[a].op # "idle" => tx'[a].u = t.u)
      /\ \A b \in Actors \ {a} : tx'[b] = tx[b]
      /\ pending' = IF t.op = "link" THEN [pending EXCEPT ![t.code].spent = TRUE] ELSE pending
      /\ \/ UNCHANGED <<account, sub, landed>>
         \/ ~ClaimedElsewhere(t) /\ \E d : Sound(t, d) /\ ~Stale(t, d) /\ Writes(t, d)
  BY <1>1, <1>2, CommitShape
<1>4. PICK u \in Users : u = t.u
  BY <1>3, TransactionFacts
<1>5. tx'[a].op # "link"
  BY <1>3 DEF Reads
<1>6. \/ UNCHANGED sub
      \/ /\ ~ClaimedElsewhere(t)
         /\ \A v \in Users \ {u} : sub'[v] = sub[v]
         /\ sub'[u] # NoSub =>
               \/ sub[u] # NoSub /\ sub'[u].patron = sub[u].patron
               \/ t.op = "link" /\ sub'[u].patron = pending[t.code].patron
  <2>1. ASSUME NEW d, Sound(t, d), ~Stale(t, d), Writes(t, d)
        PROVE  /\ \A v \in Users \ {u} : sub'[v] = sub[v]
               /\ sub'[u] # NoSub =>
                     \/ sub[u] # NoSub /\ sub'[u].patron = sub[u].patron
                     \/ t.op = "link" /\ sub'[u].patron = pending[t.code].patron
    <3>1. PICK s : s = SubAfter(t, d)
      OBVIOUS
    <3>2. s # NoSub =>
                 \/ sub[t.u] # NoSub /\ s.patron = sub[t.u].patron
                 \/ t.op = "link" /\ s.patron = pending[t.code].patron
      BY <1>2, <1>3, <2>1, <3>1, SubLeft
    <3>3. sub \in [Users -> SubRow \cup {NoSub}] /\ sub' = [sub EXCEPT ![u] = s]
      BY <1>2, <1>4, <2>1, <3>1 DEF SupportersTypeOK, Writes
    <3>4. sub'[u] = s /\ \A v \in Users \ {u} : sub'[v] = sub[v]
      BY <3>3
    <3>5. QED
      BY <1>4, <3>2, <3>4
  <2>2. QED
    BY <1>3, <2>1
<1>7. PatronsApart'
  <2>1. PatronsApart
    BY DEF CodesInv
  <2>2. CASE UNCHANGED sub
    BY <2>1, <2>2 DEF PatronsApart
  <2>3. CASE /\ ~ClaimedElsewhere(t)
             /\ \A v \in Users \ {u} : sub'[v] = sub[v]
             /\ sub'[u] # NoSub =>
                   \/ sub[u] # NoSub /\ sub'[u].patron = sub[u].patron
                   \/ t.op = "link" /\ sub'[u].patron = pending[t.code].patron
    <3>1. ASSUME NEW v \in Users \ {u}, sub'[u] # NoSub, sub'[v] # NoSub
          PROVE  sub'[u].patron # sub'[v].patron
      <4>1. CASE sub[u] # NoSub /\ sub'[u].patron = sub[u].patron
        BY <2>1, <2>3, <3>1, <4>1 DEF PatronsApart
      <4>2. CASE t.op = "link" /\ sub'[u].patron = pending[t.code].patron
        <5>1. sub[v] = sub'[v] /\ sub[v] # NoSub
          BY <2>3, <3>1
        <5>2. sub[v].patron # pending[t.code].patron
          BY <1>4, <2>3, <4>2, <5>1 DEF ClaimedElsewhere, Linked
        <5>3. QED
          BY <4>2, <5>1, <5>2
      <4>3. QED
        BY <2>3, <3>1, <4>1, <4>2
    <3>2. ASSUME NEW v \in Users, NEW w \in Users, v # w, sub'[v] # NoSub, sub'[w] # NoSub
          PROVE  sub'[v].patron # sub'[w].patron
      <4>1. CASE v = u
        BY <3>1, <3>2, <4>1
      <4>2. CASE w = u
        BY <3>1, <3>2, <4>2
      <4>3. CASE v # u /\ w # u
        BY <2>1, <2>3, <3>2, <4>3 DEF PatronsApart
      <4>4. QED
        BY <4>1, <4>2, <4>3
    <3>3. QED
      BY <3>2 DEF PatronsApart
  <2>4. QED
    BY <1>6, <2>2, <2>3
<1>8. CASE t.op # "link"
  <2>1. UNCHANGED <<pending, claimers, landed>>
    BY <1>3, <1>8 DEF Writes
  <2>2. ASSUME NEW c \in Codes
        PROVE  CodeSound(c)'
    BY <2>1 DEF CodesInv, CodeSound
  <2>3. ASSUME NEW b \in Actors
        PROVE  ConfirmSound(b)'
    <3>1. ConfirmSound(b)
      BY DEF CodesInv
    <3>2. QED
      BY <1>3, <1>5, <2>1, <3>1 DEF ConfirmSound
  <2>4. QED
    BY <1>3, <1>7, <2>2, <2>3 DEF CodesInv
<1>9. CASE t.op = "link"
  <2>1. PICK c \in Codes : c = t.code
    BY <1>3, <1>9, TransactionFacts
  <2>2. /\ pending[c] # NoLink /\ ~pending[c].spent /\ pending[c].claimer = u
        /\ \A b \in Actors \ {a} : tx[b].op = "link" => tx[b].code # c
    BY <1>1, <1>2, <1>4, <1>9, <2>1 DEF ConfirmSound
  <2>3. PICK old \in LinkRow : old = pending[c]
    BY <1>2, <2>2 DEF SupportersTypeOK
  <2>4. PICK row : row = [old EXCEPT !.spent = TRUE]
    OBVIOUS
  <2>5. row \in LinkRow /\ row # NoLink /\ row.spent = TRUE /\ row.claimer = u
    <3>1. old.claimer = u
      BY <2>2, <2>3
    <3>2. QED
      BY <2>4, <3>1, RowAssumption DEF LinkRow
  <2>6. pending'[c] = row /\ \A x \in Codes \ {c} : pending'[x] = pending[x]
    <3>1. pending \in [Codes -> LinkRow \cup {NoLink}] /\ pending' = [pending EXCEPT ![c] = row]
      BY <1>2, <1>3, <1>9, <2>1, <2>3, <2>4 DEF SupportersTypeOK
    <3>2. QED
      BY <3>1
  <2>7. claimers[c] = {u} /\ landed[c] = <<>>
    <3>1. CodeSound(c) /\ u # Nobody
      BY SupporterAssumption DEF CodesInv
    <3>2. QED
      BY <2>2, <3>1 DEF CodeSound
  <2>8. (landed'[c] = <<>> \/ landed'[c] = <<u>>) /\ \A x \in Codes \ {c} : landed'[x] = landed[x]
    <3>1. landed \in [Codes -> Seq(Users)]
      BY <1>2 DEF SupportersTypeOK
    <3>2. landed' = landed \/ landed' = [landed EXCEPT ![c] = Append(landed[c], u)]
      BY <1>3, <1>4, <1>9, <2>1 DEF Writes
    <3>3. Append(<<>>, u) = <<u>>
      OBVIOUS
    <3>4. QED
      BY <2>7, <3>1, <3>2, <3>3
  <2>9. CodeSound(c)'
    <3>1. u # Nobody
      BY SupporterAssumption
    <3>2. QED
      BY <1>3, <2>5, <2>6, <2>7, <2>8, <3>1 DEF CodeSound
  <2>10. ASSUME NEW x \in Codes \ {c}
         PROVE  CodeSound(x)'
    <3>1. CodeSound(x)
      BY DEF CodesInv
    <3>2. QED
      BY <1>3, <2>6, <2>8, <3>1 DEF CodeSound
  <2>11. ASSUME NEW b \in Actors
         PROVE  ConfirmSound(b)'
    <3>1. CASE b = a
      BY <1>5, <3>1 DEF ConfirmSound
    <3>2. CASE b # a
      <4>1. ConfirmSound(b) /\ tx'[b] = tx[b]
        BY <1>3, <3>2 DEF CodesInv
      <4>2. tx[b].op = "link" => tx[b].code \in Codes \ {c}
        BY <1>2, <2>2, <3>2, LinkFacts
      <4>3. ASSUME tx[b].op = "link", NEW e \in Actors \ {b}, tx'[e].op = "link"
            PROVE  tx'[e].code # tx[b].code
        BY <1>3, <1>5, <4>1, <4>3 DEF ConfirmSound
      <4>4. QED
        BY <2>6, <4>1, <4>2, <4>3 DEF ConfirmSound
    <3>3. QED
      BY <3>1, <3>2
  <2>12. QED
    BY <1>3, <1>7, <2>9, <2>10, <2>11 DEF CodesInv
<1>10. QED
  BY <1>8, <1>9

LEMMA CodesNext ==
    ASSUME CodesInv, SupportersNext
    PROVE  CodesInv'
<1>1. SupportersTypeOK /\ Job \in Actors /\ Workers \subseteq Actors
  BY DEF CodesInv, Actors
<1>2. ASSUME NEW p \in Patrons, NEW cents \in {0} \cup Amounts, Pledge(p, cents)
      PROVE  CodesInv'
  <2>1. SupportersTypeOK'
    BY <1>1, <1>2, PledgeTypes
  <2>2. CodesKept
    BY <1>2 DEF Pledge, CodesKept, tables, history
  <2>3. QED
    BY <2>1, <2>2, KeptCodes
<1>3. ASSUME NEW p \in Patrons, NEW c \in Codes, Stage(c, p)
      PROVE  CodesInv'
  BY <1>3, StageCodes
<1>4. ASSUME NEW c \in Codes, Expire(c)
      PROVE  CodesInv'
  <2>1. SupportersTypeOK'
    BY <1>1, <1>4, ExpireTypes
  <2>2. PICK old \in LinkRow : old = pending[c] /\ old # NoLink
    BY <1>1, <1>4 DEF SupportersTypeOK, Expire
  <2>3. PICK row : row = [old EXCEPT !.live = FALSE]
    OBVIOUS
  <2>4. row # NoLink /\ row.claimer = old.claimer /\ row.spent = old.spent
    BY <2>2, <2>3, RowAssumption DEF LinkRow
  <2>5. pending'[c] = row /\ \A x \in Codes \ {c} : pending'[x] = pending[x]
    <3>1. pending \in [Codes -> LinkRow \cup {NoLink}] /\ pending' = [pending EXCEPT ![c] = row]
      BY <1>1, <1>4, <2>2, <2>3 DEF SupportersTypeOK, Expire
    <3>2. QED
      BY <3>1
  <2>6. CodesKept
    BY <1>4, <2>2, <2>4, <2>5 DEF Expire, CodesKept, history
  <2>7. QED
    BY <2>1, <2>6, KeptCodes
<1>5. ASSUME NEW u \in Users, RunwayEnds(u)
      PROVE  CodesInv'
  <2>1. SupportersTypeOK'
    BY <1>1, <1>5, RunwayEndsTypes
  <2>2. PICK old \in SubRow : old = sub[u] /\ old # NoSub
    BY <1>1, <1>5 DEF SupportersTypeOK, RunwayEnds
  <2>3. PICK row : row = [old EXCEPT !.runway = "over"]
    OBVIOUS
  <2>4. row.patron = old.patron
    BY <2>2, <2>3 DEF SubRow
  <2>5. sub'[u] = row /\ \A x \in Users \ {u} : sub'[x] = sub[x]
    <3>1. sub \in [Users -> SubRow \cup {NoSub}] /\ sub' = [sub EXCEPT ![u] = row]
      BY <1>1, <1>5, <2>2, <2>3 DEF SupportersTypeOK, RunwayEnds
    <3>2. QED
      BY <3>1
  <2>6. CodesKept
    BY <1>5, <2>2, <2>4, <2>5 DEF RunwayEnds, CodesKept, history
  <2>7. QED
    BY <2>1, <2>6, KeptCodes
<1>6. ASSUME NEW u \in Users, NEW from, NEW to \in {"member", "left", "marked"}, MoveOn(u, from, to)
      PROVE  CodesInv'
  <2>1. SupportersTypeOK'
    BY <1>1, <1>6, MoveOnTypes
  <2>2. CodesKept
    BY <1>6 DEF MoveOn, CodesKept, history
  <2>3. QED
    BY <2>1, <2>2, KeptCodes
<1>7. ASSUME NEW u \in Users, JoinRequest(u)
      PROVE  CodesInv'
  <2>1. SupportersTypeOK'
    BY <1>1, <1>7, JoinRequestTypes
  <2>2. CodesKept
    BY <1>7 DEF JoinRequest, CodesKept, history
  <2>3. QED
    BY <2>1, <2>2, KeptCodes
<1>8. ASSUME NEW u \in Users, NEW c \in Codes, Claim(u, c)
      PROVE  CodesInv'
  BY <1>8, ClaimCodes
<1>9. ASSUME NEW a \in Workers, NEW u \in Users, NEW c \in Codes, BeginLink(a, u, c)
      PROVE  CodesInv'
  BY <1>9, BeginLinkCodes
<1>10. ASSUME NEW a \in Workers, NEW u \in Users, BeginUnlink(a, u)
       PROVE  CodesInv'
  <2>1. SupportersTypeOK' /\ \E t \in Transactions : Starts(a, t) /\ t.op = "unlink"
    BY <1>1, <1>10, BeginUnlinkTypes
  <2>2. a \in Actors /\ UNCHANGED <<pending, sub, claimers, landed>>
    BY <1>1, <1>10 DEF BeginUnlink, tables
  <2>3. CodesKept
    BY <1>1, <2>1, <2>2, StartsKeep
  <2>4. QED
    BY <2>1, <2>3, KeptCodes
<1>11. ASSUME NEW a \in Workers, NEW u \in Users, NEW level \in GrantLevels, BeginGrant(a, u, level)
       PROVE  CodesInv'
  <2>1. SupportersTypeOK' /\ \E t \in Transactions : Starts(a, t) /\ t.op = "grant"
    BY <1>1, <1>11, BeginGrantTypes
  <2>2. a \in Actors /\ UNCHANGED <<pending, sub, claimers, landed>>
    BY <1>1, <1>11 DEF BeginGrant, tables
  <2>3. CodesKept
    BY <1>1, <2>1, <2>2, StartsKeep
  <2>4. QED
    BY <2>1, <2>3, KeptCodes
<1>12. ASSUME NEW a \in Workers, NEW e \in events, Deliver(a, e)
       PROVE  CodesInv'
  <2>1. SupportersTypeOK' /\ (UNCHANGED <<tx, raced>> \/ \E t \in Transactions : Starts(a, t) /\ t.op = "event")
    BY <1>1, <1>12, DeliverTypes
  <2>2. a \in Actors /\ UNCHANGED <<pending, sub, claimers, landed>>
    BY <1>1, <1>12 DEF Deliver, tables
  <2>3. CASE UNCHANGED <<tx, raced>>
    <3>1. CodesKept
      BY <2>2, <2>3 DEF CodesKept
    <3>2. QED
      BY <2>1, <3>1, KeptCodes
  <2>4. CASE \E t \in Transactions : Starts(a, t) /\ t.op = "event"
    <3>1. CodesKept
      BY <1>1, <2>2, <2>4, StartsKeep
    <3>2. QED
      BY <2>1, <3>1, KeptCodes
  <2>5. QED
    BY <2>1, <2>3, <2>4
<1>13. ASSUME NEW a \in Actors, CommitTx(a)
       PROVE  CodesInv'
  BY <1>13, CommitCodes
<1>14. ASSUME NEW a \in Actors, RollBack(a)
       PROVE  CodesInv'
  <2>1. SupportersTypeOK' /\ tx'[a] = NoTx /\ \A b \in Actors \ {a} : tx'[b] = tx[b]
    BY <1>1, <1>14, RollBackTypes
  <2>2. CodesKept
    BY <1>14, <2>1 DEF RollBack, CodesKept, NoTx, tables, history
  <2>3. QED
    BY <2>1, <2>2, KeptCodes
<1>15. ASSUME NEW a \in Actors, Drain(a)
       PROVE  CodesInv'
  <2>1. /\ SupportersTypeOK'
        /\ tx'[a] = NoTx \/ (tx'[a] \in Calling /\ tx'[a].u = tx[a].u)
        /\ \A b \in Actors \ {a} : tx'[b] = tx[b]
    BY <1>1, <1>15, DrainTypes
  <2>2. tx'[a].op # "link"
    BY <2>1 DEF NoTx, Calling
  <2>3. CodesKept
    BY <1>15, <2>1, <2>2 DEF Drain, CodesKept, history
  <2>4. QED
    BY <2>1, <2>3, KeptCodes
<1>16. ASSUME Cleanup
       PROVE  CodesInv'
  BY <1>16, CleanupCodes
<1>17. ASSUME FetchRoster
       PROVE  CodesInv'
  <2>1. SupportersTypeOK'
    BY <1>1, <1>17, FetchRosterTypes
  <2>2. CodesKept
    BY <1>17 DEF FetchRoster, CodesKept, tables, history
  <2>3. QED
    BY <2>1, <2>2, KeptCodes
<1>18. ASSUME Nominate
       PROVE  CodesInv'
  <2>1. SupportersTypeOK'
    BY <1>1, <1>18, NominateTypes
  <2>2. CodesKept
    BY <1>18 DEF Nominate, CodesKept, tables, history
  <2>3. QED
    BY <2>1, <2>2, KeptCodes
<1>19. ASSUME SweepStops
       PROVE  CodesInv'
  <2>1. SupportersTypeOK' /\ tx'[Job] = NoTx /\ \A b \in Actors \ {Job} : tx'[b] = tx[b]
    BY <1>1, <1>19, SweepStopsTypes
  <2>2. CodesKept
    BY <1>19, <2>1 DEF SweepStops, CodesKept, NoTx, tables, history
  <2>3. QED
    BY <2>1, <2>2, KeptCodes
<1>20. ASSUME NEW u \in Users, NEW c \in Codes, Process([u |-> u, id |-> c])
       PROVE  CodesInv'
  <2>1. /\ SupportersTypeOK'
        /\ UNCHANGED <<tx, raced>> \/ \E t \in Transactions : Starts(Job, t) /\ t.op \in {"due", "sync"}
    BY <1>1, <1>20, ProcessTypes
  <2>2. UNCHANGED <<pending, sub, claimers, landed>>
    BY <1>20 DEF Process, tables
  <2>3. CASE UNCHANGED <<tx, raced>>
    <3>1. CodesKept
      BY <2>2, <2>3 DEF CodesKept
    <3>2. QED
      BY <2>1, <3>1, KeptCodes
  <2>4. CASE \E t \in Transactions : Starts(Job, t) /\ t.op \in {"due", "sync"}
    <3>1. PICK t \in Transactions : Starts(Job, t) /\ t.op # "link"
      BY <2>4
    <3>2. CodesKept
      BY <1>1, <2>2, <3>1, StartsKeep
    <3>3. QED
      BY <2>1, <3>2, KeptCodes
  <2>5. QED
    BY <2>1, <2>3, <2>4
<1>21. QED
  BY <1>2, <1>3, <1>4, <1>5, <1>6, <1>7, <1>8, <1>9, <1>10, <1>11, <1>12, <1>13, <1>14, <1>15, <1>16, <1>17,
     <1>18, <1>19, <1>20 DEF SupportersNext, RecordBlock, Onboard, RequestErasure

LEMMA CodesInit == SupportersInit => CodesInv
<1> SUFFICES ASSUME SupportersInit PROVE CodesInv
  OBVIOUS
<1>1. SupportersTypeOK
  BY InitTypes
<1>2. ASSUME NEW c \in Codes
      PROVE  CodeSound(c)
  BY DEF SupportersInit, CodeSound
<1>3. ASSUME NEW a \in Actors
      PROVE  ConfirmSound(a)
  BY DEF SupportersInit, ConfirmSound, NoTx
<1>4. PatronsApart
  BY DEF SupportersInit, PatronsApart
<1>5. QED
  BY <1>1, <1>2, <1>3, <1>4 DEF CodesInv

LEMMA CodesStutter == CodesInv /\ UNCHANGED supportersVars => CodesInv'
<1> SUFFICES ASSUME CodesInv, UNCHANGED supportersVars PROVE CodesInv'
  OBVIOUS
<1>1. SupportersTypeOK'
  BY DEF CodesInv, SupportersTypeOK, supportersVars
<1>2. CodesKept
  BY DEF CodesKept, supportersVars
<1>3. QED
  BY <1>1, <1>2, KeptCodes

\* Whatever the interleaving of the five writers, the clean-up and Patreon: a code's claimer is the
\* one account it was shown to, a confirmation under way holds an unspent code of its own account,
\* and no two subscriptions are of one identity.
THEOREM CodesCorrect == SupportersSpec => []CodesInv
<1>1. CodesInv /\ [SupportersNext]_supportersVars => CodesInv'
  BY CodesNext, CodesStutter
<1>2. QED
  BY <1>1, CodesInit, PTL DEF SupportersSpec

LEMMA CodesExclusive == CodesInv => LinksAreExclusive
<1> SUFFICES ASSUME CodesInv PROVE LinksAreExclusive
  OBVIOUS
<1>1. Cardinality({}) = 0 /\ \A u : Cardinality({u}) = 1
  BY FS_EmptySet, FS_Singleton
<1>2. ASSUME NEW c \in Codes
      PROVE  /\ Cardinality(claimers[c]) <= 1
             /\ Len(landed[c]) <= 1
             /\ \A i \in DOMAIN landed[c] : landed[c][i] \in claimers[c]
  <2>1. CodeSound(c)
    BY DEF CodesInv
  <2>2. Cardinality(claimers[c]) <= 1
    <3>1. CASE claimers[c] = {}
      BY <1>1, <3>1
    <3>2. ASSUME NEW u, claimers[c] = {u}
          PROVE  Cardinality(claimers[c]) <= 1
      <4>1. Cardinality({u}) = 1
        BY <1>1
      <4>2. QED
        BY <3>2, <4>1
    <3>3. QED
      BY <2>1, <3>1, <3>2 DEF CodeSound
  <2>3. CASE landed[c] = <<>>
    BY <2>2, <2>3
  <2>4. ASSUME NEW u \in claimers[c], landed[c] = <<u>>
        PROVE  Len(landed[c]) <= 1 /\ \A i \in DOMAIN landed[c] : landed[c][i] \in claimers[c]
    BY <2>4
  <2>5. QED
    BY <2>1, <2>2, <2>3, <2>4 DEF CodeSound
<1>3. ASSUME NEW p \in Patrons
      PROVE  Cardinality(Linked(p)) <= 1
  <2>1. CASE Linked(p) = {}
    BY <1>1, <2>1
  <2>2. ASSUME NEW u \in Linked(p)
        PROVE  Cardinality(Linked(p)) <= 1
    <3>1. Linked(p) = {u}
      BY <2>2 DEF CodesInv, PatronsApart, Linked
    <3>2. Cardinality({u}) = 1
      BY <1>1
    <3>3. QED
      BY <3>1, <3>2
  <2>3. QED
    BY <2>1, <2>2
<1>4. QED
  BY <1>2, <1>3 DEF LinksAreExclusive, OnePersonPerCode, OneAccountPerPatron

\* A pairing code is one person's and is used once, and a Patreon account backs one account at most,
\* although the check reads without a lock and the writers overlap as they like.
THEOREM CodesAreOnePersons == SupportersSpec => []LinksAreExclusive
BY CodesCorrect, CodesExclusive, PTL

-----------------------------------------------------------------------------
(* Levels *)

\* Two writers work on an account only if it is raced.
Busy(a, u) == tx[a].op # "idle" /\ tx[a].u = u

Alone ==
    \A u \in Users, a, b \in Actors : a # b /\ Busy(a, u) /\ Busy(b, u) => u \in raced

\* An account that is gone has no tier and no subscription, and whoever read it knows.
GoneAreGone ==
    \A u \in Users : account[u].status = "absent" =>
        /\ account[u] = NoAccount /\ sub[u] = NoSub
        /\ \A a \in Actors : tx[a].op \in Reads /\ tx[a].u = u => tx[a].acc.status = "absent"

\* What t has read of its account is as it was read, or is gone.
Current(t) ==
    IF t.acc.status = "absent"
    THEN account[t.u].level = 0 /\ account[t.u].granted = 0 /\ sub[t.u] = NoSub
    ELSE /\ account[t.u].level = t.acc.level /\ account[t.u].granted = t.acc.granted
         /\ IF t.held = NoSub THEN sub[t.u] = NoSub ELSE IsRow(t.u, t.held.id)

\* What the one writer of an account has read is current.
ReadsAreCurrent ==
    \A a \in Actors : tx[a].op \in Reads /\ tx[a].u \notin raced => Current(tx[a])

LevelsInv == Alone /\ GoneAreGone /\ ReadsAreCurrent /\ LevelsAreBacked

\* Tiers, floors and the identity of the rows stay, nobody's account ends, and no transaction begins.
LevelsKept ==
    /\ raced' = raced
    /\ \A u \in Users :
          /\ account'[u].level = account[u].level /\ account'[u].granted = account[u].granted
          /\ account'[u].status = "absent" => account'[u] = account[u]
          /\ sub'[u] = NoSub <=> sub[u] = NoSub
          /\ sub[u] # NoSub => sub'[u].id = sub[u].id
    /\ \A b \in Actors : \/ tx'[b] = tx[b]
                         \/ /\ tx'[b].op \notin Reads
                            /\ tx'[b].op # "idle" => tx[b].op # "idle" /\ tx'[b].u = tx[b].u

LEMMA ActorUser ==
    ASSUME SupportersTypeOK, NEW a \in Actors, tx[a].op \in Reads
    PROVE  tx[a].u \in Users /\ tx[a] \in Transactions /\ tx[a].op # "idle"
BY ActorFacts, TransactionFacts

LEMMA KeptLevels ==
    ASSUME LevelsInv, SupportersTypeOK, LevelsKept
    PROVE  LevelsInv'
<1>1. Alone'
  BY DEF LevelsInv, LevelsKept, Alone, Busy
<1>2. GoneAreGone'
  BY DEF LevelsInv, LevelsKept, GoneAreGone
<1>3. ReadsAreCurrent'
  <2>1. ASSUME NEW a \in Actors, tx'[a].op \in Reads, tx'[a].u \notin raced
        PROVE  Current(tx[a])'
    <3>1. tx'[a] = tx[a]
      BY <2>1 DEF LevelsKept
    <3>2. PICK t : t = tx[a]
      OBVIOUS
    <3>3. t.u \in Users /\ Current(t)
      BY <2>1, <3>1, <3>2, ActorUser DEF LevelsInv, ReadsAreCurrent
    <3>4. Current(t)'
      BY <3>3 DEF Current, LevelsKept, IsRow
    <3>5. QED
      BY <3>1, <3>2, <3>4 DEF Current, IsRow
  <2>2. QED
    BY <2>1 DEF ReadsAreCurrent, LevelsKept
<1>4. LevelsAreBacked'
  BY DEF LevelsInv, LevelsKept, LevelsAreBacked
<1>5. QED
  BY <1>1, <1>2, <1>3, <1>4 DEF LevelsInv

LEMMA StartsLevels ==
    ASSUME LevelsInv, SupportersTypeOK, NEW a \in Actors, NEW t, Starts(a, t), UNCHANGED <<account, sub>>
    PROVE  LevelsInv'
<1>1. /\ tx[a] = NoTx /\ t \in Transactions /\ t.u \in Users /\ t.acc = account[t.u] /\ t.held = sub[t.u]
      /\ tx' = [tx EXCEPT ![a] = t]
  BY TransactionFacts DEF Starts
<1>2. tx'[a] = t /\ \A b \in Actors \ {a} : tx'[b] = tx[b]
  BY <1>1, ActorMoves
<1>3. /\ raced \subseteq raced'
      /\ \A b \in Actors \ {a} : tx[b] # NoTx /\ tx[b].u = t.u => t.u \in raced'
  BY DEF Starts
<1>4. Alone'
  <2>1. ASSUME NEW u \in Users, NEW b \in Actors \ {a}, t.u = u, Busy(b, u)'
        PROVE  u \in raced'
    <3>1. tx[b].op # "idle" /\ tx[b].u = t.u
      BY <1>2, <2>1 DEF Busy
    <3>2. tx[b] # NoTx
      BY <3>1, ActorFacts
    <3>3. QED
      BY <1>3, <2>1, <3>1, <3>2
  <2>2. ASSUME NEW u \in Users, NEW b \in Actors, NEW c \in Actors, b # c, Busy(b, u)', Busy(c, u)'
        PROVE  u \in raced'
    <3>1. CASE b = a
      BY <1>2, <2>1, <2>2, <3>1 DEF Busy
    <3>2. CASE c = a
      BY <1>2, <2>1, <2>2, <3>2 DEF Busy
    <3>3. CASE b # a /\ c # a
      BY <1>2, <1>3, <2>2, <3>3 DEF LevelsInv, Alone, Busy
    <3>4. QED
      BY <3>1, <3>2, <3>3
  <2>3. QED
    BY <2>2 DEF Alone
<1>5. GoneAreGone'
  BY <1>1, <1>2 DEF LevelsInv, GoneAreGone
<1>6. ReadsAreCurrent'
  <2>1. Current(t)
    <3>1. CASE t.acc.status = "absent"
      <4>1. account[t.u] = NoAccount /\ sub[t.u] = NoSub
        BY <1>1, <3>1 DEF LevelsInv, GoneAreGone
      <4>2. QED
        BY <3>1, <4>1 DEF Current, NoAccount
    <3>2. CASE t.acc.status # "absent"
      BY <1>1, <3>2 DEF Current, IsRow
    <3>3. QED
      BY <3>1, <3>2
  <2>2. ASSUME NEW b \in Actors, tx'[b].op \in Reads, tx'[b].u \notin raced'
        PROVE  Current(tx[b])'
    <3>1. PICK s : s = tx'[b]
      OBVIOUS
    <3>2. Current(s)
      <4>1. CASE b = a
        BY <1>2, <2>1, <3>1, <4>1
      <4>2. CASE b # a
        BY <1>2, <1>3, <2>2, <3>1, <4>2 DEF LevelsInv, ReadsAreCurrent
      <4>3. QED
        BY <4>1, <4>2
    <3>3. QED
      BY <3>1, <3>2 DEF Current, IsRow
  <2>3. QED
    BY <2>2 DEF ReadsAreCurrent
<1>7. LevelsAreBacked'
  BY <1>3 DEF LevelsInv, LevelsAreBacked
<1>8. QED
  BY <1>4, <1>5, <1>6, <1>7 DEF LevelsInv

\* An account that goes takes its tier, its floor and its subscription with it.
LEMMA CleanupLevels ==
    ASSUME LevelsInv, SupportersTypeOK, Cleanup
    PROVE  LevelsInv'
<1>1. PICK gone \in SUBSET Users :
         /\ account' = [u \in Users |-> IF u \in gone THEN NoAccount ELSE account[u]]
         /\ sub' = [u \in Users |-> IF u \in gone THEN NoSub ELSE sub[u]]
         /\ tx' = [a \in Actors |->
                IF tx[a].op \in Reads /\ tx[a].u \in gone THEN [tx[a] EXCEPT !.acc = NoAccount] ELSE tx[a]]
         /\ raced' = raced
  BY DEF Cleanup, history
<1>2. NoAccount.status = "absent" /\ NoAccount.level = 0 /\ NoAccount.granted = 0
  BY DEF NoAccount
<1>3. ASSUME NEW a \in Actors
      PROVE  /\ tx'[a].op = tx[a].op
             /\ tx[a].op # "idle" => tx'[a].u = tx[a].u
             /\ IF tx[a].op \in Reads /\ tx[a].u \in gone THEN tx'[a].acc = NoAccount ELSE tx'[a] = tx[a]
  <2>1. CASE tx[a].op \in Reads /\ tx[a].u \in gone
    <3>1. tx[a] \in Transactions /\ tx'[a] = [tx[a] EXCEPT !.acc = NoAccount]
      BY <1>1, <2>1, ActorUser
    <3>2. QED
      BY <2>1, <3>1, TransactionCut
  <2>2. CASE ~(tx[a].op \in Reads /\ tx[a].u \in gone)
    <3>1. tx'[a] = tx[a]
      BY <1>1, <2>2
    <3>2. QED
      BY <2>2, <3>1
  <2>3. QED
    BY <2>1, <2>2
<1>4. \A a \in Actors : tx[a].op \in Reads => tx[a].op # "idle"
  BY DEF Reads
<1>5. \A u \in gone : account'[u] = NoAccount /\ sub'[u] = NoSub
  BY <1>1
<1>6. \A u \in Users \ gone : account'[u] = account[u] /\ sub'[u] = sub[u]
  BY <1>1
<1>7. Alone'
  BY <1>1, <1>3 DEF LevelsInv, Alone, Busy
<1>8. GoneAreGone'
  <2>1. ASSUME NEW u \in Users, account'[u].status = "absent"
        PROVE  /\ account'[u] = NoAccount /\ sub'[u] = NoSub
               /\ \A a \in Actors : tx'[a].op \in Reads /\ tx'[a].u = u => tx'[a].acc.status = "absent"
    <3>1. CASE u \in gone
      BY <1>2, <1>3, <1>4, <1>5, <3>1
    <3>2. CASE u \notin gone
      BY <1>3, <1>4, <1>6, <2>1, <3>2 DEF LevelsInv, GoneAreGone
    <3>3. QED
      BY <3>1, <3>2
  <2>2. QED
    BY <2>1 DEF GoneAreGone
<1>9. ReadsAreCurrent'
  <2>1. ASSUME NEW a \in Actors, tx'[a].op \in Reads, tx'[a].u \notin raced
        PROVE  Current(tx[a])'
    <3>1. PICK s : s = tx'[a]
      OBVIOUS
    <3>2. tx[a].op \in Reads /\ tx[a].u = s.u /\ s.u \in Users /\ s.u \notin raced
      BY <1>3, <1>4, <2>1, <3>1, ActorUser
    <3>3. CASE s.u \in gone
      <4>1. s.acc.status = "absent"
        BY <1>2, <1>3, <3>1, <3>2, <3>3
      <4>2. account'[s.u].level = 0 /\ account'[s.u].granted = 0 /\ sub'[s.u] = NoSub
        BY <1>2, <1>5, <3>3
      <4>3. QED
        BY <3>1, <4>1, <4>2 DEF Current
    <3>4. CASE s.u \notin gone
      <4>1. s = tx[a]
        BY <1>3, <3>1, <3>2, <3>4
      <4>2. Current(s)
        BY <3>2, <4>1 DEF LevelsInv, ReadsAreCurrent
      <4>3. account'[s.u] = account[s.u] /\ sub'[s.u] = sub[s.u]
        BY <1>6, <3>2, <3>4
      <4>4. QED
        BY <3>1, <4>2, <4>3 DEF Current, IsRow
    <3>5. QED
      BY <3>3, <3>4
  <2>2. QED
    BY <1>1, <2>1 DEF ReadsAreCurrent
<1>10. LevelsAreBacked'
  <2>1. ASSUME NEW u \in Users, u \notin raced
        PROVE  /\ account'[u].level >= account'[u].granted
               /\ sub'[u] = NoSub => account'[u].level = account'[u].granted
    <3>1. CASE u \in gone
      BY <1>2, <1>5, <3>1
    <3>2. CASE u \notin gone
      BY <1>6, <2>1, <3>2 DEF LevelsInv, LevelsAreBacked
    <3>3. QED
      BY <3>1, <3>2
  <2>2. QED
    BY <1>1, <2>1 DEF LevelsAreBacked
<1>11. QED
  BY <1>7, <1>8, <1>9, <1>10 DEF LevelsInv

\* What a commit leaves of an account: gone if it was, and if it read what is there, backed.
LEMMA CommitLeaves ==
    ASSUME LevelsInv, SupportersTypeOK, NEW t \in Transactions, NEW d, Sound(t, d), ~Stale(t, d), Writes(t, d)
    PROVE  /\ account'[t.u].status = account[t.u].status
           /\ account'[t.u].status = "absent" /\ t.acc.status = "absent" =>
                account'[t.u] = account[t.u] /\ sub'[t.u] = NoSub
           /\ Current(t) /\ t.u \notin raced =>
                /\ account'[t.u].level >= account'[t.u].granted
                /\ sub'[t.u] = NoSub => account'[t.u].level = account'[t.u].granted
<1>1. PICK u \in Users, now \in AccountRow, acc \in AccountRow, new \in AccountRow :
         u = t.u /\ now = account[u] /\ acc = t.acc /\ new = d.acc
  BY TransactionFacts, RowsRead DEF Sound
<1>2. new.status = acc.status
  BY <1>1 DEF Sound
<1>3. account'[u] = (IF acc.status = "absent" THEN now ELSE Columns(now, acc, new))
  <2>1. account \in [Users -> AccountRow]
    BY DEF SupportersTypeOK
  <2>2. account' = [account EXCEPT ![u] = IF acc.status = "absent" THEN now ELSE Columns(now, acc, new)]
    BY <1>1 DEF Writes
  <2>3. QED
    BY <2>1, <2>2
<1>4. /\ Columns(now, acc, new).status = now.status
      /\ now.level = acc.level => Columns(now, acc, new).level = new.level
      /\ now.granted = acc.granted => Columns(now, acc, new).granted = new.granted
  BY <1>2, AccountWritten
<1>5. account'[u].status = now.status
  BY <1>3, <1>4
<1>6. PICK s : s = SubAfter(t, d)
  OBVIOUS
<1>7. sub'[u] = s
  <2>1. sub \in [Users -> SubRow \cup {NoSub}]
    BY DEF SupportersTypeOK
  <2>2. QED
    BY <1>1, <1>6, <2>1 DEF Writes
<1>8. /\ acc.status = "absent" /\ sub[u] = NoSub => s = NoSub
      /\ d.sub # NoSub /\ (IF t.held = NoSub THEN sub[u] = NoSub ELSE IsRow(u, t.held.id)) => s # NoSub
  BY <1>1, <1>6, SubLeft
<1>9. CASE acc.status = "absent"
  <2>1. account'[u] = now
    BY <1>3, <1>9
  <2>2. now.status = "absent" => sub'[u] = NoSub
    <3>1. now.status = "absent" => sub[u] = NoSub
      BY <1>1 DEF LevelsInv, GoneAreGone
    <3>2. QED
      BY <1>7, <1>8, <1>9, <3>1
  <2>3. Current(t) => now.level = 0 /\ now.granted = 0
    BY <1>1, <1>9 DEF Current
  <2>4. QED
    BY <1>1, <2>1, <2>2, <2>3
<1>10. CASE acc.status # "absent"
  <2>1. ASSUME Current(t), u \notin raced
        PROVE  /\ account'[u].level >= account'[u].granted
               /\ sub'[u] = NoSub => account'[u].level = account'[u].granted
    <3>1. /\ now.level = acc.level /\ now.granted = acc.granted
          /\ IF t.held = NoSub THEN sub[u] = NoSub ELSE IsRow(u, t.held.id)
      BY <1>1, <1>10, <2>1 DEF Current
    <3>2. account'[u].level = new.level /\ account'[u].granted = new.granted
      BY <1>3, <1>4, <1>10, <3>1
    <3>3. Backed(acc, t.held)
      <4>1. now.level >= now.granted /\ (sub[u] = NoSub => now.level = now.granted)
        BY <1>1, <2>1 DEF LevelsInv, LevelsAreBacked
      <4>2. QED
        BY <3>1, <4>1 DEF Backed
    <3>4. Backed(new, d.sub)
      BY <1>1, <3>3 DEF Sound
    <3>5. sub'[u] = NoSub => d.sub = NoSub
      BY <1>7, <1>8, <3>1
    <3>6. QED
      BY <3>2, <3>4, <3>5 DEF Backed
  <2>2. QED
    BY <1>1, <1>5, <1>10, <2>1
<1>11. QED
  BY <1>9, <1>10, <1>1, <1>5

LEMMA CommitLevels ==
    ASSUME LevelsInv, CodesInv, NEW a \in Actors, CommitTx(a)
    PROVE  LevelsInv'
<1>1. PICK t : t = tx[a]
  OBVIOUS
<1>2. SupportersTypeOK /\ ConfirmSound(a)
  BY DEF CodesInv
<1>3. /\ SupportersTypeOK' /\ t \in Transactions /\ raced' = raced /\ claimers' = claimers
      /\ tx'[a].op \notin Reads /\ (tx'[a].op # "idle" => tx'[a].u = t.u)
      /\ \A b \in Actors \ {a} : tx'[b] = tx[b]
      /\ pending' = IF t.op = "link" THEN [pending EXCEPT ![t.code].spent = TRUE] ELSE pending
      /\ \/ UNCHANGED <<account, sub, landed>>
         \/ ~ClaimedElsewhere(t) /\ \E d : Sound(t, d) /\ ~Stale(t, d) /\ Writes(t, d)
  BY <1>1, <1>2, CommitShape
<1>4. t.u \in Users /\ t.op \in Reads /\ t.op # "idle"
  BY <1>3, TransactionFacts
<1>5. CASE UNCHANGED <<account, sub, landed>>
  <2>1. LevelsKept
    BY <1>1, <1>3, <1>4, <1>5 DEF LevelsKept
  <2>2. QED
    BY <1>2, <2>1, KeptLevels
<1>6. CASE \E d : Sound(t, d) /\ ~Stale(t, d) /\ Writes(t, d)
  <2>1. PICK d : Sound(t, d) /\ ~Stale(t, d) /\ Writes(t, d)
    BY <1>6
  <2>2. /\ account'[t.u].status = account[t.u].status
        /\ account'[t.u].status = "absent" /\ t.acc.status = "absent" =>
             account'[t.u] = account[t.u] /\ sub'[t.u] = NoSub
        /\ Current(t) /\ t.u \notin raced =>
             /\ account'[t.u].level >= account'[t.u].granted
             /\ sub'[t.u] = NoSub => account'[t.u].level = account'[t.u].granted
    BY <1>2, <1>3, <2>1, CommitLeaves
  <2>3. \A v \in Users \ {t.u} : account'[v] = account[v] /\ sub'[v] = sub[v]
    <3>1. account \in [Users -> AccountRow] /\ sub \in [Users -> SubRow \cup {NoSub}]
      BY <1>2 DEF SupportersTypeOK
    <3>2. QED
      BY <2>1, <3>1 DEF Writes
  <2>4. Alone'
    <3>1. ASSUME NEW u \in Users, NEW b \in Actors, Busy(b, u)'
          PROVE  Busy(b, u)
      BY <1>1, <1>3, <1>4, <3>1 DEF Busy
    <3>2. QED
      BY <1>3, <3>1 DEF LevelsInv, Alone
  <2>5. GoneAreGone'
    <3>1. ASSUME NEW u \in Users, account'[u].status = "absent"
          PROVE  /\ account'[u] = NoAccount /\ sub'[u] = NoSub
                 /\ \A b \in Actors : tx'[b].op \in Reads /\ tx'[b].u = u => tx'[b].acc.status = "absent"
      <4>1. account[u].status = "absent"
        BY <2>2, <2>3, <3>1
      <4>2. /\ account[u] = NoAccount /\ sub[u] = NoSub
            /\ \A b \in Actors : tx[b].op \in Reads /\ tx[b].u = u => tx[b].acc.status = "absent"
        BY <4>1 DEF LevelsInv, GoneAreGone
      <4>3. \A b \in Actors : tx'[b].op \in Reads /\ tx'[b].u = u => tx'[b].acc.status = "absent"
        BY <1>3, <4>2
      <4>4. CASE u = t.u
        <5>1. t.acc.status = "absent"
          BY <1>1, <1>4, <4>2, <4>4
        <5>2. QED
          BY <2>2, <3>1, <4>2, <4>3, <4>4, <5>1
      <4>5. CASE u # t.u
        BY <2>3, <4>2, <4>3, <4>5
      <4>6. QED
        BY <4>4, <4>5
    <3>2. QED
      BY <3>1 DEF GoneAreGone
  <2>6. ReadsAreCurrent'
    <3>1. ASSUME NEW b \in Actors, tx'[b].op \in Reads, tx'[b].u \notin raced
          PROVE  Current(tx[b])'
      <4>1. PICK s : s = tx'[b]
        OBVIOUS
      <4>2. b # a /\ s = tx[b] /\ s.op \in Reads /\ s.u \notin raced
        BY <1>3, <3>1, <4>1
      <4>3. s.u \in Users /\ s.op # "idle" /\ Current(s)
        BY <1>2, <4>2, ActorUser DEF LevelsInv, ReadsAreCurrent
      <4>4. s.u # t.u
        BY <1>1, <1>4, <4>2, <4>3 DEF LevelsInv, Alone, Busy
      <4>5. account'[s.u] = account[s.u] /\ sub'[s.u] = sub[s.u]
        BY <2>3, <4>3, <4>4
      <4>6. QED
        BY <4>1, <4>3, <4>5 DEF Current, IsRow
    <3>2. QED
      BY <1>3, <3>1 DEF ReadsAreCurrent
  <2>7. LevelsAreBacked'
    <3>1. ASSUME NEW u \in Users, u \notin raced
          PROVE  /\ account'[u].level >= account'[u].granted
                 /\ sub'[u] = NoSub => account'[u].level = account'[u].granted
      <4>1. CASE u = t.u
        <5>1. Current(t)
          BY <1>1, <1>4, <3>1, <4>1 DEF LevelsInv, ReadsAreCurrent
        <5>2. QED
          BY <2>2, <3>1, <4>1, <5>1
      <4>2. CASE u # t.u
        BY <2>3, <3>1, <4>2 DEF LevelsInv, LevelsAreBacked
      <4>3. QED
        BY <4>1, <4>2
    <3>2. QED
      BY <1>3, <3>1 DEF LevelsAreBacked
  <2>8. QED
    BY <2>4, <2>5, <2>6, <2>7 DEF LevelsInv
<1>7. QED
  BY <1>3, <1>5, <1>6

LEMMA LevelsNext ==
    ASSUME LevelsInv, CodesInv, SupportersNext
    PROVE  LevelsInv'
<1>1. SupportersTypeOK /\ Job \in Actors /\ Workers \subseteq Actors
  BY DEF CodesInv, Actors
<1>2. ASSUME NEW p \in Patrons, NEW cents \in {0} \cup Amounts, Pledge(p, cents)
      PROVE  LevelsInv'
  <2>1. LevelsKept
    BY <1>2 DEF Pledge, LevelsKept, tables, history
  <2>2. QED
    BY <1>1, <2>1, KeptLevels
<1>3. ASSUME NEW p \in Patrons, NEW c \in Codes, Stage(c, p)
      PROVE  LevelsInv'
  <2>1. LevelsKept
    BY <1>3 DEF Stage, LevelsKept, history
  <2>2. QED
    BY <1>1, <2>1, KeptLevels
<1>4. ASSUME NEW c \in Codes, Expire(c)
      PROVE  LevelsInv'
  <2>1. LevelsKept
    BY <1>4 DEF Expire, LevelsKept, history
  <2>2. QED
    BY <1>1, <2>1, KeptLevels
<1>5. ASSUME NEW u \in Users, RunwayEnds(u)
      PROVE  LevelsInv'
  <2>1. PICK old \in SubRow : old = sub[u] /\ old # NoSub
    BY <1>1, <1>5 DEF SupportersTypeOK, RunwayEnds
  <2>2. PICK row : row = [old EXCEPT !.runway = "over"]
    OBVIOUS
  <2>3. row # NoSub /\ row.id = old.id
    BY <2>1, <2>2, RowAssumption DEF SubRow
  <2>4. sub'[u] = row /\ \A x \in Users \ {u} : sub'[x] = sub[x]
    <3>1. sub \in [Users -> SubRow \cup {NoSub}] /\ sub' = [sub EXCEPT ![u] = row]
      BY <1>1, <1>5, <2>1, <2>2 DEF SupportersTypeOK, RunwayEnds
    <3>2. QED
      BY <3>1
  <2>5. LevelsKept
    BY <1>5, <2>1, <2>3, <2>4 DEF RunwayEnds, LevelsKept, history
  <2>6. QED
    BY <1>1, <2>5, KeptLevels
<1>6. ASSUME NEW u \in Users, NEW from, NEW to \in {"member", "left", "marked"}, MoveOn(u, from, to)
      PROVE  LevelsInv'
  <2>1. PICK old \in AccountRow : old = account[u]
    BY <1>1, RowsRead
  <2>2. PICK row : row = [old EXCEPT !.status = to]
    OBVIOUS
  <2>3. row.status = to /\ row.level = old.level /\ row.granted = old.granted
    BY <2>1, <2>2 DEF AccountRow
  <2>4. account'[u] = row /\ \A x \in Users \ {u} : account'[x] = account[x]
    <3>1. account \in [Users -> AccountRow] /\ account' = [account EXCEPT ![u] = row]
      BY <1>1, <1>6, <2>1, <2>2 DEF SupportersTypeOK, MoveOn
    <3>2. QED
      BY <3>1
  <2>5. LevelsKept
    BY <1>6, <2>1, <2>3, <2>4 DEF MoveOn, LevelsKept, history
  <2>6. QED
    BY <1>1, <2>5, KeptLevels
<1>7. ASSUME NEW u \in Users, JoinRequest(u)
      PROVE  LevelsInv'
  <2>1. LevelsKept
    BY <1>7 DEF JoinRequest, LevelsKept, history
  <2>2. QED
    BY <1>1, <2>1, KeptLevels
<1>8. ASSUME NEW u \in Users, NEW c \in Codes, Claim(u, c)
      PROVE  LevelsInv'
  <2>1. LevelsKept
    BY <1>8 DEF Claim, LevelsKept
  <2>2. QED
    BY <1>1, <2>1, KeptLevels
<1>9. ASSUME NEW a \in Workers, NEW u \in Users, NEW c \in Codes, BeginLink(a, u, c)
      PROVE  LevelsInv'
  <2>1. \E t \in Transactions : Starts(a, t) /\ t.op = "link" /\ t.u = u /\ t.code = c
    BY <1>1, <1>9, BeginLinkTypes
  <2>2. a \in Actors /\ UNCHANGED <<account, sub>>
    BY <1>1, <1>9 DEF BeginLink, tables
  <2>3. QED
    BY <1>1, <2>1, <2>2, StartsLevels
<1>10. ASSUME NEW a \in Workers, NEW u \in Users, BeginUnlink(a, u)
       PROVE  LevelsInv'
  <2>1. \E t \in Transactions : Starts(a, t) /\ t.op = "unlink"
    BY <1>1, <1>10, BeginUnlinkTypes
  <2>2. a \in Actors /\ UNCHANGED <<account, sub>>
    BY <1>1, <1>10 DEF BeginUnlink, tables
  <2>3. QED
    BY <1>1, <2>1, <2>2, StartsLevels
<1>11. ASSUME NEW a \in Workers, NEW u \in Users, NEW level \in GrantLevels, BeginGrant(a, u, level)
       PROVE  LevelsInv'
  <2>1. \E t \in Transactions : Starts(a, t) /\ t.op = "grant"
    BY <1>1, <1>11, BeginGrantTypes
  <2>2. a \in Actors /\ UNCHANGED <<account, sub>>
    BY <1>1, <1>11 DEF BeginGrant, tables
  <2>3. QED
    BY <1>1, <2>1, <2>2, StartsLevels
<1>12. ASSUME NEW a \in Workers, NEW e \in events, Deliver(a, e)
       PROVE  LevelsInv'
  <2>1. UNCHANGED <<tx, raced>> \/ \E t \in Transactions : Starts(a, t) /\ t.op = "event"
    BY <1>1, <1>12, DeliverTypes
  <2>2. a \in Actors /\ UNCHANGED <<account, sub>>
    BY <1>1, <1>12 DEF Deliver, tables
  <2>3. CASE UNCHANGED <<tx, raced>>
    <3>1. LevelsKept
      BY <2>2, <2>3 DEF LevelsKept
    <3>2. QED
      BY <1>1, <3>1, KeptLevels
  <2>4. CASE \E t \in Transactions : Starts(a, t) /\ t.op = "event"
    BY <1>1, <2>2, <2>4, StartsLevels
  <2>5. QED
    BY <2>1, <2>3, <2>4
<1>13. ASSUME NEW a \in Actors, CommitTx(a)
       PROVE  LevelsInv'
  BY <1>13, CommitLevels
<1>14. ASSUME NEW a \in Actors, RollBack(a)
       PROVE  LevelsInv'
  <2>1. tx'[a] = NoTx /\ \A b \in Actors \ {a} : tx'[b] = tx[b]
    BY <1>1, <1>14, RollBackTypes
  <2>2. LevelsKept
    BY <1>14, <2>1 DEF RollBack, LevelsKept, NoTx, Reads, tables, history
  <2>3. QED
    BY <1>1, <2>2, KeptLevels
<1>15. ASSUME NEW a \in Actors, Drain(a)
       PROVE  LevelsInv'
  <2>1. /\ tx[a].op = "calls"
        /\ tx'[a] = NoTx \/ (tx'[a] \in Calling /\ tx'[a].u = tx[a].u)
        /\ \A b \in Actors \ {a} : tx'[b] = tx[b]
    BY <1>1, <1>15, DrainTypes
  <2>2. /\ tx[a].op # "idle" /\ tx'[a].op \notin Reads
        /\ tx'[a].op # "idle" => tx'[a].u = tx[a].u
    BY <2>1 DEF NoTx, Calling, Reads
  <2>3. LevelsKept
    BY <1>15, <2>1, <2>2 DEF Drain, LevelsKept, history
  <2>4. QED
    BY <1>1, <2>3, KeptLevels
<1>16. ASSUME Cleanup
       PROVE  LevelsInv'
  BY <1>1, <1>16, CleanupLevels
<1>17. ASSUME FetchRoster
       PROVE  LevelsInv'
  <2>1. LevelsKept
    BY <1>17 DEF FetchRoster, LevelsKept, tables, history
  <2>2. QED
    BY <1>1, <2>1, KeptLevels
<1>18. ASSUME Nominate
       PROVE  LevelsInv'
  <2>1. LevelsKept
    BY <1>18 DEF Nominate, LevelsKept, tables, history
  <2>2. QED
    BY <1>1, <2>1, KeptLevels
<1>19. ASSUME SweepStops
       PROVE  LevelsInv'
  <2>1. tx'[Job] = NoTx /\ \A b \in Actors \ {Job} : tx'[b] = tx[b]
    BY <1>1, <1>19, SweepStopsTypes
  <2>2. LevelsKept
    BY <1>19, <2>1 DEF SweepStops, LevelsKept, NoTx, Reads, tables, history
  <2>3. QED
    BY <1>1, <2>2, KeptLevels
<1>20. ASSUME NEW u \in Users, NEW c \in Codes, Process([u |-> u, id |-> c])
       PROVE  LevelsInv'
  <2>1. UNCHANGED <<tx, raced>> \/ \E t \in Transactions : Starts(Job, t) /\ t.op \in {"due", "sync"}
    BY <1>1, <1>20, ProcessTypes
  <2>2. UNCHANGED <<account, sub>>
    BY <1>20 DEF Process, tables
  <2>3. CASE UNCHANGED <<tx, raced>>
    <3>1. LevelsKept
      BY <2>2, <2>3 DEF LevelsKept
    <3>2. QED
      BY <1>1, <3>1, KeptLevels
  <2>4. CASE \E t \in Transactions : Starts(Job, t) /\ t.op \in {"due", "sync"}
    BY <1>1, <2>2, <2>4, StartsLevels
  <2>5. QED
    BY <2>1, <2>3, <2>4
<1>21. QED
  BY <1>2, <1>3, <1>4, <1>5, <1>6, <1>7, <1>8, <1>9, <1>10, <1>11, <1>12, <1>13, <1>14, <1>15, <1>16, <1>17,
     <1>18, <1>19, <1>20 DEF SupportersNext, RecordBlock, Onboard, RequestErasure

LEMMA LevelsInit == SupportersInit => LevelsInv
<1> SUFFICES ASSUME SupportersInit PROVE LevelsInv
  OBVIOUS
<1>1. /\ \A a \in Actors : tx[a].op = "idle"
      /\ \A u \in Users : account[u].status = "member" /\ account[u].level = 0 /\ account[u].granted = 0
  BY DEF SupportersInit, NoTx, NoAccount
<1>2. Alone /\ GoneAreGone /\ ReadsAreCurrent
  BY <1>1 DEF Alone, Busy, GoneAreGone, ReadsAreCurrent, Reads
<1>3. LevelsAreBacked
  BY <1>1 DEF LevelsAreBacked
<1>4. QED
  BY <1>2, <1>3 DEF LevelsInv

LEMMA LevelsStutter == LevelsInv /\ CodesInv /\ UNCHANGED supportersVars => LevelsInv'
<1> SUFFICES ASSUME LevelsInv, CodesInv, UNCHANGED supportersVars PROVE LevelsInv'
  OBVIOUS
<1>1. SupportersTypeOK /\ LevelsKept
  BY DEF CodesInv, LevelsKept, supportersVars
<1>2. QED
  BY <1>1, KeptLevels

\* An account one writer works on is as that writer read it, or is gone; one that is gone has
\* neither a tier nor a subscription, and nobody who read it takes it for there.
THEOREM LevelsCorrect == SupportersSpec => []LevelsInv
<1>1. LevelsInv /\ CodesInv /\ [SupportersNext]_supportersVars => LevelsInv'
  BY LevelsNext, LevelsStutter
<1>2. QED
  BY <1>1, LevelsInit, CodesCorrect, PTL DEF SupportersSpec

\* The five writers of a tier, each reading without a lock and writing the columns it changed, the
\* clean-up and Patreon's redeliveries: an account on which they do not overlap never falls below
\* its granted floor, and without a subscription it holds that floor.
THEOREM TiersAreBacked == SupportersSpec => []LevelsAreBacked
<1>1. LevelsInv => LevelsAreBacked
  BY DEF LevelsInv
<1>2. QED
  BY <1>1, LevelsCorrect, PTL

==============================================================================
