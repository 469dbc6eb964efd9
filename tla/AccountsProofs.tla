---------------------------- MODULE AccountsProofs ----------------------------
(***************************************************************************)
(* Proofs about Accounts, for any people, rows and meetings and any number *)
(* of days, taps and crashes, and about PatreonAccess for any web          *)
(* processes, patrons, pages and shapes, and any number of seeds,          *)
(* releases, boots, faults and changes.                                    *)
(***************************************************************************)
EXTENDS Accounts, PatreonAccess, FiniteSetTheorems, TLAPS

Record == [person : People \cup {NoRow}, status : UserStatus \cup Absent, left : Nat, created : Nat]
Ops == {"idle", "register", "promote", "erase", "block", "join_new", "leave_new", "join", "sweep", "demote", "select",
        "purge", "farewell", "collect"}
\* A task with rows it has loaded.
TaskSet == [op : Ops, seen : UNION {[R -> Record] : R \in SUBSET Rows}, meet : Meetings \cup {NoRow}]

\* What the table and the tasks are made of; a task that stores has a row loaded.
AccountsTyped ==
    /\ rows \in [Rows -> Record] /\ asked \subseteq Rows /\ told \subseteq Rows /\ now \in 0 .. LastDay
    /\ chat \in [People -> TaskSet] /\ card \in [People -> TaskSet]
    /\ sweep \in TaskSet /\ cleanup \in TaskSet /\ collect \in TaskSet
    /\ \A p \in People : chat[p].op \in {"promote", "erase", "block"} => DOMAIN chat[p].seen # {}
    /\ sweep.op = "sweep" => DOMAIN sweep.seen # {}

\* A row is kept for every registration under way.
RowsSuffice == Cardinality(Registering) + Cardinality(RegisteringFromCard) <= Cardinality(Fresh)

\* Who awaits deletion asked for it; the purge has chosen such rows, or rows that left, and says farewell
\* to those it has deleted.
RequestsAreTrue ==
    /\ \A r \in Rows : rows[r].status = "deletion_requested" => r \in asked
    /\ cleanup.op = "purge" => \A r \in DOMAIN cleanup.seen :
         rows[r].status # "unused" /\ (cleanup.seen[r].status = "deletion_requested" => r \in asked)
    /\ cleanup.op = "farewell" => \A r \in DOMAIN cleanup.seen : r \in asked /\ rows[r].status = "gone"

\* The sweep has chosen accounts nobody uses.
UnusedChosen ==
    collect.op = "collect" => \A r \in DOMAIN collect.seen : collect.seen[r].status \in {"onboarding", "joined_only"}

\* Whoever was found a MEMBER by a detection under way and has left by now left today.
LeftToday(t) ==
    \A r \in DOMAIN t.seen : t.seen[r].status = "member" /\ rows[r].status = "left" => rows[r].left = now
DetectionsAreFresh ==
    /\ \A p \in People : chat[p].op = "block" => LeftToday(chat[p])
    /\ sweep.op = "sweep" => LeftToday(sweep)

AccountsInv ==
    AccountsTyped /\ RowsSuffice /\ FarewellsAreTrue /\ RequestsAreTrue /\ UnusedChosen /\ DetectionsAreFresh

\* The constants and the rows the handlers write are of their sets.
LEMMA AccountSets ==
    /\ LastDay \in Nat /\ Never \in Nat /\ IsFiniteSet(People) /\ IsFiniteSet(Rows) /\ Rows # {}
    /\ Blank \in Record
    /\ \A p \in People, s \in UserStatus : now \in 0 .. LastDay => Row(p, s) \in Record
    /\ NextRow(Rows) \in Rows
    /\ <<>> \in UNION {[R -> Record] : R \in SUBSET Rows}
    /\ Idle \in TaskSet /\ Idle.op = "idle" /\ DOMAIN Idle.seen = {}
<1>1. LastDay \in Nat /\ Never \in Nat /\ IsFiniteSet(People) /\ IsFiniteSet(Rows) /\ Rows # {}
    BY AccountsAssumption DEF Never
<1>2. Blank \in Record
    BY <1>1 DEF Blank, Record, Absent
<1>3. \A p \in People, s \in UserStatus : now \in 0 .. LastDay => Row(p, s) \in Record
    BY <1>1 DEF Row, Record
<1>4. NextRow(Rows) \in Rows
    BY <1>1 DEF NextRow
<1>5. <<>> \in [{} -> Record]
    OBVIOUS
<1>6. <<>> \in UNION {[R -> Record] : R \in SUBSET Rows}
    BY <1>5
<1>7. Idle \in TaskSet /\ Idle.op = "idle" /\ DOMAIN Idle.seen = {}
    BY <1>6 DEF Idle, TaskSet, Ops
<1> QED
    BY <1>1, <1>2, <1>3, <1>4, <1>6, <1>7

\* A task that has just loaded the rows R.
LEMMA TaskLoads ==
    ASSUME rows \in [Rows -> Record], NEW op \in Ops, NEW R \in SUBSET Rows
    PROVE  /\ Task(op, R) \in TaskSet /\ Task(op, R).op = op /\ Task(op, R).seen = [r \in R |-> rows[r]]
           /\ \A m \in Meetings : [Task(op, R) EXCEPT !.meet = m] \in TaskSet /\ [Task(op, R) EXCEPT !.meet = m].op = op
<1>1. [r \in R |-> rows[r]] \in [R -> Record]
    OBVIOUS
<1>2. [r \in R |-> rows[r]] \in UNION {[S -> Record] : S \in SUBSET Rows}
    BY <1>1
<1>3. Task(op, R) \in TaskSet
    BY <1>2, AccountSets DEF Task, TaskSet
<1>4. Task(op, R).op = op /\ Task(op, R).seen = [r \in R |-> rows[r]]
    BY DEF Task, Idle
<1>5. ASSUME NEW m \in Meetings
      PROVE  [Task(op, R) EXCEPT !.meet = m] \in TaskSet /\ [Task(op, R) EXCEPT !.meet = m].op = op
    BY <1>3, <1>4 DEF TaskSet
<1> QED
    BY <1>3, <1>4, <1>5

\* What is stored of a row.
LEMMA StoredRow ==
    ASSUME rows \in [Rows -> Record], now \in 0 .. LastDay, NEW r \in Rows, NEW seen \in Record, NEW s \in UserStatus
    PROVE  /\ Stored(r, seen, SetStatus(seen, s)) \in Record
           /\ s # seen.status => Stored(r, seen, SetStatus(seen, s)).status = s
           /\ s = seen.status => Stored(r, seen, SetStatus(seen, s)) = rows[r]
           /\ s = "left" /\ s # seen.status => Stored(r, seen, SetStatus(seen, s)).left = now
<1> DEFINE new == SetStatus(seen, s)
<1>0. LastDay \in Nat /\ Never \in Nat /\ now \in Nat
    BY AccountSets
<1>1. new \in Record
    BY <1>0 DEF SetStatus, Record
<1>2. s # seen.status => new.status = s /\ (s = "left" => new.left = now)
    BY DEF SetStatus, Record
<1>3. s = seen.status => new = seen
    BY DEF SetStatus
<1>4. DOMAIN new = {"person", "status", "left", "created"} /\ rows[r] \in Record
      /\ DOMAIN rows[r] = {"person", "status", "left", "created"}
    BY <1>1 DEF Record
<1> HIDE DEF new
<1>5. Stored(r, seen, new) =
        [c \in {"person", "status", "left", "created"} |->
            IF new[c] # seen[c] \/ (c = "left" /\ new.status = "left" /\ seen.status # "left") THEN new[c] ELSE rows[r][c]]
    BY <1>4 DEF Stored
<1>6. Stored(r, seen, new) \in Record
    BY <1>1, <1>4, <1>5 DEF Record
<1>7. s # seen.status => Stored(r, seen, new).status = s
    BY <1>2, <1>5
<1>8. s = seen.status => Stored(r, seen, new) = rows[r]
    BY <1>3, <1>4, <1>5 DEF Record
<1>9. s = "left" /\ s # seen.status => Stored(r, seen, new).left = now
    BY <1>2, <1>5
<1> QED
    BY <1>6, <1>7, <1>8, <1>9 DEF new

\* What a task has loaded are rows.
LEMMA TaskRows ==
    ASSUME NEW t \in TaskSet
    PROVE  DOMAIN t.seen \in SUBSET Rows /\ \A r \in DOMAIN t.seen : t.seen[r] \in Record
<1>1. t.seen \in UNION {[R -> Record] : R \in SUBSET Rows}
    BY DEF TaskSet
<1>2. PICK R \in SUBSET Rows : t.seen \in [R -> Record]
    BY <1>1
<1> QED
    BY <1>2

\* The row a task stores, and what is stored of it, when no row it loaded went.
LEMMA LoadedRow ==
    ASSUME AccountsTyped, NEW t \in TaskSet, DOMAIN t.seen # {}
    PROVE  /\ Loaded(t) \in DOMAIN t.seen /\ Loaded(t) \in Rows /\ t.seen[Loaded(t)] \in Record
           /\ StillThere(t) => Exists(Loaded(t))
<1>1. Loaded(t) \in DOMAIN t.seen
    BY DEF Loaded
<1> QED
    BY <1>1, TaskRows DEF StillThere

\* The count of rows depends on who is unused, and on who registers.
LEMMA SufficesStill ==
    ASSUME AccountsTyped, RowsSuffice, rows' \in [Rows -> Record],
           \A r \in Rows : rows'[r].status = "unused" <=> rows[r].status = "unused",
           \A p \in People : chat'[p].op = "register" <=> chat[p].op = "register",
           \A p \in People : card'[p].op \in {"join_new", "leave_new"} <=> card[p].op \in {"join_new", "leave_new"}
    PROVE  RowsSuffice'
<1>1. Fresh' = Fresh
    BY DEF Fresh
<1>2. Registering' = Registering /\ RegisteringFromCard' = RegisteringFromCard
    BY DEF Registering, RegisteringFromCard
<1> QED
    BY <1>1, <1>2 DEF RowsSuffice

\* The rows and the registrations are finite in number.
LEMMA Counts ==
    /\ Cardinality(Fresh) \in Nat /\ Cardinality(Registering) \in Nat /\ Cardinality(RegisteringFromCard) \in Nat
    /\ IsFiniteSet(Fresh) /\ IsFiniteSet(Registering) /\ IsFiniteSet(RegisteringFromCard)
<1>1. Fresh \in SUBSET Rows /\ Registering \in SUBSET People /\ RegisteringFromCard \in SUBSET People
    BY DEF Fresh, Registering, RegisteringFromCard
<1> QED
    BY <1>1, AccountSets, FS_Subset, FS_CardinalityType

LEMMA AccountsInit == Init => AccountsInv
<1> SUFFICES ASSUME Init PROVE AccountsInv
    OBVIOUS
<1>1. rows \in [Rows -> Record] /\ \A r \in Rows : rows[r].status \in {"unused", "member"}
    <2>1. CASE Nobody
        BY <2>1, AccountSets DEF Nobody, Blank
    <2>2. CASE Somebody
        <3>1. PICK p \in People : rows = [x \in Rows |-> IF x = NextRow(Rows)
                                        THEN [Blank EXCEPT !.person = p, !.status = "member", !.created = 0] ELSE Blank]
            BY <2>2 DEF Somebody
        <3>2. /\ [Blank EXCEPT !.person = p, !.status = "member", !.created = 0] \in Record
              /\ [Blank EXCEPT !.person = p, !.status = "member", !.created = 0].status = "member"
            BY AccountSets DEF Blank, Record, UserStatus
        <3> QED
            BY <3>1, <3>2, AccountSets DEF Blank
    <2> QED
        BY <2>1, <2>2 DEF Init
<1>2. AccountsTyped
    BY <1>1, AccountSets DEF Init, AccountsTyped
<1>3. Registering = {} /\ RegisteringFromCard = {}
    BY AccountSets DEF Init, Registering, RegisteringFromCard
<1>4. RowsSuffice
    BY <1>3, Counts, FS_EmptySet DEF RowsSuffice
<1> QED
    BY <1>1, <1>2, <1>4, AccountSets
       DEF Init, AccountsInv, FarewellsAreTrue, RequestsAreTrue, UnusedChosen, DetectionsAreFresh

\* What the invariant is about.
core == <<rows, chat, card, sweep, cleanup, collect, asked, told, now>>

\* AccountsInv is about the rows, the tasks and the history alone.
LEMMA CoreKept == ASSUME AccountsInv, UNCHANGED core PROVE AccountsInv'
<1>1. AccountsTyped'
    BY DEF AccountsInv, AccountsTyped, core
<1>2. RowsSuffice'
    BY SufficesStill DEF AccountsInv, AccountsTyped, core
<1>3. FarewellsAreTrue' /\ RequestsAreTrue' /\ UnusedChosen'
    BY DEF AccountsInv, FarewellsAreTrue, RequestsAreTrue, UnusedChosen, core
<1>4. DetectionsAreFresh'
    BY DEF AccountsInv, DetectionsAreFresh, LeftToday, core
<1> QED
    BY <1>1, <1>2, <1>3, <1>4 DEF AccountsInv


\* What any step but the passing of a day may do to the table and the tasks.
RowMoves(r) ==
    \/ rows'[r] = rows[r]
    \/ /\ Exists(r) /\ rows'[r].status \in UserStatus \cup {"gone"}
       /\ rows'[r].status = "left" => rows'[r].left = now
       /\ rows'[r].status = "deletion_requested" => r \in asked'
    \/ rows[r].status = "unused" /\ rows'[r].status \in {"onboarding", "joined_only"}
ChatLoaded(p) == \A r \in DOMAIN chat[p].seen : chat[p].seen[r] = rows[r]
SweepLoaded == \A r \in DOMAIN sweep.seen : sweep.seen[r] = rows[r]

\* A step in which every row moves as some writer may move it, and the tasks know no more than they read.
LEMMA StepKeeps ==
    ASSUME AccountsInv, AccountsTyped', RowsSuffice',
           \A r \in Rows : RowMoves(r),
           asked \subseteq asked', now' = now,
           \A r \in told' : r \in told \/ (r \in asked /\ rows[r].status = "gone"),
           \A p \in People : chat'[p] = chat[p] \/ chat'[p].op # "block" \/ ChatLoaded(p)',
           sweep' = sweep \/ sweep'.op # "sweep" \/ SweepLoaded',
           cleanup' = cleanup \/ cleanup'.op \notin {"purge", "farewell"} \/ RequestsAreTrue',
           collect' = collect \/ collect'.op # "collect" \/ UnusedChosen'
    PROVE  AccountsInv'
<1>0. AccountsTyped /\ FarewellsAreTrue /\ RequestsAreTrue /\ UnusedChosen /\ DetectionsAreFresh
    BY DEF AccountsInv
<1>1. \A r \in Rows : rows[r].status = "gone" => rows'[r].status = "gone"
    BY DEF RowMoves, Exists, UserStatus
<1>2. \A r \in Rows : rows[r].status # "unused" => rows'[r].status # "unused"
    BY DEF RowMoves, Exists, UserStatus
<1>3. FarewellsAreTrue'
    <2> SUFFICES ASSUME NEW r \in told' PROVE r \in asked' /\ rows'[r].status = "gone"
        BY DEF FarewellsAreTrue
    <2>1. r \in Rows
        BY <1>0 DEF AccountsTyped
    <2>2. r \in asked /\ rows[r].status = "gone"
        BY <1>0 DEF FarewellsAreTrue
    <2> QED
        BY <1>1, <2>1, <2>2
<1>4. RequestsAreTrue'
    <2>1. \A r \in Rows : rows'[r].status = "deletion_requested" => r \in asked'
        BY <1>0 DEF RequestsAreTrue, RowMoves
    <2>2. DOMAIN cleanup.seen \subseteq Rows
        BY <1>0, TaskRows DEF AccountsTyped
    <2>3. ASSUME cleanup' = cleanup, cleanup.op = "purge", NEW r \in DOMAIN cleanup.seen
          PROVE  rows'[r].status # "unused" /\ (cleanup.seen[r].status = "deletion_requested" => r \in asked')
        BY <1>0, <1>2, <2>2, <2>3 DEF RequestsAreTrue
    <2>4. ASSUME cleanup' = cleanup, cleanup.op = "farewell", NEW r \in DOMAIN cleanup.seen
          PROVE  r \in asked' /\ rows'[r].status = "gone"
        BY <1>0, <1>1, <2>2, <2>4 DEF RequestsAreTrue
    <2>5. CASE cleanup' = cleanup
        BY <2>1, <2>3, <2>4, <2>5 DEF RequestsAreTrue
    <2>6. CASE cleanup'.op \notin {"purge", "farewell"}
        BY <2>1, <2>6 DEF RequestsAreTrue
    <2> QED
        BY <2>5, <2>6
<1>5. UnusedChosen'
    BY <1>0 DEF UnusedChosen
<1>6. ASSUME NEW t \in TaskSet, LeftToday(t)
      PROVE  \A r \in DOMAIN t.seen : t.seen[r].status = "member" /\ rows'[r].status = "left" => rows'[r].left = now
    <2> SUFFICES ASSUME NEW r \in DOMAIN t.seen, t.seen[r].status = "member", rows'[r].status = "left"
                 PROVE  rows'[r].left = now
        OBVIOUS
    <2>1. r \in Rows
        BY TaskRows
    <2> QED
        BY <1>6, <2>1 DEF LeftToday, RowMoves
<1>8. ASSUME NEW p \in People, chat'[p].op = "block"
      PROVE  \A r \in DOMAIN chat'[p].seen :
                chat'[p].seen[r].status = "member" /\ rows'[r].status = "left" => rows'[r].left = now
    <2>1. CASE chat'[p] = chat[p]
        <3>1. chat[p] \in TaskSet /\ LeftToday(chat[p])
            BY <1>0, <1>8, <2>1 DEF AccountsTyped, DetectionsAreFresh
        <3> QED
            BY <1>6, <2>1, <3>1
    <2>2. CASE ChatLoaded(p)'
        BY <2>2 DEF ChatLoaded
    <2> QED
        BY <1>8, <2>1, <2>2
<1>9. ASSUME sweep'.op = "sweep"
      PROVE  \A r \in DOMAIN sweep'.seen :
                sweep'.seen[r].status = "member" /\ rows'[r].status = "left" => rows'[r].left = now
    <2>1. CASE sweep' = sweep
        <3>1. sweep \in TaskSet /\ LeftToday(sweep)
            BY <1>0, <1>9, <2>1 DEF AccountsTyped, DetectionsAreFresh
        <3> QED
            BY <1>6, <2>1, <3>1
    <2>2. CASE SweepLoaded'
        BY <2>2 DEF SweepLoaded
    <2> QED
        BY <1>9, <2>1, <2>2
<1>10. DetectionsAreFresh'
    BY <1>8, <1>9 DEF DetectionsAreFresh, LeftToday
<1> QED
    BY <1>3, <1>4, <1>5, <1>10 DEF AccountsInv

\* A handler in the bot's chat, for a registration or with a row it has loaded.
LEMMA ChatLoads ==
    ASSUME AccountsInv, NEW p \in People, chat[p].op = "idle", UNCHANGED <<rows, card, sweep, cleanup, collect, asked, told, now>>,
           \/ RowLeft /\ chat' = [chat EXCEPT ![p] = Task("register", {})]
           \/ \E op \in {"promote", "erase", "block"}, r \in Rows : chat' = [chat EXCEPT ![p] = Task(op, {r})]
    PROVE  AccountsInv'
<1>0. AccountsTyped /\ rows \in [Rows -> Record] /\ chat \in [People -> TaskSet]
    BY DEF AccountsInv, AccountsTyped
<1>1. PICK op \in {"register", "promote", "erase", "block"}, R \in SUBSET Rows :
        /\ chat' = [chat EXCEPT ![p] = Task(op, R)] /\ (op = "register" => RowLeft) /\ (op # "register" => R # {})
    <2>1. \A r \in Rows : {r} \in SUBSET Rows /\ {r} # {}
        OBVIOUS
    <2> QED
        BY <2>1
<1>2. op \in Ops
    BY DEF Ops
<1>3. Task(op, R) \in TaskSet /\ Task(op, R).op = op /\ Task(op, R).seen = [r \in R |-> rows[r]]
    BY <1>0, <1>2, TaskLoads
<1>4. chat' \in [People -> TaskSet] /\ chat'[p] = Task(op, R) /\ \A q \in People : q # p => chat'[q] = chat[q]
    BY <1>0, <1>1, <1>3
<1>5. AccountsTyped'
    BY <1>0, <1>1, <1>3, <1>4 DEF AccountsTyped
<1>6. RowsSuffice'
    <2>1. CASE op = "register"
        <3>1. Registering' = Registering \cup {p} /\ p \notin Registering
            BY <1>3, <1>4, <2>1 DEF Registering
        <3>2. Cardinality(Registering') = Cardinality(Registering) + 1
            BY <3>1, Counts, FS_AddElement
        <3>3. Fresh' = Fresh /\ RegisteringFromCard' = RegisteringFromCard
            BY DEF Fresh, RegisteringFromCard
        <3>4. Cardinality(Registering) + Cardinality(RegisteringFromCard) < Cardinality(Fresh)
            BY <1>1, <2>1, Counts DEF RowLeft
        <3> QED
            BY <3>2, <3>3, <3>4, Counts DEF RowsSuffice
    <2>2. CASE op # "register"
        <3>1. \A q \in People : chat'[q].op = "register" <=> chat[q].op = "register"
            BY <1>3, <1>4, <2>2
        <3> QED
            BY <1>0, <3>1, SufficesStill DEF AccountsInv
    <2> QED
        BY <2>1, <2>2
<1>7. ChatLoaded(p)'
    BY <1>3, <1>4 DEF ChatLoaded
<1>8. \A r \in Rows : RowMoves(r)
    BY DEF RowMoves
<1>9. ASSUME NEW q \in People
      PROVE  chat'[q] = chat[q] \/ chat'[q].op # "block" \/ ChatLoaded(q)'
    <2>1. CASE q = p
        BY <1>7, <2>1
    <2>2. CASE q # p
        BY <1>4, <2>2
    <2> QED
        BY <2>1, <2>2
<1>10. asked \subseteq asked' /\ (\A r \in told' : r \in told \/ (r \in asked /\ rows[r].status = "gone"))
    OBVIOUS
<1> QED
    BY <1>5, <1>6, <1>8, <1>9, <1>10, StepKeeps

\* A tap on a card, for a registration or with a row it has loaded.
LEMMA CardLoads ==
    ASSUME AccountsInv, NEW p \in People, NEW m \in Meetings, card[p].op = "idle",
           UNCHANGED <<rows, chat, sweep, cleanup, collect, asked, told, now>>,
           NEW op \in {"join_new", "leave_new", "join"}, NEW R \in SUBSET Rows, op # "join" => RowLeft,
           card' = [card EXCEPT ![p] = [Task(op, R) EXCEPT !.meet = m]]
    PROVE  AccountsInv'
<1>0. AccountsTyped /\ rows \in [Rows -> Record] /\ card \in [People -> TaskSet]
    BY DEF AccountsInv, AccountsTyped
<1> DEFINE t == [Task(op, R) EXCEPT !.meet = m]
<1>1. t \in TaskSet /\ t.op = op
    <2>1. op \in Ops
        BY DEF Ops
    <2>2. Task(op, R) \in TaskSet /\ Task(op, R).op = op
        BY <1>0, <2>1, TaskLoads
    <2> QED
        BY <2>2 DEF TaskSet
<1> HIDE DEF t
<1>2. card' \in [People -> TaskSet] /\ card'[p] = t /\ \A q \in People : q # p => card'[q] = card[q]
    BY <1>0, <1>1 DEF t
<1>3. AccountsTyped'
    BY <1>0, <1>2 DEF AccountsTyped
<1>4. RowsSuffice'
    <2>1. CASE op # "join"
        <3>1. RegisteringFromCard' = RegisteringFromCard \cup {p} /\ p \notin RegisteringFromCard
            BY <1>1, <1>2, <2>1 DEF RegisteringFromCard
        <3>2. Cardinality(RegisteringFromCard') = Cardinality(RegisteringFromCard) + 1
            BY <3>1, Counts, FS_AddElement
        <3>3. Fresh' = Fresh /\ Registering' = Registering
            BY DEF Fresh, Registering
        <3>4. Cardinality(Registering) + Cardinality(RegisteringFromCard) < Cardinality(Fresh)
            BY <2>1, Counts DEF RowLeft
        <3> QED
            BY <3>2, <3>3, <3>4, Counts DEF RowsSuffice
    <2>2. CASE op = "join"
        <3>1. \A q \in People : card'[q].op \in {"join_new", "leave_new"} <=> card[q].op \in {"join_new", "leave_new"}
            BY <1>1, <1>2, <2>2
        <3> QED
            BY <1>0, <3>1, SufficesStill DEF AccountsInv
    <2> QED
        BY <2>1, <2>2
<1>5. \A r \in Rows : RowMoves(r)
    BY DEF RowMoves
<1>6. asked \subseteq asked' /\ (\A r \in told' : r \in told \/ (r \in asked /\ rows[r].status = "gone"))
    OBVIOUS
<1> QED
    BY <1>3, <1>4, <1>5, <1>6, StepKeeps

\* A task that still finds the row it has loaded gives it a status.
LEMMA RowStored ==
    ASSUME AccountsInv, NEW t \in TaskSet, DOMAIN t.seen # {}, StillThere(t), NEW s \in UserStatus,
           s = "deletion_requested" => Loaded(t) \in asked',
           rows' = [rows EXCEPT ![Loaded(t)] = Stored(Loaded(t), t.seen[Loaded(t)], SetStatus(t.seen[Loaded(t)], s))]
    PROVE  rows' \in [Rows -> Record] /\ \A r \in Rows : RowMoves(r) /\ (rows'[r].status = "unused" <=> rows[r].status = "unused")
<1> DEFINE x == Stored(Loaded(t), t.seen[Loaded(t)], SetStatus(t.seen[Loaded(t)], s))
<1>0. AccountsTyped /\ rows \in [Rows -> Record] /\ now \in 0 .. LastDay
    BY DEF AccountsInv, AccountsTyped
<1>1. Loaded(t) \in Rows /\ t.seen[Loaded(t)] \in Record /\ Exists(Loaded(t))
    BY <1>0, LoadedRow
<1>2. /\ x \in Record /\ (x.status = s \/ x = rows[Loaded(t)])
      /\ x.status = "left" => x.left = now \/ x = rows[Loaded(t)]
    <2>1. CASE s = t.seen[Loaded(t)].status
        BY <1>0, <1>1, <2>1, StoredRow
    <2>2. CASE s # t.seen[Loaded(t)].status
        BY <1>0, <1>1, <2>2, StoredRow
    <2> QED
        BY <2>1, <2>2
<1> HIDE DEF x
<1>3. rows' = [rows EXCEPT ![Loaded(t)] = x]
    BY DEF x
<1>4. rows' \in [Rows -> Record] /\ rows'[Loaded(t)] = x /\ \A r \in Rows : r # Loaded(t) => rows'[r] = rows[r]
    BY <1>0, <1>1, <1>2, <1>3
<1>5. RowMoves(Loaded(t)) /\ rows'[Loaded(t)].status # "unused" /\ rows[Loaded(t)].status # "unused"
    BY <1>1, <1>2, <1>4 DEF RowMoves, Exists, UserStatus
<1>6. ASSUME NEW r \in Rows, r # Loaded(t) PROVE RowMoves(r) /\ rows'[r] = rows[r]
    BY <1>4, <1>6 DEF RowMoves
<1> QED
    BY <1>4, <1>5, <1>6

\* An answer, a request or a block ends, whatever it stored.
LEMMA ChatFinishes ==
    ASSUME AccountsInv, NEW p \in People, chat[p].op \in {"promote", "erase", "block"}, chat' = [chat EXCEPT ![p] = Idle],
           UNCHANGED <<card, sweep, cleanup, collect, told, now>>, asked \subseteq asked', asked' \subseteq Rows,
           rows' \in [Rows -> Record], \A r \in Rows : RowMoves(r),
           \A r \in Rows : rows'[r].status = "unused" <=> rows[r].status = "unused"
    PROVE  AccountsInv'
<1>0. AccountsTyped /\ RowsSuffice /\ FarewellsAreTrue /\ chat \in [People -> TaskSet]
    BY DEF AccountsInv, AccountsTyped
<1>1. Idle \in TaskSet /\ Idle.op = "idle"
    BY AccountSets
<1>2. chat' \in [People -> TaskSet] /\ chat'[p] = Idle /\ \A q \in People : q # p => chat'[q] = chat[q]
    BY <1>0, <1>1
<1>3. AccountsTyped'
    BY <1>0, <1>1, <1>2 DEF AccountsTyped
<1>4. \A q \in People : chat'[q].op = "register" <=> chat[q].op = "register"
    BY <1>1, <1>2
<1>5. RowsSuffice'
    BY <1>0, <1>4, SufficesStill
<1>6. \A q \in People : chat'[q] = chat[q] \/ chat'[q].op # "block"
    BY <1>1, <1>2
<1>7. \A r \in told' : r \in told \/ (r \in asked /\ rows[r].status = "gone")
    OBVIOUS
<1> QED
    BY <1>3, <1>5, <1>6, <1>7, StepKeeps

LEMMA RowsStay == ASSUME AccountsInv, rows' = rows
                  PROVE  /\ rows' \in [Rows -> Record] /\ \A r \in Rows : RowMoves(r)
                         /\ \A r \in Rows : rows'[r].status = "unused" <=> rows[r].status = "unused"
    BY DEF AccountsInv, AccountsTyped, RowMoves

\* The private chat of one person: onboarding, a request to be erased, a block.
LEMMA InChatKeeps == ASSUME AccountsInv, NEW p \in People, CompleteOnboarding(p) \/ RequestErasure(p) \/ RecordBlock(p)
                     PROVE  AccountsInv'
<1>0. AccountsTyped /\ chat[p] \in TaskSet /\ asked \subseteq Rows /\ rows \in [Rows -> Record]
    BY DEF AccountsInv, AccountsTyped
<1>1. CASE CompleteOnboarding(p)
    <2>1. DOMAIN chat[p].seen # {}
        BY <1>0, <1>1 DEF CompleteOnboarding, AccountsTyped
    <2>2. CASE StillThere(chat[p])
        <3>1. rows' = [rows EXCEPT ![Loaded(chat[p])] =
                          Stored(Loaded(chat[p]), chat[p].seen[Loaded(chat[p])], SetStatus(chat[p].seen[Loaded(chat[p])], "member"))]
            BY <1>1, <2>2 DEF CompleteOnboarding
        <3>2. rows' \in [Rows -> Record] /\ \A r \in Rows : RowMoves(r) /\ (rows'[r].status = "unused" <=> rows[r].status = "unused")
            BY <1>0, <2>1, <2>2, <3>1, RowStored DEF UserStatus
        <3> QED
            BY <1>0, <1>1, <3>2, ChatFinishes DEF CompleteOnboarding, KeepWorld
    <2>3. CASE ~StillThere(chat[p])
        <3>1. rows' = rows
            BY <1>1, <2>3 DEF CompleteOnboarding
        <3> QED
            BY <1>0, <1>1, <3>1, RowsStay, ChatFinishes DEF CompleteOnboarding, KeepWorld
    <2> QED
        BY <2>2, <2>3
<1>2. CASE RequestErasure(p)
    <2>1. DOMAIN chat[p].seen # {}
        BY <1>0, <1>2 DEF RequestErasure, AccountsTyped
    <2>2. CASE StillThere(chat[p])
        <3>1. /\ rows' = [rows EXCEPT ![Loaded(chat[p])] = Stored(Loaded(chat[p]), chat[p].seen[Loaded(chat[p])],
                                                    SetStatus(chat[p].seen[Loaded(chat[p])], "deletion_requested"))]
              /\ asked' = asked \cup {Loaded(chat[p])}
            BY <1>2, <2>2 DEF RequestErasure
        <3>2. rows' \in [Rows -> Record] /\ \A r \in Rows : RowMoves(r) /\ (rows'[r].status = "unused" <=> rows[r].status = "unused")
            BY <1>0, <2>1, <2>2, <3>1, RowStored DEF UserStatus
        <3>3. asked \subseteq asked' /\ asked' \subseteq Rows
            BY <1>0, <2>1, <3>1, LoadedRow
        <3> QED
            BY <1>0, <1>2, <3>2, <3>3, ChatFinishes DEF RequestErasure, KeepWorld
    <2>3. CASE ~StillThere(chat[p])
        <3>1. rows' = rows /\ asked' = asked
            BY <1>2, <2>3 DEF RequestErasure
        <3> QED
            BY <1>0, <1>2, <3>1, RowsStay, ChatFinishes DEF RequestErasure, KeepWorld
    <2> QED
        BY <2>2, <2>3
<1>3. CASE RecordBlock(p)
    <2> DEFINE r == Loaded(chat[p])
    <2>0. asked' = asked /\ DOMAIN chat[p].seen # {}
        BY <1>0, <1>3 DEF RecordBlock, AccountsTyped, people
    <2>1. CASE StillThere(chat[p]) /\ chat[p].seen[r].status = "member"
        <3>1. rows' = [rows EXCEPT ![r] = Stored(r, chat[p].seen[r], SetStatus(chat[p].seen[r], "left"))]
            BY <1>3, <2>1 DEF RecordBlock, MarkInactive
        <3>2. rows' \in [Rows -> Record] /\ \A x \in Rows : RowMoves(x) /\ (rows'[x].status = "unused" <=> rows[x].status = "unused")
            BY <1>0, <2>0, <2>1, <3>1, RowStored DEF UserStatus
        <3> QED
            BY <1>0, <1>3, <2>0, <3>2, ChatFinishes DEF RecordBlock, KeepWorld
    <2>2. CASE ~(StillThere(chat[p]) /\ chat[p].seen[r].status = "member")
        <3>1. rows' = rows
            BY <1>0, <1>3, <2>2 DEF RecordBlock, MarkInactive
        <3> QED
            BY <1>0, <1>3, <2>0, <3>1, RowsStay, ChatFinishes DEF RecordBlock, KeepWorld
    <2> QED
        BY <2>1, <2>2
<1> QED
    BY <1>1, <1>2, <1>3

\* A delivery that found somebody unreachable marks a member as left.
LEMMA MarkUnreachableKeeps == ASSUME AccountsInv, MarkUnreachable PROVE AccountsInv'
<1> DEFINE r == Loaded(sweep)
<1>0. AccountsTyped /\ RowsSuffice /\ sweep \in TaskSet /\ DOMAIN sweep.seen # {} /\ rows \in [Rows -> Record]
    BY DEF AccountsInv, AccountsTyped, MarkUnreachable
<1>1. /\ sweep' = Idle /\ Idle \in TaskSet /\ Idle.op = "idle"
      /\ UNCHANGED <<chat, card, cleanup, collect, asked, told, now>>
    <2>1. sweep' = Idle /\ UNCHANGED <<chat, card, cleanup, collect, told, now>>
        BY DEF MarkUnreachable, KeepPeople
    <2>2. asked' = asked
        BY DEF MarkUnreachable, KeepPeople, people
    <2> QED
        BY <2>1, <2>2, AccountSets
<1>2. /\ rows' \in [Rows -> Record]
      /\ \A x \in Rows : RowMoves(x) /\ (rows'[x].status = "unused" <=> rows[x].status = "unused")
    <2>1. CASE StillThere(sweep) /\ sweep.seen[r].status = "member"
        <3>1. rows' = [rows EXCEPT ![r] = Stored(r, sweep.seen[r], SetStatus(sweep.seen[r], "left"))]
            BY <2>1 DEF MarkUnreachable, MarkInactive
        <3> QED
            BY <1>0, <2>1, <3>1, RowStored DEF UserStatus
    <2>2. CASE ~(StillThere(sweep) /\ sweep.seen[r].status = "member")
        <3>1. rows' = rows
            BY <1>0, <2>2 DEF MarkUnreachable, MarkInactive
        <3> QED
            BY <3>1, RowsStay
    <2> QED
        BY <2>1, <2>2
<1>3. AccountsTyped'
    BY <1>0, <1>1, <1>2 DEF AccountsTyped
<1>4. RowsSuffice'
    BY <1>0, <1>1, <1>2, SufficesStill
<1>5. \A x \in told' : x \in told \/ (x \in asked /\ rows[x].status = "gone")
    BY <1>1
<1> QED
    BY <1>1, <1>2, <1>3, <1>4, <1>5, StepKeeps

\* A registration takes a row that was kept for it.
LEMMA RowInserted ==
    ASSUME AccountsInv, NEW p \in People, NEW s \in {"onboarding", "joined_only"}, Fresh # {}, rows' = Inserted(p, s)
    PROVE  /\ rows' \in [Rows -> Record] /\ \A r \in Rows : RowMoves(r)
           /\ NextRow(Fresh) \in Fresh /\ Fresh' = Fresh \ {NextRow(Fresh)}
           /\ Cardinality(Fresh') = Cardinality(Fresh) - 1
<1>0. rows \in [Rows -> Record] /\ now \in 0 .. LastDay
    BY DEF AccountsInv, AccountsTyped
<1>1. NextRow(Fresh) \in Fresh
    BY DEF NextRow
<1>2. Row(p, s) \in Record /\ Row(p, s).status = s
    BY <1>0, AccountSets DEF UserStatus, Row
<1>3. /\ rows' \in [Rows -> Record] /\ rows'[NextRow(Fresh)] = Row(p, s)
      /\ \A r \in Rows : r # NextRow(Fresh) => rows'[r] = rows[r]
    BY <1>0, <1>1, <1>2 DEF Inserted, Fresh
<1>4. \A r \in Rows : RowMoves(r)
    BY <1>1, <1>2, <1>3 DEF RowMoves, Fresh
<1>5. Fresh' = Fresh \ {NextRow(Fresh)}
    BY <1>1, <1>2, <1>3 DEF Fresh
<1>6. Cardinality(Fresh') = Cardinality(Fresh) - 1
    BY <1>1, <1>5, Counts, FS_RemoveElement
<1> QED
    BY <1>1, <1>3, <1>4, <1>5, <1>6

\* A first contact takes a row that is not used yet.
LEMMA RegisterKeeps == ASSUME AccountsInv, NEW p \in People, Register(p) PROVE AccountsInv'
<1>0. AccountsTyped /\ RowsSuffice /\ chat \in [People -> TaskSet] /\ Idle \in TaskSet /\ Idle.op = "idle"
    BY AccountSets DEF AccountsInv, AccountsTyped
<1>1. /\ chat[p].op = "register" /\ rows' = Inserted(p, "onboarding") /\ chat' = [chat EXCEPT ![p] = Idle]
      /\ UNCHANGED <<card, sweep, cleanup, collect, asked, told, now>>
    BY DEF Register, KeepWorld
<1>2. chat' \in [People -> TaskSet] /\ chat'[p] = Idle /\ \A q \in People : q # p => chat'[q] = chat[q]
    BY <1>0, <1>1
<1>3. p \in Registering /\ Registering' = Registering \ {p}
    BY <1>0, <1>1, <1>2 DEF Registering
<1>4. Cardinality(Registering') = Cardinality(Registering) - 1
    BY <1>3, Counts, FS_RemoveElement
<1>5. Cardinality(Registering) # 0
    BY <1>3, Counts, FS_EmptySet
<1>6. Fresh # {}
    BY <1>0, <1>5, Counts, FS_EmptySet DEF RowsSuffice
<1>7. /\ rows' \in [Rows -> Record] /\ (\A r \in Rows : RowMoves(r))
      /\ Cardinality(Fresh') = Cardinality(Fresh) - 1
    BY <1>1, <1>6, RowInserted
<1>8. RowsSuffice'
    <2>1. RegisteringFromCard' = RegisteringFromCard
        BY <1>1 DEF RegisteringFromCard
    <2> QED
        BY <1>0, <1>4, <1>7, <2>1, Counts DEF RowsSuffice
<1>9. AccountsTyped'
    BY <1>0, <1>1, <1>2, <1>7 DEF AccountsTyped
<1>10. \A q \in People : chat'[q] = chat[q] \/ chat'[q].op # "block"
    BY <1>0, <1>2
<1>11. \A r \in told' : r \in told \/ (r \in asked /\ rows[r].status = "gone")
    BY <1>1
<1> QED
    BY <1>1, <1>7, <1>8, <1>9, <1>10, <1>11, StepKeeps

\* A tap on a card elsewhere registers, joins or leaves.
LEMMA OnCardKeeps == ASSUME AccountsInv, NEW p \in People, OnCard(p) PROVE AccountsInv'
<1>0. AccountsTyped /\ RowsSuffice /\ card \in [People -> TaskSet] /\ Idle \in TaskSet /\ Idle.op = "idle"
    BY AccountSets DEF AccountsInv, AccountsTyped
<1>1. card' = [card EXCEPT ![p] = Idle] /\ UNCHANGED <<chat, sweep, cleanup, collect, asked, told, now>>
    <2>1. card' = [card EXCEPT ![p] = Idle] /\ UNCHANGED <<chat, sweep, cleanup, collect, told, now>>
        BY DEF OnCard, RegisterFromCard, Join, KeepWorld
    <2>2. asked' = asked
        BY DEF OnCard, RegisterFromCard, Join, people
    <2> QED
        BY <2>1, <2>2
<1>2. card' \in [People -> TaskSet] /\ card'[p] = Idle /\ \A q \in People : q # p => card'[q] = card[q]
    BY <1>0, <1>1
<1>3. \A r \in told' : r \in told \/ (r \in asked /\ rows[r].status = "gone")
    BY <1>1
<1>4. CASE RegisterFromCard(p) /\ rows' = Inserted(p, "joined_only")
    <2>1. p \in RegisteringFromCard /\ RegisteringFromCard' = RegisteringFromCard \ {p}
        BY <1>0, <1>2, <1>4 DEF RegisteringFromCard, RegisterFromCard
    <2>2. Cardinality(RegisteringFromCard') = Cardinality(RegisteringFromCard) - 1
        BY <2>1, Counts, FS_RemoveElement
    <2>3. Cardinality(RegisteringFromCard) # 0
        BY <2>1, Counts, FS_EmptySet
    <2>4. Fresh # {}
        BY <1>0, <2>3, Counts, FS_EmptySet DEF RowsSuffice
    <2>5. /\ rows' \in [Rows -> Record] /\ (\A r \in Rows : RowMoves(r))
          /\ Cardinality(Fresh') = Cardinality(Fresh) - 1
        BY <1>4, <2>4, RowInserted
    <2>6. RowsSuffice'
        <3>1. Registering' = Registering
            BY <1>1 DEF Registering
        <3> QED
            BY <1>0, <2>2, <2>5, <3>1, Counts DEF RowsSuffice
    <2>7. AccountsTyped'
        BY <1>0, <1>1, <1>2, <2>5 DEF AccountsTyped
    <2> QED
        BY <1>1, <1>3, <2>5, <2>6, <2>7, StepKeeps
\* A place freed by a registration that is undone is kept free.
<1>5. CASE rows' = rows
    <2>1. /\ rows' \in [Rows -> Record] /\ (\A r \in Rows : RowMoves(r)) /\ Fresh' = Fresh
        BY <1>5, RowsStay DEF Fresh
    <2>2. AccountsTyped'
        BY <1>0, <1>1, <1>2, <2>1 DEF AccountsTyped
    <2>3. RegisteringFromCard' \subseteq RegisteringFromCard /\ Registering' = Registering
        BY <1>0, <1>1, <1>2 DEF RegisteringFromCard, Registering
    <2>4. /\ Cardinality(RegisteringFromCard') <= Cardinality(RegisteringFromCard)
          /\ Cardinality(RegisteringFromCard') \in Nat
        BY <2>3, Counts, FS_Subset, FS_CardinalityType
    <2>5. RowsSuffice'
        BY <1>0, <2>1, <2>3, <2>4, Counts DEF RowsSuffice
    <2> QED
        BY <1>1, <1>3, <2>1, <2>2, <2>5, StepKeeps
<1> QED
    BY <1>4, <1>5 DEF OnCard, RegisterFromCard, Join

\* The steps below change neither the chats nor the cards.
LEMMA JobKeeps ==
    ASSUME AccountsInv, UNCHANGED <<chat, card, asked, now>>, rows' \in [Rows -> Record], told' \subseteq Rows,
           \A r \in Rows : RowMoves(r) /\ (rows'[r].status = "unused" <=> rows[r].status = "unused"),
           sweep' \in TaskSet, cleanup' \in TaskSet, collect' \in TaskSet,
           sweep'.op = "sweep" => DOMAIN sweep'.seen # {},
           \A r \in told' : r \in told \/ (r \in asked /\ rows[r].status = "gone"),
           sweep' = sweep \/ sweep'.op # "sweep" \/ SweepLoaded',
           cleanup' = cleanup \/ cleanup'.op \notin {"purge", "farewell"} \/ RequestsAreTrue',
           collect' = collect \/ collect'.op # "collect" \/ UnusedChosen'
    PROVE  AccountsInv'
<1>0. AccountsTyped /\ RowsSuffice
    BY DEF AccountsInv
<1>1. AccountsTyped'
    BY <1>0 DEF AccountsTyped
<1>2. RowsSuffice'
    BY <1>0, SufficesStill
<1> QED
    BY <1>1, <1>2, StepKeeps

\* A delivery loads the row it may have to mark.
LEMMA FindUnreachableKeeps == ASSUME AccountsInv, FindUnreachable PROVE AccountsInv'
<1>0. AccountsTyped /\ rows \in [Rows -> Record] /\ told \subseteq Rows /\ cleanup \in TaskSet /\ collect \in TaskSet
    BY DEF AccountsInv, AccountsTyped
<1>1. PICK r \in Rows : sweep' = Task("sweep", {r})
    BY DEF FindUnreachable, MemberRowsOf, RowsOf
<1>2. UNCHANGED <<rows, chat, card, cleanup, collect, asked, told, now>>
    <2>1. UNCHANGED <<rows, chat, card, cleanup, collect, told, now>>
        BY DEF FindUnreachable, KeepTables, KeepPeople
    <2>2. asked' = asked
        BY DEF FindUnreachable, KeepPeople, people
    <2> QED
        BY <2>1, <2>2
<1>3. sweep' \in TaskSet /\ sweep'.seen = [x \in {r} |-> rows[x]]
    <2>1. "sweep" \in Ops /\ {r} \in SUBSET Rows
        BY DEF Ops
    <2> QED
        BY <1>0, <1>1, <2>1, TaskLoads
<1>4. SweepLoaded' /\ DOMAIN sweep'.seen # {}
    BY <1>2, <1>3 DEF SweepLoaded
<1>5. \A x \in told' : x \in told \/ (x \in asked /\ rows[x].status = "gone")
    BY <1>2
<1>6. /\ rows' \in [Rows -> Record]
      /\ \A x \in Rows : RowMoves(x) /\ (rows'[x].status = "unused" <=> rows[x].status = "unused")
    BY <1>2, RowsStay
<1> QED
    BY <1>0, <1>2, <1>3, <1>4, <1>5, <1>6, JobKeeps

\* What user_cleanup and the sweep of accounts leave alone.
LEMMA JobsKeep ==
    ASSUME CleanUp \/ Collect \/ Crash
    PROVE  /\ UNCHANGED <<chat, card, sweep, asked, now>>
           /\ CleanUp => collect' = collect
           /\ Collect => cleanup' = cleanup /\ told' = told
           /\ Crash => UNCHANGED <<rows, told>>
<1>1. asked' = asked
    BY DEF CleanUp, Collect, SelectDemotable, Demote, SelectPurged, Purge, Farewell, SelectUnused, DeleteUnused, Crash,
           KeepPeople, people
<1>2. UNCHANGED <<chat, card, now>>
    BY DEF CleanUp, Collect, SelectDemotable, Demote, SelectPurged, Purge, Farewell, SelectUnused, DeleteUnused, Crash,
           KeepPeople
<1>3. sweep' = sweep /\ (CleanUp => collect' = collect)
    BY DEF CleanUp, Collect, SelectDemotable, Demote, SelectPurged, Purge, Farewell, SelectUnused, DeleteUnused, Crash,
           KeepJobs
<1>4. Collect => cleanup' = cleanup /\ told' = told
    BY DEF Collect, SelectUnused, DeleteUnused
<1>5. Crash => UNCHANGED <<rows, told>>
    BY DEF Crash, KeepTables
<1> QED
    BY <1>1, <1>2, <1>3, <1>4, <1>5

\* Rows that are deleted.
LEMMA RowsDeleted ==
    ASSUME AccountsInv, NEW R \in SUBSET Rows, DeleteRows(R)
    PROVE  /\ rows' \in [Rows -> Record]
           /\ \A r \in Rows : RowMoves(r) /\ (rows'[r].status = "unused" <=> rows[r].status = "unused")
           /\ \A r \in R : rows[r].status # "unused" => rows'[r].status = "gone"
<1>0. rows \in [Rows -> Record]
    BY DEF AccountsInv, AccountsTyped
<1> DEFINE gone == [Blank EXCEPT !.status = "gone"]
<1>1. gone \in Record /\ gone.status = "gone"
    BY AccountSets DEF Record, Absent, Blank
<1> HIDE DEF gone
<1>2. rows' = [r \in Rows |-> IF r \in R /\ Exists(r) THEN gone ELSE rows[r]]
    BY DEF DeleteRows, gone
<1>3. rows' \in [Rows -> Record]
    BY <1>0, <1>1, <1>2
<1>4. ASSUME NEW r \in Rows
      PROVE  /\ RowMoves(r) /\ (rows'[r].status = "unused" <=> rows[r].status = "unused")
             /\ r \in R /\ rows[r].status # "unused" => rows'[r].status = "gone"
    <2>1. CASE r \in R /\ Exists(r)
        BY <1>1, <1>2, <2>1 DEF RowMoves, Exists, UserStatus
    <2>2. CASE ~(r \in R /\ Exists(r))
        <3>1. rows'[r] = rows[r]
            BY <1>2, <2>2
        <3>2. rows[r].status \in UserStatus \cup Absent
            BY <1>0 DEF Record
        <3> QED
            BY <2>2, <3>1, <3>2 DEF RowMoves, Exists, Absent
    <2> QED
        BY <2>1, <2>2
<1> QED
    BY <1>3, <1>4

\* The cleanup job: demote, select, purge, say farewell.
LEMMA CleanUpKeeps == ASSUME AccountsInv, CleanUp PROVE AccountsInv'
<1>0. /\ AccountsTyped /\ RequestsAreTrue /\ rows \in [Rows -> Record] /\ told \subseteq Rows /\ asked \subseteq Rows
      /\ now \in 0 .. LastDay /\ sweep \in TaskSet /\ cleanup \in TaskSet /\ collect \in TaskSet
      /\ (sweep.op = "sweep" => DOMAIN sweep.seen # {})
    BY DEF AccountsInv, AccountsTyped
<1>1. UNCHANGED <<chat, card, sweep, asked, now, collect>>
    BY JobsKeep
<1>2. DOMAIN cleanup.seen \in SUBSET Rows /\ \A r \in DOMAIN cleanup.seen : cleanup.seen[r] \in Record
    BY <1>0, TaskRows
<1>3. Idle \in TaskSet /\ Idle.op = "idle"
    BY AccountSets
<1>4. CASE SelectDemotable
    <2>1. PICK R \in SUBSET Rows : cleanup' = Task("demote", R)
        BY <1>4 DEF SelectDemotable
    <2>2. cleanup' \in TaskSet /\ cleanup'.op = "demote"
        <3>1. "demote" \in Ops
            BY DEF Ops
        <3> QED
            BY <1>0, <2>1, <3>1, TaskLoads
    <2>3. rows' = rows /\ told' = told
        BY <1>4 DEF SelectDemotable, KeepTables
    <2>4. \A x \in told' : x \in told \/ (x \in asked /\ rows[x].status = "gone")
        BY <2>3
    <2>5. /\ rows' \in [Rows -> Record]
          /\ \A x \in Rows : RowMoves(x) /\ (rows'[x].status = "unused" <=> rows[x].status = "unused")
        BY <2>3, RowsStay
    <2> QED
        BY <1>0, <1>1, <2>2, <2>3, <2>4, <2>5, JobKeeps
<1>5. CASE Demote
    <2>1. told' = told
        BY <1>5 DEF Demote, KeepJobs
    <2>2. \A x \in told' : x \in told \/ (x \in asked /\ rows[x].status = "gone")
        BY <2>1
    <2>3. cleanup' \in TaskSet /\ cleanup'.op \in {"select", "idle"}
        <3>1. Task("select", {}) \in TaskSet /\ Task("select", {}).op = "select"
            BY <1>0, TaskLoads DEF Ops
        <3> QED
            BY <1>3, <1>5, <3>1 DEF Demote
    <2>4. /\ rows' \in [Rows -> Record]
          /\ \A x \in Rows : RowMoves(x) /\ (rows'[x].status = "unused" <=> rows[x].status = "unused")
        <3>1. CASE StillThere(cleanup)
            <4> DEFINE New(r) == Stored(r, cleanup.seen[r], SetStatus(cleanup.seen[r], "joined_only"))
            <4>1. rows' = [r \in Rows |-> IF r \in DOMAIN cleanup.seen THEN New(r) ELSE rows[r]]
                BY <1>5, <3>1 DEF Demote
            <4>2. ASSUME NEW r \in DOMAIN cleanup.seen
                  PROVE  New(r) \in Record /\ (New(r).status = "joined_only" \/ New(r) = rows[r]) /\ Exists(r)
                <5>1. r \in Rows /\ cleanup.seen[r] \in Record /\ "joined_only" \in UserStatus /\ Exists(r)
                    BY <1>2, <3>1, <4>2 DEF UserStatus, StillThere
                <5>2. CASE cleanup.seen[r].status = "joined_only"
                    BY <1>0, <5>1, <5>2, StoredRow
                <5>3. CASE cleanup.seen[r].status # "joined_only"
                    BY <1>0, <5>1, <5>3, StoredRow
                <5> QED
                    BY <5>1, <5>2, <5>3
            <4> HIDE DEF New
            <4>3. rows' \in [Rows -> Record]
                BY <1>0, <4>1, <4>2
            <4>4. ASSUME NEW x \in Rows
                  PROVE  RowMoves(x) /\ (rows'[x].status = "unused" <=> rows[x].status = "unused")
                <5>1. CASE x \in DOMAIN cleanup.seen
                    BY <4>1, <4>2, <5>1 DEF RowMoves, Exists, UserStatus
                <5>2. CASE x \notin DOMAIN cleanup.seen
                    BY <4>1, <5>2 DEF RowMoves
                <5> QED
                    BY <5>1, <5>2
            <4> QED
                BY <4>3, <4>4
        <3>2. CASE ~StillThere(cleanup)
            <4>1. rows' = rows
                BY <1>5, <3>2 DEF Demote, KeepTables
            <4> QED
                BY <4>1, RowsStay
        <3> QED
            BY <3>1, <3>2
    <2> QED
        BY <1>0, <1>1, <2>1, <2>2, <2>3, <2>4, JobKeeps
<1>6. CASE SelectPurged
    <2>1. cleanup' = Task("purge", {r \in Rows : Purgeable(r) \/ Requested(r)})
        BY <1>6 DEF SelectPurged
    <2>2. /\ cleanup' \in TaskSet /\ cleanup'.op = "purge"
          /\ cleanup'.seen = [r \in {x \in Rows : Purgeable(x) \/ Requested(x)} |-> rows[r]]
        BY <1>0, <2>1, TaskLoads DEF Ops
    <2>3. rows' = rows /\ told' = told
        BY <1>6 DEF SelectPurged, KeepTables, KeepJobs
    <2>4. \A x \in told' : x \in told \/ (x \in asked /\ rows[x].status = "gone")
        BY <2>3
    <2>5. /\ rows' \in [Rows -> Record]
          /\ \A x \in Rows : RowMoves(x) /\ (rows'[x].status = "unused" <=> rows[x].status = "unused")
        BY <2>3, RowsStay
    <2>6. RequestsAreTrue'
        BY <1>0, <1>1, <2>2, <2>3 DEF RequestsAreTrue, Purgeable, Requested
    <2> QED
        BY <1>0, <1>1, <2>2, <2>3, <2>4, <2>5, <2>6, JobKeeps
<1>7. CASE Purge
    <2>1. DeleteRows(DOMAIN cleanup.seen) /\ told' = told /\ cleanup.op = "purge"
        BY <1>7 DEF Purge, KeepJobs
    <2>2. /\ rows' \in [Rows -> Record]
          /\ \A r \in Rows : RowMoves(r) /\ (rows'[r].status = "unused" <=> rows[r].status = "unused")
          /\ \A r \in DOMAIN cleanup.seen : rows[r].status # "unused" => rows'[r].status = "gone"
        BY <1>2, <2>1, RowsDeleted
    <2> DEFINE said == [r \in Farewells(cleanup) |-> cleanup.seen[r]]
    <2>3. Farewells(cleanup) \in SUBSET Rows /\ said \in [Farewells(cleanup) -> Record]
        BY <1>2 DEF Farewells
    <2>4. said \in UNION {[R -> Record] : R \in SUBSET Rows}
        BY <2>3
    <2>5. cleanup' \in TaskSet /\ cleanup'.op = "farewell" /\ DOMAIN cleanup'.seen = Farewells(cleanup)
        <3>1. cleanup' = [cleanup EXCEPT !.op = "farewell", !.seen = said]
            BY <1>7 DEF Purge
        <3>2. DOMAIN said = Farewells(cleanup)
            OBVIOUS
        <3> HIDE DEF said
        <3>3. cleanup' \in TaskSet /\ cleanup'.op = "farewell" /\ cleanup'.seen = said
            BY <1>0, <2>4, <3>1 DEF TaskSet, Ops
        <3> QED
            BY <3>2, <3>3
    <2>6. RequestsAreTrue'
        <3>1. ASSUME NEW r \in Farewells(cleanup) PROVE r \in asked' /\ rows'[r].status = "gone"
            BY <1>0, <1>1, <2>1, <2>2, <3>1 DEF Farewells, RequestsAreTrue
        <3>2. \A r \in Rows : rows'[r].status = "deletion_requested" => r \in asked'
            BY <1>0, <1>1, <2>2 DEF RowMoves, RequestsAreTrue
        <3> QED
            BY <2>5, <3>1, <3>2 DEF RequestsAreTrue
    <2>7. \A x \in told' : x \in told \/ (x \in asked /\ rows[x].status = "gone")
        BY <2>1
    <2> QED
        BY <1>0, <1>1, <2>1, <2>2, <2>5, <2>6, <2>7, JobKeeps
<1>8. CASE Farewell
    <2>1. rows' = rows /\ told' = told \cup DOMAIN cleanup.seen /\ cleanup.op = "farewell" /\ cleanup' = Idle
        BY <1>8 DEF Farewell, KeepTables
    <2>2. \A x \in told' : x \in told \/ (x \in asked /\ rows[x].status = "gone")
        BY <1>0, <2>1 DEF RequestsAreTrue
    <2>3. /\ rows' \in [Rows -> Record]
          /\ \A x \in Rows : RowMoves(x) /\ (rows'[x].status = "unused" <=> rows[x].status = "unused")
        BY <2>1, RowsStay
    <2>4. told' \subseteq Rows
        BY <1>0, <1>2, <2>1
    <2> QED
        BY <1>0, <1>1, <1>3, <2>1, <2>2, <2>3, <2>4, JobKeeps
<1> QED
    BY <1>4, <1>5, <1>6, <1>7, <1>8 DEF CleanUp

\* The sweep of unused accounts, and a crash.
LEMMA CollectKeeps == ASSUME AccountsInv, Collect \/ Crash PROVE AccountsInv'
<1>0. /\ AccountsTyped /\ rows \in [Rows -> Record] /\ told \subseteq Rows
      /\ sweep \in TaskSet /\ cleanup \in TaskSet /\ collect \in TaskSet
      /\ (sweep.op = "sweep" => DOMAIN sweep.seen # {})
    BY DEF AccountsInv, AccountsTyped
<1>1. UNCHANGED <<chat, card, sweep, asked, now, told>>
    BY JobsKeep
<1>2. \A x \in told' : x \in told \/ (x \in asked /\ rows[x].status = "gone")
    BY <1>1
<1>3. Idle \in TaskSet /\ Idle.op = "idle"
    BY AccountSets
<1>4. CASE SelectUnused
    <2>1. collect' = Task("collect", {r \in Rows : Unneeded(r) \/ Abandoned(r)}) /\ rows' = rows /\ cleanup' = cleanup
        BY <1>4 DEF SelectUnused, KeepTables
    <2>2. /\ collect' \in TaskSet /\ collect'.op = "collect"
          /\ collect'.seen = [r \in {x \in Rows : Unneeded(x) \/ Abandoned(x)} |-> rows[r]]
        BY <1>0, <2>1, TaskLoads DEF Ops
    <2>3. UnusedChosen'
        BY <2>2 DEF UnusedChosen, Unneeded, Abandoned
    <2>4. /\ rows' \in [Rows -> Record]
          /\ \A x \in Rows : RowMoves(x) /\ (rows'[x].status = "unused" <=> rows[x].status = "unused")
        BY <2>1, RowsStay
    <2> QED
        BY <1>0, <1>1, <1>2, <2>1, <2>2, <2>3, <2>4, JobKeeps
<1>5. CASE DeleteUnused
    <2>1. DeleteRows(StillInStatus(collect)) /\ collect' = Idle /\ cleanup' = cleanup
        BY <1>5 DEF DeleteUnused
    <2>2. StillInStatus(collect) \in SUBSET Rows
        BY <1>0, TaskRows DEF StillInStatus
    <2>3. /\ rows' \in [Rows -> Record]
          /\ \A x \in Rows : RowMoves(x) /\ (rows'[x].status = "unused" <=> rows[x].status = "unused")
        BY <2>1, <2>2, RowsDeleted
    <2> QED
        BY <1>0, <1>1, <1>2, <1>3, <2>1, <2>3, JobKeeps
<1>6. CASE Crash
    <2>1. rows' = rows /\ cleanup' = Idle /\ collect' = Idle
        BY <1>6 DEF Crash, KeepTables
    <2>2. /\ rows' \in [Rows -> Record]
          /\ \A x \in Rows : RowMoves(x) /\ (rows'[x].status = "unused" <=> rows[x].status = "unused")
        BY <2>1, RowsStay
    <2> QED
        BY <1>0, <1>1, <1>2, <1>3, <2>1, <2>2, JobKeeps
<1> QED
    BY <1>4, <1>5, <1>6 DEF Collect

\* A day passes when nothing is under way.
LEMMA TickKeeps == ASSUME AccountsInv, Tick PROVE AccountsInv'
<1>0. AccountsTyped /\ RowsSuffice /\ now \in 0 .. LastDay /\ LastDay \in Nat
    BY AccountSets DEF AccountsInv, AccountsTyped
<1>1. UNCHANGED <<rows, chat, card, sweep, cleanup, collect, told, asked>>
    BY DEF Tick, tasks, people
<1>2. now' \in 0 .. LastDay
    BY <1>0 DEF Tick
<1>3. AccountsTyped'
    BY <1>0, <1>1, <1>2 DEF AccountsTyped
<1>4. RowsSuffice'
    BY <1>0, <1>1, SufficesStill DEF AccountsTyped
<1>5. FarewellsAreTrue' /\ RequestsAreTrue' /\ UnusedChosen'
    BY <1>1 DEF AccountsInv, FarewellsAreTrue, RequestsAreTrue, UnusedChosen
<1>6. sweep'.op # "sweep" /\ \A p \in People : chat'[p].op # "block"
    BY <1>1 DEF Tick, Quiet, TaskIdle
<1>7. DetectionsAreFresh'
    BY <1>6 DEF DetectionsAreFresh
<1> QED
    BY <1>3, <1>4, <1>5, <1>7 DEF AccountsInv

\* What people do with the bot opens a task that has loaded their rows.
LEMMA PersonKeeps ==
    ASSUME AccountsInv, NEW p \in People,
           \/ StartAsMember(p) \/ StartAgain(p) \/ StartNew(p) \/ Answer(p) \/ Press(p)
           \/ AskErasure(p) \/ Block(p) \/ Unblock(p)
    PROVE  AccountsInv'
<1>1. CASE StartAsMember(p) \/ StartAgain(p) \/ Press(p) \/ Unblock(p)
    BY <1>1, CoreKept DEF StartAsMember, StartAgain, Press, Unblock, KeepTables, KeepWorld, core
<1>2. CASE StartNew(p)
    BY <1>2, ChatLoads DEF StartNew, Writes, TaskIdle, KeepTables, KeepWorld, people
<1>3. CASE Answer(p) \/ AskErasure(p)
    <2>1. PICK r \in Rows, op \in {"promote", "erase"} : chat' = [chat EXCEPT ![p] = Task(op, {r})]
        BY <1>3 DEF Answer, AskErasure, RowsOf
    <2>2. chat[p].op = "idle" /\ UNCHANGED <<rows, card, sweep, cleanup, collect, asked, told, now>>
        BY <1>3 DEF Answer, AskErasure, Writes, TaskIdle, KeepTables, KeepWorld, people
    <2> QED
        BY <2>1, <2>2, ChatLoads
<1>4. CASE Block(p)
    <2>1. chat[p].op = "idle" /\ UNCHANGED <<rows, card, sweep, cleanup, collect, asked, told, now>>
        BY <1>4 DEF Block, Writes, TaskIdle, KeepTables, KeepWorld
    <2>2. chat' = chat \/ \E r \in Rows : chat' = [chat EXCEPT ![p] = Task("block", {r})]
        BY <1>4 DEF Block, RowsOf
    <2>3. CASE chat' = chat
        BY <2>1, <2>3, CoreKept DEF core
    <2>4. CASE \E r \in Rows : chat' = [chat EXCEPT ![p] = Task("block", {r})]
        BY <2>1, <2>4, ChatLoads
    <2> QED
        BY <2>2, <2>3, <2>4
<1> QED
    BY <1>1, <1>2, <1>3, <1>4

\* What people do with meetings.
LEMMA MeetingKeeps ==
    ASSUME AccountsInv, NEW p \in People, NEW m \in Meetings,
           OpenMeeting(p, m) \/ TapNew(p, m) \/ TapJoin(p, m) \/ Leave(p, m)
    PROVE  AccountsInv'
<1>1. CASE OpenMeeting(p, m) \/ Leave(p, m)
    BY <1>1, CoreKept DEF OpenMeeting, Leave, KeepWorld, people, core
<1>2. CASE TapNew(p, m)
    <2>1. PICK op \in {"join_new", "leave_new"} : card' = [card EXCEPT ![p] = [Task(op, {}) EXCEPT !.meet = m]]
        BY <1>2 DEF TapNew
    <2>2. /\ RowLeft /\ card[p].op = "idle" /\ UNCHANGED <<rows, chat, sweep, cleanup, collect, asked, told, now>>
        BY <1>2 DEF TapNew, Taps, TaskIdle, KeepTables, KeepWorld, people
    <2>3. {} \in SUBSET Rows
        OBVIOUS
    <2> QED
        BY <2>1, <2>2, <2>3, CardLoads
<1>3. CASE TapJoin(p, m)
    <2>1. PICK r \in Rows : card' = [card EXCEPT ![p] = [Task("join", {r}) EXCEPT !.meet = m]]
        BY <1>3 DEF TapJoin, RowsOf
    <2>2. card[p].op = "idle" /\ UNCHANGED <<rows, chat, sweep, cleanup, collect, asked, told, now>>
        BY <1>3 DEF TapJoin, Taps, TaskIdle, KeepTables, KeepWorld, people
    <2>3. {r} \in SUBSET Rows
        OBVIOUS
    <2> QED
        BY <2>1, <2>2, <2>3, CardLoads
<1> QED
    BY <1>1, <1>2, <1>3

LEMMA AccountsStep == ASSUME AccountsInv, [Next]_vars PROVE AccountsInv'
<1>1. CASE \E p \in People : \/ StartAsMember(p) \/ StartAgain(p) \/ StartNew(p) \/ Answer(p) \/ Press(p)
                             \/ AskErasure(p) \/ Block(p) \/ Unblock(p)
    BY <1>1, PersonKeeps
<1>2. CASE \E p \in People : InChat(p)
    BY <1>2, InChatKeeps, RegisterKeeps DEF InChat
<1>3. CASE \E p \in People : OnCard(p)
    BY <1>3, OnCardKeeps
<1>4. CASE \E p \in People, m \in Meetings : OpenMeeting(p, m) \/ TapNew(p, m) \/ TapJoin(p, m) \/ Leave(p, m)
    BY <1>4, MeetingKeeps
<1>5. CASE FindUnreachable \/ MarkUnreachable
    BY <1>5, FindUnreachableKeeps, MarkUnreachableKeeps
<1>6. CASE CleanUp \/ Collect \/ Crash
    BY <1>6, CleanUpKeeps, CollectKeeps
<1>7. CASE \E m \in Meetings : EndMeeting(m) \/ DropMeeting(m)
    BY <1>7, CoreKept DEF EndMeeting, DropMeeting, people, tasks, core
<1>8. CASE Tick
    BY <1>8, TickKeeps
<1>9. CASE UNCHANGED vars
    BY <1>9, CoreKept DEF vars, people, tasks, core
<1> QED
    BY <1>1, <1>2, <1>3, <1>4, <1>5, <1>6, <1>7, <1>8, <1>9 DEF Next

\* Accounts are what their histories say: AccountsInv holds throughout.
THEOREM AccountsCorrect == Spec => []AccountsInv
<1>1. AccountsInv /\ [Next]_vars => AccountsInv'
    BY AccountsStep
<1> QED
    BY AccountsInit, <1>1, PTL DEF Spec

-----------------------------------------------------------------------------
(* Who goes had gone, and the grace period. *)

\* The demotion deletes no active meeting and no place in one.
LEMMA DemotionSpares ==
    ASSUME Demote PROVE /\ \A m \in ActiveMeetings : meets'[m] = meets[m]
                        /\ \A l \in links : l[2] \in ActiveMeetings => l \in links'
<1>1. CASE StillThere(cleanup)
    <2>1. /\ meets' = WithoutMeetings(DemotedMeetings(DOMAIN cleanup.seen))
          /\ links' = {l \in links : l[2] \notin DemotedMeetings(DOMAIN cleanup.seen)}
        BY <1>1 DEF Demote
    <2>2. \A m \in ActiveMeetings : m \in Meetings /\ m \notin DemotedMeetings(DOMAIN cleanup.seen)
        BY DEF ActiveMeetings, DemotedMeetings
    <2> QED
        BY <2>1, <2>2 DEF WithoutMeetings
<1>2. CASE ~StillThere(cleanup)
    BY <1>2 DEF Demote, KeepTables
<1> QED
    BY <1>1, <1>2

\* The sweep of unused accounts deletes no member.
LEMMA SweepSpares ==
    ASSUME AccountsInv, DeleteUnused PROVE \A r \in Rows : rows[r].status = "member" => rows'[r] = rows[r]
<1> SUFFICES ASSUME NEW r \in Rows, rows[r].status = "member" PROVE rows'[r] = rows[r]
    OBVIOUS
<1>1. r \notin StillInStatus(collect)
    BY DEF AccountsInv, UnusedChosen, StillInStatus, DeleteUnused
<1> QED
    BY <1>1 DEF DeleteUnused, DeleteRows

\* The first detection's day stays.
GraceKept == \A r \in Rows : rows[r].status = "left" /\ rows'[r].status = "left" => rows'[r].left = rows[r].left

\* A store of a status other than LEFT, or of LEFT on a row found a MEMBER since the day began, keeps it.
LEMMA StoreKeepsGrace ==
    ASSUME AccountsInv, NEW t \in TaskSet, DOMAIN t.seen # {}, NEW s \in UserStatus,
           s = "left" => t.seen[Loaded(t)].status = "member" /\ LeftToday(t),
           rows' = [rows EXCEPT ![Loaded(t)] = Stored(Loaded(t), t.seen[Loaded(t)], SetStatus(t.seen[Loaded(t)], s))]
    PROVE  GraceKept
<1> DEFINE r == Loaded(t) x == Stored(r, t.seen[r], SetStatus(t.seen[r], s))
<1>0. AccountsTyped /\ rows \in [Rows -> Record] /\ now \in 0 .. LastDay
    BY DEF AccountsInv, AccountsTyped
<1>1. r \in DOMAIN t.seen /\ r \in Rows /\ t.seen[r] \in Record
    BY <1>0, LoadedRow
<1>2. s # "left" => x.status # "left" \/ x = rows[r]
    <2>1. CASE s = t.seen[r].status
        BY <1>0, <1>1, <2>1, StoredRow
    <2>2. CASE s # t.seen[r].status
        BY <1>0, <1>1, <2>2, StoredRow
    <2> QED
        BY <2>1, <2>2
<1>3. s = "left" => x.left = now /\ (rows[r].status = "left" => rows[r].left = now)
    BY <1>0, <1>1, StoredRow DEF LeftToday
<1> HIDE DEF x
<1>4. rows' = [rows EXCEPT ![r] = x]
    BY DEF x
<1>5. ASSUME NEW q \in Rows, rows[q].status = "left", rows'[q].status = "left" PROVE rows'[q].left = rows[q].left
    <2>1. CASE q = r
        BY <1>0, <1>1, <1>2, <1>3, <1>4, <1>5, <2>1
    <2>2. CASE q # r
        BY <1>0, <1>1, <1>4, <2>2
    <2> QED
        BY <2>1, <2>2
<1> QED
    BY <1>5 DEF GraceKept

\* Only a writer of a row can move a stamp.
LEMMA SameRowsKeepGrace == ASSUME rows' = rows PROVE GraceKept
    BY DEF GraceKept

\* A registration writes a row that had not left.
LEMMA InsertKeepsGrace ==
    ASSUME AccountsInv, NEW p, NEW s \in {"onboarding", "joined_only"}, rows' = Inserted(p, s) PROVE GraceKept
<1>1. rows \in [Rows -> Record]
    BY DEF AccountsInv, AccountsTyped
<1>2. ASSUME NEW r \in Rows PROVE rows'[r] = rows[r] \/ rows'[r].status # "left"
    <2>1. rows'[r] = rows[r] \/ rows'[r] = Row(p, s)
        BY <1>1 DEF Inserted
    <2> QED
        BY <2>1 DEF Row
<1> QED
    BY <1>2 DEF GraceKept

LEMMA DeleteKeepsGrace == ASSUME NEW R, DeleteRows(R) PROVE GraceKept
<1>1. ASSUME NEW r \in Rows PROVE rows'[r] = rows[r] \/ rows'[r].status = "gone"
    BY DEF DeleteRows, Blank
<1> QED
    BY <1>1 DEF GraceKept

\* Nothing done in the private chat stamps a departure again.
LEMMA ChatKeepsGrace == ASSUME AccountsInv, NEW p \in People, InChat(p) PROVE GraceKept
<1>0. AccountsTyped /\ chat[p] \in TaskSet /\ DetectionsAreFresh /\ rows \in [Rows -> Record]
    BY DEF AccountsInv, AccountsTyped
<1> DEFINE t == chat[p] r == Loaded(t)
<1>1. CASE Register(p)
    BY <1>1, InsertKeepsGrace DEF Register
<1>2. CASE CompleteOnboarding(p)
    <2>1. DOMAIN t.seen # {} /\ "member" \in UserStatus
        BY <1>0, <1>2 DEF CompleteOnboarding, AccountsTyped, UserStatus
    <2>2. rows' = rows \/ rows' = [rows EXCEPT ![r] = Stored(r, t.seen[r], SetStatus(t.seen[r], "member"))]
        BY <1>2 DEF CompleteOnboarding
    <2> QED
        BY <1>0, <2>1, <2>2, StoreKeepsGrace, SameRowsKeepGrace
<1>3. CASE RequestErasure(p)
    <2>1. DOMAIN t.seen # {} /\ "deletion_requested" \in UserStatus
        BY <1>0, <1>3 DEF RequestErasure, AccountsTyped, UserStatus
    <2>2. rows' = rows \/ rows' = [rows EXCEPT ![r] = Stored(r, t.seen[r], SetStatus(t.seen[r], "deletion_requested"))]
        BY <1>3 DEF RequestErasure
    <2> QED
        BY <1>0, <2>1, <2>2, StoreKeepsGrace, SameRowsKeepGrace
<1>4. CASE RecordBlock(p)
    <2>1. DOMAIN t.seen # {} /\ LeftToday(t) /\ "left" \in UserStatus
        BY <1>0, <1>4 DEF RecordBlock, AccountsTyped, DetectionsAreFresh, UserStatus
    <2>2. CASE t.seen[r].status = "member"
        <3>1. rows' = rows \/ rows' = [rows EXCEPT ![r] = Stored(r, t.seen[r], SetStatus(t.seen[r], "left"))]
            BY <1>4, <2>2 DEF RecordBlock, MarkInactive
        <3> QED
            BY <1>0, <2>1, <2>2, <3>1, StoreKeepsGrace, SameRowsKeepGrace
    <2>3. CASE t.seen[r].status # "member"
        <3>1. rows' = rows
            BY <1>0, <1>4, <2>3 DEF RecordBlock, MarkInactive
        <3> QED
            BY <3>1, SameRowsKeepGrace
    <2> QED
        BY <2>2, <2>3
<1> QED
    BY <1>1, <1>2, <1>3, <1>4 DEF InChat

\* A delivery that marks a row another task has marked since writes the stamp of the same day.
LEMMA SweepKeepsGrace == ASSUME AccountsInv, MarkUnreachable PROVE GraceKept
<1>0. /\ AccountsTyped /\ sweep \in TaskSet /\ DOMAIN sweep.seen # {} /\ LeftToday(sweep)
      /\ rows \in [Rows -> Record] /\ "left" \in UserStatus
    BY DEF AccountsInv, AccountsTyped, DetectionsAreFresh, MarkUnreachable, UserStatus
<1> DEFINE r == Loaded(sweep)
<1>1. CASE sweep.seen[r].status = "member"
    <2>1. rows' = rows \/ rows' = [rows EXCEPT ![r] = Stored(r, sweep.seen[r], SetStatus(sweep.seen[r], "left"))]
        BY <1>1 DEF MarkUnreachable, MarkInactive
    <2> QED
        BY <1>0, <1>1, <2>1, StoreKeepsGrace, SameRowsKeepGrace
<1>2. CASE sweep.seen[r].status # "member"
    <2>1. rows' = rows
        BY <1>0, <1>2 DEF MarkUnreachable, MarkInactive
    <2> QED
        BY <2>1, SameRowsKeepGrace
<1> QED
    BY <1>1, <1>2

\* The demotion moves the stamp of nobody who stays departed.
LEMMA DemotionKeepsGrace == ASSUME AccountsInv, Demote PROVE GraceKept
<1>0. /\ AccountsTyped /\ rows \in [Rows -> Record] /\ now \in 0 .. LastDay /\ cleanup \in TaskSet
    BY DEF AccountsInv, AccountsTyped
<1>1. CASE StillThere(cleanup)
    <2>1. ASSUME NEW r \in Rows PROVE rows'[r] = rows[r] \/ rows'[r].status = "joined_only"
        <3>1. CASE r \in DOMAIN cleanup.seen
            <4>1. rows'[r] = Stored(r, cleanup.seen[r], SetStatus(cleanup.seen[r], "joined_only"))
                BY <1>1, <3>1 DEF Demote
            <4>2. cleanup.seen[r] \in Record /\ "joined_only" \in UserStatus
                BY <1>0, <3>1, TaskRows DEF UserStatus
            <4>3. CASE cleanup.seen[r].status = "joined_only"
                BY <1>0, <4>1, <4>2, <4>3, StoredRow
            <4>4. CASE cleanup.seen[r].status # "joined_only"
                BY <1>0, <4>1, <4>2, <4>4, StoredRow
            <4> QED
                BY <4>3, <4>4
        <3>2. CASE r \notin DOMAIN cleanup.seen
            BY <1>1, <3>2 DEF Demote
        <3> QED
            BY <3>1, <3>2
    <2> QED
        BY <2>1 DEF GraceKept
<1>2. CASE ~StillThere(cleanup)
    BY <1>2, SameRowsKeepGrace DEF Demote, KeepTables
<1> QED
    BY <1>1, <1>2

\* No step of any task restarts a grace period.
LEMMA StepKeepsGrace == ASSUME AccountsInv, [Next]_vars PROVE GraceKept
<1>1. CASE \E p \in People : InChat(p)
    BY <1>1, ChatKeepsGrace
<1>2. CASE \E p \in People : OnCard(p)
    <2>1. PICK p \in People : OnCard(p)
        BY <1>2
    <2>2. rows' = rows \/ rows' = Inserted(p, "joined_only")
        BY <2>1 DEF OnCard, RegisterFromCard, Join
    <2> QED
        BY <2>2, InsertKeepsGrace, SameRowsKeepGrace
<1>3. CASE MarkUnreachable
    BY <1>3, SweepKeepsGrace
<1>4. CASE Demote
    BY <1>4, DemotionKeepsGrace
<1>5. CASE Purge \/ DeleteUnused
    BY <1>5, DeleteKeepsGrace DEF Purge, DeleteUnused
<1>7. CASE \E p \in People : \/ StartAsMember(p) \/ StartAgain(p) \/ StartNew(p) \/ Answer(p) \/ Press(p)
                             \/ AskErasure(p) \/ Block(p) \/ Unblock(p)
    <2>1. rows' = rows
        BY <1>7 DEF StartAsMember, StartAgain, StartNew, Answer, Press, AskErasure, Block, Unblock, KeepTables
    <2> QED
        BY <2>1, SameRowsKeepGrace
<1>8. CASE \E p \in People, m \in Meetings : OpenMeeting(p, m) \/ TapNew(p, m) \/ TapJoin(p, m) \/ Leave(p, m)
    <2>1. rows' = rows
        BY <1>8 DEF OpenMeeting, TapNew, TapJoin, Leave, KeepTables
    <2> QED
        BY <2>1, SameRowsKeepGrace
<1>9. CASE \/ FindUnreachable \/ SelectDemotable \/ SelectPurged \/ Farewell \/ SelectUnused \/ Crash \/ Tick \/ UNCHANGED vars
           \/ \E m \in Meetings : EndMeeting(m) \/ DropMeeting(m)
    <2>1. rows' = rows
        BY <1>9 DEF FindUnreachable, SelectDemotable, SelectPurged, Farewell, SelectUnused, Crash, Tick, EndMeeting,
                    DropMeeting, KeepTables, vars
    <2> QED
        BY <2>1, SameRowsKeepGrace
<1> QED
    BY <1>1, <1>2, <1>3, <1>4, <1>5, <1>7, <1>8, <1>9 DEF Next, CleanUp, Collect

\* Who goes had gone: the demotion takes nothing in use, the sweep nobody who came back, and a farewell
\* is said only to those who asked and are deleted (demote_stale_left_users, delete_users_still_in_status).
THEOREM GoneCorrect == Spec => OnlyTheGoneGo
<1>1. [Next]_vars => [Demote => /\ \A m \in ActiveMeetings : meets'[m] = meets[m]
                                /\ \A l \in links : l[2] \in ActiveMeetings => l \in links']_vars
    BY DemotionSpares
<1>2. AccountsInv /\ [Next]_vars
        => [DeleteUnused => \A r \in Rows : rows[r].status = "member" => rows'[r] = rows[r]]_vars
    BY SweepSpares
<1>3. AccountsInv => FarewellsAreTrue
    BY DEF AccountsInv
<1>4. Spec => DemotionsSpareMeetings
    BY <1>1, PTL DEF Spec, DemotionsSpareMeetings
<1>5. Spec => SweepSparesMembers
    BY AccountsCorrect, <1>2, PTL DEF Spec, SweepSparesMembers
<1>6. Spec => []FarewellsAreTrue
    BY AccountsCorrect, <1>3, PTL
<1> QED
    BY <1>4, <1>5, <1>6 DEF OnlyTheGoneGo

\* However many detections find a departure, and on however old a row, the grace period runs from the
\* first (mark_inactive).
THEOREM GraceCorrect == Spec => GraceRunsFromTheFirst
<1>1. AccountsInv /\ [Next]_vars
        => [\A r \in Rows : rows[r].status = "left" /\ rows'[r].status = "left" => rows'[r].left = rows[r].left]_vars
    BY StepKeepsGrace DEF GraceKept
<1> QED
    BY AccountsCorrect, <1>1, PTL DEF Spec, GraceRunsFromTheFirst

-----------------------------------------------------------------------------
(* The invariant *)

Places == {"off", "refresh", "store", "list", "create", "update", "persist", "serving", "page1", "page2", "apply"}

Process == [at : Places, seed : Nat, shape : Shapes \cup {"none"}, hook : {0, 1},
            roster : SUBSET Patrons, dipped : SUBSET Patrons]

Active(p) == proc[p].at \notin {"off", "serving"}

\* Every webhook there ever is has the id 1, as the first of its kind.
AccessTyped ==
    /\ seeds \in Nat \ {0} /\ token \in 0 .. seeds /\ events \in 1 .. seeds
    /\ web.seed \in 1 .. seeds /\ web.shape \in Shapes
    /\ hooks \subseteq [id : {1}, shape : Shapes, paused : BOOLEAN]
    /\ post \subseteq [patron : Patrons, pays : BOOLEAN, hook : {1}]
    /\ paying \subseteq Patrons /\ known \subseteq Patrons
    /\ proc \in [Procs -> Process] /\ \A p \in Procs : proc[p].seed <= seeds
    /\ \A p \in Webs : Active(p) => proc[p].shape \in Shapes
    /\ holders \subseteq Procs \cup {"row", "seed"}
    /\ mishap \in BOOLEAN /\ registered \in BOOLEAN

Storing(p) == proc[p].at = "store"

\* Who holds the newest pair is under the current seed; and unless there was a mishap, a process that
\* has to store it holds it alone, and otherwise the next one to load finds it.
PairIsFound ==
    /\ \A p \in Procs \cap holders : proc[p].seed = seeds /\ Active(p)
    /\ "row" \in holders => token = seeds
    /\ ~mishap => \/ \E p \in holders \cap Procs : (\A x \in holders : x = p) /\ (\A q \in Procs : Storing(q) <=> q = p)
                  \/ Source(seeds) \in holders /\ \A p \in Procs : ~Storing(p)

\* Of the processes with an access token that works, only one is past its refresh: who creates a
\* webhook still finds none.
OneRegistrar ==
    /\ \A p, q \in Procs \cap holders : proc[p].at # "refresh" /\ proc[q].at # "refresh" => p = q
    /\ \A p \in Procs \cap holders : proc[p].at = "create" => hooks = {}
    /\ \A p \in Procs : proc[p].at \in {"update", "persist"} => proc[p].hook = 1
    /\ \A h, k \in hooks : h = k
    /\ registered => secret = 1

\* The run of the job knows who did not pay at some moment of it, and has everybody else of the
\* pages it read.
RosterIsFull ==
    LET job == proc[Job] IN
    /\ job.at # "off" => Patrons \ paying \subseteq job.dipped
    /\ job.at = "page2" => {m \in Patrons : PageOf[m] = 1} \subseteq job.roster \cup job.dipped
    /\ job.at = "apply" => Patrons \subseteq job.roster \cup job.dipped
    /\ job.at # "serving"
    /\ \A p \in Webs : proc[p].at \notin {"page1", "page2", "apply"}

AccessInv == AccessTyped /\ PairIsFound /\ OneRegistrar /\ RosterIsFull

-----------------------------------------------------------------------------
(* What the steps do to a process *)

\* The row, the current seed and a spent one are not processes, and differ.
LEMMA PlacesDiffer ==
    /\ "row" \notin Procs /\ "seed" \notin Procs /\ "stale" \notin Procs
    /\ Job \in Procs /\ Webs \subseteq Procs /\ Job \notin Webs
    /\ \A p \in Procs : p # Job => p \in Webs
BY AccessAssumption DEF Procs

\* Only p changes, and goes on under a seed there is and with a shape to register.
OnlyOf(p) ==
    /\ proc' \in [Procs -> Process] /\ proc'[p].seed <= seeds
    /\ p \in Webs /\ Active(p)' => proc'[p].shape \in Shapes
    /\ \A q \in Procs : q # p => proc'[q] = proc[q]

\* A process goes on with what it has.
LEMMA Moved ==
    ASSUME AccessTyped, NEW p \in Procs, Active(p), NEW place \in Places, MoveTo(p, place)
    PROVE  /\ OnlyOf(p) /\ proc'[p].at = place /\ proc'[p].seed = proc[p].seed /\ proc'[p].hook = proc[p].hook
           /\ proc'[p].roster = proc[p].roster /\ proc'[p].dipped = proc[p].dipped
BY DEF AccessTyped, MoveTo, OnlyOf, Active, Process

\* A process ends with nothing in memory.
LEMMA Ended ==
    ASSUME AccessTyped, NEW p \in Procs, proc' = [proc EXCEPT ![p] = NewProcess]
    PROVE  OnlyOf(p) /\ proc'[p].at = "off"
BY DEF AccessTyped, OnlyOf, Active, Process, Places, NewProcess

\* A process that gives up serves, or is the job and ends.
LEMMA GaveUp ==
    ASSUME AccessTyped, NEW p \in Procs, GiveUp(p)
    PROVE  /\ OnlyOf(p)
           /\ p = Job => proc'[p].at = "off"
           /\ p # Job => proc'[p].at = "serving"
<1>1. CASE p = Job
    BY <1>1 DEF AccessTyped, GiveUp, OnlyOf, Active, Process, Places, NewProcess
<1>2. CASE p # Job
    BY <1>2 DEF AccessTyped, GiveUp, OnlyOf, Active, Process, Places, NewProcess
<1> QED
    BY <1>1, <1>2

\* A process that loads a pair holds the newest one if it lies where that seed points to.
LEMMA TokenLoaded ==
    ASSUME AccessTyped, NEW p \in Procs, NEW seed \in 0 .. seeds, NEW shape \in Shapes \cup {"none"},
           p \in Webs => shape \in Shapes,
           NEW out \in SUBSET Patrons, LoadCreatorState(p, seed, shape, out)
    PROVE  /\ OnlyOf(p) /\ proc'[p].at = "refresh" /\ proc'[p].seed = seed /\ proc'[p].dipped = out
           /\ holders' = IF Source(seed) \in holders THEN holders \cup {p} ELSE holders \ {p}
<1>1. [NewProcess EXCEPT !.at = "refresh", !.seed = seed, !.shape = shape, !.dipped = out] \in Process
    <2>1. seed \in Nat
        BY DEF AccessTyped
    <2> QED
        BY <2>1 DEF Process, Places, NewProcess
<1> QED
    BY <1>1 DEF AccessTyped, LoadCreatorState, OnlyOf, Active, Process, NewProcess

\* The webhook a process adopts is the one there is.
LEMMA Adopted ==
    ASSUME AccessTyped, NEW p \in Procs, Active(p), NEW h \in hooks, Adopt(p, h)
    PROVE  /\ OnlyOf(p) /\ proc'[p].at \in {"update", "persist"} /\ proc'[p].seed = proc[p].seed /\ proc'[p].hook = 1
           /\ UNCHANGED <<holders, registered>>
<1>1. proc[p] \in Process /\ h.id = 1 /\ h.shape \in Shapes
    BY DEF AccessTyped
<1>2. PICK place \in {"update", "persist"} :
        proc' = [proc EXCEPT ![p].hook = h.id, ![p].at = place]
    BY DEF Adopt
<1>3. proc' = [proc EXCEPT ![p] = [proc[p] EXCEPT !.hook = 1, !.at = place]]
    BY <1>1, <1>2 DEF AccessTyped, Process
<1>4. [proc[p] EXCEPT !.hook = 1, !.at = place] \in Process
    BY <1>1, <1>2 DEF Process, Places
<1>5. /\ proc'[p] = [proc[p] EXCEPT !.hook = 1, !.at = place]
      /\ \A q \in Procs : q # p => proc'[q] = proc[q]
      /\ proc' \in [Procs -> Process]
    BY <1>3, <1>4 DEF AccessTyped
<1>6. proc[p].seed <= seeds /\ (p \in Webs => proc[p].shape \in Shapes)
    BY DEF AccessTyped
<1>7. UNCHANGED <<holders, registered>>
    BY DEF Adopt
<1> QED
    BY <1>1, <1>2, <1>5, <1>6, <1>7 DEF OnlyOf, Active, Process

-----------------------------------------------------------------------------
(* One process at a time *)

\* Process p takes a step that neither refreshes nor stores a pair. It may come to hold the newest
\* pair only where a process that loads finds it.
PairUntouched(p) ==
    /\ OnlyOf(p) /\ ~Storing(p) /\ proc'[p].at # "store"
    /\ UNCHANGED <<seeds, token, mishap>>
    /\ \A x : x # p => (x \in holders' <=> x \in holders)
    /\ p \in holders' => /\ proc'[p].seed = seeds /\ proc'[p].at \notin {"off", "serving"}
                         /\ p \in holders \/ Source(seeds) \in holders

\* The newest pair is found afterwards as it was before.
LEMMA PairStays ==
    ASSUME AccessInv, NEW p \in Procs, PairUntouched(p)
    PROVE  PairIsFound'
<1>1. /\ \A q \in Procs \cap holders' : proc'[q].seed = seeds' /\ proc'[q].at \notin {"off", "serving"}
      /\ "row" \in holders' => token' = seeds'
    BY PlacesDiffer DEF AccessInv, Active, PairIsFound, PairUntouched, OnlyOf
<1>2. Source(seeds)' = Source(seeds) /\ Source(seeds) # p
    BY PlacesDiffer DEF PairUntouched, Source
<1>3. ASSUME NEW q \in holders \cap Procs, \A x \in holders : x = q, \A r \in Procs : Storing(r) <=> r = q
      PROVE  /\ q \in holders' /\ \A x \in holders' : x = q
             /\ \A r \in Procs : Storing(r)' <=> r = q
    <2>1. q # p /\ Source(seeds) # q
        BY <1>3, PlacesDiffer DEF PairUntouched, Source
    <2> QED
        BY <1>3, <2>1 DEF PairUntouched, OnlyOf, Active, Storing
<1>4. ASSUME ~mishap', Source(seeds) \in holders, \A q \in Procs : ~Storing(q)
      PROVE  Source(seeds)' \in holders' /\ \A q \in Procs : ~Storing(q)'
    BY <1>2, <1>4 DEF PairUntouched, OnlyOf, Active, Storing
<1> QED
    BY <1>1, <1>3, <1>4 DEF AccessInv, Active, PairIsFound, PairUntouched

\* Process p takes a step that changes no webhook. Behind its refresh it already held the newest pair.
HooksUntouched(p) ==
    /\ OnlyOf(p) /\ UNCHANGED hooks
    /\ \A q \in Procs : (q # p /\ q \in holders') => q \in holders
    /\ p \in holders' => proc'[p].at = "refresh" \/ (p \in holders /\ proc[p].at # "refresh")
    /\ (p \in holders' /\ proc'[p].at = "create") => hooks = {}
    /\ proc'[p].at \in {"update", "persist"} => proc'[p].hook = 1
    /\ registered' => secret' = 1

\* Still one process, at most, is past its refresh with the newest pair.
LEMMA HooksStay ==
    ASSUME AccessInv, NEW p \in Procs, HooksUntouched(p)
    PROVE  OneRegistrar'
<1>1. ASSUME NEW q \in Procs, NEW r \in Procs, q \in holders', r \in holders',
             proc'[q].at # "refresh", proc'[r].at # "refresh"
      PROVE  q = r
    <2>1. \A s \in {q, r} : s \in holders /\ proc[s].at # "refresh"
        BY <1>1 DEF HooksUntouched, OnlyOf, Active
    <2> QED
        BY <2>1 DEF AccessInv, Active, OneRegistrar
<1>2. /\ \A q \in Procs \cap holders' : proc'[q].at = "create" => hooks' = {}
      /\ \A q \in Procs : proc'[q].at \in {"update", "persist"} => proc'[q].hook = 1
    BY DEF AccessInv, Active, OneRegistrar, HooksUntouched, OnlyOf
<1> QED
    BY <1>1, <1>2 DEF AccessInv, Active, OneRegistrar, HooksUntouched

-----------------------------------------------------------------------------
(* The steps *)

\* At first the pair is in the seed, and at most one webhook was made by hand.
LEMMA InitAccess == AccessInit => AccessInv
<1> SUFFICES ASSUME AccessInit PROVE AccessInv
    OBVIOUS
<1>1. hooks \subseteq [id : {1}, shape : Shapes, paused : BOOLEAN] /\ \A h, k \in hooks : h = k
    <2>1. CASE hooks = {}
        BY <2>1
    <2>2. CASE \E s \in Shapes : hooks = {[id |-> 1, shape |-> s, paused |-> FALSE]}
        <3>1. PICK s \in Shapes : hooks = {[id |-> 1, shape |-> s, paused |-> FALSE]}
            BY <2>2
        <3> QED
            BY <3>1
    <2> QED
        BY <2>1, <2>2 DEF AccessInit
<1>6. AccessTyped
    <2>1. NewProcess \in Process
        BY DEF NewProcess, Process, Places
    <2>2. proc \in [Procs -> Process]
        BY <2>1 DEF AccessInit
    <2>3. web.seed = 1 /\ web.shape \in Shapes
        BY AccessAssumption DEF AccessInit
    <2>4. seeds = 1 /\ token = 0 /\ events = 1 /\ holders \subseteq Procs \cup {"row", "seed"}
        BY DEF AccessInit
    <2>5. post = {} /\ paying = Patrons /\ known = {} /\ mishap = FALSE /\ registered = FALSE
        BY DEF AccessInit
    <2>6. \A p \in Procs : proc[p].seed = 0 /\ ~Active(p)
        BY DEF AccessInit, NewProcess, Active
    <2> QED
        <3>1. seeds \in Nat \ {0} /\ token \in 0 .. seeds /\ events \in 1 .. seeds /\ web.seed \in 1 .. seeds
            BY <2>3, <2>4
        <3>2. \A p \in Procs : proc[p].seed <= seeds
            BY <2>4, <2>6
        <3> QED
            BY <1>1, <2>2, <2>3, <2>4, <2>5, <2>6, <3>1, <3>2, PlacesDiffer DEF AccessTyped
<1>2. \A p \in Procs : proc[p] = NewProcess
    BY DEF AccessInit
<1>3. PairIsFound
    <2>1. seeds = 1 /\ token = 0 /\ holders = {"seed"}
        BY DEF AccessInit
    <2>2. /\ \A p \in Procs : p \notin holders
          /\ \A p \in Procs : ~Storing(p)
        BY <1>2, <2>1, PlacesDiffer DEF Storing, NewProcess
    <2>3. Source(seeds) \in holders /\ "row" \notin holders
        BY <2>1 DEF Source
    <2> QED
        BY <2>2, <2>3 DEF PairIsFound
<1>4. OneRegistrar
    BY <1>1, <1>2, PlacesDiffer DEF AccessInit, OneRegistrar, NewProcess
<1>5. RosterIsFull
    BY <1>2, PlacesDiffer DEF AccessInit, RosterIsFull, NewProcess
<1> QED
    BY <1>3, <1>4, <1>5, <1>6 DEF AccessInv

\* The steps that neither move a process nor the pair.
LEMMA SettingsStep ==
    ASSUME AccessInv, ReleaseWeb \/ ReleaseEvents \/ (\E d \in post : Deliver(d) \/ DeliveryFails(d))
    PROVE  AccessInv'
<1>1. /\ UNCHANGED <<seeds, paying, token, secret, proc, holders, mishap, registered>>
      /\ events' \in {events, seeds} /\ known' \subseteq Patrons /\ post' \subseteq post
      /\ web'.seed \in {web.seed, seeds} /\ web'.shape \in Shapes
    BY DEF AccessInv, Active, AccessTyped, ReleaseWeb, ReleaseEvents, Deliver, DeliveryFails, Told
<1>2. /\ hooks' \subseteq [id : {1}, shape : Shapes, paused : BOOLEAN]
      /\ (hooks = {} => hooks' = {}) /\ \A h, k \in hooks' : h = k
    <2>1. CASE hooks' = hooks
        BY <2>1 DEF AccessInv, Active, AccessTyped, OneRegistrar
    <2>2. CASE \E d \in post : hooks' = {IF h.id = d.hook THEN [h EXCEPT !.paused = TRUE] ELSE h : h \in hooks}
        BY <2>2 DEF AccessInv, Active, AccessTyped, OneRegistrar
    <2> QED
        BY <2>1, <2>2 DEF ReleaseWeb, ReleaseEvents, Deliver, DeliveryFails
<1>3. AccessTyped'
    BY <1>1, <1>2 DEF AccessInv, Active, AccessTyped
<1>4. PairIsFound' /\ RosterIsFull'
    BY <1>1 DEF AccessInv, Active, PairIsFound, RosterIsFull, Storing, Source
<1>5. OneRegistrar'
    <2>1. \A p \in Procs \cap holders : proc[p].at = "create" => hooks' = {}
        BY <1>2 DEF AccessInv, Active, OneRegistrar
    <2>2. proc' = proc /\ holders' = holders /\ registered' = registered /\ secret' = secret
        BY <1>1
    <2> QED
        BY <1>2, <2>1, <2>2 DEF AccessInv, Active, OneRegistrar
<1> QED
    BY <1>3, <1>4, <1>5 DEF AccessInv

\* The new pair ends every other.
LEMMA RefreshStep == ASSUME AccessInv, NEW p \in Procs, Refresh(p) PROVE AccessInv'
<1>1. /\ OnlyOf(p) /\ proc[p].at = "refresh" /\ proc'[p].at \in {"store", "off", "serving"}
      /\ (p = Job => proc'[p].at # "serving")
      /\ p \in holders => holders' = {p} /\ proc'[p].at = "store" /\ proc'[p].seed = proc[p].seed
                          /\ proc'[p].dipped = proc[p].dipped
      /\ p \notin holders => holders' = holders /\ proc'[p].at # "store"
      /\ UNCHANGED <<seeds, hooks, paying, post, web, events, token, secret, known, mishap, registered>>
    BY Moved, GaveUp, PlacesDiffer DEF AccessInv, Active, Refresh, Places
<1>2. AccessTyped'
    BY <1>1, PlacesDiffer, AccessAssumption DEF AccessInv, AccessTyped, OnlyOf, Active
<1>3. PairIsFound'
    <2>1. CASE p \in holders
        <3>1. OnlyOf(p) /\ Storing(p)' /\ holders' = {p} /\ seeds' = seeds /\ proc'[p].seed = seeds
            BY <1>1, <2>1 DEF AccessInv, Active, PairIsFound, Storing
        <3>2. ASSUME ~mishap, NEW q \in Procs, Storing(q) PROVE q = p
            BY <1>1, <2>1, <3>2 DEF AccessInv, Active, PairIsFound, Storing
        <3>3. ~mishap' => \A q \in Procs : Storing(q)' <=> q = p
            BY <1>1, <3>1, <3>2 DEF OnlyOf, Active, Storing
        <3> QED
            BY <2>1, <3>1, <3>3, PlacesDiffer DEF PairIsFound, Storing, Active
    <2>2. CASE p \notin holders
        BY <1>1, <2>2, PairStays DEF PairUntouched, Storing, Active
    <2> QED
        BY <2>1, <2>2
<1>4. OneRegistrar'
    <2>1. CASE p \in holders
        <3>1. OnlyOf(p) /\ Storing(p)' /\ holders' = {p} /\ UNCHANGED <<hooks, registered, secret>>
            BY <1>1, <2>1 DEF Storing
        <3> QED
            BY <3>1 DEF AccessInv, Active, OneRegistrar, Storing, OnlyOf
    <2>2. CASE p \notin holders
        BY <1>1, <2>2, HooksStay DEF HooksUntouched, AccessInv, OneRegistrar
    <2> QED
        BY <2>1, <2>2
<1>5. RosterIsFull'
    BY <1>1, PlacesDiffer, AccessAssumption DEF AccessInv, Active, AccessTyped, RosterIsFull, OnlyOf
<1> QED
    BY <1>2, <1>3, <1>4, <1>5 DEF AccessInv

\* The newest pair stays where it was, or its loss is recorded.
LEMMA RefreshFailsStep == ASSUME AccessInv, NEW p \in Procs, RefreshFails(p) PROVE AccessInv'
<1>1. /\ OnlyOf(p) /\ proc[p].at = "refresh" /\ proc'[p].at \in {"off", "serving"}
      /\ (p = Job => proc'[p].at # "serving")
      /\ \/ holders' = holders \ {p} /\ UNCHANGED mishap
         \/ holders' = {} /\ mishap' = TRUE
      /\ UNCHANGED <<seeds, hooks, paying, post, web, events, token, secret, known, registered>>
    BY GaveUp, PlacesDiffer DEF AccessInv, Active, RefreshFails, Drop, Places
<1>2. AccessTyped'
    BY <1>1, PlacesDiffer, AccessAssumption DEF AccessInv, AccessTyped, OnlyOf, Active
<1>3. PairIsFound'
    <2>1. CASE holders' = holders \ {p} /\ UNCHANGED mishap
        BY <1>1, <2>1, PairStays DEF PairUntouched, Storing, Active
    <2>2. CASE holders' = {} /\ mishap' = TRUE
        BY <2>2 DEF PairIsFound
    <2> QED
        BY <1>1, <2>1, <2>2
<1>4. OneRegistrar'
    BY <1>1, HooksStay, PlacesDiffer DEF AccessInv, Active, OneRegistrar, HooksUntouched
<1>5. RosterIsFull'
    BY <1>1, PlacesDiffer, AccessAssumption DEF AccessInv, Active, AccessTyped, RosterIsFull, OnlyOf
<1> QED
    BY <1>2, <1>3, <1>4, <1>5 DEF AccessInv

\* The row takes the pair of the one process that had to store it.
LEMMA StoreStep == ASSUME AccessInv, NEW p \in Procs, StoreCreatorToken(p) PROVE AccessInv'
<1>1. /\ OnlyOf(p) /\ proc[p].at = "store" /\ proc'[p].seed = proc[p].seed
      /\ proc'[p].at = (IF p = Job THEN "page1" ELSE "list") /\ proc'[p].dipped = proc[p].dipped
      /\ token' = proc[p].seed
      /\ holders' = IF p \in holders THEN holders \cup {"row"} ELSE holders \ {"row"}
      /\ UNCHANGED <<seeds, hooks, paying, post, web, events, secret, known, mishap, registered>>
    BY Moved, PlacesDiffer DEF AccessInv, Active, StoreCreatorToken, StoredSeed, Places
<1>2. AccessTyped'
    <2>1. proc[p].seed \in 0 .. seeds
        BY DEF AccessInv, Active, AccessTyped, Process
    <2> QED
        BY <1>1, <2>1, PlacesDiffer DEF AccessInv, AccessTyped, OnlyOf, Active
<1>3. PairIsFound'
    BY <1>1, PlacesDiffer, AccessAssumption DEF AccessInv, Active, AccessTyped, PairIsFound, Storing, Source, OnlyOf
<1>4. OneRegistrar'
    BY <1>1, HooksStay, PlacesDiffer DEF AccessInv, Active, OneRegistrar, HooksUntouched
<1>5. RosterIsFull'
    BY <1>1, PlacesDiffer, AccessAssumption DEF AccessInv, Active, AccessTyped, RosterIsFull, OnlyOf
<1> QED
    BY <1>2, <1>3, <1>4, <1>5 DEF AccessInv

\* The process gives up; the row, if it held the pair, still does.
LEMMA CallFailsStep == ASSUME AccessInv, NEW p \in Procs, CallFails(p) PROVE AccessInv'
<1>1. /\ OnlyOf(p) /\ proc[p].at \notin {"off", "refresh", "store", "serving"}
      /\ proc'[p].at \in {"off", "serving"} /\ (p = Job => proc'[p].at # "serving")
      /\ holders' = holders \ {p}
      /\ UNCHANGED <<seeds, hooks, paying, post, web, events, token, secret, known, mishap, registered>>
    BY GaveUp, PlacesDiffer DEF AccessInv, Active, CallFails, Abandon, Drop
<1>2. AccessTyped'
    BY <1>1, PlacesDiffer, AccessAssumption DEF AccessInv, AccessTyped, OnlyOf, Active
<1>3. PairIsFound'
    BY <1>1, PairStays, PlacesDiffer DEF AccessInv, Active, AccessTyped, PairIsFound, PairUntouched, Storing, Source
<1>4. OneRegistrar'
    BY <1>1, HooksStay, PlacesDiffer DEF AccessInv, Active, OneRegistrar, HooksUntouched
<1>5. RosterIsFull'
    BY <1>1, PlacesDiffer, AccessAssumption DEF AccessInv, Active, AccessTyped, RosterIsFull, OnlyOf
<1> QED
    BY <1>2, <1>3, <1>4, <1>5 DEF AccessInv

\* A crash between refresh and storing is a mishap; any other loses nothing.
LEMMA CrashStep == ASSUME AccessInv, NEW p \in Procs, Die(p) PROVE AccessInv'
<1>1. /\ OnlyOf(p) /\ proc'[p].at = "off" /\ holders' = holders \ {p}
      /\ mishap' = (mishap \/ (proc[p].at = "store" /\ p \in holders))
      /\ UNCHANGED <<seeds, hooks, paying, post, web, events, token, secret, known, registered>>
    BY Ended, PlacesDiffer DEF AccessInv, Active, Die, Drop
<1>2. AccessTyped'
    BY <1>1, PlacesDiffer, AccessAssumption DEF AccessInv, AccessTyped, OnlyOf, Active
<1>3. PairIsFound'
    <2>1. CASE Storing(p)
        BY <1>1, <2>1, PlacesDiffer DEF AccessInv, Active, PairIsFound, Storing, Source, OnlyOf
    <2>2. CASE ~Storing(p)
        BY <1>1, <2>2, PairStays DEF AccessInv, Active, AccessTyped, PairUntouched, Storing
    <2> QED
        BY <2>1, <2>2
<1>4. OneRegistrar'
    BY <1>1, PlacesDiffer, AccessAssumption DEF AccessInv, Active, AccessTyped, PairIsFound, OneRegistrar, OnlyOf
<1>5. RosterIsFull'
    BY <1>1, PlacesDiffer, AccessAssumption DEF AccessInv, Active, AccessTyped, RosterIsFull, OnlyOf
<1> QED
    BY <1>2, <1>3, <1>4, <1>5 DEF AccessInv

\* The new seed is the newest pair, wherever the others were.
LEMMA ReseedStep == ASSUME AccessInv, Reseed PROVE AccessInv'
<1>1. /\ seeds' = seeds + 1 /\ holders' = {"seed"} /\ mishap' = \E p \in Procs : Storing(p)
      /\ UNCHANGED <<hooks, paying, post, web, events, token, secret, known, proc, registered>>
    BY PlacesDiffer DEF AccessInv, Active, Reseed, Storing
<1>2. AccessTyped'
    <2>1. mishap' \in BOOLEAN
        BY <1>1, Zenon
    <2> QED
        <3>1. /\ seeds' \in Nat \ {0} /\ token' \in 0 .. seeds' /\ events' \in 1 .. seeds' /\ web'.seed \in 1 .. seeds'
              /\ \A p \in Procs : proc[p].seed <= seeds'
            BY <1>1 DEF AccessInv, Active, AccessTyped, Process
        <3> QED
            BY <1>1, <2>1, <3>1 DEF AccessInv, Active, AccessTyped
<1>3. PairIsFound'
    BY <1>1, PlacesDiffer, AccessAssumption DEF AccessInv, Active, AccessTyped, PairIsFound, Storing, Source, OnlyOf
<1>4. OneRegistrar'
    BY <1>1, PlacesDiffer, AccessAssumption DEF AccessInv, Active, AccessTyped, PairIsFound, OneRegistrar, OnlyOf
<1>5. RosterIsFull'
    BY <1>1, PlacesDiffer, AccessAssumption DEF AccessInv, Active, AccessTyped, RosterIsFull, OnlyOf
<1> QED
    BY <1>2, <1>3, <1>4, <1>5 DEF AccessInv

\* A web process boots under the seed of its release.
LEMMA BootStep == ASSUME AccessInv, NEW p \in Webs, Boot(p) PROVE AccessInv'
<1>1. /\ OnlyOf(p) /\ proc[p].at = "off" /\ proc'[p].at = "refresh" /\ proc'[p].seed = web.seed
      /\ holders' = IF Source(web.seed) \in holders THEN holders \cup {p} ELSE holders \ {p}
      /\ UNCHANGED <<seeds, hooks, paying, post, web, events, token, secret, known, mishap, registered>>
    BY TokenLoaded, PlacesDiffer DEF AccessInv, Active, AccessTyped, Boot
<1>2. AccessTyped'
    BY <1>1, PlacesDiffer, AccessAssumption DEF AccessInv, AccessTyped, OnlyOf, Active
<1>3. PairIsFound'
    BY <1>1, PairStays, PlacesDiffer DEF AccessInv, Active, AccessTyped, PairIsFound, PairUntouched, Storing, Source
<1>4. OneRegistrar'
    BY <1>1, HooksStay, PlacesDiffer DEF AccessInv, Active, OneRegistrar, HooksUntouched
<1>5. RosterIsFull'
    BY <1>1, PlacesDiffer, AccessAssumption DEF AccessInv, Active, AccessTyped, RosterIsFull, OnlyOf
<1> QED
    BY <1>2, <1>3, <1>4, <1>5 DEF AccessInv

\* Who lists the webhooks finds none, or the one to adopt.
LEMMA ListStep == ASSUME AccessInv, NEW p \in Webs, ListWebhooks(p) PROVE AccessInv'
<1>1. /\ OnlyOf(p) /\ p \in holders /\ proc[p].at = "list" /\ proc'[p].seed = proc[p].seed
      /\ proc'[p].at \in {"create", "update", "persist"}
      /\ IF proc'[p].at = "create" THEN hooks = {} ELSE proc'[p].hook = 1
      /\ UNCHANGED <<seeds, hooks, paying, post, web, events, token, secret, known, holders, mishap, registered>>
    BY Moved, Adopted, PlacesDiffer DEF AccessInv, Active, ListWebhooks, Matching, Places
<1>2. AccessTyped'
    BY <1>1, PlacesDiffer, AccessAssumption DEF AccessInv, AccessTyped, OnlyOf, Active
<1>3. PairIsFound'
    BY <1>1, PairStays, PlacesDiffer DEF AccessInv, Active, AccessTyped, PairIsFound, PairUntouched, Storing, Source
<1>4. OneRegistrar'
    BY <1>1, HooksStay, PlacesDiffer DEF AccessInv, Active, OneRegistrar, HooksUntouched
<1>5. RosterIsFull'
    BY <1>1, PlacesDiffer, AccessAssumption DEF AccessInv, Active, AccessTyped, RosterIsFull, OnlyOf
<1> QED
    BY <1>2, <1>3, <1>4, <1>5 DEF AccessInv

\* The update keeps the webhook's id.
LEMMA UpdateStep == ASSUME AccessInv, NEW p \in Webs, UpdateWebhook(p) PROVE AccessInv'
<1>1. /\ OnlyOf(p) /\ p \in holders /\ proc[p].at = "update" /\ proc'[p].seed = proc[p].seed
      /\ proc'[p].at = "persist" /\ proc'[p].hook = proc[p].hook
      /\ hooks' \subseteq [id : {1}, shape : Shapes, paused : BOOLEAN] /\ (hooks = {} => hooks' = {})
      /\ \A h, k \in hooks' : h = k
      /\ UNCHANGED <<seeds, paying, post, web, events, token, secret, known, holders, mishap, registered>>
    <2>1. MoveTo(p, "persist") /\ "persist" \in Places
        BY DEF UpdateWebhook, Places
    <2>2. /\ hooks' \subseteq [id : {1}, shape : Shapes, paused : BOOLEAN] /\ (hooks = {} => hooks' = {})
          /\ \A h, k \in hooks' : h = k
        <3>1. proc[p].shape \in Shapes
            BY DEF AccessInv, Active, AccessTyped, UpdateWebhook
        <3>2. \A h \in hooks : [h EXCEPT !.shape = proc[p].shape] \in [id : {1}, shape : Shapes, paused : BOOLEAN]
            BY <3>1 DEF AccessInv, Active, AccessTyped
        <3> QED
            BY <3>2 DEF AccessInv, Active, AccessTyped, OneRegistrar, UpdateWebhook
    <2> QED
        BY Moved, PlacesDiffer, <2>1, <2>2 DEF AccessInv, Active, UpdateWebhook
<1>2. AccessTyped'
    BY <1>1, PlacesDiffer, AccessAssumption DEF AccessInv, AccessTyped, OnlyOf, Active
<1>3. PairIsFound'
    BY <1>1, PairStays, PlacesDiffer DEF AccessInv, Active, AccessTyped, PairIsFound, PairUntouched, Storing, Source
<1>4. OneRegistrar'
    BY <1>1, PlacesDiffer, AccessAssumption DEF AccessInv, Active, AccessTyped, PairIsFound, OneRegistrar, OnlyOf
<1>5. RosterIsFull'
    BY <1>1, PlacesDiffer, AccessAssumption DEF AccessInv, Active, AccessTyped, RosterIsFull, OnlyOf
<1> QED
    BY <1>2, <1>3, <1>4, <1>5 DEF AccessInv

\* The secret that is stored is that of the webhook.
LEMMA PersistStep == ASSUME AccessInv, NEW p \in Webs, Persist(p) PROVE AccessInv'
<1>1. /\ OnlyOf(p) /\ proc[p].at = "persist" /\ proc'[p].at = "serving" /\ holders' = holders \ {p}
      /\ (secret' = 1 /\ registered' = TRUE) \/ UNCHANGED <<secret, registered>>
      /\ UNCHANGED <<seeds, hooks, paying, post, web, events, token, known, mishap>>
    BY GaveUp, PlacesDiffer DEF AccessInv, Active, Persist, Drop, OneRegistrar
<1>2. AccessTyped'
    BY <1>1, PlacesDiffer, AccessAssumption DEF AccessInv, AccessTyped, OnlyOf, Active
<1>3. PairIsFound'
    BY <1>1, PairStays, PlacesDiffer DEF AccessInv, Active, AccessTyped, PairIsFound, PairUntouched, Storing, Source
<1>4. OneRegistrar'
    BY <1>1, HooksStay, PlacesDiffer DEF AccessInv, Active, OneRegistrar, HooksUntouched
<1>5. RosterIsFull'
    BY <1>1, PlacesDiffer, AccessAssumption DEF AccessInv, Active, AccessTyped, RosterIsFull, OnlyOf
<1> QED
    BY <1>2, <1>3, <1>4, <1>5 DEF AccessInv

\* A process that serves holds no pair.
LEMMA StopStep == ASSUME AccessInv, NEW p \in Webs, Stop(p) PROVE AccessInv'
<1>1. /\ OnlyOf(p) /\ proc[p].at = "serving" /\ proc'[p].at = "off"
      /\ UNCHANGED <<seeds, hooks, paying, post, web, events, token, secret, known, holders, mishap, registered>>
    BY Ended, PlacesDiffer DEF AccessInv, Active, Stop
<1>2. AccessTyped'
    BY <1>1, PlacesDiffer, AccessAssumption DEF AccessInv, AccessTyped, OnlyOf, Active
<1>3. PairIsFound'
    BY <1>1, PairStays, PlacesDiffer DEF AccessInv, Active, AccessTyped, PairIsFound, PairUntouched, Storing, Source
<1>4. OneRegistrar'
    BY <1>1, HooksStay, PlacesDiffer DEF AccessInv, Active, OneRegistrar, HooksUntouched
<1>5. RosterIsFull'
    BY <1>1, PlacesDiffer, AccessAssumption DEF AccessInv, Active, AccessTyped, RosterIsFull, OnlyOf
<1> QED
    BY <1>2, <1>3, <1>4, <1>5 DEF AccessInv

\* The job starts with everybody noted who does not pay.
LEMMA StartCheckStep == ASSUME AccessInv, StartCheck PROVE AccessInv'
<1>1. /\ OnlyOf(Job) /\ proc[Job].at = "off" /\ proc'[Job].at = "refresh" /\ proc'[Job].seed = events
      /\ proc'[Job].dipped = Patrons \ paying
      /\ holders' = IF Source(events) \in holders THEN holders \cup {Job} ELSE holders \ {Job}
      /\ UNCHANGED <<seeds, hooks, paying, post, web, events, token, secret, known, mishap, registered>>
    <2>1. /\ events \in 0 .. seeds /\ Patrons \ paying \in SUBSET Patrons /\ Job \in Procs /\ (Job \in Webs => FALSE)
          /\ AccessTyped
        BY PlacesDiffer DEF AccessInv, AccessTyped
    <2>2. LoadCreatorState(Job, events, "none", Patrons \ paying)
        BY DEF StartCheck
    <2>3. "none" \in Shapes \cup {"none"}
        OBVIOUS
    <2> QED
        BY TokenLoaded, <2>1, <2>2, <2>3 DEF StartCheck
<1>2. AccessTyped'
    BY <1>1, PlacesDiffer, AccessAssumption DEF AccessInv, AccessTyped, OnlyOf, Active
<1>3. PairIsFound'
    BY <1>1, PairStays, PlacesDiffer DEF AccessInv, Active, AccessTyped, PairIsFound, PairUntouched, Storing, Source
<1>4. OneRegistrar'
    BY <1>1, HooksStay, PlacesDiffer DEF AccessInv, Active, OneRegistrar, HooksUntouched
<1>5. RosterIsFull'
    BY <1>1, PlacesDiffer, AccessAssumption DEF AccessInv, Active, AccessTyped, RosterIsFull, OnlyOf
<1> QED
    BY <1>2, <1>3, <1>4, <1>5 DEF AccessInv

\* The run ends and forgets what it noted.
LEMMA ReconcileStep == ASSUME AccessInv, Reconcile PROVE AccessInv'
<1>1. /\ OnlyOf(Job) /\ proc[Job].at = "apply" /\ proc'[Job].at = "off"
      /\ known' = proc[Job].roster /\ holders' = holders \ {Job}
      /\ UNCHANGED <<seeds, hooks, paying, post, web, events, token, secret, mishap, registered>>
    BY Ended, PlacesDiffer DEF AccessInv, Active, Reconcile, Drop
<1>2. AccessTyped'
    BY <1>1, PlacesDiffer, AccessAssumption DEF AccessInv, Active, AccessTyped, OnlyOf, Process
<1>3. PairIsFound'
    BY <1>1, PairStays, PlacesDiffer DEF AccessInv, Active, AccessTyped, PairIsFound, PairUntouched, Storing, Source
<1>4. OneRegistrar'
    BY <1>1, HooksStay, PlacesDiffer DEF AccessInv, Active, OneRegistrar, HooksUntouched
<1>5. RosterIsFull'
    BY <1>1, PlacesDiffer, AccessAssumption DEF AccessInv, Active, AccessTyped, RosterIsFull, OnlyOf
<1> QED
    BY <1>2, <1>3, <1>4, <1>5 DEF AccessInv

\* The process creating the webhook found none, and none was created since.
LEMMA CreateStep == ASSUME AccessInv, NEW p \in Webs, CreateWebhook(p) PROVE AccessInv'
<1>1. /\ p \in Procs /\ p \in holders /\ proc[p].at = "create" /\ hooks = {} /\ proc[p].shape \in Shapes
      /\ proc[p] \in Process
    BY PlacesDiffer DEF AccessInv, AccessTyped, OneRegistrar, CreateWebhook, Active
<1>2. hooks' = {[id |-> 1, shape |-> proc[p].shape, paused |-> FALSE]}
    BY <1>1, FS_EmptySet DEF CreateWebhook
<1>3. /\ UNCHANGED <<seeds, paying, post, web, events, token, secret, known, mishap, registered>>
      /\ \/ proc' = [proc EXCEPT ![p].hook = 1, ![p].at = "persist"] /\ holders' = holders
         \/ GiveUp(p) /\ Drop(p)
    BY <1>1, FS_EmptySet DEF CreateWebhook
<1>4. /\ OnlyOf(p)
      /\ \/ proc'[p].at = "persist" /\ proc'[p].hook = 1 /\ proc'[p].seed = proc[p].seed /\ holders' = holders
         \/ proc'[p].at = "serving" /\ holders' = holders \ {p}
    <2>1. CASE proc' = [proc EXCEPT ![p].hook = 1, ![p].at = "persist"] /\ holders' = holders
        <3>1. proc' = [proc EXCEPT ![p] = [proc[p] EXCEPT !.hook = 1, !.at = "persist"]]
            BY <1>1, <2>1 DEF AccessInv, AccessTyped, Process
        <3>2. [proc[p] EXCEPT !.hook = 1, !.at = "persist"] \in Process
            BY <1>1 DEF Process, Places
        <3>3. /\ proc'[p] = [proc[p] EXCEPT !.hook = 1, !.at = "persist"]
              /\ \A q \in Procs : q # p => proc'[q] = proc[q]
              /\ proc' \in [Procs -> Process]
            BY <1>1, <3>1, <3>2 DEF AccessInv, AccessTyped
        <3> QED
            BY <1>1, <2>1, <3>3 DEF AccessInv, AccessTyped, OnlyOf, Process, Active
    <2>2. CASE GiveUp(p) /\ Drop(p)
        BY <1>1, <2>2, GaveUp, PlacesDiffer DEF AccessInv, Drop
    <2> QED
        BY <1>3, <2>1, <2>2
<1>5. AccessTyped'
    <2>1. hooks' \subseteq [id : {1}, shape : Shapes, paused : BOOLEAN] /\ holders' \subseteq holders
        BY <1>1, <1>2, <1>4
    <2> QED
        BY <1>3, <1>4, <2>1, PlacesDiffer DEF AccessInv, AccessTyped, OnlyOf, Active
<1>6. PairIsFound'
    BY <1>1, <1>3, <1>4, PairStays, PlacesDiffer DEF AccessInv, PairIsFound, PairUntouched, Storing, Active
<1>7. OneRegistrar'
    <2>1. \A q \in Procs : q \in holders' /\ proc'[q].at # "refresh" => q = p
        BY <1>1, <1>4 DEF AccessInv, OneRegistrar, OnlyOf
    <2> QED
        BY <1>1, <1>2, <1>3, <1>4, <2>1 DEF AccessInv, OneRegistrar, OnlyOf
<1>8. RosterIsFull'
    BY <1>1, <1>3, <1>4, PlacesDiffer DEF AccessInv, AccessTyped, RosterIsFull, OnlyOf, Active
<1> QED
    BY <1>5, <1>6, <1>7, <1>8 DEF AccessInv

\* A patron who stops paying during a run of the job is noted in it.
LEMMA ChangeStep == ASSUME AccessInv, NEW m \in Patrons, Change(m) PROVE AccessInv'
<1>1. /\ UNCHANGED <<seeds, hooks, web, events, token, secret, known, holders, mishap, registered>>
      /\ paying' \subseteq Patrons
    BY DEF AccessInv, AccessTyped, Change
<1>2. post' \subseteq [patron : Patrons, pays : BOOLEAN, hook : {1}]
    <2>1. \A b \in BOOLEAN : \A h \in hooks :
            [patron |-> m, pays |-> b, hook |-> h.id] \in [patron : Patrons, pays : BOOLEAN, hook : {1}]
        BY DEF AccessInv, AccessTyped
    <2>2. (m \notin paying) \in BOOLEAN
        OBVIOUS
    <2>3. \A h \in hooks : [patron |-> m, pays |-> m \notin paying, hook |-> h.id] \in [patron : Patrons, pays : BOOLEAN, hook : {1}]
        BY <2>1, <2>2, Zenon
    <2>4. post' = post \cup {[patron |-> m, pays |-> m \notin paying, hook |-> h.id] : h \in {x \in hooks : ~x.paused}}
        BY DEF Change
    <2> QED
        BY <2>3, <2>4, Zenon DEF AccessInv, AccessTyped
<1>3. /\ OnlyOf(Job) /\ proc'[Job].at = proc[Job].at /\ proc'[Job].seed = proc[Job].seed
      /\ proc'[Job].roster = proc[Job].roster /\ proc'[Job].hook = proc[Job].hook
      /\ proc[Job].at # "off" => /\ Patrons \ paying' \subseteq proc'[Job].dipped
                                 /\ proc[Job].dipped \subseteq proc'[Job].dipped
    <2>1. CASE m \notin paying \/ proc[Job].at = "off"
        BY <2>1, PlacesDiffer DEF Change, AccessInv, AccessTyped, RosterIsFull, OnlyOf, Active
    <2>2. CASE m \in paying /\ proc[Job].at # "off"
        BY <2>2, PlacesDiffer DEF Change, AccessInv, AccessTyped, RosterIsFull, OnlyOf, Process, Active
    <2> QED
        BY <2>1, <2>2
<1>4. AccessTyped'
    BY <1>1, <1>2, <1>3, PlacesDiffer DEF AccessInv, AccessTyped, OnlyOf, Active
<1>5. PairIsFound'
    <2>1. /\ \A p \in Procs : (Storing(p)' <=> Storing(p)) /\ proc'[p].seed = proc[p].seed /\ (Active(p)' <=> Active(p))
          /\ Source(seeds)' = Source(seeds)
        BY <1>1, <1>3 DEF OnlyOf, Storing, Active, Source
    <2> QED
        BY <1>1, <2>1 DEF AccessInv, PairIsFound
<1>6. OneRegistrar'
    BY <1>1, <1>3, HooksStay, PlacesDiffer DEF AccessInv, OneRegistrar, HooksUntouched, OnlyOf
<1>7. RosterIsFull'
    BY <1>1, <1>3, PlacesDiffer DEF AccessInv, RosterIsFull, OnlyOf
<1> QED
    BY <1>4, <1>5, <1>6, <1>7 DEF AccessInv

\* Who pays is on the page, and who does not is noted.
LEMMA ReadPageStep == ASSUME AccessInv, NEW n \in 1 .. 2, ReadPage(n) PROVE AccessInv'
<1>1. /\ UNCHANGED <<seeds, hooks, paying, post, web, events, token, secret, known, holders, mishap, registered>>
      /\ proc[Job].at \in {"page1", "page2"} /\ Job \in holders
    BY DEF ReadPage
<1>2. /\ OnlyOf(Job) /\ proc'[Job].seed = proc[Job].seed /\ proc'[Job].hook = proc[Job].hook
      /\ proc'[Job].dipped = proc[Job].dipped
      /\ proc'[Job].roster = proc[Job].roster \cup {m \in paying : PageOf[m] = n}
      /\ n = 1 => proc'[Job].at = "page2"
      /\ n = 2 => proc[Job].at = "page2" /\ proc'[Job].at = "apply"
    <2> DEFINE next == IF n = 1 THEN "page2" ELSE "apply"
    <2>1. proc' = [proc EXCEPT ![Job] = [proc[Job] EXCEPT !.roster = @ \cup {m \in paying : PageOf[m] = n}, !.at = next]]
        BY PlacesDiffer DEF AccessInv, AccessTyped, Process, ReadPage
    <2>2. proc[Job] \in Process /\ next \in Places
        BY PlacesDiffer DEF AccessInv, AccessTyped, Places
    <2> QED
        <3>1. [proc[Job] EXCEPT !.roster = @ \cup {m \in paying : PageOf[m] = n}, !.at = next] \in Process
            BY <2>2 DEF AccessInv, AccessTyped, Process
        <3>2. /\ proc'[Job] = [proc[Job] EXCEPT !.roster = @ \cup {m \in paying : PageOf[m] = n}, !.at = next]
              /\ \A p \in Procs : p # Job => proc'[p] = proc[p]
              /\ proc' \in [Procs -> Process]
            BY <2>1, <3>1, PlacesDiffer DEF AccessInv, AccessTyped
        <3>3. /\ proc'[Job].at = next /\ proc'[Job].roster = proc[Job].roster \cup {m \in paying : PageOf[m] = n}
              /\ proc'[Job].seed = proc[Job].seed /\ proc'[Job].hook = proc[Job].hook
              /\ proc'[Job].dipped = proc[Job].dipped
            BY <2>2, <3>2 DEF Process
        <3> QED
            BY <3>2, <3>3, PlacesDiffer DEF AccessInv, AccessTyped, OnlyOf, ReadPage
<1>3. AccessTyped'
    BY <1>1, <1>2, PlacesDiffer DEF AccessInv, AccessTyped, OnlyOf, Active
<1>4. PairIsFound'
    BY <1>1, <1>2, PairStays, PlacesDiffer DEF AccessInv, PairIsFound, PairUntouched, Storing, Active
<1>5. OneRegistrar'
    BY <1>1, <1>2, HooksStay, PlacesDiffer DEF AccessInv, OneRegistrar, HooksUntouched
<1>6. RosterIsFull'
    BY <1>1, <1>2, PlacesDiffer, AccessAssumption DEF AccessInv, AccessTyped, RosterIsFull, OnlyOf
<1> QED
    BY <1>3, <1>4, <1>5, <1>6 DEF AccessInv

-----------------------------------------------------------------------------
(* The theorems *)

\* The newest pair, the one registrar and the full roster (AccessInv) hold throughout.
THEOREM AccessCorrect == AccessSpec => []AccessInv
<1>1. AccessInv /\ [AccessNext]_accessVars => AccessInv'
    <2> SUFFICES ASSUME AccessInv, [AccessNext]_accessVars PROVE AccessInv'
        OBVIOUS
    <2>1. CASE \E p \in Procs : Acquire(p) \/ Die(p)
        BY <2>1, RefreshStep, RefreshFailsStep, StoreStep, CallFailsStep, CrashStep DEF Acquire
    <2>2. CASE \E p \in Webs : Boot(p) \/ RegisterWebhook(p) \/ Stop(p)
        BY <2>2, BootStep, ListStep, CreateStep, UpdateStep, PersistStep, StopStep DEF RegisterWebhook
    <2>3. CASE Sweep
        BY <2>3, StartCheckStep, ReadPageStep, ReconcileStep DEF Sweep
    <2>4. CASE Reseed
        BY <2>4, ReseedStep
    <2>5. CASE ReleaseWeb \/ ReleaseEvents \/ \E d \in post : Deliver(d) \/ DeliveryFails(d)
        BY <2>5, SettingsStep
    <2>6. CASE \E m \in Patrons : Change(m)
        BY <2>6, ChangeStep
    <2>7. CASE UNCHANGED accessVars
        BY <2>7 DEF accessVars, AccessInv, AccessTyped, PairIsFound, OneRegistrar, RosterIsFull, Storing, Active, Source
    <2> QED
        BY <2>1, <2>2, <2>3, <2>4, <2>5, <2>6, <2>7 DEF AccessNext
<1> QED
    BY <1>1, InitAccess, PTL DEF AccessSpec

\* However the web processes and the job refresh, store, fail and crash, and whenever an operator
\* takes a new seed, the newest pair is where the next process looks for it or is about to be
\* stored, but for the mishaps the history records.
THEOREM CredentialIsKept == AccessSpec => []CredentialIsNotLost
<1>1. AccessInv => CredentialIsNotLost
    BY DEF AccessInv, AccessTyped, PairIsFound, CredentialIsNotLost, Storing
<1> QED
    BY <1>1, AccessCorrect, PTL

\* However many processes boot at once and wherever they fail, there is one webhook; and the stored
\* secret is its own once some registration ended.
THEOREM OneWebhookThatWorks == AccessSpec => []WebhookWorks
<1>1. AccessInv => WebhookWorks
    <2> SUFFICES ASSUME AccessInv PROVE WebhookWorks
        OBVIOUS
    <2>1. Cardinality(hooks) <= 1
        <3>1. CASE hooks = {}
            BY <3>1, FS_EmptySet
        <3>2. CASE hooks # {}
            <4>1. PICK h \in hooks : hooks = {h}
                BY <3>2 DEF AccessInv, OneRegistrar
            <4>2. Cardinality({h}) = 1
                BY FS_Singleton
            <4> QED
                BY <4>1, <4>2
        <3> QED
            BY <3>1, <3>2
    <2>2. DeliveriesVerify
        BY DEF AccessInv, AccessTyped, OneRegistrar, DeliveriesVerify
    <2> QED
        BY <2>1, <2>2 DEF WebhookWorks, WebhookIsUnique
<1> QED
    BY <1>1, AccessCorrect, PTL

\* Whoever the sweep takes off the supporters did not pay at some moment of that run.
THEOREM LapsesHappened == AccessSpec => LapsesAreReal
<1>1. AccessInv => (Reconcile => known \ known' \subseteq proc[Job].dipped)
    BY DEF AccessInv, AccessTyped, RosterIsFull, Reconcile
<1>2. AccessInv /\ [AccessNext]_accessVars => [Reconcile => known \ known' \subseteq proc[Job].dipped]_accessVars
    BY <1>1
<1> QED
    BY <1>2, AccessCorrect, PTL DEF AccessSpec, LapsesAreReal

=============================================================================
