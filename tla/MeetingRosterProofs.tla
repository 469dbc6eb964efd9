------------------------- MODULE MeetingRosterProofs -------------------------
(***************************************************************************)
(* Proofs about MeetingRoster for every value of its constants.            *)
(***************************************************************************)
EXTENDS MeetingRosterRefinement, FiniteSetTheorems, SequenceTheorems, NaturalsInduction,
        WellFoundedInduction, TLAPS

-----------------------------------------------------------------------------
(* Type correctness *)

USE DEF Person, Members

LEMMA RequestOfOp ==
    ASSUME TypeOK, NEW s \in Slots, tx[s].op \in LockingOps \cup OwnerOps
    PROVE  tx[s] \in Request
<1>1. tx[s] \in Request \cup {Idle}
  BY DEF TypeOK
<1>2. CASE tx[s] = Idle
  <2>1. tx[s].op = "none"
    BY <1>2 DEF Idle
  <2>2. QED
    BY <2>1 DEF LockingOps, OwnerOps
<1>3. QED
  BY <1>1, <1>2

LEMMA StampType ==
    ASSUME TypeOK, NEW at \in Nat, Stamp(at)
    PROVE  since' \in [Person -> Nat]
BY DEF TypeOK, Stamp

LEMMA FinishType ==
    ASSUME TypeOK, NEW s \in Slots, Finish(s)
    PROVE  /\ underway' \in BOOLEAN /\ tier' \in Tiers /\ clock' \in Nat
           /\ tx' \in [Slots -> Request \cup {Idle}]
           /\ holder' \in Slots \cup {NoSlot}
           /\ view' \in View
           /\ nominated' \in SUBSET Person
<1>1. NoView \in View
  BY DEF NoView, View, Capacities
<1>2. QED
  BY <1>1 DEF TypeOK, Finish

LEMMA AskType ==
    ASSUME TypeOK, NEW op \in LockingOps \cup OwnerOps, NEW who \in Person, NEW by \in Users
    PROVE  /\ Ask(op, who, by) \in Request
           /\ \A m \in Limits \cup {NoLimit}, f \in Settings, was \in BOOLEAN :
                 Asking(op, who, by, m, f, was) \in Request
BY DEF TypeOK, Ask, Asking, Request, Settings

LEMMA BeginType ==
    ASSUME TypeOK, NEW s \in Slots, NEW r \in Request, Begin(s, r)
    PROVE  TypeOK'
BY DEF TypeOK, Begin, accountVars, rosterVars

LEMMA EraseType ==
    ASSUME TypeOK, NEW P, Erase(P)
    PROVE  /\ account' \in [Person -> {"none", "member", "joined_only", "erasing"}]
           /\ inviter' \in [Guests -> Users \cup {NoUser}]
BY DEF TypeOK, Erase

LEMMA AdmitType ==
    ASSUME TypeOK, NEW p \in Person, NEW at \in Nat, Admit(p, at)
    PROVE  /\ seated' \in SUBSET Person /\ waiting' \in SUBSET Person
           /\ since' \in [Person -> Nat]
<1>1. seated' \in SUBSET Person /\ waiting' \in SUBSET Person
  BY DEF TypeOK, Admit
<1>2. QED
  BY <1>1, StampType DEF Admit

\* Only people the holder of the lock read as waiting move up.
LEMMA PromotedByType ==
    ASSUME TypeOK, NEW r
    PROVE  /\ PromotedBy(r) \subseteq view.waiting
           /\ PromotedBy(r) \in SUBSET Person
BY DEF TypeOK, View, PromotedBy, ToPromote

LEMMA VacateType ==
    ASSUME TypeOK, NEW r, Vacate(r)
    PROVE  /\ seated' \in SUBSET Person /\ waiting' \in SUBSET Person
           /\ since' \in [Person -> Nat]
<1>1. seated' \in SUBSET Person /\ waiting' \in SUBSET Person
  BY PromotedByType DEF TypeOK, Vacate
<1>2. QED
  BY <1>1, StampType DEF Vacate

LEMMA ClearMeetingType ==
    ASSUME TypeOK, ClearMeeting
    PROVE  /\ account' \in [Person -> {"none", "member", "joined_only", "erasing"}]
           /\ inviter' \in [Guests -> Users \cup {NoUser}]
           /\ seated' \in SUBSET Person /\ waiting' \in SUBSET Person
           /\ since' \in [Person -> Nat]
BY EraseType, StampType DEF ClearMeeting

LEMMA DropLinksType ==
    ASSUME TypeOK, NEW P, DropLinks(P)
    PROVE  /\ seated' \in SUBSET Person /\ waiting' \in SUBSET Person
           /\ since' \in [Person -> Nat]
<1>1. seated' \in SUBSET Person /\ waiting' \in SUBSET Person
  BY DEF TypeOK, DropLinks
<1>2. QED
  BY <1>1, StampType DEF DropLinks

LEMMA InitType == Init => TypeOK
<1> SUFFICES ASSUME Init PROVE TypeOK
  OBVIOUS
<1>1. NoView \in View
  BY DEF NoView, View, Capacities
<1>2. meeting \in Meeting
  BY DEF Init, Meeting, Settings
<1>3. tx \in [Slots -> Request \cup {Idle}]
  BY DEF Init
<1>4. account \in [Person -> {"none", "member", "joined_only", "erasing"}]
  BY DEF Init
<1>5. QED
  BY <1>1, <1>2, <1>3, <1>4 DEF Init, TypeOK

\* A handler begins.
LEMMA StartType ==
    ASSUME TypeOK, NEW s \in Slots, Start(s)
    PROVE  TypeOK'
<1>1. ASSUME NEW u \in Users, BeginJoinLeave(s, u) PROVE TypeOK'
  BY <1>1, AskType, BeginType DEF BeginJoinLeave, LockingOps
<1>2. ASSUME NEW u \in Users, NEW g \in Guests, BeginInvite(s, u, g) PROVE TypeOK'
  BY <1>2, AskType, BeginType DEF BeginInvite, LockingOps
<1>3. ASSUME NEW p \in Person, BeginKick(s, p) PROVE TypeOK'
  BY <1>3, AskType, BeginType, RosterAssumption DEF BeginKick, LockingOps
<1>4. ASSUME NEW m \in Limits \cup {NoLimit}, BeginLimit(s, m) PROVE TypeOK'
  <2>1. Asking("limit", Owner, Owner, m, "waiting_list", FALSE) \in Request
    BY RosterAssumption DEF Asking, Request, TypeOK, LockingOps, Settings
  <2>2. QED
    BY <1>4, <2>1, BeginType DEF BeginLimit
<1>5. CASE BeginDelete(s)
  BY <1>5, AskType, BeginType, RosterAssumption DEF BeginDelete, LockingOps
<1>6. ASSUME NEW f \in Flags, BeginToggle(s, f) PROVE TypeOK'
  <2>1. Asking("toggle", Owner, Owner, NoLimit, f, f \in meeting.on) \in Request
    BY RosterAssumption DEF Asking, Request, TypeOK, OwnerOps
  <2>2. QED
    BY <1>6, <2>1, BeginType DEF BeginToggle
<1>7. CASE BeginReactivate(s)
  BY <1>7, AskType, BeginType, RosterAssumption DEF BeginReactivate, OwnerOps
<1>8. CASE BeginDeactivate(s)
  BY <1>8, AskType, BeginType, RosterAssumption DEF BeginDeactivate, LockingOps
<1>9. QED
  BY <1>1, <1>2, <1>3, <1>4, <1>5, <1>6, <1>7, <1>8 DEF Start

\* A handler ends.
LEMMA CommitType ==
    ASSUME TypeOK, NEW s \in Slots, Commit(s)
    PROVE  TypeOK'
<1> DEFINE r == tx[s]
<1> SUFFICES ASSUME r.op \in LockingOps \cup OwnerOps PROVE TypeOK'
  BY DEF Commit, Join, Leave, Invite, Kick, SetLimit, Deactivate, Delete, Toggle, Reactivate,
         Holds, LockingOps, OwnerOps
<1>r. r \in Request
  BY RequestOfOp
<1>1. CASE Join(s)
  <2>1. account' \in [Person -> {"none", "member", "joined_only", "erasing"}]
    BY <1>1 DEF Join, Register, TypeOK
  <2>2. r.who \in Person /\ r.at \in Nat
    BY <1>r DEF Request
  <2>3. /\ seated' \in SUBSET Person /\ waiting' \in SUBSET Person
        /\ since' \in [Person -> Nat]
    BY <1>1, <2>2, AdmitType DEF Join, TypeOK, rosterVars
  <2>4. QED
    BY <1>1, <2>1, <2>3, FinishType DEF Join, TypeOK
<1>2. CASE Leave(s)
  <2>1. account' \in [Person -> {"none", "member", "joined_only", "erasing"}]
    BY <1>2 DEF Leave, Register, TypeOK
  <2>2. /\ seated' \in SUBSET Person /\ waiting' \in SUBSET Person
        /\ since' \in [Person -> Nat]
    BY <1>2, VacateType DEF Leave, TypeOK, rosterVars
  <2>3. QED
    BY <1>2, <2>1, <2>2, FinishType DEF Leave, TypeOK
<1>3. CASE Invite(s)
  <2>1. r.who \in Person /\ r.at \in Nat /\ r.by \in Users
    BY <1>r DEF Request
  <2>2. /\ account' \in [Person -> {"none", "member", "joined_only", "erasing"}]
        /\ inviter' \in [Guests -> Users \cup {NoUser}]
    BY <1>3, <2>1 DEF Invite, TypeOK, accountVars
  <2>3. /\ seated' \in SUBSET Person /\ waiting' \in SUBSET Person
        /\ since' \in [Person -> Nat]
    BY <1>3, <2>1, AdmitType DEF Invite, TypeOK, rosterVars
  <2>4. QED
    BY <1>3, <2>2, <2>3, FinishType DEF Invite, TypeOK
<1>4. CASE Kick(s)
  <2>1. /\ account' \in [Person -> {"none", "member", "joined_only", "erasing"}]
        /\ inviter' \in [Guests -> Users \cup {NoUser}]
    BY <1>4, EraseType DEF Kick, TypeOK, accountVars
  <2>2. /\ seated' \in SUBSET Person /\ waiting' \in SUBSET Person
        /\ since' \in [Person -> Nat]
    BY <1>4, VacateType DEF Kick, TypeOK, rosterVars
  <2>3. QED
    BY <1>4, <2>1, <2>2, FinishType DEF Kick, TypeOK
<1>5. CASE SetLimit(s)
  <2>1. r.limit \in Limits \cup {NoLimit}
    BY <1>r DEF Request
  <2>2. meeting' \in Meeting
    BY <1>5, <2>1 DEF SetLimit, TypeOK, Meeting
  <2>3. seated' \in SUBSET Person /\ waiting' \in SUBSET Person
    BY <1>5, PromotedByType DEF SetLimit, TypeOK, rosterVars
  <2>4. since' \in [Person -> Nat]
    BY <1>5, StampType DEF SetLimit, TypeOK, rosterVars
  <2>5. QED
    BY <1>5, <2>2, <2>3, <2>4, FinishType DEF SetLimit, TypeOK, accountVars
<1>6. CASE Deactivate(s)
  <2>1. meeting' \in Meeting
    BY <1>6 DEF Deactivate, TypeOK, Meeting
  <2>2. QED
    BY <1>6, <2>1, ClearMeetingType, FinishType DEF Deactivate, TypeOK, accountVars, rosterVars
<1>7. CASE Delete(s)
  <2>1. meeting' \in Meeting
    BY <1>7 DEF Delete, TypeOK, Meeting
  <2>2. QED
    BY <1>7, <2>1, ClearMeetingType, FinishType DEF Delete, TypeOK
<1>8. CASE Toggle(s)
  <2>1. r.flag \in Settings
    BY <1>r DEF Request
  <2>2. meeting' \in Meeting
    BY <1>8, <2>1 DEF Toggle, TypeOK, Meeting
  <2>3. QED
    BY <1>8, <2>2, FinishType DEF Toggle, TypeOK, accountVars, rosterVars
<1>9. CASE Reactivate(s)
  <2>1. meeting' \in Meeting
    BY <1>9 DEF Reactivate, TypeOK, Meeting
  <2>2. QED
    BY <1>9, <2>1, FinishType DEF Reactivate, TypeOK, accountVars, rosterVars
<1>10. QED
  BY <1>1, <1>2, <1>3, <1>4, <1>5, <1>6, <1>7, <1>8, <1>9 DEF Commit

LEMMA UnlockedType == ASSUME TypeOK, Unlocked PROVE TypeOK'
<1>1. CASE ChangeTier
  BY <1>1 DEF ChangeTier, TypeOK, accountVars, rosterVars, lockVars
<1>2. CASE TurnWindow
  BY <1>2 DEF TurnWindow, TypeOK, accountVars, rosterVars, lockVars
<1>3. ASSUME NEW u \in Users, Onboard(u) PROVE TypeOK'
  BY <1>3 DEF Onboard, TypeOK, rosterVars, lockVars
<1>4. ASSUME NEW u \in Erasers, RequestErasure(u) PROVE TypeOK'
  BY <1>4 DEF RequestErasure, TypeOK, rosterVars, lockVars
<1>5. ASSUME NEW P \in SUBSET Erasers, PurgeAccounts(P) PROVE TypeOK'
  <2>1. meeting' \in Meeting
    BY <1>5 DEF PurgeAccounts, TypeOK, Meeting
  <2>2. QED
    BY <1>5, <2>1, EraseType, DropLinksType DEF PurgeAccounts, TypeOK, lockVars
<1>6. CASE Nominate
  BY <1>6 DEF Nominate, TypeOK, accountVars, rosterVars, lockVars
<1>7. CASE Collect
  BY <1>7, EraseType, DropLinksType DEF Collect, TypeOK, lockVars
<1>8. QED
  BY <1>1, <1>2, <1>3, <1>4, <1>5, <1>6, <1>7 DEF Unlocked

\* Every reachable state is well formed.
THEOREM TypeCorrect == Spec => []TypeOK
<1>1. TypeOK /\ [Next]_vars => TypeOK'
  <2> SUFFICES ASSUME TypeOK, [Next]_vars PROVE TypeOK'
    OBVIOUS
  <2>1. ASSUME NEW s \in Slots, TakeLock(s) PROVE TypeOK'
    BY <2>1, RosterAssumption DEF TakeLock, TypeOK, View, Capacities, accountVars, rosterVars
  <2>2. ASSUME NEW s \in Slots, Rollback(s) PROVE TypeOK'
    BY <2>2, FinishType DEF Rollback, TypeOK, accountVars, rosterVars
  <2>3. CASE UNCHANGED vars
    BY <2>3 DEF vars, TypeOK, accountVars, rosterVars, lockVars
  <2>4. QED
    BY <2>1, <2>2, <2>3, StartType, CommitType, UnlockedType DEF Next, Refuse
<1>2. QED
  BY <1>1, InitType, PTL DEF Spec

-----------------------------------------------------------------------------
(* Promotion: how many move up, and who *)

LEMMA LeastNatural ==
    ASSUME NEW T \in SUBSET Nat, T # {}
    PROVE  \E n \in T : \A m \in T : n <= m
<1> DEFINE R == OpToRel(<, Nat)
<1>1. PICK n \in T : \A m \in T : <<m, n>> \notin R
  <2>1. IsWellFoundedOn(R, Nat)
    BY NatLessThanWellFounded
  <2> HIDE DEF R
  <2>2. QED
    BY <2>1, WFMin
<1>2. ASSUME NEW m \in T PROVE n <= m
  <2>1. m < n => <<m, n>> \in R
    BY DEF OpToRel
  <2> HIDE DEF R
  <2>2. ~(m < n)
    BY <1>1, <2>1
  <2>3. QED
    BY <2>2
<1>3. QED
  BY <1>2

\* Among finitely many people with different stamps, one has all others ahead of it.
LEMMA LastInLine ==
    ASSUME NEW U, IsFiniteSet(U), U # {}, NEW W, NEW s, U \subseteq W,
           \A p \in W : s[p] \in Nat,
           \A p, q \in W : p # q => s[p] # s[q]
    PROVE  \E p \in U : U \ {p} \subseteq Ahead(W, s, p)
<1> DEFINE Rank(p) == Cardinality(U) - Cardinality(Ahead(U, s, p))
           Ranks == {Rank(p) : p \in U}
<1>1. \A p \in U : /\ IsFiniteSet(Ahead(U, s, p)) /\ IsFiniteSet(Ahead(U, s, p) \cup {p})
                   /\ Cardinality(Ahead(U, s, p)) \in Nat
                   /\ Cardinality(Ahead(U, s, p) \cup {p}) = Cardinality(Ahead(U, s, p)) + 1
                   /\ Rank(p) \in Nat
  <2> TAKE p \in U
  <2>1. Ahead(U, s, p) \in SUBSET U /\ p \notin Ahead(U, s, p)
    BY DEF Ahead
  <2>2. IsFiniteSet(Ahead(U, s, p)) /\ Cardinality(Ahead(U, s, p)) <= Cardinality(U)
    BY <2>1, FS_Subset
  <2>3. Cardinality(Ahead(U, s, p)) \in Nat /\ Cardinality(U) \in Nat
    BY <2>2, FS_CardinalityType
  <2>4. /\ IsFiniteSet(Ahead(U, s, p) \cup {p})
        /\ Cardinality(Ahead(U, s, p) \cup {p}) = Cardinality(Ahead(U, s, p)) + 1
    BY <2>1, <2>2, FS_AddElement
  <2>5. QED
    BY <2>2, <2>3, <2>4
<1>2. PICK p \in U : \A q \in U : Rank(p) <= Rank(q)
  <2>1. Ranks \in SUBSET Nat /\ Ranks # {}
    BY <1>1
  <2>2. PICK n \in Ranks : \A m \in Ranks : n <= m
    <3> HIDE DEF Ranks
    <3> QED BY <2>1, LeastNatural
  <2>3. QED
    BY <2>2
<1>3. \A q \in U : s[q] <= s[p]
  <2> SUFFICES ASSUME NEW q \in U, s[p] < s[q] PROVE FALSE
    OBVIOUS
  <2>1. Ahead(U, s, p) \cup {p} \in SUBSET Ahead(U, s, q)
    BY DEF Ahead
  <2>2. Cardinality(Ahead(U, s, p) \cup {p}) <= Cardinality(Ahead(U, s, q))
    BY <2>1, <1>1, FS_Subset
  <2>3. Rank(p) <= Rank(q) /\ Cardinality(U) \in Nat
    BY <1>2, FS_CardinalityType
  <2>4. /\ Cardinality(Ahead(U, s, p)) \in Nat /\ Cardinality(Ahead(U, s, q)) \in Nat
        /\ Cardinality(Ahead(U, s, p) \cup {p}) = Cardinality(Ahead(U, s, p)) + 1
    BY <1>1
  <2>5. QED
    BY <2>2, <2>3, <2>4
<1>4. U \ {p} \subseteq Ahead(W, s, p)
  BY <1>3 DEF Ahead
<1>5. QED
  BY <1>4

\* Promotion fills the free places and no more.
LEMMA PromotionFits ==
    ASSUME NEW S, IsFiniteSet(S), NEW W, IsFiniteSet(W), NEW s,
           \A p \in W : s[p] \in Nat,
           \A p, q \in W : p # q => s[p] # s[q],
           NEW cap \in Nat, ToPromote(S, W, s, cap) # {}, NoLimit \notin Nat
    PROVE  Cardinality(S \cup ToPromote(S, W, s, cap)) <= cap
<1> DEFINE U == ToPromote(S, W, s, cap)
<1>1. U \in SUBSET W /\ IsFiniteSet(U)
  BY FS_Subset DEF ToPromote
<1>2. PICK p \in U : U \ {p} \subseteq Ahead(W, s, p)
  BY <1>1, LastInLine
<1>3. Cardinality(S) + Cardinality(Ahead(W, s, p)) < cap
  BY <1>2 DEF ToPromote
<1>4. IsFiniteSet(Ahead(W, s, p)) /\ Ahead(W, s, p) \in SUBSET W
  BY FS_Subset DEF Ahead
<1>5. U \ {p} \in SUBSET Ahead(W, s, p) /\ IsFiniteSet(U \ {p})
  BY <1>1, <1>2, FS_RemoveElement
<1>6. Cardinality(U \ {p}) <= Cardinality(Ahead(W, s, p))
  BY <1>4, <1>5, FS_Subset
<1>7. Cardinality(U \ {p}) = Cardinality(U) - 1
  BY <1>1, <1>2, FS_RemoveElement
<1>8. Cardinality(S \cup U) = Cardinality(S) + Cardinality(U) - Cardinality(S \cap U)
  BY <1>1, FS_Union
<1>9. /\ Cardinality(S) \in Nat /\ Cardinality(U) \in Nat /\ Cardinality(S \cap U) \in Nat
      /\ Cardinality(Ahead(W, s, p)) \in Nat
  BY <1>1, <1>4, FS_CardinalityType, FS_Intersection
<1>10. QED
  <2> HIDE DEF U
  <2> QED BY <1>3, <1>6, <1>7, <1>8, <1>9 DEF U

\* Whoever stays in the queue has waited no longer than anybody who moves up.
LEMMA PromotionInOrder ==
    ASSUME NEW S, NEW W, IsFiniteSet(W), IsFiniteSet(S), NEW s,
           \A p \in W : s[p] \in Nat,
           NEW cap \in Nat \cup {NoLimit}, NoLimit \notin Nat,
           NEW p \in ToPromote(S, W, s, cap), NEW q \in W \ ToPromote(S, W, s, cap)
    PROVE  s[p] <= s[q]
<1> SUFFICES ASSUME s[q] < s[p] PROVE FALSE
  BY DEF ToPromote
<1>1. p \in W /\ s[p] \in Nat /\ s[q] \in Nat
  BY DEF ToPromote
<1>2. cap \in Nat
  BY DEF ToPromote
<1>3. Ahead(W, s, q) \in SUBSET Ahead(W, s, p)
  BY <1>1 DEF Ahead
<1>4. IsFiniteSet(Ahead(W, s, p)) /\ IsFiniteSet(Ahead(W, s, q))
  BY FS_Subset DEF Ahead
<1>5. /\ Cardinality(Ahead(W, s, q)) <= Cardinality(Ahead(W, s, p))
      /\ Cardinality(Ahead(W, s, q)) \in Nat /\ Cardinality(Ahead(W, s, p)) \in Nat
      /\ Cardinality(S) \in Nat
  BY <1>3, <1>4, FS_Subset, FS_CardinalityType
<1>6. Cardinality(S) + Cardinality(Ahead(W, s, p)) < cap
  BY <1>2 DEF ToPromote
<1>7. Cardinality(S) + Cardinality(Ahead(W, s, q)) < cap
  BY <1>2, <1>5, <1>6
<1>8. QED
  BY <1>7 DEF ToPromote

-----------------------------------------------------------------------------
(* What the row lock guarantees: the list only shrinks behind its holder,   *)
(* and no two links waiting, or about to wait, carry the same stamp.        *)

Queued(W, s) == \A p, q \in W : p # q => s[p] # s[q]

ViewIsCurrent ==
    holder # NoSlot =>
        /\ seated \subseteq view.seated
        /\ waiting \subseteq view.waiting
        /\ \A p \in waiting : since[p] = view.since[p]

StampsAreUsedOnce ==
    /\ \A p \in waiting : since[p] <= clock
    /\ \A s \in Slots : tx[s] # Idle =>
          /\ tx[s].at <= clock
          /\ \A p \in waiting : since[p] # tx[s].at
          /\ \A t \in Slots \ {s} : tx[t] # Idle => tx[t].at # tx[s].at

ListInv ==
    /\ ViewIsCurrent
    /\ Queued(waiting, since)
    /\ Queued(view.waiting, view.since)
    /\ StampsAreUsedOnce

LEMMA FinitePeople == \A S \in SUBSET Person : IsFiniteSet(S)
<1>1. IsFiniteSet(Person)
  BY RosterAssumption, FS_Union
<1>2. QED
  BY <1>1, FS_Subset

LEMMA CapacityType ==
    ASSUME TypeOK, NEW m \in Limits \cup {NoLimit}
    PROVE  EffectiveCapacity(view.tier, m) \in Nat \cup {NoLimit}
BY RosterAssumption DEF TypeOK, View, Capacities, EffectiveCapacity

LEMMA StartShape ==
    ASSUME TypeOK, NEW s \in Slots, Start(s)
    PROVE  \E r \in Request : r.at = clock + 1 /\ Begin(s, r)
<1>1. \A op \in LockingOps \cup OwnerOps, who \in Person, by \in Users :
        Ask(op, who, by) \in Request /\ Ask(op, who, by).at = clock + 1
  BY AskType DEF Ask, Asking
<1>2. ASSUME NEW m \in Limits \cup {NoLimit}, BeginLimit(s, m)
      PROVE  \E r \in Request : r.at = clock + 1 /\ Begin(s, r)
  <2>1. Asking("limit", Owner, Owner, m, "waiting_list", FALSE) \in Request
    BY RosterAssumption DEF Asking, Request, TypeOK, LockingOps, Settings
  <2>2. Asking("limit", Owner, Owner, m, "waiting_list", FALSE).at = clock + 1
    BY DEF Asking
  <2>3. QED
    BY <1>2, <2>1, <2>2 DEF BeginLimit
<1>3. ASSUME NEW f \in Flags, BeginToggle(s, f)
      PROVE  \E r \in Request : r.at = clock + 1 /\ Begin(s, r)
  <2>1. Asking("toggle", Owner, Owner, NoLimit, f, f \in meeting.on) \in Request
    BY RosterAssumption DEF Asking, Request, TypeOK, OwnerOps
  <2>2. Asking("toggle", Owner, Owner, NoLimit, f, f \in meeting.on).at = clock + 1
    BY DEF Asking
  <2>3. QED
    BY <1>3, <2>1, <2>2 DEF BeginToggle
<1>4. QED
  BY <1>1, <1>2, <1>3, RosterAssumption
     DEF Start, BeginJoinLeave, BeginInvite, BeginKick, BeginDelete, BeginReactivate,
         BeginDeactivate, LockingOps, OwnerOps

\* Nobody starts waiting but the person a commit admits, with its own stamp.
LEMMA CommitShape ==
    ASSUME TypeOK, TypeOK', ViewIsCurrent, NEW s \in Slots, Commit(s)
    PROVE  /\ tx[s] \in Request
           /\ Finish(s)
           /\ holder \in {s, NoSlot}
           /\ \A p \in waiting \cap waiting' : since'[p] = since[p]
           /\ \A p \in waiting' \ waiting : since'[p] = tx[s].at
           /\ \A p, q \in waiting' \ waiting : p = q
<1>1. /\ tx[s].op \in LockingOps \cup OwnerOps
      /\ Finish(s)
      /\ holder \in {s, NoSlot}
  BY DEF Commit, Join, Leave, Invite, Kick, SetLimit, Deactivate, Delete, Toggle, Reactivate,
         Holds, LockingOps, OwnerOps
<1>2. tx[s] \in Request
  BY <1>1, RequestOfOp
<1>3. \/ UNCHANGED rosterVars
      \/ \E p : Admit(p, tx[s].at)
      \/ waiting' \subseteq waiting /\ Stamp(0)
  BY DEF Commit, Join, Leave, Invite, Kick, SetLimit, Deactivate, Delete, Toggle, Reactivate,
         Vacate, ClearMeeting
<1>4. CASE UNCHANGED rosterVars
  BY <1>1, <1>2, <1>4 DEF rosterVars
<1>5. ASSUME NEW p, Admit(p, tx[s].at)
      PROVE  /\ \A q \in waiting \cap waiting' : since'[q] = since[q]
             /\ \A q \in waiting' \ waiting : since'[q] = tx[s].at
             /\ \A q, r \in waiting' \ waiting : q = r
  <2>1. waiting' \subseteq waiting \cup {p} /\ waiting' \subseteq Person
    BY <1>5 DEF Admit, TypeOK
  <2>2. QED
    BY <1>5, <2>1 DEF Admit, Stamp
<1>6. CASE waiting' \subseteq waiting /\ Stamp(0)
  BY <1>1, <1>2, <1>6 DEF Stamp, TypeOK
<1>7. QED
  BY <1>1, <1>2, <1>3, <1>4, <1>5, <1>6

\* A step behind the holder of the lock only takes links away.
LEMMA UnlockedShape ==
    ASSUME TypeOK, TypeOK', Unlocked
    PROVE  /\ UNCHANGED <<clock, lockVars>>
           /\ seated' \subseteq seated /\ waiting' \subseteq waiting
           /\ \A p \in waiting' : since'[p] = since[p]
<1>1. UNCHANGED <<clock, lockVars>>
  BY DEF Unlocked, ChangeTier, TurnWindow, Onboard, RequestErasure, PurgeAccounts, Nominate, Collect
<1>2. UNCHANGED rosterVars \/ \E P : DropLinks(P)
  BY DEF Unlocked, ChangeTier, TurnWindow, Onboard, RequestErasure, PurgeAccounts, Nominate, Collect
<1>3. CASE UNCHANGED rosterVars
  BY <1>1, <1>3 DEF rosterVars
<1>4. ASSUME NEW P, DropLinks(P)
      PROVE  /\ seated' \subseteq seated /\ waiting' \subseteq waiting
             /\ \A p \in waiting' : since'[p] = since[p]
  BY <1>4 DEF DropLinks, Stamp, TypeOK
<1>5. QED
  BY <1>1, <1>2, <1>3, <1>4

LEMMA InitList == Init => ListInv
BY DEF Init, ListInv, ViewIsCurrent, Queued, StampsAreUsedOnce, NoView

LEMMA BeginList ==
    ASSUME TypeOK, TypeOK', ListInv, NEW s \in Slots, NEW r \in Request,
           r.at = clock + 1, Begin(s, r)
    PROVE  ListInv'
<1>1. UNCHANGED <<rosterVars, holder, view>> /\ clock' = clock + 1
  BY DEF Begin
<1>2. ViewIsCurrent' /\ Queued(waiting, since)' /\ Queued(view.waiting, view.since)'
  BY <1>1 DEF ListInv, ViewIsCurrent, Queued, rosterVars
<1>3. clock \in Nat /\ \A p \in waiting : since[p] \in Nat
  BY DEF TypeOK
<1>4. \A t \in Slots \ {s} : tx'[t] = tx[t]
  BY DEF Begin, TypeOK
<1>5. tx'[s] = r
  BY DEF Begin, TypeOK
<1>6. \A t \in Slots \ {s} : tx[t] # Idle => tx[t].at \in Nat /\ tx[t].at <= clock
  BY DEF ListInv, StampsAreUsedOnce, TypeOK, Request
<1>7. StampsAreUsedOnce'
  BY <1>1, <1>3, <1>4, <1>5, <1>6 DEF ListInv, StampsAreUsedOnce, rosterVars
<1>8. QED
  BY <1>2, <1>7 DEF ListInv

LEMMA CommitList ==
    ASSUME TypeOK, TypeOK', ListInv, NEW s \in Slots, Commit(s)
    PROVE  ListInv'
<1>1. /\ tx[s] \in Request /\ tx[s] # Idle
      /\ Finish(s)
      /\ holder \in {s, NoSlot}
      /\ \A p \in waiting \cap waiting' : since'[p] = since[p]
      /\ \A p \in waiting' \ waiting : since'[p] = tx[s].at
      /\ \A p, q \in waiting' \ waiting : p = q
  <2>1. tx[s] # Idle
    BY DEF Commit, Join, Leave, Invite, Kick, SetLimit, Deactivate, Delete, Toggle, Reactivate,
           Holds, Idle
  <2>2. QED
    BY <2>1, CommitShape DEF ListInv
<1>2. /\ holder' = NoSlot
      /\ view' = view \/ view' = NoView
      /\ clock' = clock
      /\ tx'[s] = Idle /\ \A t \in Slots \ {s} : tx'[t] = tx[t]
  BY <1>1 DEF Finish, TypeOK
<1>3. ViewIsCurrent'
  BY <1>2 DEF ViewIsCurrent
<1>4. Queued(waiting, since)'
  BY <1>1 DEF ListInv, Queued, StampsAreUsedOnce
<1>5. Queued(view.waiting, view.since)'
  BY <1>2 DEF ListInv, Queued, NoView
<1>6. StampsAreUsedOnce'
  BY <1>1, <1>2 DEF ListInv, StampsAreUsedOnce
<1>7. QED
  BY <1>3, <1>4, <1>5, <1>6 DEF ListInv

\* The strengthening that the order and the bound of admissions rest on.
THEOREM ListCorrect == Spec => []ListInv
<1>1. TypeOK /\ TypeOK' /\ ListInv /\ [Next]_vars => ListInv'
  <2> SUFFICES ASSUME TypeOK, TypeOK', ListInv, [Next]_vars PROVE ListInv'
    OBVIOUS
  <2>1. ASSUME NEW s \in Slots, Start(s) PROVE ListInv'
    BY <2>1, StartShape, BeginList
  <2>2. ASSUME NEW s \in Slots, TakeLock(s) PROVE ListInv'
    BY <2>2 DEF TakeLock, ListInv, ViewIsCurrent, Queued, StampsAreUsedOnce, rosterVars
  <2>3. ASSUME NEW s \in Slots, Commit(s) PROVE ListInv'
    BY <2>3, CommitList
  <2>4. ASSUME NEW s \in Slots, Rollback(s) PROVE ListInv'
    <3>1. /\ UNCHANGED <<rosterVars, clock>>
          /\ holder' # NoSlot => holder' = holder /\ view' = view
          /\ view' = view \/ view' = NoView
          /\ tx'[s] = Idle /\ \A t \in Slots \ {s} : tx'[t] = tx[t]
      BY <2>4 DEF Rollback, Finish, TypeOK
    <3>2. QED
      BY <3>1 DEF ListInv, ViewIsCurrent, Queued, StampsAreUsedOnce, NoView, rosterVars
  <2>5. CASE Unlocked
    <3>1. /\ UNCHANGED <<clock, tx, holder, view>>
          /\ seated' \subseteq seated /\ waiting' \subseteq waiting
          /\ \A p \in waiting' : since'[p] = since[p]
      BY <2>5, UnlockedShape DEF lockVars
    <3>2. QED
      BY <3>1 DEF ListInv, ViewIsCurrent, Queued, StampsAreUsedOnce
  <2>6. CASE UNCHANGED vars
    BY <2>6 DEF vars, ListInv, ViewIsCurrent, Queued, StampsAreUsedOnce, rosterVars, lockVars
  <2>7. QED
    BY <2>1, <2>2, <2>3, <2>4, <2>5, <2>6 DEF Next, Refuse
<1>2. QED
  BY <1>1, InitList, TypeCorrect, PTL DEF Spec

-----------------------------------------------------------------------------
(* Admissions stay within the capacity read under the lock *)

LEMMA AdmitFits ==
    ASSUME TypeOK, ViewIsCurrent, holder # NoSlot, NEW p, NEW at, Admit(p, at),
           seated' \ seated # {}, ViewCapacity # NoLimit
    PROVE  Cardinality(seated') <= ViewCapacity
<1>1. ViewCapacity \in Nat
  BY CapacityType DEF TypeOK, Meeting, ViewCapacity
<1>2. seated' = seated \cup {p} /\ ~Full(view.seated, ViewCapacity)
  BY DEF Admit
<1>3. view.seated \in SUBSET Person /\ IsFiniteSet(view.seated)
  BY FinitePeople DEF TypeOK, View
<1>4. Cardinality(view.seated) \in Nat /\ Cardinality(view.seated) < ViewCapacity
  BY <1>1, <1>2, <1>3, FS_CardinalityType DEF Full
<1>5. /\ IsFiniteSet(view.seated \cup {p})
      /\ Cardinality(view.seated \cup {p}) <= Cardinality(view.seated) + 1
      /\ Cardinality(view.seated \cup {p}) \in Nat
  <2>1. /\ IsFiniteSet(view.seated \cup {p})
        /\ Cardinality(view.seated \cup {p}) =
              IF p \in view.seated THEN Cardinality(view.seated) ELSE Cardinality(view.seated) + 1
    BY <1>3, FS_AddElement
  <2>2. QED
    BY <1>4, <2>1
<1>6. seated' \in SUBSET (view.seated \cup {p})
  BY <1>2 DEF ViewIsCurrent
<1>7. Cardinality(seated') <= Cardinality(view.seated \cup {p}) /\ Cardinality(seated') \in Nat
  BY <1>5, <1>6, FS_Subset, FS_CardinalityType
<1>8. QED
  BY <1>1, <1>4, <1>5, <1>7

\* The people promoted, with everybody who keeps a seat, fit the capacity.
LEMMA HandOverFits ==
    ASSUME TypeOK, ListInv, holder # NoSlot, NEW left, NEW cap \in Nat,
           ToPromote(view.seated \ left, view.waiting \ left, view.since, cap) # {},
           seated' \subseteq (seated \ left)
               \cup ToPromote(view.seated \ left, view.waiting \ left, view.since, cap)
    PROVE  Cardinality(seated') <= cap
<1> DEFINE S == view.seated \ left
           W == view.waiting \ left
           U == ToPromote(S, W, view.since, cap)
<1>1. S \in SUBSET Person /\ W \in SUBSET Person /\ U \in SUBSET W
  BY DEF TypeOK, View, ToPromote
<1>2. IsFiniteSet(S) /\ IsFiniteSet(W) /\ IsFiniteSet(S \cup U)
  BY <1>1, FinitePeople, FS_Union
<1>3. \A p \in W : view.since[p] \in Nat
  BY <1>1 DEF TypeOK, View
<1>4. \A p, q \in W : p # q => view.since[p] # view.since[q]
  BY DEF ListInv, Queued
<1>5. Cardinality(S \cup U) <= cap
  BY <1>2, <1>3, <1>4, RosterAssumption, PromotionFits
<1>6. seated' \in SUBSET (S \cup U)
  BY DEF ListInv, ViewIsCurrent
<1>7. /\ Cardinality(seated') <= Cardinality(S \cup U)
      /\ Cardinality(seated') \in Nat /\ Cardinality(S \cup U) \in Nat
  BY <1>2, <1>6, FS_Subset, FS_CardinalityType
<1>8. QED
  BY <1>5, <1>7

LEMMA VacateFits ==
    ASSUME TypeOK, ListInv, holder # NoSlot, NEW r, r.op # "limit", Vacate(r),
           seated' \ seated # {}, ViewCapacity # NoLimit
    PROVE  Cardinality(seated') <= ViewCapacity
<1>1. ViewCapacity \in Nat
  BY CapacityType DEF TypeOK, Meeting, ViewCapacity
<1>2. PromotedBy(r) = ToPromote(view.seated \ {r.who}, view.waiting \ {r.who},
                                view.since, ViewCapacity)
  BY DEF PromotedBy, ViewCapacity
<1>3. seated' = (seated \ {r.who}) \cup PromotedBy(r) /\ PromotedBy(r) # {}
  BY DEF Vacate
<1>4. QED
  BY <1>1, <1>2, <1>3, HandOverFits

LEMMA LimitFits ==
    ASSUME TypeOK, ListInv, NEW s \in Slots, SetLimit(s), seated' \ seated # {},
           EffectiveCapacity(view.tier, meeting'.max) # NoLimit
    PROVE  Cardinality(seated') <= EffectiveCapacity(view.tier, meeting'.max)
<1> DEFINE m == tx[s].limit
<1>1. tx[s].op = "limit" /\ holder # NoSlot
  BY RosterAssumption DEF SetLimit, Holds
<1>2. m \in Limits \cup {NoLimit}
  BY <1>1, RequestOfOp DEF Request, LockingOps
<1>3. /\ meeting' = [meeting EXCEPT !.max = m]
      /\ seated' = seated \cup PromotedBy(tx[s])
  BY DEF SetLimit, rosterVars
<1>4. meeting'.max = m
  BY <1>3 DEF TypeOK, Meeting
<1>5. EffectiveCapacity(view.tier, m) \in Nat
  BY <1>2, <1>4, CapacityType
<1>6. PromotedBy(tx[s]) = ToPromote(view.seated \ {}, view.waiting \ {}, view.since,
                                    EffectiveCapacity(view.tier, m))
  BY <1>1 DEF PromotedBy
<1>7. /\ PromotedBy(tx[s]) # {}
      /\ seated' \subseteq (seated \ {}) \cup PromotedBy(tx[s])
  BY <1>3
<1>8. Cardinality(seated') <= EffectiveCapacity(view.tier, m)
  <2> HIDE DEF m
  <2> QED BY <1>1, <1>5, <1>6, <1>7, HandOverFits
<1>9. QED
  BY <1>4, <1>8

\* Whatever runs beside the holder of the lock, a step of it that seats somebody
\* leaves the meeting within the capacity it read.
THEOREM AdmissionsFit == Spec => AdmissionWithinCapacity
<1>1. TypeOK /\ TypeOK' /\ ListInv /\ [Next]_vars =>
        [\A s \in Slots :
           holder = s /\ seated' \ seated # {} =>
               LET cap == EffectiveCapacity(view.tier, meeting'.max)
               IN  cap # NoLimit => Cardinality(seated') <= cap]_vars
  <2> SUFFICES ASSUME TypeOK, TypeOK', ListInv, Next, NEW s \in Slots, holder = s,
                      seated' \ seated # {},
                      EffectiveCapacity(view.tier, meeting'.max) # NoLimit
               PROVE  Cardinality(seated') <= EffectiveCapacity(view.tier, meeting'.max)
    BY DEF vars, rosterVars
  <2> USE DEF ViewCapacity
  <2>1. ViewIsCurrent /\ holder # NoSlot
    BY RosterAssumption DEF ListInv
  <2>2. PICK t \in Slots : Commit(t)
    <3>1. ASSUME NEW u \in Slots, Start(u) PROVE FALSE
      BY <3>1, StartShape DEF Begin, rosterVars
    <3>2. ASSUME NEW u \in Slots, TakeLock(u) PROVE FALSE
      BY <3>2 DEF TakeLock, rosterVars
    <3>3. ASSUME NEW u \in Slots, Rollback(u) PROVE FALSE
      BY <3>3 DEF Rollback, rosterVars
    <3>4. CASE Unlocked
      BY <3>4, UnlockedShape
    <3>5. QED
      BY <3>1, <3>2, <3>3, <3>4 DEF Next, Refuse
  <2>3. CASE Join(t)
    BY <2>1, <2>3, AdmitFits DEF Join, rosterVars
  <2>4. CASE Leave(t)
    BY <2>1, <2>4, VacateFits DEF Leave, Holds, rosterVars
  <2>5. CASE Invite(t)
    BY <2>1, <2>5, AdmitFits DEF Invite, rosterVars
  <2>6. CASE Kick(t)
    BY <2>1, <2>6, VacateFits DEF Kick, Holds, rosterVars
  <2>7. CASE SetLimit(t)
    BY <2>7, LimitFits
  <2>8. CASE Deactivate(t) \/ Delete(t) \/ Toggle(t) \/ Reactivate(t)
    BY <2>8 DEF Deactivate, Delete, Toggle, Reactivate, ClearMeeting, rosterVars
  <2>9. QED
    BY <2>2, <2>3, <2>4, <2>5, <2>6, <2>7, <2>8 DEF Commit
<1>2. QED
  BY <1>1, TypeCorrect, ListCorrect, PTL DEF Spec, AdmissionWithinCapacity

-----------------------------------------------------------------------------
(* Nobody is listed twice, and everybody listed has an account *)

\* Requests to join or leave are about users; pending invitations are about
\* placeholders that do not exist yet, each about its own.
PendingWellFormed ==
    \A s \in Slots :
        /\ tx[s].op \in {"join", "leave"} => tx[s].who \in Users
        /\ tx[s].op = "invite" =>
              /\ tx[s].who \in Guests /\ account[tx[s].who] = "none"
              /\ \A t \in Slots \ {s} : tx[t].op = "invite" => tx[t].who # tx[s].who

LEMMA BeginPending ==
    ASSUME TypeOK, RosterWellFormed, PendingWellFormed, NEW s \in Slots, NEW r, Begin(s, r),
           r.op \in {"join", "leave"} => r.who \in Users,
           r.op = "invite" =>
              /\ r.who \in Guests /\ account[r.who] = "none"
              /\ \A t \in Slots : tx[t].op = "invite" => tx[t].who # r.who
    PROVE  RosterWellFormed' /\ PendingWellFormed'
<1>1. UNCHANGED <<account, seated, waiting>>
  BY DEF Begin, accountVars, rosterVars
<1>2. tx'[s] = r /\ \A t \in Slots \ {s} : tx'[t] = tx[t]
  BY DEF Begin, TypeOK
<1>3. QED
  BY <1>1, <1>2 DEF RosterWellFormed, PendingWellFormed

LEMMA StartPending ==
    ASSUME TypeOK, RosterWellFormed, PendingWellFormed, NEW s \in Slots, Start(s)
    PROVE  RosterWellFormed' /\ PendingWellFormed'
<1>1. ASSUME NEW u \in Users, BeginJoinLeave(s, u)
      PROVE  RosterWellFormed' /\ PendingWellFormed'
  BY <1>1, BeginPending DEF BeginJoinLeave, Ask, Asking
<1>2. ASSUME NEW u \in Users, NEW g \in Guests, BeginInvite(s, u, g)
      PROVE  RosterWellFormed' /\ PendingWellFormed'
  BY <1>2, BeginPending DEF BeginInvite, Ask, Asking
<1>3. ASSUME NEW p \in Person, BeginKick(s, p)
      PROVE  RosterWellFormed' /\ PendingWellFormed'
  BY <1>3, BeginPending DEF BeginKick, Ask, Asking
<1>4. ASSUME NEW m \in Limits \cup {NoLimit}, BeginLimit(s, m)
      PROVE  RosterWellFormed' /\ PendingWellFormed'
  BY <1>4, BeginPending DEF BeginLimit, Asking
<1>5. ASSUME NEW f \in Flags, BeginToggle(s, f)
      PROVE  RosterWellFormed' /\ PendingWellFormed'
  BY <1>5, BeginPending DEF BeginToggle, Asking
<1>6. CASE BeginDelete(s) \/ BeginReactivate(s) \/ BeginDeactivate(s)
  BY <1>6, BeginPending DEF BeginDelete, BeginReactivate, BeginDeactivate, Ask, Asking
<1>7. QED
  BY <1>1, <1>2, <1>3, <1>4, <1>5, <1>6 DEF Start

\* A request that ends, and creates at most its own placeholder, disturbs no other.
LEMMA FinishPending ==
    ASSUME TypeOK, PendingWellFormed, NEW s \in Slots, Finish(s),
           \A g \in Guests : account[g] = "none" /\ account'[g] # "none" =>
                              tx[s].op = "invite" /\ tx[s].who = g
    PROVE  PendingWellFormed'
<1>1. tx'[s] = Idle /\ \A t \in Slots \ {s} : tx'[t] = tx[t]
  BY DEF Finish, TypeOK
<1>2. Idle.op = "none"
  BY DEF Idle
<1>3. QED
  BY <1>1, <1>2 DEF PendingWellFormed

LEMMA VacateWellFormed ==
    ASSUME RosterWellFormed, NEW r, r.op # "limit", Vacate(r)
    PROVE  /\ seated' \cap waiting' = {}
           /\ seated' \cup waiting' \subseteq (seated \cup waiting) \ {r.who}
<1>1. PromotedBy(r) \subseteq waiting
  BY DEF Vacate
<1>2. r.who \notin PromotedBy(r)
  BY DEF PromotedBy, ToPromote
<1>3. QED
  BY <1>1, <1>2 DEF Vacate, RosterWellFormed

\* Everybody on the list is somebody who was, and whose account stays.
LEMMA EraseWellFormed ==
    ASSUME TypeOK, RosterWellFormed, NEW P, Erase(P),
           seated' \cap waiting' = {},
           seated' \cup waiting' \subseteq (seated \cup waiting) \ P
    PROVE  /\ RosterWellFormed'
           /\ \A g \in Guests : account[g] = "none" => account'[g] = "none"
BY DEF TypeOK, RosterWellFormed, Erase

\* Registering the sender, or creating a placeholder, takes no account away.
LEMMA GrowWellFormed ==
    ASSUME TypeOK, RosterWellFormed, NEW p \in Person, account'[p] # "none",
           \A q \in Person : account'[q] = "none" => account[q] = "none",
           seated' \cap waiting' = {},
           seated' \cup waiting' \subseteq seated \cup waiting \cup {p}
    PROVE  RosterWellFormed'
BY DEF TypeOK, RosterWellFormed

LEMMA CommitPending ==
    ASSUME TypeOK, TypeOK', ListInv, RosterWellFormed, PendingWellFormed,
           NEW s \in Slots, Commit(s)
    PROVE  RosterWellFormed' /\ PendingWellFormed'
<1> DEFINE r == tx[s]
<1>1. /\ Finish(s)
      /\ r.op \in LockingOps \cup OwnerOps
  BY DEF Commit, Join, Leave, Invite, Kick, SetLimit, Deactivate, Delete, Toggle, Reactivate,
         Holds, LockingOps, OwnerOps
<1>2. r \in Request /\ r.who \in Person
  BY <1>1, RequestOfOp DEF Request
<1>3. ASSUME holder = s
      PROVE  seated \subseteq view.seated /\ waiting \subseteq view.waiting
  BY <1>3, RosterAssumption DEF ListInv, ViewIsCurrent
<1>4. CASE Join(s)
  <2>1. holder = s /\ r.op = "join" /\ r.who \in Users
    BY <1>4 DEF Join, Holds, PendingWellFormed
  <2>2. account'[r.who] # "none" /\ \A q \in Person \ {r.who} : account'[q] = account[q]
    BY <1>2, <1>4 DEF Join, Register, TypeOK
  <2>3. /\ seated' \cap waiting' = {}
        /\ seated' \cup waiting' \subseteq seated \cup waiting \cup {r.who}
    BY <1>3, <1>4, <2>1 DEF Join, Admit, RosterWellFormed, ViewMembers, rosterVars
  <2>4. RosterWellFormed'
    BY <1>2, <2>2, <2>3, GrowWellFormed
  <2>5. PendingWellFormed'
    BY <1>1, <2>1, <2>2, FinishPending, RosterAssumption
  <2>6. QED
    BY <2>4, <2>5
<1>5. CASE Leave(s)
  <2>1. holder = s /\ r.op = "leave" /\ r.who \in Users
    BY <1>5 DEF Leave, Holds, PendingWellFormed
  <2>2. account'[r.who] # "none" /\ \A q \in Person \ {r.who} : account'[q] = account[q]
    BY <1>2, <1>5 DEF Leave, Register, TypeOK
  <2>3. /\ seated' \cap waiting' = {}
        /\ seated' \cup waiting' \subseteq seated \cup waiting
    BY <1>5, <2>1, VacateWellFormed DEF Leave, RosterWellFormed, rosterVars
  <2>4. RosterWellFormed'
    BY <1>2, <2>2, <2>3, GrowWellFormed
  <2>5. PendingWellFormed'
    BY <1>1, <2>1, <2>2, FinishPending, RosterAssumption
  <2>6. QED
    BY <2>4, <2>5
<1>6. CASE Invite(s)
  <2>1. holder = s /\ r.op = "invite" /\ r.who \in Guests /\ account[r.who] = "none"
    BY <1>6 DEF Invite, Holds, PendingWellFormed
  <2>2. r.who \notin seated \cup waiting
    BY <2>1 DEF RosterWellFormed
  <2>3. CASE UNCHANGED <<accountVars, rosterVars>>
    BY <1>1, <2>3, FinishPending DEF RosterWellFormed, accountVars, rosterVars
  <2>4. CASE Admit(r.who, r.at) /\ account' = [account EXCEPT ![r.who] = "joined_only"]
    <3>1. account'[r.who] # "none" /\ \A q \in Person \ {r.who} : account'[q] = account[q]
      BY <1>2, <2>4 DEF TypeOK
    <3>2. /\ seated' \cap waiting' = {}
          /\ seated' \cup waiting' \subseteq seated \cup waiting \cup {r.who}
      BY <2>2, <2>4 DEF Admit, RosterWellFormed
    <3>3. RosterWellFormed'
      BY <1>2, <3>1, <3>2, GrowWellFormed
    <3>4. PendingWellFormed'
      BY <1>1, <2>1, <3>1, FinishPending
    <3>5. QED
      BY <3>3, <3>4
  <2>5. QED
    BY <1>6, <2>3, <2>4 DEF Invite
<1>7. CASE Kick(s)
  <2>1. r.op = "kick"
    BY <1>7 DEF Kick, Holds
  <2>2. CASE UNCHANGED <<accountVars, rosterVars>>
    BY <1>1, <2>2, FinishPending DEF RosterWellFormed, accountVars, rosterVars
  <2>3. CASE Vacate(r) /\ (Erase({r.who}) \/ UNCHANGED accountVars)
    <3>1. /\ seated' \cap waiting' = {}
          /\ seated' \cup waiting' \subseteq (seated \cup waiting) \ {r.who}
      BY <2>1, <2>3, VacateWellFormed
    <3>2. CASE Erase({r.who})
      BY <1>1, <3>1, <3>2, EraseWellFormed, FinishPending
    <3>3. CASE UNCHANGED accountVars
      BY <1>1, <3>1, <3>3, FinishPending DEF RosterWellFormed, accountVars
    <3>4. QED
      BY <2>3, <3>2, <3>3
  <2>4. QED
    BY <1>7, <2>2, <2>3 DEF Kick
<1>8. CASE SetLimit(s)
  <2>1. UNCHANGED account /\ seated' \cap waiting' = {}
        /\ seated' \cup waiting' \subseteq seated \cup waiting
    BY <1>8 DEF SetLimit, RosterWellFormed, rosterVars, accountVars
  <2>2. QED
    BY <1>1, <2>1, FinishPending DEF RosterWellFormed
<1>9. CASE Deactivate(s) \/ Delete(s)
  <2>1. CASE UNCHANGED <<accountVars, rosterVars>>
    BY <1>1, <2>1, FinishPending DEF RosterWellFormed, accountVars, rosterVars
  <2>2. CASE ClearMeeting
    <3>1. Erase(ViewMembers \cap Guests) /\ seated' = {} /\ waiting' = {}
      BY <2>2 DEF ClearMeeting
    <3>2. RosterWellFormed' /\ \A g \in Guests : account[g] = "none" => account'[g] = "none"
      BY <3>1, EraseWellFormed
    <3>3. QED
      BY <1>1, <3>2, FinishPending
  <2>3. QED
    BY <1>9, <2>1, <2>2 DEF Deactivate, Delete
<1>10. CASE Toggle(s) \/ Reactivate(s)
  BY <1>1, <1>10, FinishPending DEF Toggle, Reactivate, RosterWellFormed, accountVars, rosterVars
<1>11. QED
  BY <1>4, <1>5, <1>6, <1>7, <1>8, <1>9, <1>10 DEF Commit

LEMMA UnlockedPending ==
    ASSUME TypeOK, RosterWellFormed, PendingWellFormed, Unlocked
    PROVE  RosterWellFormed' /\ PendingWellFormed'
<1>1. ASSUME UNCHANGED tx, RosterWellFormed',
             \A g \in Guests : account[g] = "none" => account'[g] = "none"
      PROVE  RosterWellFormed' /\ PendingWellFormed'
  BY <1>1 DEF PendingWellFormed
<1>2. CASE ChangeTier \/ TurnWindow \/ Nominate
  BY <1>2, <1>1 DEF ChangeTier, TurnWindow, Nominate, RosterWellFormed, accountVars, rosterVars, lockVars
<1>3. ASSUME NEW u \in Users, Onboard(u) \/ RequestErasure(u)
      PROVE  RosterWellFormed' /\ PendingWellFormed'
  <2>1. /\ UNCHANGED <<tx, seated, waiting>>
        /\ account'[u] # "none" /\ \A q \in Person \ {u} : account'[q] = account[q]
    BY <1>3 DEF Onboard, RequestErasure, TypeOK, rosterVars, lockVars
  <2>2. RosterWellFormed'
    BY <2>1 DEF RosterWellFormed, TypeOK
  <2>3. QED
    BY <1>1, <2>1, <2>2, RosterAssumption
<1>4. ASSUME NEW P, Erase(P), UNCHANGED tx, DropLinks(P) \/ DropLinks(Person)
      PROVE  RosterWellFormed' /\ PendingWellFormed'
  <2>1. /\ seated' \cap waiting' = {}
        /\ seated' \cup waiting' \subseteq (seated \cup waiting) \ P
    BY <1>4 DEF DropLinks, RosterWellFormed, TypeOK
  <2>2. QED
    BY <1>1, <1>4, <2>1, EraseWellFormed
<1>5. ASSUME NEW P \in SUBSET Erasers, PurgeAccounts(P)
      PROVE  RosterWellFormed' /\ PendingWellFormed'
  BY <1>4, <1>5 DEF PurgeAccounts, lockVars
<1>6. CASE Collect
  BY <1>4, <1>6 DEF Collect, lockVars
<1>7. QED
  BY <1>2, <1>3, <1>5, <1>6, RosterAssumption DEF Unlocked

\* Nobody is listed twice and everybody listed has an account.
THEOREM RosterCorrect == Spec => [](RosterWellFormed /\ PendingWellFormed)
<1>1. Init => RosterWellFormed /\ PendingWellFormed
  BY DEF Init, RosterWellFormed, PendingWellFormed, Idle
<1>2. /\ TypeOK /\ TypeOK' /\ ListInv
      /\ RosterWellFormed /\ PendingWellFormed /\ [Next]_vars
      => RosterWellFormed' /\ PendingWellFormed'
  <2> SUFFICES ASSUME TypeOK, TypeOK', ListInv, RosterWellFormed, PendingWellFormed, [Next]_vars
               PROVE  RosterWellFormed' /\ PendingWellFormed'
    OBVIOUS
  <2>1. ASSUME NEW s \in Slots, TakeLock(s) PROVE RosterWellFormed' /\ PendingWellFormed'
    BY <2>1 DEF TakeLock, RosterWellFormed, PendingWellFormed, accountVars, rosterVars
  <2>2. ASSUME NEW s \in Slots, Rollback(s) PROVE RosterWellFormed' /\ PendingWellFormed'
    BY <2>2, FinishPending DEF Rollback, RosterWellFormed, accountVars, rosterVars
  <2>3. CASE UNCHANGED vars
    BY <2>3 DEF vars, RosterWellFormed, PendingWellFormed, accountVars, rosterVars, lockVars
  <2>4. QED
    BY <2>1, <2>2, <2>3, StartPending, CommitPending, UnlockedPending DEF Next, Refuse
<1>3. QED
  BY <1>1, <1>2, TypeCorrect, ListCorrect, PTL DEF Spec

-----------------------------------------------------------------------------
(* The queue moves up in order *)

LEMMA HandOverInOrder ==
    ASSUME TypeOK, ListInv, NEW s \in Slots, holder = s, NEW r,
           r.op = "limit" => r.limit \in Limits \cup {NoLimit},
           NEW p \in waiting, p \in PromotedBy(r),
           NEW q \in waiting, q \notin PromotedBy(r), r.op = "limit" \/ q # r.who
    PROVE  since[p] < since[q]
<1> DEFINE left == IF r.op = "limit" THEN {} ELSE {r.who}
           max == IF r.op = "limit" THEN r.limit ELSE meeting.max
           cap == EffectiveCapacity(view.tier, max)
           S == view.seated \ left
           W == view.waiting \ left
<1>1. cap \in Nat \cup {NoLimit}
  BY CapacityType DEF TypeOK, Meeting
<1>2. /\ waiting \subseteq view.waiting
      /\ \A x \in waiting : since[x] = view.since[x] /\ since[x] \in Nat
  BY RosterAssumption DEF ListInv, ViewIsCurrent, TypeOK
<1>3. PromotedBy(r) = ToPromote(S, W, view.since, cap)
  BY DEF PromotedBy
<1>4. q \in W \ ToPromote(S, W, view.since, cap)
  BY <1>2, <1>3
<1>5. /\ IsFiniteSet(S) /\ IsFiniteSet(W)
      /\ \A x \in W : view.since[x] \in Nat
  BY FinitePeople DEF TypeOK, View
<1>6. view.since[p] <= view.since[q]
  <2> HIDE DEF S, W, cap
  <2> QED BY <1>1, <1>3, <1>4, <1>5, RosterAssumption, PromotionInOrder
<1>7. since[p] # since[q]
  BY DEF ListInv, Queued
<1>8. QED
  BY <1>2, <1>6, <1>7

\* People move up in the order of their links, whatever runs beside the handler.
THEOREM OrderKept == Spec => LongestWaitingFirst
<1>1. /\ TypeOK /\ TypeOK' /\ ListInv /\ RosterWellFormed /\ PendingWellFormed /\ [Next]_vars
      => [\A p \in waiting \cap seated', q \in waiting \cap waiting' : since[p] < since[q]]_vars
  <2> SUFFICES ASSUME TypeOK, TypeOK', ListInv, RosterWellFormed, PendingWellFormed, Next,
                      NEW p \in waiting \cap seated', NEW q \in waiting \cap waiting'
               PROVE  since[p] < since[q]
    BY DEF vars, rosterVars
  <2>1. p \notin seated
    BY DEF RosterWellFormed
  <2>2. PICK s \in Slots : Commit(s)
    <3>1. ASSUME NEW u \in Slots, Start(u) PROVE FALSE
      BY <2>1, <3>1, StartShape DEF Begin, rosterVars
    <3>2. ASSUME NEW u \in Slots, TakeLock(u) PROVE FALSE
      BY <2>1, <3>2 DEF TakeLock, rosterVars
    <3>3. ASSUME NEW u \in Slots, Rollback(u) PROVE FALSE
      BY <2>1, <3>3 DEF Rollback, rosterVars
    <3>4. CASE Unlocked
      BY <2>1, <3>4, UnlockedShape
    <3>5. QED
      BY <3>1, <3>2, <3>3, <3>4 DEF Next, Refuse
  <2>3. CASE Join(s)
    <3>1. waiting \subseteq view.waiting
      BY <2>3, RosterAssumption DEF Join, Holds, ListInv, ViewIsCurrent
    <3>2. tx[s].who = p /\ tx[s].who \notin view.waiting
      BY <2>1, <2>3 DEF Join, Admit, ViewMembers, rosterVars
    <3>3. QED
      BY <3>1, <3>2
  <2>4. CASE Invite(s)
    <3>1. tx[s].who = p /\ account[tx[s].who] = "none"
      BY <2>1, <2>4 DEF Invite, Holds, Admit, PendingWellFormed, rosterVars
    <3>2. QED
      BY <3>1 DEF RosterWellFormed
  <2>5. CASE Leave(s) \/ Kick(s)
    <3>1. holder = s /\ tx[s].op # "limit" /\ Vacate(tx[s])
      BY <2>1, <2>5 DEF Leave, Kick, Holds, rosterVars
    <3>2. p \in PromotedBy(tx[s]) /\ q \notin PromotedBy(tx[s]) /\ q # tx[s].who
      BY <2>1, <3>1 DEF Vacate
    <3>3. QED
      BY <3>1, <3>2, HandOverInOrder
  <2>6. CASE SetLimit(s)
    <3>1. holder = s /\ tx[s].op = "limit"
      BY <2>6 DEF SetLimit, Holds
    <3>2. tx[s].limit \in Limits \cup {NoLimit}
      BY <3>1, RequestOfOp DEF Request, LockingOps
    <3>3. p \in PromotedBy(tx[s]) /\ q \notin PromotedBy(tx[s])
      BY <2>1, <2>6 DEF SetLimit, rosterVars
    <3>4. QED
      BY <3>1, <3>2, <3>3, HandOverInOrder
  <2>7. CASE Deactivate(s) \/ Delete(s) \/ Toggle(s) \/ Reactivate(s)
    BY <2>1, <2>7 DEF Deactivate, Delete, Toggle, Reactivate, ClearMeeting, rosterVars
  <2>8. QED
    BY <2>2, <2>3, <2>4, <2>5, <2>6, <2>7 DEF Commit
<1>2. QED
  BY <1>1, TypeCorrect, ListCorrect, RosterCorrect, PTL DEF Spec, LongestWaitingFirst

-----------------------------------------------------------------------------
(* A meeting that is over holds nobody *)

LEMMA CommitClosed ==
    ASSUME TypeOK, ClosedMeetingIsEmpty, NEW s \in Slots, Commit(s)
    PROVE  ClosedMeetingIsEmpty'
<1>1. CASE Join(s) \/ Leave(s) \/ Invite(s) \/ Kick(s)
  BY <1>1 DEF Join, Leave, Invite, Kick, ClosedMeetingIsEmpty
<1>2. CASE SetLimit(s)
  <2>1. meeting'.state = meeting.state
    BY <1>2 DEF SetLimit, TypeOK, Meeting
  <2>2. seated' \cup waiting' \subseteq seated \cup waiting
    BY <1>2 DEF SetLimit, rosterVars
  <2>3. QED
    BY <2>1, <2>2 DEF ClosedMeetingIsEmpty
<1>3. CASE Deactivate(s) \/ Delete(s)
  BY <1>3 DEF Deactivate, Delete, ClearMeeting, ClosedMeetingIsEmpty, rosterVars
<1>4. CASE Toggle(s) \/ Reactivate(s)
  <2>1. meeting'.state \in {meeting.state, "active"}
    BY <1>4 DEF Toggle, Reactivate, TypeOK, Meeting
  <2>2. QED
    BY <1>4, <2>1 DEF Toggle, Reactivate, ClosedMeetingIsEmpty, rosterVars
<1>5. QED
  BY <1>1, <1>2, <1>3, <1>4 DEF Commit

\* Whatever was in flight when a meeting ended, it is left with nobody on its list.
THEOREM ClosedMeetingsEmpty == Spec => []ClosedMeetingIsEmpty
<1>1. Init => ClosedMeetingIsEmpty
  BY DEF Init, ClosedMeetingIsEmpty
<1>2. TypeOK /\ TypeOK' /\ ClosedMeetingIsEmpty /\ [Next]_vars => ClosedMeetingIsEmpty'
  <2> SUFFICES ASSUME TypeOK, TypeOK', ClosedMeetingIsEmpty, [Next]_vars
               PROVE  ClosedMeetingIsEmpty'
    OBVIOUS
  <2>1. ASSUME NEW s \in Slots, Start(s) PROVE ClosedMeetingIsEmpty'
    BY <2>1, StartShape DEF Begin, ClosedMeetingIsEmpty, rosterVars
  <2>2. ASSUME NEW s \in Slots, TakeLock(s) \/ Rollback(s) PROVE ClosedMeetingIsEmpty'
    BY <2>2 DEF TakeLock, Rollback, ClosedMeetingIsEmpty, rosterVars
  <2>3. CASE Unlocked
    <3>1. ASSUME NEW P \in SUBSET Erasers, PurgeAccounts(P), UNCHANGED meeting
          PROVE  ClosedMeetingIsEmpty'
      BY <3>1 DEF PurgeAccounts, DropLinks, ClosedMeetingIsEmpty
    <3>2. ASSUME NEW P \in SUBSET Erasers, PurgeAccounts(P), DropLinks(Person)
          PROVE  ClosedMeetingIsEmpty'
      BY <3>2 DEF DropLinks, ClosedMeetingIsEmpty, TypeOK
    <3>3. ASSUME ~ \E P \in SUBSET Erasers : PurgeAccounts(P) PROVE ClosedMeetingIsEmpty'
      <4>1. UNCHANGED meeting
        BY <2>3, <3>3 DEF Unlocked, ChangeTier, TurnWindow, Onboard, RequestErasure, Nominate, Collect
      <4>2. QED
        BY <2>3, <4>1, UnlockedShape DEF ClosedMeetingIsEmpty
    <3>4. QED
      BY <3>1, <3>2, <3>3 DEF PurgeAccounts
  <2>4. CASE UNCHANGED vars
    BY <2>4 DEF vars, ClosedMeetingIsEmpty, rosterVars
  <2>5. QED
    BY <2>1, <2>2, <2>3, <2>4, CommitClosed DEF Next, Refuse
<1>3. QED
  BY <1>1, <1>2, TypeCorrect, PTL DEF Spec

-----------------------------------------------------------------------------
(* Every placeholder account has its link *)

\* What the two ways of dropping a placeholder rest on.  The holder of the lock
\* finds the account of a guest by the inviter it read, and behind it an inviter
\* can only be forgotten; the owner is never a collectable account, and its row
\* does not go before the meeting does.
AccountsInv ==
    /\ holder # NoSlot => \A g \in Guests : inviter[g] \in {view.inviter[g], NoUser}
    /\ account[Owner] # "joined_only"
    /\ account[Owner] = "none" => meeting.state = "gone"
    /\ PlaceholdersAccountedFor

\* A placeholder stays accounted for when it keeps its link or loses its inviter.
LEMMA KeepsAccounted ==
    ASSUME PlaceholdersAccountedFor,
           \A g \in Guests : account'[g] # "none" =>
               \/ g \in Members'
               \/ /\ account[g] # "none"
                  /\ g \in Members => inviter'[g] = NoUser
                  /\ inviter'[g] \in {inviter[g], NoUser},
           account[Owner] = "none" => account'[Owner] = "none"
    PROVE  PlaceholdersAccountedFor'
BY DEF PlaceholdersAccountedFor

\* Erasing accounts and dropping their links together leaves no placeholder behind.
LEMMA EraseAccounted ==
    ASSUME TypeOK, PlaceholdersAccountedFor, NEW P, Erase(P),
           Members \ P \subseteq Members' \/ Owner \in P
    PROVE  PlaceholdersAccountedFor'
<1>1. /\ \A g \in Guests : /\ account'[g] # "none" => account[g] # "none" /\ g \notin P
                           /\ inviter'[g] \in {inviter[g], NoUser}
      /\ account[Owner] = "none" => account'[Owner] = "none"
      /\ Owner \in P => account'[Owner] = "none"
  BY RosterAssumption DEF Erase
<1>2. CASE Owner \in P
  BY <1>1, <1>2 DEF PlaceholdersAccountedFor
<1>3. CASE Members \ P \subseteq Members'
  BY <1>1, <1>3, KeepsAccounted
<1>4. QED
  BY <1>2, <1>3

\* A commit leaves the owner's account alone, and does not undo the end of the meeting.
LEMMA CommitOwner ==
    ASSUME TypeOK, AccountsInv, PendingWellFormed, NEW s \in Slots, Commit(s)
    PROVE  /\ account'[Owner] = account[Owner]
           /\ meeting.state = "gone" => meeting'.state = "gone"
<1>1. Owner \in Person /\ Owner \notin Guests
  BY RosterAssumption
<1>2. CASE Join(s) \/ Leave(s)
  <2>1. account[Owner] # "none"
    BY <1>2 DEF Join, Leave, AccountsInv
  <2>2. QED
    BY <1>1, <1>2, <2>1 DEF Join, Leave, Register, TypeOK
<1>3. CASE Invite(s)
  BY <1>1, <1>3 DEF Invite, Holds, PendingWellFormed, TypeOK, accountVars
<1>4. CASE Kick(s)
  BY <1>1, <1>4 DEF Kick, Erase, accountVars
<1>5. CASE SetLimit(s)
  BY <1>5 DEF SetLimit, TypeOK, Meeting, accountVars
<1>6. CASE Deactivate(s) \/ Delete(s)
  <2>1. account'[Owner] = account[Owner]
    BY <1>1, <1>6 DEF Deactivate, Delete, ClearMeeting, Erase, accountVars
  <2>2. meeting.state = "gone" => meeting'.state = "gone"
    BY <1>6 DEF Deactivate, Delete, TypeOK, Meeting
  <2>3. QED
    BY <2>1, <2>2
<1>7. CASE Toggle(s) \/ Reactivate(s)
  BY <1>7 DEF Toggle, Reactivate, accountVars
<1>8. QED
  BY <1>2, <1>3, <1>4, <1>5, <1>6, <1>7 DEF Commit

\* Only a guest the kicking handler finds by its inviter loses its account, and a
\* guest it does not find that way has no inviter any more.
LEMMA KickAccounted ==
    ASSUME TypeOK, AccountsInv, RosterWellFormed, NEW s \in Slots, Kick(s)
    PROVE  PlaceholdersAccountedFor'
<1> DEFINE p == tx[s].who
<1>1. holder # NoSlot /\ tx[s].op = "kick"
  BY RosterAssumption DEF Kick, Holds
<1>2. CASE UNCHANGED <<accountVars, rosterVars>>
  BY <1>2 DEF AccountsInv, PlaceholdersAccountedFor, accountVars, rosterVars
<1>3. CASE Vacate(tx[s])
  <2>1. Members \ {p} \subseteq Members'
    BY <1>3 DEF Vacate
  <2>2. CASE Erase({p})
    BY <2>1, <2>2, EraseAccounted DEF AccountsInv
  <2>3. CASE UNCHANGED accountVars /\ ~(p \in Guests /\ view.inviter[p] # NoUser)
    <3>1. p \in Guests => inviter[p] = NoUser
      BY <1>1, <2>3 DEF AccountsInv
    <3>2. QED
      BY <2>1, <2>3, <3>1 DEF AccountsInv, PlaceholdersAccountedFor, accountVars
  <2>4. CASE UNCHANGED <<accountVars, rosterVars>>
    BY <1>2, <2>4
  <2>5. QED
    BY <2>2, <2>3, <2>4 DEF Kick
<1>4. QED
  BY <1>2, <1>3 DEF Kick

\* Whatever commits, placeholders and links stay together.
LEMMA CommitAccounted ==
    ASSUME TypeOK, ListInv, RosterWellFormed, PendingWellFormed, AccountsInv,
           NEW s \in Slots, Commit(s)
    PROVE  PlaceholdersAccountedFor'
<1> DEFINE r == tx[s]
<1>1. account'[Owner] = account[Owner] /\ PlaceholdersAccountedFor
  BY CommitOwner DEF AccountsInv
<1>2. CASE Join(s)
  <2>1. r.who \in Users
    BY <1>2 DEF Join, Holds, PendingWellFormed
  <2>2. \A g \in Guests : account'[g] = account[g] /\ inviter'[g] = inviter[g]
    BY <1>2, <2>1, RosterAssumption DEF Join, Register, TypeOK
  <2>3. Members \subseteq Members'
    BY <1>2 DEF Join, Admit, rosterVars
  <2>4. QED
    BY <1>1, <2>2, <2>3, KeepsAccounted
<1>3. CASE Leave(s)
  <2>1. r.who \in Users
    BY <1>3 DEF Leave, Holds, PendingWellFormed
  <2>2. \A g \in Guests : account'[g] = account[g] /\ inviter'[g] = inviter[g]
    BY <1>3, <2>1, RosterAssumption DEF Leave, Register, TypeOK
  <2>3. Members \ {r.who} \subseteq Members'
    BY <1>3 DEF Leave, Vacate, rosterVars
  <2>4. r.who \notin Guests
    BY <2>1, RosterAssumption
  <2>5. QED
    BY <1>1, <2>2, <2>3, <2>4, KeepsAccounted
<1>4. CASE Invite(s)
  <2>1. CASE UNCHANGED <<accountVars, rosterVars>>
    BY <1>1, <2>1, KeepsAccounted DEF accountVars, rosterVars
  <2>2. CASE /\ account' = [account EXCEPT ![r.who] = "joined_only"]
             /\ inviter' = [inviter EXCEPT ![r.who] = r.by]
             /\ Admit(r.who, r.at)
    <3>1. Members \cup {r.who} \subseteq Members'
      BY <2>2 DEF Admit
    <3>2. \A g \in Guests \ {r.who} : account'[g] = account[g] /\ inviter'[g] = inviter[g]
      BY <2>2 DEF TypeOK
    <3>3. QED
      BY <1>1, <3>1, <3>2, KeepsAccounted
  <2>3. QED
    BY <1>4, <2>1, <2>2 DEF Invite
<1>5. CASE Kick(s)
  BY <1>5, KickAccounted
<1>6. CASE SetLimit(s)
  <2>1. Members \subseteq Members' /\ UNCHANGED <<account, inviter>>
    BY <1>6 DEF SetLimit, rosterVars, accountVars
  <2>2. QED
    BY <1>1, <2>1, KeepsAccounted
<1>7. CASE Deactivate(s) \/ Delete(s)
  <2>1. CASE UNCHANGED <<accountVars, rosterVars>>
    BY <1>1, <2>1, KeepsAccounted DEF accountVars, rosterVars
  <2>2. CASE ClearMeeting
    <3>1. Members \subseteq ViewMembers
      BY <1>7, RosterAssumption DEF Deactivate, Delete, Holds, ListInv, ViewIsCurrent, ViewMembers
    <3>2. Erase(ViewMembers \cap Guests)
      BY <2>2 DEF ClearMeeting
    <3>3. \A g \in Guests : account'[g] # "none" => g \notin Members /\ account[g] # "none"
      BY <3>1, <3>2 DEF Erase
    <3>4. \A g \in Guests : inviter'[g] \in {inviter[g], NoUser}
      BY <3>2 DEF Erase
    <3>5. QED
      BY <1>1, <3>3, <3>4, KeepsAccounted
  <2>3. QED
    BY <1>7, <2>1, <2>2 DEF Deactivate, Delete
<1>8. CASE Toggle(s) \/ Reactivate(s)
  BY <1>1, <1>8, KeepsAccounted DEF Toggle, Reactivate, accountVars, rosterVars
<1>9. QED
  BY <1>2, <1>3, <1>4, <1>5, <1>6, <1>7, <1>8 DEF Commit

\* The jobs that erase accounts behind the lock take links and accounts together.
LEMMA UnlockedAccounted ==
    ASSUME TypeOK, AccountsInv, Unlocked
    PROVE  AccountsInv'
<1>o. Owner \in Person /\ Owner \notin Guests /\ Erasers \subseteq Users
  BY RosterAssumption
<1>1. CASE ChangeTier \/ TurnWindow \/ Nominate
  BY <1>1 DEF ChangeTier, TurnWindow, Nominate, AccountsInv, PlaceholdersAccountedFor,
              accountVars, rosterVars, lockVars
<1>2. ASSUME NEW u \in Users, Onboard(u) \/ RequestErasure(u) PROVE AccountsInv'
  <2>1. /\ UNCHANGED <<meeting, inviter, seated, waiting, holder, view>>
        /\ account[u] # "none" /\ account'[u] \notin {"none", "joined_only"}
        /\ \A q \in Person \ {u} : account'[q] = account[q]
    BY <1>2 DEF Onboard, RequestErasure, TypeOK, rosterVars, lockVars
  <2>2. \A g \in Guests : account'[g] = account[g]
    BY <2>1, RosterAssumption
  <2>3. QED
    BY <1>o, <2>1, <2>2 DEF AccountsInv, PlaceholdersAccountedFor
<1>3. ASSUME NEW P, Erase(P), UNCHANGED <<holder, view>>, PlaceholdersAccountedFor',
             Owner \in P => meeting'.state = "gone",
             meeting.state = "gone" => meeting'.state = "gone"
      PROVE  AccountsInv'
  <2>1. \A g \in Guests : inviter'[g] \in {inviter[g], NoUser}
    BY <1>3 DEF Erase
  <2>2. account'[Owner] = IF Owner \in P THEN "none" ELSE account[Owner]
    BY <1>o, <1>3 DEF Erase
  <2>3. QED
    BY <1>3, <2>1, <2>2 DEF AccountsInv
<1>4. ASSUME NEW P \in SUBSET Erasers, PurgeAccounts(P) PROVE AccountsInv'
  <2>1. Erase(P) /\ UNCHANGED <<holder, view>>
    BY <1>4 DEF PurgeAccounts, lockVars
  <2>2. /\ Owner \in P => meeting'.state = "gone"
        /\ meeting.state = "gone" => meeting'.state = "gone"
    BY <1>4 DEF PurgeAccounts, TypeOK, Meeting
  <2>3. Members \ P \subseteq Members' \/ Owner \in P
    BY <1>4 DEF PurgeAccounts, DropLinks
  <2>4. PlaceholdersAccountedFor'
    BY <2>1, <2>3, EraseAccounted DEF AccountsInv
  <2>5. QED
    BY <1>3, <2>1, <2>2, <2>4
<1>5. CASE Collect
  <2> DEFINE P == {p \in nominated : account[p] = "joined_only"}
  <2>1. Erase(P) /\ UNCHANGED <<holder, view, meeting>>
    BY <1>5 DEF Collect, lockVars
  <2>2. Owner \notin P
    BY DEF AccountsInv
  <2>3. Members \ P \subseteq Members'
    BY <1>5 DEF Collect, DropLinks
  <2> HIDE DEF P
  <2>4. PlaceholdersAccountedFor'
    BY <2>1, <2>3, EraseAccounted DEF AccountsInv
  <2>5. QED
    BY <1>3, <2>1, <2>2, <2>4
<1>6. QED
  BY <1>1, <1>2, <1>4, <1>5, RosterAssumption DEF Unlocked

LEMMA InitAccounts == Init => AccountsInv
BY RosterAssumption DEF Init, AccountsInv, PlaceholdersAccountedFor

\* Placeholders keep their links, whatever runs beside the handler that drops one.
THEOREM AccountsCorrect == Spec => []AccountsInv
<1>1. /\ TypeOK /\ TypeOK' /\ ListInv /\ RosterWellFormed /\ PendingWellFormed
      /\ AccountsInv /\ [Next]_vars
      => AccountsInv'
  <2> SUFFICES ASSUME TypeOK, TypeOK', ListInv, RosterWellFormed, PendingWellFormed,
                      AccountsInv, [Next]_vars
               PROVE  AccountsInv'
    OBVIOUS
  <2>1. ASSUME NEW s \in Slots, Start(s) PROVE AccountsInv'
    <3>1. UNCHANGED <<meeting, account, inviter, seated, waiting, holder, view>>
      BY <2>1, StartShape DEF Begin, accountVars, rosterVars
    <3>2. QED
      BY <3>1 DEF AccountsInv, PlaceholdersAccountedFor
  <2>2. ASSUME NEW s \in Slots, TakeLock(s) PROVE AccountsInv'
    BY <2>2 DEF TakeLock, AccountsInv, PlaceholdersAccountedFor, accountVars, rosterVars
  <2>3. ASSUME NEW s \in Slots, Commit(s) PROVE AccountsInv'
    <3>1. holder' = NoSlot
      BY <2>3, CommitShape DEF ListInv, Finish
    <3>2. /\ account'[Owner] = account[Owner]
          /\ meeting.state = "gone" => meeting'.state = "gone"
      BY <2>3, CommitOwner
    <3>3. PlaceholdersAccountedFor'
      BY <2>3, CommitAccounted
    <3>4. QED
      BY <3>1, <3>2, <3>3 DEF AccountsInv
  <2>4. ASSUME NEW s \in Slots, Rollback(s) PROVE AccountsInv'
    <3>1. /\ UNCHANGED <<meeting, account, inviter, seated, waiting>>
          /\ holder' # NoSlot => holder' = holder /\ view' = view
      BY <2>4 DEF Rollback, Finish, accountVars, rosterVars
    <3>2. QED
      BY <3>1 DEF AccountsInv, PlaceholdersAccountedFor
  <2>5. CASE UNCHANGED vars
    BY <2>5 DEF vars, AccountsInv, PlaceholdersAccountedFor, accountVars, rosterVars, lockVars
  <2>6. QED
    BY <2>1, <2>2, <2>3, <2>4, <2>5, UnlockedAccounted DEF Next, Refuse
<1>2. QED
  BY <1>1, InitAccounts, TypeCorrect, ListCorrect, RosterCorrect, PTL DEF Spec

\* Every link has its account, every placeholder account its link, its erased
\* inviter or its erased owner, and a meeting that is over holds nobody.
THEOREM AccountsOfTheList == Spec => []RosterIsAccountedFor
<1>1. RosterWellFormed /\ AccountsInv /\ ClosedMeetingIsEmpty => RosterIsAccountedFor
  BY DEF AccountsInv, RosterIsAccountedFor
<1>2. QED
  BY <1>1, RosterCorrect, AccountsCorrect, ClosedMeetingsEmpty, PTL

-----------------------------------------------------------------------------
(* Nobody is wronged *)

\* The freeze of a list costs nobody a place, whatever runs beside it: a leave is
\* refused, and what remains are the owner's kick, the end of the meeting and the
\* jobs that take accounts with their links.
THEOREM FreezeKeepsThePlaces == Spec => FrozenLosesNobody
<1>1. TypeOK /\ RosterWellFormed /\ PendingWellFormed /\ [Next]_vars =>
        [Frozen => \A p \in Members \ Members' :
            \/ account'[p] = "none" \/ account'[Owner] = "none"
            \/ \E s \in Slots : holder = s /\ tx[s].op = "kick" /\ tx[s].who = p
            \/ \E s \in Slots : holder = s /\ tx[s].op \in {"deactivate", "delete"}]_vars
  <2> SUFFICES ASSUME TypeOK, Next, Frozen, NEW p \in Members, p \notin Members'
               PROVE  \/ account'[p] = "none" \/ account'[Owner] = "none"
                      \/ \E s \in Slots : holder = s /\ tx[s].op = "kick" /\ tx[s].who = p
                      \/ \E s \in Slots : holder = s /\ tx[s].op \in {"deactivate", "delete"}
    OBVIOUS
  <2>o. Owner \in Person /\ Erasers \subseteq Person /\ p \in Person
    BY RosterAssumption DEF TypeOK
  <2>1. ASSUME NEW s \in Slots, Start(s) PROVE FALSE
    BY <2>1, StartShape DEF Begin, rosterVars
  <2>2. ASSUME NEW s \in Slots, TakeLock(s) \/ Rollback(s) PROVE FALSE
    BY <2>2 DEF TakeLock, Rollback, rosterVars
  <2>3. ASSUME NEW s \in Slots, Commit(s)
        PROVE  /\ holder = s
               /\ \/ tx[s].op = "kick" /\ tx[s].who = p
                  \/ tx[s].op \in {"deactivate", "delete"}
    <3>1. ~Join(s) /\ ~Invite(s) /\ ~SetLimit(s) /\ ~Toggle(s) /\ ~Reactivate(s)
      BY DEF Join, Invite, SetLimit, Toggle, Reactivate, Admit, rosterVars
    <3>2. ~Leave(s)
      BY DEF Leave, AttendanceIsOpen, rosterVars
    <3>3. CASE Kick(s)
      BY <3>3 DEF Kick, Holds, Vacate, rosterVars
    <3>4. CASE Deactivate(s) \/ Delete(s)
      BY <3>4 DEF Deactivate, Delete, Holds
    <3>5. QED
      BY <2>3, <3>1, <3>2, <3>3, <3>4 DEF Commit
  <2>4. CASE Unlocked
    <3>1. ~ChangeTier /\ ~TurnWindow /\ ~Nominate
      BY DEF ChangeTier, TurnWindow, Nominate, rosterVars
    <3>2. \A u \in Users : ~Onboard(u) /\ ~RequestErasure(u)
      BY DEF Onboard, RequestErasure, rosterVars
    <3>3. ASSUME NEW P \in SUBSET Erasers, PurgeAccounts(P)
          PROVE  account'[p] = "none" \/ account'[Owner] = "none"
      <4>1. p \in P \/ Owner \in P
        BY <3>3 DEF PurgeAccounts, DropLinks
      <4>2. QED
        BY <2>o, <3>3, <4>1 DEF PurgeAccounts, Erase
    <3>4. CASE Collect
      BY <2>o, <3>4 DEF Collect, DropLinks, Erase
    <3>5. QED
      BY <2>4, <3>1, <3>2, <3>3, <3>4, RosterAssumption DEF Unlocked
  <2>5. QED
    BY <2>1, <2>2, <2>3, <2>4 DEF Next, Refuse
<1>2. QED
  BY <1>1, TypeCorrect, RosterCorrect, PTL DEF Spec, FrozenLosesNobody

\* When somebody is left in the queue, the seats are taken: whoever is not moved up
\* has every free place moved up before it.
LEMMA PromotionFills ==
    ASSUME NEW S, IsFiniteSet(S), NEW W, IsFiniteSet(W), S \cap W = {}, NEW s,
           \A p \in W : s[p] \in Nat,
           NEW cap \in Nat \cup {NoLimit}, NoLimit \notin Nat,
           W \ ToPromote(S, W, s, cap) # {}
    PROVE  Full(S \cup ToPromote(S, W, s, cap), cap)
<1> DEFINE U == ToPromote(S, W, s, cap)
           Stamps == {s[p] : p \in W \ U}
<1>1. cap \in Nat /\ cap # NoLimit
  BY DEF ToPromote
<1>2. PICK q \in W \ U : \A p \in W \ U : s[q] <= s[p]
  <2>1. Stamps \in SUBSET Nat /\ Stamps # {}
    OBVIOUS
  <2>2. PICK n \in Stamps : \A m \in Stamps : n <= m
    <3> HIDE DEF Stamps
    <3> QED BY <2>1, LeastNatural
  <2>3. QED
    BY <2>2
<1>3. Ahead(W, s, q) \in SUBSET U
  BY <1>2 DEF Ahead
<1>4. U \in SUBSET W /\ IsFiniteSet(U) /\ IsFiniteSet(Ahead(W, s, q))
  BY <1>3, FS_Subset DEF ToPromote
<1>5. ~(Cardinality(S) + Cardinality(Ahead(W, s, q)) < cap)
  BY <1>2 DEF ToPromote
<1>6. /\ Cardinality(S) \in Nat /\ Cardinality(Ahead(W, s, q)) \in Nat
      /\ IsFiniteSet(S \cup U) /\ Cardinality(S \cup U) \in Nat
  BY <1>4, FS_CardinalityType, FS_Union
<1>7. S \cap Ahead(W, s, q) = {}
  BY DEF Ahead
<1>8. Cardinality(S \cup Ahead(W, s, q)) = Cardinality(S) + Cardinality(Ahead(W, s, q))
  <2>1. Cardinality(S \cap Ahead(W, s, q)) = 0
    BY <1>7, FS_EmptySet
  <2>2. Cardinality(S \cup Ahead(W, s, q)) =
           Cardinality(S) + Cardinality(Ahead(W, s, q)) - Cardinality(S \cap Ahead(W, s, q))
    BY <1>4, FS_Union
  <2>3. QED
    BY <1>6, <2>1, <2>2
<1>9. S \cup Ahead(W, s, q) \in SUBSET (S \cup U)
  BY <1>3
<1>10. Cardinality(S \cup Ahead(W, s, q)) <= Cardinality(S \cup U)
  BY <1>6, <1>9, FS_Subset
<1>11. Cardinality(S \cup U) >= cap
  <2> HIDE DEF U
  <2> QED BY <1>1, <1>5, <1>6, <1>8, <1>10
<1>12. QED
  BY <1>1, <1>11 DEF Full

\* The steps that take links away, or change the tier, behind the holder of the lock.
TakesLinks == Collect \/ \E P \in SUBSET Erasers : PurgeAccounts(P)
BehindTheLock == ChangeTier \/ TakesLinks

\* Without the first the list the holder read stays the list there is, without
\* either the capacity as well.
ViewIsExact ==
    holder # NoSlot =>
        /\ view.seated = seated /\ view.waiting = waiting
        /\ \A p \in waiting : since[p] = view.since[p]
        /\ view.tier \in Tiers

TierAsRead == holder # NoSlot => view.tier = tier

QueueInv == ViewIsExact /\ TierAsRead /\ NobodyWaitsForAFreePlace

\* The places a departure frees, or a new limit adds, are handed on.
LEMMA HandOverFills ==
    ASSUME TypeOK, RosterWellFormed, ViewIsExact, TierAsRead, holder # NoSlot,
           NEW left \in SUBSET Person, NEW m \in Limits \cup {NoLimit},
           seated' = (seated \ left) \cup
               ToPromote(view.seated \ left, view.waiting \ left, view.since, EffectiveCapacity(view.tier, m)),
           waiting' = (waiting \ left) \
               ToPromote(view.seated \ left, view.waiting \ left, view.since, EffectiveCapacity(view.tier, m)),
           tier' = tier, meeting'.max = m
    PROVE  NobodyWaitsForAFreePlace'
<1> DEFINE S == seated \ left
           W == waiting \ left
           cap == EffectiveCapacity(view.tier, m)
           U == ToPromote(S, W, view.since, cap)
<1>1. view.seated = seated /\ view.waiting = waiting /\ view.tier = tier
  BY DEF ViewIsExact, TierAsRead
<1>2. seated' = S \cup U /\ waiting' = W \ U
  BY <1>1
<1>3. cap \in Nat \cup {NoLimit}
  BY CapacityType
<1>4. IsFiniteSet(S) /\ IsFiniteSet(W) /\ S \cap W = {}
  BY FinitePeople DEF TypeOK, RosterWellFormed
<1>5. \A p \in W : view.since[p] \in Nat
  BY DEF TypeOK, View
<1>6. waiting' # {} => Full(seated', cap)
  <2>1. NoLimit \notin Nat
    BY RosterAssumption
  <2>2. W \ ToPromote(S, W, view.since, cap) # {} => Full(S \cup ToPromote(S, W, view.since, cap), cap)
    <3> HIDE DEF S, W, cap
    <3> QED BY <1>3, <1>4, <1>5, <2>1, PromotionFills
  <2>3. QED
    BY <1>2, <2>2
<1>7. QED
  BY <1>1, <1>6 DEF NobodyWaitsForAFreePlace

\* A newcomer waits only for a meeting that is full.
LEMMA AdmitFills ==
    ASSUME ViewIsExact, TierAsRead, NobodyWaitsForAFreePlace, holder # NoSlot,
           NEW p, NEW at, Admit(p, at), UNCHANGED <<tier, meeting>>
    PROVE  NobodyWaitsForAFreePlace'
BY DEF Admit, ViewCapacity, ViewIsExact, TierAsRead, NobodyWaitsForAFreePlace

LEMMA CommitFills ==
    ASSUME TypeOK, RosterWellFormed, QueueInv, NEW s \in Slots, Commit(s)
    PROVE  NobodyWaitsForAFreePlace'
<1> DEFINE r == tx[s]
<1>1. Finish(s) /\ UNCHANGED tier
  BY DEF Commit, Join, Leave, Invite, Kick, SetLimit, Deactivate, Delete, Toggle, Reactivate, Finish
<1>2. NobodyWaitsForAFreePlace /\ ViewIsExact /\ TierAsRead
  BY DEF QueueInv
<1>3. ASSUME UNCHANGED rosterVars, meeting'.max = meeting.max
      PROVE  NobodyWaitsForAFreePlace'
  BY <1>1, <1>2, <1>3 DEF NobodyWaitsForAFreePlace, rosterVars
<1>4. CASE Join(s) \/ Invite(s)
  <2>1. holder # NoSlot /\ UNCHANGED meeting
    BY <1>4, RosterAssumption DEF Join, Invite, Holds
  <2>2. QED
    BY <1>1, <1>2, <1>3, <1>4, <2>1, AdmitFills DEF Join, Invite
<1>5. CASE Leave(s) \/ Kick(s)
  <2>1. holder # NoSlot /\ UNCHANGED meeting /\ r.op \in {"leave", "kick"}
    BY <1>5, RosterAssumption DEF Leave, Kick, Holds
  <2>2. CASE UNCHANGED rosterVars
    BY <1>3, <2>1, <2>2
  <2>3. CASE Vacate(r)
    <3>1. r.who \in Person
      BY <2>1, RequestOfOp DEF Request, LockingOps
    <3>2. PromotedBy(r) = ToPromote(view.seated \ {r.who}, view.waiting \ {r.who}, view.since,
                                    EffectiveCapacity(view.tier, meeting.max))
      BY <2>1 DEF PromotedBy
    <3>3. meeting.max \in Limits \cup {NoLimit}
      BY DEF TypeOK, Meeting
    <3>4. /\ seated' = (seated \ {r.who}) \cup PromotedBy(r)
          /\ waiting' = (waiting \ {r.who}) \ PromotedBy(r)
      BY <2>3 DEF Vacate
    <3>5. QED
      BY <1>1, <1>2, <2>1, <3>1, <3>2, <3>3, <3>4, HandOverFills
  <2>4. QED
    BY <1>5, <2>2, <2>3 DEF Leave, Kick
<1>6. CASE SetLimit(s)
  <2>1. holder # NoSlot /\ r.op = "limit"
    BY <1>6, RosterAssumption DEF SetLimit, Holds
  <2>2. r.limit \in Limits \cup {NoLimit}
    BY <2>1, RequestOfOp DEF Request, LockingOps
  <2>3. CASE UNCHANGED <<meeting, rosterVars>>
    BY <1>3, <2>3
  <2>4. CASE /\ meeting' = [meeting EXCEPT !.max = r.limit]
             /\ seated' = seated \cup PromotedBy(r)
             /\ waiting' = waiting \ PromotedBy(r)
    <3>1. PromotedBy(r) = ToPromote(view.seated \ {}, view.waiting \ {}, view.since,
                                    EffectiveCapacity(view.tier, r.limit))
      BY <2>1 DEF PromotedBy
    <3>2. meeting'.max = r.limit
      BY <2>4 DEF TypeOK, Meeting
    <3>3. /\ seated' = (seated \ {}) \cup PromotedBy(r)
          /\ waiting' = (waiting \ {}) \ PromotedBy(r)
      BY <2>4
    <3>4. QED
      BY <1>1, <1>2, <2>1, <2>2, <3>1, <3>2, <3>3, HandOverFills
  <2>5. QED
    BY <1>6, <2>3, <2>4 DEF SetLimit
<1>7. CASE Deactivate(s) \/ Delete(s)
  <2>1. CASE waiting' = {}
    BY <2>1 DEF NobodyWaitsForAFreePlace
  <2>2. CASE UNCHANGED <<meeting, rosterVars>>
    BY <1>3, <2>2
  <2>3. QED
    BY <1>7, <2>1, <2>2 DEF Deactivate, Delete, ClearMeeting
<1>8. CASE Toggle(s) \/ Reactivate(s)
  <2>1. UNCHANGED rosterVars /\ meeting'.max = meeting.max
    BY <1>8 DEF Toggle, Reactivate, TypeOK, Meeting
  <2>2. QED
    BY <1>3, <2>1
<1>9. QED
  BY <1>4, <1>5, <1>6, <1>7, <1>8 DEF Commit

\* The list the holder of the lock read is the list there is, while nothing is
\* taken from it behind the lock.
LEMMA ViewStep ==
    ASSUME TypeOK, ListInv, ViewIsExact, TypeOK', [Next]_vars, [~TakesLinks]_vars
    PROVE  ViewIsExact'
<1>1. ASSUME UNCHANGED <<seated, waiting, since>>, holder' # NoSlot => holder' = holder /\ view' = view
      PROVE  ViewIsExact'
  BY <1>1 DEF ViewIsExact
<1>2. ASSUME NEW s \in Slots, Start(s) PROVE ViewIsExact'
  BY <1>1, <1>2, StartShape DEF Begin, rosterVars
<1>3. ASSUME NEW s \in Slots, TakeLock(s) PROVE ViewIsExact'
  BY <1>3 DEF TakeLock, ViewIsExact, TypeOK, rosterVars
<1>4. ASSUME NEW s \in Slots, Commit(s) PROVE ViewIsExact'
  BY <1>4, CommitShape DEF ListInv, Finish, ViewIsExact
<1>5. ASSUME NEW s \in Slots, Rollback(s) PROVE ViewIsExact'
  BY <1>1, <1>5 DEF Rollback, Finish, rosterVars
<1>6. CASE UNCHANGED vars
  BY <1>1, <1>6 DEF vars, rosterVars, lockVars
<1>7. CASE Unlocked /\ ~TakesLinks
  <2>1. UNCHANGED <<seated, waiting, since, holder, view>>
    BY <1>7 DEF Unlocked, TakesLinks, ChangeTier, TurnWindow, Nominate, Onboard, RequestErasure,
                rosterVars, lockVars
  <2>2. QED
    BY <1>1, <2>1
<1>8. QED
  BY <1>2, <1>3, <1>4, <1>5, <1>6, <1>7 DEF Next, Refuse

LEMMA QueueStep ==
    ASSUME TypeOK, TypeOK', ListInv, RosterWellFormed, QueueInv,
           [Next]_vars, [~BehindTheLock]_vars
    PROVE  QueueInv'
<1>v. ViewIsExact'
  <2>1. [~TakesLinks]_vars
    BY DEF BehindTheLock
  <2>2. QED
    BY <2>1, ViewStep DEF QueueInv
<1>1. ASSUME UNCHANGED <<tier, seated, waiting>>, meeting'.max = meeting.max,
             holder' # NoSlot => holder' = holder /\ view' = view
      PROVE  QueueInv'
  BY <1>1, <1>v DEF QueueInv, TierAsRead, NobodyWaitsForAFreePlace
<1>2. ASSUME NEW s \in Slots, Start(s) PROVE QueueInv'
  BY <1>1, <1>2, StartShape DEF Begin, rosterVars
<1>3. ASSUME NEW s \in Slots, TakeLock(s) PROVE QueueInv'
  BY <1>3, <1>v DEF TakeLock, QueueInv, TierAsRead, NobodyWaitsForAFreePlace, rosterVars
<1>4. ASSUME NEW s \in Slots, Commit(s) PROVE QueueInv'
  <2>1. holder' = NoSlot
    BY <1>4, CommitShape DEF ListInv, Finish
  <2>2. QED
    BY <1>4, <1>v, <2>1, CommitFills DEF QueueInv, TierAsRead
<1>5. ASSUME NEW s \in Slots, Rollback(s) PROVE QueueInv'
  BY <1>1, <1>5 DEF Rollback, Finish, rosterVars
<1>6. CASE UNCHANGED vars
  BY <1>1, <1>6 DEF vars, rosterVars, lockVars
<1>7. CASE Unlocked /\ ~BehindTheLock
  <2>1. TurnWindow \/ Nominate \/ \E u \in Users : Onboard(u) \/ RequestErasure(u)
    BY <1>7, RosterAssumption DEF Unlocked, BehindTheLock, TakesLinks
  <2>2. UNCHANGED <<tier, meeting, seated, waiting, holder, view>>
    BY <2>1 DEF TurnWindow, Nominate, Onboard, RequestErasure, rosterVars, lockVars
  <2>3. QED
    BY <1>1, <2>2
<1>8. QED
  BY <1>2, <1>3, <1>4, <1>5, <1>6, <1>7 DEF Next, Refuse

\* As long as no account is erased behind the lock and the tier does not change
\* there, nobody waits for a free place.
THEOREM EveryPlaceIsHandedOn ==
    Spec /\ [][~BehindTheLock]_vars => []NobodyWaitsForAFreePlace
<1>1. Init => QueueInv
  BY DEF Init, QueueInv, ViewIsExact, TierAsRead, NobodyWaitsForAFreePlace
<1>2. QueueInv => NobodyWaitsForAFreePlace
  BY DEF QueueInv
<1>3. QED
  BY <1>1, <1>2, QueueStep, TypeCorrect, ListCorrect, RosterCorrect, PTL DEF Spec

\* Under the same condition no step wrongs anybody on the list.
THEOREM NoneIsWronged == Spec /\ [][~BehindTheLock]_vars => NobodyIsWronged
<1>1. Spec /\ [][~BehindTheLock]_vars => [][NobodyWaitsForAFreePlace']_vars
  BY EveryPlaceIsHandedOn, PTL
<1>2. QED
  BY <1>1, FreezeKeepsThePlaces, PTL DEF NobodyIsWronged

-----------------------------------------------------------------------------
(* The queue as a sequence *)

\* Q is the people of W in the order of their stamps s.
InLine(Q, W, s) ==
    /\ Q \in Seq(W)
    /\ \A i, j \in 1 .. Len(Q) : i < j => s[Q[i]] < s[Q[j]]
    /\ \A p \in W : \E i \in 1 .. Len(Q) : Q[i] = p

\* Stamps that tell the people of W apart.
Stamped(W, s) ==
    /\ IsFiniteSet(W)
    /\ \A p \in W : s[p] \in Nat
    /\ \A p, q \in W : p # q => s[p] # s[q]

\* Who has waited longer has fewer people ahead.
LEMMA AheadGrows ==
    ASSUME NEW W, NEW s, Stamped(W, s), NEW p \in W, NEW q \in W, s[p] < s[q]
    PROVE  /\ Cardinality(Ahead(W, s, p)) \in Nat /\ Cardinality(Ahead(W, s, q)) \in Nat
           /\ Cardinality(Ahead(W, s, p)) < Cardinality(Ahead(W, s, q))
<1>1. /\ Ahead(W, s, p) \in SUBSET W /\ Ahead(W, s, q) \in SUBSET W
      /\ p \notin Ahead(W, s, p)
  BY DEF Ahead, Stamped
<1>2. /\ IsFiniteSet(Ahead(W, s, p)) /\ Cardinality(Ahead(W, s, p)) \in Nat
      /\ IsFiniteSet(Ahead(W, s, q)) /\ Cardinality(Ahead(W, s, q)) \in Nat
  BY <1>1, FS_Subset, FS_CardinalityType DEF Stamped
<1>3. Ahead(W, s, p) \cup {p} \in SUBSET Ahead(W, s, q)
  <2>1. s[p] \in Nat /\ s[q] \in Nat /\ \A x \in W : s[x] \in Nat
    BY DEF Stamped
  <2>2. QED
    BY <2>1 DEF Ahead
<1>4. Cardinality(Ahead(W, s, p) \cup {p}) = Cardinality(Ahead(W, s, p)) + 1
  BY <1>1, <1>2, FS_AddElement
<1>5. Cardinality(Ahead(W, s, p) \cup {p}) <= Cardinality(Ahead(W, s, q))
  BY <1>2, <1>3, FS_Subset
<1>6. QED
  BY <1>2, <1>4, <1>5

\* In a line, the people ahead of somebody are those at the earlier positions.
LEMMA LineRank ==
    ASSUME NEW W, NEW s, Stamped(W, s), NEW Q, InLine(Q, W, s), NEW i \in 1 .. Len(Q)
    PROVE  Cardinality(Ahead(W, s, Q[i])) = i - 1
<1> DEFINE f == [j \in 1 .. i - 1 |-> Q[j]]
           A == Ahead(W, s, Q[i])
<1>1. Len(Q) \in Nat /\ \A j \in 1 .. Len(Q) : Q[j] \in W /\ s[Q[j]] \in Nat
  BY LenProperties, ElementOfSeq DEF InLine, Stamped
<1>2. \A j, k \in 1 .. Len(Q) : j < k <=> s[Q[j]] < s[Q[k]]
  <2> TAKE j, k \in 1 .. Len(Q)
  <2>1. j < k => s[Q[j]] < s[Q[k]]
    BY DEF InLine
  <2>2. k < j => s[Q[k]] < s[Q[j]]
    BY DEF InLine
  <2>3. QED
    BY <1>1, <2>1, <2>2
<1>3. \A j \in 1 .. i - 1 : Q[j] \in A
  BY <1>1, <1>2 DEF Ahead
<1>4. f \in Injection(1 .. i - 1, A)
  <2>1. f \in [1 .. i - 1 -> A]
    BY <1>3
  <2>2. \A j, k \in 1 .. i - 1 : f[j] = f[k] => j = k
    BY <1>1, <1>2
  <2>3. QED
    BY <2>1, <2>2 DEF Injection, IsInjective
<1>5. f \in Surjection(1 .. i - 1, A)
  <2>1. ASSUME NEW p \in A PROVE \E j \in 1 .. i - 1 : f[j] = p
    <3>1. p \in W /\ s[p] < s[Q[i]]
      BY DEF Ahead
    <3>2. PICK j \in 1 .. Len(Q) : Q[j] = p
      BY <3>1 DEF InLine
    <3>3. j < i
      BY <1>2, <3>1, <3>2
    <3>4. j \in 1 .. i - 1 /\ f[j] = p
      BY <1>1, <3>2, <3>3
    <3>5. QED
      BY <3>4
  <2>2. f \in [1 .. i - 1 -> A]
    BY <1>3
  <2> HIDE DEF f, A
  <2>3. QED
    BY <2>1, <2>2 DEF Surjection
<1>6. IsFiniteSet(1 .. i - 1) /\ Cardinality(1 .. i - 1) = i - 1
  <2>1. 1 \in Int /\ i - 1 \in Nat
    BY <1>1
  <2>2. /\ IsFiniteSet(1 .. i - 1)
        /\ Cardinality(1 .. i - 1) = IF 1 > i - 1 THEN 0 ELSE i - 1 - 1 + 1
    BY <2>1, FS_Interval
  <2>3. QED
    BY <2>1, <2>2
<1>7. IsFiniteSet(A)
  BY FS_Subset DEF Ahead, Stamped
<1>8. Cardinality(A) = Cardinality(1 .. i - 1)
  <2> HIDE DEF f, A
  <2> QED BY <1>4, <1>5, <1>7, FS_Injection
<1>9. QED
  BY <1>6, <1>8

\* There is one line of W.
LEMMA LineUnique ==
    ASSUME NEW W, NEW s, Stamped(W, s), NEW Q, InLine(Q, W, s), NEW R, InLine(R, W, s)
    PROVE  Q = R
<1>1. /\ Len(Q) \in Nat /\ \A j \in 1 .. Len(Q) : Q[j] \in W
      /\ Len(R) \in Nat /\ \A j \in 1 .. Len(R) : R[j] \in W
      /\ Q \in Seq(W) /\ R \in Seq(W)
  BY LenProperties, ElementOfSeq DEF InLine
<1>2. \A i \in 1 .. Len(Q) : i \in 1 .. Len(R) /\ R[i] = Q[i]
  <2> TAKE i \in 1 .. Len(Q)
  <2>1. PICK j \in 1 .. Len(R) : R[j] = Q[i]
    BY <1>1 DEF InLine
  <2>2. Cardinality(Ahead(W, s, Q[i])) = i - 1 /\ Cardinality(Ahead(W, s, R[j])) = j - 1
    BY LineRank
  <2>3. i = j
    BY <1>1, <2>1, <2>2
  <2>4. QED
    BY <2>1, <2>3
<1>3. \A i \in 1 .. Len(R) : i \in 1 .. Len(Q)
  <2> TAKE i \in 1 .. Len(R)
  <2>1. PICK j \in 1 .. Len(Q) : Q[j] = R[i]
    BY <1>1 DEF InLine
  <2>2. Cardinality(Ahead(W, s, R[i])) = i - 1 /\ Cardinality(Ahead(W, s, Q[j])) = j - 1
    BY LineRank
  <2>3. i = j
    BY <1>1, <2>1, <2>2
  <2>4. QED
    BY <2>1, <2>3
<1>4. Len(Q) = Len(R)
  <2>1. Len(Q) <= Len(R)
    <3>1. CASE Len(Q) = 0
      BY <1>1, <3>1
    <3>2. CASE Len(Q) > 0
      <4>1. Len(Q) \in 1 .. Len(Q)
        BY <1>1, <3>2
      <4>2. QED
        BY <1>1, <1>2, <4>1
    <3>3. QED
      BY <1>1, <3>1, <3>2
  <2>2. Len(R) <= Len(Q)
    <3>1. CASE Len(R) = 0
      BY <1>1, <3>1
    <3>2. CASE Len(R) > 0
      <4>1. Len(R) \in 1 .. Len(R)
        BY <1>1, <3>2
      <4>2. QED
        BY <1>1, <1>3, <4>1
    <3>3. QED
      BY <1>1, <3>1, <3>2
  <2>3. QED
    BY <1>1, <2>1, <2>2
<1>5. QED
  BY <1>1, <1>2, <1>4, SeqEqual

\* The queue is the line of the people waiting.
LEMMA QueueInLine ==
    ASSUME NEW W, NEW s, Stamped(W, s)
    PROVE  InLine(QueueOf(W, s), W, s)
<1> DEFINE n == Cardinality(W)
           Rank(p) == Cardinality(Ahead(W, s, p)) + 1
           f == [p \in W |-> Rank(p)]
           q == [i \in 1 .. n |-> CHOOSE p \in W : Rank(p) = i]
           Sorted(x) == \A i, j \in DOMAIN x : i < j => s[x[i]] < s[x[j]]
<1>1. IsFiniteSet(W) /\ n \in Nat
  BY FS_CardinalityType DEF Stamped
<1>2. \A p \in W : Rank(p) \in 1 .. n
  <2> TAKE p \in W
  <2>1. Ahead(W, s, p) \in SUBSET (W \ {p})
    BY DEF Ahead, Stamped
  <2>2. IsFiniteSet(W \ {p}) /\ Cardinality(W \ {p}) = n - 1
    BY <1>1, FS_RemoveElement
  <2>3. /\ Cardinality(Ahead(W, s, p)) <= n - 1
        /\ Cardinality(Ahead(W, s, p)) \in Nat
    BY <2>1, <2>2, FS_Subset, FS_CardinalityType
  <2>4. QED
    BY <1>1, <2>3
<1>3. \A p, r \in W : s[p] < s[r] => Rank(p) < Rank(r)
  BY AheadGrows
<1>4. \A p, r \in W : Rank(p) < Rank(r) => s[p] < s[r]
  <2> TAKE p, r \in W
  <2>1. s[p] \in Nat /\ s[r] \in Nat /\ (p # r => s[p] # s[r])
    BY DEF Stamped
  <2>2. Rank(p) \in Nat /\ Rank(r) \in Nat
    BY <1>2
  <2>3. s[r] < s[p] => Rank(r) < Rank(p)
    BY <1>3
  <2> HIDE DEF Rank
  <2>4. QED
    BY <2>1, <2>2, <2>3
<1>5. f \in Injection(W, 1 .. n)
  <2>1. f \in [W -> 1 .. n]
    BY <1>2
  <2>2. ASSUME NEW p \in W, NEW r \in W, f[p] = f[r] PROVE p = r
    <3>1. s[p] \in Nat /\ s[r] \in Nat /\ (p # r => s[p] # s[r])
      BY DEF Stamped
    <3>2. Rank(p) = Rank(r) /\ Rank(p) \in Nat
      BY <1>2, <2>2
    <3>3. ~(s[p] < s[r]) /\ ~(s[r] < s[p])
      <4> HIDE DEF Rank
      <4> QED BY <1>3, <3>2
    <3>4. QED
      BY <3>1, <3>3
  <2> HIDE DEF f
  <2>3. QED
    BY <2>1, <2>2 DEF Injection, IsInjective
<1>6. f \in Surjection(W, 1 .. n)
  <2>1. IsFiniteSet(1 .. n) /\ Cardinality(1 .. n) = n
    BY <1>1, FS_Interval
  <2> HIDE DEF f
  <2>2. QED
    BY <1>5, <2>1, FS_Injection
<1>7. \A i \in 1 .. n : \E p \in W : Rank(p) = i
  <2>1. \A i \in 1 .. n : \E p \in W : f[p] = i
    <3> HIDE DEF f
    <3> QED BY <1>6 DEF Surjection
  <2>2. QED
    BY <2>1
<1>8. \A i \in 1 .. n : q[i] \in W /\ Rank(q[i]) = i
  <2> HIDE DEF Rank
  <2> QED BY <1>7
<1>9. q \in [1 .. n -> W] /\ Sorted(q)
  <2>1. q \in [1 .. n -> W]
    BY <1>8
  <2>2. \A i, j \in 1 .. n : i < j => s[q[i]] < s[q[j]]
    <3> HIDE DEF Rank, q
    <3> QED BY <1>4, <1>8
  <2>3. QED
    BY <2>1, <2>2
<1>10. QueueOf(W, s) \in [1 .. n -> W] /\ Sorted(QueueOf(W, s))
  <2>1. QueueOf(W, s) = CHOOSE x \in [1 .. n -> W] : Sorted(x)
    BY DEF QueueOf
  <2> HIDE DEF q, Sorted, n
  <2>2. QED
    BY <1>9, <2>1
<1> DEFINE x == QueueOf(W, s)
<1> HIDE DEF q
<1>x. x \in [1 .. n -> W]
  BY <1>10
<1>11. x \in Seq(W) /\ Len(x) = n /\ DOMAIN x = 1 .. n
  <2> HIDE DEF x, n
  <2> QED BY <1>1, <1>x
<1>12. \A i, j \in 1 .. n : i < j => s[x[i]] < s[x[j]]
  BY <1>10, <1>11
<1>13. x \in Injection(1 .. n, W)
  <2>1. ASSUME NEW i \in 1 .. n, NEW j \in 1 .. n, x[i] = x[j] PROVE i = j
    <3>1. x[i] \in W /\ s[x[i]] \in Nat
      BY <1>x DEF Stamped
    <3>2. ~(i < j) /\ ~(j < i)
      <4> HIDE DEF x, n
      <4> QED BY <1>12, <2>1, <3>1
    <3>3. QED
      BY <1>1, <3>2
  <2> HIDE DEF x, n
  <2>2. QED
    BY <1>x, <2>1 DEF Injection, IsInjective
<1>14. x \in Surjection(1 .. n, W)
  <2>1. IsFiniteSet(1 .. n) /\ Cardinality(1 .. n) = n
    BY <1>1, FS_Interval
  <2> HIDE DEF x
  <2>2. QED
    BY <1>1, <1>13, <2>1, FS_Injection
<1>15. \A p \in W : \E i \in 1 .. n : x[i] = p
  <2> HIDE DEF x, n
  <2> QED BY <1>14 DEF Surjection
<1>16. QED
  BY <1>11, <1>12, <1>15 DEF InLine

\* Whatever lines the people up by the same stamps is the queue.
LEMMA QueueIsLine ==
    ASSUME NEW W, NEW s, Stamped(W, s), NEW t, \A p \in W : t[p] = s[p], NEW Q, InLine(Q, W, s)
    PROVE  QueueOf(W, t) = Q
<1>1. Stamped(W, t) /\ InLine(Q, W, t)
  <2>1. \A i \in 1 .. Len(Q) : t[Q[i]] = s[Q[i]]
    BY ElementOfSeq DEF InLine
  <2>2. QED
    BY <2>1 DEF Stamped, InLine
<1>2. QED
  BY <1>1, QueueInLine, LineUnique

LEMMA LineFacts ==
    ASSUME NEW W, NEW s, Stamped(W, s), NEW Q, InLine(Q, W, s)
    PROVE  /\ Q \in Seq(W) /\ Len(Q) \in Nat
           /\ \A j \in 1 .. Len(Q) : Q[j] \in W /\ s[Q[j]] \in Nat
           /\ \A j, k \in 1 .. Len(Q) : j < k => s[Q[j]] < s[Q[k]]
<1>1. Q \in Seq(W) /\ \A j, k \in 1 .. Len(Q) : j < k => s[Q[j]] < s[Q[k]]
  BY DEF InLine
<1>2. Len(Q) \in Nat /\ \A j \in 1 .. Len(Q) : Q[j] \in W
  BY <1>1, LenProperties, ElementOfSeq
<1>3. QED
  BY <1>1, <1>2 DEF Stamped

\* Q with p put in at position i.
Inserted(Q, i, p) == SubSeq(Q, 1, i - 1) \o <<p>> \o SubSeq(Q, i, Len(Q))

LEMMA InsertedShape ==
    ASSUME NEW V, NEW Q \in Seq(V), NEW p \in V, NEW i \in 1 .. Len(Q) + 1
    PROVE  /\ Inserted(Q, i, p) \in Seq(V)
           /\ Len(Inserted(Q, i, p)) = Len(Q) + 1
           /\ \A j \in 1 .. Len(Q) + 1 :
                 Inserted(Q, i, p)[j] = IF j < i THEN Q[j] ELSE IF j = i THEN p ELSE Q[j - 1]
<1> DEFINE R == Inserted(Q, i, p)
<1> DEFINE A == SubSeq(Q, 1, i - 1)
           B == SubSeq(Q, i, Len(Q))
<1>1. Len(Q) \in Nat /\ i \in Int /\ i - 1 \in Int /\ \A j \in 1 .. Len(Q) : Q[j] \in V
  BY LenProperties, ElementOfSeq
<1>2. A \in Seq(V) /\ Len(A) = i - 1 /\ \A j \in 1 .. i - 1 : A[j] = Q[j]
  <2>1. \A j \in 1 .. i - 1 : Q[j] \in V
    BY <1>1
  <2>2. /\ SubSeq(Q, 1, i - 1) \in Seq(V)
        /\ Len(SubSeq(Q, 1, i - 1)) = IF 1 <= i - 1 THEN i - 1 - 1 + 1 ELSE 0
        /\ \A j \in 1 .. i - 1 - 1 + 1 : SubSeq(Q, 1, i - 1)[j] = Q[1 + j - 1]
    BY <1>1, <2>1, SubSeqProperties
  <2>3. QED
    BY <1>1, <2>2
<1>3. B \in Seq(V) /\ Len(B) = Len(Q) - i + 1 /\ \A j \in 1 .. Len(Q) - i + 1 : B[j] = Q[i + j - 1]
  <2>1. \A j \in i .. Len(Q) : Q[j] \in V
    BY <1>1
  <2>2. /\ SubSeq(Q, i, Len(Q)) \in Seq(V)
        /\ Len(SubSeq(Q, i, Len(Q))) = IF i <= Len(Q) THEN Len(Q) - i + 1 ELSE 0
        /\ \A j \in 1 .. Len(Q) - i + 1 : SubSeq(Q, i, Len(Q))[j] = Q[i + j - 1]
    BY <1>1, <2>1, SubSeqProperties
  <2>3. QED
    BY <1>1, <2>2
<1>4. <<p>> \in Seq(V) /\ Len(<<p>>) = 1 /\ <<p>>[1] = p
  OBVIOUS
<1> HIDE DEF A, B
<1>5. /\ A \o <<p>> \in Seq(V) /\ Len(A \o <<p>>) = i
      /\ \A j \in 1 .. i : (A \o <<p>>)[j] = IF j < i THEN Q[j] ELSE p
  <2>1. /\ A \o <<p>> \in Seq(V) /\ Len(A \o <<p>>) = Len(A) + Len(<<p>>)
        /\ \A j \in 1 .. Len(A) + Len(<<p>>) :
              (A \o <<p>>)[j] = IF j <= Len(A) THEN A[j] ELSE <<p>>[j - Len(A)]
    BY <1>2, <1>4, ConcatProperties
  <2>2. QED
    BY <1>1, <1>2, <1>4, <2>1
<1> DEFINE C == A \o <<p>>
           D == C \o B
<1>6. C \in Seq(V) /\ Len(C) = i /\ \A j \in 1 .. i : C[j] = IF j < i THEN Q[j] ELSE p
  BY <1>5
<1>7. R = D
  BY DEF A, B, Inserted
<1> HIDE DEF C, R
<1>8. /\ D \in Seq(V) /\ Len(D) = Len(C) + Len(B)
      /\ \A j \in 1 .. Len(C) + Len(B) : D[j] = IF j <= Len(C) THEN C[j] ELSE B[j - Len(C)]
  BY <1>3, <1>6, ConcatProperties
<1> HIDE DEF D
<1>9. R \in Seq(V) /\ Len(R) = Len(Q) + 1
  <2>1. Len(C) + Len(B) = Len(Q) + 1
    BY <1>1, <1>3, <1>6
  <2>2. QED
    BY <1>7, <1>8, <2>1
<1>10. ASSUME NEW j \in 1 .. Len(Q) + 1
       PROVE  R[j] = IF j < i THEN Q[j] ELSE IF j = i THEN p ELSE Q[j - 1]
  <2>0. j \in 1 .. Len(C) + Len(B) /\ Len(C) = i /\ j \in Int
    BY <1>1, <1>3, <1>6
  <2>1. CASE j <= i
    <3>1. R[j] = C[j] /\ j \in 1 .. i
      BY <1>1, <1>7, <1>8, <2>0, <2>1
    <3>2. QED
      BY <1>1, <1>6, <2>1, <3>1
  <2>2. CASE j > i
    <3>1. R[j] = B[j - i] /\ j - i \in 1 .. Len(Q) - i + 1
      BY <1>1, <1>7, <1>8, <2>0, <2>2
    <3>2. B[j - i] = Q[i + (j - i) - 1] /\ i + (j - i) - 1 = j - 1
      BY <1>1, <1>3, <2>0, <3>1
    <3>3. QED
      BY <1>1, <2>0, <2>2, <3>1, <3>2
  <2>3. QED
    BY <1>1, <2>0, <2>1, <2>2
<1>11. QED
  BY <1>9, <1>10 DEF R

\* A newcomer to the queue finds its position in the line.
LEMMA LineGrows ==
    ASSUME NEW W, NEW s, Stamped(W, s), NEW Q, InLine(Q, W, s), NEW p, p \notin W,
           NEW t, Stamped(W \cup {p}, t), \A q \in W : t[q] = s[q]
    PROVE  \E i \in 1 .. Len(Q) + 1 : InLine(Inserted(Q, i, p), W \cup {p}, t)
<1> DEFINE Later == {k \in 1 .. Len(Q) + 1 : k = Len(Q) + 1 \/ t[p] < t[Q[k]]}
<1>1. /\ Len(Q) \in Nat /\ Q \in Seq(W)
      /\ \A j \in 1 .. Len(Q) : Q[j] \in W /\ t[Q[j]] \in Nat /\ t[Q[j]] # t[p] /\ t[Q[j]] = s[Q[j]]
      /\ t[p] \in Nat
  BY LenProperties, ElementOfSeq DEF InLine, Stamped
<1>2. PICK i \in Later : \A k \in Later : i <= k
  <2>1. Later \in SUBSET Nat /\ Len(Q) + 1 \in Later
    BY <1>1
  <2> HIDE DEF Later
  <2>2. QED
    BY <2>1, LeastNatural
<1>3. i \in 1 .. Len(Q) + 1
  BY <1>2
<1>4. \A j, k \in 1 .. Len(Q) : j < k => t[Q[j]] < t[Q[k]]
  BY <1>1 DEF InLine
<1>5. \A j \in 1 .. Len(Q) : j < i => t[Q[j]] < t[p]
  <2> SUFFICES ASSUME NEW j \in 1 .. Len(Q), j < i PROVE t[Q[j]] < t[p]
    OBVIOUS
  <2>1. j \notin Later
    <3> HIDE DEF Later
    <3> QED BY <1>1, <1>2, <1>3
  <2>2. ~(t[p] < t[Q[j]])
    BY <1>1, <2>1
  <2>3. QED
    BY <1>1, <2>2
<1>6. \A j \in 1 .. Len(Q) : i <= j => t[p] < t[Q[j]]
  <2> SUFFICES ASSUME NEW j \in 1 .. Len(Q), i <= j PROVE t[p] < t[Q[j]]
    OBVIOUS
  <2>1. i \in 1 .. Len(Q)
    BY <1>1, <1>3
  <2>2. t[p] < t[Q[i]]
    BY <1>1, <1>2, <2>1
  <2>3. i = j \/ t[Q[i]] < t[Q[j]]
    BY <1>1, <1>4, <2>1
  <2>4. t[Q[i]] \in Nat /\ t[Q[j]] \in Nat /\ t[p] \in Nat
    BY <1>1, <2>1
  <2>5. QED
    BY <2>2, <2>3, <2>4
<1> HIDE DEF Later
<1> DEFINE R == Inserted(Q, i, p)
<1>7. /\ R \in Seq(W \cup {p}) /\ Len(R) = Len(Q) + 1
      /\ \A j \in 1 .. Len(Q) + 1 : R[j] = IF j < i THEN Q[j] ELSE IF j = i THEN p ELSE Q[j - 1]
  <2>1. Q \in Seq(W \cup {p})
    BY <1>1, SeqMonotonic
  <2> DEFINE V == W \cup {p}
  <2>2. Q \in Seq(V) /\ p \in V
    BY <2>1
  <2> HIDE DEF V
  <2>3. /\ R \in Seq(V) /\ Len(R) = Len(Q) + 1
        /\ \A j \in 1 .. Len(Q) + 1 : R[j] = IF j < i THEN Q[j] ELSE IF j = i THEN p ELSE Q[j - 1]
    BY <1>3, <2>2, InsertedShape
  <2>4. QED
    BY <2>3 DEF V
<1> HIDE DEF R
<1>8. \A j, k \in 1 .. Len(R) : j < k => t[R[j]] < t[R[k]]
  <2> SUFFICES ASSUME NEW j \in 1 .. Len(Q) + 1, NEW k \in 1 .. Len(Q) + 1, j < k
               PROVE  t[R[j]] < t[R[k]]
    BY <1>7
  <2>1. CASE k < i
    <3>1. R[j] = Q[j] /\ R[k] = Q[k] /\ j \in 1 .. Len(Q) /\ k \in 1 .. Len(Q)
      BY <1>1, <1>3, <1>7, <2>1
    <3>2. QED
      BY <1>4, <3>1
  <2>2. CASE k = i
    <3>1. R[j] = Q[j] /\ R[k] = p /\ j \in 1 .. Len(Q)
      BY <1>1, <1>3, <1>7, <2>2
    <3>2. QED
      BY <1>5, <2>2, <3>1
  <2>3. CASE k > i /\ j < i
    <3>1. R[j] = Q[j] /\ R[k] = Q[k - 1] /\ j \in 1 .. Len(Q) /\ k - 1 \in 1 .. Len(Q) /\ j < k - 1
      BY <1>1, <1>3, <1>7, <2>3
    <3>2. QED
      BY <1>4, <3>1
  <2>4. CASE k > i /\ j = i
    <3>1. R[j] = p /\ R[k] = Q[k - 1] /\ k - 1 \in 1 .. Len(Q) /\ i <= k - 1
      BY <1>1, <1>3, <1>7, <2>4
    <3>2. QED
      BY <1>6, <3>1
  <2>5. CASE j > i
    <3>1. /\ R[j] = Q[j - 1] /\ R[k] = Q[k - 1]
          /\ j - 1 \in 1 .. Len(Q) /\ k - 1 \in 1 .. Len(Q) /\ j - 1 < k - 1
      BY <1>1, <1>3, <1>7, <2>5
    <3>2. QED
      BY <1>4, <3>1
  <2>6. QED
    BY <1>3, <2>1, <2>2, <2>3, <2>4, <2>5
<1>9. \A q \in W \cup {p} : \E j \in 1 .. Len(R) : R[j] = q
  <2> TAKE q \in W \cup {p}
  <2>1. CASE q = p
    BY <1>1, <1>3, <1>7, <2>1
  <2>2. CASE q \in W
    <3>1. PICK j \in 1 .. Len(Q) : Q[j] = q
      BY <2>2 DEF InLine
    <3>2. CASE j < i
      <4>1. R[j] = q /\ j \in 1 .. Len(R)
        BY <1>1, <1>3, <1>7, <3>1, <3>2
      <4>2. QED
        BY <4>1
    <3>3. CASE j >= i
      <4>1. R[j + 1] = Q[j + 1 - 1] /\ j + 1 \in 1 .. Len(R) /\ j + 1 - 1 = j
        BY <1>1, <1>3, <1>7, <3>3
      <4>2. QED
        BY <3>1, <4>1
    <3>4. QED
      BY <1>3, <3>2, <3>3
  <2>3. QED
    BY <2>1, <2>2
<1>10. InLine(R, W \cup {p}, t)
  BY <1>7, <1>8, <1>9 DEF InLine
<1>11. QED
  BY <1>3, <1>10 DEF R

\* Q with whoever is at position i taken out.
Without(Q, i) == SubSeq(Q, 1, i - 1) \o SubSeq(Q, i + 1, Len(Q))

\* The line closes up when somebody leaves it.
LEMMA LineShrinks ==
    ASSUME NEW W, NEW s, Stamped(W, s), NEW Q, InLine(Q, W, s), NEW i \in 1 .. Len(Q)
    PROVE  InLine(Without(Q, i), W \ {Q[i]}, s) /\ Len(Without(Q, i)) <= Len(Q)
<1> DEFINE V == W \ {Q[i]}
           A == SubSeq(Q, 1, i - 1)
           B == SubSeq(Q, i + 1, Len(Q))
           R == A \o B
<1>1. /\ Len(Q) \in Nat /\ i \in Int /\ i - 1 \in Int /\ i + 1 \in Int
      /\ \A j \in 1 .. Len(Q) : Q[j] \in W /\ s[Q[j]] \in Nat
      /\ \A j, k \in 1 .. Len(Q) : j < k => s[Q[j]] < s[Q[k]]
  BY LineFacts
<1>2. \A j \in 1 .. Len(Q) : j # i => Q[j] \in V
  <2> SUFFICES ASSUME NEW j \in 1 .. Len(Q), j # i PROVE Q[j] # Q[i]
    BY <1>1
  <2>1. j < i \/ i < j
    BY <1>1
  <2>2. s[Q[j]] < s[Q[i]] \/ s[Q[i]] < s[Q[j]]
    BY <1>1, <2>1
  <2>3. QED
    BY <1>1, <2>2
<1>3. A \in Seq(V) /\ Len(A) = i - 1 /\ \A j \in 1 .. i - 1 : A[j] = Q[j]
  <2>1. \A j \in 1 .. i - 1 : Q[j] \in V
    BY <1>1, <1>2
  <2>2. /\ SubSeq(Q, 1, i - 1) \in Seq(V)
        /\ Len(SubSeq(Q, 1, i - 1)) = IF 1 <= i - 1 THEN i - 1 - 1 + 1 ELSE 0
        /\ \A j \in 1 .. i - 1 - 1 + 1 : SubSeq(Q, 1, i - 1)[j] = Q[1 + j - 1]
    <3> HIDE DEF V
    <3> QED BY <1>1, <2>1, SubSeqProperties
  <2>3. QED
    BY <1>1, <2>2
<1>4. B \in Seq(V) /\ Len(B) = Len(Q) - i /\ \A j \in 1 .. Len(Q) - i : B[j] = Q[i + j]
  <2>1. \A j \in i + 1 .. Len(Q) : Q[j] \in V
    BY <1>1, <1>2
  <2>2. /\ B \in Seq(V)
        /\ Len(B) = IF i + 1 <= Len(Q) THEN Len(Q) - (i + 1) + 1 ELSE 0
        /\ \A j \in 1 .. Len(Q) - (i + 1) + 1 : B[j] = Q[(i + 1) + j - 1]
    <3> HIDE DEF V
    <3> QED BY <1>1, <2>1, SubSeqProperties
  <2>3. /\ Len(Q) - (i + 1) + 1 = Len(Q) - i
        /\ \A j \in 1 .. Len(Q) - i : (i + 1) + j - 1 = i + j
        /\ ~(i + 1 <= Len(Q)) => Len(Q) - i = 0
    BY <1>1
  <2> HIDE DEF B, V
  <2>4. Len(B) = Len(Q) - i
    BY <1>1, <2>2, <2>3
  <2>5. QED
    BY <2>2, <2>3, <2>4
<1> HIDE DEF V, A, B
<1>5. /\ R \in Seq(V) /\ Len(R) = Len(Q) - 1
      /\ \A j \in 1 .. Len(Q) - 1 : R[j] = IF j < i THEN Q[j] ELSE Q[j + 1]
  <2>1. /\ R \in Seq(V) /\ Len(R) = Len(A) + Len(B)
        /\ \A j \in 1 .. Len(A) + Len(B) : R[j] = IF j <= Len(A) THEN A[j] ELSE B[j - Len(A)]
    BY <1>3, <1>4, ConcatProperties
  <2> HIDE DEF R
  <2>2. Len(A) + Len(B) = Len(Q) - 1
    BY <1>1, <1>3, <1>4
  <2>3. ASSUME NEW j \in 1 .. Len(Q) - 1 PROVE R[j] = IF j < i THEN Q[j] ELSE Q[j + 1]
    <3>1. CASE j < i
      BY <1>1, <1>3, <2>1, <2>2, <3>1
    <3>2. CASE j >= i
      <4>1. R[j] = B[j - (i - 1)] /\ j - (i - 1) \in 1 .. Len(Q) - i
        BY <1>1, <1>3, <2>1, <2>2, <3>2
      <4>2. i + (j - (i - 1)) = j + 1
        BY <1>1
      <4>3. QED
        BY <1>1, <1>4, <3>2, <4>1, <4>2
    <3>3. QED
      BY <1>1, <3>1, <3>2
  <2>4. QED
    BY <2>1, <2>2, <2>3
<1>6. \A j, k \in 1 .. Len(R) : j < k => s[R[j]] < s[R[k]]
  <2> SUFFICES ASSUME NEW j \in 1 .. Len(Q) - 1, NEW k \in 1 .. Len(Q) - 1, j < k
               PROVE  s[R[j]] < s[R[k]]
    BY <1>5
  <2> HIDE DEF R
  <2>1. CASE k < i
    BY <1>1, <1>5, <2>1
  <2>2. CASE j < i /\ k >= i
    <3>1. R[j] = Q[j] /\ R[k] = Q[k + 1] /\ j \in 1 .. Len(Q) /\ k + 1 \in 1 .. Len(Q) /\ j < k + 1
      BY <1>1, <1>5, <2>2
    <3>2. QED
      BY <1>1, <3>1
  <2>3. CASE j >= i
    <3>1. /\ R[j] = Q[j + 1] /\ R[k] = Q[k + 1]
          /\ j + 1 \in 1 .. Len(Q) /\ k + 1 \in 1 .. Len(Q) /\ j + 1 < k + 1
      BY <1>1, <1>5, <2>3
    <3>2. QED
      BY <1>1, <3>1
  <2>4. QED
    BY <1>1, <2>1, <2>2, <2>3
<1>7. \A p \in V : \E j \in 1 .. Len(R) : R[j] = p
  <2> TAKE p \in V
  <2>1. PICK j \in 1 .. Len(Q) : Q[j] = p /\ j # i
    BY DEF InLine, V
  <2> HIDE DEF R
  <2>2. CASE j < i
    <3>1. j \in 1 .. Len(R) /\ R[j] = p
      BY <1>1, <1>5, <2>1, <2>2
    <3>2. QED
      BY <3>1
  <2>3. CASE j > i
    <3>1. j - 1 \in 1 .. Len(R) /\ R[j - 1] = Q[j - 1 + 1] /\ j - 1 + 1 = j
      BY <1>1, <1>5, <2>3
    <3>2. QED
      BY <2>1, <3>1
  <2>4. QED
    BY <1>1, <2>1, <2>2, <2>3
<1>8. InLine(R, V, s)
  BY <1>5, <1>6, <1>7 DEF InLine
<1>9. Len(R) <= Len(Q)
  <2> HIDE DEF R
  <2> QED BY <1>1, <1>5
<1>10. QED
  BY <1>8, <1>9 DEF V, A, B, Without

\* The first n in line.
Front(Q, n) == {Q[j] : j \in 1 .. n}

\* The front of the line moves on, the rest stays in line.
LEMMA LineMoves ==
    ASSUME NEW W, NEW s, Stamped(W, s), NEW Q, InLine(Q, W, s), NEW n \in 0 .. Len(Q)
    PROVE  /\ InLine(SubSeq(Q, n + 1, Len(Q)), W \ Front(Q, n), s)
           /\ List!ToSet(SubSeq(Q, 1, n)) = Front(Q, n)
<1> DEFINE V == W \ Front(Q, n)
           R == SubSeq(Q, n + 1, Len(Q))
<1>1. /\ Len(Q) \in Nat /\ n \in Int /\ n + 1 \in Int
      /\ \A j \in 1 .. Len(Q) : Q[j] \in W /\ s[Q[j]] \in Nat
      /\ \A j, k \in 1 .. Len(Q) : j < k => s[Q[j]] < s[Q[k]]
  BY LineFacts
<1>2. \A j \in n + 1 .. Len(Q) : Q[j] \in V
  <2> SUFFICES ASSUME NEW j \in n + 1 .. Len(Q), NEW k \in 1 .. n, Q[j] = Q[k] PROVE FALSE
    BY <1>1 DEF Front
  <2>1. j \in 1 .. Len(Q) /\ k \in 1 .. Len(Q) /\ k < j
    BY <1>1
  <2>2. s[Q[k]] < s[Q[j]] /\ s[Q[j]] \in Nat
    BY <1>1, <2>1
  <2>3. QED
    BY <2>2
<1>3. /\ R \in Seq(V) /\ Len(R) = Len(Q) - n
      /\ \A j \in 1 .. Len(Q) - n : R[j] = Q[n + j]
  <2>1. /\ SubSeq(Q, n + 1, Len(Q)) \in Seq(V)
        /\ Len(SubSeq(Q, n + 1, Len(Q))) = IF n + 1 <= Len(Q) THEN Len(Q) - (n + 1) + 1 ELSE 0
        /\ \A j \in 1 .. Len(Q) - (n + 1) + 1 : SubSeq(Q, n + 1, Len(Q))[j] = Q[(n + 1) + j - 1]
    <3> HIDE DEF V
    <3> QED BY <1>1, <1>2, SubSeqProperties
  <2>2. \A j \in Nat : (n + 1) + j - 1 = n + j
    BY <1>1
  <2>3. QED
    BY <1>1, <2>1, <2>2
<1>4. \A j, k \in 1 .. Len(R) : j < k => s[R[j]] < s[R[k]]
  <2> SUFFICES ASSUME NEW j \in 1 .. Len(Q) - n, NEW k \in 1 .. Len(Q) - n, j < k
               PROVE  s[R[j]] < s[R[k]]
    BY <1>3
  <2>1. n + j \in 1 .. Len(Q) /\ n + k \in 1 .. Len(Q) /\ n + j < n + k
    BY <1>1
  <2>2. R[j] = Q[n + j] /\ R[k] = Q[n + k]
    BY <1>3
  <2>3. QED
    BY <1>1, <2>1, <2>2
<1>5. \A p \in V : \E j \in 1 .. Len(R) : R[j] = p
  <2> TAKE p \in V
  <2>1. PICK j \in 1 .. Len(Q) : Q[j] = p
    BY DEF InLine
  <2>2. j > n
    BY <1>1, <2>1 DEF Front
  <2>3. j - n \in 1 .. Len(R) /\ R[j - n] = Q[n + (j - n)] /\ n + (j - n) = j
    <3> HIDE DEF R
    <3> QED BY <1>1, <1>3, <2>2
  <2>4. QED
    BY <2>1, <2>3
<1>6. InLine(R, V, s)
  <2> HIDE DEF R, V
  <2> QED BY <1>3, <1>4, <1>5 DEF InLine
<1>7. List!ToSet(SubSeq(Q, 1, n)) = Front(Q, n)
  <2>1. \A j \in 1 .. n : Q[j] \in W
    BY <1>1
  <2>2. /\ SubSeq(Q, 1, n) \in Seq(W)
        /\ Len(SubSeq(Q, 1, n)) = IF 1 <= n THEN n - 1 + 1 ELSE 0
        /\ \A j \in 1 .. n - 1 + 1 : SubSeq(Q, 1, n)[j] = Q[1 + j - 1]
    BY <1>1, <2>1, SubSeqProperties
  <2>3. DOMAIN SubSeq(Q, 1, n) = 1 .. n
    BY <1>1, <2>2, LenProperties
  <2>4. \A j \in 1 .. n : SubSeq(Q, 1, n)[j] = Q[j]
    BY <1>1, <2>2
  <2>5. QED
    BY <2>3, <2>4 DEF List!ToSet, Front
<1>8. QED
  BY <1>6, <1>7

\* When S is seated and the capacity is cap, the first n of the line Q fit in.
Fit(n, Q, S, cap) ==
    /\ n \in 0 .. Len(Q)
    /\ cap = NoLimit => n = Len(Q)
    /\ cap # NoLimit => \A j \in 1 .. Len(Q) : j <= n <=> Cardinality(S) + (j - 1) < cap

\* The people who move up are the front of the line.
LEMMA FrontMovesUp ==
    ASSUME NEW W, NEW s, Stamped(W, s), NEW Q, InLine(Q, W, s), NEW S, IsFiniteSet(S),
           NEW cap \in Nat \cup {NoLimit}, NEW n, Fit(n, Q, S, cap)
    PROVE  ToPromote(S, W, s, cap) = Front(Q, n)
<1>1. /\ Len(Q) \in Nat /\ \A j \in 1 .. Len(Q) : Q[j] \in W
      /\ n \in 0 .. Len(Q)
  BY LenProperties, ElementOfSeq DEF InLine, Fit
<1>2. \A j \in 1 .. Len(Q) : Q[j] \in ToPromote(S, W, s, cap) <=> j <= n
  <2> TAKE j \in 1 .. Len(Q)
  <2>1. Cardinality(Ahead(W, s, Q[j])) = j - 1
    BY LineRank
  <2>2. CASE cap = NoLimit
    BY <1>1, <2>2 DEF ToPromote, Fit
  <2>3. CASE cap # NoLimit
    <3>1. j <= n <=> Cardinality(S) + (j - 1) < cap
      BY <2>3 DEF Fit
    <3>2. QED
      BY <1>1, <2>1, <2>3, <3>1 DEF ToPromote
  <2>4. QED
    BY <2>2, <2>3
<1>3. \A p \in ToPromote(S, W, s, cap) : \E j \in 1 .. Len(Q) : Q[j] = p
  BY DEF ToPromote, InLine
<1>4. \A j \in 1 .. n : j \in 1 .. Len(Q) /\ j <= n
  BY <1>1
<1>5. ToPromote(S, W, s, cap) \subseteq {Q[j] : j \in 1 .. n}
  <2> SUFFICES ASSUME NEW p \in ToPromote(S, W, s, cap) PROVE p \in {Q[j] : j \in 1 .. n}
    OBVIOUS
  <2>1. PICK j \in 1 .. Len(Q) : Q[j] = p
    BY <1>3
  <2>2. j \in 1 .. n
    BY <1>1, <1>2, <2>1
  <2>3. QED
    BY <2>1, <2>2
<1>6. QED
  BY <1>2, <1>4, <1>5 DEF Front

-----------------------------------------------------------------------------
(* The list behaves as if its operations ran one at a time *)

Grade == IF holder = NoSlot THEN tier ELSE view.tier
Queue == QueueOf(waiting, since)

LEMMA CountsAgree == \A S : List!Cardinality(S) = Cardinality(S)
BY DEF List!Cardinality, Cardinality

\* What a step hands on is what the front of the line takes.
LEMMA HandOnPromotes ==
    ASSUME NEW S, IsFiniteSet(S), NEW W, Stamped(W, since), NEW Q, InLine(Q, W, since),
           Len(Queue) \in Nat, Len(Q) <= Len(Queue),
           Grade \in Nat \cup {NoLimit}, NEW m \in Nat \cup {NoLimit}, NEW cap,
           cap = EffectiveCapacity(Grade, m),
           seated' = S \cup ToPromote(S, W, since, cap),
           waiting' = W \ ToPromote(S, W, since, cap),
           \A p \in waiting' : since'[p] = since[p]
    PROVE  List!HandOn(S, Q, m)
<1> DEFINE f == List!Free(S, m)
           n == IF f < 0 THEN 0 ELSE IF f < Len(Q) THEN f ELSE Len(Q)
<1>1. NoLimit \notin Nat /\ Len(Q) \in Nat /\ Cardinality(S) \in Nat
  BY RosterAssumption, LineFacts, FS_CardinalityType
<1>2. cap \in Nat \cup {NoLimit} /\ List!Smaller(m, Grade) = cap
  BY <1>1 DEF EffectiveCapacity, List!Smaller
<1>3. f = IF cap = NoLimit THEN Len(Queue) ELSE cap - Cardinality(S)
  <2>1. List!Free(S, m) = IF List!Smaller(m, Grade) = NoLimit THEN Len(Queue)
                          ELSE List!Smaller(m, Grade) - Cardinality(S)
    BY CountsAgree DEF List!Free, Grade, Queue
  <2>2. QED
    BY <1>2, <2>1
<1> HIDE DEF f
<1>4. n \in 0 .. Len(Q) /\ Fit(n, Q, S, cap)
  <2>1. CASE cap = NoLimit
    BY <1>1, <1>3, <2>1 DEF Fit
  <2>2. CASE cap # NoLimit
    <3>1. cap \in Nat /\ f = cap - Cardinality(S) /\ f \in Int
      BY <1>1, <1>2, <1>3, <2>2
    <3>2. n \in 0 .. Len(Q)
      BY <1>1, <3>1
    <3>3. \A j \in 1 .. Len(Q) : j <= n <=> Cardinality(S) + (j - 1) < cap
      BY <1>1, <3>1
    <3>4. QED
      BY <2>2, <3>2, <3>3 DEF Fit
  <2>3. QED
    BY <2>1, <2>2
<1> HIDE DEF n
<1>5. ToPromote(S, W, since, cap) = Front(Q, n)
  <2>1. PICK c \in Nat \cup {NoLimit} : c = cap
    BY <1>2
  <2>2. ToPromote(S, W, since, c) = Front(Q, n)
    BY <1>4, <2>1, FrontMovesUp
  <2>3. QED
    BY <2>1, <2>2
<1>6. /\ InLine(SubSeq(Q, n + 1, Len(Q)), waiting', since)
      /\ List!ToSet(SubSeq(Q, 1, n)) = ToPromote(S, W, since, cap)
  <2>1. PICK k \in 0 .. Len(Q) : k = n
    BY <1>4
  <2>2. /\ InLine(SubSeq(Q, k + 1, Len(Q)), W \ Front(Q, k), since)
        /\ List!ToSet(SubSeq(Q, 1, k)) = Front(Q, k)
    BY LineMoves
  <2>3. QED
    BY <1>5, <2>1, <2>2
<1>7. Stamped(waiting', since)
  <2>1. waiting' \in SUBSET W
    BY <1>5
  <2>2. QED
    BY <2>1, FS_Subset DEF Stamped
<1>8. QueueOf(waiting', since') = SubSeq(Q, n + 1, Len(Q))
  BY <1>6, <1>7, QueueIsLine
<1>9. seated' = S \cup List!ToSet(SubSeq(Q, 1, n))
  BY <1>6
<1>10. QED
  BY <1>8, <1>9 DEF List!HandOn, n, f

LEMMA QueueFacts ==
    ASSUME TypeOK, ListInv
    PROVE  /\ Stamped(waiting, since) /\ InLine(Queue, waiting, since)
           /\ Queue \in Seq(waiting) /\ Len(Queue) \in Nat
           /\ List!ToSet(Queue) = waiting
<1>1. Stamped(waiting, since)
  BY FinitePeople DEF TypeOK, ListInv, Queued, Stamped
<1>2. InLine(Queue, waiting, since)
  BY <1>1, QueueInLine DEF Queue
<1>3. /\ Queue \in Seq(waiting) /\ Len(Queue) \in Nat
      /\ \A j \in 1 .. Len(Queue) : Queue[j] \in waiting
  BY <1>1, <1>2, LineFacts
<1>4. DOMAIN Queue = 1 .. Len(Queue)
  BY <1>3, LenProperties
<1>5. \A p \in waiting : \E j \in 1 .. Len(Queue) : Queue[j] = p
  BY <1>2 DEF InLine
<1>6. List!ToSet(Queue) = waiting
  <2> HIDE DEF Queue
  <2> QED BY <1>3, <1>4, <1>5 DEF List!ToSet
<1>7. QED
  BY <1>1, <1>2, <1>3, <1>6

\* A step that leaves the waiting links alone leaves the queue alone.
LEMMA QueueStays ==
    ASSUME TypeOK, ListInv, waiting' = waiting, \A p \in waiting : since'[p] = since[p]
    PROVE  Queue' = Queue
<1>1. Stamped(waiting, since) /\ InLine(Queue, waiting, since)
  BY QueueFacts
<1>2. QueueOf(waiting, since') = Queue
  BY <1>1, QueueIsLine
<1>3. QED
  BY <1>2 DEF Queue

LEMMA GradeType ==
    ASSUME TypeOK, ViewIsExact
    PROVE  Grade \in Tiers
BY DEF TypeOK, ViewIsExact, Grade

\* Nothing on the list changes.
LEMMA NothingMoves ==
    ASSUME TypeOK, ListInv, Grade' \in Tiers, seated' = seated, waiting' = waiting,
           \A p \in waiting : since'[p] = since[p],
           meeting'.state = "active" <=> meeting.state = "active",
           meeting'.max = meeting.max
    PROVE  List!Next
<1>1. Queue' = Queue
  BY QueueStays
<1>2. List!Regrade
  BY <1>1 DEF List!Regrade, Queue
<1>3. QED
  BY <1>2 DEF List!Next, Grade

\* Somebody new comes on the list.
LEMMA AdmitMoves ==
    ASSUME TypeOK, ListInv, TypeOK', ListInv', ViewIsExact, holder # NoSlot,
           meeting.state = "active", UNCHANGED meeting, Grade' \in Tiers,
           NEW p \in Person, p \notin Members, NEW at, Admit(p, at)
    PROVE  List!Next
<1> DEFINE cap == EffectiveCapacity(Grade, meeting.max)
<1>q. /\ Stamped(waiting, since) /\ InLine(Queue, waiting, since)
      /\ Len(Queue) \in Nat /\ List!ToSet(Queue) = waiting
  BY QueueFacts
<1>1. view.seated = seated /\ ViewCapacity = cap /\ Grade = view.tier
  BY DEF ViewIsExact, ViewCapacity, Grade
<1>2. cap \in Nat \cup {NoLimit} /\ List!Smaller(meeting.max, Grade) = cap /\ NoLimit \notin Nat
  <2>1. meeting.max \in Nat \cup {NoLimit} /\ Grade \in Nat \cup {NoLimit} /\ NoLimit \notin Nat
    BY <1>1, RosterAssumption DEF TypeOK, Meeting, View, Capacities
  <2>2. QED
    BY <2>1 DEF EffectiveCapacity, List!Smaller
<1>3. Cardinality(seated) \in Nat
  BY FinitePeople, FS_CardinalityType DEF TypeOK
<1>4. List!HasRoom <=> ~Full(seated, cap)
  <2>1. List!Free(seated, meeting.max) = IF cap = NoLimit THEN Len(Queue) ELSE cap - Cardinality(seated)
    BY <1>2, CountsAgree DEF List!Free, Grade, Queue
  <2>2. List!HasRoom <=> cap = NoLimit \/ List!Free(seated, meeting.max) > 0
    BY <1>2 DEF List!HasRoom, Grade
  <2> HIDE DEF cap
  <2>3. QED
    BY <1>2, <1>3, <2>1, <2>2 DEF Full
<1>5. ~List!Present(p)
  BY <1>q DEF List!Present, Queue, Members
<1>6. CASE ~Full(seated, cap)
  <2>1. seated' = seated \cup {p} /\ waiting' = waiting /\ Stamp(at)
    BY <1>1, <1>6 DEF Admit
  <2>2. \A q \in waiting : since'[q] = since[q]
    BY <2>1 DEF Stamp, TypeOK
  <2>3. Queue' = Queue
    BY <2>1, <2>2, QueueStays
  <2>4. List!Enter(p)
    BY <1>4, <1>5, <1>6, <2>1, <2>3 DEF List!Enter, Queue
  <2>5. QED
    BY <2>4 DEF List!Next, Grade
<1>7. CASE Full(seated, cap)
  <2>1. seated' = seated /\ waiting' = waiting \cup {p} /\ Stamp(at)
    BY <1>1, <1>7 DEF Admit
  <2>2. \A q \in waiting : since'[q] = since[q]
    BY <2>1 DEF Stamp, TypeOK
  <2>3. Stamped(waiting \cup {p}, since')
    <3>1. Stamped(waiting, since)'
      BY FinitePeople DEF TypeOK, ListInv, Queued, Stamped
    <3>2. QED
      BY <2>1, <3>1
  <2>4. p \notin waiting
    BY DEF Members
  <2>5. PICK i \in 1 .. Len(Queue) + 1 : InLine(Inserted(Queue, i, p), waiting \cup {p}, since')
    BY <1>q, <2>2, <2>3, <2>4, LineGrows
  <2>6. Queue' = Inserted(Queue, i, p)
    <3>1. QueueOf(waiting \cup {p}, since') = Inserted(Queue, i, p)
      BY <2>3, <2>5, QueueIsLine
    <3>2. QED
      BY <2>1, <3>1 DEF Queue
  <2>7. Queue' = List!InsertAt(Queue, i, p)
    BY <2>6 DEF List!InsertAt, Inserted
  <2>8. List!Wait(p)
    BY <1>4, <1>5, <1>7, <2>1, <2>7 DEF List!Wait, Queue
  <2>9. QED
    BY <2>8 DEF List!Next, Grade
<1>8. QED
  BY <1>6, <1>7

\* Who moves up depends on the stamps of the people waiting alone.
LEMMA SameStamps ==
    ASSUME NEW S, NEW W, NEW s, NEW t, \A p \in W : s[p] = t[p], NEW cap
    PROVE  ToPromote(S, W, s, cap) = ToPromote(S, W, t, cap)
<1>1. \A p \in W : Ahead(W, s, p) = Ahead(W, t, p)
  BY DEF Ahead
<1>2. QED
  BY <1>1 DEF ToPromote

LEMMA AbstractTypes ==
    ASSUME TypeOK, ViewIsExact, holder # NoSlot
    PROVE  /\ Grade \in Nat \cup {NoLimit} /\ Grade = view.tier
           /\ Limits \cup {NoLimit} \subseteq Nat \cup {NoLimit}
           /\ meeting.max \in Limits \cup {NoLimit}
BY RosterAssumption DEF TypeOK, ViewIsExact, Grade, Meeting

\* Somebody gives up a place on the list, and the queue moves up.
LEMMA VacateMoves ==
    ASSUME TypeOK, ListInv, RosterWellFormed, ViewIsExact, holder # NoSlot,
           meeting.state = "active", UNCHANGED meeting, Grade' \in Tiers,
           NEW r, r.op # "limit", r.who \in Members, Vacate(r)
    PROVE  List!Next
<1> DEFINE p == r.who
           W == waiting \ {p}
           cap == EffectiveCapacity(Grade, meeting.max)
           S == seated \ {p}
<1>q. /\ Stamped(waiting, since) /\ InLine(Queue, waiting, since)
      /\ Len(Queue) \in Nat /\ List!ToSet(Queue) = waiting
  BY QueueFacts
<1>t. Grade \in Nat \cup {NoLimit} /\ meeting.max \in Nat \cup {NoLimit} /\ p \in Person
  BY AbstractTypes DEF TypeOK, Members
<1>1. view.seated = seated /\ view.waiting = waiting /\ view.tier = Grade
      /\ \A q \in W : view.since[q] = since[q]
  BY AbstractTypes DEF ViewIsExact
<1>2. PromotedBy(r) = ToPromote(S, W, since, cap)
  <2>1. PromotedBy(r) = ToPromote(S, W, view.since, cap)
    BY <1>1 DEF PromotedBy
  <2>2. ToPromote(S, W, view.since, cap) = ToPromote(S, W, since, cap)
    <3> HIDE DEF S, W, cap
    <3> QED BY <1>1, SameStamps
  <2>3. QED
    BY <2>1, <2>2
<1>3. /\ seated' = S \cup ToPromote(S, W, since, cap)
      /\ waiting' = W \ ToPromote(S, W, since, cap)
      /\ \A q \in waiting' : since'[q] = since[q]
  <2>1. seated' = S \cup PromotedBy(r) /\ waiting' = W \ PromotedBy(r) /\ Stamp(0)
    BY DEF Vacate
  <2>2. \A q \in waiting' : since'[q] = since[q]
    BY <2>1 DEF Stamp, TypeOK
  <2>3. QED
    BY <1>2, <2>1, <2>2
<1>4. IsFiniteSet(S)
  BY FinitePeople DEF TypeOK
<1>5. CASE p \in seated
  <2>1. W = waiting
    BY <1>5 DEF RosterWellFormed
  <2>2. List!HandOn(S, Queue, meeting.max)
    <3>1. InLine(Queue, W, since) /\ Stamped(W, since)
      BY <1>q, <2>1
    <3> HIDE DEF S, W
    <3>2. Len(Queue) <= Len(Queue)
      BY <1>q
    <3>3. QED
      BY <1>q, <1>t, <1>3, <1>4, <3>1, <3>2, HandOnPromotes
  <2>3. List!Depart(p)
    BY <1>5, <2>2 DEF List!Depart, Queue
  <2>4. QED
    BY <1>t, <2>3 DEF List!Next, Grade
<1>6. CASE p \notin seated
  <2>1. p \in waiting /\ S = seated
    BY <1>6 DEF Members
  <2>2. PICK i \in 1 .. Len(Queue) : Queue[i] = p
    BY <1>q, <2>1 DEF InLine
  <2>3. InLine(Without(Queue, i), W, since) /\ Len(Without(Queue, i)) <= Len(Queue)
    BY <1>q, <2>2, LineShrinks
  <2>4. Stamped(W, since)
    BY <1>q, FS_Subset DEF Stamped
  <2>5. List!HandOn(S, Without(Queue, i), meeting.max)
    <3> HIDE DEF S, W
    <3> QED BY <1>q, <1>t, <1>3, <1>4, <2>3, <2>4, HandOnPromotes
  <2>6. List!HandOn(seated, List!RemoveAt(Queue, i), meeting.max)
    BY <2>1, <2>5 DEF List!RemoveAt, Without
  <2>7. List!GiveUp(i)
    BY <2>6 DEF List!GiveUp, Queue
  <2>8. QED
    BY <2>7 DEF List!Next, Grade, Queue
<1>7. QED
  BY <1>5, <1>6

\* The owner sets the limit.
LEMMA LimitMoves ==
    ASSUME TypeOK, ListInv, ViewIsExact, holder # NoSlot, Grade' \in Tiers,
           NEW r, r.op = "limit", r.limit \in Limits \cup {NoLimit},
           meeting' = [meeting EXCEPT !.max = r.limit],
           seated' = seated \cup PromotedBy(r),
           waiting' = waiting \ PromotedBy(r), Stamp(0)
    PROVE  List!Next
<1> DEFINE cap == EffectiveCapacity(Grade, r.limit)
<1>q. /\ Stamped(waiting, since) /\ InLine(Queue, waiting, since)
      /\ Len(Queue) \in Nat
  BY QueueFacts
<1>t. Grade \in Nat \cup {NoLimit} /\ r.limit \in Nat \cup {NoLimit}
  BY AbstractTypes
<1>1. view.seated = seated /\ view.waiting = waiting /\ view.tier = Grade
      /\ \A q \in waiting : view.since[q] = since[q]
  BY AbstractTypes DEF ViewIsExact
<1>2. PromotedBy(r) = ToPromote(seated, waiting, since, cap)
  <2>1. PromotedBy(r) = ToPromote(seated, waiting, view.since, cap)
    <3>1. view.seated \ {} = seated /\ view.waiting \ {} = waiting
      BY <1>1
    <3>2. QED
      BY <1>1, <3>1 DEF PromotedBy
  <2>2. QED
    BY <1>1, <2>1, SameStamps
<1>3. /\ seated' = seated \cup ToPromote(seated, waiting, since, cap)
      /\ waiting' = waiting \ ToPromote(seated, waiting, since, cap)
      /\ \A q \in waiting' : since'[q] = since[q]
  BY <1>2 DEF Stamp, TypeOK
<1>4. IsFiniteSet(seated) /\ Len(Queue) <= Len(Queue)
  BY <1>q, FinitePeople DEF TypeOK
<1>5. List!HandOn(seated, Queue, r.limit)
  BY <1>q, <1>t, <1>3, <1>4, HandOnPromotes
<1>6. meeting'.max = r.limit /\ meeting'.state = meeting.state
  BY DEF TypeOK, Meeting
<1>7. List!Relimit(r.limit)
  BY <1>5, <1>6 DEF List!Relimit, Queue
<1>8. QED
  BY <1>7 DEF List!Next, Grade

\* The meeting ends.
LEMMA ListCloses ==
    ASSUME Grade' \in Tiers, meeting'.state # "active", meeting'.max = meeting.max,
           seated' = {}, waiting' = {}
    PROVE  List!Next
<1>1. QueueOf({}, since') = <<>>
  <2>1. Stamped({}, since')
    BY FS_EmptySet DEF Stamped
  <2>2. InLine(<<>>, {}, since')
    BY DEF InLine
  <2>3. QED
    BY <2>1, <2>2, QueueIsLine
<1>2. List!Close
  BY <1>1 DEF List!Close
<1>3. QED
  BY <1>2 DEF List!Next, Grade

\* A commit is one operation on the list, or none.
LEMMA CommitIsAtomic ==
    ASSUME TypeOK, TypeOK', ListInv, ListInv', RosterWellFormed, PendingWellFormed,
           ViewIsExact, Grade' \in Tiers, NEW s \in Slots, Commit(s)
    PROVE  List!Next
<1> DEFINE r == tx[s]
<1>1. ASSUME UNCHANGED rosterVars, meeting'.max = meeting.max,
             meeting'.state = "active" <=> meeting.state = "active"
      PROVE  List!Next
  BY <1>1, NothingMoves DEF rosterVars
<1>2. CASE Join(s)
  <2>1. holder # NoSlot /\ meeting.state = "active" /\ UNCHANGED meeting
    BY <1>2, RosterAssumption DEF Join, Holds
  <2>2. CASE UNCHANGED rosterVars
    BY <1>1, <2>1, <2>2
  <2>3. CASE r.who \notin ViewMembers /\ Admit(r.who, r.at)
    <3>1. r.who \in Person
      BY <1>2, RosterAssumption DEF Join, Holds, PendingWellFormed, Person
    <3>2. r.who \notin Members
      BY <2>1, <2>3 DEF ViewIsExact, ViewMembers, Members
    <3>3. QED
      BY <2>1, <2>3, <3>1, <3>2, AdmitMoves
  <2>4. QED
    BY <1>2, <2>2, <2>3 DEF Join
<1>3. CASE Invite(s)
  <2>1. holder # NoSlot /\ meeting.state = "active" /\ UNCHANGED meeting
    BY <1>3, RosterAssumption DEF Invite, Holds
  <2>2. CASE UNCHANGED rosterVars
    BY <1>1, <2>1, <2>2
  <2>3. CASE Admit(r.who, r.at)
    <3>1. r.who \in Guests /\ account[r.who] = "none"
      BY <1>3 DEF Invite, Holds, PendingWellFormed
    <3>2. r.who \in Person /\ r.who \notin Members
      BY <3>1 DEF Person, RosterWellFormed
    <3>3. QED
      BY <2>1, <2>3, <3>2, AdmitMoves
  <2>4. QED
    BY <1>3, <2>2, <2>3 DEF Invite
<1>4. CASE Leave(s) \/ Kick(s)
  <2>1. /\ holder # NoSlot /\ meeting.state = "active" /\ UNCHANGED meeting
        /\ r.op # "limit"
    BY <1>4, RosterAssumption DEF Leave, Kick, Holds
  <2>2. CASE UNCHANGED rosterVars
    BY <1>1, <2>1, <2>2
  <2>3. CASE r.who \in ViewMembers /\ Vacate(r)
    <3>1. r.who \in Members
      BY <2>1, <2>3 DEF ViewIsExact, ViewMembers, Members
    <3>2. QED
      BY <2>1, <2>3, <3>1, VacateMoves
  <2>4. QED
    BY <1>4, <2>2, <2>3 DEF Leave, Kick, ViewMembers
<1>5. CASE SetLimit(s)
  <2>1. holder # NoSlot /\ r.op = "limit"
    BY <1>5, RosterAssumption DEF SetLimit, Holds
  <2>2. r.limit \in Limits \cup {NoLimit}
    BY <2>1, RequestOfOp DEF Request, LockingOps
  <2>3. CASE UNCHANGED <<meeting, rosterVars>>
    BY <1>1, <2>3
  <2>4. CASE /\ meeting' = [meeting EXCEPT !.max = r.limit]
             /\ seated' = seated \cup PromotedBy(r)
             /\ waiting' = waiting \ PromotedBy(r)
             /\ Stamp(0)
    BY <2>1, <2>2, <2>4, LimitMoves
  <2>5. QED
    BY <1>5, <2>3, <2>4 DEF SetLimit
<1>6. CASE Deactivate(s) \/ Delete(s)
  <2>1. CASE UNCHANGED <<meeting, rosterVars>>
    BY <1>1, <2>1
  <2>2. CASE ClearMeeting /\ \E x \in {"inactive", "gone"} : meeting' = [meeting EXCEPT !.state = x]
    <3>1. meeting'.state # "active" /\ meeting'.max = meeting.max
      BY <2>2 DEF TypeOK, Meeting
    <3>2. seated' = {} /\ waiting' = {}
      BY <2>2 DEF ClearMeeting
    <3>3. QED
      BY <3>1, <3>2, ListCloses
  <2>3. QED
    BY <1>6, <2>1, <2>2 DEF Deactivate, Delete
<1>7. CASE Toggle(s)
  <2>1. meeting'.max = meeting.max /\ meeting'.state = meeting.state
    BY <1>7 DEF Toggle, TypeOK, Meeting
  <2>2. QED
    BY <1>1, <1>7, <2>1 DEF Toggle
<1>8. CASE Reactivate(s)
  <2>1. meeting'.max = meeting.max /\ meeting'.state = "active" /\ UNCHANGED rosterVars
    BY <1>8 DEF Reactivate, TypeOK, Meeting
  <2>2. CASE meeting.state = "active"
    BY <1>1, <2>1, <2>2
  <2>3. CASE meeting.state # "active"
    <3>1. Queue' = Queue
      BY <2>1, QueueStays DEF rosterVars
    <3>2. List!Reopen
      BY <2>1, <2>3, <3>1 DEF List!Reopen, Queue, rosterVars
    <3>3. QED
      BY <3>2 DEF List!Next, Grade
  <2>4. QED
    BY <2>2, <2>3
<1>9. QED
  BY <1>2, <1>3, <1>4, <1>5, <1>6, <1>7, <1>8 DEF Commit

\* Every step is an operation of the atomic list, or leaves it alone.
LEMMA StepIsAtomic ==
    ASSUME TypeOK, TypeOK', ListInv, ListInv', RosterWellFormed, PendingWellFormed,
           ViewIsExact, ViewIsExact', [Next]_vars, [~TakesLinks]_vars
    PROVE  List!Next \/ UNCHANGED List!vars
<1>g. Grade' \in Tiers
  BY DEF TypeOK, ViewIsExact, Grade
<1>1. ASSUME UNCHANGED <<seated, waiting, since, meeting>> PROVE List!Next
  BY <1>g, <1>1, NothingMoves
<1>2. ASSUME NEW s \in Slots, Start(s) PROVE List!Next
  BY <1>1, <1>2, StartShape DEF Begin, rosterVars
<1>3. ASSUME NEW s \in Slots, TakeLock(s) \/ Rollback(s) PROVE List!Next
  BY <1>1, <1>3 DEF TakeLock, Rollback, rosterVars
<1>4. ASSUME NEW s \in Slots, Commit(s) PROVE List!Next
  BY <1>g, <1>4, CommitIsAtomic
<1>5. CASE Unlocked /\ ~TakesLinks
  <2>1. UNCHANGED <<seated, waiting, since, meeting>>
    BY <1>5 DEF Unlocked, TakesLinks, ChangeTier, TurnWindow, Nominate, Onboard, RequestErasure,
                rosterVars
  <2>2. QED
    BY <1>1, <2>1
<1>6. CASE UNCHANGED vars
  BY <1>1, <1>6 DEF vars, rosterVars
<1>7. QED
  BY <1>2, <1>3, <1>4, <1>5, <1>6 DEF Next, Refuse

LEMMA InitIsAtomic == ASSUME Init PROVE List!Init
<1>1. QueueOf({}, since) = <<>>
  <2>1. Stamped({}, since)
    BY FS_EmptySet DEF Stamped
  <2>2. InLine(<<>>, {}, since)
    BY DEF InLine
  <2>3. QED
    BY <2>1, <2>2, QueueIsLine
<1>2. QED
  BY <1>1 DEF Init, List!Init

\* As long as no account is erased behind the lock, the list goes through what a
\* list does whose operations run one at a time, whatever the handlers in flight
\* and whatever becomes of the owner's tier: admissions see every place there is,
\* each freed place goes to the front of the queue in the same step, and a crash
\* of a handler is invisible on the list.
THEOREM ListIsAtomic == Spec /\ [][~TakesLinks]_vars => BehavesAtomically
<1>1. Init => ViewIsExact
  BY DEF Init, ViewIsExact
<1>2. TypeOK /\ TypeOK' /\ ListInv /\ ViewIsExact /\ [Next]_vars /\ [~TakesLinks]_vars => ViewIsExact'
  BY ViewStep
<1>3. Spec /\ [][~TakesLinks]_vars => []ViewIsExact
  BY <1>1, <1>2, TypeCorrect, ListCorrect, PTL DEF Spec
<1>4. Init => List!Init
  BY InitIsAtomic
<1>5. /\ TypeOK /\ TypeOK' /\ ListInv /\ ListInv' /\ RosterWellFormed /\ PendingWellFormed
      /\ ViewIsExact /\ ViewIsExact' /\ [Next]_vars /\ [~TakesLinks]_vars
      => [List!Next]_(List!vars)
  BY StepIsAtomic
<1>6. QED
  BY <1>3, <1>4, <1>5, TypeCorrect, ListCorrect, RosterCorrect, PTL
     DEF Spec, BehavesAtomically, List!Spec

==============================================================================
