--------------------------- MODULE SidebarProofs ---------------------------
(***************************************************************************)
(* For any panes, repositories, orders and heights of the terminal: the    *)
(* pointer of Sidebar does nothing that FleetView does not allow; the list *)
(* is that of the last snapshot; the selection is on it, stays near when   *)
(* the list changes under it, and its line is in view; rows of agents that *)
(* hold still do not swap.                                                 *)
(*                                                                         *)
(* Finite sets are gone through by least counterexample: were a fact wrong *)
(* of some set, it would be wrong of one with the fewest members           *)
(* (LeastMember).                                                          *)
(***************************************************************************)
EXTENDS Sidebar, FiniteSetTheorems, TLAPS

-----------------------------------------------------------------------------
(* A click or a turn of the wheel, whatever lines are in view, is a        *)
(* selection of an agent shown or a move to a neighbour: what FleetView    *)
(* keeps is kept with lines, scroll offset and pointer too (on_mouse).     *)
THEOREM SidebarImplementsFleetView == SidebarSpec => Spec
<1>1. ASSUME Click
      PROVE  \E p \in DOMAIN groups : Select(p)
  <2>1. PICK p : Select(p)
    BY <1>1 DEF Click
  <2>2. p \in DOMAIN groups
    BY <2>1 DEF Select
  <2> QED
    BY <2>1, <2>2
<1>2. [Update \/ Key \/ Pointer]_vars => [Next]_vars
  BY <1>1 DEF Next, Pointer
<1> QED
  BY <1>2, PTL DEF SidebarSpec, Spec

-----------------------------------------------------------------------------
(* What the list is built from: the snapshot, the stamps and the filter.   *)
(* Every step that changes one of them rebuilds the list in the same step; *)
(* every other leaves all of them, and the list, alone.                    *)

LEMMA ListIsBuiltFirst == Init => ViewIsCurrent
  BY DEF Init, ViewIsCurrent

LEMMA ListIsRebuilt == ViewIsCurrent /\ [Next]_vars => ViewIsCurrent'
<1> SUFFICES ASSUME ViewIsCurrent, [Next]_vars
             PROVE  ViewIsCurrent'
  OBVIOUS
<1> USE DEF ViewIsCurrent
<1>1. ASSUME NEW snap \in Snapshots,
             NEW moved \in SUBSET (DOMAIN snap \cap DOMAIN snapshot),
             ApplySnapshot(snap, moved)
      PROVE  ViewIsCurrent'
  BY <1>1 DEF ApplySnapshot, Rebuild
<1>2. ASSUME NEW p \in Summarised, NEW need \in BOOLEAN, SummaryArrives(p, need)
      PROVE  ViewIsCurrent'
  BY <1>2 DEF SummaryArrives
<1>3. ASSUME NEW delta, MoveSelection(delta)
      PROVE  ViewIsCurrent'
  BY <1>3 DEF MoveSelection
<1>4. CASE KeyFilters
  BY <1>4 DEF KeyFilters, Rebuild
<1>5. CASE KeyHelps
  BY <1>5 DEF KeyHelps, view
<1>6. ASSUME NEW p, Select(p)
      PROVE  ViewIsCurrent'
  BY <1>6 DEF Select
<1>7. CASE UNCHANGED vars
  BY <1>7 DEF vars, view
<1> QED
  BY <1>1, <1>2, <1>3, <1>4, <1>5, <1>6, <1>7
     DEF Next, Update, Key, KeyMoves, ScrollSelection

(* The list is that of the last snapshot under the filter of the moment,   *)
(* for any panes, repositories, orders of names and labels (rebuild).      *)
THEOREM ListIsCurrent == Spec => []ViewIsCurrent
  BY ListIsBuiltFirst, ListIsRebuilt, PTL DEF Spec

(* Agents shown are agents listed: no row, and so no key, names an agent   *)
(* that herdr no longer has.                                               *)
THEOREM NoRowWithoutAgent == Spec => [](DOMAIN groups \subseteq DOMAIN snapshot)
<1>1. ViewIsCurrent => DOMAIN groups \subseteq DOMAIN snapshot
  BY DEF ViewIsCurrent, Build
<1> QED
  BY <1>1, ListIsCurrent, PTL

(* The same with the sidebar and its pointer.                              *)
THEOREM SidebarListIsCurrent == SidebarSpec => []ViewIsCurrent
  BY SidebarImplementsFleetView, ListIsCurrent

(* Places in a finite order. Whatever is told apart by an integer key has  *)
(* one of the places 1 to the number of them, and every place is taken.    *)

Rank(S, key, p) == Cardinality({q \in S : key[q] <= key[p]})

LEMMA RanksAreTaken ==
    ASSUME NEW S, IsFiniteSet(S), NEW key \in [S -> Int],
           \A p, q \in S : key[p] = key[q] => p = q
    PROVE  /\ Cardinality(S) \in Nat
           /\ \A p \in S : Rank(S, key, p) \in 1..Cardinality(S)
           /\ \A k \in 1..Cardinality(S) : \E p \in S : Rank(S, key, p) = k
<1> DEFINE upTo(p) == {q \in S : key[q] <= key[p]}
<1>1. Cardinality(S) \in Nat
  BY FS_CardinalityType
<1>2. ASSUME NEW p \in S
      PROVE  /\ IsFiniteSet(upTo(p)) /\ upTo(p) \in SUBSET S
             /\ Cardinality(upTo(p)) \in 1..Cardinality(S)
  <2>1. upTo(p) \in SUBSET S /\ p \in upTo(p)
    OBVIOUS
  <2>2. IsFiniteSet(upTo(p)) /\ Cardinality(upTo(p)) <= Cardinality(S)
    BY <2>1, FS_Subset
  <2>3. Cardinality(upTo(p)) \in Nat /\ Cardinality(upTo(p)) # 0
    BY <2>1, <2>2, FS_CardinalityType, FS_EmptySet
  <2> QED
    BY <1>1, <2>1, <2>2, <2>3
<1>3. ASSUME NEW p \in S, NEW q \in S, key[p] < key[q]
      PROVE  Cardinality(upTo(p)) < Cardinality(upTo(q))
  <2>1. upTo(p) \in SUBSET upTo(q) /\ q \in upTo(q) /\ q \notin upTo(p)
    BY <1>3
  <2>2. Cardinality(upTo(p)) <= Cardinality(upTo(q))
        /\ (Cardinality(upTo(q)) = Cardinality(upTo(p)) => upTo(q) = upTo(p))
    BY <1>2, <2>1, FS_Subset
  <2> HIDE DEF upTo
  <2> QED
    BY <1>1, <1>2, <2>1, <2>2
<1> DEFINE rank == [p \in S |-> Cardinality(upTo(p))]
<1>4. rank \in [S -> 1..Cardinality(S)]
  BY <1>2
<1>5. \A p, q \in S : rank[p] = rank[q] => p = q
  <2> SUFFICES ASSUME NEW p \in S, NEW q \in S, p # q PROVE rank[p] # rank[q]
    OBVIOUS
  <2>1. key[p] < key[q] \/ key[q] < key[p]
    OBVIOUS
  <2>2. Cardinality(upTo(p)) < Cardinality(upTo(q)) \/ Cardinality(upTo(q)) < Cardinality(upTo(p))
    BY <1>3, <2>1
  <2>3. rank[p] = Cardinality(upTo(p)) /\ rank[q] = Cardinality(upTo(q))
    OBVIOUS
  <2> HIDE DEF upTo, rank
  <2> QED
    BY <1>1, <1>2, <2>2, <2>3
<1>6. \A p \in S : rank[p] = Rank(S, key, p)
  BY DEF Rank
<1> HIDE DEF rank
<1>7. rank \in Injection(S, 1..Cardinality(S))
  BY <1>4, <1>5 DEF Injection, IsInjective
<1>8. IsFiniteSet(1..Cardinality(S)) /\ Cardinality(1..Cardinality(S)) = Cardinality(S)
  BY <1>1, FS_Interval
<1>9. rank \in Surjection(S, 1..Cardinality(S))
  BY <1>7, <1>8, FS_Injection
<1>10. \A k \in 1..Cardinality(S) : \E p \in S : rank[p] = k
  BY <1>9 DEF Surjection
<1> QED
  BY <1>1, <1>4, <1>6, <1>10

(* A set of naturals that is not empty has a least member. *)
LEMMA LeastMember ==
    ASSUME NEW T \in SUBSET Nat, T # {}
    PROVE  \E x \in T : \A y \in T : x <= y
<1>1. IsWellFoundedOn(OpToRel(<, Nat), Nat)
  BY NatLessThanWellFounded
<1>2. PICK x \in T : \A y \in T : ~(<<y, x>> \in OpToRel(<, Nat))
  BY <1>1, WFMin
<1>3. \A y \in T : ~(y < x)
  BY <1>2 DEF OpToRel
<1> QED
  BY <1>3

-----------------------------------------------------------------------------
(* The keys. Rows are told apart by their last part, the label's rank.     *)

(* Of two numbers written in a base the digits before the last decide      *)
(* which is the smaller, and equal numbers have equal digits.              *)
LEMMA Digits ==
    ASSUME NEW B \in Nat, NEW m \in Nat, NEW n \in Nat, NEW j \in 0..(B - 1), NEW k \in 0..(B - 1),
           m < n
    PROVE  m * B + j < n * B + k
<1>1. (m + 1) * B = m * B + B
  OBVIOUS
<1>2. n = (m + 1) + (n - (m + 1)) /\ n - (m + 1) \in Nat
  OBVIOUS
<1>3. n * B = (m + 1) * B + (n - (m + 1)) * B /\ (n - (m + 1)) * B \in Nat
  BY <1>2
<1>4. m * B \in Nat /\ n * B \in Nat
  OBVIOUS
<1> QED
  BY <1>1, <1>3, <1>4

LEMMA LastDigit ==
    ASSUME NEW B \in Nat, NEW m \in Nat, NEW n \in Nat, NEW j \in 0..(B - 1), NEW k \in 0..(B - 1),
           NEW x, x = m * B + j, x = n * B + k
    PROVE  m = n /\ j = k
<1>1. m * B \in Nat /\ n * B \in Nat
  OBVIOUS
<1>2. ASSUME m < n PROVE m * B + j < n * B + k
  BY <1>2, Digits
<1>3. ASSUME n < m PROVE n * B + k < m * B + j
  BY <1>3, Digits
<1>4. m = n
  BY <1>1, <1>2, <1>3
<1> QED
  BY <1>1, <1>4

(* What is listed, as far as the keys ask. *)
Listed(g) ==
    /\ DOMAIN g \subseteq Pane
    /\ \A p \in DOMAIN g : g[p].status \in DOMAIN Urgency /\ g[p].since \in Stamp

LEMMA BaseType ==
    /\ Cardinality(Pane) \in Nat
    /\ Base \in Nat /\ Base >= 5
    /\ Stamp \subseteq 0..(Base - 1)
    /\ \A p \in Pane : LabelRank[p] \in 0..(Base - 1)
BY ViewAssumption, FS_CardinalityType DEF Base, Stamp

LEMMA UrgencyType ==
    /\ \A s \in DOMAIN Urgency : Urgency[s] \in 0..4
    /\ ReportedStatus \subseteq DOMAIN Urgency
BY ViewAssumption DEF Urgency

LEMMA AgentKeyType ==
    ASSUME NEW g, Listed(g), NEW p \in DOMAIN g
    PROVE  /\ Urgency[g[p].status] * Base + g[p].since \in Nat
           /\ AgentKey(g, p) = (Urgency[g[p].status] * Base + g[p].since) * Base + LabelRank[p]
           /\ AgentKey(g, p) \in Nat
<1>1. Urgency[g[p].status] \in Nat /\ g[p].since \in Nat /\ LabelRank[p] \in Nat /\ Base \in Nat
  BY BaseType, UrgencyType DEF Listed, Stamp
<1>2. Urgency[g[p].status] * Base + g[p].since \in Nat
  BY <1>1
<1>3. (Urgency[g[p].status] * Base + g[p].since) * Base + LabelRank[p] \in Nat
  BY <1>1, <1>2
<1> QED
  BY <1>2, <1>3 DEF AgentKey

LEMMA GroupKeyType ==
    ASSUME NEW g, Listed(g), NEW p \in DOMAIN g
    PROVE  GroupKey(g, RepoOf[p]) \in Nat
<1> DEFINE members == {q \in DOMAIN g : RepoOf[q] = RepoOf[p]}
           urgent  == CHOOSE q \in members : \A r \in members :
                         Urgency[g[q].status] <= Urgency[g[r].status]
           T       == {Urgency[g[q].status] : q \in members}
<1>1. p \in members /\ \A q \in members : Urgency[g[q].status] \in Nat
  BY UrgencyType DEF Listed
<1>2. T \in SUBSET Nat /\ T # {}
  BY <1>1
<1>3. \E x \in T : \A y \in T : x <= y
  <2> HIDE DEF T
  <2> QED
    BY <1>2, LeastMember
<1>4. \E q \in members : \A r \in members : Urgency[g[q].status] <= Urgency[g[r].status]
  BY <1>3
<1>5. urgent \in members
  BY <1>4
<1>6. Urgency[g[urgent].status] \in Nat
  BY <1>1, <1>5
<1>7. NameRank[RepoOf[p]] \in Nat
  BY ViewAssumption DEF Listed, Range
<1>8. GroupKey(g, RepoOf[p]) =
        (Urgency[g[urgent].status] * 2 + (IF RepoOf[p] = None THEN 1 ELSE 0)) * Base
            + NameRank[RepoOf[p]]
  BY DEF GroupKey
<1> HIDE DEF urgent
<1>9. Urgency[g[urgent].status] * 2 + (IF RepoOf[p] = None THEN 1 ELSE 0) \in Nat
  BY <1>6
<1> QED
  BY <1>7, <1>8, <1>9, BaseType

LEMMA RowKeyType ==
    ASSUME NEW g, Listed(g), NEW n, NEW p \in DOMAIN g
    PROVE  \E m \in Nat : RowKey(g, n, p) = m * Base + LabelRank[p]
<1> DEFINE a == (IF NeedsAttention(g, n, p) THEN 0 ELSE 10 * Base) + GroupKey(g, RepoOf[p])
           b == Urgency[g[p].status] * Base + g[p].since
<1>1. a \in Nat /\ b \in Nat /\ Base \in Nat /\ LabelRank[p] \in Nat
  BY GroupKeyType, AgentKeyType, BaseType DEF Listed
<1>2. RowKey(g, n, p) = a * Base * Base * Base + (b * Base + LabelRank[p])
  BY DEF RowKey, AgentKey
<1> HIDE DEF a, b
<1>3. a * Base * Base \in Nat
  BY <1>1
<1>4. a * Base * Base * Base + (b * Base + LabelRank[p])
         = (a * Base * Base + b) * Base + LabelRank[p]
  BY <1>1, <1>3
<1>5. a * Base * Base + b \in Nat
  BY <1>1, <1>3
<1> QED
  BY <1>2, <1>4, <1>5

LEMMA RowKeysDiffer ==
    ASSUME NEW g, Listed(g), NEW n
    PROVE  /\ \A p \in DOMAIN g : RowKey(g, n, p) \in Int
           /\ \A p, q \in DOMAIN g : RowKey(g, n, p) = RowKey(g, n, q) => p = q
<1>1. ASSUME NEW p \in DOMAIN g PROVE RowKey(g, n, p) \in Int
  <2>1. PICK m \in Nat : RowKey(g, n, p) = m * Base + LabelRank[p]
    BY RowKeyType
  <2> QED
    BY <2>1, BaseType DEF Listed
<1>2. ASSUME NEW p \in DOMAIN g, NEW q \in DOMAIN g, RowKey(g, n, p) = RowKey(g, n, q)
      PROVE  p = q
  <2>1. PICK m \in Nat : RowKey(g, n, p) = m * Base + LabelRank[p]
    BY RowKeyType
  <2>2. PICK k \in Nat : RowKey(g, n, q) = k * Base + LabelRank[q]
    BY RowKeyType
  <2>3. LabelRank[p] \in 0..(Base - 1) /\ LabelRank[q] \in 0..(Base - 1) /\ Base \in Nat
    BY BaseType DEF Listed
  <2>5. LabelRank[p] = LabelRank[q]
    <3> DEFINE x == RowKey(g, n, p)
               B == Base
               i == LabelRank[p]
               j == LabelRank[q]
    <3>1. x = m * B + i /\ x = k * B + j /\ B \in Nat /\ i \in 0..(B - 1) /\ j \in 0..(B - 1)
      BY <1>2, <2>1, <2>2, <2>3
    <3> HIDE DEF x, B, i, j
    <3>2. i = j
      BY <2>1, <2>2, <3>1, LastDigit
    <3> QED
      BY <3>2 DEF i, j
  <2> QED
    BY <2>5, ViewAssumption DEF Listed, IsInjective
<1> QED
  BY <1>1, <1>2

(* Every agent shown has a place of its own, every place has its agent,    *)
(* and AgentAt finds it.                                                   *)
LEMMA Places ==
    ASSUME NEW g, Listed(g), NEW n
    PROVE  /\ IsFiniteSet(DOMAIN g) /\ Cardinality(DOMAIN g) \in Nat
           /\ \A p \in DOMAIN g : Place(g, n, p) \in 1..Cardinality(DOMAIN g)
           /\ \A k \in 1..Cardinality(DOMAIN g) :
                 AgentAt(g, n, k) \in DOMAIN g /\ Place(g, n, AgentAt(g, n, k)) = k
<1> DEFINE key == [p \in DOMAIN g |-> RowKey(g, n, p)]
<1>1. IsFiniteSet(DOMAIN g)
  BY ViewAssumption, FS_Subset DEF Listed
<1>2. key \in [DOMAIN g -> Int] /\ \A p, q \in DOMAIN g : key[p] = key[q] => p = q
  BY RowKeysDiffer
<1>3. \A p \in DOMAIN g : Rank(DOMAIN g, key, p) = Place(g, n, p)
  BY DEF Rank, Place
<1> HIDE DEF key
<1>4. /\ Cardinality(DOMAIN g) \in Nat
      /\ \A p \in DOMAIN g : Place(g, n, p) \in 1..Cardinality(DOMAIN g)
      /\ \A k \in 1..Cardinality(DOMAIN g) : \E p \in DOMAIN g : Place(g, n, p) = k
  BY <1>1, <1>2, <1>3, RanksAreTaken
<1> QED
  BY <1>1, <1>4 DEF AgentAt

(* The survivor the selection goes to is one, and none was closer.         *)
Apart(a, b) == IF a < b THEN b - a ELSE a - b

LEMMA SurvivorIsClosest ==
    ASSUME NEW old, Listed(old), NEW new, selected \in DOMAIN old,
           DOMAIN old \cap DOMAIN new # {}
    PROVE  /\ ClosestSurvivor(old, new) \in DOMAIN old \cap DOMAIN new
           /\ \A q \in DOMAIN old \cap DOMAIN new :
                 Apart(Place(old, needs, ClosestSurvivor(old, new)), Place(old, needs, selected))
                    <= Apart(Place(old, needs, q), Place(old, needs, selected))
<1> DEFINE center    == Place(old, needs, selected)
           survivors == DOMAIN old \cap DOMAIN new
           Far(p)    == LET d == Place(old, needs, p) - center IN IF d > 0 THEN 2 * d ELSE 1 - 2 * d
           T         == {Far(p) : p \in survivors}
           closest   == CHOOSE p \in survivors : \A q \in survivors : Far(p) <= Far(q)
<1>1. center \in Nat /\ \A p \in survivors : Place(old, needs, p) \in Nat
  BY Places
<1>2. \A p \in survivors : Far(p) \in Nat
  BY <1>1
<1>3. T \in SUBSET Nat /\ T # {}
  BY <1>2
<1>4. \E x \in T : \A y \in T : x <= y
  <2> HIDE DEF T
  <2> QED
    BY <1>3, LeastMember
<1>5. \E p \in survivors : \A q \in survivors : Far(p) <= Far(q)
  <2> HIDE DEF Far, survivors
  <2> QED
    BY <1>4
<1>6. closest \in survivors /\ \A q \in survivors : Far(closest) <= Far(q)
  <2> HIDE DEF Far, survivors
  <2> QED
    BY <1>5
<1>7. ClosestSurvivor(old, new) = closest
  BY DEF ClosestSurvivor
<1> HIDE DEF closest
<1>8. ASSUME NEW q \in survivors
      PROVE  Apart(Place(old, needs, closest), center) <= Apart(Place(old, needs, q), center)
  BY <1>1, <1>6 DEF Apart
<1> QED
  BY <1>6, <1>7, <1>8

-----------------------------------------------------------------------------
(* Types. Stamps are counts of the panes' stamps, so none is larger than   *)
(* the number of panes.                                                    *)

LEMMA ImageSize ==
    ASSUME NEW S, IsFiniteSet(S), NEW f, NEW T, T = {f[x] : x \in S}
    PROVE  IsFiniteSet(T) /\ Cardinality(T) <= Cardinality(S) /\ Cardinality(T) \in Nat
<1> DEFINE h == [x \in S |-> f[x]]
<1>1. h \in Surjection(S, T)
  BY DEF Surjection
<1> HIDE DEF h
<1> QED
  BY <1>1, FS_Surjection, FS_CardinalityType

LEMMA ObserveType ==
    ASSUME NEW old, NEW new \in Snapshots, NEW moved
    PROVE  /\ DOMAIN Observe(old, new, moved) = DOMAIN new
           /\ Range(Observe(old, new, moved)) \subseteq Stamp
<1> DEFINE held   == (DOMAIN old \cap DOMAIN new) \ moved
           kept(p) == {r \in held : p \in held => old[r] < old[p]}
<1>1. DOMAIN new \subseteq Pane
  BY DEF Snapshots
<1>2. ASSUME NEW p \in DOMAIN new
      PROVE  Cardinality({old[q] : q \in kept(p)}) \in Stamp
  <2>1. kept(p) \in SUBSET Pane
    BY <1>1
  <2>2. IsFiniteSet(kept(p)) /\ Cardinality(kept(p)) <= Cardinality(Pane)
        /\ Cardinality(kept(p)) \in Nat /\ Cardinality(Pane) \in Nat
    BY <2>1, ViewAssumption, FS_Subset, FS_CardinalityType
  <2> HIDE DEF kept
  <2>3. LET T == {old[q] : q \in kept(p)}
        IN Cardinality(T) <= Cardinality(kept(p)) /\ Cardinality(T) \in Nat
    BY <2>2, ImageSize
  <2> QED
    BY <2>2, <2>3 DEF Stamp
<1>3. Observe(old, new, moved) = [p \in DOMAIN new |-> Cardinality({old[q] : q \in kept(p)})]
  BY DEF Observe
<1> QED
  BY <1>2, <1>3 DEF Range

LEMMA BuildType ==
    ASSUME NEW snap \in Snapshots, NEW stamps, DOMAIN stamps = DOMAIN snap,
           Range(stamps) \subseteq Stamp, NEW active
    PROVE  /\ DOMAIN Build(snap, stamps, active) \subseteq DOMAIN snap
           /\ Range(Build(snap, stamps, active)) \subseteq Shown
           /\ Listed(Build(snap, stamps, active))
<1>1. DOMAIN snap \subseteq Pane /\ \A p \in DOMAIN snap : snap[p] \in ReportedStatus
  BY DEF Snapshots
<1>2. \A p \in DOMAIN snap : stamps[p] \in Stamp
  BY DEF Range
<1>3. DOMAIN Build(snap, stamps, active) \subseteq DOMAIN snap
  BY DEF Build
<1>4. \A p \in DOMAIN Build(snap, stamps, active) :
         Build(snap, stamps, active)[p] = [status |-> snap[p], since |-> stamps[p]]
  BY DEF Build
<1>5. \A p \in DOMAIN Build(snap, stamps, active) : Build(snap, stamps, active)[p] \in Shown
  BY <1>1, <1>2, <1>3, <1>4 DEF Shown
<1> QED
  BY <1>1, <1>3, <1>5, UrgencyType DEF Range, Listed, Shown

(* What every step keeps: types, the list built anew, the selection on it. *)
ViewInv == TypeOK /\ ViewIsCurrent /\ SelectionOnScreen

LEMMA GroupsAreListed ==
    ASSUME ViewInv PROVE Listed(groups)
BY BuildType DEF ViewInv, ViewIsCurrent, TypeOK

(* A list that is built anew has its selection on it, if it has a row.     *)
LEMMA ReconciledIsShown ==
    ASSUME ViewInv, NEW new, Listed(new)
    PROVE  IF DOMAIN new = {} THEN Reconciled(groups, new) = None
                              ELSE Reconciled(groups, new) \in DOMAIN new
<1>1. CASE DOMAIN new = {}
  <2>1. selected \notin DOMAIN new /\ DOMAIN groups \cap DOMAIN new = {}
    BY <1>1
  <2> QED
    BY <1>1, <2>1 DEF Reconciled
<1>2. CASE DOMAIN new # {} /\ selected \in DOMAIN new
  BY <1>2 DEF Reconciled
<1>3. CASE DOMAIN new # {} /\ selected \notin DOMAIN new
           /\ selected \in DOMAIN groups /\ DOMAIN groups \cap DOMAIN new # {}
  <2>1. Reconciled(groups, new) = ClosestSurvivor(groups, new)
    BY <1>3 DEF Reconciled
  <2>2. ClosestSurvivor(groups, new) \in DOMAIN groups \cap DOMAIN new
    BY <1>3, GroupsAreListed, SurvivorIsClosest
  <2> QED
    BY <1>3, <2>1, <2>2
<1>4. CASE DOMAIN new # {} /\ selected \notin DOMAIN new
           /\ ~(selected \in DOMAIN groups /\ DOMAIN groups \cap DOMAIN new # {})
  <2>1. Reconciled(groups, new) = AgentAt(new, needs, 1)
    BY <1>4 DEF Reconciled
  <2>2. Cardinality(DOMAIN new) \in Nat /\ Cardinality(DOMAIN new) # 0
    BY <1>4, Places, FS_EmptySet
  <2>3. 1 \in 1..Cardinality(DOMAIN new)
    BY <2>2
  <2> QED
    BY <1>4, <2>1, <2>3, Places
<1> QED
  BY <1>1, <1>2, <1>3, <1>4

LEMMA RebuildKeeps ==
    ASSUME ViewInv, NEW snap \in Snapshots, NEW stamps, DOMAIN stamps = DOMAIN snap,
           Range(stamps) \subseteq Stamp, NEW active, Rebuild(snap, stamps, active),
           snapshot' = snap
    PROVE  /\ DOMAIN groups' \subseteq Pane /\ Range(groups') \subseteq Shown
           /\ selected' \in Pane \cup {None}
           /\ SelectionOnScreen'
<1>1. groups' = Build(snap, stamps, active) /\ selected' = Reconciled(groups, groups')
  BY DEF Rebuild
<1>2. /\ DOMAIN groups' \subseteq DOMAIN snap
      /\ Range(groups') \subseteq Shown
      /\ Listed(Build(snap, stamps, active))
  BY <1>1, BuildType
<1>3. IF DOMAIN groups' = {} THEN selected' = None ELSE selected' \in DOMAIN groups'
  BY <1>1, <1>2, ReconciledIsShown
<1>4. DOMAIN snap \subseteq Pane
  BY DEF Snapshots
<1> QED
  BY <1>2, <1>3, <1>4 DEF SelectionOnScreen

LEMMA MoveKeeps ==
    ASSUME ViewInv, NEW delta \in Int, MoveSelection(delta)
    PROVE  ViewInv'
<1> DEFINE last == Cardinality(DOMAIN groups)
           next == (IF selected \in DOMAIN groups THEN Place(groups, needs, selected) ELSE 1) + delta
           at   == IF next < 1 THEN 1 ELSE IF next > last THEN last ELSE next
<1>1. Listed(groups) /\ DOMAIN groups # {}
  BY GroupsAreListed DEF MoveSelection
<1>2. last \in Nat /\ last # 0
  BY <1>1, Places, FS_EmptySet
<1>3. next \in Int
  BY <1>1, Places
<1>4. at \in 1..last
  BY <1>2, <1>3
<1>5. selected' = AgentAt(groups, needs, at)
  BY DEF MoveSelection
<1> HIDE DEF at, next
<1>6. selected' \in DOMAIN groups
  BY <1>1, <1>4, <1>5, Places
<1>7. UNCHANGED <<snapshot, since, groups, needs, active_only, show_help>>
  BY DEF MoveSelection
<1> QED
  BY <1>1, <1>6, <1>7 DEF ViewInv, TypeOK, ViewIsCurrent, SelectionOnScreen

LEMMA ViewStep ==
    ASSUME ViewInv, [Next]_vars
    PROVE  ViewInv'
<1>0. ViewIsCurrent'
  BY ListIsRebuilt DEF ViewInv
<1>1. ASSUME NEW snap \in Snapshots,
             NEW moved \in SUBSET (DOMAIN snap \cap DOMAIN snapshot),
             ApplySnapshot(snap, moved)
      PROVE  ViewInv'
  <2>1. /\ snapshot' = snap /\ since' = Observe(since, snap, moved)
        /\ Rebuild(snap, since', active_only)
        /\ UNCHANGED <<active_only, show_help>>
    BY <1>1 DEF ApplySnapshot
  <2>2. DOMAIN since' = DOMAIN snap /\ Range(since') \subseteq Stamp
    BY <2>1, ObserveType
  <2>3. /\ DOMAIN groups' \subseteq Pane /\ Range(groups') \subseteq Shown
        /\ selected' \in Pane \cup {None} /\ SelectionOnScreen'
    BY <2>1, <2>2, RebuildKeeps
  <2>4. needs' \in [Pane -> BOOLEAN \cup {None}]
    <3>1. needs \in [Pane -> BOOLEAN \cup {None}]
      BY DEF ViewInv, TypeOK
    <3>2. needs' = [p \in Pane |-> IF p \in DOMAIN snap THEN needs[p] ELSE None]
      BY <1>1 DEF ApplySnapshot
    <3> QED
      BY <3>1, <3>2
  <2> QED
    BY <1>0, <2>1, <2>2, <2>3, <2>4 DEF ViewInv, TypeOK
<1>2. ASSUME NEW p \in Summarised, NEW need \in BOOLEAN, SummaryArrives(p, need)
      PROVE  ViewInv'
  <2>1. needs' \in [Pane -> BOOLEAN \cup {None}]
    <3>1. needs \in [Pane -> BOOLEAN \cup {None}] /\ need \in BOOLEAN \cup {None}
      BY DEF ViewInv, TypeOK
    <3>2. needs' = [needs EXCEPT ![p] = need]
      BY <1>2 DEF SummaryArrives
    <3> QED
      BY <3>1, <3>2
  <2>2. UNCHANGED <<snapshot, since, groups, selected, active_only, show_help>>
    BY <1>2 DEF SummaryArrives
  <2> QED
    BY <1>0, <2>1, <2>2 DEF ViewInv, TypeOK, SelectionOnScreen
<1>3. CASE KeyMoves \/ ScrollSelection
  <2>1. Cardinality(Pane) \in Int
    BY BaseType
  <2> QED
    BY <1>3, <2>1, MoveKeeps DEF KeyMoves, ScrollSelection
<1>4. CASE KeyFilters
  <2>1. /\ Rebuild(snapshot, since, ~active_only) /\ active_only' = ~active_only
        /\ UNCHANGED <<snapshot, since, needs, show_help>>
    BY <1>4 DEF KeyFilters
  <2>2. /\ DOMAIN groups' \subseteq Pane /\ Range(groups') \subseteq Shown
        /\ selected' \in Pane \cup {None} /\ SelectionOnScreen'
    BY <2>1, RebuildKeeps DEF ViewInv, TypeOK
  <2>3. active_only' \in BOOLEAN
    BY <2>1
  <2> QED
    BY <1>0, <2>1, <2>2, <2>3 DEF ViewInv, TypeOK
<1>5. CASE KeyHelps
  BY <1>0, <1>5 DEF KeyHelps, view, ViewInv, TypeOK, SelectionOnScreen
<1>6. ASSUME NEW p, Select(p)
      PROVE  ViewInv'
  <2>1. p \in DOMAIN groups /\ selected' = p
        /\ UNCHANGED <<snapshot, since, groups, needs, active_only, show_help>>
    BY <1>6 DEF Select
  <2> QED
    BY <1>0, <2>1 DEF ViewInv, TypeOK, SelectionOnScreen
<1>7. CASE UNCHANGED vars
  BY <1>0, <1>7 DEF vars, view, ViewInv, TypeOK, SelectionOnScreen
<1> QED
  BY <1>1, <1>2, <1>3, <1>4, <1>5, <1>6, <1>7 DEF Next, Update, Key

LEMMA ViewStart == Init => ViewInv
<1> SUFFICES ASSUME Init PROVE ViewInv
  OBVIOUS
<1>1. ViewIsCurrent
  BY ListIsBuiltFirst
<1>2. /\ snapshot \in Snapshots /\ since = [p \in DOMAIN snapshot |-> 0]
      /\ groups = Build(snapshot, since, FALSE)
  BY DEF Init
<1>3. DOMAIN since = DOMAIN snapshot /\ Range(since) \subseteq Stamp
  BY <1>2, BaseType DEF Range, Stamp
<1>4. /\ DOMAIN groups \subseteq DOMAIN snapshot
      /\ Range(groups) \subseteq Shown
      /\ Listed(groups)
  BY <1>2, <1>3, BuildType
<1>5. DOMAIN snapshot \subseteq Pane
  BY <1>2 DEF Snapshots
<1>6. IF DOMAIN groups = {} THEN selected = None ELSE selected \in DOMAIN groups
  <2>1. CASE DOMAIN groups = {}
    BY <2>1 DEF Init
  <2>2. CASE DOMAIN groups # {}
    <3>1. Cardinality(DOMAIN groups) \in Nat /\ Cardinality(DOMAIN groups) # 0
      BY <1>4, <2>2, Places, FS_EmptySet
    <3>2. 1 \in 1..Cardinality(DOMAIN groups)
      BY <3>1
    <3>3. selected = AgentAt(groups, needs, 1)
      BY <2>2 DEF Init
    <3> QED
      BY <1>4, <2>2, <3>2, <3>3, Places
  <2> QED
    BY <2>1, <2>2
<1>7. needs \in [Pane -> BOOLEAN \cup {None}] /\ active_only \in BOOLEAN /\ show_help \in BOOLEAN
  BY DEF Init
<1> QED
  BY <1>1, <1>2, <1>3, <1>4, <1>5, <1>6, <1>7 DEF ViewInv, TypeOK, SelectionOnScreen

LEMMA ViewHolds == Spec => []ViewInv
  BY ViewStart, ViewStep, PTL DEF Spec

(* Types hold with any agents, however often they come and go: no stamp    *)
(* outgrows the number of panes (Timings::observe, App).                   *)
THEOREM TypeCorrect == SidebarSpec => []TypeOK
<1>1. ViewInv => TypeOK
  BY DEF ViewInv
<1> QED
  BY <1>1, ViewHolds, SidebarImplementsFleetView, PTL

(* Whatever polls, filter, keys and pointer do to the list, an agent on it *)
(* is selected as long as it has one, and none when it is empty            *)
(* (reconcile_selection, move_selection).                                  *)
THEOREM SelectionShown == SidebarSpec => []SelectionOnScreen
<1>1. ViewInv => SelectionOnScreen
  BY DEF ViewInv
<1> QED
  BY <1>1, ViewHolds, SidebarImplementsFleetView, PTL

(* A list that is built anew keeps the selection on its agent, or moves it *)
(* to one that stays and to which none that stays was closer in the list   *)
(* the user was looking at (reconcile_selection).                          *)
THEOREM SelectionNear == SidebarSpec => SelectionStaysNear
<1> DEFINE Stays ==
      groups' # groups /\ DOMAIN groups \cap DOMAIN groups' # {} =>
         LET center   == Place(groups, needs, selected)
             Off(p)   == LET d == Place(groups, needs, p) - center IN IF d < 0 THEN -d ELSE d
             moved    == Off(selected')
         IN \/ selected' = selected
            \/ /\ selected' \in DOMAIN groups
               /\ \A p \in DOMAIN groups \cap DOMAIN groups' : moved <= Off(p)
<1>1. ViewInv /\ [Next]_vars => [Stays]_vars
  <2> SUFFICES ASSUME ViewInv, Next, groups' # groups, selected' # selected,
                      DOMAIN groups \cap DOMAIN groups' # {}
               PROVE  Stays
    OBVIOUS
  <2>1. selected' = Reconciled(groups, groups')
    <3>1. \E snap, stamps, active : Rebuild(snap, stamps, active)
      BY DEF Next, Update, Key, KeyMoves, ScrollSelection, ApplySnapshot, SummaryArrives,
             MoveSelection, KeyFilters, KeyHelps, Select, view
    <3> QED
      BY <3>1 DEF Rebuild
  <2>2. selected \in DOMAIN groups /\ Listed(groups)
    BY GroupsAreListed DEF ViewInv, SelectionOnScreen
  <2>3. selected' = ClosestSurvivor(groups, groups')
    <3>1. DOMAIN groups' # {} /\ selected \notin DOMAIN groups'
      BY <2>1 DEF Reconciled
    <3> QED
      BY <2>1, <2>2, <3>1 DEF Reconciled
  <2> DEFINE center == Place(groups, needs, selected)
             common == DOMAIN groups \cap DOMAIN groups'
  <2>4. selected' \in common
        /\ \A p \in common : Apart(Place(groups, needs, selected'), center)
                                <= Apart(Place(groups, needs, p), center)
    <3> DEFINE new == groups'
    <3>1. /\ ClosestSurvivor(groups, new) \in DOMAIN groups \cap DOMAIN new
          /\ \A q \in DOMAIN groups \cap DOMAIN new :
                Apart(Place(groups, needs, ClosestSurvivor(groups, new)), center)
                   <= Apart(Place(groups, needs, q), center)
      BY <2>2, SurvivorIsClosest
    <3> QED
      BY <2>3, <3>1
  <2>5. center \in Nat /\ \A p \in common : Place(groups, needs, p) \in Nat
    BY <2>2, Places
  <2>6. ASSUME NEW p \in common
        PROVE  LET d == Place(groups, needs, p) - center
               IN Apart(Place(groups, needs, p), center) = IF d < 0 THEN -d ELSE d
    BY <2>5 DEF Apart
  <2> HIDE DEF center
  <2> QED
    BY <2>4, <2>6 DEF center
<1> QED
  BY <1>1, ViewHolds, SidebarImplementsFleetView, PTL DEF Spec, SelectionStaysNear

-----------------------------------------------------------------------------
(* The order of a repository's rows. *)

(* The more urgent status comes first; of two agents as urgent as each     *)
(* other the earlier stamp, and of two equal stamps the label decides.     *)
LEMMA KeyOrder ==
    ASSUME NEW g, Listed(g), NEW p \in DOMAIN g, NEW q \in DOMAIN g
    PROVE  /\ Urgency[g[p].status] < Urgency[g[q].status] => AgentKey(g, p) < AgentKey(g, q)
           /\ Urgency[g[p].status] = Urgency[g[q].status] =>
                 (AgentKey(g, p) < AgentKey(g, q) <=>
                     \/ g[p].since < g[q].since
                     \/ g[p].since = g[q].since /\ LabelRank[p] < LabelRank[q])
<1> DEFINE v == Urgency[g[p].status]
           w == Urgency[g[q].status]
           s == g[p].since
           t == g[q].since
           i == LabelRank[p]
           j == LabelRank[q]
           B == Base
<1>1. /\ v \in Nat /\ w \in Nat /\ B \in Nat /\ s \in 0..(B - 1) /\ t \in 0..(B - 1)
      /\ i \in 0..(B - 1) /\ j \in 0..(B - 1)
  <2>1. v \in Nat /\ w \in Nat
    BY UrgencyType DEF Listed
  <2>2. B \in Nat /\ s \in 0..(B - 1) /\ t \in 0..(B - 1)
    BY BaseType DEF Listed
  <2>3. i \in 0..(B - 1) /\ j \in 0..(B - 1)
    BY BaseType DEF Listed
  <2> QED
    BY <2>1, <2>2, <2>3
<1>2. AgentKey(g, p) = (v * B + s) * B + i /\ AgentKey(g, q) = (w * B + t) * B + j
  BY DEF AgentKey
<1> HIDE DEF v, w, s, t, i, j, B
<1>a. v < w => (v * B + s) * B + i < (w * B + t) * B + j
  <2> SUFFICES ASSUME v < w PROVE (v * B + s) * B + i < (w * B + t) * B + j
    OBVIOUS
  <2>1. v * B + s < w * B + t
    BY <1>1, Digits
  <2>2. v * B + s \in Nat /\ w * B + t \in Nat
    BY <1>1
  <2> QED
    BY <1>1, <2>1, <2>2, Digits
<1> DEFINE u == v * B
<1>u. u \in Nat
  BY <1>1
<1> HIDE DEF u
<1>3. s < t => (u + s) * B + i < (u + t) * B + j
  <2>1. u + s \in Nat /\ u + t \in Nat /\ (s < t => u + s < u + t)
    BY <1>1, <1>u
  <2> QED
    BY <1>1, <1>u, <2>1, Digits
<1>4. t < s => (u + t) * B + j < (u + s) * B + i
  <2>1. u + s \in Nat /\ u + t \in Nat /\ (t < s => u + t < u + s)
    BY <1>1, <1>u
  <2> QED
    BY <1>1, <1>u, <2>1, Digits
<1>5. (u + s) * B \in Nat /\ (u + t) * B \in Nat
  BY <1>1, <1>u
<1>6. (u + s) * B + i < (u + t) * B + j <=> (s < t \/ (s = t /\ i < j))
  <2>1. CASE s < t
    BY <1>1, <1>u, <1>3, <2>1
  <2>2. CASE t < s
    BY <1>1, <1>u, <1>4, <1>5, <2>2
  <2>3. CASE s = t
    BY <1>1, <1>u, <1>5, <2>3
  <2> QED
    BY <1>1, <1>u, <2>1, <2>2, <2>3
<1>7. v = w => AgentKey(g, p) = (u + s) * B + i /\ AgentKey(g, q) = (u + t) * B + j
  BY <1>2 DEF u
<1>8. v = w => (AgentKey(g, p) < AgentKey(g, q) <=> (s < t \/ (s = t /\ i < j)))
  BY <1>6, <1>7
<1> QED
  BY <1>2, <1>a, <1>8 DEF v, w, s, t, i, j

(* An observation keeps the stamps of agents that have not moved in their  *)
(* order, and ahead of all others.                                         *)
LEMMA ObserveKeepsOrder ==
    ASSUME NEW old, Range(old) \subseteq Stamp, NEW new \in Snapshots, NEW moved,
           NEW p \in DOMAIN old \cap DOMAIN new, p \notin moved,
           NEW q \in DOMAIN old \cap DOMAIN new
    PROVE  /\ old[p] < old[q] => Observe(old, new, moved)[p] < Observe(old, new, moved)[q]
           /\ old[p] = old[q] /\ q \notin moved
                 => Observe(old, new, moved)[p] = Observe(old, new, moved)[q]
           /\ q \in moved => Observe(old, new, moved)[p] < Observe(old, new, moved)[q]
<1> DEFINE held     == (DOMAIN old \cap DOMAIN new) \ moved
           kept(r)  == {x \in held : r \in held => old[x] < old[r]}
           before(r) == {old[x] : x \in kept(r)}
<1>1. ASSUME NEW r \in DOMAIN new
      PROVE  /\ Observe(old, new, moved)[r] = Cardinality(before(r))
             /\ IsFiniteSet(before(r)) /\ Cardinality(before(r)) \in Nat
  <2>1. kept(r) \in SUBSET Pane
    BY DEF Snapshots
  <2>2. IsFiniteSet(kept(r))
    BY <2>1, ViewAssumption, FS_Subset
  <2>3. Observe(old, new, moved)[r] = Cardinality(before(r))
    BY DEF Observe
  <2> HIDE DEF kept
  <2> QED
    BY <2>2, <2>3, ImageSize
<1>2. \A r \in DOMAIN old : old[r] \in Nat
  BY BaseType DEF Range, Stamp
<1>3. p \in held /\ old[p] \notin before(p)
  BY <1>2
<1>4. ASSUME old[p] \in before(q), before(p) \subseteq before(q)
      PROVE  Observe(old, new, moved)[p] < Observe(old, new, moved)[q]
  <2>1. before(p) \in SUBSET before(q) /\ before(p) # before(q)
    BY <1>3, <1>4
  <2> HIDE DEF before
  <2>2. Cardinality(before(p)) <= Cardinality(before(q))
        /\ Cardinality(before(q)) # Cardinality(before(p))
    BY <1>1, <2>1, FS_Subset
  <2> QED
    BY <1>1, <2>2
<1>5. CASE q \in held
  <2>1. old[p] < old[q] => old[p] \in before(q) /\ before(p) \subseteq before(q)
    BY <1>2, <1>3, <1>5
  <2>2. old[p] = old[q] => before(p) = before(q)
    BY <1>3, <1>5
  <2>3. q \notin moved
    BY <1>5
  <2> HIDE DEF before, held
  <2> QED
    BY <1>1, <1>4, <2>1, <2>2, <2>3
<1>6. CASE q \notin held
  <2>1. old[p] \in before(q) /\ before(p) \subseteq before(q)
    BY <1>3, <1>6
  <2>2. q \in moved
    BY <1>6
  <2> HIDE DEF before, held
  <2> QED
    BY <1>4, <2>1, <2>2
<1> QED
  BY <1>5, <1>6

(* Rows of a repository do not swap by themselves: of two agents that hold *)
(* their status only one that changed state gives way to the other         *)
(* (Timings::observe, and the order of build).                             *)
THEOREM QuietOrderKept == SidebarSpec => QuietAgentsKeepOrder
<1> DEFINE Quiet ==
      \A p, q \in DOMAIN groups \cap DOMAIN groups' :
          /\ RepoOf[p] = RepoOf[q]
          /\ \A r \in {p, q} : groups'[r].status = groups[r].status
          /\ AgentKey(groups, p) < AgentKey(groups, q)
          /\ AgentKey(groups', q) < AgentKey(groups', p)
          => \A moved \in SUBSET DOMAIN snapshot :
                since' = Observe(since, snapshot', moved) => p \in moved
<1>1. ViewInv /\ ViewInv' => Quiet
  <2> SUFFICES ASSUME ViewInv, ViewInv',
                      NEW p \in DOMAIN groups \cap DOMAIN groups',
                      NEW q \in DOMAIN groups \cap DOMAIN groups',
                      \A r \in {p, q} : groups'[r].status = groups[r].status,
                      AgentKey(groups, p) < AgentKey(groups, q),
                      AgentKey(groups', q) < AgentKey(groups', p),
                      NEW moved \in SUBSET DOMAIN snapshot,
                      since' = Observe(since, snapshot', moved),
                      p \notin moved
               PROVE  FALSE
    OBVIOUS
  <2>1. Listed(groups)
    BY GroupsAreListed
  <2>2. /\ snapshot' \in Snapshots /\ DOMAIN since' = DOMAIN snapshot'
        /\ Range(since') \subseteq Stamp /\ groups' = Build(snapshot', since', active_only')
    BY DEF ViewInv, TypeOK, ViewIsCurrent
  <2>3. Listed(groups')
    <3> DEFINE snap == snapshot'
               stamps == since'
               active == active_only'
    <3>1. Listed(Build(snap, stamps, active))
      <4>1. snap \in Snapshots /\ DOMAIN stamps = DOMAIN snap /\ Range(stamps) \subseteq Stamp
        BY <2>2
      <4> HIDE DEF snap, stamps, active
      <4> QED
        BY <4>1, BuildType
    <3> QED
      BY <2>2, <3>1
  <2>4. /\ DOMAIN since = DOMAIN snapshot /\ Range(since) \subseteq Stamp
        /\ groups = Build(snapshot, since, active_only)
    BY DEF ViewInv, TypeOK, ViewIsCurrent
  <2>5. \A r \in {p, q} : /\ r \in DOMAIN since /\ groups[r].since = since[r]
                           /\ r \in DOMAIN snapshot' /\ groups'[r].since = since'[r]
    BY <2>2, <2>4 DEF Build
  <2> DEFINE new == snapshot'
  <2>6. /\ since[p] < since[q] => since'[p] < since'[q]
        /\ since[p] = since[q] /\ q \notin moved => since'[p] = since'[q]
        /\ q \in moved => since'[p] < since'[q]
    <3>1. /\ new \in Snapshots
          /\ p \in DOMAIN since \cap DOMAIN new /\ q \in DOMAIN since \cap DOMAIN new
      BY <2>2, <2>5
    <3>2. since' = Observe(since, new, moved)
      OBVIOUS
    <3> HIDE DEF new
    <3> QED
      BY <2>4, <3>1, <3>2, ObserveKeepsOrder
  <2>7. \A r \in {p, q} : /\ Urgency[groups[r].status] \in Nat
                           /\ Urgency[groups'[r].status] = Urgency[groups[r].status]
                           /\ LabelRank[r] \in Nat /\ since[r] \in Nat /\ since'[r] \in Nat
    BY <2>1, <2>3, <2>5, UrgencyType, BaseType DEF Listed, Stamp
  <2>8. AgentKey(groups, p) \in Nat /\ AgentKey(groups, q) \in Nat
    BY <2>1, AgentKeyType
  <2> DEFINE shown == groups'
  <2>9. AgentKey(shown, p) \in Nat /\ AgentKey(shown, q) \in Nat
    BY <2>3, AgentKeyType
  <2>10. Urgency[groups[p].status] = Urgency[groups[q].status]
    <3>1. ~(Urgency[groups[q].status] < Urgency[groups[p].status])
      BY <2>1, <2>8, KeyOrder
    <3>2. ~(Urgency[shown[p].status] < Urgency[shown[q].status])
      BY <2>3, <2>9, KeyOrder
    <3> QED
      BY <2>7, <3>1, <3>2
  <2>11. since[p] < since[q] \/ (since[p] = since[q] /\ LabelRank[p] < LabelRank[q])
    BY <2>1, <2>5, <2>10, KeyOrder
  <2>12. since'[q] < since'[p] \/ (since'[q] = since'[p] /\ LabelRank[q] < LabelRank[p])
    <3>1. \/ shown[q].since < shown[p].since
          \/ shown[q].since = shown[p].since /\ LabelRank[q] < LabelRank[p]
      BY <2>3, <2>7, <2>10, KeyOrder
    <3> QED
      BY <2>5, <3>1
  <2> QED
    BY <2>6, <2>7, <2>11, <2>12
<1> QED
  BY <1>1, ViewHolds, SidebarImplementsFleetView, PTL DEF Spec, QuietAgentsKeepOrder

-----------------------------------------------------------------------------
(* The lines of text above an agent. TextOf is a fold: a sum taken from    *)
(* one member of a set after the other, in whatever order CHOOSE has them. *)
(* Here: the fold exists, its order does not matter, and it grows with the *)
(* set.                                                                    *)

First(s) == CHOOSE x \in s : TRUE

SumOf(text, s, h) == IF s = {} THEN 0 ELSE (1 + text[First(s)]) + h[s \ {First(s)}]

IsFold(text, S, h) == h = [s \in SUBSET S |-> SumOf(text, s, h)]

LEMMA TextOfIsFold ==
    ASSUME NEW text, NEW S, \E h : IsFold(text, S, h)
    PROVE  \E h : IsFold(text, S, h) /\ TextOf(text, S) = h[S]
<1> DEFINE h == CHOOSE f : IsFold(text, S, f)
<1>1. IsFold(text, S, h)
  OBVIOUS
<1>2. TextOf(text, S) = h[S]
  BY DEF TextOf, MapThenSumSet, MapThenFoldSet, IsFold, SumOf, First
<1> QED
  BY <1>1, <1>2

(* It exists: for the sets of up to n members, if for those of fewer.      *)
Level(S, n) == {s \in SUBSET S : Cardinality(s) <= n}

LEMMA FoldExists ==
    ASSUME NEW text, NEW S, IsFiniteSet(S)
    PROVE  \E h : IsFold(text, S, h)
<1> DEFINE Upto(n) == \E h : h = [s \in Level(S, n) |-> SumOf(text, s, h)]
           bad     == {n \in Nat : ~Upto(n)}
<1>1. ASSUME NEW s \in SUBSET S
      PROVE  /\ IsFiniteSet(s) /\ Cardinality(s) \in Nat
             /\ Cardinality(s) <= Cardinality(S) /\ Cardinality(S) \in Nat
             /\ s # {} => /\ First(s) \in s
                          /\ Cardinality(s \ {First(s)}) = Cardinality(s) - 1
             /\ Cardinality(s) = 0 => s = {}
  <2>1. IsFiniteSet(s) /\ Cardinality(s) <= Cardinality(S)
    BY FS_Subset
  <2>2. s # {} => First(s) \in s
    BY DEF First
  <2> QED
    BY <2>1, <2>2, FS_CardinalityType, FS_RemoveElement, FS_EmptySet
<1>2. Upto(0)
  <2> DEFINE h == [s \in Level(S, 0) |-> 0]
  <2>1. ASSUME NEW s \in Level(S, 0) PROVE s = {}
    <3>1. s \in SUBSET S /\ Cardinality(s) <= 0
      BY DEF Level
    <3>2. Cardinality(s) \in Nat /\ IsFiniteSet(s)
      BY <1>1, <3>1
    <3>3. Cardinality(s) = 0
      BY <3>1, <3>2
    <3> QED
      BY <3>2, <3>3, FS_EmptySet
  <2>2. h = [s \in Level(S, 0) |-> SumOf(text, s, h)]
    BY <2>1 DEF SumOf
  <2> QED
    BY <2>2
<1>3. ASSUME NEW n \in Nat, Upto(n) PROVE Upto(n + 1)
  <2>1. PICK h : h = [s \in Level(S, n) |-> SumOf(text, s, h)]
    BY <1>3
  <2> DEFINE g == [s \in Level(S, n + 1) |-> SumOf(text, s, h)]
  <2>2. \A s \in Level(S, n) : s \in Level(S, n + 1) /\ g[s] = h[s]
    <3>1. ASSUME NEW s \in Level(S, n) PROVE s \in Level(S, n + 1)
      <4>1. s \in SUBSET S /\ Cardinality(s) <= n
        BY DEF Level
      <4>2. Cardinality(s) \in Nat
        BY <1>1, <4>1
      <4> QED
        BY <4>1, <4>2 DEF Level
    <3>2. \A s \in Level(S, n) : h[s] = SumOf(text, s, h)
      BY <2>1
    <3> QED
      BY <3>1, <3>2
  <2>3. \A s \in Level(S, n + 1) : s # {} => s \ {First(s)} \in Level(S, n)
    BY <1>1 DEF Level
  <2>4. \A s \in Level(S, n + 1) : SumOf(text, s, h) = SumOf(text, s, g)
    <3> HIDE DEF g
    <3> QED
      BY <2>2, <2>3 DEF SumOf
  <2>5. g = [s \in Level(S, n + 1) |-> SumOf(text, s, g)]
    <3> SUFFICES [s \in Level(S, n + 1) |-> SumOf(text, s, h)]
                    = [s \in Level(S, n + 1) |-> SumOf(text, s, g)]
      OBVIOUS
    <3> HIDE DEF g
    <3> QED
      BY <2>4
  <2> QED
    BY <2>5
<1>4. \A n \in Nat : Upto(n)
  <2> HIDE DEF Upto
  <2> SUFFICES ASSUME bad # {} PROVE FALSE
    OBVIOUS
  <2>1. PICK n \in bad : \A k \in bad : n <= k
    <3>1. bad \in SUBSET Nat
      OBVIOUS
    <3> HIDE DEF bad
    <3> QED
      BY <3>1, LeastMember
  <2>2. n # 0 /\ n \in Nat
    BY <1>2
  <2>3. n - 1 \in Nat /\ n - 1 \notin bad
    BY <2>1, <2>2
  <2>4. Upto((n - 1) + 1)
    BY <1>3, <2>3
  <2> QED
    BY <2>2, <2>4
<1>5. Level(S, Cardinality(S)) = SUBSET S
  BY <1>1 DEF Level
<1>6. Upto(Cardinality(S))
  BY <1>4, FS_CardinalityType
<1> QED
  BY <1>5, <1>6 DEF IsFold

(* Of two folds each agrees with the other where both are defined.         *)
LEMMA FoldsAgree ==
    ASSUME NEW text, NEW S, NEW R, NEW h, NEW g, IsFold(text, S, h), IsFold(text, R, g),
           NEW A, IsFiniteSet(A), A \subseteq S, A \subseteq R
    PROVE  h[A] = g[A]
<1> DEFINE bad == {Cardinality(B) : B \in {C \in SUBSET A : h[C] # g[C]}}
<1> SUFFICES ASSUME h[A] # g[A] PROVE FALSE
  OBVIOUS
<1>1. \A B \in SUBSET A : IsFiniteSet(B) /\ Cardinality(B) \in Nat
  BY FS_Subset, FS_CardinalityType
<1>2. bad \in SUBSET Nat /\ bad # {}
  BY <1>1
<1>3. \E x \in bad : \A y \in bad : x <= y
  <2> HIDE DEF bad
  <2> QED
    BY <1>2, LeastMember
<1>4. PICK B \in SUBSET A : /\ h[B] # g[B]
                            /\ \A C \in SUBSET A : h[C] # g[C] => Cardinality(B) <= Cardinality(C)
  BY <1>3
<1> DEFINE C == B \ {First(B)}
<1>5. h[B] = SumOf(text, B, h) /\ g[B] = SumOf(text, B, g)
  <2>1. B \in SUBSET S /\ B \in SUBSET R
    BY <1>4
  <2>2. h = [s \in SUBSET S |-> SumOf(text, s, h)] /\ g = [s \in SUBSET R |-> SumOf(text, s, g)]
    BY DEF IsFold
  <2>3. h[B] = SumOf(text, B, h)
    BY <2>1, <2>2
  <2>4. g[B] = SumOf(text, B, g)
    BY <2>1, <2>2
  <2> QED
    BY <2>3, <2>4
<1>6. B # {} /\ h[C] # g[C]
  BY <1>4, <1>5 DEF SumOf
<1>7. First(B) \in B
  BY <1>6 DEF First
<1>8. C \in SUBSET A /\ Cardinality(C) = Cardinality(B) - 1 /\ Cardinality(B) \in Nat
  BY <1>1, <1>4, <1>7, FS_RemoveElement
<1> HIDE DEF C
<1> QED
  BY <1>4, <1>6, <1>8

LEMMA TextOfStep ==
    ASSUME NEW text, NEW S, IsFiniteSet(S)
    PROVE  /\ S = {} => TextOf(text, S) = 0
           /\ S # {} => /\ First(S) \in S
                        /\ TextOf(text, S) = (1 + text[First(S)]) + TextOf(text, S \ {First(S)})
<1>1. PICK h : IsFold(text, S, h) /\ TextOf(text, S) = h[S]
  BY FoldExists, TextOfIsFold
<1>2. h[S] = SumOf(text, S, h)
  <2>1. h = [s \in SUBSET S |-> SumOf(text, s, h)] /\ S \in SUBSET S
    BY <1>1 DEF IsFold
  <2> QED
    BY <2>1
<1>3. CASE S = {}
  BY <1>1, <1>2, <1>3 DEF SumOf
<1>4. CASE S # {}
  <2> DEFINE R == S \ {First(S)}
  <2>1. First(S) \in S
    BY <1>4 DEF First
  <2>2. IsFiniteSet(R) /\ R \subseteq S /\ R \subseteq R
    BY FS_RemoveElement
  <2> HIDE DEF R
  <2>3. PICK g : IsFold(text, R, g) /\ TextOf(text, R) = g[R]
    BY <2>2, FoldExists, TextOfIsFold
  <2>4. h[R] = g[R]
    BY <1>1, <2>2, <2>3, FoldsAgree
  <2>5. h[S] = (1 + text[First(S)]) + h[R]
    BY <1>2, <1>4 DEF SumOf, R
  <2> QED
    BY <1>1, <1>4, <2>1, <2>3, <2>4, <2>5 DEF R
<1> QED
  BY <1>3, <1>4

(* Any member may be taken first.                                          *)
LEMMA TextOfMember ==
    ASSUME NEW S, IsFiniteSet(S), NEW text, \A p \in S : text[p] \in Nat
    PROVE  /\ TextOf(text, S) \in Nat
           /\ \A p \in S : TextOf(text, S) = (1 + text[p]) + TextOf(text, S \ {p})
<1> DEFINE Good(R) == /\ TextOf(text, R) \in Nat
                      /\ \A p \in R : TextOf(text, R) = (1 + text[p]) + TextOf(text, R \ {p})
           bad == {Cardinality(R) : R \in {C \in SUBSET S : ~Good(C)}}
<1> SUFFICES ASSUME ~Good(S) PROVE FALSE
  OBVIOUS
<1>1. \A R \in SUBSET S : IsFiniteSet(R) /\ Cardinality(R) \in Nat
  BY FS_Subset, FS_CardinalityType
<1>2. bad \in SUBSET Nat /\ bad # {}
  <2> HIDE DEF Good
  <2> QED
    BY <1>1
<1>3. \E x \in bad : \A y \in bad : x <= y
  <2> HIDE DEF bad
  <2> QED
    BY <1>2, LeastMember
<1>4. PICK R \in SUBSET S : ~Good(R) /\ \A C \in SUBSET S : ~Good(C) => Cardinality(R) <= Cardinality(C)
  <2> HIDE DEF Good
  <2> QED
    BY <1>3
<1>5. ASSUME NEW p \in R PROVE R \ {p} \in SUBSET S /\ Good(R \ {p})
  <2>1. Cardinality(R \ {p}) = Cardinality(R) - 1 /\ Cardinality(R) \in Nat /\ R \ {p} \in SUBSET S
    BY <1>1, <1>4, FS_RemoveElement
  <2> HIDE DEF Good
  <2> QED
    BY <1>4, <2>1
<1>6. R # {}
  <2> SUFFICES ASSUME R = {} PROVE Good(R)
    BY <1>4
  <2>1. TextOf(text, R) = 0
    BY <1>1, TextOfStep
  <2> QED
    BY <2>1
<1> DEFINE q == First(R)
<1>7. q \in R /\ TextOf(text, R) = (1 + text[q]) + TextOf(text, R \ {q})
  BY <1>1, <1>4, <1>6, TextOfStep
<1>8. \A p \in R : text[p] \in Nat
  BY <1>4
<1> HIDE DEF q
<1>9. TextOf(text, R) \in Nat
  BY <1>5, <1>7, <1>8
<1>10. ASSUME NEW p \in R, p # q
       PROVE  TextOf(text, R) = (1 + text[p]) + TextOf(text, R \ {p})
  <2>1. TextOf(text, R \ {q}) = (1 + text[p]) + TextOf(text, (R \ {q}) \ {p})
    BY <1>5, <1>7, <1>10
  <2>2. TextOf(text, R \ {p}) = (1 + text[q]) + TextOf(text, (R \ {p}) \ {q})
    BY <1>5, <1>7, <1>10
  <2>3. (R \ {q}) \ {p} = (R \ {p}) \ {q}
    OBVIOUS
  <2>4. TextOf(text, (R \ {p}) \ {q}) \in Nat
    <3>1. /\ IsFiniteSet((R \ {p}) \ {q})
      BY <1>1, <1>5, FS_RemoveElement
    <3>2. TextOf(text, R \ {p}) \in Nat /\ TextOf(text, R \ {q}) \in Nat
      BY <1>5, <1>7
    <3>3. (R \ {p}) \ {q} \in SUBSET S /\ Cardinality((R \ {p}) \ {q}) < Cardinality(R)
      <4>1. Cardinality(R \ {p}) = Cardinality(R) - 1 /\ Cardinality(R) \in Nat /\ IsFiniteSet(R \ {p})
        BY <1>1, FS_RemoveElement
      <4>2. Cardinality((R \ {p}) \ {q}) = Cardinality(R \ {p}) - 1
        BY <1>7, <1>10, <4>1, FS_RemoveElement
      <4> QED
        BY <4>1, <4>2
    <3>4. Good((R \ {p}) \ {q})
      <4> HIDE DEF Good
      <4> QED
        BY <1>1, <1>4, <3>3
    <3> QED
      BY <3>4
  <2>5. TextOf(text, (R \ {q}) \ {p}) = TextOf(text, (R \ {p}) \ {q})
    BY <2>3
  <2> DEFINE rest == TextOf(text, (R \ {p}) \ {q})
             a    == text[p]
             b    == text[q]
  <2>6. /\ TextOf(text, R) = (1 + b) + TextOf(text, R \ {q})
        /\ TextOf(text, R \ {q}) = (1 + a) + rest
        /\ TextOf(text, R \ {p}) = (1 + b) + rest
        /\ a \in Nat /\ b \in Nat /\ rest \in Nat
    BY <1>7, <1>8, <1>10, <2>1, <2>2, <2>4, <2>5
  <2> HIDE DEF rest, a, b
  <2>7. TextOf(text, R) = (1 + a) + TextOf(text, R \ {p})
    BY <2>6
  <2> QED
    BY <2>7 DEF a
<1> QED
  BY <1>4, <1>7, <1>9, <1>10

LEMMA TextOfGrows ==
    ASSUME NEW S, IsFiniteSet(S), NEW text, \A p \in S : text[p] \in Nat, NEW R \in SUBSET S
    PROVE  TextOf(text, R) <= TextOf(text, S)
<1> DEFINE bad == {Cardinality(A) :
                     A \in {C \in SUBSET S : R \subseteq C /\ TextOf(text, R) > TextOf(text, C)}}
<1>1. ASSUME NEW A \in SUBSET S
      PROVE  /\ IsFiniteSet(A) /\ Cardinality(A) \in Nat /\ TextOf(text, A) \in Nat
             /\ \A p \in A : /\ TextOf(text, A) = (1 + text[p]) + TextOf(text, A \ {p})
                             /\ Cardinality(A \ {p}) = Cardinality(A) - 1
  <2>1. IsFiniteSet(A) /\ Cardinality(A) \in Nat
    BY FS_Subset, FS_CardinalityType
  <2>2. \A p \in A : text[p] \in Nat
    OBVIOUS
  <2>3. /\ TextOf(text, A) \in Nat
        /\ \A p \in A : TextOf(text, A) = (1 + text[p]) + TextOf(text, A \ {p})
    BY <2>1, <2>2, TextOfMember
  <2> QED
    BY <2>1, <2>3, FS_RemoveElement
<1> SUFFICES ASSUME TextOf(text, R) > TextOf(text, S) PROVE FALSE
  BY <1>1
<1>2. bad \in SUBSET Nat /\ bad # {}
  <2>1. bad \in SUBSET Nat
    BY <1>1
  <2>2. Cardinality(S) \in bad
    OBVIOUS
  <2> QED
    BY <2>1, <2>2
<1>3. \E x \in bad : \A y \in bad : x <= y
  <2> HIDE DEF bad
  <2> QED
    BY <1>2, LeastMember
<1>4. PICK A \in SUBSET S : /\ R \subseteq A /\ TextOf(text, R) > TextOf(text, A)
                            /\ \A C \in SUBSET S : R \subseteq C /\ TextOf(text, R) > TextOf(text, C)
                                  => Cardinality(A) <= Cardinality(C)
  BY <1>3
<1>5. PICK p \in A : p \notin R
  BY <1>1, <1>4
<1>6. /\ A \ {p} \in SUBSET S /\ R \subseteq A \ {p} /\ text[p] \in Nat
      /\ TextOf(text, A) = (1 + text[p]) + TextOf(text, A \ {p})
      /\ Cardinality(A \ {p}) = Cardinality(A) - 1
  BY <1>1, <1>4, <1>5
<1>7. TextOf(text, A \ {p}) \in Nat /\ TextOf(text, R) \in Nat /\ Cardinality(A) \in Nat
  BY <1>1, <1>6
<1> QED
  BY <1>4, <1>6, <1>7

-----------------------------------------------------------------------------
(* The line of the selected agent. *)

LEMMA HeaderLinesGrow ==
    ASSUME NEW S, IsFiniteSet(S), NEW R \in SUBSET S
    PROVE  HeaderLines(R) \in Nat /\ HeaderLines(S) \in Nat /\ HeaderLines(R) <= HeaderLines(S)
<1> DEFINE repos(P) == {RepoOf[q] : q \in P \ Waiting}
<1>1. ASSUME NEW P \in SUBSET S
      PROVE  IsFiniteSet(repos(P)) /\ Cardinality(repos(P)) \in Nat
  <2>1. IsFiniteSet(P \ Waiting)
    BY FS_Subset
  <2> QED
    BY <2>1, ImageSize
<1>2. repos(R) \in SUBSET repos(S) /\ S \in SUBSET S
  OBVIOUS
<1>3. HeaderLines(R) = IF Waiting # {} THEN 1 + 2 * Cardinality(repos(R))
                       ELSE IF Cardinality(repos(R)) = 0 THEN 0 ELSE 2 * Cardinality(repos(R)) - 1
  BY DEF HeaderLines
<1>4. HeaderLines(S) = IF Waiting # {} THEN 1 + 2 * Cardinality(repos(S))
                       ELSE IF Cardinality(repos(S)) = 0 THEN 0 ELSE 2 * Cardinality(repos(S)) - 1
  BY DEF HeaderLines
<1> HIDE DEF repos
<1>5. Cardinality(repos(R)) <= Cardinality(repos(S))
  BY <1>1, <1>2, FS_Subset
<1>6. Cardinality(repos(R)) \in Nat /\ Cardinality(repos(S)) \in Nat
  BY <1>1, <1>2
<1> QED
  BY <1>3, <1>4, <1>5, <1>6

(* An agent's lines, its text included, end within the buffer.             *)
LEMMA LinesInBuffer ==
    ASSUME Listed(groups), NEW text \in Texts, NEW p \in DOMAIN groups
    PROVE  /\ Start(text, p) \in Nat /\ Total(text) \in Nat /\ text[p] \in Nat
           /\ Start(text, p) + 1 + text[p] <= Total(text)
<1> DEFINE above == {q \in DOMAIN groups : RowKey(groups, needs, q) < RowKey(groups, needs, p)}
           upTo  == above \cup {p}
<1>1. \A q \in DOMAIN groups : text[q] \in Nat
  BY SidebarAssumption DEF Texts
<1>2. p \notin above /\ upTo \in SUBSET (DOMAIN groups) /\ upTo \ {p} = above
  BY RowKeysDiffer
<1>3. IsFiniteSet(DOMAIN groups)
  BY Places
<1>4. Start(text, p) = TextOf(text, above) + HeaderLines(upTo)
  BY DEF Start
<1>5. Total(text) = TextOf(text, DOMAIN groups) + HeaderLines(DOMAIN groups)
  BY DEF Total
<1> DEFINE D == DOMAIN groups
<1>6. IsFiniteSet(D) /\ upTo \in SUBSET D /\ above \in SUBSET D /\ p \in upTo
      /\ \A q \in D : text[q] \in Nat
  BY <1>1, <1>2, <1>3
<1> HIDE DEF above, upTo, D
<1>7. IsFiniteSet(upTo) /\ \A q \in upTo : text[q] \in Nat
  BY <1>6, FS_Subset
<1>8. IsFiniteSet(above) /\ \A q \in above : text[q] \in Nat
  BY <1>6, FS_Subset
<1>9. TextOf(text, above) \in Nat
  BY <1>8, TextOfMember
<1>10. TextOf(text, upTo) \in Nat /\ TextOf(text, upTo) = (1 + text[p]) + TextOf(text, upTo \ {p})
  BY <1>6, <1>7, TextOfMember
<1>11. TextOf(text, D) \in Nat /\ TextOf(text, upTo) <= TextOf(text, D)
  BY <1>6, TextOfMember, TextOfGrows
<1>12. /\ HeaderLines(upTo) \in Nat /\ HeaderLines(D) \in Nat
       /\ HeaderLines(upTo) <= HeaderLines(D)
  BY <1>6, HeaderLinesGrow
<1>13. TextOf(text, upTo) = (1 + text[p]) + TextOf(text, above)
  BY <1>2, <1>10
<1>14. Total(text) = TextOf(text, D) + HeaderLines(D)
  BY <1>5 DEF D
<1> QED
  BY <1>1, <1>4, <1>9, <1>10, <1>11, <1>12, <1>13, <1>14

LEMMA LeastOfThree ==
    ASSUME NEW a \in Int, NEW b \in Int, NEW c \in Int
    PROVE  /\ Min({a, b, c}) \in {a, b, c}
           /\ Min({a, b, c}) <= a /\ Min({a, b, c}) <= b /\ Min({a, b, c}) <= c
<1>1. \E x \in {a, b, c} : \A y \in {a, b, c} : x =< y
  <2>1. CASE a <= b /\ a <= c
    BY <2>1
  <2>2. CASE b <= a /\ b <= c
    BY <2>2
  <2>3. CASE c <= a /\ c <= b
    BY <2>3
  <2> QED
    BY <2>1, <2>2, <2>3
<1> QED
  BY <1>1 DEF Min

(* The line a selection starts on is in view, if it starts and ends within *)
(* the buffer: this is all scroll_offset knows of the lines.               *)
LEMMA StartInView ==
    ASSUME NEW start \in Nat, NEW end \in Nat, NEW total \in Nat, NEW height \in Nat,
           start < end, end <= total, height > 0
    PROVE  start \in ScrollOffset(start, end, total, height)
                       ..(ScrollOffset(start, end, total, height) + height - 1)
<1>1. CASE total <= height
  <2>1. ScrollOffset(start, end, total, height) = 0
    BY <1>1 DEF ScrollOffset
  <2> QED
    BY <1>1, <2>1
<1>2. CASE total > height
  <2> DEFINE a == IF end > height THEN end - height ELSE 0
             c == total - height
             m == Min({a, start, c})
  <2>1. ScrollOffset(start, end, total, height) = m
    BY <1>2 DEF ScrollOffset
  <2>2. a \in Int /\ c \in Int
    OBVIOUS
  <2>3. m \in {a, start, c} /\ m <= a /\ m <= start /\ m <= c
    <3>1. start \in Int
      OBVIOUS
    <3> HIDE DEF a, c
    <3> QED
      BY <2>2, <3>1, LeastOfThree, Zenon
  <2> HIDE DEF m
  <2> QED
    BY <1>2, <2>1, <2>3
<1> QED
  BY <1>1, <1>2

(* In every terminal with a line for the sidebar the line of the selected  *)
(* agent is on screen, with however many agents, repositories and lines of *)
(* text above and below it (scroll_offset, layout).                        *)
THEOREM SelectionInView == SidebarSpec => []SelectedLineInView
<1>1. ViewInv => SelectedLineInView
  <2> SUFFICES ASSUME ViewInv, selected # None,
                      NEW text \in Texts, NEW rows \in TerminalRows, NEW overview \in BOOLEAN,
                      SidebarHeight(rows, overview) > 0
               PROVE  Start(text, selected) \in
                         Scroll(text, SidebarHeight(rows, overview))
                            ..(Scroll(text, SidebarHeight(rows, overview))
                                  + SidebarHeight(rows, overview) - 1)
    BY DEF SelectedLineInView
  <2> DEFINE height == SidebarHeight(rows, overview)
             start  == Start(text, selected)
             end    == start + 1 + text[selected]
             total  == Total(text)
  <2>1. height \in Nat
    <3>1. rows \in Nat /\ ShortRows \in Nat
      BY SidebarAssumption
    <3>2. HeaderHeight(rows, overview) \in Nat
      BY <3>1 DEF HeaderHeight
    <3> QED
      BY <3>1, <3>2 DEF SidebarHeight
  <2>2. selected \in DOMAIN groups
    BY DEF ViewInv, SelectionOnScreen
  <2>3. start \in Nat /\ total \in Nat /\ text[selected] \in Nat /\ end <= total
    BY <2>2, GroupsAreListed, LinesInBuffer
  <2>4. end \in Nat /\ start < end
    BY <2>3
  <2>5. Scroll(text, height) = ScrollOffset(start, end, total, height)
    BY DEF Scroll
  <2> HIDE DEF height, start, end, total
  <2>6. height > 0
    BY DEF height
  <2>7. start \in ScrollOffset(start, end, total, height)
                    ..(ScrollOffset(start, end, total, height) + height - 1)
    BY <2>1, <2>3, <2>4, <2>6, StartInView
  <2> QED
    BY <2>5, <2>7 DEF height, start
<1> QED
  BY <1>1, ViewHolds, SidebarImplementsFleetView, PTL
=============================================================================
