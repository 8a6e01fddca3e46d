----------------------------- MODULE RowsProofs -----------------------------
(***************************************************************************)
(* What the operators of module Rows return and preserve.                  *)
(***************************************************************************)
EXTENDS Rows, TLAPS, WellFoundedInduction

\* The ids of a store have a bound, so that the one after the greatest exists.
IsStore(d, Values) == IsTable(d, Values) /\ \E n \in Nat : DOMAIN d \subseteq 0..n

\* A non-empty set of naturals with a bound has a greatest element, which Max
\* chooses.
LEMMA MaxOfBounded ==
  ASSUME NEW S, S # {}, NEW n \in Nat, S \subseteq 0..n
  PROVE  Max(S) \in S /\ \A x \in S : x <= Max(S)
<1> DEFINE T == {b \in Nat : \A x \in S : x <= b}
           Less == OpToRel(<, Nat)
<1>1. T \subseteq Nat /\ T # {}
  <2>1. n \in T
    OBVIOUS
  <2> QED
    BY <2>1
<1>2. PICK b \in T : \A c \in T : <<c, b>> \notin Less
  <2> HIDE DEF T
  <2> QED
    BY <1>1, WFMin, NatLessThanWellFounded
<1>3. \A c \in Nat : c < b => <<c, b>> \in Less
  BY DEF OpToRel
<1>4. b \in S
  <2> SUFFICES ASSUME b \notin S PROVE FALSE
    OBVIOUS
  <2>1. \A x \in S : x \in Nat /\ x < b
    OBVIOUS
  <2>2. PICK x \in S : TRUE
    OBVIOUS
  <2>3. b - 1 \in T /\ b - 1 < b
    BY <2>1
  <2> HIDE DEF T
  <2> QED
    BY <1>1, <1>2, <1>3, <2>3
<1>5. \A x \in S : b >= x
  OBVIOUS
<1> HIDE DEF T
<1>6. Max(S) \in S /\ \A x \in S : Max(S) >= x
  BY <1>4, <1>5 DEF Max
<1> QED
  BY <1>6

\* Create gives an id that no row has, greater than all of them.
LEMMA NextIdIsFresh ==
  ASSUME NEW Values, NEW d, IsStore(d, Values)
  PROVE  NextId(d) \in Nat /\ \A i \in DOMAIN d : i < NextId(d)
<1>1. PICK n \in Nat : DOMAIN d \subseteq 0..n
  BY DEF IsStore
<1>2. CASE DOMAIN d = {}
  BY <1>2 DEF NextId
<1>3. CASE DOMAIN d # {}
  <2>1. Max(DOMAIN d) \in DOMAIN d /\ \A x \in DOMAIN d : x <= Max(DOMAIN d)
    BY <1>1, <1>3, MaxOfBounded
  <2>2. Max(DOMAIN d) \in Nat
    BY <1>1, <2>1
  <2>3. NextId(d) = Max(DOMAIN d) + 1
    BY <1>3 DEF NextId
  <2> QED
    BY <1>1, <2>1, <2>2, <2>3
<1> QED
  BY <1>2, <1>3

\* A new store is a store.
LEMMA EmptyIsStore ==
  ASSUME NEW Values PROVE IsStore(Empty, Values)
<1>1. DOMAIN Empty = {} /\ Empty \in [DOMAIN Empty -> Values]
  BY DEF Empty
<1>2. 0 \in Nat /\ DOMAIN Empty \subseteq 0..0
  BY <1>1
<1> QED
  BY <1>1, <1>2 DEF IsStore, IsTable

\* Create makes a store of a store.
LEMMA InsertedIsStore ==
  ASSUME NEW Values, NEW d, IsStore(d, Values), NEW v \in Values
  PROVE  IsStore(Inserted(d, v), Values)
<1>1. NextId(d) \in Nat /\ \A i \in DOMAIN d : i < NextId(d)
  BY NextIdIsFresh
<1>2. DOMAIN d \subseteq 0..NextId(d)
  BY <1>1 DEF IsStore, IsTable
<1>3. DOMAIN Inserted(d, v) = DOMAIN d \cup {NextId(d)}
  BY DEF Inserted
<1>4. Inserted(d, v) \in [DOMAIN Inserted(d, v) -> Values]
  BY <1>3 DEF Inserted, IsStore, IsTable
<1>5. DOMAIN Inserted(d, v) \subseteq 0..NextId(d)
  BY <1>1, <1>2, <1>3
<1> QED
  BY <1>1, <1>4, <1>5 DEF IsStore, IsTable

\* Update makes a store of a store.
LEMMA ReplacedIsStore ==
  ASSUME NEW Values, NEW d, IsStore(d, Values), NEW i, NEW v \in Values
  PROVE  IsStore(Replaced(d, i, v), Values)
BY DEF IsStore, IsTable, Replaced

\* Delete, Clear and RemoveExpired make a store of a store.
LEMMA WithoutIsStore ==
  ASSUME NEW Values, NEW d, IsStore(d, Values), NEW ids
  PROVE  IsStore(Without(d, ids), Values)
BY DEF IsStore, IsTable, Without, Restrict

\* A non-empty set of ids has a least one, which Min chooses.
LEMMA MinOfIds ==
  ASSUME NEW S, S \subseteq Nat, S # {}
  PROVE  Min(S) \in S /\ \A x \in S : Min(S) <= x
<1> DEFINE Less == OpToRel(<, Nat)
<1>1. PICK x \in S : \A y \in S : <<y, x>> \notin Less
  BY WFMin, NatLessThanWellFounded
<1>2. \A y \in Nat : y < x => <<y, x>> \in Less
  BY DEF OpToRel
<1> HIDE DEF Less
<1>3. \A y \in S : ~(y < x)
  BY <1>1, <1>2
<1>4. \A y \in S : y \in Nat /\ x \in Nat
  OBVIOUS
<1>5. \A y \in S : x <= y
  BY <1>3, <1>4
<1> QED
  BY <1>5 DEF Min
=============================================================================
