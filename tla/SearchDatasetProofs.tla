-------------------------- MODULE SearchDatasetProofs --------------------------
(***************************************************************************)
(* Theorems about a search for any keys, timestamps, limits and numbers of *)
(* finds.                                                                  *)
(***************************************************************************)
EXTENDS SearchDataset, FiniteSetTheorems, TLAPS

LEMMA FirstOfFacts ==
  ASSUME NEW S, NEW s \in Seq(S), NEW n \in Int
  PROVE  /\ FirstOf(s, n) \in Seq(S)
         /\ n >= 0 => /\ Len(FirstOf(s, n)) = IF n < Len(s) THEN n ELSE Len(s)
                      /\ \A i \in DOMAIN FirstOf(s, n) :
                           i \in DOMAIN s /\ FirstOf(s, n)[i] = s[i]
  BY DEF FirstOf

------------------------------------------------------------------------------
(* What NewestFirst returns: a permutation of its argument, each value       *)
(* before those it is to come before.                                        *)

IsOrder(s, order) ==
  /\ order \in [DOMAIN s -> DOMAIN s]
  /\ \A i \in DOMAIN s : \E p \in DOMAIN s : order[p] = i
  /\ \A p, q \in DOMAIN s : p < q => Before(s, order[p], order[q])

LEMMA BeforeIsTotalOrder ==
  ASSUME NEW s, \A i \in DOMAIN s : s[i].updated_at \in Int,
         DOMAIN s \subseteq Int
  PROVE  /\ \A i \in DOMAIN s : ~Before(s, i, i)
         /\ \A i, j \in DOMAIN s : i # j => Before(s, i, j) \/ Before(s, j, i)
         /\ \A i, j, k \in DOMAIN s :
              Before(s, i, j) /\ Before(s, j, k) => Before(s, i, k)
  BY DEF Before

LEMMA RankFacts ==
  ASSUME NEW s, NEW n \in Nat, DOMAIN s = 1..n,
         \A i \in DOMAIN s : s[i].updated_at \in Int
  PROVE  /\ \A i \in 1..n : Rank(s, i) \in 0..(n - 1)
         /\ \A i, j \in 1..n : Before(s, i, j) => Rank(s, i) < Rank(s, j)
<1> DEFINE Earlier(i) == {j \in DOMAIN s : Before(s, j, i)}
<1>1. IsFiniteSet(1..n) /\ Cardinality(1..n) = n
  BY FS_Interval, 0 \in Int, 1 \in Int
<1>2. \A i \in 1..n : Earlier(i) \in SUBSET (1..n) /\ i \notin Earlier(i)
  BY BeforeIsTotalOrder
<1>3. ASSUME NEW i \in 1..n, NEW j \in 1..n, Before(s, i, j)
      PROVE  Earlier(i) \in SUBSET Earlier(j) /\ Earlier(i) # Earlier(j)
  <2>1. \A k \in 1..n : Before(s, k, i) => Before(s, k, j)
    <3>1. DOMAIN s \subseteq Int
      OBVIOUS
    <3>2. \A k \in DOMAIN s : Before(s, k, i) /\ Before(s, i, j) => Before(s, k, j)
      BY <3>1, BeforeIsTotalOrder
    <3> QED BY <3>2, <1>3
  <2>2. i \in Earlier(j)
    BY <1>3
  <2> QED BY <2>1, <2>2, <1>2
<1>4. \A i : Rank(s, i) = Cardinality(Earlier(i))
  BY DEF Rank
<1> HIDE DEF Earlier
<1>5. \A i \in 1..n : IsFiniteSet(Earlier(i)) /\ Cardinality(Earlier(i)) \in Nat
  BY <1>1, <1>2, FS_Subset, FS_CardinalityType
<1>6. ASSUME NEW i \in 1..n
      PROVE  Cardinality(Earlier(i)) < n
  <2>1. Earlier(i) # 1..n
    BY <1>2
  <2>2. Cardinality(Earlier(i)) <= n /\ Cardinality(Earlier(i)) # n
    BY <1>1, <1>2, <2>1, FS_Subset
  <2> QED BY <2>2, <1>5
<1>7. ASSUME NEW i \in 1..n, NEW j \in 1..n, Before(s, i, j)
      PROVE  Cardinality(Earlier(i)) < Cardinality(Earlier(j))
  <2>1. /\ Cardinality(Earlier(i)) <= Cardinality(Earlier(j))
        /\ Cardinality(Earlier(i)) # Cardinality(Earlier(j))
    BY <1>3, <1>5, <1>7, FS_Subset
  <2> QED BY <2>1, <1>5
<1> QED BY <1>4, <1>5, <1>6, <1>7

LEMMA SortFacts ==
  ASSUME NEW S, NEW s \in Seq(S), \A x \in S : x.updated_at \in Int
  PROVE  \E order : /\ IsOrder(s, order)
                    /\ NewestFirst(s) = [p \in DOMAIN s |-> s[order[p]]]
<1> DEFINE n == Len(s)
           rank == [i \in 1..n |-> Rank(s, i)]
           order == [p \in 1..n |-> CHOOSE i \in 1..n : Rank(s, i) = p - 1]
<1>1. n \in Nat /\ DOMAIN s = 1..n /\ \A i \in 1..n : s[i].updated_at \in Int
  OBVIOUS
<1> HIDE DEF n
<1>2. /\ \A i \in 1..n : Rank(s, i) \in 0..(n - 1)
      /\ \A i, j \in 1..n : Before(s, i, j) => Rank(s, i) < Rank(s, j)
  BY <1>1, RankFacts
<1>3. \A i, j \in 1..n : i # j => Before(s, i, j) \/ Before(s, j, i)
  BY <1>1, BeforeIsTotalOrder
<1>4. rank \in Injection(1..n, 0..(n - 1))
  <2>1. rank \in [1..n -> 0..(n - 1)]
    BY <1>2
  <2>2. \A i, j \in 1..n : Rank(s, i) = Rank(s, j) => i = j
    BY <1>1, <1>2, <1>3
  <2> QED BY <2>1, <2>2 DEF Injection, IsInjective
<1>5. rank \in Surjection(1..n, 0..(n - 1))
  <2>1. /\ IsFiniteSet(0..(n - 1))
        /\ Cardinality(1..n) = n /\ Cardinality(0..(n - 1)) = n
    <3>1. n - 1 \in Int /\ 0 \in Int /\ 1 \in Int /\ n \in Int
      BY <1>1
    <3>2. /\ Cardinality(1..n) = IF 1 > n THEN 0 ELSE n - 1 + 1
          /\ IsFiniteSet(0..(n - 1))
          /\ Cardinality(0..(n - 1)) = IF 0 > n - 1 THEN 0 ELSE n - 1 - 0 + 1
      BY <3>1, FS_Interval
    <3> QED BY <1>1, <3>2
  <2> HIDE DEF rank
  <2> QED BY <2>1, <1>4, FS_Injection
<1>6. ASSUME NEW p \in 1..n
      PROVE  \E i \in 1..n : Rank(s, i) = p - 1
  <2>1. p - 1 \in 0..(n - 1)
    BY <1>1
  <2>2. \E i \in 1..n : rank[i] = p - 1
    <3> HIDE DEF rank
    <3> QED BY <2>1, <1>5 DEF Surjection
  <2> QED BY <2>2
<1>7. \A p \in 1..n : order[p] \in 1..n /\ Rank(s, order[p]) = p - 1
  BY <1>6
<1> HIDE DEF order
<1>8. IsOrder(s, order)
  <2>1. order \in [1..n -> 1..n]
    BY <1>7 DEF order
  <2>2. ASSUME NEW i \in 1..n PROVE \E p \in 1..n : order[p] = i
    <3> DEFINE p == Rank(s, i) + 1
    <3>1. p \in 1..n /\ p - 1 = Rank(s, i)
      BY <1>1, <1>2
    <3>2. \A j \in 1..n : Rank(s, j) = Rank(s, i) => j = i
      BY <1>1, <1>2, <1>3
    <3> QED BY <3>1, <3>2, <1>7
  <2>3. ASSUME NEW p \in 1..n, NEW q \in 1..n, p < q
        PROVE  Before(s, order[p], order[q])
    <3>1. Rank(s, order[p]) < Rank(s, order[q])
      BY <1>7, <2>3
    <3>2. ~(Rank(s, order[q]) < Rank(s, order[p])) /\ order[p] # order[q]
      BY <3>1, <1>2, <1>7
    <3> QED BY <3>2, <1>2, <1>3, <1>7
  <2> QED BY <1>1, <2>1, <2>2, <2>3 DEF IsOrder
<1>9. NewestFirst(s) = [p \in DOMAIN s |-> s[order[p]]]
  BY <1>1 DEF NewestFirst, order
<1> QED BY <1>8, <1>9

------------------------------------------------------------------------------
(* Types.                                                                    *)

LEMMA ItemTypes ==
  /\ \A x \in AnyItem : x.key \in Keys /\ x.updated_at \in Nat /\ x.aware \in BOOLEAN
  /\ Items(Stamps, {TRUE}, "local") \subseteq AnyItem
  /\ Items({Epoch}, {TRUE}, "ansd") \subseteq AnyItem
  /\ CkanItems \subseteq AnyItem
<1>1. \A source \in {"local", "ansd", "ckan"} :
        Items(Stamps \cup {Epoch}, BOOLEAN, source) \subseteq AnyItem
  BY DEF AnyItem
<1>2. \A x \in AnyItem : x.key \in Keys /\ x.updated_at \in Nat /\ x.aware \in BOOLEAN
  <2> SUFFICES ASSUME NEW source \in {"local", "ansd", "ckan"},
                      NEW x \in Items(Stamps \cup {Epoch}, BOOLEAN, source)
               PROVE  x.key \in Keys /\ x.updated_at \in Nat /\ x.aware \in BOOLEAN
    BY DEF AnyItem
  <2>1. x \in [key : Keys, updated_at : Stamps \cup {Epoch}, aware : BOOLEAN, source : {source}]
    BY DEF Items
  <2>2. x.key \in Keys
    BY <2>1
  <2>3. x.updated_at \in Nat
    <3>1. x.updated_at \in Stamps \cup {Epoch}
      BY <2>1, Zenon
    <3>2. Stamps \cup {Epoch} \subseteq Nat
      BY SearchAssumption DEF Epoch
    <3> QED BY <3>1, <3>2, Zenon
  <2>4. x.aware \in BOOLEAN
    BY <2>1, Zenon
  <2> QED BY <2>2, <2>3, <2>4
<1>3. Items(Stamps, {TRUE}, "local") \subseteq Items(Stamps \cup {Epoch}, BOOLEAN, "local")
  BY DEF Items
<1>4. Items({Epoch}, {TRUE}, "ansd") \subseteq Items(Stamps \cup {Epoch}, BOOLEAN, "ansd")
  BY DEF Items
<1>5. CkanItems \subseteq Items(Stamps \cup {Epoch}, BOOLEAN, "ckan")
  BY DEF Items, CkanItems
<1> QED BY <1>1, <1>2, <1>3, <1>4, <1>5

LEMMA FoundTypes ==
  ASSUME NEW items \in SUBSET AnyItem, NEW s \in Found(items)
  PROVE  /\ s \in Seq(AnyItem)
         /\ \A n \in Int : \A t \in UpTo(s, n) : t \in Seq(AnyItem)
<1>1. s \in Seq(AnyItem)
  <2>1. PICK m \in 0..MaxItems : s \in [1..m -> items]
    BY DEF Found, BoundedSeq, SeqOf
  <2>2. m \in Nat
    BY SearchAssumption
  <2> QED BY <2>1, <2>2
<1>2. \A n \in Int : FirstOf(s, n) \in Seq(AnyItem) /\ FirstOf(s, 1) \in Seq(AnyItem)
  BY <1>1, FirstOfFacts, 1 \in Int
<1>3. <<>> \in Seq(AnyItem)
  OBVIOUS
<1> QED BY <1>1, <1>2, <1>3 DEF UpTo

LEMMA SliceType ==
  ASSUME NEW S, NEW s \in Seq(S), NEW n \in Int
  PROVE  Slice(s, n) \in Seq(S)
<1>1. CASE n >= 0
  BY <1>1, FirstOfFacts DEF Slice
<1>2. CASE ~(n >= 0)
  BY <1>2 DEF Slice
<1> QED BY <1>1, <1>2

LEMMA NewestFirstType ==
  ASSUME NEW S, NEW s \in Seq(S), \A x \in S : x.updated_at \in Int
  PROVE  NewestFirst(s) \in Seq(S)
<1>1. PICK order : /\ IsOrder(s, order)
                   /\ NewestFirst(s) = [p \in DOMAIN s |-> s[order[p]]]
  BY SortFacts
<1>2. NewestFirst(s) \in [1..Len(s) -> S]
  BY <1>1 DEF IsOrder
<1> QED BY <1>2

LEMMA KeptType ==
  ASSUME TypeOK, NEW item \in AnyItem
  PROVE  Kept(item) \in Seq(AnyItem)
<1>1. CASE Places(item) = {}
  BY <1>1 DEF TypeOK, Kept
<1>2. CASE Places(item) # {}
  <2>1. Kept(item) \in [1..Len(dedup) -> AnyItem]
    BY <1>2 DEF TypeOK, Kept
  <2> QED BY <2>1 DEF TypeOK
<1> QED BY <1>1, <1>2

LEMMA ExtendType ==
  ASSUME TypeOK, NEW items \in Seq(AnyItem), NEW step \in {"ansd", "ckan", "merge"},
         Extend(items, step)
  PROVE  TypeOK'
BY DEF TypeOK, Extend

LEMMA TypeOKStep == TypeOK /\ [Next]_vars => TypeOK'
<1> SUFFICES ASSUME TypeOK, [Next]_vars PROVE TypeOK'
  OBVIOUS
<1>0. limit \in Int
  BY SearchAssumption DEF TypeOK
<1>1. CASE Local
  <2>1. PICK s \in Found(Items(Stamps, {TRUE}, "local")) :
          \E items \in UpTo(s, limit) : Extend(items, "ansd")
    BY <1>1 DEF Local
  <2> QED BY <2>1, <1>0, ItemTypes, FoundTypes, ExtendType
<1>2. CASE Ansd
  <2>1. PICK s \in Found(Items({Epoch}, {TRUE}, "ansd")) :
          \E items \in UpTo(s, limit) : Extend(items, "ckan")
    BY <1>2 DEF Ansd
  <2> QED BY <2>1, <1>0, ItemTypes, FoundTypes, ExtendType
<1>3. CASE Ckan
  <2>1. PICK items \in Found(CkanItems) : Extend(items, "merge")
    BY <1>3 DEF Ckan
  <2> QED BY <2>1, ItemTypes, FoundTypes, ExtendType
<1>4. CASE AnsdFails
  BY <1>4 DEF AnsdFails, IgnoreFailure, TypeOK
<1>5. CASE CkanFails
  BY <1>5 DEF CkanFails, IgnoreFailure, TypeOK
<1>6. CASE Take
  <2>1. Item \in AnyItem /\ taken + 1 \in 0..Len(results)
    BY <1>6 DEF Take, Taking, Item, TypeOK
  <2>2. Kept(Item) \in Seq(AnyItem)
    BY <2>1, KeptType
  <2> QED BY <1>6, <2>1, <2>2 DEF Take, TypeOK
<1>7. CASE Sort
  <2>1. Slice(NewestFirst(dedup), limit) \in Seq(AnyItem)
    <3>1. dedup \in Seq(AnyItem) /\ \A x \in AnyItem : x.updated_at \in Int
      BY ItemTypes DEF TypeOK
    <3> QED BY <3>1, <1>0, NewestFirstType, SliceType
  <2> QED BY <1>7, <2>1 DEF Sort, TypeOK
<1>8. CASE TakeRaises \/ SortRaises \/ LocalFails
  BY <1>8 DEF TakeRaises, SortRaises, LocalFails, Raise, TypeOK
<1>9. CASE UNCHANGED vars
  BY <1>9 DEF vars, TypeOK
<1> QED BY <1>1, <1>2, <1>3, <1>4, <1>5, <1>6, <1>7, <1>8, <1>9 DEF Next

(* Whatever the sources find and whichever of them fails, the variables of a *)
(* search keep their types (search_dataset_uc.py:24-67).                     *)
THEOREM TypeCorrect == Spec => []TypeOK
<1>1. Init => TypeOK
  BY DEF Init, TypeOK
<1> QED BY <1>1, TypeOKStep, PTL DEF Spec

------------------------------------------------------------------------------
(* What the loop has made of the first n items of s: the dict d.             *)

\* Of these items, i is the freshest with that key, and of such the first.
StandsFor(s, n, i, key) ==
  /\ s[i].key = key
  /\ \A j \in 1..n : s[j].key = key =>
       \/ s[i].updated_at > s[j].updated_at
       \/ s[i].updated_at = s[j].updated_at /\ i <= j

IsFirst(s, f, key) ==
  /\ s[f].key = key
  /\ \A j \in 1..(f - 1) : s[j].key # key

HoldsTheFreshest(s, n, d) == \A k \in DOMAIN d :
  \E i \in 1..n : StandsFor(s, n, i, d[k].key) /\ d[k] = s[i]

KeepsTheOrder(s, n, d) ==
  /\ \A k \in DOMAIN d : \E f \in 1..n : IsFirst(s, f, d[k].key)
  /\ \A j, k \in DOMAIN d : j < k =>
       \A f, g \in 1..n : IsFirst(s, f, d[j].key) /\ IsFirst(s, g, d[k].key) => f < g

MissesNone(s, n, d) == \A i \in 1..n : \E k \in DOMAIN d : d[k].key = s[i].key

Deduplicates(s, n, d) ==
  HoldsTheFreshest(s, n, d) /\ KeepsTheOrder(s, n, d) /\ MissesNone(s, n, d)

\* An item whose key is in the dict: it takes a value's place, or is dropped.
LEMMA KnownTaken ==
  ASSUME NEW s \in Seq(AnyItem), NEW n \in Nat, n + 1 \in DOMAIN s,
         NEW d \in Seq(AnyItem), NEW e, NEW k0 \in DOMAIN d,
         Deduplicates(s, n, d), d[k0].key = s[n + 1].key,
         e = [k \in DOMAIN d |->
                IF d[k].key = s[n + 1].key /\ Later(s[n + 1], d[k])
                THEN s[n + 1] ELSE d[k]]
  PROVE  Deduplicates(s, n + 1, e)
<1> DEFINE new == n + 1
<1>1. new \in Nat /\ DOMAIN s = 1..Len(s) /\ Len(s) \in Nat /\ new <= Len(s)
  OBVIOUS
<1>2. /\ DOMAIN e = DOMAIN d /\ \A k \in DOMAIN d : e[k].key = d[k].key
      /\ \A k \in DOMAIN d : d[k].key = s[new].key /\ Later(s[new], d[k]) => e[k] = s[new]
      /\ \A k \in DOMAIN d : ~(d[k].key = s[new].key /\ Later(s[new], d[k])) => e[k] = d[k]
  OBVIOUS
<1>3. \A i \in DOMAIN s : s[i].updated_at \in Nat
  BY ItemTypes
<1>4. \A i \in 1..new : i = new \/ i \in 1..n
  OBVIOUS
<1>5. 1..n \subseteq 1..new /\ 1..new \subseteq DOMAIN s /\ new \in 1..new
  BY <1>1
<1>6. n < new /\ new - 1 = n
  OBVIOUS
<1> HIDE DEF new
<1>7. HoldsTheFreshest(s, new, e)
  <2> SUFFICES ASSUME NEW k \in DOMAIN d
               PROVE  \E i \in 1..new : StandsFor(s, new, i, d[k].key) /\ e[k] = s[i]
    BY <1>2 DEF HoldsTheFreshest
  <2>1. PICK i \in 1..n : StandsFor(s, n, i, d[k].key) /\ d[k] = s[i]
    BY DEF Deduplicates, HoldsTheFreshest
  <2>2. i \in 1..new /\ i \in DOMAIN s /\ new \in DOMAIN s
    BY <1>5
  <2>3. CASE d[k].key = s[new].key /\ Later(s[new], d[k])
    <3>1. StandsFor(s, new, new, d[k].key)
      <4> SUFFICES ASSUME NEW j \in 1..new, s[j].key = d[k].key
                   PROVE  \/ s[new].updated_at > s[j].updated_at
                          \/ s[new].updated_at = s[j].updated_at /\ new <= j
        BY <2>3 DEF StandsFor
      <4>1. s[new].updated_at > s[i].updated_at
        BY <2>1, <2>3 DEF Later
      <4>2. /\ s[i].updated_at \in Nat /\ s[j].updated_at \in Nat
            /\ s[new].updated_at \in Nat
        BY <2>2, <1>3, <1>5
      <4>3. CASE j = new
        BY <4>3, <4>2, <1>1
      <4>4. CASE j \in 1..n
        <5>1. s[i].updated_at > s[j].updated_at \/ s[i].updated_at = s[j].updated_at
          BY <4>4, <2>1 DEF StandsFor
        <5>2. \A x, y, z \in Nat : x > y /\ (y > z \/ y = z) => x > z
          OBVIOUS
        <5>3. s[new].updated_at > s[j].updated_at
          BY <5>1, <5>2, <4>1, <4>2
        <5> QED BY <5>3
      <4> QED BY <4>3, <4>4, <1>4
    <3> QED BY <3>1, <2>3, <1>2, <1>5
  <2>4. CASE ~(d[k].key = s[new].key /\ Later(s[new], d[k]))
    <3>1. StandsFor(s, new, i, d[k].key)
      <4> SUFFICES ASSUME NEW j \in 1..new, s[j].key = d[k].key
                   PROVE  \/ s[i].updated_at > s[j].updated_at
                          \/ s[i].updated_at = s[j].updated_at /\ i <= j
        BY <2>1 DEF StandsFor
      <4>1. \A l \in {i, j, new} : s[l].updated_at \in Nat
        BY <2>2, <1>3, <1>5
      <4>2. CASE j = new
        <5>1. ~(s[j].updated_at > s[i].updated_at)
          BY <4>2, <2>1, <2>4 DEF Later
        <5>2. i <= j
          BY <4>2, <1>1, <1>6
        <5> QED BY <5>1, <5>2, <4>1
      <4>3. CASE j \in 1..n
        BY <4>3, <2>1 DEF StandsFor
      <4> QED BY <4>2, <4>3, <1>4
    <3> QED BY <3>1, <2>1, <2>2, <2>4, <1>2
  <2> QED BY <2>3, <2>4
<1>8. KeepsTheOrder(s, new, e)
  <2>1. \A k \in DOMAIN d : ~IsFirst(s, new, d[k].key)
    <3>1. PICK f \in 1..n : IsFirst(s, f, d[k0].key)
      BY DEF Deduplicates, KeepsTheOrder
    <3>2. f \in 1..(new - 1) /\ s[f].key = s[new].key
      BY <3>1, <1>6 DEF IsFirst, new
    <3> QED BY <3>2 DEF IsFirst
  <2>2. \A f \in 1..new, k \in DOMAIN d : IsFirst(s, f, d[k].key) => f \in 1..n
    BY <1>4, <2>1
  <2>3. \A k \in DOMAIN d : \E f \in 1..new : IsFirst(s, f, d[k].key)
    BY <1>5 DEF Deduplicates, KeepsTheOrder
  <2>4. \A j, k \in DOMAIN d : j < k =>
          \A f, g \in 1..new : IsFirst(s, f, d[j].key) /\ IsFirst(s, g, d[k].key) => f < g
    BY <2>2 DEF Deduplicates, KeepsTheOrder
  <2> QED BY <1>2, <2>3, <2>4 DEF KeepsTheOrder
<1>9. MissesNone(s, new, e)
  BY <1>2, <1>4 DEF Deduplicates, MissesNone, new
<1> QED BY <1>7, <1>8, <1>9 DEF Deduplicates, new

\* An item whose key is new to the dict comes last.
LEMMA NewTaken ==
  ASSUME NEW s \in Seq(AnyItem), NEW n \in Nat, n + 1 \in DOMAIN s,
         NEW d \in Seq(AnyItem), NEW e,
         Deduplicates(s, n, d), \A k \in DOMAIN d : d[k].key # s[n + 1].key,
         e = Append(d, s[n + 1])
  PROVE  Deduplicates(s, n + 1, e)
<1> DEFINE new == n + 1
           last == Len(d) + 1
<1>1. new \in Nat /\ DOMAIN s = 1..Len(s) /\ Len(s) \in Nat /\ new <= Len(s)
  OBVIOUS
<1>2. /\ DOMAIN e = 1..last
      /\ \A k \in DOMAIN d : k \in DOMAIN e /\ e[k] = d[k] /\ k < last
      /\ last \in DOMAIN e /\ e[last] = s[new]
      /\ \A k \in DOMAIN e : k = last \/ k \in DOMAIN d
      /\ \A k \in DOMAIN e : k <= last
      /\ last \in Nat
  OBVIOUS
<1>3. \A i \in DOMAIN s : s[i].updated_at \in Nat
  BY ItemTypes
<1>4. \A i \in 1..new : i = new \/ i \in 1..n
  OBVIOUS
<1>5. 1..n \subseteq 1..new /\ 1..new \subseteq DOMAIN s /\ new \in 1..new
  BY <1>1
<1>6. \A i \in 1..n : i < new /\ i # new
  OBVIOUS
<1>7. \A k \in DOMAIN d : d[k].key # s[new].key
  OBVIOUS
<1>8. new - 1 = n
  OBVIOUS
<1> HIDE DEF new, last
<1>9. \A i \in 1..n : s[i].key # s[new].key
  BY <1>7 DEF Deduplicates, MissesNone
<1>10. HoldsTheFreshest(s, new, e)
  <2> SUFFICES ASSUME NEW k \in DOMAIN e
               PROVE  \E i \in 1..new : StandsFor(s, new, i, e[k].key) /\ e[k] = s[i]
    BY DEF HoldsTheFreshest
  <2>1. CASE k = last
    <3>1. StandsFor(s, new, new, s[new].key)
      <4>1. \A j \in 1..new : s[j].key = s[new].key => j = new
        BY <1>4, <1>9
      <4>2. s[new].updated_at \in Nat
        BY <1>3, <1>5
      <4> QED BY <4>1, <4>2, <1>1 DEF StandsFor
    <3> QED BY <3>1, <2>1, <1>2, <1>5
  <2>2. CASE k \in DOMAIN d
    <3>1. PICK i \in 1..n : StandsFor(s, n, i, d[k].key) /\ d[k] = s[i]
      BY <2>2 DEF Deduplicates, HoldsTheFreshest
    <3>2. StandsFor(s, new, i, d[k].key)
      BY <3>1, <2>2, <1>4, <1>7 DEF StandsFor
    <3> QED BY <3>1, <3>2, <2>2, <1>2, <1>5
  <2> QED BY <2>1, <2>2, <1>2
<1>11. KeepsTheOrder(s, new, e)
  <2>1. \A f \in 1..n : ~IsFirst(s, f, s[new].key)
    BY <1>9 DEF IsFirst
  <2>2. IsFirst(s, new, s[new].key)
    BY <1>8, <1>9 DEF IsFirst
  <2>3. \A k \in DOMAIN d : ~IsFirst(s, new, d[k].key)
    BY <1>7 DEF IsFirst
  <2>4. \A k \in DOMAIN e : \E f \in 1..new : IsFirst(s, f, e[k].key)
    <3> SUFFICES ASSUME NEW k \in DOMAIN e PROVE \E f \in 1..new : IsFirst(s, f, e[k].key)
      OBVIOUS
    <3>1. CASE k = last
      BY <3>1, <2>2, <1>2, <1>5
    <3>2. CASE k \in DOMAIN d
      BY <3>2, <1>2, <1>5 DEF Deduplicates, KeepsTheOrder
    <3> QED BY <3>1, <3>2, <1>2
  <2>5. ASSUME NEW j \in DOMAIN e, NEW k \in DOMAIN e, j < k,
               NEW f \in 1..new, NEW g \in 1..new,
               IsFirst(s, f, e[j].key), IsFirst(s, g, e[k].key)
        PROVE  f < g
    <3>1. j # last
      <4>1. j \in Nat /\ k \in Nat /\ k <= last
        BY <1>2
      <4> QED BY <4>1, <2>5, <1>2
    <3>2. j \in DOMAIN d /\ e[j] = d[j]
      BY <3>1, <1>2
    <3>3. f \in 1..n
      BY <3>2, <2>3, <2>5, <1>4
    <3>4. CASE k = last
      <4>1. g = new
        BY <3>4, <2>1, <2>5, <1>2, <1>4
      <4> QED BY <4>1, <3>3, <1>6
    <3>5. CASE k \in DOMAIN d
      <4>1. g \in 1..n /\ e[k] = d[k]
        BY <3>5, <2>3, <2>5, <1>2, <1>4
      <4> QED BY <4>1, <3>2, <3>3, <3>5, <2>5 DEF Deduplicates, KeepsTheOrder
    <3> QED BY <3>4, <3>5, <1>2
  <2> QED BY <2>4, <2>5 DEF KeepsTheOrder
<1>12. MissesNone(s, new, e)
  BY <1>2, <1>4 DEF Deduplicates, MissesNone
<1> QED BY <1>10, <1>11, <1>12 DEF Deduplicates, new

(* Items with the key of a value in the dict are of its kind.                *)
KindsAgree(s, n, d) == \A i \in 1..n : \A k \in DOMAIN d :
  s[i].key = d[k].key => Comparable(s[i], d[k])

LEMMA NothingTaken == \A s : Deduplicates(s, 0, <<>>) /\ KindsAgree(s, 0, <<>>)
BY DEF KindsAgree, Deduplicates, HoldsTheFreshest, KeepsTheOrder, MissesNone

LEMMA KindsAgreeKnown ==
  ASSUME NEW s \in Seq(AnyItem), NEW n \in Nat, NEW d \in Seq(AnyItem), NEW e,
         KindsAgree(s, n, d),
         \A k \in DOMAIN d : d[k].key = s[n + 1].key => Comparable(s[n + 1], d[k]),
         e = [k \in DOMAIN d |->
                IF d[k].key = s[n + 1].key /\ Later(s[n + 1], d[k])
                THEN s[n + 1] ELSE d[k]]
  PROVE  KindsAgree(s, n + 1, e)
<1>1. \A k \in DOMAIN d : e[k].key = d[k].key /\ e[k].aware = d[k].aware
  BY DEF Comparable
<1>2. DOMAIN e = DOMAIN d /\ \A i \in 1..(n + 1) : i = n + 1 \/ i \in 1..n
  OBVIOUS
<1> QED BY <1>1, <1>2 DEF KindsAgree, Comparable

LEMMA KindsAgreeNew ==
  ASSUME NEW s \in Seq(AnyItem), NEW n \in Nat, NEW d \in Seq(AnyItem), NEW e,
         KindsAgree(s, n, d), MissesNone(s, n, d),
         \A k \in DOMAIN d : d[k].key # s[n + 1].key,
         e = Append(d, s[n + 1])
  PROVE  KindsAgree(s, n + 1, e)
<1>1. \A k \in DOMAIN e : e[k] = s[n + 1] \/ (k \in DOMAIN d /\ e[k] = d[k])
  OBVIOUS
<1>2. \A i \in 1..(n + 1) : i = n + 1 \/ i \in 1..n
  OBVIOUS
<1>3. \A i \in 1..n : s[i].key # s[n + 1].key
  BY DEF MissesNone
<1> QED BY <1>1, <1>2, <1>3 DEF KindsAgree, Comparable

------------------------------------------------------------------------------
(* The inductive invariant.                                                  *)

Staged ==
  /\ pc \in {"local", "ansd", "ckan"} => taken = 0 /\ dedup = <<>>
  /\ pc # "done" => outcome = "none"

Deduplicated ==
  Deduplicates(results, taken, dedup) /\ KindsAgree(results, taken, dedup)

Answered == outcome = "answered" =>
  /\ taken = Len(results)
  /\ answer = Slice(NewestFirst(dedup), limit)
  /\ \A j, k \in DOMAIN dedup : Comparable(dedup[j], dedup[k])

RaisedOverMixed == outcome = "raised" => Mixed

SearchInv == Staged /\ Deduplicated /\ Answered /\ RaisedOverMixed

LEMMA Quiet ==
  ASSUME SearchInv, pc \in {"local", "ansd", "ckan"}, UNCHANGED <<taken, dedup, outcome>>,
         pc' \in {"ansd", "ckan", "merge"}
  PROVE  SearchInv'
<1>1. outcome' = "none" /\ taken' = 0 /\ dedup' = <<>>
  BY DEF SearchInv, Staged
<1>2. Staged' /\ Answered' /\ RaisedOverMixed'
  BY <1>1 DEF Staged, Answered, RaisedOverMixed, Mixed
<1>3. Deduplicated'
  BY <1>1, NothingTaken DEF Deduplicated
<1> QED BY <1>2, <1>3 DEF SearchInv

LEMMA TakeStep == TypeOK /\ SearchInv /\ Take => SearchInv'
<1> SUFFICES ASSUME TypeOK, SearchInv, Take PROVE SearchInv'
  OBVIOUS
<1>1. /\ pc = "merge" /\ pc' = pc /\ outcome' = outcome /\ outcome = "none"
      /\ results' = results /\ taken' = taken + 1 /\ dedup' = Kept(Item)
      /\ results \in Seq(AnyItem) /\ dedup \in Seq(AnyItem)
      /\ taken \in Nat /\ taken + 1 \in DOMAIN results
      /\ Item = results[taken + 1]
  BY DEF Take, Taking, TypeOK, SearchInv, Staged, Item
<1>2. Staged' /\ Answered' /\ RaisedOverMixed'
  BY <1>1 DEF Staged, Answered, RaisedOverMixed, Mixed
<1>3. Deduplicates(results, taken, dedup) /\ KindsAgree(results, taken, dedup)
  BY DEF SearchInv, Deduplicated
<1>4. /\ Deduplicates(results, taken + 1, Kept(Item))
      /\ KindsAgree(results, taken + 1, Kept(Item))
  <2>1. CASE Places(Item) = {}
    <3>1. \A k \in DOMAIN dedup : dedup[k].key # results[taken + 1].key
      BY <2>1, <1>1 DEF Places
    <3>2. Kept(Item) = Append(dedup, results[taken + 1])
      BY <2>1, <1>1 DEF Kept
    <3> QED BY <3>1, <3>2, <1>1, <1>3, NewTaken, KindsAgreeNew DEF Deduplicates
  <2>2. CASE Places(Item) # {}
    <3>1. PICK k0 \in DOMAIN dedup : dedup[k0].key = results[taken + 1].key
      BY <2>2, <1>1 DEF Places
    <3>2. Kept(Item) = [k \in DOMAIN dedup |->
            IF dedup[k].key = results[taken + 1].key /\ Later(results[taken + 1], dedup[k])
            THEN results[taken + 1] ELSE dedup[k]]
      BY <2>2, <1>1 DEF Kept, Places
    <3>3. \A k \in DOMAIN dedup : dedup[k].key = results[taken + 1].key =>
            Comparable(results[taken + 1], dedup[k])
      BY <1>1 DEF Take, Places
    <3> QED BY <3>1, <3>2, <3>3, <1>1, <1>3, KnownTaken, KindsAgreeKnown
  <2> QED BY <2>1, <2>2
<1>5. Deduplicated'
  BY <1>1, <1>4 DEF Deduplicated
<1> QED BY <1>2, <1>5 DEF SearchInv

LEMMA RaiseStep ==
  ASSUME TypeOK, SearchInv, Raise("raised"), Mixed
  PROVE  SearchInv'
BY DEF SearchInv, Raise, Staged, Deduplicated, Answered, RaisedOverMixed, Mixed

\* What is in the dict is one of the items taken.
LEMMA DictItems ==
  ASSUME TypeOK, SearchInv, NEW k \in DOMAIN dedup
  PROVE  \E i \in DOMAIN results : dedup[k] = results[i]
<1>1. \A i \in 1..taken : i \in DOMAIN results
  BY DEF TypeOK
<1> QED BY <1>1 DEF SearchInv, Deduplicated, Deduplicates, HoldsTheFreshest

LEMMA SearchInvStep == TypeOK /\ SearchInv /\ [Next]_vars => SearchInv'
<1> SUFFICES ASSUME TypeOK, SearchInv, [Next]_vars PROVE SearchInv'
  OBVIOUS
<1>1. CASE Local \/ Ansd \/ Ckan
  BY <1>1, Quiet DEF Local, Ansd, Ckan, Extend
<1>2. CASE AnsdFails \/ CkanFails
  BY <1>2, Quiet DEF AnsdFails, CkanFails, IgnoreFailure
<1>3. CASE Take
  BY <1>3, TakeStep
<1>4. CASE TakeRaises
  <2>1. PICK k \in DOMAIN dedup : ~Comparable(Item, dedup[k])
    BY <1>4 DEF TakeRaises, Places
  <2>2. taken + 1 \in DOMAIN results /\ Item = results[taken + 1] /\ Raise("raised")
    BY <1>4 DEF TakeRaises, Taking, Item, TypeOK
  <2> QED BY <2>1, <2>2, DictItems, RaiseStep DEF Mixed
<1>5. CASE Sort
  BY <1>5 DEF Sort, Sorting, SearchInv, Staged, Deduplicated, Answered, RaisedOverMixed, Mixed
<1>6. CASE SortRaises
  <2>1. Raise("raised") /\ \E j, k \in DOMAIN dedup : ~Comparable(dedup[j], dedup[k])
    BY <1>6 DEF SortRaises
  <2> QED BY <2>1, DictItems, RaiseStep DEF Mixed
<1>7. CASE UNCHANGED vars
  BY <1>7 DEF vars, SearchInv, Staged, Deduplicated, Answered, RaisedOverMixed, Mixed
<1>8. CASE LocalFails
  BY <1>8 DEF LocalFails, Raise, SearchInv, Staged, Deduplicated, Answered, RaisedOverMixed, Mixed
<1> QED BY <1>1, <1>2, <1>3, <1>4, <1>5, <1>6, <1>7, <1>8 DEF Next

(* At any point of the loop the dict holds, of each key met, the freshest    *)
(* item so far, ties going to the earlier one, in the order in which the     *)
(* keys were first met (search_dataset_uc.py:57-63).                         *)
THEOREM SearchInvariant == Spec => [](TypeOK /\ SearchInv)
<1>1. Init => TypeOK /\ SearchInv
  BY NothingTaken DEF Init, TypeOK, SearchInv, Staged, Deduplicated, Answered, RaisedOverMixed
<1> QED BY <1>1, TypeOKStep, SearchInvStep, PTL DEF Spec

(* Past the local catalog, a search raises over timestamps of both kinds,    *)
(* and over nothing else, whichever remote sources fail                      *)
(* (search_dataset_uc.py:44, :53, :62, :66).                                 *)
THEOREM FailuresAreAbsorbed == Spec => []FailuresAbsorbed
<1>1. TypeOK /\ SearchInv /\ outcome = "answered" => ~Mixed
  <2> SUFFICES ASSUME TypeOK, SearchInv, outcome = "answered",
                      NEW i \in DOMAIN results, NEW j \in DOMAIN results
               PROVE  Comparable(results[i], results[j])
    BY DEF Mixed
  <2>1. /\ i \in 1..taken /\ j \in 1..taken
        /\ MissesNone(results, taken, dedup) /\ KindsAgree(results, taken, dedup)
        /\ \A k, l \in DOMAIN dedup : Comparable(dedup[k], dedup[l])
    BY DEF TypeOK, SearchInv, Answered, Deduplicated, Deduplicates
  <2>2. PICK k \in DOMAIN dedup : dedup[k].key = results[i].key
    BY <2>1 DEF MissesNone
  <2>3. PICK l \in DOMAIN dedup : dedup[l].key = results[j].key
    BY <2>1 DEF MissesNone
  <2> QED BY <2>1, <2>2, <2>3 DEF KindsAgree, Comparable
<1>2. TypeOK /\ SearchInv => FailuresAbsorbed
  BY <1>1 DEF SearchInv, RaisedOverMixed, FailuresAbsorbed
<1> QED BY <1>2, SearchInvariant, PTL

------------------------------------------------------------------------------
(* The answer.                                                               *)

LEMMA FirstUnique ==
  ASSUME NEW s, NEW f \in Nat, NEW g \in Nat, f >= 1, g >= 1, NEW key,
         IsFirst(s, f, key), IsFirst(s, g, key)
  PROVE  f = g
<1>1. f < g => f \in 1..(g - 1)
  OBVIOUS
<1>2. g < f => g \in 1..(f - 1)
  OBVIOUS
<1>3. ~(f < g) /\ ~(g < f)
  BY <1>1, <1>2 DEF IsFirst
<1> QED BY <1>3

LEMMA FirstPlaceIs ==
  ASSUME TypeOK, NEW item, NEW f \in DOMAIN results, IsFirst(results, f, item.key)
  PROVE  FirstPlace(item) = f
<1>1. \A g \in DOMAIN results : g \in Nat /\ g >= 1
  BY DEF TypeOK
<1>2. \A g \in DOMAIN results : IsFirst(results, g, item.key) => g = f
  BY <1>1, FirstUnique
<1> QED BY <1>2 DEF FirstPlace, IsFirst

LEMMA ChosenIs ==
  ASSUME TypeOK, NEW item, NEW i \in DOMAIN results,
         StandsFor(results, Len(results), i, item.key)
  PROVE  Chosen(item) = results[i]
<1> DEFINE copies == {j \in DOMAIN results : results[j].key = item.key}
           freshest == {j \in copies :
             \A k \in copies : results[j].updated_at >= results[k].updated_at}
<1>1. /\ DOMAIN results = 1..Len(results) /\ Len(results) \in Nat
      /\ \A j \in DOMAIN results : results[j].updated_at \in Nat
  BY ItemTypes DEF TypeOK
<1>2. i \in freshest
  BY <1>1 DEF StandsFor
<1>3. \A j \in freshest : i <= j
  BY <1>1, <1>2 DEF StandsFor
<1>4. \A j \in freshest : j \in Nat
  BY <1>1
<1>5. i = CHOOSE j \in freshest : \A k \in freshest : j <= k
  <2> HIDE DEF freshest
  <2>1. \A j \in freshest : (\A k \in freshest : j <= k) => j = i
    BY <1>2, <1>3, <1>4
  <2> QED BY <1>2, <1>3, <2>1
<1> QED BY <1>5 DEF Chosen

\* What Sort answers is what AnswerIsTheFreshest asks for.
LEMMA SortedAnswer ==
  ASSUME TypeOK, SearchInv, outcome = "answered", limit >= 0
  PROVE  AnswerIsTheFreshest
<1> DEFINE last == Len(dedup)
           sorted == NewestFirst(dedup)
<1>1. /\ dedup \in Seq(AnyItem) /\ DOMAIN dedup = 1..last /\ last \in Nat
      /\ results \in Seq(AnyItem) /\ limit \in Int
      /\ DOMAIN results = 1..Len(results) /\ Len(results) \in Nat
      /\ \A x \in AnyItem : x.updated_at \in Nat
  BY ItemTypes, SearchAssumption DEF TypeOK
<1>2. PICK order : /\ IsOrder(dedup, order)
                   /\ sorted = [p \in DOMAIN dedup |-> dedup[order[p]]]
  <2>1. \A x \in AnyItem : x.updated_at \in Int
    BY <1>1
  <2> QED BY <2>1, <1>1, SortFacts
<1>3. /\ sorted \in Seq(AnyItem) /\ Len(sorted) = last
      /\ \A p \in 1..last : order[p] \in 1..last /\ sorted[p] = dedup[order[p]]
  <2>1. sorted \in [1..last -> AnyItem]
    BY <1>1, <1>2 DEF IsOrder
  <2>2. \A p \in 1..last : order[p] \in 1..last /\ sorted[p] = dedup[order[p]]
    BY <1>1, <1>2 DEF IsOrder
  <2> HIDE DEF sorted, last
  <2>3. sorted \in Seq(AnyItem) /\ Len(sorted) = last
    BY <2>1, <1>1
  <2> QED BY <2>2, <2>3
<1> HIDE DEF sorted, last
<1>4. answer = FirstOf(sorted, limit)
  BY DEF SearchInv, Answered, Slice, sorted
<1>5. /\ answer \in Seq(AnyItem)
      /\ Len(answer) = IF limit < last THEN limit ELSE last
      /\ \A i \in DOMAIN answer : i \in 1..last /\ answer[i] = dedup[order[i]]
      /\ DOMAIN answer = 1..Len(answer)
  <2>1. /\ answer \in Seq(AnyItem)
        /\ Len(answer) = IF limit < last THEN limit ELSE last
        /\ \A i \in DOMAIN answer : i \in DOMAIN sorted /\ answer[i] = sorted[i]
    BY <1>1, <1>3, <1>4, FirstOfFacts
  <2>2. DOMAIN sorted = 1..last
    BY <1>3
  <2>3. DOMAIN answer = 1..Len(answer)
    BY <2>1
  <2> QED BY <2>1, <2>2, <2>3, <1>3
<1>6. Deduplicates(results, Len(results), dedup)
  BY DEF SearchInv, Deduplicated, Answered
<1>7. Len(answer) <= limit
  BY <1>1, <1>5
<1>8. \A k \in 1..last : Chosen(dedup[k]) = dedup[k]
  BY <1>1, <1>6, ChosenIs DEF Deduplicates, HoldsTheFreshest
<1>9. \A i \in DOMAIN answer : answer[i] = Chosen(answer[i])
  BY <1>3, <1>5, <1>8
<1>10. \A k \in 1..last : \E f \in DOMAIN results :
         IsFirst(results, f, dedup[k].key) /\ FirstPlace(dedup[k]) = f
  BY <1>1, <1>6, FirstPlaceIs DEF Deduplicates, KeepsTheOrder
<1>11. \A j, k \in 1..last : j < k => FirstPlace(dedup[j]) < FirstPlace(dedup[k])
  <2> SUFFICES ASSUME NEW j \in 1..last, NEW k \in 1..last, j < k
               PROVE  FirstPlace(dedup[j]) < FirstPlace(dedup[k])
    OBVIOUS
  <2>1. PICK f \in DOMAIN results :
          IsFirst(results, f, dedup[j].key) /\ FirstPlace(dedup[j]) = f
    BY <1>10
  <2>2. PICK g \in DOMAIN results :
          IsFirst(results, g, dedup[k].key) /\ FirstPlace(dedup[k]) = g
    BY <1>10
  <2>3. f < g
    BY <2>1, <2>2, <1>1, <1>6 DEF Deduplicates, KeepsTheOrder
  <2> QED BY <2>1, <2>2, <2>3
<1>12. \A j, k \in 1..last : j # k => dedup[j].key # dedup[k].key
  <2> SUFFICES ASSUME NEW j \in 1..last, NEW k \in 1..last, j < k
               PROVE  dedup[j].key # dedup[k].key
    BY <1>1
  <2>1. PICK f \in DOMAIN results :
          IsFirst(results, f, dedup[j].key) /\ FirstPlace(dedup[j]) = f
    BY <1>10
  <2>2. PICK g \in DOMAIN results :
          IsFirst(results, g, dedup[k].key) /\ FirstPlace(dedup[k]) = g
    BY <1>10
  <2>3. f < g /\ f \in 1..(g - 1)
    BY <2>1, <2>2, <1>1, <1>11
  <2> QED BY <2>1, <2>2, <2>3 DEF IsFirst
<1>13. ASSUME NEW i \in DOMAIN answer, NEW j \in DOMAIN answer, i < j
       PROVE  /\ answer[i].key # answer[j].key
              /\ \/ answer[i].updated_at > answer[j].updated_at
                 \/ /\ answer[i].updated_at = answer[j].updated_at
                    /\ FirstPlace(answer[i]) < FirstPlace(answer[j])
  <2>1. Before(dedup, order[i], order[j])
    BY <1>1, <1>2, <1>5, <1>13 DEF IsOrder
  <2>2. order[i] # order[j]
    <3>1. \A k \in 1..last : dedup[k].updated_at \in Int
      BY <1>1
    <3>2. \A k \in 1..last : ~Before(dedup, k, k)
      BY <3>1, <1>1 DEF Before
    <3> QED BY <2>1, <3>2, <1>3, <1>5
  <2>3. answer[i].key # answer[j].key
    <3>1. /\ order[i] \in 1..last /\ answer[i] = dedup[order[i]]
          /\ order[j] \in 1..last /\ answer[j] = dedup[order[j]]
      BY <1>3, <1>5
    <3> QED BY <2>2, <3>1, <1>12
  <2>4. dedup[order[i]].updated_at = dedup[order[j]].updated_at /\ order[i] < order[j]
          => FirstPlace(answer[i]) < FirstPlace(answer[j])
    BY <1>3, <1>5, <1>11
  <2> QED BY <2>1, <2>3, <2>4, <1>5 DEF Before
<1>14. ASSUME NEW r \in ToSet(results)
       PROVE  \/ \E i \in DOMAIN answer : answer[i].key = r.key
              \/ /\ Len(answer) = limit
                 /\ \A i \in DOMAIN answer : answer[i].updated_at >= r.updated_at
  <2>1. PICK m \in DOMAIN results : r = results[m]
    BY DEF ToSet
  <2>2. PICK k \in 1..last : dedup[k].key = r.key
    BY <2>1, <1>1, <1>6 DEF Deduplicates, MissesNone
  <2>3. PICK p \in 1..last : order[p] = k
    BY <1>1, <1>2 DEF IsOrder
  <2>4. CASE p <= Len(answer)
    <3>1. p \in DOMAIN answer
      BY <2>4, <1>1, <1>5
    <3> QED BY <3>1, <2>2, <2>3, <1>5
  <2>5. CASE ~(p <= Len(answer))
    <3>1. Len(answer) = limit /\ \A i \in DOMAIN answer : i < p
      BY <2>5, <1>1, <1>5
    <3>2. dedup[k].updated_at >= r.updated_at
      <4>1. PICK i \in 1..Len(results) :
              StandsFor(results, Len(results), i, dedup[k].key) /\ dedup[k] = results[i]
        BY <1>1, <1>6 DEF Deduplicates, HoldsTheFreshest
      <4>2. results[i].updated_at \in Nat /\ results[m].updated_at \in Nat
        BY <4>1, <1>1
      <4> QED BY <4>1, <4>2, <2>1, <2>2, <1>1 DEF StandsFor
    <3>3. ASSUME NEW i \in DOMAIN answer PROVE answer[i].updated_at >= r.updated_at
      <4>1. Before(dedup, order[i], k)
        BY <3>1, <2>3, <1>1, <1>2, <1>5 DEF IsOrder
      <4>2. /\ dedup[order[i]].updated_at \in Nat /\ dedup[k].updated_at \in Nat
            /\ r.updated_at \in Nat
        BY <2>1, <1>1, <1>3, <1>5
      <4> QED BY <4>1, <4>2, <3>2, <1>5 DEF Before
    <3> QED BY <3>1, <3>3
  <2> QED BY <2>4, <2>5
<1> QED BY <1>7, <1>9, <1>13, <1>14 DEF AnswerIsTheFreshest

(* Whatever the sources find, in any number, a search returns each dataset   *)
(* once, by its freshest copy, freshest first, and cuts off only what is     *)
(* staler (search_dataset_uc.py:57-67).                                      *)
THEOREM AnswersTheFreshest == Spec => []AnswerIsTheFreshest
<1>1. TypeOK /\ SearchInv => AnswerIsTheFreshest
  <2>1. CASE outcome = "answered" /\ limit >= 0
    BY <2>1, SortedAnswer
  <2>2. CASE ~(outcome = "answered" /\ limit >= 0)
    BY <2>2 DEF AnswerIsTheFreshest
  <2> QED BY <2>1, <2>2
<1> QED BY <1>1, SearchInvariant, PTL
==============================================================================
