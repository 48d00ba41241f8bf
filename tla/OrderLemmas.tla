---------------------------- MODULE OrderLemmas -----------------------------
(***************************************************************************)
(* What filtering and sorting make of a list, and the least of a set of    *)
(* numbers: lemmas that several proofs need.                               *)
(***************************************************************************)
EXTENDS Arrangement, FiniteSetsExt, FunctionTheorems, FiniteSetTheorems, WellFoundedInduction,
        TLAPS

(* A set of numbers that is not empty has a least member, which Min chooses. *)
LEMMA LeastIsOne ==
  ASSUME NEW S \in SUBSET Nat, S # {}
  PROVE  Min(S) \in S /\ \A y \in S : Min(S) <= y
<1>1. PICK x \in S : \A y \in S : ~(<<y, x>> \in OpToRel(<, Nat))
  BY NatLessThanWellFounded, WFMin
<1>2. \A y \in S : ~(y < x)
  BY <1>1, Zenon DEF OpToRel
<1>3. \A y \in S : x =< y
  BY <1>2
<1> QED
  BY <1>3 DEF Min

-----------------------------------------------------------------------------
(* A strict total order of the members of I.                                 *)
StrictOrder(I, B) ==
  /\ \A i \in I : <<i, i>> \notin B
  /\ \A i, j \in I : i # j => <<i, j>> \in B \/ <<j, i>> \in B
  /\ \A i, j, k \in I : <<i, j>> \in B /\ <<j, k>> \in B => <<i, k>> \in B

Before(I, B, i) == {j \in I : <<j, i>> \in B}

(* Counting those before each gives everyone a place of his own, in order.   *)
LEMMA PlacesInOrder ==
  ASSUME NEW I, IsFiniteSet(I), NEW B, StrictOrder(I, B)
  PROVE  LET place == [i \in I |-> Cardinality(Before(I, B, i)) + 1] IN
         /\ place \in Surjection(I, 1..Cardinality(I))
         /\ \A i, j \in I : <<i, j>> \in B => place[i] < place[j]
         /\ \A i, j \in I : place[i] = place[j] => i = j
<1>1. PICK n \in Nat : n = Cardinality(I)
  BY FS_CardinalityType
<1>n. IsFiniteSet(1..n) /\ Cardinality(1..n) = n
  BY FS_Interval
<1>2. \A i \in I : IsFiniteSet(Before(I, B, i)) /\ Cardinality(Before(I, B, i)) \in Nat
  <2>1. \A i \in I : Before(I, B, i) \subseteq I
    BY DEF Before
  <2> QED
    BY <2>1, FS_Subset, FS_CardinalityType
<1>3. \A i \in I : Cardinality(Before(I, B, i)) < n
  <2> SUFFICES ASSUME NEW i \in I PROVE Cardinality(Before(I, B, i)) < n
    OBVIOUS
  <2>1. Before(I, B, i) \subseteq I /\ Before(I, B, i) # I
    BY DEF Before, StrictOrder
  <2> QED
    BY <1>1, <1>2, <2>1, FS_Subset
<1>4. ASSUME NEW i \in I, NEW j \in I, <<i, j>> \in B
      PROVE  Cardinality(Before(I, B, i)) < Cardinality(Before(I, B, j))
  <2>1. Before(I, B, i) \subseteq Before(I, B, j)
    BY <1>4 DEF Before, StrictOrder
  <2>2. i \in Before(I, B, j) /\ i \notin Before(I, B, i)
    BY <1>4 DEF Before, StrictOrder
  <2> QED
    BY <1>2, <2>1, <2>2, FS_Subset
<1>5. PICK place : place = [i \in I |-> Cardinality(Before(I, B, i)) + 1]
  OBVIOUS
<1>6. place \in [I -> 1..n]
  <2>1. \A i \in I : Cardinality(Before(I, B, i)) + 1 \in 1..n
    BY <1>2, <1>3
  <2> QED
    BY <1>5, <2>1
<1>7. \A i, j \in I : <<i, j>> \in B => place[i] < place[j]
  BY <1>2, <1>4, <1>5
<1>8. \A i, j \in I : place[i] = place[j] => i = j
  <2> SUFFICES ASSUME NEW i \in I, NEW j \in I, place[i] = place[j], i # j PROVE FALSE
    OBVIOUS
  <2>1. place[i] < place[j] \/ place[j] < place[i]
    BY <1>7 DEF StrictOrder
  <2> QED
    BY <1>6, <2>1
<1>9. place \in Surjection(I, 1..n)
  <2>1. place \in Injection(I, 1..n)
    BY <1>6, <1>8, Fun_IsInj
  <2> QED
    BY <1>1, <1>n, <2>1, FS_Injection
<1> QED
  BY <1>1, <1>5, <1>7, <1>8, <1>9

(* at[m] is the index of the entry that Arranged puts at m.                  *)
Placed(list, I, B, at) ==
  /\ Cardinality(I) \in Nat
  /\ at \in [1 .. Cardinality(I) -> I]
  /\ \A i \in I : \E m \in 1 .. Cardinality(I) : at[m] = i
  /\ \A k, m \in 1 .. Cardinality(I) : k < m => <<at[k], at[m]>> \in B
  /\ Arranged(list, I, B) = [m \in 1 .. Cardinality(I) |-> list[at[m]]]

(* Arranging a list by a strict order orders its entries.                    *)
LEMMA ArrangedInOrder ==
  ASSUME NEW list, NEW I, IsFiniteSet(I), NEW B, StrictOrder(I, B)
  PROVE  \E at : Placed(list, I, B, at)
<1>1. PICK n \in Nat : n = Cardinality(I)
  BY FS_CardinalityType
<1>2. PICK place : place = [i \in I |-> Cardinality(Before(I, B, i)) + 1]
  OBVIOUS
<1>3. /\ place \in Surjection(I, 1..n)
      /\ \A i, j \in I : <<i, j>> \in B => place[i] < place[j]
      /\ \A i, j \in I : place[i] = place[j] => i = j
  BY <1>1, <1>2, PlacesInOrder
<1>4. PICK at : at = [m \in 1..n |-> CHOOSE i \in I : place[i] = m]
  OBVIOUS
<1>5. place \in [I -> 1..n] /\ \A m \in 1..n : \E i \in I : place[i] = m
  BY <1>3 DEF Surjection
<1>6. \A m \in 1..n : at[m] \in I /\ place[at[m]] = m
  BY <1>4, <1>5
<1>7. at \in [1..n -> I]
  BY <1>4, <1>6
<1>8. \A i \in I : \E m \in 1..n : at[m] = i
  <2> SUFFICES ASSUME NEW i \in I PROVE \E m \in 1..n : at[m] = i
    OBVIOUS
  <2>1. place[i] \in 1..n
    BY <1>5
  <2>2. at[place[i]] = i
    BY <1>3, <1>6, <2>1
  <2> QED
    BY <2>1, <2>2
<1>9. ASSUME NEW k \in 1..n, NEW m \in 1..n, k < m PROVE <<at[k], at[m]>> \in B
  <2>1. at[k] \in I /\ at[m] \in I /\ place[at[k]] = k /\ place[at[m]] = m
    BY <1>6
  <2>2. at[k] # at[m]
    BY <1>9, <2>1
  <2>3. <<at[k], at[m]>> \in B \/ <<at[m], at[k]>> \in B
    BY <2>1, <2>2 DEF StrictOrder
  <2>4. <<at[m], at[k]>> \in B => m < k
    BY <1>3, <2>1
  <2> QED
    BY <1>9, <2>3, <2>4
<1>10. Arranged(list, I, B) = [m \in 1..n |-> list[at[m]]]
  <2>1. Arranged(list, I, B) =
          [m \in 1..n |-> list[CHOOSE i \in I : Cardinality({j \in I : <<j, i>> \in B}) + 1 = m]]
    BY <1>1 DEF Arranged
  <2>2. \A i \in I : place[i] = Cardinality({j \in I : <<j, i>> \in B}) + 1
    BY <1>2 DEF Before
  <2>3. \A m \in 1..n : (CHOOSE i \in I : Cardinality({j \in I : <<j, i>> \in B}) + 1 = m) = at[m]
    <3> SUFFICES ASSUME NEW m \in 1..n
                 PROVE  (CHOOSE i \in I : Cardinality({j \in I : <<j, i>> \in B}) + 1 = m) = at[m]
      OBVIOUS
    <3>1. \A i \in I : place[i] = m <=> Cardinality({j \in I : <<j, i>> \in B}) + 1 = m
      BY <2>2
    <3>2. (CHOOSE i \in I : place[i] = m) =
            CHOOSE i \in I : Cardinality({j \in I : <<j, i>> \in B}) + 1 = m
      BY <3>1, Zenon
    <3>3. at[m] = CHOOSE i \in I : place[i] = m
      BY <1>4
    <3> QED
      BY <3>2, <3>3
  <2> QED
    BY <2>1, <2>3
<1> QED
  BY <1>1, <1>7, <1>8, <1>9, <1>10 DEF Placed

(* Filtering keeps the entries at the indices kept, in their order.          *)
LEMMA KeptInOrder ==
  ASSUME NEW list, NEW n \in Nat, NEW I \in SUBSET (1..n)
  PROVE  \E at : Placed(list, I, Earlier(I), at)
<1>1. IsFiniteSet(I)
  <2>1. IsFiniteSet(1..n)
    BY FS_Interval
  <2> QED
    BY <2>1, FS_Subset
<1>2. \A i, j \in I : <<i, j>> \in Earlier(I) <=> i < j
  BY DEF Earlier
<1>3. \A i \in I : i \in Nat
  OBVIOUS
<1>4. StrictOrder(I, Earlier(I))
  BY <1>2, <1>3 DEF StrictOrder
<1> QED
  BY <1>1, <1>4, ArrangedInOrder

(* Sorting by priority permutes a list of numbered priorities; a list of one *)
(* is sorted whatever its priority.                                          *)
LEMMA SortedByPriority ==
  ASSUME NEW list, NEW n \in Nat, DOMAIN list = 1..n,
         n > 1 => \A i \in 1..n : list[i].priority \in Int
  PROVE  /\ Cardinality(1..n) = n
         /\ \E at : Placed(list, 1..n, Preferred(list), at)
<1>1. IsFiniteSet(1..n) /\ Cardinality(1..n) = n
  BY FS_Interval
<1>2. \A i, j \in 1..n : <<i, j>> \in Preferred(list) <=>
        /\ i # j
        /\ \/ list[i].priority > list[j].priority
           \/ list[i].priority = list[j].priority /\ i < j
  BY DEF Preferred
<1>3. \A i, j \in 1..n : i # j => n > 1
  OBVIOUS
<1>4. \A i \in 1..n : <<i, i>> \notin Preferred(list)
  BY <1>2
<1>5. \A i, j \in 1..n : i # j => <<i, j>> \in Preferred(list) \/ <<j, i>> \in Preferred(list)
  BY <1>2, <1>3
<1>6. \A i, j, k \in 1..n :
        <<i, j>> \in Preferred(list) /\ <<j, k>> \in Preferred(list) => <<i, k>> \in Preferred(list)
  BY <1>2, <1>3
<1>7. StrictOrder(1..n, Preferred(list))
  BY <1>4, <1>5, <1>6 DEF StrictOrder
<1> QED
  BY <1>1, <1>7, ArrangedInOrder
=============================================================================
