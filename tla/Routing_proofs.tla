----------------------------- MODULE Routing_proofs -----------------------------
(***************************************************************************)
(* Proofs about the router, on its own (Compiler) and run by the optimizer *)
(* (Optimizer), which loses none of the nets it has.  First what the       *)
(* operators on sets and sequences do that they are built from.            *)
(***************************************************************************)
EXTENDS Optimizer, FiniteSetTheorems, TLAPS

\* What is said of some natural number is true of a least one.
LEMMA LeastNatural ==
    ASSUME NEW S, S \subseteq Nat, S # {}
    PROVE  \E n \in S : \A m \in S : n <= m
<1> DEFINE less == OpToRel(<, Nat)
<1>1. \E n \in S : \A m \in S : <<m, n>> \notin less
  <2> HIDE DEF less
  <2>1. IsWellFoundedOn(less, Nat)
    BY NatLessThanWellFounded DEF less
  <2> QED
    BY <2>1, WFMin, Zenon
<1>2. \A m, n \in Nat : <<m, n>> \notin less => n <= m
  BY DEF OpToRel
<1> QED
  BY <1>1, <1>2

\* Counting up from 0.
LEMMA CountingUp ==
    ASSUME NEW k \in Nat, NEW S, 0 \in S, \A n \in 0..k : n \in S /\ n < k => n + 1 \in S
    PROVE  0..k \subseteq S
<1> SUFFICES ASSUME (0..k) \ S # {}
             PROVE  FALSE
    OBVIOUS
<1>1. PICK n \in (0..k) \ S : \A m \in (0..k) \ S : n <= m
  <2>1. (0..k) \ S \subseteq Nat
    OBVIOUS
  <2> QED
    BY <2>1, LeastNatural
<1>2. n - 1 \in 0..k /\ n - 1 < k /\ ~(n <= n - 1) /\ (n - 1) + 1 = n
  BY <1>1
<1> QED
  BY <1>1, <1>2

-----------------------------------------------------------------------------
(* Sets in an order.                                                       *)

\* R orders S: of two elements exactly one comes first.
Orders(R, S) ==
    /\ \A x, y \in S : x # y => <<x, y>> \in R \/ <<y, x>> \in R
    /\ \A x, y \in S : ~(<<x, y>> \in R /\ <<y, x>> \in R)
    /\ \A x, y, z \in S : <<x, y>> \in R /\ <<y, z>> \in R => <<x, z>> \in R

Earlier(R, S, x) == {y \in S \ {x} : <<y, x>> \in R}
Place1(R, S, x) == Cardinality(Earlier(R, S, x)) + 1

\* The places of a finite set in order are 1 to its size, each one once.
LEMMA PlacesAreNumbers ==
    ASSUME NEW S, IsFiniteSet(S), NEW R, Orders(R, S)
    PROVE  /\ Cardinality(S) \in Nat
           /\ \A x \in S : Place1(R, S, x) \in 1..Cardinality(S)
           /\ \A x, y \in S : Place1(R, S, x) = Place1(R, S, y) => x = y
           /\ \A i \in 1..Cardinality(S) : \E x \in S : Place1(R, S, x) = i
<1> DEFINE size == Cardinality(S)
           place == [x \in S |-> Place1(R, S, x)]
<1>1. size \in Nat
  BY FS_CardinalityType
<1>2. \A x \in S : IsFiniteSet(Earlier(R, S, x)) /\ Cardinality(Earlier(R, S, x)) \in 0..(size - 1)
  <2> TAKE x \in S
  <2>1. IsFiniteSet(S \ {x}) /\ Cardinality(S \ {x}) = size - 1
    BY FS_RemoveElement
  <2>2. Earlier(R, S, x) \in SUBSET (S \ {x})
    BY DEF Earlier
  <2>3. IsFiniteSet(Earlier(R, S, x)) /\ Cardinality(Earlier(R, S, x)) <= Cardinality(S \ {x})
    BY <2>1, <2>2, FS_Subset
  <2>4. Cardinality(Earlier(R, S, x)) \in Nat
    BY <2>3, FS_CardinalityType
  <2> QED
    BY <1>1, <2>1, <2>3, <2>4
<1>3. \A x, y \in S : <<x, y>> \in R => Place1(R, S, x) < Place1(R, S, y)
  <2> SUFFICES ASSUME NEW x \in S, NEW y \in S, <<x, y>> \in R
               PROVE  Place1(R, S, x) < Place1(R, S, y)
    OBVIOUS
  <2>1. Earlier(R, S, x) \in SUBSET Earlier(R, S, y) /\ x \in Earlier(R, S, y) /\ x \notin Earlier(R, S, x)
    BY DEF Earlier, Orders
  <2>2. Earlier(R, S, x) # Earlier(R, S, y)
    BY <2>1
  <2>3. Cardinality(Earlier(R, S, x)) <= Cardinality(Earlier(R, S, y))
        /\ Cardinality(Earlier(R, S, x)) # Cardinality(Earlier(R, S, y))
    BY <2>1, <2>2, <1>2, FS_Subset
  <2> QED
    BY <2>3, <1>2 DEF Place1
<1>4. \A x \in S : Place1(R, S, x) \in 1..size
  BY <1>1, <1>2 DEF Place1
<1>5. \A x, y \in S : Place1(R, S, x) = Place1(R, S, y) => x = y
  <2> SUFFICES ASSUME NEW x \in S, NEW y \in S, x # y
               PROVE  Place1(R, S, x) # Place1(R, S, y)
    OBVIOUS
  <2>1. <<x, y>> \in R \/ <<y, x>> \in R
    BY DEF Orders
  <2> QED
    BY <2>1, <1>3, <1>4
<1>6. \A i \in 1..size : \E x \in S : Place1(R, S, x) = i
  <2>1. place \in Injection(S, 1..size)
    <3>1. place \in [S -> 1..size] /\ \A x \in S : place[x] = Place1(R, S, x)
      BY <1>4
    <3> HIDE DEF place, size
    <3>2. \A x, y \in S : place[x] = place[y] => x = y
      BY <3>1, <1>5
    <3> QED
      BY <3>1, <3>2 DEF Injection, IsInjective
  <2>2. IsFiniteSet(1..size) /\ Cardinality(1..size) = size
    <3>1. 1 \in Int /\ size \in Int
      BY <1>1
    <3>2. IsFiniteSet(1..size) /\ Cardinality(1..size) = IF 1 > size THEN 0 ELSE size - 1 + 1
      BY <3>1, FS_Interval
    <3> HIDE DEF size
    <3> QED
      BY <3>2, <1>1
  <2> HIDE DEF place
  <2>3. place \in Surjection(S, 1..size)
    BY <2>1, <2>2, FS_Injection
  <2> QED
    BY <2>3 DEF Surjection, place
<1> QED
  BY <1>1, <1>4, <1>5, <1>6

\* A finite set that is not empty has a first element.
LEMMA SomethingIsFirst ==
    ASSUME NEW S, IsFiniteSet(S), S # {}, NEW R, Orders(R, S)
    PROVE  \E x \in S : \A y \in S \ {x} : <<x, y>> \in R
<1>1. Cardinality(S) \in Nat /\ Cardinality(S) # 0
  BY FS_CardinalityType, FS_EmptySet
<1>2. PICK x \in S : Place1(R, S, x) = 1
  BY <1>1, PlacesAreNumbers
<1>3. IsFiniteSet(Earlier(R, S, x))
  <2>1. Earlier(R, S, x) \in SUBSET S
    BY DEF Earlier
  <2> QED
    BY <2>1, FS_Subset
<1>4. Cardinality(Earlier(R, S, x)) = 0
  <2>1. Cardinality(Earlier(R, S, x)) \in Nat
    BY <1>3, FS_CardinalityType
  <2> QED
    BY <2>1, <1>2 DEF Place1
<1>5. Earlier(R, S, x) = {}
  BY <1>3, <1>4, FS_EmptySet
<1> QED
  BY <1>5 DEF Earlier, Orders

Distinct(s) == \A i, j \in DOMAIN s : s[i] = s[j] => i = j

\* s has every element of S once.
Enumerates(s, S) == s \in Seq(S) /\ On(s) = S /\ Distinct(s)

Placed(R, S) == {<<Cardinality({y \in S \ {x} : <<y, x>> \in R}) + 1, x>> : x \in S}
Listed(placed, size) == [i \in 1..size |-> (CHOOSE r \in placed : r[1] = i)[2]]

\* Sorting a finite set lists its elements.
LEMMA SortedEnumerates ==
    ASSUME NEW S, IsFiniteSet(S), NEW R, Orders(R, S)
    PROVE  Enumerates(Listed(Placed(R, S), Cardinality(S)), S)
<1> DEFINE placed == Placed(R, S)
           s == [i \in 1..Cardinality(S) |-> (CHOOSE r \in placed : r[1] = i)[2]]
<1>1. placed = {<<Place1(R, S, x), x>> : x \in S}
  BY DEF Place1, Earlier, Placed
<1> HIDE DEF placed
<1>2. Cardinality(S) \in Nat
  BY PlacesAreNumbers
<1>3. \A i \in DOMAIN s : s[i] \in S /\ Place1(R, S, s[i]) = i
  <2> SUFFICES ASSUME NEW i \in 1..Cardinality(S)
               PROVE  s[i] \in S /\ Place1(R, S, s[i]) = i
    OBVIOUS
  <2>1. PICK x \in S : Place1(R, S, x) = i
    BY PlacesAreNumbers
  <2>2. <<Place1(R, S, x), x>> \in placed /\ <<Place1(R, S, x), x>>[1] = i
    BY <2>1, <1>1
  <2>3. PICK r : r = (CHOOSE q \in placed : q[1] = i)
    OBVIOUS
  <2>4. r \in placed /\ r[1] = i
    BY <2>2, <2>3
  <2>5. s[i] = r[2]
    BY <2>3
  <2>6. PICK z \in S : r = <<Place1(R, S, z), z>>
    BY <1>1, <2>4
  <2> HIDE DEF s
  <2> QED
    BY <2>4, <2>5, <2>6
<1>4. DOMAIN s = 1..Cardinality(S)
  OBVIOUS
<1>5. s \in Seq(S)
  <2>1. s = [i \in 1..Cardinality(S) |-> s[i]]
    OBVIOUS
  <2> HIDE DEF s
  <2>2. s \in [1..Cardinality(S) -> S]
    BY <2>1, <1>3, <1>4
  <2> QED
    BY <2>2, <1>2
<1> HIDE DEF s
<1>6. \A x \in S : s[Place1(R, S, x)] = x /\ Place1(R, S, x) \in DOMAIN s
  BY <1>3, <1>4, PlacesAreNumbers
<1>7. On(s) = S
  BY <1>3, <1>6 DEF On
<1>8. Distinct(s)
  BY <1>3, <1>4 DEF Distinct
<1> QED
  BY <1>5, <1>7, <1>8 DEF Enumerates, Listed, s, placed

-----------------------------------------------------------------------------
(* Sequences.                                                              *)

LEMMA OnIsTheRange ==
    ASSUME NEW S, NEW s \in Seq(S)
    PROVE  /\ Len(s) \in Nat /\ DOMAIN s = 1..Len(s) /\ On(s) \subseteq S
           /\ \A i \in 1..Len(s) : s[i] \in On(s)
           /\ \A x \in On(s) : \E i \in 1..Len(s) : s[i] = x
BY DEF On

\* A sequence without repetitions is as long as it has elements.
LEMMA DistinctLength ==
    ASSUME NEW S, NEW s \in Seq(S), Distinct(s)
    PROVE  IsFiniteSet(On(s)) /\ Cardinality(On(s)) = Len(s)
<1>1. Len(s) \in Nat /\ DOMAIN s = 1..Len(s) /\ s = [i \in 1..Len(s) |-> s[i]]
  OBVIOUS
<1> DEFINE indices == 1..Len(s)
           T == On(s)
<1>2. IsFiniteSet(indices) /\ Cardinality(indices) = Len(s)
  <2>1. 1 \in Int /\ Len(s) \in Int
    BY <1>1
  <2>2. IsFiniteSet(indices) /\ Cardinality(indices) = IF 1 > Len(s) THEN 0 ELSE Len(s) - 1 + 1
    BY <2>1, FS_Interval
  <2> HIDE DEF indices
  <2> QED
    BY <2>2, <1>1
<1>3. s \in [indices -> T]
  BY <1>1 DEF On
<1>4. \A i, j \in indices : s[i] = s[j] => i = j
  BY <1>1 DEF Distinct
<1>5. \A x \in T : \E i \in indices : s[i] = x
  BY <1>1 DEF On
<1> HIDE DEF indices, T
<1>6. s \in Bijection(indices, T)
  BY <1>3, <1>4, <1>5 DEF Bijection, Injection, Surjection, IsInjective
<1>7. ExistsBijection(indices, T)
  BY <1>6 DEF ExistsBijection
<1>8. IsFiniteSet(T) /\ Cardinality(T) = Cardinality(indices)
  BY <1>2, <1>7, FS_Bijection
<1> QED
  BY <1>2, <1>8 DEF T

LEMMA AppendOne ==
    ASSUME NEW S, NEW s \in Seq(S), NEW x \in S, Distinct(s), x \notin On(s)
    PROVE  /\ Append(s, x) \in Seq(S) /\ Distinct(Append(s, x))
           /\ On(Append(s, x)) = On(s) \cup {x}
           /\ Len(Append(s, x)) = Len(s) + 1
           /\ \A i \in 1..Len(s) : Append(s, x)[i] = s[i]
           /\ Append(s, x)[Len(s) + 1] = x
<1>1. PICK t : t = Append(s, x)
  OBVIOUS
<1>2. /\ t \in Seq(S) /\ Len(t) = Len(s) + 1 /\ DOMAIN t = 1..(Len(s) + 1) /\ Len(s) \in Nat
      /\ DOMAIN s = 1..Len(s)
      /\ \A i \in 1..Len(s) : t[i] = s[i]
      /\ t[Len(s) + 1] = x
  BY <1>1
<1>3. On(t) = On(s) \cup {x}
  <2>1. 1..(Len(s) + 1) = (1..Len(s)) \cup {Len(s) + 1}
    BY <1>2
  <2> QED
    BY <2>1, <1>2 DEF On
<1>4. Distinct(t)
  <2> SUFFICES ASSUME NEW i \in 1..(Len(s) + 1), NEW j \in 1..(Len(s) + 1), t[i] = t[j], i # j
               PROVE  FALSE
    BY <1>2 DEF Distinct
  <2>1. \A k \in 1..Len(s) : s[k] # x
    BY <1>2 DEF On
  <2>2. CASE i = Len(s) + 1
    <3>1. j \in 1..Len(s)
      BY <2>2, <1>2
    <3> QED
      BY <3>1, <2>1, <2>2, <1>2
  <2>3. CASE j = Len(s) + 1
    <3>1. i \in 1..Len(s)
      BY <2>3, <1>2
    <3> QED
      BY <3>1, <2>1, <2>3, <1>2
  <2>4. CASE i \in 1..Len(s) /\ j \in 1..Len(s)
    BY <2>4, <1>2 DEF Distinct
  <2> QED
    BY <2>2, <2>3, <2>4, <1>2
<1> QED
  BY <1>1, <1>2, <1>3, <1>4

\* Two sequences without a common element, one after the other.
LEMMA Joined ==
    ASSUME NEW S, NEW s \in Seq(S), NEW t \in Seq(S), Distinct(s), Distinct(t), On(s) \cap On(t) = {}
    PROVE  /\ s \o t \in Seq(S) /\ Distinct(s \o t) /\ On(s \o t) = On(s) \cup On(t)
           /\ Len(s \o t) = Len(s) + Len(t)
<1>1. PICK u : u = s \o t
  OBVIOUS
<1>2. /\ u \in Seq(S) /\ Len(s) \in Nat /\ Len(t) \in Nat /\ Len(u) = Len(s) + Len(t)
      /\ DOMAIN u = 1..(Len(s) + Len(t)) /\ DOMAIN s = 1..Len(s) /\ DOMAIN t = 1..Len(t)
      /\ \A i \in 1..Len(s) : u[i] = s[i]
      /\ \A i \in 1..(Len(s) + Len(t)) : i \notin 1..Len(s) => u[i] = t[i - Len(s)]
  BY <1>1
<1>3. \A i \in 1..(Len(s) + Len(t)) : i \notin 1..Len(s) => i - Len(s) \in 1..Len(t)
  BY <1>2
<1>4. \A j \in 1..Len(t) : /\ j + Len(s) \in 1..(Len(s) + Len(t)) /\ j + Len(s) \notin 1..Len(s)
                          /\ (j + Len(s)) - Len(s) = j
  BY <1>2
<1>5. On(u) = On(s) \cup On(t)
  <2>1. \A x \in On(u) : x \in On(s) \cup On(t)
    BY <1>2, <1>3 DEF On
  <2>2. \A x \in On(s) : x \in On(u)
    <3>1. 1..Len(s) \subseteq 1..(Len(s) + Len(t))
      BY <1>2
    <3> QED
      BY <3>1, <1>2 DEF On
  <2>3. \A x \in On(t) : x \in On(u)
    <3> SUFFICES ASSUME NEW j \in 1..Len(t)
                 PROVE  t[j] \in On(u)
      BY <1>2 DEF On
    <3>1. u[j + Len(s)] = t[j]
      BY <1>2, <1>4
    <3> QED
      BY <3>1, <1>2, <1>4 DEF On
  <2> QED
    BY <2>1, <2>2, <2>3
<1>6. Distinct(u)
  <2> SUFFICES ASSUME NEW i \in 1..(Len(s) + Len(t)), NEW j \in 1..(Len(s) + Len(t)), u[i] = u[j]
               PROVE  i = j
    BY <1>2 DEF Distinct
  <2>1. \A k \in 1..Len(s) : s[k] \in On(s)
    BY <1>2 DEF On
  <2>2. \A k \in 1..Len(t) : t[k] \in On(t)
    BY <1>2 DEF On
  <2>3. CASE i \in 1..Len(s) /\ j \in 1..Len(s)
    BY <2>3, <1>2 DEF Distinct
  <2>4. CASE i \notin 1..Len(s) /\ j \notin 1..Len(s)
    <3>1. i - Len(s) \in 1..Len(t) /\ j - Len(s) \in 1..Len(t) /\ t[i - Len(s)] = t[j - Len(s)]
      BY <2>4, <1>2, <1>3
    <3>2. i - Len(s) = j - Len(s)
      BY <3>1, <1>2 DEF Distinct
    <3> QED
      BY <3>2, <1>2
  <2>5. CASE i \in 1..Len(s) /\ j \notin 1..Len(s)
    <3>1. u[i] \in On(s) /\ u[j] \in On(t)
      BY <2>1, <2>2, <2>5, <1>2, <1>3
    <3> QED
      BY <3>1
  <2>6. CASE i \notin 1..Len(s) /\ j \in 1..Len(s)
    <3>1. u[j] \in On(s) /\ u[i] \in On(t)
      BY <2>1, <2>2, <2>6, <1>2, <1>3
    <3> QED
      BY <3>1
  <2> QED
    BY <2>3, <2>4, <2>5, <2>6
<1> QED
  BY <1>1, <1>2, <1>5, <1>6

LEMMA FirstAndRest ==
    ASSUME NEW S, NEW s \in Seq(S), s # <<>>, Distinct(s)
    PROVE  /\ Head(s) \in S /\ Tail(s) \in Seq(S) /\ Distinct(Tail(s))
           /\ On(s) = {Head(s)} \cup On(Tail(s)) /\ Head(s) \notin On(Tail(s))
           /\ Len(Tail(s)) = Len(s) - 1
<1>1. PICK t : t = Tail(s)
  OBVIOUS
<1>2. /\ t \in Seq(S) /\ Len(s) \in Nat /\ Len(s) # 0 /\ Len(t) = Len(s) - 1
      /\ DOMAIN s = 1..Len(s) /\ DOMAIN t = 1..(Len(s) - 1)
      /\ \A i \in 1..(Len(s) - 1) : t[i] = s[i + 1]
      /\ Head(s) = s[1] /\ Head(s) \in S
  BY <1>1
<1>3. /\ \A i \in 1..(Len(s) - 1) : i + 1 \in 1..Len(s) /\ i + 1 # 1
      /\ \A i \in 1..Len(s) : i # 1 => i - 1 \in 1..(Len(s) - 1) /\ (i - 1) + 1 = i
      /\ 1 \in 1..Len(s)
  BY <1>2
<1>4. Distinct(t)
  <2> SUFFICES ASSUME NEW i \in 1..(Len(s) - 1), NEW j \in 1..(Len(s) - 1), t[i] = t[j]
               PROVE  i = j
    BY <1>2 DEF Distinct
  <2>1. i + 1 = j + 1
    BY <1>2, <1>3 DEF Distinct
  <2> QED
    BY <2>1
<1>5. Head(s) \notin On(t)
  BY <1>2, <1>3 DEF On, Distinct
<1>6. On(s) = {Head(s)} \cup On(t)
  <2>1. \A i \in 1..Len(s) : s[i] \in {Head(s)} \cup On(t)
    <3> TAKE i \in 1..Len(s)
    <3>1. CASE i = 1
      BY <3>1, <1>2
    <3>2. CASE i # 1
      <4>1. t[i - 1] = s[i] /\ i - 1 \in DOMAIN t
        BY <3>2, <1>2, <1>3
      <4> QED
        BY <4>1 DEF On
    <3> QED
      BY <3>1, <3>2
  <2>2. \A i \in 1..(Len(s) - 1) : t[i] \in On(s)
    BY <1>2, <1>3 DEF On
  <2>3. Head(s) \in On(s)
    BY <1>2, <1>3 DEF On
  <2>4. On(s) \subseteq {Head(s)} \cup On(t)
    BY <2>1, <1>2 DEF On
  <2>5. On(t) \subseteq On(s)
    BY <2>2, <1>2 DEF On
  <2> QED
    BY <2>3, <2>4, <2>5
<1> QED
  BY <1>1, <1>2, <1>4, <1>5, <1>6

\* The last elements and the others are all of them.
LEMMA Split ==
    ASSUME NEW S, NEW s \in Seq(S), Distinct(s), NEW count \in 0..Len(s)
    PROVE  /\ Last(s, count) \in Seq(S) /\ Distinct(Last(s, count))
           /\ AllBut(s, count) \in Seq(S) /\ Distinct(AllBut(s, count))
           /\ On(s) = On(AllBut(s, count)) \cup On(Last(s, count))
           /\ On(AllBut(s, count)) \cap On(Last(s, count)) = {}
           /\ Len(AllBut(s, count)) = Len(s) - count /\ Len(Last(s, count)) = count
           /\ \A i \in 1..(Len(s) - count) : AllBut(s, count)[i] = s[i]
<1>1. PICK front, back : front = AllBut(s, count) /\ back = Last(s, count)
  OBVIOUS
<1>2. Len(s) \in Nat /\ count \in Nat /\ count <= Len(s) /\ DOMAIN s = 1..Len(s)
  OBVIOUS
<1> DEFINE n == Len(s) - count
<1>3. n \in Nat
  BY <1>2
<1>4. /\ front \in Seq(S) /\ Len(front) = n /\ DOMAIN front = 1..n
      /\ \A i \in 1..n : front[i] = s[i]
  <2>1. front = SubSeq(s, 1, n)
    BY <1>1 DEF AllBut
  <2> HIDE DEF n
  <2>2. n <= Len(s)
    BY <1>2 DEF n
  <2>3. front \in Seq(S) /\ Len(front) = n /\ DOMAIN front = 1..n
    BY <2>1, <2>2, <1>2, <1>3
  <2>4. \A i \in 1..n : front[i] = s[i]
    BY <2>1, <2>2, <1>2, <1>3
  <2> QED
    BY <2>3, <2>4
<1>5. /\ back \in Seq(S) /\ Len(back) = count /\ DOMAIN back = 1..count
      /\ \A i \in 1..count : back[i] = s[n + i]
  <2>1. back = SubSeq(s, n + 1, Len(s))
    BY <1>1 DEF Last
  <2> HIDE DEF n
  <2>2. n + count = Len(s)
    BY <1>2 DEF n
  <2>3. back \in Seq(S) /\ Len(back) = count /\ DOMAIN back = 1..count
    BY <2>1, <2>2, <1>2, <1>3
  <2>4. \A i \in 1..count : back[i] = s[n + i]
    BY <2>1, <2>2, <1>2, <1>3
  <2> QED
    BY <2>3, <2>4
<1>6. n + count = Len(s)
  BY <1>2
<1> HIDE DEF n
<1>7. /\ \A i \in 1..n : i \in 1..Len(s)
      /\ \A i \in 1..count : n + i \in 1..Len(s) /\ n + i \notin 1..n
      /\ \A i \in 1..Len(s) : i \notin 1..n => i - n \in 1..count /\ n + (i - n) = i
  BY <1>2, <1>3, <1>6
<1>8. Distinct(front)
  BY <1>2, <1>4, <1>7 DEF Distinct
<1>9. Distinct(back)
  <2> SUFFICES ASSUME NEW i \in 1..count, NEW j \in 1..count, back[i] = back[j]
               PROVE  i = j
    BY <1>5 DEF Distinct
  <2>1. n + i = n + j
    BY <1>2, <1>5, <1>7 DEF Distinct
  <2> QED
    BY <2>1, <1>2, <1>3
<1>10. On(front) \cap On(back) = {}
  <2> SUFFICES ASSUME NEW i \in 1..n, NEW j \in 1..count, front[i] = back[j]
               PROVE  FALSE
    BY <1>4, <1>5 DEF On
  <2>1. i \in DOMAIN s /\ n + j \in DOMAIN s /\ s[i] = s[n + j]
    BY <1>2, <1>4, <1>5, <1>7
  <2>2. i = n + j
    BY <2>1 DEF Distinct
  <2> QED
    BY <2>2, <1>7
<1>11. On(s) = On(front) \cup On(back)
  <2>1. \A i \in 1..Len(s) : s[i] \in On(front) \cup On(back)
    <3> TAKE i \in 1..Len(s)
    <3>1. CASE i \in 1..n
      BY <3>1, <1>4 DEF On
    <3>2. CASE i \notin 1..n
      <4>1. back[i - n] = s[i] /\ i - n \in DOMAIN back
        BY <3>2, <1>5, <1>7
      <4> QED
        BY <4>1 DEF On
    <3> QED
      BY <3>1, <3>2
  <2>2. \A i \in 1..n : front[i] \in On(s)
    BY <1>2, <1>4, <1>7 DEF On
  <2>3. \A i \in 1..count : back[i] \in On(s)
    BY <1>2, <1>5, <1>7 DEF On
  <2>4. On(s) \subseteq On(front) \cup On(back)
    BY <2>1, <1>2 DEF On
  <2>5. On(front) \subseteq On(s) /\ On(back) \subseteq On(s)
    BY <2>2, <2>3, <1>4, <1>5 DEF On
  <2> QED
    BY <2>4, <2>5
<1> QED
  BY <1>1, <1>4, <1>5, <1>8, <1>9, <1>10, <1>11 DEF n

LEMMA ReversedIsSame ==
    ASSUME NEW S, NEW s \in Seq(S)
    PROVE  /\ Reversed(s) \in Seq(S) /\ On(Reversed(s)) = On(s) /\ Len(Reversed(s)) = Len(s)
           /\ Distinct(s) => Distinct(Reversed(s))
<1>1. PICK t : t = Reversed(s)
  OBVIOUS
<1>2. Len(s) \in Nat /\ DOMAIN s = 1..Len(s)
  OBVIOUS
<1>3. \A i \in 1..Len(s) : Len(s) - i + 1 \in 1..Len(s) /\ Len(s) - (Len(s) - i + 1) + 1 = i
  BY <1>2
<1>4. t = [i \in 1..Len(s) |-> s[Len(s) - i + 1]]
  BY <1>1, <1>2 DEF Reversed
<1>5. t \in Seq(S) /\ Len(t) = Len(s) /\ DOMAIN t = 1..Len(s)
  <2>1. t \in [1..Len(s) -> S]
    BY <1>2, <1>3, <1>4
  <2> QED
    BY <2>1, <1>2
<1>6. \A i \in 1..Len(s) : t[i] = s[Len(s) - i + 1] /\ s[i] = t[Len(s) - i + 1]
  BY <1>3, <1>4
<1>7. On(t) = On(s)
  BY <1>2, <1>3, <1>5, <1>6 DEF On
<1>8. ASSUME Distinct(s)
      PROVE  Distinct(t)
  <2> SUFFICES ASSUME NEW i \in 1..Len(s), NEW j \in 1..Len(s), t[i] = t[j]
               PROVE  i = j
    BY <1>5 DEF Distinct
  <2>1. Len(s) - i + 1 = Len(s) - j + 1
    BY <1>2, <1>3, <1>6, <1>8 DEF Distinct
  <2> QED
    BY <2>1, <1>2
<1> QED
  BY <1>1, <1>5, <1>7, <1>8

-----------------------------------------------------------------------------
(* Every net is kept.                                                      *)

\* The nets are taken in an order that has each of them once.
LEMMA RoutingOrderEnumerates ==
    ASSUME NEW jobs, IsFiniteSet(DOMAIN jobs), DOMAIN jobs \subseteq Nat,
           \A n \in DOMAIN jobs : Len(jobs[n].sinks) \in Nat
    PROVE  Enumerates(RoutingOrder(jobs), DOMAIN jobs)
<1> DEFINE S == DOMAIN jobs
           sinks(n) == Len(jobs[n].sinks)
           first(n, k) == sinks(n) > sinks(k) \/ (sinks(n) = sinks(k) /\ n < k)
           R == {nk \in S \X S : first(nk[1], nk[2])}
           placed == {<<Cardinality({y \in S \ {x} : first(y, x)}) + 1, x>> : x \in S}
<1>1. \A n, k \in S : <<n, k>> \in R <=> first(n, k)
  OBVIOUS
<1>2. \A n \in S : n \in Nat /\ sinks(n) \in Nat
  OBVIOUS
<1>3. Orders(R, S)
  <2> HIDE DEF R, S, sinks
  <2>1. \A x, y \in S : x # y => first(x, y) \/ first(y, x)
    BY <1>2
  <2>2. \A x, y \in S : ~(first(x, y) /\ first(y, x))
    BY <1>2
  <2>3. \A x, y, z \in S : first(x, y) /\ first(y, z) => first(x, z)
    BY <1>2
  <2> HIDE DEF first
  <2> QED
    BY <1>1, <2>1, <2>2, <2>3 DEF Orders
<1>4. placed = Placed(R, S)
  <2>1. \A x \in S : {y \in S \ {x} : <<y, x>> \in R} = {y \in S \ {x} : first(y, x)}
    <3> HIDE DEF R, S, first
    <3> QED
      BY <1>1
  <2> HIDE DEF R, S, first
  <2> QED
    BY <2>1 DEF Placed
<1>5. RoutingOrder(jobs) = Listed(placed, Cardinality(S))
  BY DEF RoutingOrder, Sorted, Listed
<1>6. IsFiniteSet(S)
  OBVIOUS
<1> HIDE DEF placed, R, S
<1> QED
  BY <1>3, <1>4, <1>5, <1>6, SortedEnumerates DEF S

Working == stage \in {"sinks", "goals", "search"}
IsNet(v) == DOMAIN v = {"id", "left", "joinable", "blocked", "branches"}

\* Every net of the problem is routed, waits or is under way, once, and what
\* is routed besides is what was there before.
KeptInv ==
    /\ problem \in Problems /\ routing = [n \in DOMAIN routing |-> routing[n]]
    /\ stage \in {"nets", "sinks", "goals", "search", "routed", "exhausted", "unroutable", "compiled", "illegal"}
    /\ routedOrder \in Seq(DOMAIN Jobs) /\ Distinct(routedOrder)
    /\ pending \in Seq(DOMAIN Jobs) /\ Distinct(pending)
    /\ On(routedOrder) \cap On(pending) = {}
    /\ DOMAIN routing = DOMAIN problem.fixed \cup On(routedOrder)
    /\ \A n \in DOMAIN problem.fixed : routing[n] = problem.fixed[n]
    /\ Working => /\ IsNet(net) /\ net.id \in DOMAIN Jobs
                  /\ net.id \notin On(routedOrder) \cup On(pending)
                  /\ DOMAIN Jobs = On(routedOrder) \cup On(pending) \cup {net.id}
    /\ ~Working => net = Nothing
    /\ ~Working /\ stage # "unroutable" => DOMAIN Jobs = On(routedOrder) \cup On(pending)
    /\ stage = "unroutable" => Len(routedOrder) + Len(pending) = Cardinality(DOMAIN Jobs) - 1

LEMMA ANetIsSomething ==
    ASSUME NEW v, IsNet(v)
    PROVE  v # Nothing
<1>1. DOMAIN Nothing = {}
  BY DEF Nothing
<1> QED
  BY <1>1 DEF IsNet

\* The assumption on the problems, for the one that is routed.
LEMMA TheProblem ==
    ASSUME problem \in Problems
    PROVE  /\ IsFiniteSet(DOMAIN Jobs) /\ DOMAIN Jobs \subseteq Nat
           /\ DOMAIN Jobs \cap DOMAIN problem.fixed = {}
           /\ problem.fixed = [n \in DOMAIN problem.fixed |-> problem.fixed[n]]
           /\ \A n \in DOMAIN Jobs : IsJob(Jobs[n])
           /\ problem.width \in Nat \ {0}
BY RouterAssumption DEF Jobs

LEMMA KeptCounts ==
    ASSUME KeptInv
    PROVE  /\ Working => Len(routedOrder) + Len(pending) + 1 = Cardinality(DOMAIN Jobs)
           /\ ~Working /\ stage # "unroutable" => Len(routedOrder) + Len(pending) = Cardinality(DOMAIN Jobs)
           /\ Len(routedOrder) \in Nat /\ Len(pending) \in Nat
<1> DEFINE S == DOMAIN Jobs
           both == routedOrder \o pending
<1>1. /\ both \in Seq(S) /\ Distinct(both) /\ On(both) = On(routedOrder) \cup On(pending)
      /\ Len(both) = Len(routedOrder) + Len(pending)
  BY Joined DEF KeptInv
<1>2. Len(routedOrder) \in Nat /\ Len(pending) \in Nat
  BY DEF KeptInv
<1> HIDE DEF S, both
<1>3. ASSUME Working
      PROVE  Len(routedOrder) + Len(pending) + 1 = Cardinality(S)
  <2>1. net.id \in S /\ net.id \notin On(both) /\ S = On(both) \cup {net.id}
    BY <1>1, <1>3 DEF KeptInv, S
  <2>2. PICK all : all = Append(both, net.id)
    OBVIOUS
  <2>3. all \in Seq(S) /\ Distinct(all) /\ On(all) = S /\ Len(all) = Len(both) + 1
    BY <1>1, <2>1, <2>2, AppendOne
  <2>4. Cardinality(On(all)) = Len(all)
    BY <2>3, DistinctLength
  <2> QED
    BY <2>3, <2>4, <1>1
<1>4. ASSUME ~Working, stage # "unroutable"
      PROVE  Len(routedOrder) + Len(pending) = Cardinality(S)
  <2>1. On(both) = S
    BY <1>1, <1>4 DEF KeptInv, S
  <2>2. Cardinality(On(both)) = Len(both)
    BY <1>1, DistinctLength
  <2> QED
    BY <2>1, <2>2, <1>1
<1> QED
  BY <1>2, <1>3, <1>4 DEF S

LEMMA KeptMeans == KeptInv => NetsAreKept
<1> SUFFICES ASSUME KeptInv
             PROVE  NetsAreKept
    OBVIOUS
<1>1. On(routedOrder) = DOMAIN routing \ DOMAIN problem.fixed
  <2>1. On(routedOrder) \subseteq DOMAIN Jobs
    BY OnIsTheRange DEF KeptInv
  <2> QED
    BY <2>1, TheProblem DEF KeptInv
<1>2. \A n \in DOMAIN problem.fixed : routing[n] = problem.fixed[n]
  BY DEF KeptInv
<1>3. CASE Working
  <2>1. net # Nothing /\ stage # "unroutable"
    BY <1>3, ANetIsSomething DEF KeptInv, Working
  <2> QED
    BY <1>1, <1>2, <1>3, <2>1, KeptCounts DEF KeptInv, NetsAreKept
<1>4. CASE ~Working
  <2>1. net = Nothing
    BY <1>4 DEF KeptInv
  <2> QED
    BY <1>1, <1>2, <1>4, <2>1, KeptCounts DEF KeptInv, NetsAreKept
<1> QED
  BY <1>3, <1>4

LEMMA KeptAtFirst == Init => KeptInv
<1> SUFFICES ASSUME Init
             PROVE  KeptInv
    OBVIOUS
<1>1. problem \in Problems /\ routing = problem.fixed /\ pending = RoutingOrder(Jobs) /\ routedOrder = <<>>
      /\ stage = "nets" /\ net = Nothing
  BY DEF Init
<1>2. Enumerates(pending, DOMAIN Jobs)
  <2>1. \A n \in DOMAIN Jobs : Len(Jobs[n].sinks) \in Nat
    BY <1>1, TheProblem DEF IsJob
  <2> QED
    BY <1>1, <2>1, TheProblem, RoutingOrderEnumerates
<1>3. routedOrder \in Seq(DOMAIN Jobs) /\ Distinct(routedOrder) /\ On(routedOrder) = {}
  BY <1>1 DEF Distinct, On
<1> QED
  BY <1>1, <1>2, <1>3, TheProblem DEF KeptInv, Enumerates, Working

\* A net that cannot be routed is tried again after those it took down.
LEMMA RejectKeeps ==
    ASSUME KeptInv, Working, Reject, problem' = problem
    PROVE  /\ KeptInv'
           /\ Len(routedOrder') \in Nat /\ Len(routedOrder') <= Len(routedOrder)
           /\ \A i \in 1..Len(routedOrder') : routedOrder'[i] = routedOrder[i]
           /\ \A n \in DOMAIN routing' : routing'[n] = routing[n]
<1> DEFINE S == DOMAIN Jobs
<1>1. /\ net' = Nothing /\ Jobs' = Jobs /\ problem' \in Problems
      /\ routedOrder \in Seq(S) /\ pending \in Seq(S) /\ net.id \in S
  BY DEF Reject, KeptInv, Jobs
<1>2. CASE routedOrder = <<>>
  <2>1. stage' = "unroutable" /\ UNCHANGED <<routing, pending, routedOrder>>
    BY <1>2 DEF Reject
  <2>2. Len(routedOrder) + Len(pending) = Cardinality(DOMAIN Jobs) - 1
    <3>1. Len(routedOrder) + Len(pending) + 1 = Cardinality(DOMAIN Jobs)
          /\ Len(routedOrder) \in Nat /\ Len(pending) \in Nat
      BY KeptCounts
    <3> QED
      BY <3>1
  <2>3. ~Working'
    BY <2>1 DEF Working
  <2>4. KeptInv'
    BY <1>1, <2>1, <2>2, <2>3 DEF KeptInv
  <2> QED
    BY <1>1, <2>1, <2>4
<1>3. CASE routedOrder # <<>>
  <2>1. stage' = "nets" /\ RipUp(net.id)
    BY <1>3 DEF Reject
  <2> DEFINE count == AtMost(problem.width, Len(routedOrder))
             ripped == Last(routedOrder, count)
  <2>2. count \in 0..Len(routedOrder)
    BY <1>1, TheProblem DEF AtMost, KeptInv
  <2>3. PICK again : /\ again \in {ripped, Reversed(ripped)}
                     /\ pending' = <<net.id>> \o again \o pending
    <3>1. \E again \in {ripped, Reversed(ripped)} : pending' = <<net.id>> \o again \o pending
      BY <2>1, Zenon DEF RipUp
    <3> QED
      BY <3>1
  <2>4. /\ routedOrder' = AllBut(routedOrder, count)
        /\ routing' = [m \in DOMAIN routing \ On(ripped) |-> routing[m]]
    BY <2>1, Zenon DEF RipUp
  <2>5. /\ ripped \in Seq(S) /\ Distinct(ripped)
        /\ routedOrder' \in Seq(S) /\ Distinct(routedOrder')
        /\ On(routedOrder) = On(routedOrder') \cup On(ripped)
        /\ On(routedOrder') \cap On(ripped) = {}
        /\ Len(routedOrder') = Len(routedOrder) - count
        /\ \A i \in 1..(Len(routedOrder) - count) : routedOrder'[i] = routedOrder[i]
    <3> HIDE DEF count, S
    <3> QED
      BY <1>1, <2>2, <2>4, Split DEF KeptInv
  <2> HIDE DEF count, ripped, S
  <2>6. again \in Seq(S) /\ Distinct(again) /\ On(again) = On(ripped)
    BY <2>3, <2>5, ReversedIsSame
  <2>7. PICK one : one = <<net.id>>
    OBVIOUS
  <2>8. one \in Seq(S) /\ Distinct(one) /\ On(one) = {net.id}
    BY <1>1, <2>7 DEF Distinct, On
  <2>9. /\ net.id \notin On(routedOrder) \cup On(pending)
        /\ S = On(routedOrder) \cup On(pending) \cup {net.id}
        /\ On(routedOrder) \cap On(pending) = {} /\ Distinct(pending)
    BY DEF KeptInv, S
  <2>10. /\ one \o again \in Seq(S) /\ Distinct(one \o again)
         /\ On(one \o again) = {net.id} \cup On(ripped)
    <3>1. On(one) \cap On(again) = {}
      BY <2>5, <2>6, <2>8, <2>9
    <3> QED
      BY <2>6, <2>8, <3>1, Joined
  <2>11. PICK more : more = one \o again /\ pending' = more \o pending
    BY <2>3, <2>7
  <2>12. /\ pending' \in Seq(S) /\ Distinct(pending')
         /\ On(pending') = {net.id} \cup On(ripped) \cup On(pending)
    <3>1. more \in Seq(S) /\ Distinct(more) /\ On(more) = {net.id} \cup On(ripped)
      BY <2>10, <2>11
    <3>2. On(more) \cap On(pending) = {}
      BY <2>5, <2>9, <3>1
    <3>3. pending \in Seq(S)
      BY <1>1 DEF S
    <3>4. /\ more \o pending \in Seq(S) /\ Distinct(more \o pending)
          /\ On(more \o pending) = On(more) \cup On(pending)
      BY <2>9, <3>1, <3>2, <3>3, Joined
    <3> QED
      BY <2>11, <3>1, <3>4
  <2>13. On(routedOrder') \cap On(pending') = {}
    BY <2>5, <2>9, <2>12
  <2>14. S = On(routedOrder') \cup On(pending')
    BY <2>5, <2>9, <2>12
  <2>15. On(ripped) \cap DOMAIN problem.fixed = {} /\ On(ripped) \subseteq DOMAIN Jobs
    <3>1. On(ripped) \subseteq DOMAIN Jobs
      BY <2>5, OnIsTheRange DEF S
    <3> QED
      BY <3>1, TheProblem DEF KeptInv
  <2>16. /\ DOMAIN routing' = DOMAIN problem.fixed \cup On(routedOrder')
         /\ routing' = [n \in DOMAIN routing' |-> routing'[n]]
         /\ \A n \in DOMAIN problem.fixed : routing'[n] = problem.fixed[n]
    <3>1. DOMAIN routing = DOMAIN problem.fixed \cup On(routedOrder)
          /\ \A n \in DOMAIN problem.fixed : routing[n] = problem.fixed[n]
      BY DEF KeptInv
    <3> QED
      BY <2>4, <2>5, <2>15, <3>1
  <2>17. ~Working' /\ stage' # "unroutable"
    BY <2>1 DEF Working
  <2>18. KeptInv'
    BY <1>1, <2>1, <2>5, <2>12, <2>13, <2>14, <2>16, <2>17 DEF KeptInv, S
  <2>19. Len(routedOrder') \in Nat /\ Len(routedOrder') <= Len(routedOrder)
    BY <1>1, <2>2, <2>5
  <2>20. \A n \in DOMAIN routing' : routing'[n] = routing[n]
    BY <2>4
  <2> QED
    BY <2>5, <2>18, <2>19, <2>20
<1> QED
  BY <1>2, <1>3

\* A net that is routed joins those that are.
LEMMA AcceptKeeps ==
    ASSUME KeptInv, Working, NEW made, Accept(With(made)), problem' = problem
    PROVE  /\ KeptInv' /\ routedOrder' = Append(routedOrder, net.id)
           /\ routing'[net.id] = made
           /\ DOMAIN routing' = DOMAIN routing \cup {net.id}
           /\ \A n \in DOMAIN routing : routing'[n] = routing[n]
<1> DEFINE S == DOMAIN Jobs
<1>1. /\ net' = Nothing /\ Jobs' = Jobs /\ problem' \in Problems /\ stage' = "nets"
      /\ routedOrder \in Seq(S) /\ Distinct(routedOrder) /\ pending' = pending /\ net.id \in S
      /\ net.id \notin On(routedOrder) /\ net.id \notin On(pending)
      /\ S = On(routedOrder) \cup On(pending) \cup {net.id}
      /\ routedOrder' = Append(routedOrder, net.id)
      /\ DOMAIN routing = DOMAIN problem.fixed \cup On(routedOrder)
      /\ \A n \in DOMAIN problem.fixed : routing[n] = problem.fixed[n]
  BY DEF Accept, KeptInv, Jobs
<1>2. routing' = [m \in DOMAIN routing \cup {net.id} |-> IF m = net.id THEN made ELSE routing[m]]
  BY DEF Accept, With
<1>3. /\ routedOrder' \in Seq(S) /\ Distinct(routedOrder')
      /\ On(routedOrder') = On(routedOrder) \cup {net.id}
  <2> HIDE DEF S
  <2> QED
    BY <1>1, AppendOne
<1>4. net.id \notin DOMAIN problem.fixed
  BY <1>1, TheProblem DEF KeptInv
<1>5. net.id \notin DOMAIN routing
  BY <1>1, <1>4
<1>6. /\ routing'[net.id] = made /\ DOMAIN routing' = DOMAIN routing \cup {net.id}
      /\ routing' = [n \in DOMAIN routing' |-> routing'[n]]
      /\ \A n \in DOMAIN routing : routing'[n] = routing[n]
  BY <1>2, <1>5
<1>7. DOMAIN routing' = DOMAIN problem.fixed \cup On(routedOrder')
      /\ \A n \in DOMAIN problem.fixed : routing'[n] = problem.fixed[n]
  BY <1>1, <1>3, <1>6
<1>8. ~Working'
  BY <1>1 DEF Working
<1>9. KeptInv'
  BY <1>1, <1>3, <1>6, <1>7, <1>8 DEF KeptInv
<1> QED
  BY <1>1, <1>6, <1>9

\* The steps of the search and of the loops around it.
LEMMA WorkKeeps ==
    ASSUME KeptInv, Working, Working', UNCHANGED <<problem, routing, pending, routedOrder>>,
           IsNet(net'), net'.id = net.id,
           stage' \in {"nets", "sinks", "goals", "search", "routed", "exhausted", "unroutable", "compiled", "illegal"}
    PROVE  KeptInv'
<1>1. stage # "unroutable" /\ stage' # "unroutable"
  BY DEF Working
<1> QED
  BY <1>1 DEF KeptInv, Jobs

LEMMA RoutingKeeps ==
    ASSUME KeptInv, RoutingStep
    PROVE  KeptInv'
<1>1. ASSUME TakeNet
      PROVE  KeptInv'
  <2>1. /\ stage = "nets" /\ pending # <<>> /\ stage' = "sinks" /\ pending' = Tail(pending)
        /\ UNCHANGED <<problem, routing, routedOrder>> /\ Jobs' = Jobs
    BY <1>1 DEF TakeNet, Jobs
  <2>2. IsNet(net') /\ net'.id = Head(pending)
    BY <1>1 DEF TakeNet, IsNet
  <2>3. /\ Head(pending) \in DOMAIN Jobs /\ Tail(pending) \in Seq(DOMAIN Jobs) /\ Distinct(Tail(pending))
        /\ On(pending) = {Head(pending)} \cup On(Tail(pending)) /\ Head(pending) \notin On(Tail(pending))
    BY <2>1, FirstAndRest DEF KeptInv
  <2>4. ~Working /\ Working' /\ stage # "unroutable" /\ stage' # "unroutable"
    BY <2>1 DEF Working
  <2> QED
    BY <2>1, <2>2, <2>3, <2>4 DEF KeptInv
<1>2. ASSUME GiveUp \/ Finish
      PROVE  KeptInv'
  <2>1. /\ stage = "nets" /\ stage' \in {"exhausted", "routed"}
        /\ UNCHANGED <<problem, routing, pending, routedOrder, net>> /\ Jobs' = Jobs
    BY <1>2 DEF GiveUp, Finish, Jobs, loop
  <2> QED
    BY <2>1 DEF KeptInv, Working
<1>3. ASSUME EndNet
      PROVE  KeptInv'
  <2>1. Working /\ problem' = problem
    BY <1>3 DEF EndNet, Working
  <2>2. Accept(With(MakeNet(Jobs[net.id], net.branches))) \/ Reject
    BY <1>3 DEF EndNet
  <2> QED
    BY <2>1, <2>2, AcceptKeeps, RejectKeeps
<1>4. ASSUME EndSink
      PROVE  KeptInv'
  <2>1. Working /\ problem' = problem
    BY <1>4 DEF EndSink, Working
  <2>2. CASE Reject
    BY <2>1, <2>2, RejectKeeps
  <2>3. CASE ~Reject
    <3>1. stage' = "sinks" /\ UNCHANGED <<routing, pending, routedOrder>>
      BY <1>4, <2>3 DEF EndSink
    <3>2. IsNet(net) /\ IsNet(net') /\ net'.id = net.id
      BY <1>4, <2>1, <2>3 DEF EndSink, IsNet, KeptInv
    <3>3. Working'
      BY <3>1 DEF Working
    <3> QED
      BY <2>1, <3>1, <3>2, <3>3, WorkKeeps
  <2> QED
    BY <2>2, <2>3
<1>5. ASSUME TakeSink \/ TakeGoal \/ SkipGoal \/ Expand \/ Miss \/ Arrive
      PROVE  KeptInv'
  <2>1. /\ UNCHANGED <<problem, routing, pending, routedOrder, net>>
        /\ stage \in {"sinks", "goals", "search"} /\ stage' \in {"sinks", "goals", "search"}
    BY <1>5 DEF TakeSink, TakeGoal, SkipGoal, Expand, Miss, Arrive, loop
  <2>2. Working /\ Working'
    BY <2>1 DEF Working
  <2>3. IsNet(net) /\ IsNet(net') /\ net'.id = net.id
    BY <2>1, <2>2 DEF KeptInv, IsNet
  <2> QED
    BY <2>1, <2>2, <2>3, WorkKeeps
<1> QED
  BY <1>1, <1>2, <1>3, <1>4, <1>5 DEF RoutingStep

LEMMA NextKeeps == KeptInv /\ [Next]_vars => KeptInv'
<1> SUFFICES ASSUME KeptInv, [Next]_vars
             PROVE  KeptInv'
  OBVIOUS
<1>1. CASE RoutingStep
  BY <1>1, RoutingKeeps
<1>2. CASE Check
  <2>1. /\ stage = "routed" /\ stage' \in {"compiled", "illegal"}
        /\ UNCHANGED <<problem, routing, pending, routedOrder, net>>
    BY <1>2 DEF Check, loop
  <2> QED
    BY <2>1 DEF KeptInv, Working, Jobs
<1>3. CASE Stopped \/ UNCHANGED vars
  <2>1. UNCHANGED <<problem, stage, routing, pending, routedOrder, net>>
    BY <1>3 DEF Stopped, vars, loop
  <2> QED
    BY <2>1 DEF KeptInv, Working, Jobs
<1> QED
  BY <1>1, <1>2, <1>3 DEF Next

\* Whatever is ripped up and tried again, every net of the problem is
\* routed, waits or is under way, once, until the call fails, and the nets
\* that were there from the start are as they were (multinet.rs
\* route_jobs_ripup_with_fixed).
THEOREM NoNetIsLost == Spec => []NetsAreKept
BY NextKeeps, KeptAtFirst, KeptMeans, PTL DEF Spec

-----------------------------------------------------------------------------
(* What is routed is legal.                                                *)

IsLegalRouting(W, nets) == ~CannotMaterialize(nets) /\ Legal(Materialize(W, nets), nets)

\* The routing as it was when k of the nets that are routed now were.
FirstRouted(k) == [n \in DOMAIN problem.fixed \cup {routedOrder[i] : i \in 1..k} |-> routing[n]]

\* A rip-up takes the last nets away: what is left is a routing that was
\* judged before.
LegalInv == \A k \in 0..Len(routedOrder) : IsLegalRouting(problem.world, FirstRouted(k))

LEMMA AllAreFirst ==
    ASSUME KeptInv
    PROVE  FirstRouted(Len(routedOrder)) = routing
<1>1. On(routedOrder) = {routedOrder[i] : i \in 1..Len(routedOrder)}
  BY DEF KeptInv, On
<1> QED
  BY <1>1 DEF KeptInv, FirstRouted

LEMMA LegalAtFirst ==
    ASSUME Init, \A given \in Problems : IsLegalRouting(given.world, given.fixed)
    PROVE  LegalInv
<1>1. KeptInv /\ routedOrder = <<>> /\ routing = problem.fixed /\ problem \in Problems
  BY KeptAtFirst DEF Init
<1>2. FirstRouted(0) = problem.fixed
  <2>1. Len(routedOrder) = 0
    BY <1>1
  <2> QED
    BY <1>1, <2>1, AllAreFirst
<1>3. 0..Len(routedOrder) = {0}
  BY <1>1
<1> QED
  BY <1>1, <1>2, <1>3 DEF LegalInv

LEMMA LegalIfFewer ==
    ASSUME KeptInv, KeptInv', LegalInv, problem' = problem,
           Len(routedOrder') \in Nat, Len(routedOrder') <= Len(routedOrder),
           \A i \in 1..Len(routedOrder') : routedOrder'[i] = routedOrder[i],
           \A n \in DOMAIN routing' : routing'[n] = routing[n]
    PROVE  LegalInv'
<1> SUFFICES ASSUME NEW k \in 0..Len(routedOrder')
             PROVE  IsLegalRouting(problem.world, FirstRouted(k)')
    BY DEF LegalInv
<1> DEFINE before == DOMAIN problem.fixed \cup {routedOrder[i] : i \in 1..k}
           after == DOMAIN problem.fixed \cup {routedOrder'[i] : i \in 1..k}
<1>1. Len(routedOrder) \in Nat /\ k \in 0..Len(routedOrder) /\ \A i \in 1..k : i \in 1..Len(routedOrder')
  BY DEF KeptInv
<1>2. before = after
  BY <1>1
<1>3. \A n \in after : n \in DOMAIN routing'
  <2>1. DOMAIN routing' = DOMAIN problem.fixed \cup On(routedOrder')
    BY DEF KeptInv
  <2>2. \A i \in 1..k : routedOrder'[i] \in On(routedOrder')
    BY <1>1 DEF KeptInv, On
  <2> QED
    BY <2>1, <2>2
<1>4. FirstRouted(k)' = FirstRouted(k)
  <2>1. FirstRouted(k)' = [n \in after |-> routing'[n]]
    BY DEF FirstRouted
  <2>2. FirstRouted(k) = [n \in before |-> routing[n]]
    BY DEF FirstRouted
  <2> HIDE DEF before, after
  <2> QED
    BY <1>2, <1>3, <2>1, <2>2
<1> QED
  BY <1>1, <1>4 DEF LegalInv

LEMMA LegalWithOneMore ==
    ASSUME KeptInv, Working, LegalInv, problem' = problem, NEW made, Accept(With(made)),
           IsLegalRouting(problem.world, With(made))
    PROVE  LegalInv'
<1>1. /\ KeptInv' /\ routedOrder' = Append(routedOrder, net.id)
      /\ DOMAIN routing' = DOMAIN routing \cup {net.id}
      /\ \A n \in DOMAIN routing : routing'[n] = routing[n]
  BY AcceptKeeps
<1>2. /\ Len(routedOrder) \in Nat /\ Len(routedOrder') = Len(routedOrder) + 1
      /\ \A i \in 1..Len(routedOrder) : routedOrder'[i] = routedOrder[i]
  BY <1>1 DEF KeptInv
<1> SUFFICES ASSUME NEW k \in 0..Len(routedOrder')
             PROVE  IsLegalRouting(problem.world, FirstRouted(k)')
    BY DEF LegalInv
<1>3. CASE k = Len(routedOrder')
  <2>1. FirstRouted(k)' = routing'
    <3>1. On(routedOrder') = {routedOrder'[i] : i \in 1..Len(routedOrder')}
      BY <1>1 DEF KeptInv, On
    <3>2. /\ DOMAIN routing' = DOMAIN problem.fixed \cup On(routedOrder')
          /\ routing' = [n \in DOMAIN routing' |-> routing'[n]]
      BY <1>1 DEF KeptInv
    <3> QED
      BY <1>3, <3>1, <3>2 DEF FirstRouted
  <2> QED
    BY <2>1 DEF Accept
<1>4. CASE k # Len(routedOrder')
  <2> DEFINE before == DOMAIN problem.fixed \cup {routedOrder[i] : i \in 1..k}
             after == DOMAIN problem.fixed \cup {routedOrder'[i] : i \in 1..k}
  <2>1. k \in 0..Len(routedOrder) /\ \A i \in 1..k : i \in 1..Len(routedOrder)
    BY <1>2, <1>4
  <2>2. before = after
    BY <1>2, <2>1
  <2>3. \A n \in before : n \in DOMAIN routing
    <3>1. \A i \in 1..k : routedOrder[i] \in On(routedOrder)
      BY <2>1 DEF KeptInv, On
    <3> QED
      BY <3>1 DEF KeptInv
  <2>4. FirstRouted(k)' = FirstRouted(k)
    <3>1. FirstRouted(k)' = [n \in after |-> routing'[n]]
      BY DEF FirstRouted
    <3>2. FirstRouted(k) = [n \in before |-> routing[n]]
      BY DEF FirstRouted
    <3> HIDE DEF before, after
    <3> QED
      BY <1>1, <2>2, <2>3, <3>1, <3>2
  <2> QED
    BY <2>1, <2>4 DEF LegalInv
<1> QED
  BY <1>3, <1>4

LEMMA RoutingStaysLegal ==
    ASSUME KeptInv, LegalInv, RoutingStep
    PROVE  LegalInv'
<1>1. KeptInv' /\ problem' = problem
  BY RoutingKeeps
     DEF RoutingStep, TakeNet, GiveUp, Finish, TakeSink, EndSink, EndNet, TakeGoal, SkipGoal, Expand, Miss, Arrive
<1>2. CASE Working /\ Reject
  BY <1>1, <1>2, RejectKeeps, LegalIfFewer
<1>3. CASE UNCHANGED <<routing, routedOrder>>
  <2>1. Len(routedOrder) \in Nat /\ Len(routedOrder') = Len(routedOrder)
    BY <1>3 DEF KeptInv
  <2> QED
    BY <1>1, <1>3, <2>1, LegalIfFewer
<1>4. CASE EndNet /\ ~Reject
  <2>1. Working
    BY <1>4 DEF EndNet, Working
  <2> DEFINE routed == With(MakeNet(Jobs[net.id], net.branches))
  <2>2. Accept(routed) /\ IsLegalRouting(problem.world, routed)
    BY <1>4 DEF EndNet, IsLegalRouting
  <2> QED
    BY <1>1, <2>1, <2>2, LegalWithOneMore
<1>5. ASSUME EndSink, ~Reject
      PROVE  UNCHANGED <<routing, routedOrder>>
  BY <1>5 DEF EndSink
<1>6. ASSUME EndSink \/ EndNet
      PROVE  Working
  BY <1>6 DEF EndSink, EndNet, Working
<1>7. ASSUME TakeNet \/ GiveUp \/ Finish \/ TakeSink \/ TakeGoal \/ SkipGoal \/ Expand \/ Miss \/ Arrive
      PROVE  UNCHANGED <<routing, routedOrder>>
  BY <1>7 DEF TakeNet, GiveUp, Finish, TakeSink, TakeGoal, SkipGoal, Expand, Miss, Arrive, loop
<1> QED
  BY <1>2, <1>3, <1>4, <1>5, <1>6, <1>7 DEF RoutingStep

\* Where the nets that are there from the start are legal together, those
\* that are routed always are, also after a rip-up (multinet.rs
\* route_jobs_ripup_with_fixed, validate_routing_legality).
THEOREM OnlyLegalRoutes ==
    ASSUME \A given \in Problems : IsLegalRouting(given.world, given.fixed)
    PROVE  Spec => []RoutedIsLegal
<1>1. Init => KeptInv /\ LegalInv
  BY KeptAtFirst, LegalAtFirst
<1>2. KeptInv /\ LegalInv /\ [Next]_vars => (KeptInv /\ LegalInv)'
  <2> SUFFICES ASSUME KeptInv, LegalInv, [Next]_vars
               PROVE  KeptInv' /\ LegalInv'
    OBVIOUS
  <2>1. CASE RoutingStep
    BY <2>1, RoutingKeeps, RoutingStaysLegal
  <2>2. CASE Check
    <3>1. /\ stage = "routed" /\ stage' \in {"compiled", "illegal"}
          /\ UNCHANGED <<problem, routing, pending, routedOrder, net>>
      BY <2>2 DEF Check, loop
    <3> QED
      BY <3>1 DEF KeptInv, Working, Jobs, LegalInv, FirstRouted
  <2>3. CASE Stopped \/ UNCHANGED vars
    <3>1. UNCHANGED <<problem, stage, routing, pending, routedOrder, net>>
      BY <2>3 DEF Stopped, vars, loop
    <3> QED
      BY <3>1 DEF KeptInv, Working, Jobs, LegalInv, FirstRouted
  <2> QED
    BY <2>1, <2>2, <2>3 DEF Next
<1>3. KeptInv /\ LegalInv => RoutedIsLegal
  <2> SUFFICES ASSUME KeptInv, LegalInv
               PROVE  IsLegalRouting(problem.world, routing)
    BY DEF RoutedIsLegal, IsLegalRouting, CompiledWorld
  <2>1. Len(routedOrder) \in 0..Len(routedOrder)
    BY DEF KeptInv
  <2> QED
    BY <2>1, AllAreFirst DEF LegalInv
<1> QED
  BY <1>1, <1>2, <1>3, PTL DEF Spec

-----------------------------------------------------------------------------
(* Positions and the moves between them.                                   *)

LEMMA OnIsFinite ==
    ASSUME NEW S, NEW s \in Seq(S)
    PROVE  IsFiniteSet(On(s))
<1> DEFINE indices == 1..Len(s)
           T == On(s)
<1>1. Len(s) \in Nat /\ DOMAIN s = indices /\ s = [i \in indices |-> s[i]]
  OBVIOUS
<1>2. s \in [indices -> T] /\ \A x \in T : \E i \in indices : s[i] = x
  BY <1>1 DEF On
<1> HIDE DEF T
<1>3. s \in Surjection(indices, T)
  BY <1>2 DEF Surjection
<1>4. \E n \in Nat : ExistsSurjection(1..n, T)
  BY <1>1, <1>3 DEF ExistsSurjection
<1> QED
  BY <1>4, FS_NatSurjection DEF T

LEMMA FirstIsThere ==
    ASSUME NEW S, S \subseteq Position, IsFiniteSet(S), S # {}
    PROVE  FirstOf(S) \in S
<1> DEFINE R == {pq \in S \X S : Before(pq[1], pq[2])}
<1>1. \A p, q \in S : <<p, q>> \in R <=> Before(p, q)
  OBVIOUS
<1>2. \A p \in S : p[1] \in Int /\ p[2] \in Int /\ p[3] \in Int /\ p = <<p[1], p[2], p[3]>>
  BY DEF Position
<1> HIDE DEF R
<1>3. Orders(R, S)
  <2>1. \A p, q \in S : p # q => Before(p, q) \/ Before(q, p)
    BY <1>2 DEF Before
  <2>2. \A p, q \in S : ~(Before(p, q) /\ Before(q, p))
    BY <1>2 DEF Before
  <2>3. \A p, q, r \in S : Before(p, q) /\ Before(q, r) => Before(p, r)
    BY <1>2 DEF Before
  <2> QED
    BY <1>1, <2>1, <2>2, <2>3 DEF Orders
<1>4. \E p \in S : \A q \in S \ {p} : <<p, q>> \in R
  BY <1>3, SomethingIsFirst
<1>5. \E p \in S : \A q \in S \ {p} : Before(p, q)
  BY <1>1, <1>4
<1> QED
  BY <1>5 DEF FirstOf

\* A move goes one step to a side and at most one up or down.
LEMMA MovesAre ==
    ASSUME NEW i \in 1..12
    PROVE  /\ i \in DOMAIN Move
           /\ \E f \in Horizontal, dy \in {-1, 0, 1} : Move[i] = <<Offset[f][1], dy, Offset[f][3]>>
<1> DEFINE side == (i - 1) \div 3
           dy == ((i - 1) % 3) - 1
           f == <<"east", "west", "south", "north">>[side + 1]
<1>1. side \in 0..3 /\ dy \in {-1, 0, 1}
  OBVIOUS
<1>2. Move[i] = Plus(Offset[f], <<0, dy, 0>>) /\ i \in DOMAIN Move
  BY DEF Move
<1>3. f \in Horizontal
  <2>1. side + 1 \in {1, 2, 3, 4}
    BY <1>1
  <2> HIDE DEF side
  <2> QED
    BY <2>1 DEF Horizontal
<1> HIDE DEF side, dy, f
<1>4. Offset[f][2] = 0 /\ Offset[f][1] \in Int /\ Offset[f][3] \in Int
  BY <1>3 DEF Offset, Horizontal
<1>5. Move[i] = <<Offset[f][1], dy, Offset[f][3]>>
  BY <1>1, <1>2, <1>4 DEF Plus
<1> QED
  BY <1>1, <1>2, <1>3, <1>5

LEMMA MovesEnd == DOMAIN Move = 1..12
BY DEF Move

LEMMA ManhattanIsNat ==
    ASSUME NEW p \in Position, NEW q \in Position
    PROVE  Manhattan(p, q) \in Nat /\ Manhattan(p, p) = 0
BY DEF Manhattan, Position

\* Neighbors, and how much nearer to g they may be.
LEMMA NeighborsAreNear ==
    ASSUME NEW p \in Position, NEW i \in 1..12, NEW g \in Position
    PROVE  /\ Neighbor(p, i) \in Position /\ Neighbor(p, i) # p
           /\ Neighbor(p, i)[2] = p[2] => Manhattan(p, g) <= Manhattan(Neighbor(p, i), g) + 1
           /\ Manhattan(p, g) <= Manhattan(Neighbor(p, i), g) + 2
<1>1. PICK f \in Horizontal, dy \in {-1, 0, 1} : Move[i] = <<Offset[f][1], dy, Offset[f][3]>>
  BY MovesAre
<1>2. \/ Offset[f][1] = 0 /\ Offset[f][3] \in {-1, 1}
      \/ Offset[f][3] = 0 /\ Offset[f][1] \in {-1, 1}
  BY DEF Offset, Horizontal
<1>3. PICK q : q = Neighbor(p, i)
  OBVIOUS
<1>4. PICK dx \in {-1, 0, 1}, dz \in {-1, 0, 1} :
        /\ (dx = 0 /\ dz # 0) \/ (dz = 0 /\ dx # 0)
        /\ q = <<p[1] + dx, p[2] + dy, p[3] + dz>>
  BY <1>1, <1>2, <1>3 DEF Neighbor, Plus
<1>5. PICK x \in Int, y \in Int, z \in Int : p = <<x, y, z>>
  BY DEF Position
<1>6. PICK gx \in Int, gy \in Int, gz \in Int : g = <<gx, gy, gz>>
  BY DEF Position
<1>7. q = <<x + dx, y + dy, z + dz>>
  BY <1>4, <1>5
<1>8. q \in Position /\ q # p
  BY <1>4, <1>5, <1>7 DEF Position
<1> DEFINE abs(n) == IF n < 0 THEN -n ELSE n
<1>9. /\ Manhattan(p, g) = abs(x - gx) + abs(y - gy) + abs(z - gz)
      /\ Manhattan(q, g) = abs(x + dx - gx) + abs(y + dy - gy) + abs(z + dz - gz)
  BY <1>5, <1>6, <1>7 DEF Manhattan
<1>10. /\ abs(x - gx) + abs(z - gz) <= abs(x + dx - gx) + abs(z + dz - gz) + 1
       /\ abs(y - gy) <= abs(y + dy - gy) + 1
  BY <1>4
<1>11. Manhattan(p, g) <= Manhattan(q, g) + 2
  BY <1>9, <1>10
<1>12. ASSUME q[2] = p[2]
       PROVE  Manhattan(p, g) <= Manhattan(q, g) + 1
  <2>1. dy = 0
    BY <1>5, <1>7, <1>12
  <2>2. abs(y - gy) = abs(y + dy - gy)
    BY <2>1
  <2> QED
    BY <1>9, <1>10, <2>2
<1> QED
  BY <1>3, <1>8, <1>11, <1>12

LEMMA StepCosts ==
    ASSUME NEW p, NEW q
    PROVE  /\ StepCost(p, q) \in Nat \ {0}
           /\ StepCost(p, q) <= HorizontalCost + StairCost + SupportCost
           /\ p[2] = q[2] => StepCost(p, q) >= HorizontalCost
           /\ p[2] # q[2] => StepCost(p, q) >= StairCost
BY RouterAssumption DEF StepCost

-----------------------------------------------------------------------------
(* What a search knows.                                                    *)

\* Where a search got to, at what costs, and from where: from somewhere that
\* is nearer to the start.
IsTree(costs, previous) ==
    /\ DOMAIN costs \subseteq Position
    /\ \A p \in DOMAIN costs : costs[p] \in Nat
    /\ \E most \in Nat : \A p \in DOMAIN costs : costs[p] <= most
    /\ DOMAIN previous \subseteq DOMAIN costs
    /\ \A p \in DOMAIN previous : previous[p] \in DOMAIN costs /\ costs[previous[p]] < costs[p]

\* What PathTo defines.
FollowsBack(path, D, previous) ==
    path = [p \in D |-> IF p \in DOMAIN previous THEN Append(path[previous[p]], p) ELSE <<p>>]

\* Going back from a position to the one it was reached from ends.
LEMMA PathsAreDefined ==
    ASSUME NEW costs, NEW previous, IsTree(costs, previous)
    PROVE  \E path : FollowsBack(path, DOMAIN costs, previous)
<1> DEFINE near(k) == {p \in DOMAIN costs : costs[p] <= k}
           S == {k \in Nat : \E path : FollowsBack(path, near(k), previous)}
<1>1. PICK most \in Nat : \A p \in DOMAIN costs : costs[p] <= most
  BY DEF IsTree
<1>2. /\ \A p \in DOMAIN costs : costs[p] \in Nat
      /\ \A p \in DOMAIN previous : /\ p \in DOMAIN costs /\ previous[p] \in DOMAIN costs
                                    /\ costs[previous[p]] < costs[p]
  BY DEF IsTree
<1>3. 0 \in S
  <2>1. \A p \in near(0) : p \notin DOMAIN previous
    BY <1>2
  <2> DEFINE path == [p \in near(0) |-> <<p>>]
  <2> HIDE DEF near
  <2>2. FollowsBack(path, near(0), previous)
    BY <2>1 DEF FollowsBack
  <2> QED
    BY <2>2
<1>4. ASSUME NEW k \in Nat, k \in S
      PROVE  k + 1 \in S
  <2>1. PICK path : FollowsBack(path, near(k), previous)
    BY <1>4
  <2> DEFINE longer == [p \in near(k + 1) |-> IF p \in DOMAIN previous THEN Append(path[previous[p]], p) ELSE <<p>>]
  <2>2. \A p \in near(k + 1) : p \in DOMAIN previous => previous[p] \in near(k)
    BY <1>2
  <2>3. near(k) \subseteq near(k + 1)
    BY <1>2
  <2> HIDE DEF near
  <2>4. \A p \in near(k) : longer[p] = path[p]
    BY <2>1, <2>3 DEF FollowsBack
  <2>5. \A p \in near(k + 1) : p \in DOMAIN previous => path[previous[p]] = longer[previous[p]]
    BY <2>2, <2>4
  <2>6. longer = [p \in near(k + 1) |-> IF p \in DOMAIN previous THEN Append(longer[previous[p]], p) ELSE <<p>>]
    <3>1. PICK l : l = longer
      OBVIOUS
    <3>2. l = [p \in near(k + 1) |-> IF p \in DOMAIN previous THEN Append(path[previous[p]], p) ELSE <<p>>]
      BY <3>1
    <3>3. \A p \in near(k + 1) : p \in DOMAIN previous => path[previous[p]] = l[previous[p]]
      BY <2>5, <3>1
    <3>4. l = [p \in near(k + 1) |-> IF p \in DOMAIN previous THEN Append(l[previous[p]], p) ELSE <<p>>]
      BY <3>2, <3>3
    <3> QED
      BY <3>1, <3>4
  <2>7. FollowsBack(longer, near(k + 1), previous)
    BY <2>6, Zenon DEF FollowsBack
  <2> QED
    BY <2>7
<1>5. most \in S
  <2> HIDE DEF S
  <2>1. 0..most \subseteq S
    BY <1>3, <1>4, CountingUp
  <2> QED
    BY <2>1
<1>6. near(most) = DOMAIN costs
  BY <1>1
<1> QED
  BY <1>5, <1>6

LEMMA PathsGoThroughPositions ==
    ASSUME NEW costs, NEW previous, IsTree(costs, previous),
           NEW path, FollowsBack(path, DOMAIN costs, previous), NEW p \in DOMAIN costs
    PROVE  path[p] \in Seq(Position)
<1> DEFINE S == {k \in Nat : \A q \in DOMAIN costs : costs[q] <= k => path[q] \in Seq(Position)}
<1>1. /\ \A q \in DOMAIN costs : costs[q] \in Nat /\ q \in Position
      /\ \A q \in DOMAIN previous : /\ previous[q] \in DOMAIN costs /\ costs[previous[q]] < costs[q]
  BY DEF IsTree
<1>2. \A q \in DOMAIN costs : path[q] = IF q \in DOMAIN previous THEN Append(path[previous[q]], q) ELSE <<q>>
  BY DEF FollowsBack
<1>3. ASSUME NEW q \in Position
      PROVE  <<q>> \in Seq(Position) /\ \A s \in Seq(Position) : Append(s, q) \in Seq(Position)
  OBVIOUS
<1>4. 0 \in S
  <2> SUFFICES ASSUME NEW q \in DOMAIN costs, costs[q] <= 0
               PROVE  path[q] \in Seq(Position)
    OBVIOUS
  <2>1. q \notin DOMAIN previous
    BY <1>1
  <2>2. path[q] = <<q>>
    BY <2>1, <1>2
  <2> QED
    BY <2>2, <1>1, <1>3
<1>5. ASSUME NEW k \in Nat, k \in S
      PROVE  k + 1 \in S
  <2> SUFFICES ASSUME NEW q \in DOMAIN costs, costs[q] <= k + 1
               PROVE  path[q] \in Seq(Position)
    OBVIOUS
  <2>1. CASE q \in DOMAIN previous
    <3>1. previous[q] \in DOMAIN costs /\ costs[previous[q]] <= k
      BY <2>1, <1>1
    <3>2. path[previous[q]] \in Seq(Position)
      BY <3>1, <1>5
    <3>3. path[q] = Append(path[previous[q]], q)
      BY <2>1, <1>2
    <3> QED
      BY <3>2, <3>3, <1>1, <1>3
  <2>2. CASE q \notin DOMAIN previous
    <3>1. path[q] = <<q>>
      BY <2>2, <1>2
    <3> QED
      BY <3>1, <1>1, <1>3
  <2> QED
    BY <2>1, <2>2
<1>6. costs[p] \in S
  <2> HIDE DEF S
  <2>1. costs[p] \in Nat
    BY <1>1
  <2>2. 0..costs[p] \subseteq S
    BY <1>4, <1>5, <2>1, CountingUp
  <2> QED
    BY <2>1, <2>2
<1> QED
  BY <1>1, <1>6

LEMMA PathToIsAPath ==
    ASSUME IsTree(search.costs, search.previous), NEW p \in DOMAIN search.costs
    PROVE  PathTo(p) \in Seq(Position)
<1>1. PICK path : path = CHOOSE f : FollowsBack(f, DOMAIN search.costs, search.previous)
  OBVIOUS
<1>2. FollowsBack(path, DOMAIN search.costs, search.previous)
  BY <1>1, PathsAreDefined
<1>3. PathTo(p) = path[p]
  BY <1>1, Zenon DEF PathTo, FollowsBack
<1> QED
  BY <1>2, <1>3, PathsGoThroughPositions

Entries == Nat \X Nat \X Position

IsSearch ==
    /\ DOMAIN search = {"queue", "serial", "expanded", "costs", "previous"}
    /\ search.queue \subseteq Entries /\ search.serial \in Nat /\ search.expanded \in Nat
    /\ IsTree(search.costs, search.previous)
    /\ goals.start \in DOMAIN search.costs /\ search.costs[goals.start] = 0
    /\ \A e \in search.queue : /\ e[3] \in DOMAIN search.costs
                               /\ Rank(e[3], search.costs[e[3]]) <= e[1]

IsGoals ==
    /\ DOMAIN goals = {"start", "goal", "left", "tries", "blocked", "best", "cost"}
    /\ goals.start \in Position /\ goals.left \subseteq Position /\ IsFiniteSet(goals.left)
    /\ goals.left # {} => goals.goal \in goals.left
    /\ goals.best \in Seq(Position)

Sinks == DOMAIN Jobs[net.id].sinks

\* What the router works with has the form it has to have.
TypesInv ==
    /\ Working => /\ net.left \in Seq(Sinks) /\ net.joinable \subseteq Position
                  /\ IsFiniteSet(net.joinable) /\ net.joinable # {}
    /\ stage \in {"goals", "search"} => net.left # <<>> /\ IsGoals
    /\ stage = "search" => goals.left # {} /\ IsSearch

\* The entry that is popped is in the queue, and none has a lower rank.
LEMMA PoppedIsLeast ==
    ASSUME search.queue \subseteq Entries, search.queue # {}
    PROVE  Popped \in search.queue /\ \A d \in search.queue : Popped[1] <= d[1]
<1> DEFINE Q == search.queue
           ranks == {e[1] : e \in Q}
<1>1. \A e \in Q : e[1] \in Nat /\ e[2] \in Nat
  BY DEF Entries
<1>2. PICK r \in ranks : \A n \in ranks : r <= n
  <2>1. ranks \subseteq Nat /\ ranks # {}
    BY <1>1
  <2> HIDE DEF ranks
  <2> QED
    BY <2>1, LeastNatural
<1> DEFINE serials == {e[2] : e \in {d \in Q : d[1] = r}}
<1>3. PICK s \in serials : \A n \in serials : s <= n
  <2>1. serials \subseteq Nat /\ serials # {}
    BY <1>1, <1>2
  <2> HIDE DEF serials
  <2> QED
    BY <2>1, LeastNatural
<1>4. PICK e \in Q : e[1] = r /\ e[2] = s
  BY <1>3
<1>5. \A d \in Q : r <= d[1] /\ (d[1] = r => s <= d[2])
  BY <1>2, <1>3
<1>6. r \in Nat
  BY <1>1, <1>2
<1>7. \E x \in Q : \A d \in Q : x[1] < d[1] \/ (x[1] = d[1] /\ x[2] <= d[2])
  <2>1. \A d \in Q : e[1] < d[1] \/ (e[1] = d[1] /\ e[2] <= d[2])
    BY <1>1, <1>4, <1>5, <1>6
  <2> QED
    BY <2>1
<1>8. Popped \in Q /\ \A d \in Q : Popped[1] < d[1] \/ (Popped[1] = d[1] /\ Popped[2] <= d[2])
  BY <1>7 DEF Popped
<1> QED
  BY <1>1, <1>8

-----------------------------------------------------------------------------
(* Expanding a position.                                                   *)

\* Nothing is gained by a step from p.
IsSettled(costs, p) ==
    \A i \in 1..12 : LET q == Neighbor(p, i)
                     IN  MayStep(q) => q \in DOMAIN costs /\ costs[q] <= costs[p] + StepCost(p, q)

IsQueued(entries, p, rank) == \E e \in entries : e[3] = p /\ e[1] = rank

\* A position the search got to waits to be expanded, at the rank it has
\* now, or nothing is gained by a step from it.
FrontierInv ==
    stage = "search" =>
        \A p \in DOMAIN search.costs :
            IsSettled(search.costs, p) \/ IsQueued(search.queue, p, Rank(p, search.costs[p]))

LEMMA WhatExpandDoes ==
    ASSUME IsSearch, Expand, goals.goal \in Position
    PROVE  /\ Popped \in search.queue /\ Popped[3] \in DOMAIN search.costs /\ Popped[3] \in Position
           /\ DOMAIN search' = {"queue", "serial", "expanded", "costs", "previous"}
           /\ search'.serial \in Nat /\ search'.expanded \in Nat
           /\ \E reached \in SUBSET Position :
                /\ \A q \in reached : \E i \in 1..12 : q = Neighbor(Popped[3], i)
                /\ \A i \in 1..12 :
                     LET q == Neighbor(Popped[3], i)
                     IN  q \in reached <=> /\ MayStep(q)
                                           /\ \/ q \notin DOMAIN search.costs
                                              \/ CostThrough(Popped[3], q) < search.costs[q]
                /\ search'.costs = Updated(search.costs, [q \in reached |-> CostThrough(Popped[3], q)])
                /\ search'.previous = Updated(search.previous, [q \in reached |-> Popped[3]])
                /\ \A e \in search'.queue : \/ e \in search.queue
                                            \/ /\ e \in Entries /\ e[3] \in reached
                                               /\ e[1] = Rank(e[3], CostThrough(Popped[3], e[3]))
                /\ \A e \in search.queue \ {Popped} : e \in search'.queue
                /\ \A q \in reached : IsQueued(search'.queue, q, Rank(q, CostThrough(Popped[3], q)))
<1>1. search.queue # {}
  BY DEF Expand
<1>2. PICK popped : popped = Popped
  OBVIOUS
<1>3. popped \in search.queue /\ popped \in Entries /\ popped[3] \in DOMAIN search.costs
  BY <1>1, <1>2, PoppedIsLeast DEF IsSearch
<1>4. PICK p : p = popped[3]
  OBVIOUS
<1>5. p \in Position /\ search.costs[p] \in Nat /\ p \in DOMAIN search.costs
  BY <1>3, <1>4 DEF IsSearch, IsTree
<1>6. PICK better : better = Cheaper(p)
  OBVIOUS
<1>7. PICK reached : reached = {Neighbor(p, i) : i \in better}
  OBVIOUS
<1> DEFINE serial(i) == search.serial + Cardinality({j \in better : j <= i})
           entry(i) == <<Rank(Neighbor(p, i), CostThrough(p, Neighbor(p, i))), serial(i), Neighbor(p, i)>>
<1>8. /\ search'.queue = (search.queue \ {popped}) \cup {entry(i) : i \in better}
      /\ search'.serial = search.serial + Cardinality(better)
      /\ search'.expanded = search.expanded + 1
      /\ search'.costs = Updated(search.costs, [q \in reached |-> CostThrough(p, q)])
      /\ search'.previous = Updated(search.previous, [q \in reached |-> p])
      /\ DOMAIN search' = {"queue", "serial", "expanded", "costs", "previous"}
  BY <1>2, <1>4, <1>6, <1>7 DEF Expand
<1>9. better \subseteq 1..12 /\ \A T \in SUBSET better : IsFiniteSet(T) /\ Cardinality(T) \in Nat
  <2>1. better \subseteq 1..12
    BY <1>6, MovesEnd DEF Cheaper
  <2>2. IsFiniteSet(1..12)
    <3>1. PICK a, b : a = 1 /\ b = 12
      OBVIOUS
    <3>2. a \in Int /\ b \in Int
      BY <3>1
    <3>3. IsFiniteSet(a..b)
      BY <3>2, FS_Interval
    <3> QED
      BY <3>1, <3>3
  <2>3. \A T \in SUBSET better : T \in SUBSET (1..12)
    BY <2>1
  <2> QED
    BY <2>1, <2>2, <2>3, FS_Subset, FS_CardinalityType
<1>10. search'.serial \in Nat /\ search'.expanded \in Nat /\ \A i \in better : serial(i) \in Nat
  <2>1. search.serial \in Nat /\ search.expanded \in Nat
    BY DEF IsSearch
  <2>2. \A i \in better : {j \in better : j <= i} \in SUBSET better
    OBVIOUS
  <2> QED
    BY <1>8, <1>9, <2>1, <2>2
<1>11. \A q \in reached : q \in Position /\ \E i \in better : q = Neighbor(p, i)
  BY <1>5, <1>7, <1>9, NeighborsAreNear
<1>12. \A i \in 1..12 :
         LET q == Neighbor(p, i)
         IN  q \in reached <=> MayStep(q) /\ (q \notin DOMAIN search.costs \/ CostThrough(p, q) < search.costs[q])
  <2> SUFFICES ASSUME NEW i \in 1..12, NEW q, q = Neighbor(p, i)
               PROVE  q \in reached <=> MayStep(q) /\ (q \notin DOMAIN search.costs \/ CostThrough(p, q) < search.costs[q])
    OBVIOUS
  <2>1. \A j \in 1..12 : j \in better <=>
          /\ MayStep(Neighbor(p, j))
          /\ \/ Neighbor(p, j) \notin DOMAIN search.costs
             \/ CostThrough(p, Neighbor(p, j)) < search.costs[Neighbor(p, j)]
    BY <1>6, MovesEnd DEF Cheaper
  <2>2. q \in reached <=> \E j \in better : q = Neighbor(p, j)
    BY <1>7
  <2> QED
    BY <1>9, <2>1, <2>2
<1>13. \A q \in reached : CostThrough(p, q) \in Nat /\ Rank(q, CostThrough(p, q)) \in Nat
  <2> TAKE q \in reached
  <2>1. StepCost(p, q) \in Nat
    BY StepCosts
  <2>2. CostThrough(p, q) \in Nat
    BY <1>5, <2>1 DEF CostThrough
  <2>3. Manhattan(q, goals.goal) \in Nat
    BY <1>11, ManhattanIsNat
  <2> QED
    BY <2>2, <2>3 DEF Rank
<1>14. \A i \in better : /\ entry(i) \in Entries /\ entry(i)[3] \in reached
                         /\ entry(i)[1] = Rank(entry(i)[3], CostThrough(p, entry(i)[3]))
  <2> TAKE i \in better
  <2>1. Neighbor(p, i) \in reached
    BY <1>7
  <2> QED
    BY <1>10, <1>11, <1>13, <2>1 DEF Entries
<1>15. \A e \in search'.queue : \/ e \in search.queue
                                \/ e \in Entries /\ e[3] \in reached /\ e[1] = Rank(e[3], CostThrough(p, e[3]))
  BY <1>8, <1>14
<1>16. \A q \in reached : IsQueued(search'.queue, q, Rank(q, CostThrough(p, q)))
  <2> TAKE q \in reached
  <2>1. PICK i \in better : q = Neighbor(p, i)
    BY <1>11
  <2>2. entry(i) \in search'.queue /\ entry(i)[3] = q /\ entry(i)[1] = Rank(q, CostThrough(p, q))
    BY <1>8, <2>1
  <2> QED
    BY <2>2 DEF IsQueued
<1>17. \A e \in search.queue \ {popped} : e \in search'.queue
  BY <1>8
<1>18. reached \in SUBSET Position
  BY <1>11
<1>19. \A q \in reached : \E i \in 1..12 : q = Neighbor(p, i)
  BY <1>9, <1>11
<1>20. p = Popped[3] /\ popped = Popped
  BY <1>2, <1>4
<1> HIDE DEF serial, entry
<1> QED
  BY <1>3, <1>5, <1>8, <1>10, <1>12, <1>15, <1>16, <1>17, <1>18, <1>19, <1>20

\* The tree of the search grows or gets better.
LEMMA ExpandKeepsSearch ==
    ASSUME IsSearch, Expand, goals.goal \in Position
    PROVE  /\ IsSearch'
           /\ (\A p \in DOMAIN search.costs :
                 IsSettled(search.costs, p) \/ IsQueued(search.queue, p, Rank(p, search.costs[p])))
              => (\A p \in DOMAIN search.costs :
                    IsSettled(search.costs, p) \/ IsQueued(search.queue, p, Rank(p, search.costs[p])))'
<1>1. PICK popped, p : popped = Popped /\ p = Popped[3]
  OBVIOUS
<1>2. /\ popped \in search.queue /\ p \in DOMAIN search.costs /\ p \in Position
      /\ DOMAIN search' = {"queue", "serial", "expanded", "costs", "previous"}
      /\ search'.serial \in Nat /\ search'.expanded \in Nat
  BY <1>1, WhatExpandDoes
<1>3. PICK reached \in SUBSET Position :
        /\ \A q \in reached : \E i \in 1..12 : q = Neighbor(p, i)
        /\ \A i \in 1..12 :
             LET q == Neighbor(p, i)
             IN  q \in reached <=> MayStep(q) /\ (q \notin DOMAIN search.costs \/ CostThrough(p, q) < search.costs[q])
        /\ search'.costs = Updated(search.costs, [q \in reached |-> CostThrough(p, q)])
        /\ search'.previous = Updated(search.previous, [q \in reached |-> p])
        /\ \A e \in search'.queue :
             \/ e \in search.queue
             \/ e \in Entries /\ e[3] \in reached /\ e[1] = Rank(e[3], CostThrough(p, e[3]))
        /\ \A e \in search.queue \ {popped} : e \in search'.queue
        /\ \A q \in reached : IsQueued(search'.queue, q, Rank(q, CostThrough(p, q)))
  BY <1>1, WhatExpandDoes
<1>4. PICK old, new, came, comes : /\ old = search.costs /\ new = search'.costs
                                   /\ came = search.previous /\ comes = search'.previous
  OBVIOUS
<1>5. /\ DOMAIN new = DOMAIN old \cup reached
      /\ \A q \in reached : new[q] = CostThrough(p, q)
      /\ \A q \in DOMAIN old \ reached : new[q] = old[q]
  BY <1>3, <1>4 DEF Updated
<1>6. /\ DOMAIN comes = DOMAIN came \cup reached
      /\ \A q \in reached : comes[q] = p
      /\ \A q \in DOMAIN came \ reached : comes[q] = came[q]
  BY <1>3, <1>4 DEF Updated
<1>7. IsTree(old, came)
  BY <1>4 DEF IsSearch
<1>8. \A q \in DOMAIN old : old[q] \in Nat
  BY <1>7 DEF IsTree
<1>9. \A q \in reached : /\ CostThrough(p, q) \in Nat /\ old[p] < CostThrough(p, q)
                         /\ CostThrough(p, q) = old[p] + StepCost(p, q)
                         /\ CostThrough(p, q) <= old[p] + (HorizontalCost + StairCost + SupportCost)
                         /\ q \in DOMAIN old => CostThrough(p, q) < old[q]
  <2> SUFFICES ASSUME NEW q \in reached
               PROVE  /\ CostThrough(p, q) \in Nat /\ old[p] < CostThrough(p, q)
                      /\ CostThrough(p, q) = old[p] + StepCost(p, q)
                      /\ CostThrough(p, q) <= old[p] + (HorizontalCost + StairCost + SupportCost)
                      /\ q \in DOMAIN old => CostThrough(p, q) < old[q]
    OBVIOUS
  <2>1. CostThrough(p, q) = old[p] + StepCost(p, q)
    BY <1>4 DEF CostThrough
  <2>2. /\ StepCost(p, q) \in Nat \ {0} /\ HorizontalCost + StairCost + SupportCost \in Nat
        /\ StepCost(p, q) <= HorizontalCost + StairCost + SupportCost
    BY StepCosts, RouterAssumption
  <2>3. old[p] \in Nat
    BY <1>2, <1>4, <1>8
  <2>4. PICK i \in 1..12 : q = Neighbor(p, i)
    BY <1>3
  <2>5. q \in DOMAIN old => CostThrough(p, q) < old[q]
    BY <1>3, <1>4, <2>4
  <2> QED
    BY <2>1, <2>2, <2>3, <2>5
<1>10. p \notin reached /\ p \in DOMAIN old
  BY <1>2, <1>3, <1>4, NeighborsAreNear
<1>11. \A q \in DOMAIN old : new[q] \in Nat /\ new[q] <= old[q]
  BY <1>5, <1>8, <1>9
<1>12. IsTree(new, comes)
  <2>1. DOMAIN new \subseteq Position /\ \A q \in DOMAIN new : new[q] \in Nat
    BY <1>3, <1>5, <1>7, <1>9, <1>11 DEF IsTree
  <2>2. \E most \in Nat : \A q \in DOMAIN new : new[q] <= most
    <3>1. PICK most \in Nat : \A q \in DOMAIN old : old[q] <= most
      BY <1>7 DEF IsTree
    <3>2. PICK step \in Nat : step = HorizontalCost + StairCost + SupportCost
      BY RouterAssumption
    <3>3. \A q \in DOMAIN old : new[q] <= most + step
      BY <1>8, <1>11, <3>1
    <3>4. \A q \in reached : new[q] <= most + step
      BY <1>5, <1>8, <1>9, <1>10, <3>1, <3>2
    <3>5. most + step \in Nat
      OBVIOUS
    <3> QED
      BY <1>5, <3>3, <3>4, <3>5
  <2>3. DOMAIN comes \subseteq DOMAIN new
    BY <1>5, <1>6, <1>7 DEF IsTree
  <2>4. \A q \in DOMAIN comes : comes[q] \in DOMAIN new /\ new[comes[q]] < new[q]
    <3> TAKE q \in DOMAIN comes
    <3>1. CASE q \in reached
      BY <1>5, <1>6, <1>9, <1>10, <3>1
    <3>2. CASE q \notin reached
      <4>1. q \in DOMAIN came /\ q \in DOMAIN old /\ comes[q] = came[q] /\ came[q] \in DOMAIN old
            /\ old[came[q]] < old[q] /\ new[q] = old[q]
        BY <1>5, <1>6, <1>7, <3>2 DEF IsTree
      <4> QED
        BY <1>5, <1>8, <1>11, <4>1
    <3> QED
      BY <3>1, <3>2
  <2> QED
    BY <2>1, <2>2, <2>3, <2>4 DEF IsTree
<1>13. UNCHANGED <<problem, goals>>
  BY DEF Expand
<1>14. \A e \in search'.queue : e \in Entries /\ e[3] \in DOMAIN new /\ Rank(e[3], new[e[3]]) <= e[1]
  <2> SUFFICES ASSUME NEW e \in search'.queue
               PROVE  e \in Entries /\ e[3] \in DOMAIN new /\ Rank(e[3], new[e[3]]) <= e[1]
    OBVIOUS
  <2>1. CASE e \in search.queue
    <3>1. e \in Entries /\ e[3] \in DOMAIN old /\ Rank(e[3], old[e[3]]) <= e[1]
      BY <1>4, <2>1 DEF IsSearch
    <3>2. e[3] \in Position /\ e[1] \in Nat
      BY <3>1 DEF Entries
    <3>3. PICK far \in Nat : far = Manhattan(e[3], goals.goal)
      BY <3>2, ManhattanIsNat
    <3>4. new[e[3]] \in Nat /\ old[e[3]] \in Nat /\ new[e[3]] <= old[e[3]]
      BY <1>8, <1>11, <3>1
    <3>5. Rank(e[3], new[e[3]]) <= e[1]
      BY <3>1, <3>2, <3>3, <3>4 DEF Rank
    <3> QED
      BY <1>5, <3>1, <3>5
  <2>2. CASE e \in Entries /\ e[3] \in reached /\ e[1] = Rank(e[3], CostThrough(p, e[3]))
    <3>1. e[1] \in Nat /\ e[1] = Rank(e[3], new[e[3]]) /\ e[3] \in DOMAIN new
      BY <1>5, <2>2 DEF Entries
    <3> QED
      BY <2>2, <3>1
  <2> QED
    BY <1>3, <2>1, <2>2
<1>15. IsSearch'
  <2>1. goals.start \in DOMAIN new /\ new[goals.start] = 0
    <3>1. goals.start \in DOMAIN old /\ old[goals.start] = 0
      BY <1>4 DEF IsSearch
    <3> QED
      BY <1>5, <1>11, <3>1
  <2> QED
    BY <1>2, <1>4, <1>12, <1>13, <1>14, <2>1 DEF IsSearch, Rank
<1>16. ASSUME \A q \in DOMAIN old : IsSettled(old, q) \/ IsQueued(search.queue, q, Rank(q, old[q])),
              NEW x \in DOMAIN new
       PROVE  IsSettled(new, x) \/ IsQueued(search'.queue, x, Rank(x, new[x]))
  <2>1. CASE x \in reached
    BY <1>3, <1>5, <2>1
  <2>2. CASE x = p
    <3> SUFFICES ASSUME NEW i \in 1..12, NEW q, q = Neighbor(p, i), MayStep(q)
                 PROVE  q \in DOMAIN new /\ new[q] <= new[p] + StepCost(p, q)
      BY <2>2 DEF IsSettled
    <3>1. new[p] = old[p] /\ old[p] \in Nat /\ StepCost(p, q) \in Nat /\ CostThrough(p, q) = old[p] + StepCost(p, q)
      BY <1>4, <1>5, <1>8, <1>10, StepCosts DEF CostThrough
    <3>2. CASE q \in reached
      BY <1>5, <1>9, <3>1, <3>2
    <3>3. CASE q \notin reached
      <4>1. q \in DOMAIN old /\ ~(CostThrough(p, q) < old[q])
        BY <1>3, <1>4, <3>3
      <4> QED
        BY <1>5, <1>8, <3>1, <3>3, <4>1
    <3> QED
      BY <3>2, <3>3
  <2>3. CASE x \notin reached /\ x # p
    <3>1. x \in DOMAIN old /\ new[x] = old[x]
      BY <1>5, <2>3
    <3>2. CASE IsSettled(old, x)
      <4>1. \A i \in 1..12 : MayStep(Neighbor(x, i)) =>
              Neighbor(x, i) \in DOMAIN new /\ new[Neighbor(x, i)] <= new[x] + StepCost(x, Neighbor(x, i))
        <5> SUFFICES ASSUME NEW i \in 1..12, NEW q, q = Neighbor(x, i), MayStep(q)
                     PROVE  q \in DOMAIN new /\ new[q] <= new[x] + StepCost(x, q)
          OBVIOUS
        <5>1. q \in DOMAIN old /\ old[q] <= old[x] + StepCost(x, q)
          BY <3>2 DEF IsSettled
        <5>2. StepCost(x, q) \in Nat /\ old[x] \in Nat /\ old[q] \in Nat /\ new[q] \in Nat /\ new[q] <= old[q]
          BY <1>8, <1>11, <3>1, <5>1, StepCosts
        <5> QED
          BY <1>5, <3>1, <5>1, <5>2
      <4> QED
        BY <4>1 DEF IsSettled
    <3>3. CASE IsQueued(search.queue, x, Rank(x, old[x]))
      <4>1. PICK e \in search.queue : e[3] = x /\ e[1] = Rank(x, old[x])
        BY <3>3 DEF IsQueued
      <4>2. e # popped
        BY <1>1, <2>3, <4>1
      <4>3. e \in search'.queue
        BY <1>3, <4>2
      <4> QED
        BY <3>1, <4>1, <4>3 DEF IsQueued
    <3> QED
      BY <1>16, <3>1, <3>2, <3>3
  <2> QED
    BY <2>1, <2>2, <2>3
<1>17. \A q, c : Rank(q, c)' = Rank(q, c)
  BY <1>13 DEF Rank
<1>18. \A c, q : IsSettled(c, q)' = IsSettled(c, q)
  BY <1>13 DEF IsSettled, MayStep, Routeable, StepCost, KindSeen
<1> QED
  BY <1>4, <1>15, <1>16, <1>17, <1>18

-----------------------------------------------------------------------------
(* The types of what the router works with.                                *)

LEMMA PortsHavePlaces ==
    ASSUME NEW port, IsPort(port)
    PROVE  Terminal(port) \in Position /\ Approach(port) \in Position
<1>1. \A f \in Horizontal : Offset[f] \in Position
  BY DEF Horizontal, Offset, Position
<1>2. \A p \in Position, f \in Horizontal : Side(p, f) \in Position
  <2> TAKE p \in Position, f \in Horizontal
  <2>1. PICK d \in Position : d = Offset[f]
    BY <1>1
  <2>2. /\ p[1] \in Int /\ p[2] \in Int /\ p[3] \in Int
        /\ d[1] \in Int /\ d[2] \in Int /\ d[3] \in Int
    BY DEF Position
  <2>3. Side(p, f) = <<p[1] + d[1], p[2] + d[2], p[3] + d[3]>>
    BY <2>1 DEF Side, Plus
  <2> QED
    BY <2>2, <2>3 DEF Position
<1>3. Terminal(port) \in Position
  BY <1>2 DEF IsPort, Terminal
<1>4. port.facing = "none" \/ port.facing \in Horizontal
  BY DEF IsPort
<1> QED
  BY <1>2, <1>3, <1>4 DEF Approach

\* The sinks are taken in an order that has each of them once.
LEMMA SinkOrderEnumerates ==
    ASSUME NEW job, IsJob(job)
    PROVE  SinkOrder(job) \in Seq(DOMAIN job.sinks)
<1> DEFINE S == DOMAIN job.sinks
           far(k) == Manhattan(Terminal(job.source), Approach(job.sinks[k]))
           first(k, l) == far(k) < far(l) \/ (far(k) = far(l) /\ k < l)
           R == {kl \in S \X S : first(kl[1], kl[2])}
           placed == {<<Cardinality({y \in S \ {x} : first(y, x)}) + 1, x>> : x \in S}
<1>1. \A k, l \in S : <<k, l>> \in R <=> first(k, l)
  OBVIOUS
<1>2. \A k \in S : k \in Nat /\ far(k) \in Nat
  <2> TAKE k \in S
  <2>1. IsPort(job.source) /\ IsPort(job.sinks[k]) /\ k \in Nat
    BY DEF IsJob, On
  <2> QED
    BY <2>1, PortsHavePlaces, ManhattanIsNat
<1>3. Orders(R, S)
  <2> HIDE DEF R, S, far
  <2>1. \A x, y \in S : x # y => first(x, y) \/ first(y, x)
    BY <1>2
  <2>2. \A x, y \in S : ~(first(x, y) /\ first(y, x))
    BY <1>2
  <2>3. \A x, y, z \in S : first(x, y) /\ first(y, z) => first(x, z)
    BY <1>2
  <2> HIDE DEF first
  <2> QED
    BY <1>1, <2>1, <2>2, <2>3 DEF Orders
<1>4. placed = Placed(R, S)
  <2>1. \A x \in S : {y \in S \ {x} : <<y, x>> \in R} = {y \in S \ {x} : first(y, x)}
    <3> HIDE DEF R, S, first
    <3> QED
      BY <1>1
  <2> HIDE DEF R, S, first
  <2> QED
    BY <2>1 DEF Placed
<1>5. SinkOrder(job) = Listed(placed, Cardinality(S))
  BY DEF SinkOrder, Sorted, Listed
<1>6. IsFiniteSet(S)
  <2>1. S = 1..Len(job.sinks) /\ 1 \in Int /\ Len(job.sinks) \in Int
    BY DEF IsJob
  <2> HIDE DEF S
  <2> QED
    BY <2>1, FS_Interval
<1> HIDE DEF placed, R, S
<1>7. Enumerates(SinkOrder(job), S)
  BY <1>3, <1>4, <1>5, <1>6, SortedEnumerates
<1> QED
  BY <1>7 DEF Enumerates, S

LEMMA TypesAtFirst == Init => TypesInv
BY DEF Init, TypesInv, Working

LEMMA GoalsStay ==
    ASSUME IsGoals, goals.left # {}, NEW best \in Seq(Position), NEW cost, NextGoal(best, cost)
    PROVE  IsGoals'
<1> DEFINE left == goals.left \ {goals.goal}
<1>1. left \subseteq Position /\ IsFiniteSet(left)
  BY FS_RemoveElement DEF IsGoals
<1>2. left # {} => FirstOf(left) \in left
  BY <1>1, FirstIsThere
<1>3. goals' = [goals EXCEPT !.left = left, !.goal = IF left = {} THEN Nothing ELSE FirstOf(left),
                             !.tries = MaxTries, !.blocked = net.blocked, !.best = best, !.cost = cost]
  BY DEF NextGoal
<1> HIDE DEF left
<1>4. /\ DOMAIN goals' = DOMAIN goals
      /\ goals'.start = goals.start /\ goals'.left = left /\ goals'.best = best
      /\ goals'.goal = IF left = {} THEN Nothing ELSE FirstOf(left)
  BY <1>3 DEF IsGoals
<1> QED
  BY <1>1, <1>2, <1>4 DEF IsGoals

LEMMA RoutingKeepsTypes ==
    ASSUME KeptInv, TypesInv, RoutingStep
    PROVE  TypesInv'
<1> USE DEF Working
<1>1. ASSUME TakeNet
      PROVE  TypesInv'
  <2>1. /\ Head(pending) \in DOMAIN Jobs /\ Jobs' = Jobs /\ problem \in Problems /\ stage' = "sinks"
        /\ net'.id = Head(pending)
        /\ net'.left = SinkOrder(Jobs[Head(pending)])
        /\ net'.joinable = {Terminal(Jobs[Head(pending)].source)}
    BY <1>1, FirstAndRest DEF TakeNet, KeptInv, Jobs
  <2>2. PICK job : job = Jobs[Head(pending)]
    OBVIOUS
  <2>3. IsJob(job)
    BY <2>1, <2>2, TheProblem
  <2>4. SinkOrder(job) \in Seq(DOMAIN job.sinks) /\ Terminal(job.source) \in Position
    BY <2>3, SinkOrderEnumerates, PortsHavePlaces DEF IsJob
  <2>5. IsFiniteSet({Terminal(job.source)})
    BY FS_Singleton
  <2> QED
    BY <2>1, <2>2, <2>4, <2>5 DEF TypesInv, Sinks
<1>2. ASSUME GiveUp \/ Finish
      PROVE  TypesInv'
  BY <1>2 DEF GiveUp, Finish, TypesInv
<1>3. ASSUME EndNet
      PROVE  TypesInv'
  BY <1>3 DEF EndNet, Accept, Reject, TypesInv
<1>4. ASSUME TakeSink
      PROVE  TypesInv'
  <2>1. /\ stage = "sinks" /\ net.left # <<>> /\ stage' = "goals" /\ net' = net /\ Jobs' = Jobs
        /\ goals' = [start |-> Approach(Sink), goal |-> FirstOf(net.joinable), left |-> net.joinable,
                     tries |-> MaxTries, blocked |-> net.blocked, best |-> <<>>, cost |-> 0]
    BY <1>4 DEF TakeSink, Jobs
  <2>2. IsPort(Sink)
    <3>1. IsJob(Jobs[net.id]) /\ Head(net.left) \in DOMAIN Jobs[net.id].sinks
      BY <2>1, TheProblem DEF KeptInv, TypesInv, Sinks
    <3> QED
      BY <3>1 DEF IsJob, Sink, On
  <2>3. /\ net.left \in Seq(Sinks) /\ net.joinable \subseteq Position
        /\ IsFiniteSet(net.joinable) /\ net.joinable # {}
    BY <2>1 DEF TypesInv
  <2>4. Approach(Sink) \in Position /\ FirstOf(net.joinable) \in net.joinable
    BY <2>2, <2>3, PortsHavePlaces, FirstIsThere
  <2>5. <<>> \in Seq(Position)
    OBVIOUS
  <2>6. IsGoals'
    BY <2>1, <2>3, <2>4, <2>5 DEF IsGoals
  <2> QED
    BY <2>1, <2>3, <2>6 DEF TypesInv, Sinks
<1>5. ASSUME EndSink
      PROVE  TypesInv'
  <2>1. CASE Reject
    BY <2>1 DEF Reject, TypesInv
  <2>2. CASE ~Reject
    <3>1. PICK turned, branch :
            /\ turned = Reversed(goals.best)
            /\ branch = IF goals.start = Terminal(Sink) THEN turned ELSE Append(turned, Terminal(Sink))
            /\ net' = [net EXCEPT !.left = Tail(@), !.joinable = @ \cup On(AllBut(branch, 1)),
                                  !.blocked = @ \cup BranchStairClearances(branch),
                                  !.branches[Head(net.left)] = branch]
            /\ stage' = "sinks" /\ goals.best # <<>> /\ stage = "goals" /\ problem' = problem
      BY <1>5, <2>2 DEF EndSink
    <3>2. /\ net.left \in Seq(Sinks) /\ net.left # <<>> /\ net.joinable \subseteq Position
          /\ IsFiniteSet(net.joinable) /\ net.joinable # {} /\ IsGoals /\ IsNet(net)
      BY <3>1 DEF TypesInv, KeptInv
    <3>3. net'.id = net.id /\ net'.left = Tail(net.left) /\ net'.joinable = net.joinable \cup On(AllBut(branch, 1))
      BY <3>1, <3>2 DEF IsNet
    <3>4. turned \in Seq(Position)
      BY <3>1, <3>2, ReversedIsSame DEF IsGoals
    <3>5. Terminal(Sink) \in Position
      <4>1. IsJob(Jobs[net.id]) /\ Head(net.left) \in DOMAIN Jobs[net.id].sinks
        BY <3>1, <3>2, TheProblem DEF KeptInv, Sinks
      <4>2. IsPort(Sink)
        BY <4>1 DEF IsJob, Sink, On
      <4> QED
        BY <4>2, PortsHavePlaces
    <3>6. branch \in Seq(Position)
      BY <3>1, <3>4, <3>5
    <3>7. AllBut(branch, 1) \in Seq(Position)
      <4>1. Len(branch) - 1 \in Int /\ Len(branch) - 1 <= Len(branch)
        BY <3>6
      <4> QED
        BY <3>6, <4>1 DEF AllBut
    <3>8. On(AllBut(branch, 1)) \subseteq Position /\ IsFiniteSet(On(AllBut(branch, 1)))
      BY <3>7, OnIsFinite, OnIsTheRange
    <3>9. IsFiniteSet(net'.joinable)
      BY <3>2, <3>3, <3>8, FS_Union
    <3>10. net'.left \in Seq(Sinks)
      <4> HIDE DEF Sinks
      <4> QED
        BY <3>2, <3>3
    <3>11. Sinks' = Sinks
      BY <3>1, <3>3 DEF Sinks, Jobs
    <3> QED
      BY <3>1, <3>2, <3>3, <3>8, <3>9, <3>10, <3>11 DEF TypesInv
  <2> QED
    BY <2>1, <2>2
<1>6. ASSUME TakeGoal
      PROVE  TypesInv'
  <2>1. /\ stage = "goals" /\ stage' = "search" /\ UNCHANGED <<problem, net, goals>> /\ goals.left # {}
        /\ search' = [queue |-> {<<10 * Manhattan(goals.start, goals.goal), 0, goals.start>>}, serial |-> 0,
                      expanded |-> 0, costs |-> [p \in {goals.start} |-> 0], previous |-> <<>>]
    BY <1>6 DEF TakeGoal
  <2>2. IsGoals /\ goals.start \in Position /\ goals.goal \in Position
    BY <2>1 DEF TypesInv, IsGoals
  <2>3. Manhattan(goals.start, goals.goal) \in Nat
    BY <2>2, ManhattanIsNat
  <2>4. IsTree([p \in {goals.start} |-> 0], <<>>)
    BY <2>2 DEF IsTree
  <2>5. IsSearch'
    BY <2>1, <2>2, <2>3, <2>4 DEF IsSearch, Entries, Rank
  <2>6. IsGoals' /\ Sinks' = Sinks
    BY <2>1, <2>2 DEF IsGoals, Sinks, Jobs
  <2> QED
    BY <2>1, <2>5, <2>6 DEF TypesInv
<1>7. ASSUME SkipGoal \/ Miss \/ Arrive
      PROVE  TypesInv'
  <2>1. /\ stage \in {"goals", "search"} /\ stage' = "goals" /\ UNCHANGED <<problem, net>> /\ goals.left # {}
        /\ IsGoals
    BY <1>7 DEF SkipGoal, Miss, Arrive, TypesInv
  <2>2. \/ NextGoal(goals.best, goals.cost)
        \/ Arrive /\ \E cost : NextGoal(PathTo(goals.goal), cost)
        \/ \E blocked, tries : goals' = [goals EXCEPT !.blocked = blocked, !.tries = tries]
    BY <1>7 DEF SkipGoal, Miss, Arrive
  <2>3. CASE NextGoal(goals.best, goals.cost)
    <3>1. IsGoals'
      BY <2>1, <2>3, GoalsStay DEF IsGoals
    <3> QED
      BY <2>1, <3>1 DEF TypesInv, Sinks, Jobs
  <2>4. CASE Arrive /\ \E cost : NextGoal(PathTo(goals.goal), cost)
    <3>1. /\ stage = "search" /\ search.queue # {} /\ Popped[3] = goals.goal /\ IsSearch
      BY <2>4 DEF Arrive, Current, TypesInv
    <3>2. goals.goal \in DOMAIN search.costs
      BY <3>1, PoppedIsLeast DEF IsSearch
    <3>3. PathTo(goals.goal) \in Seq(Position)
      BY <3>1, <3>2, PathToIsAPath DEF IsSearch
    <3>4. IsGoals'
      BY <2>1, <2>4, <3>3, GoalsStay
    <3> QED
      BY <2>1, <3>4 DEF TypesInv, Sinks, Jobs
  <2>5. CASE \E blocked, tries : goals' = [goals EXCEPT !.blocked = blocked, !.tries = tries]
    <3>1. IsGoals'
      BY <2>1, <2>5 DEF IsGoals
    <3> QED
      BY <2>1, <3>1 DEF TypesInv, Sinks, Jobs
  <2> QED
    BY <2>2, <2>3, <2>4, <2>5
<1>8. ASSUME Expand
      PROVE  TypesInv'
  <2>1. stage = "search" /\ UNCHANGED <<problem, stage, net, goals>>
    BY <1>8 DEF Expand
  <2>2. IsGoals /\ IsSearch /\ goals.left # {} /\ goals.goal \in Position
    BY <2>1 DEF TypesInv, IsGoals
  <2>3. IsSearch'
    BY <1>8, <2>2, ExpandKeepsSearch
  <2>4. IsGoals' /\ Sinks' = Sinks
    BY <2>1, <2>2 DEF IsGoals, Sinks, Jobs
  <2> QED
    BY <2>1, <2>2, <2>3, <2>4 DEF TypesInv
<1> QED
  BY <1>1, <1>2, <1>3, <1>4, <1>5, <1>6, <1>7, <1>8 DEF RoutingStep

LEMMA RoutingKeepsFrontier ==
    ASSUME KeptInv, TypesInv, FrontierInv, RoutingStep
    PROVE  FrontierInv'
<1>1. ASSUME TakeGoal
      PROVE  FrontierInv'
  <2>1. /\ stage = "goals" /\ goals.left # {} /\ goals' = goals
        /\ search' = [queue |-> {<<10 * Manhattan(goals.start, goals.goal), 0, goals.start>>}, serial |-> 0,
                      expanded |-> 0, costs |-> [p \in {goals.start} |-> 0], previous |-> <<>>]
    BY <1>1 DEF TakeGoal
  <2>2. goals.start \in Position /\ goals.goal \in Position
    BY <2>1 DEF TypesInv, IsGoals
  <2>3. Manhattan(goals.start, goals.goal) \in Nat
    BY <2>2, ManhattanIsNat
  <2>4. PICK e : e = <<10 * Manhattan(goals.start, goals.goal), 0, goals.start>>
    OBVIOUS
  <2>5. /\ e \in search'.queue /\ e[3] = goals.start /\ e[1] = 10 * Manhattan(goals.start, goals.goal)
        /\ DOMAIN search'.costs = {goals.start} /\ search'.costs[goals.start] = 0
    BY <2>1, <2>4
  <2>6. \A p \in DOMAIN search'.costs : IsQueued(search'.queue, p, search'.costs[p] + 10 * Manhattan(p, goals'.goal))
    <3>1. e[1] = 0 + 10 * Manhattan(goals.start, goals'.goal)
      BY <2>1, <2>3, <2>5
    <3>2. IsQueued(search'.queue, goals.start, 0 + 10 * Manhattan(goals.start, goals'.goal))
      BY <2>5, <3>1 DEF IsQueued
    <3> QED
      BY <2>5, <3>2
  <2> QED
    BY <2>6 DEF FrontierInv, Rank
<1>2. ASSUME Expand
      PROVE  FrontierInv'
  <2>1. stage = "search" /\ stage' = "search"
    BY <1>2 DEF Expand
  <2>2. IsSearch /\ goals.goal \in Position
    BY <2>1 DEF TypesInv, IsGoals
  <2> QED
    BY <1>2, <2>1, <2>2, ExpandKeepsSearch DEF FrontierInv
<1>3. ASSUME ~TakeGoal, ~Expand
      PROVE  stage' # "search"
  BY <1>3
     DEF RoutingStep, TakeNet, GiveUp, Finish, TakeSink, EndSink, EndNet, SkipGoal, Miss, Arrive, Accept, Reject,
         KeptInv, Working
<1> QED
  BY <1>1, <1>2, <1>3 DEF FrontierInv

SearchInv == KeptInv /\ TypesInv /\ FrontierInv

LEMMA SearchAtFirst == Init => SearchInv
BY KeptAtFirst, TypesAtFirst DEF Init, SearchInv, FrontierInv

LEMMA SearchKeeps ==
    ASSUME SearchInv, [Next]_vars
    PROVE  SearchInv'
<1>1. CASE RoutingStep
  BY <1>1, RoutingKeeps, RoutingKeepsTypes, RoutingKeepsFrontier DEF SearchInv
<1>2. CASE Check
  <2>1. /\ stage = "routed" /\ stage' \in {"compiled", "illegal"}
        /\ UNCHANGED <<problem, routing, pending, routedOrder, net>>
    BY <1>2 DEF Check, loop
  <2> QED
    BY <2>1 DEF SearchInv, KeptInv, Working, Jobs, TypesInv, FrontierInv
<1>3. CASE Stopped \/ UNCHANGED vars
  <2>1. UNCHANGED <<problem, stage, routing, pending, routedOrder, net, goals, search>>
    BY <1>3 DEF Stopped, vars, loop
  <2> QED
    BY <2>1
       DEF SearchInv, KeptInv, Working, Jobs, TypesInv, Sinks, IsGoals, IsSearch, Rank, FrontierInv, IsSettled,
           MayStep, Routeable, StepCost, KindSeen
<1> QED
  BY <1>1, <1>2, <1>3 DEF Next

\* The configured costs are not less than what the estimate of the search
\* takes them to be: 10 for every block nearer.
CostsFitTheEstimate == HorizontalCost >= 10 /\ StairCost >= 20

\* A step costs at least what it brings the estimate down by.
LEMMA EstimateIsConsistent ==
    ASSUME CostsFitTheEstimate, NEW p \in Position, NEW i \in 1..12, NEW g \in Position
    PROVE  10 * Manhattan(p, g) <= StepCost(p, Neighbor(p, i)) + 10 * Manhattan(Neighbor(p, i), g)
<1>1. PICK q : q = Neighbor(p, i)
  OBVIOUS
<1>2. PICK near, far : near = Manhattan(q, g) /\ far = Manhattan(p, g)
  OBVIOUS
<1>3. near \in Nat /\ far \in Nat /\ far <= near + 2 /\ (q[2] = p[2] => far <= near + 1)
  BY <1>1, <1>2, NeighborsAreNear, ManhattanIsNat
<1>4. PICK step : step = StepCost(p, q)
  OBVIOUS
<1>5. step \in Nat /\ (p[2] = q[2] => step >= 10) /\ (p[2] # q[2] => step >= 20)
  BY <1>4, StepCosts, RouterAssumption DEF CostsFitTheEstimate
<1>6. 10 * far <= step + 10 * near
  BY <1>3, <1>5
<1> QED
  BY <1>1, <1>2, <1>4, <1>6

LEMMA WhatIsLeftIsNoCheaper ==
    ASSUME CostsFitTheEstimate, SearchInv
    PROVE  RouteIsCheapest
<1> SUFFICES ASSUME stage = "search", search.queue # {}, Current = goals.goal,
                    NEW p \in DOMAIN search.costs, NEW i \in 1..12, NEW q, q = Neighbor(p, i), MayStep(q)
             PROVE  \/ q \in DOMAIN search.costs /\ search.costs[q] <= search.costs[p] + StepCost(p, q)
                    \/ search.costs[p] + StepCost(p, q) + 10 * Manhattan(q, goals.goal) >= search.costs[goals.goal]
  BY DEF RouteIsCheapest, Neighbor
<1>1. IsSearch /\ goals.goal \in Position
  BY DEF SearchInv, TypesInv, IsGoals
<1>2. IsSettled(search.costs, p) \/ IsQueued(search.queue, p, Rank(p, search.costs[p]))
  BY DEF SearchInv, FrontierInv
<1>3. CASE IsSettled(search.costs, p)
  BY <1>3 DEF IsSettled
<1>4. CASE IsQueued(search.queue, p, Rank(p, search.costs[p]))
  <2>1. PICK e \in search.queue : e[3] = p /\ e[1] = Rank(p, search.costs[p])
    BY <1>4 DEF IsQueued
  <2>2. /\ Popped \in search.queue /\ Popped[1] <= e[1] /\ Popped[3] = goals.goal
        /\ goals.goal \in DOMAIN search.costs
        /\ Rank(goals.goal, search.costs[goals.goal]) <= Popped[1] /\ Popped[1] \in Nat
    BY <1>1, <2>1, PoppedIsLeast DEF IsSearch, Entries, Current
  <2>3. p \in Position /\ search.costs[p] \in Nat /\ search.costs[goals.goal] \in Nat
    BY <1>1, <2>2 DEF IsSearch, IsTree
  <2>4. search.costs[goals.goal] <= Popped[1]
    <3>1. Manhattan(goals.goal, goals.goal) = 0
      BY <1>1, ManhattanIsNat
    <3> QED
      BY <2>2, <2>3, <3>1 DEF Rank
  <2>5. PICK near, far, step : /\ near = Manhattan(q, goals.goal) /\ far = Manhattan(p, goals.goal)
                               /\ step = StepCost(p, q)
    OBVIOUS
  <2>6. near \in Nat /\ far \in Nat /\ step \in Nat
    BY <1>1, <2>3, <2>5, ManhattanIsNat, NeighborsAreNear, StepCosts
  <2>7. 10 * far <= step + 10 * near
    BY <1>1, <2>3, <2>5, EstimateIsConsistent
  <2>8. e[1] = search.costs[p] + 10 * far
    BY <2>1, <2>5 DEF Rank
  <2>9. search.costs[p] + step + 10 * near >= search.costs[goals.goal]
    BY <2>2, <2>3, <2>4, <2>6, <2>7, <2>8
  <2> QED
    BY <2>5, <2>9
<1> QED
  BY <1>2, <1>3, <1>4

\* Where the search gets to its goal, no step that it did not take would
\* have led there for less (routing.rs astar_route).
THEOREM CheapestRoutes ==
    ASSUME CostsFitTheEstimate
    PROVE  Spec => []RouteIsCheapest
BY SearchAtFirst, SearchKeeps, WhatIsLeftIsNoCheaper, PTL DEF Spec

-----------------------------------------------------------------------------
(* Of all the ways to the goal.                                            *)

\* A walk from the start of the search to a position, by its moves.
IsWalk(walk, to) ==
    /\ walk \in Seq(Position) /\ walk # <<>> /\ walk[1] = goals.start /\ walk[Len(walk)] = to
    /\ \A k \in 1..(Len(walk) - 1) :
         MayStep(walk[k + 1]) /\ \E i \in 1..12 : walk[k + 1] = Neighbor(walk[k], i)

\* What it costs to get to every position of a walk.
Along(walk, cost) ==
    /\ DOMAIN cost = 1..Len(walk) /\ cost[1] = 0
    /\ \A k \in 1..(Len(walk) - 1) : cost[k + 1] = cost[k] + StepCost(walk[k], walk[k + 1])

Arrived == stage = "search" /\ search.queue # {} /\ Current = goals.goal

LEMMA NoWalkIsCheaper ==
    ASSUME CostsFitTheEstimate, SearchInv, Arrived,
           NEW walk, IsWalk(walk, goals.goal), NEW cost, Along(walk, cost)
    PROVE  search.costs[goals.goal] <= cost[Len(walk)] /\ cost[Len(walk)] \in Nat
<1> DEFINE D == DOMAIN search.costs
           best == search.costs[goals.goal]
           left(p) == 10 * Manhattan(p, goals.goal)
           claim(j) == /\ cost[j] \in Nat
                       /\ \/ walk[j] \in D /\ search.costs[walk[j]] <= cost[j]
                          \/ best <= cost[j] + left(walk[j])
           S == {k \in Nat : k + 1 \in 1..Len(walk) => claim(k + 1)}
<1>1. /\ IsSearch /\ goals.goal \in Position /\ RouteIsCheapest
      /\ walk \in Seq(Position) /\ Len(walk) \in Nat \ {0} /\ \A k \in 1..Len(walk) : walk[k] \in Position
  BY WhatIsLeftIsNoCheaper DEF SearchInv, TypesInv, Arrived, IsGoals, IsWalk
<1>2. /\ \A p \in D : search.costs[p] \in Nat /\ p \in Position
      /\ goals.goal \in D /\ best \in Nat
  <2>1. \A p \in D : search.costs[p] \in Nat /\ p \in Position
    BY <1>1 DEF IsSearch, IsTree
  <2>2. goals.goal \in D
    BY <1>1, PoppedIsLeast DEF IsSearch, Arrived, Current
  <2> QED
    BY <2>1, <2>2
<1>3. \A p \in Position : left(p) \in Nat
  BY <1>1, ManhattanIsNat
<1>4. claim(1)
  BY <1>1 DEF IsSearch, IsWalk, Along
<1>5. ASSUME NEW k \in Nat, k \in S
      PROVE  k + 1 \in S
  <2> SUFFICES ASSUME NEW j \in Nat, j = k + 1, j + 1 \in 1..Len(walk)
               PROVE  claim(j + 1)
    OBVIOUS
  <2>1. j \in 1..(Len(walk) - 1) /\ j \in 1..Len(walk) /\ claim(j)
    BY <1>1, <1>5
  <2> HIDE DEF S, D, best, left
  <2>2. PICK p, q : p \in Position /\ p = walk[j] /\ q = walk[j + 1]
    BY <1>1, <2>1
  <2>3. PICK i \in 1..12 : q = Neighbor(p, i) /\ MayStep(q)
    BY <2>1, <2>2 DEF IsWalk
  <2>4. q \in Position
    BY <2>2, <2>3, NeighborsAreNear
  <2>5. PICK step \in Nat : step = StepCost(p, q) /\ cost[j + 1] = cost[j] + step
    BY <2>1, <2>2, StepCosts DEF Along
  <2>6. left(p) <= step + left(q)
    BY <1>1, <2>2, <2>3, <2>5, EstimateIsConsistent DEF left
  <2>7. left(p) \in Nat /\ left(q) \in Nat /\ cost[j] \in Nat
    BY <1>3, <2>1, <2>2, <2>4
  <2>8. CASE p \in D /\ search.costs[p] <= cost[j]
    <3>1. \/ q \in D /\ search.costs[q] <= search.costs[p] + step
          \/ best <= search.costs[p] + step + left(q)
      BY <1>1, <2>3, <2>5, <2>8 DEF Arrived, RouteIsCheapest, Neighbor, D, best, left
    <3>2. search.costs[p] \in Nat
      BY <1>2, <2>8
    <3>3. cost[j + 1] \in Nat /\ search.costs[p] + step <= cost[j + 1]
      BY <2>5, <2>7, <2>8, <3>2
    <3>4. CASE q \in D /\ search.costs[q] <= search.costs[p] + step
      <4>1. PICK a, b, c : a = search.costs[q] /\ b = search.costs[p] + step /\ c = cost[j + 1]
        OBVIOUS
      <4>2. a \in Nat /\ b \in Nat /\ c \in Nat /\ a <= b /\ b <= c
        BY <1>2, <2>5, <3>2, <3>3, <3>4, <4>1
      <4> QED
        BY <2>2, <3>3, <3>4, <4>1, <4>2
    <3>5. CASE best <= search.costs[p] + step + left(q)
      <4>1. PICK b, c, d : b = search.costs[p] + step /\ c = cost[j + 1] /\ d = left(q)
        OBVIOUS
      <4>2. b \in Nat /\ c \in Nat /\ d \in Nat /\ best \in Nat
        BY <1>2, <2>5, <2>7, <3>2, <3>3, <4>1
      <4>3. b <= c /\ best <= b + d
        BY <3>3, <3>5, <4>1
      <4>4. best <= c + d
        BY <4>2, <4>3
      <4> QED
        BY <2>2, <3>3, <4>1, <4>4
    <3> QED
      BY <3>1, <3>4, <3>5
  <2>9. CASE best <= cost[j] + left(p)
    BY <1>2, <2>2, <2>5, <2>6, <2>7, <2>9
  <2> QED
    BY <2>1, <2>2, <2>8, <2>9
<1>6. claim(Len(walk))
  <2>1. Len(walk) - 1 \in Nat /\ (Len(walk) - 1) + 1 = Len(walk) /\ Len(walk) \in 1..Len(walk)
    BY <1>1
  <2>2. 0 \in S
    BY <1>4
  <2> HIDE DEF claim
  <2>3. \A n \in 0..(Len(walk) - 1) : n \in S /\ n < Len(walk) - 1 => n + 1 \in S
    <3> HIDE DEF S
    <3> QED
      BY <1>5
  <2>4. 0..(Len(walk) - 1) \subseteq S
    <3> HIDE DEF S
    <3> QED
      BY <2>1, <2>2, <2>3, CountingUp
  <2>5. Len(walk) - 1 \in S
    <3> HIDE DEF S
    <3> QED
      BY <2>1, <2>4
  <2> QED
    BY <2>1, <2>5
<1>7. walk[Len(walk)] = goals.goal /\ left(goals.goal) = 0
  BY <1>1, ManhattanIsNat DEF IsWalk
<1> HIDE DEF left
<1> QED
  BY <1>2, <1>6, <1>7

-----------------------------------------------------------------------------
(* The way the search found.                                               *)

\* Every position the search got to, its start aside, was reached by a move
\* that was possible, and not for less than what is known by now.
CameByMoves(costs, previous) ==
    /\ \A p \in DOMAIN costs : p = goals.start \/ p \in DOMAIN previous
    /\ \A p \in DOMAIN previous :
         /\ MayStep(p) /\ \E i \in 1..12 : p = Neighbor(previous[p], i)
         /\ costs[previous[p]] + StepCost(previous[p], p) <= costs[p]

MovesInv == stage = "search" => CameByMoves(search.costs, search.previous)

LEMMA ExpandKeepsMoves ==
    ASSUME IsSearch, Expand, goals.goal \in Position, CameByMoves(search.costs, search.previous)
    PROVE  CameByMoves(search.costs, search.previous)'
<1>1. PICK p : p = Popped[3]
  OBVIOUS
<1>2. p \in DOMAIN search.costs /\ p \in Position
  BY <1>1, WhatExpandDoes
<1>3. PICK reached \in SUBSET Position :
        /\ \A q \in reached : \E i \in 1..12 : q = Neighbor(p, i)
        /\ \A i \in 1..12 :
             LET q == Neighbor(p, i)
             IN  q \in reached <=> MayStep(q) /\ (q \notin DOMAIN search.costs \/ CostThrough(p, q) < search.costs[q])
        /\ search'.costs = Updated(search.costs, [q \in reached |-> CostThrough(p, q)])
        /\ search'.previous = Updated(search.previous, [q \in reached |-> p])
  BY <1>1, WhatExpandDoes
<1>4. PICK old, new, came, comes : /\ old = search.costs /\ new = search'.costs
                                   /\ came = search.previous /\ comes = search'.previous
  OBVIOUS
<1>5. /\ DOMAIN new = DOMAIN old \cup reached
      /\ \A q \in reached : new[q] = old[p] + StepCost(p, q)
      /\ \A q \in DOMAIN old \ reached : new[q] = old[q]
  BY <1>3, <1>4 DEF Updated, CostThrough
<1>6. /\ DOMAIN comes = DOMAIN came \cup reached
      /\ \A q \in reached : comes[q] = p
      /\ \A q \in DOMAIN came \ reached : comes[q] = came[q]
  BY <1>3, <1>4 DEF Updated
<1>7. IsTree(old, came) /\ CameByMoves(old, came)
  BY <1>4 DEF IsSearch
<1>8. /\ \A q \in DOMAIN old : old[q] \in Nat /\ q \in Position
      /\ \A q \in DOMAIN came : q \in DOMAIN old /\ came[q] \in DOMAIN old
  BY <1>7 DEF IsTree
<1>9. \A q \in DOMAIN old : new[q] \in Nat /\ new[q] <= old[q]
  <2> TAKE q \in DOMAIN old
  <2>1. CASE q \in reached
    <3>1. PICK i \in 1..12 : q = Neighbor(p, i)
      BY <1>3, <2>1
    <3>2. new[q] < old[q]
      BY <1>3, <1>4, <1>5, <2>1, <3>1 DEF CostThrough
    <3>3. StepCost(p, q) \in Nat /\ old[p] \in Nat
      BY <1>2, <1>4, <1>8, StepCosts
    <3> QED
      BY <1>5, <1>8, <2>1, <3>2, <3>3
  <2>2. CASE q \notin reached
    BY <1>5, <1>8, <2>2
  <2> QED
    BY <2>1, <2>2
<1>10. p \notin reached
  BY <1>2, <1>3, NeighborsAreNear
<1>11. \A q \in DOMAIN new : q = goals.start \/ q \in DOMAIN comes
  BY <1>5, <1>6, <1>7 DEF CameByMoves
<1>12. ASSUME NEW q \in DOMAIN comes
       PROVE  /\ MayStep(q) /\ \E i \in 1..12 : q = Neighbor(comes[q], i)
              /\ new[comes[q]] + StepCost(comes[q], q) <= new[q]
  <2>1. CASE q \in reached
    <3>1. PICK i \in 1..12 : q = Neighbor(p, i)
      BY <1>3, <2>1
    <3>2. MayStep(q)
      BY <1>3, <2>1, <3>1
    <3>3. new[p] = old[p] /\ comes[q] = p
      BY <1>2, <1>4, <1>5, <1>6, <1>10, <2>1
    <3>4. new[q] = old[p] + StepCost(p, q) /\ StepCost(p, q) \in Nat /\ old[p] \in Nat
      BY <1>2, <1>4, <1>5, <1>8, <2>1, StepCosts
    <3> QED
      BY <3>1, <3>2, <3>3, <3>4
  <2>2. CASE q \notin reached
    <3>1. PICK r, step : r = came[q] /\ step = StepCost(r, q)
      OBVIOUS
    <3>2. q \in DOMAIN came /\ comes[q] = r /\ q \in DOMAIN old /\ r \in DOMAIN old /\ new[q] = old[q]
      BY <1>5, <1>6, <1>8, <2>2, <3>1
    <3>3. MayStep(q) /\ (\E i \in 1..12 : q = Neighbor(r, i)) /\ old[r] + step <= old[q]
      BY <1>7, <3>1, <3>2 DEF CameByMoves
    <3>4. step \in Nat /\ new[r] \in Nat /\ old[r] \in Nat /\ old[q] \in Nat /\ new[r] <= old[r]
      BY <1>8, <1>9, <3>1, <3>2, StepCosts
    <3>5. new[r] + step <= new[q]
      BY <3>2, <3>3, <3>4
    <3> QED
      BY <3>1, <3>2, <3>3, <3>5
  <2> QED
    BY <2>1, <2>2
<1>13. CameByMoves(new, comes)
  BY <1>11, <1>12 DEF CameByMoves
<1>14. UNCHANGED <<problem, goals>>
  BY DEF Expand
<1> QED
  BY <1>4, <1>13, <1>14 DEF CameByMoves, MayStep, Routeable, StepCost, KindSeen

LEMMA RoutingKeepsMoves ==
    ASSUME KeptInv, TypesInv, MovesInv, RoutingStep
    PROVE  MovesInv'
<1>1. ASSUME TakeGoal
      PROVE  MovesInv'
  <2>1. /\ goals' = goals
        /\ search' = [queue |-> {<<10 * Manhattan(goals.start, goals.goal), 0, goals.start>>}, serial |-> 0,
                      expanded |-> 0, costs |-> [p \in {goals.start} |-> 0], previous |-> <<>>]
    BY <1>1 DEF TakeGoal
  <2>2. DOMAIN search'.costs = {goals.start} /\ DOMAIN search'.previous = {}
    BY <2>1
  <2> QED
    BY <2>1, <2>2 DEF MovesInv, CameByMoves
<1>2. ASSUME Expand
      PROVE  MovesInv'
  <2>1. stage = "search" /\ stage' = "search"
    BY <1>2 DEF Expand
  <2>2. IsSearch /\ goals.goal \in Position
    BY <2>1 DEF TypesInv, IsGoals
  <2> QED
    BY <1>2, <2>1, <2>2, ExpandKeepsMoves DEF MovesInv
<1>3. ASSUME ~TakeGoal, ~Expand
      PROVE  stage' # "search"
  BY <1>3
     DEF RoutingStep, TakeNet, GiveUp, Finish, TakeSink, EndSink, EndNet, SkipGoal, Miss, Arrive, Accept, Reject,
         KeptInv, Working
<1> QED
  BY <1>1, <1>2, <1>3 DEF MovesInv

WayInv == SearchInv /\ MovesInv

LEMMA WayKeeps ==
    ASSUME WayInv, [Next]_vars
    PROVE  WayInv'
<1>1. SearchInv'
  BY SearchKeeps DEF WayInv
<1>2. CASE RoutingStep
  BY <1>1, <1>2, RoutingKeepsMoves DEF WayInv, SearchInv
<1>3. CASE Check
  BY <1>1, <1>3 DEF WayInv, MovesInv, Check
<1>4. CASE Stopped \/ UNCHANGED vars
  <2>1. UNCHANGED <<problem, stage, goals, search>>
    BY <1>4 DEF Stopped, vars
  <2> QED
    BY <1>1, <2>1 DEF WayInv, MovesInv, CameByMoves, MayStep, Routeable, StepCost, KindSeen
<1> QED
  BY <1>2, <1>3, <1>4 DEF Next

LEMMA OneStepMore ==
    ASSUME NEW walk, NEW cost, NEW p \in Position, NEW q \in Position, NEW i \in 1..12,
           IsWalk(walk, p), Along(walk, cost), cost[Len(walk)] \in Nat, MayStep(q), q = Neighbor(p, i)
    PROVE  \E more : /\ IsWalk(Append(walk, q), q) /\ Along(Append(walk, q), more)
                     /\ more[Len(Append(walk, q))] = cost[Len(walk)] + StepCost(p, q)
<1>1. PICK n, longer, step : n = Len(walk) /\ longer = Append(walk, q) /\ step = StepCost(p, q)
  OBVIOUS
<1>2. walk \in Seq(Position) /\ n \in Nat \ {0} /\ walk[1] = goals.start /\ walk[n] = p
  BY <1>1 DEF IsWalk
<1>3. /\ longer \in Seq(Position) /\ Len(longer) = n + 1 /\ longer # <<>> /\ longer[n + 1] = q
      /\ \A k \in 1..n : longer[k] = walk[k]
  BY <1>1, <1>2
<1> DEFINE more == [k \in 1..(n + 1) |-> IF k <= n THEN cost[k] ELSE cost[n] + step]
<1>4. IsWalk(longer, q)
  <2> SUFFICES ASSUME NEW k \in 1..n
               PROVE  MayStep(longer[k + 1]) /\ \E j \in 1..12 : longer[k + 1] = Neighbor(longer[k], j)
    BY <1>2, <1>3 DEF IsWalk
  <2>1. CASE k = n
    BY <1>2, <1>3, <2>1
  <2>2. CASE k # n
    <3>1. k \in 1..(n - 1) /\ k + 1 \in 1..n
      BY <1>2, <2>2
    <3>2. MayStep(walk[k + 1]) /\ \E j \in 1..12 : walk[k + 1] = Neighbor(walk[k], j)
      BY <1>1, <3>1 DEF IsWalk
    <3> QED
      BY <1>3, <3>1, <3>2
  <2> QED
    BY <2>1, <2>2
<1>5. Along(longer, more)
  <2>1. DOMAIN more = 1..Len(longer) /\ more[1] = 0
    BY <1>1, <1>2, <1>3 DEF Along
  <2>2. ASSUME NEW k \in 1..n
        PROVE  more[k + 1] = more[k] + StepCost(longer[k], longer[k + 1])
    <3>1. CASE k = n
      BY <1>1, <1>2, <1>3, <3>1
    <3>2. CASE k # n
      <4>1. k \in 1..(n - 1) /\ k + 1 \in 1..n /\ k \in 1..(n + 1) /\ k + 1 \in 1..(n + 1) /\ k <= n /\ k + 1 <= n
        BY <1>2, <3>2
      <4>2. cost[k + 1] = cost[k] + StepCost(walk[k], walk[k + 1])
        BY <1>1, <4>1 DEF Along
      <4>3. more[k + 1] = cost[k + 1] /\ more[k] = cost[k]
        BY <4>1
      <4> QED
        BY <1>3, <4>1, <4>2, <4>3
    <3> QED
      BY <3>1, <3>2
  <2>3. 1..(Len(longer) - 1) = 1..n
    BY <1>2, <1>3
  <2> HIDE DEF more
  <2> QED
    BY <2>1, <2>2, <2>3 DEF Along
<1>6. more[n + 1] = cost[n] + step
  BY <1>2
<1> HIDE DEF more
<1> QED
  BY <1>1, <1>3, <1>4, <1>5, <1>6

\* The way back from a position is a walk to it that costs no more than
\* what the search thinks.
LEMMA PathIsAWalk ==
    ASSUME IsSearch, goals.start \in Position, CameByMoves(search.costs, search.previous), NEW goal \in DOMAIN search.costs
    PROVE  \E cost : /\ IsWalk(PathTo(goal), goal) /\ Along(PathTo(goal), cost)
                     /\ cost[Len(PathTo(goal))] \in Nat /\ cost[Len(PathTo(goal))] <= search.costs[goal]
<1>1. PICK costs, previous : costs = search.costs /\ previous = search.previous
  OBVIOUS
<1>2. IsTree(costs, previous) /\ CameByMoves(costs, previous) /\ goals.start \in DOMAIN costs /\ costs[goals.start] = 0
  BY <1>1 DEF IsSearch
<1>3. PICK path : path = CHOOSE f : FollowsBack(f, DOMAIN costs, previous)
  OBVIOUS
<1>4. FollowsBack(path, DOMAIN costs, previous)
  BY <1>2, <1>3, PathsAreDefined
<1>5. PathTo(goal) = path[goal]
  BY <1>1, <1>3, Zenon DEF PathTo, FollowsBack
<1>6. \A p \in DOMAIN costs : path[p] = IF p \in DOMAIN previous THEN Append(path[previous[p]], p) ELSE <<p>>
  BY <1>4 DEF FollowsBack
<1>7. /\ \A p \in DOMAIN costs : costs[p] \in Nat /\ p \in Position
      /\ \A p \in DOMAIN previous : p \in DOMAIN costs /\ previous[p] \in DOMAIN costs /\ costs[previous[p]] < costs[p]
  BY <1>2 DEF IsTree
<1> DEFINE found(p) == \E cost : /\ IsWalk(path[p], p) /\ Along(path[p], cost)
                                 /\ cost[Len(path[p])] \in Nat /\ cost[Len(path[p])] <= costs[p]
           S == {k \in Nat : \A p \in DOMAIN costs : costs[p] <= k => found(p)}
<1>8. found(goals.start)
  <2>1. goals.start \notin DOMAIN previous
    BY <1>2, <1>7
  <2>2. PICK walk : walk = path[goals.start] /\ walk = <<goals.start>>
    BY <1>2, <1>6, <2>1
  <2>3. walk \in Seq(Position) /\ Len(walk) = 1 /\ walk[1] = goals.start /\ walk # <<>>
    BY <2>2
  <2> DEFINE cost == [k \in 1..1 |-> 0]
  <2>4. IsWalk(walk, goals.start)
    BY <2>3 DEF IsWalk
  <2>5. Along(walk, cost)
    BY <2>3 DEF Along
  <2>6. cost[Len(walk)] = 0
    BY <2>3
  <2> HIDE DEF cost
  <2> QED
    BY <1>2, <2>2, <2>4, <2>5, <2>6
<1>9. ASSUME NEW p \in DOMAIN previous, found(previous[p])
      PROVE  found(p)
  <2>1. PICK q, step : q = previous[p] /\ step = StepCost(q, p)
    OBVIOUS
  <2>2. PICK cost : /\ IsWalk(path[q], q) /\ Along(path[q], cost)
                    /\ cost[Len(path[q])] \in Nat /\ cost[Len(path[q])] <= costs[q]
    BY <1>9, <2>1
  <2>3. /\ p \in Position /\ q \in Position /\ costs[p] \in Nat /\ costs[q] \in Nat /\ p \in DOMAIN costs
        /\ MayStep(p) /\ costs[q] + step <= costs[p]
    BY <1>2, <1>7, <2>1 DEF CameByMoves
  <2>4. PICK i \in 1..12 : p = Neighbor(q, i)
    BY <1>2, <2>1 DEF CameByMoves
  <2>5. PICK walk : walk = path[q]
    OBVIOUS
  <2>6. PICK more : /\ IsWalk(Append(walk, p), p) /\ Along(Append(walk, p), more)
                    /\ more[Len(Append(walk, p))] = cost[Len(walk)] + step
    <3>1. IsWalk(walk, q) /\ Along(walk, cost) /\ cost[Len(walk)] \in Nat
      BY <2>2, <2>5
    <3>2. p \in Position /\ q \in Position /\ MayStep(p)
      BY <2>3
    <3>3. \E more : /\ IsWalk(Append(walk, p), p) /\ Along(Append(walk, p), more)
                    /\ more[Len(Append(walk, p))] = cost[Len(walk)] + StepCost(q, p)
      BY <2>4, <3>1, <3>2, OneStepMore
    <3> QED
      BY <2>1, <3>3
  <2>7. path[p] = Append(walk, p)
    BY <1>6, <2>1, <2>3, <2>5
  <2>8. step \in Nat
    BY <2>1, <2>3, StepCosts
  <2>9. more[Len(path[p])] \in Nat /\ more[Len(path[p])] <= costs[p]
    BY <2>2, <2>3, <2>5, <2>6, <2>7, <2>8
  <2> QED
    BY <2>6, <2>7, <2>9
<1>10. \A p \in DOMAIN costs : p \in DOMAIN previous \/ p = goals.start
  BY <1>2 DEF CameByMoves
<1> HIDE DEF found
<1>11. 0 \in S
  <2> SUFFICES ASSUME NEW p \in DOMAIN costs, costs[p] <= 0
               PROVE  found(p)
    OBVIOUS
  <2>1. p \notin DOMAIN previous
    BY <1>7
  <2> QED
    BY <1>8, <1>10, <2>1
<1>12. ASSUME NEW k \in Nat, k \in S
       PROVE  k + 1 \in S
  <2> SUFFICES ASSUME NEW p \in DOMAIN costs, costs[p] <= k + 1
               PROVE  found(p)
    OBVIOUS
  <2>1. CASE p \in DOMAIN previous
    <3>1. previous[p] \in DOMAIN costs /\ costs[previous[p]] <= k
      BY <1>7, <2>1
    <3> QED
      BY <1>9, <1>12, <2>1, <3>1
  <2> QED
    BY <1>8, <1>10, <2>1
<1>13. costs[goal] \in S
  <2> HIDE DEF S
  <2>1. costs[goal] \in Nat
    BY <1>1, <1>7
  <2>2. 0..costs[goal] \subseteq S
    BY <1>11, <1>12, <2>1, CountingUp
  <2> QED
    BY <2>1, <2>2
<1>14. found(goal)
  BY <1>1, <1>7, <1>13
<1> QED
  BY <1>1, <1>5, <1>14 DEF found

\* A way to the goal, at a cost that no other walk from the start is below.
IsShortest(way) ==
    \E cost : /\ IsWalk(way, goals.goal) /\ Along(way, cost)
              /\ \A walk : \A other : IsWalk(walk, goals.goal) /\ Along(walk, other) => cost[Len(way)] <= other[Len(walk)]

\* What the search returns when it gets to its goal is a walk from its start
\* to the goal, and of all such walks none costs less (routing.rs
\* astar_route).  RouteIsCheapest says the second half move by move.
THEOREM ShortestOfAllWalks ==
    ASSUME CostsFitTheEstimate
    PROVE  Spec => [](Arrived => IsShortest(PathTo(goals.goal)))
<1>1. ASSUME WayInv, Arrived
      PROVE  IsShortest(PathTo(goals.goal))
  <2>1. stage = "search" /\ search.queue # {} /\ Popped[3] = goals.goal
    BY <1>1 DEF Arrived, Current
  <2>2. /\ SearchInv /\ IsSearch /\ goals.start \in Position /\ CameByMoves(search.costs, search.previous)
    BY <1>1, <2>1 DEF WayInv, MovesInv, SearchInv, TypesInv, IsGoals
  <2>3. goals.goal \in DOMAIN search.costs
    BY <2>1, <2>2, PoppedIsLeast DEF IsSearch
  <2>4. PICK way, best : way = PathTo(goals.goal) /\ best = search.costs[goals.goal]
    OBVIOUS
  <2>5. best \in Nat
    BY <2>2, <2>3, <2>4 DEF IsSearch, IsTree
  <2>6. PICK cost : /\ IsWalk(way, goals.goal) /\ Along(way, cost) /\ cost[Len(way)] \in Nat /\ cost[Len(way)] <= best
    BY <2>2, <2>3, <2>4, PathIsAWalk
  <2>7. ASSUME NEW walk, NEW other, IsWalk(walk, goals.goal), Along(walk, other)
        PROVE  cost[Len(way)] <= other[Len(walk)]
    <3>1. best <= other[Len(walk)] /\ other[Len(walk)] \in Nat
      BY <1>1, <2>2, <2>4, <2>7, NoWalkIsCheaper
    <3> QED
      BY <2>5, <2>6, <3>1
  <2> QED
    BY <2>4, <2>6, <2>7 DEF IsShortest
<1>2. WayInv => (Arrived => IsShortest(PathTo(goals.goal)))
  BY <1>1
<1>3. Init => WayInv
  BY SearchAtFirst DEF Init, WayInv, MovesInv
<1>4. WayInv /\ [Next]_vars => WayInv'
  BY WayKeeps
<1> QED
  BY <1>2, <1>3, <1>4, PTL DEF Spec

-----------------------------------------------------------------------------
(* The nets the optimizer does not route again.                            *)

Compiling == mode \in {"compile", "begin"}
EndAtPorts(cells, nets) == \A n \in DOMAIN nets : EndsAtPorts(cells, nets[n])

\* While it compiles every net it routes ends at the ports of its cells, and
\* so do those of the original from then on, as its cells lay then.  What it
\* leaves alone are the nets that touch no cell that lies elsewhere now.
FitInv ==
    /\ {"cells", "fixed"} \subseteq DOMAIN problem
    /\ Compiling => KeptInv /\ EndAtPorts(problem.cells, routing)
    /\ ~Compiling => EndAtPorts(original.circuit.cells, original.routing)
    /\ mode \in {"route", "final"} => problem.fixed = FixedNets(Differ(original.circuit, problem))

LEMMA UntouchedStayAtPorts ==
    ASSUME NEW before, NEW after, NEW given, EndsAtPorts(before.cells, given), ~Touches(given, Differ(before, after))
    PROVE  \A e \in {given.source} \cup On(given.sinks) : RefreshEndpoint(after.cells, e) = e
<1> SUFFICES ASSUME NEW e \in {given.source} \cup On(given.sinks)
             PROVE  RefreshEndpoint(after.cells, e) = e
  OBVIOUS
<1>1. e.cell \notin Differ(before, after)
  BY DEF Touches
<1>2. CASE e.cell = 0
  BY <1>2 DEF RefreshEndpoint
<1>3. CASE e.cell # 0
  <2>1. e.cell \in DOMAIN before.cells /\ RefreshEndpoint(before.cells, e) = e
    BY <1>3 DEF EndsAtPorts, IsAtPort
  <2>2. before.cells[e.cell] = after.cells[e.cell]
    BY <1>1, <2>1 DEF Differ
  <2> QED
    BY <1>3, <2>1, <2>2 DEF RefreshEndpoint, InputEndpoint, OutputEndpoint
<1> QED
  BY <1>2, <1>3

LEMMA FitMeans == FitInv => FixedNetsFit
<1> SUFFICES ASSUME FitInv, mode \in {"route", "final"}, NEW n \in DOMAIN problem.fixed
             PROVE  \A e \in {problem.fixed[n].source} \cup On(problem.fixed[n].sinks) :
                        RefreshEndpoint(problem.cells, e) = e
  BY DEF FixedNetsFit
<1>1. ~Compiling /\ problem.fixed = FixedNets(Differ(original.circuit, problem))
  BY DEF FitInv, Compiling
<1>2. /\ n \in DOMAIN original.routing /\ problem.fixed[n] = original.routing[n]
      /\ ~Touches(original.routing[n], Differ(original.circuit, problem))
  BY <1>1 DEF FixedNets
<1>3. EndsAtPorts(original.circuit.cells, original.routing[n])
  BY <1>1, <1>2 DEF FitInv, EndAtPorts
<1> QED
  BY <1>2, <1>3, UntouchedStayAtPorts

LEMMA MakeNetKeepsEnds ==
    ASSUME NEW job, NEW branches
    PROVE  MakeNet(job, branches).source = job.source /\ MakeNet(job, branches).sinks = job.sinks
BY DEF MakeNet

LEMMA RoutingStaysAtPorts ==
    ASSUME KeptInv, RoutingStep, EndAtPorts(problem.cells, routing)
    PROVE  EndAtPorts(problem.cells, routing)'
<1>1. problem' = problem
  BY DEF RoutingStep, TakeNet, GiveUp, Finish, EndNet, TakeSink, EndSink, TakeGoal, SkipGoal, Expand, Miss, Arrive
<1>2. CASE UNCHANGED routing
  BY <1>1, <1>2 DEF EndAtPorts
<1>3. CASE \E S : routing' = [n \in DOMAIN routing \ S |-> routing[n]]
  BY <1>1, <1>3 DEF EndAtPorts
<1>4. CASE \E branches : routing' = With(MakeNet(Jobs[net.id], branches)) /\ net.id \in DOMAIN Jobs
  <2>1. PICK branches : routing' = With(MakeNet(Jobs[net.id], branches))
    BY <1>4
  <2>2. PICK made, job, id : made = MakeNet(job, branches) /\ job = Jobs[net.id] /\ id = net.id
    OBVIOUS
  <2>3. made.source = job.source /\ made.sinks = job.sinks
    BY <2>2, MakeNetKeepsEnds
  <2>4. EndsAtPorts(problem.cells, job)
    BY <1>4, <2>2, OptimizerAssumption DEF KeptInv, Jobs
  <2>5. EndsAtPorts(problem.cells, made)
    BY <2>3, <2>4 DEF EndsAtPorts
  <2>6. routing' = [m \in DOMAIN routing \cup {id} |-> IF m = id THEN made ELSE routing[m]]
    BY <2>1, <2>2 DEF With
  <2> QED
    BY <1>1, <2>5, <2>6 DEF EndAtPorts
<1>5. CASE Reject
  BY <1>2, <1>3, <1>5 DEF Reject, RipUp
<1>6. CASE EndNet
  <2>1. net.id \in DOMAIN Jobs
    BY <1>6 DEF EndNet, KeptInv, Working
  <2>2. Accept(With(MakeNet(Jobs[net.id], net.branches))) \/ Reject
    BY <1>6 DEF EndNet
  <2> QED
    BY <1>4, <1>5, <2>1, <2>2 DEF Accept
<1>7. CASE EndSink
  BY <1>2, <1>5, <1>7 DEF EndSink
<1>8. CASE TakeNet \/ GiveUp \/ Finish \/ TakeSink \/ TakeGoal \/ SkipGoal \/ Expand \/ Miss \/ Arrive
  BY <1>2, <1>8 DEF TakeNet, GiveUp, Finish, TakeSink, TakeGoal, SkipGoal, Expand, Miss, Arrive, loop
<1> QED
  BY <1>6, <1>7, <1>8 DEF RoutingStep

LEMMA FitAtFirst == OptimizerInit => FitInv
<1> SUFFICES ASSUME OptimizerInit
             PROVE  FitInv
  OBVIOUS
<1>1. Compiling /\ KeptInv
  BY KeptAtFirst DEF OptimizerInit, Compiling
<1>2. problem \in Problems /\ routing = problem.fixed
  BY DEF OptimizerInit, Init
<1> QED
  BY <1>1, <1>2, OptimizerAssumption DEF FitInv, EndAtPorts, Compiling

LEMMA FitStays ==
    ASSUME FitInv, [OptimizerNext]_allVars
    PROVE  FitInv'
<1>1. CASE Route
  <2>1. UNCHANGED <<mode, original>> /\ RoutingStep
    BY <1>1 DEF Route, own
  <2>2. problem' = problem
    BY <2>1 DEF RoutingStep, TakeNet, GiveUp, Finish, EndNet, TakeSink, EndSink, TakeGoal, SkipGoal, Expand, Miss, Arrive
  <2>3. Compiling => KeptInv' /\ EndAtPorts(problem.cells, routing)'
    BY <2>1, RoutingKeeps, RoutingStaysAtPorts DEF FitInv
  <2> QED
    BY <2>1, <2>2, <2>3 DEF FitInv, Compiling, FixedNets, Differ
<1>2. CASE CheckCompiled
  <2>1. UNCHANGED <<mode, original, problem, routing>> /\ Check
    BY <1>2 DEF CheckCompiled, own, Check, loop
  <2>2. KeptInv => KeptInv'
    BY <2>1, NextKeeps DEF Next
  <2> QED
    BY <2>1, <2>2 DEF FitInv, Compiling, FixedNets, Differ
<1>3. CASE Build
  <2>1. UNCHANGED <<vars, original>>
    BY <1>3 DEF Build
  <2>2. UNCHANGED <<problem, routing>> /\ (KeptInv => KeptInv')
    BY <2>1, NextKeeps DEF vars, loop
  <2>3. (mode = "compile" /\ mode' = "begin") \/ (~Compiling /\ ~Compiling' /\ mode' \notin {"route", "final"})
    BY <1>3 DEF Build, Compiling
  <2> QED
    BY <2>1, <2>2, <2>3 DEF FitInv, Compiling
<1>4. CASE Begin
  <2>1. /\ mode = "begin" /\ mode' = "improve" /\ UNCHANGED vars
        /\ original'.circuit = CircuitOf(problem) /\ original'.routing = routing
    BY <1>4 DEF Begin
  <2>2. original'.circuit.cells = problem.cells /\ problem' = problem
    BY <2>1 DEF CircuitOf, vars
  <2> QED
    BY <2>1, <2>2 DEF FitInv, Compiling, EndAtPorts
<1>5. CASE Try
  <2>1. /\ mode = "try" /\ mode' \in {"route", "final"} /\ UNCHANGED original
        /\ \E candidate : RouteAgain(candidate)
    BY <1>5 DEF Try
  <2>2. PICK candidate : RouteAgain(candidate)
    BY <2>1
  <2>3. PICK fixed, before : fixed = FixedNets(Differ(original.circuit, candidate)) /\ before = problem
    OBVIOUS
  <2>4. {"cells", "fixed"} \subseteq DOMAIN before
    BY <2>3 DEF FitInv
  <2>5. DOMAIN problem' = DOMAIN before /\ problem'.cells = candidate.cells /\ problem'.fixed = fixed
    BY <2>2, <2>3, <2>4 DEF RouteAgain, ChangedCells
  <2>6. fixed = FixedNets(Differ(original.circuit, problem))'
    BY <2>1, <2>3, <2>5 DEF FixedNets, Differ
  <2> QED
    BY <2>1, <2>3, <2>5, <2>6 DEF FitInv, Compiling
<1>6. CASE Improve \/ Judge \/ EndPhase \/ KeepOriginal \/ Realize
  <2>1. UNCHANGED <<vars, original>> /\ ~Compiling /\ ~Compiling' /\ mode' \notin {"route", "final"}
    BY <1>6 DEF Improve, Judge, EndPhase, KeepOriginal, Realize, Compiling
  <2> QED
    BY <2>1 DEF FitInv, vars
<1>7. CASE OptimizerStopped \/ UNCHANGED allVars
  <2>1. UNCHANGED <<vars, mode, original>>
    BY <1>7 DEF OptimizerStopped, allVars, own
  <2>2. UNCHANGED <<problem, routing>> /\ (KeptInv => KeptInv')
    BY <2>1, NextKeeps DEF vars, loop
  <2> QED
    BY <2>1, <2>2 DEF FitInv, Compiling, FixedNets, Differ
<1> QED
  BY <1>1, <1>2, <1>3, <1>4, <1>5, <1>6, <1>7 DEF OptimizerNext

\* A net that is not routed again still begins and ends where the ports of
\* its cells are, whatever the optimizer moved, and however often (realize.rs
\* realize_staged_optimization_against).
THEOREM FixedNetsStayAtPorts == OptimizerSpec => []FixedNetsFit
BY FitAtFirst, FitStays, FitMeans, PTL DEF OptimizerSpec
-----------------------------------------------------------------------------
(* What a mutation leaves as it is: the cells there are, their kinds and   *)
(* the ports they have.                                                    *)

KeepsPorts(cells, before) ==
    /\ DOMAIN cells = DOMAIN before
    /\ \A c \in DOMAIN before :
         /\ {"kind", "cell"} \subseteq DOMAIN cells[c] /\ cells[c].kind = before[c].kind
         /\ SamePorts(cells[c].cell, before[c].cell)

\* A list of mutations all of which do.
Keeping(mutations, before) ==
    mutations \in Seq(On(mutations)) /\ \A m \in On(mutations) : KeepsPorts(m.cells, before)

LEMMA SamePortsAre ==
    ASSUME NEW a, NEW b, SamePorts(a, b)
    PROVE  /\ SamePorts(b, a)
           /\ DOMAIN a.inputs = DOMAIN b.inputs /\ DOMAIN a.outputs = DOMAIN b.outputs
           /\ \A n \in DOMAIN a.inputs : a.inputs[n].kind = b.inputs[n].kind
           /\ \A n \in DOMAIN a.outputs : a.outputs[n].kind = b.outputs[n].kind
<1> DEFINE kinds(ports) == [n \in DOMAIN ports |-> ports[n].kind]
<1>1. kinds(a.inputs) = kinds(b.inputs) /\ kinds(a.outputs) = kinds(b.outputs)
  BY DEF SamePorts
<1>2. \A p, q : kinds(p) = kinds(q) => DOMAIN p = DOMAIN q /\ \A n \in DOMAIN p : p[n].kind = q[n].kind
  <2> SUFFICES ASSUME NEW p, NEW q, kinds(p) = kinds(q)
               PROVE  DOMAIN p = DOMAIN q /\ \A n \in DOMAIN p : p[n].kind = q[n].kind
    OBVIOUS
  <2>1. DOMAIN p = DOMAIN q
    <3>1. DOMAIN kinds(p) = DOMAIN p /\ DOMAIN kinds(q) = DOMAIN q
      OBVIOUS
    <3> HIDE DEF kinds
    <3> QED
      BY <3>1
  <2>2. \A n \in DOMAIN p : p[n].kind = q[n].kind
    <3> SUFFICES ASSUME NEW n \in DOMAIN p
                 PROVE  p[n].kind = q[n].kind
      OBVIOUS
    <3>1. kinds(p)[n] = p[n].kind /\ kinds(q)[n] = q[n].kind
      BY <2>1
    <3> HIDE DEF kinds
    <3> QED
      BY <3>1
  <2> QED
    BY <2>1, <2>2
<1>3. SamePorts(b, a)
  BY <1>1 DEF SamePorts
<1> HIDE DEF kinds
<1> QED
  BY <1>1, <1>2, <1>3

\* A function on the numbers up to n is a sequence.
LEMMA IsSequence ==
    ASSUME NEW n \in Nat, NEW s, s = [i \in 1..n |-> s[i]]
    PROVE  s \in Seq(On(s)) /\ Len(s) = n /\ On(s) = {s[i] : i \in 1..n}
<1>1. s \in [1..n -> On(s)] /\ DOMAIN s = 1..n
  BY DEF On
<1> QED
  BY <1>1 DEF On

LEMMA KeepingIf ==
    ASSUME NEW before, NEW n \in Nat, NEW s, s = [i \in 1..n |-> s[i]], \A i \in 1..n : KeepsPorts(s[i].cells, before)
    PROVE  Keeping(s, before)
<1>1. s \in Seq(On(s)) /\ On(s) = {s[i] : i \in 1..n}
  BY IsSequence
<1> QED
  BY <1>1 DEF Keeping

LEMMA KeepingBoth ==
    ASSUME NEW before, NEW s, NEW t, Keeping(s, before), Keeping(t, before)
    PROVE  Keeping(s \o t, before)
<1> DEFINE S == On(s) \cup On(t)
<1>1. s \in Seq(S) /\ t \in Seq(S)
  BY DEF Keeping
<1>2. \A m \in S : KeepsPorts(m.cells, before)
  BY DEF Keeping
<1>3. PICK u : u = s \o t
  OBVIOUS
<1> HIDE DEF S
<1>4. u \in Seq(S)
  BY <1>1, <1>3
<1>5. u \in Seq(On(u)) /\ On(u) \subseteq S
  <2>1. Len(u) \in Nat /\ u = [i \in 1..Len(u) |-> u[i]]
    BY <1>4
  <2> QED
    BY <1>4, <2>1, IsSequence, OnIsTheRange
<1> QED
  BY <1>2, <1>3, <1>5 DEF Keeping

LEMMA KeepingNone ==
    ASSUME NEW before
    PROVE  Keeping(<<>>, before)
<1>1. On(<<>>) = {}
  BY DEF On
<1> QED
  BY <1>1 DEF Keeping


\* What has been joined of a list of lists, up to each of them.
Joins(f, seqs, k) == f = [i \in 0..k |-> IF i = 0 THEN <<>> ELSE f[i - 1] \o seqs[i]]

LEMMA JoinsAreDefined ==
    ASSUME NEW n \in Nat, NEW seqs
    PROVE  \E f : Joins(f, seqs, n)
<1> DEFINE S == {k \in 0..n : \E f : Joins(f, seqs, k)}
<1>1. 0 \in S
  <2>1. PICK f : f = [i \in 0..0 |-> <<>>]
    OBVIOUS
  <2>2. \A i \in 0..0 : i = 0
    OBVIOUS
  <2>3. f = [i \in 0..0 |-> IF i = 0 THEN <<>> ELSE f[i - 1] \o seqs[i]]
    BY <2>1, <2>2
  <2> QED
    BY <2>3 DEF Joins
<1>2. ASSUME NEW k \in 0..n, k \in S, k < n
      PROVE  k + 1 \in S
  <2>1. PICK f : Joins(f, seqs, k)
    BY <1>2
  <2>2. PICK g : g = [i \in 0..(k + 1) |-> IF i = 0 THEN <<>> ELSE f[i - 1] \o seqs[i]]
    OBVIOUS
  <2>3. f = [i \in 0..k |-> IF i = 0 THEN <<>> ELSE f[i - 1] \o seqs[i]]
    BY <2>1 DEF Joins
  <2>4. \A i \in 0..k : i \in 0..(k + 1) /\ g[i] = f[i]
    BY <2>2, <2>3, Z3
  <2>5. \A i \in 0..(k + 1) : i # 0 => g[i - 1] = f[i - 1]
    BY <2>4
  <2>6. g = [i \in 0..(k + 1) |-> IF i = 0 THEN <<>> ELSE g[i - 1] \o seqs[i]]
    BY <2>2, <2>5
  <2>7. Joins(g, seqs, k + 1)
    BY <2>6, Zenon DEF Joins
  <2> QED
    BY <1>2, <2>7
<1> HIDE DEF S
<1>3. 0..n \subseteq S
  BY <1>1, <1>2, CountingUp
<1>4. n \in S
  BY <1>3
<1> QED
  BY <1>4 DEF S

LEMMA ConcatKeeps ==
    ASSUME NEW before, NEW n \in Nat, NEW seqs, seqs = [i \in 1..n |-> seqs[i]],
           \A i \in 1..n : Keeping(seqs[i], before)
    PROVE  Keeping(Concat(seqs), before)
<1>1. Len(seqs) = n
  BY IsSequence
<1> DEFINE joined == CHOOSE f : Joins(f, seqs, n)
<1>2. Concat(seqs) = joined[n]
  BY <1>1 DEF Concat, Joins
<1>3. Joins(joined, seqs, n)
  BY JoinsAreDefined
<1> HIDE DEF joined
<1> DEFINE S == {k \in 0..n : Keeping(joined[k], before)}
<1>4. joined = [i \in 0..n |-> IF i = 0 THEN <<>> ELSE joined[i - 1] \o seqs[i]]
  BY <1>3 DEF Joins
<1>5. 0 \in S
  <2>1. joined[0] = <<>>
    BY <1>4
  <2> QED
    BY <2>1, KeepingNone
<1>6. ASSUME NEW k \in 0..n, k \in S, k < n
      PROVE  k + 1 \in S
  <2>1. k + 1 \in 0..n /\ k + 1 \in 1..n /\ k + 1 # 0 /\ (k + 1) - 1 = k
    BY <1>6
  <2>2. joined[k + 1] = joined[k] \o seqs[k + 1]
    BY <1>4, <2>1
  <2>3. Keeping(joined[k], before) /\ Keeping(seqs[k + 1], before)
    BY <1>6, <2>1
  <2>4. Keeping(joined[k] \o seqs[k + 1], before)
    BY <2>3, KeepingBoth
  <2> QED
    BY <2>1, <2>2, <2>4
<1> HIDE DEF S
<1>7. 0..n \subseteq S
  BY <1>5, <1>6, CountingUp
<1>8. n \in S
  BY <1>7
<1> QED
  BY <1>2, <1>8 DEF S

LEMMA ShiftedKeeps ==
    ASSUME NEW before, NEW cells, NEW deltas, KeepsPorts(cells, before)
    PROVE  KeepsPorts(Shifted(cells, deltas), before)
<1> DEFINE after == Shifted(cells, deltas)
<1>1. DOMAIN after = DOMAIN before /\ DOMAIN cells = DOMAIN before
  BY DEF Shifted, KeepsPorts
<1>2. ASSUME NEW c \in DOMAIN before
      PROVE  DOMAIN after[c] = DOMAIN cells[c] /\ after[c].kind = cells[c].kind /\ after[c].cell = cells[c].cell
  <2>1. PICK place : place = cells[c].origin
    OBVIOUS
  <2>2. after[c] = cells[c] \/ \E to : after[c] = [cells[c] EXCEPT !.origin = to]
    BY <1>1 DEF Shifted
  <2>3. {"kind", "cell"} \subseteq DOMAIN cells[c]
    BY DEF KeepsPorts
  <2> HIDE DEF after
  <2> QED
    BY <2>2, <2>3
<1> HIDE DEF after
<1> QED
  BY <1>1, <1>2 DEF KeepsPorts, after

\* One cell that is put otherwise, or another of the same ports in its place.
LEMMA OneChangedKeeps ==
    ASSUME NEW before, NEW cells, NEW c, NEW placed, KeepsPorts(cells, before),
           c \in DOMAIN before => /\ {"kind", "cell"} \subseteq DOMAIN placed /\ placed.kind = before[c].kind
                                  /\ SamePorts(placed.cell, before[c].cell)
    PROVE  KeepsPorts([cells EXCEPT ![c] = placed], before)
<1>1. PICK after : after = [cells EXCEPT ![c] = placed]
  OBVIOUS
<1>2. DOMAIN after = DOMAIN before /\ \A d \in DOMAIN before : after[d] = IF d = c THEN placed ELSE cells[d]
  BY <1>1 DEF KeepsPorts
<1>3. \A d \in DOMAIN before : /\ {"kind", "cell"} \subseteq DOMAIN after[d] /\ after[d].kind = before[d].kind
                               /\ SamePorts(after[d].cell, before[d].cell)
  <2> SUFFICES ASSUME NEW d \in DOMAIN before
               PROVE  /\ {"kind", "cell"} \subseteq DOMAIN after[d] /\ after[d].kind = before[d].kind
                      /\ SamePorts(after[d].cell, before[d].cell)
    OBVIOUS
  <2>1. CASE d = c
    BY <1>2, <2>1
  <2>2. CASE d # c
    BY <1>2, <2>2 DEF KeepsPorts
  <2> QED
    BY <2>1, <2>2
<1> QED
  BY <1>1, <1>2, <1>3 DEF KeepsPorts

LEMMA TurnedKeeps ==
    ASSUME NEW before, NEW cells, NEW c, NEW rotation, KeepsPorts(cells, before)
    PROVE  Keeping(Turned(cells, c, rotation), before)
<1> DEFINE placed == cells[c]
           off(axis) == CenterSum(placed.cell, placed.rotation, axis) - CenterSum(placed.cell, rotation, axis)
           offsets(axis) == IF off(axis) % 2 = 0 THEN <<off(axis) \div 2>> ELSE <<off(axis) \div 2, off(axis) \div 2 + 1>>
           put(x, z) == [placed EXCEPT !.rotation = rotation, !.origin = Plus(@, <<x, 0, z>>)]
           turn(x, z) == Mutation("rotate", {c}, <<x, 0, z>>, [cells EXCEPT ![c] = put(x, z)])
           row(x) == [j \in DOMAIN offsets(3) |-> turn(x, offsets(3)[j])]
           rows == [i \in DOMAIN offsets(1) |-> row(offsets(1)[i])]
<1>1. Turned(cells, c, rotation) = <<>> \/ Turned(cells, c, rotation) = Concat(rows)
  BY DEF Turned
<1>2. \A x, z : KeepsPorts([cells EXCEPT ![c] = put(x, z)], before)
  <2> SUFFICES ASSUME NEW x, NEW z
               PROVE  KeepsPorts([cells EXCEPT ![c] = put(x, z)], before)
    OBVIOUS
  <2>1. ASSUME c \in DOMAIN before
        PROVE  /\ {"kind", "cell"} \subseteq DOMAIN put(x, z) /\ put(x, z).kind = before[c].kind
               /\ SamePorts(put(x, z).cell, before[c].cell)
    <3>1. {"kind", "cell"} \subseteq DOMAIN placed /\ placed.kind = before[c].kind /\ SamePorts(placed.cell, before[c].cell)
      BY <2>1 DEF KeepsPorts
    <3>2. DOMAIN put(x, z) = DOMAIN placed /\ put(x, z).kind = placed.kind /\ put(x, z).cell = placed.cell
      <4> HIDE DEF placed
      <4> QED
        BY <3>1
    <3> QED
      BY <3>1, <3>2
  <2> HIDE DEF put
  <2> QED
    BY <2>1, OneChangedKeeps
<1>3. \A axis : \E n \in {1, 2} : DOMAIN offsets(axis) = 1..n
  <2> SUFFICES ASSUME NEW axis
               PROVE  \E n \in {1, 2} : DOMAIN offsets(axis) = 1..n
    OBVIOUS
  <2>1. PICK o : o = off(axis)
    OBVIOUS
  <2>2. offsets(axis) = <<o \div 2>> \/ offsets(axis) = <<o \div 2, o \div 2 + 1>>
    BY <2>1
  <2> HIDE DEF offsets
  <2> QED
    BY <2>2
<1> HIDE DEF offsets
<1>4. \A x, z : turn(x, z).cells = [cells EXCEPT ![c] = put(x, z)]
  BY DEF Mutation
<1> HIDE DEF put, turn
<1>5. \A x : Keeping(row(x), before)
  <2> SUFFICES ASSUME NEW x
               PROVE  Keeping(row(x), before)
    OBVIOUS
  <2>1. PICK n \in {1, 2} : DOMAIN offsets(3) = 1..n
    BY <1>3
  <2>2. \A j \in 1..n : row(x)[j] = turn(x, offsets(3)[j])
    BY <2>1
  <2>3. n \in Nat /\ row(x) = [j \in 1..n |-> row(x)[j]]
    BY <2>1
  <2> HIDE DEF row
  <2>4. \A j \in 1..n : row(x)[j].cells = [cells EXCEPT ![c] = put(x, offsets(3)[j])]
    BY <2>2, <1>4
  <2>5. \A j \in 1..n : KeepsPorts(row(x)[j].cells, before)
    <3> SUFFICES ASSUME NEW j \in 1..n
                 PROVE  KeepsPorts(row(x)[j].cells, before)
      OBVIOUS
    <3>1. PICK z : z = offsets(3)[j]
      OBVIOUS
    <3>2. row(x)[j].cells = [cells EXCEPT ![c] = put(x, z)]
      BY <2>4, <3>1
    <3>3. KeepsPorts([cells EXCEPT ![c] = put(x, z)], before)
      BY <1>2
    <3> QED
      BY <3>2, <3>3
  <2> QED
    BY <2>3, <2>5, KeepingIf
<1>6. PICK n \in {1, 2} : DOMAIN offsets(1) = 1..n
  BY <1>3
<1>7. n \in Nat /\ rows = [i \in 1..n |-> rows[i]] /\ \A i \in 1..n : rows[i] = row(offsets(1)[i])
  BY <1>6
<1> HIDE DEF row, rows
<1>8. \A i \in 1..n : Keeping(rows[i], before)
  BY <1>5, <1>7
<1>9. Keeping(Concat(rows), before)
  BY <1>7, <1>8, ConcatKeeps
<1> QED
  BY <1>1, <1>9, KeepingNone

LEMMA RotationsKeep ==
    ASSUME NEW before, NEW cells, NEW c, KeepsPorts(cells, before)
    PROVE  Keeping(Rotations(cells, c), before)
<1> DEFINE turned == [r \in 1..4 |-> Turned(cells, c, r - 1)]
<1>1. \A r \in 1..4 : turned[r] = Turned(cells, c, r - 1)
  OBVIOUS
<1>2. turned = [r \in 1..4 |-> turned[r]] /\ Rotations(cells, c) = Concat(turned)
  BY DEF Rotations
<1> HIDE DEF turned
<1>3. \A r \in 1..4 : Keeping(turned[r], before)
  BY <1>1, TurnedKeeps
<1> QED
  BY <1>2, <1>3, ConcatKeeps

LEMMA DirectionsAre == DOMAIN Directions = 1..8
BY DEF Directions

LEMMA MovesKeep ==
    ASSUME NEW before, NEW cells, NEW c, KeepsPorts(cells, before)
    PROVE  Keeping(Moves(cells, c), before)
<1>1. /\ Moves(cells, c) = [i \in 1..8 |-> Moves(cells, c)[i]]
      /\ \A i \in 1..8 : Moves(cells, c)[i].cells = Shifted(cells, c :> Directions[i])
  BY DirectionsAre DEF Moves, Mutation
<1>2. \A i \in 1..8 : KeepsPorts(Moves(cells, c)[i].cells, before)
  BY <1>1, ShiftedKeeps
<1> QED
  BY <1>1, <1>2, KeepingIf

LEMMA PairKeeps ==
    ASSUME NEW before, NEW cells, NEW pair, KeepsPorts(cells, before)
    PROVE  Keeping(TogetherPair(cells, pair), before)
<1>1. PICK s : s = TogetherPair(cells, pair)
  OBVIOUS
<1>2. s = <<>> \/ \E m, deltas : s = <<m>> /\ m.cells = Shifted(cells, deltas)
  BY <1>1 DEF TogetherPair, Mutation
<1>3. CASE s = <<>>
  BY <1>1, <1>3, KeepingNone
<1>4. CASE \E m, deltas : s = <<m>> /\ m.cells = Shifted(cells, deltas)
  <2>1. PICK m, deltas : s = <<m>> /\ m.cells = Shifted(cells, deltas)
    BY <1>4
  <2>2. KeepsPorts(m.cells, before)
    BY <2>1, ShiftedKeeps
  <2>3. s = [i \in 1..1 |-> s[i]] /\ \A i \in 1..1 : s[i] = m
    BY <2>1
  <2> QED
    BY <1>1, <2>2, <2>3, KeepingIf
<1> QED
  BY <1>2, <1>3, <1>4

LEMMA GroupKeeps ==
    ASSUME NEW before, NEW cells, NEW group, KeepsPorts(cells, before)
    PROVE  Keeping(TogetherGroup(cells, group), before)
<1> DEFINE rigid == [i \in DOMAIN Directions |->
                       Mutation("group", group, Directions[i], Shifted(cells, [c \in group |-> Directions[i]]))]
           total(axis) == Total([c \in group |-> cells[c].origin[axis]])
           toward(c) == LET pull(axis) == Sign(total(axis) - cells[c].origin[axis] * Cardinality(group))
                        IN  <<pull(1), 0, pull(3)>>
           inward == Mutation("group", group, toward(Lowest(group)), Shifted(cells, [c \in group |-> toward(c)]))
<1>1. TogetherGroup(cells, group) = rigid \/ TogetherGroup(cells, group) = Append(rigid, inward)
  BY DEF TogetherGroup
<1>4. inward.cells = Shifted(cells, [c \in group |-> toward(c)])
  BY DEF Mutation
<1> HIDE DEF total, toward, inward
<1>2. Keeping(rigid, before)
  <2>1. /\ rigid = [i \in 1..8 |-> rigid[i]]
        /\ \A i \in 1..8 : rigid[i].cells = Shifted(cells, [c \in group |-> Directions[i]])
    BY DirectionsAre DEF Mutation
  <2> HIDE DEF rigid
  <2>2. \A i \in 1..8 : KeepsPorts(rigid[i].cells, before)
    BY <2>1, ShiftedKeeps
  <2> QED
    BY <2>1, <2>2, KeepingIf
<1> HIDE DEF rigid
<1>3. ASSUME NEW m, NEW deltas, m.cells = Shifted(cells, deltas)
      PROVE  Keeping(Append(rigid, m), before)
  <2>1. KeepsPorts(m.cells, before)
    BY <1>3, ShiftedKeeps
  <2>2. PICK s : s = Append(rigid, m)
    OBVIOUS
  <2>3. rigid \in Seq(On(rigid) \cup {m}) /\ Len(rigid) \in Nat /\ DOMAIN rigid = 1..Len(rigid)
    BY <1>2 DEF Keeping
  <2>4. /\ s = [i \in 1..(Len(rigid) + 1) |-> s[i]]
        /\ \A i \in 1..Len(rigid) : s[i] = rigid[i]
        /\ s[Len(rigid) + 1] = m
    <3>1. PICK S : S = On(rigid) \cup {m}
      OBVIOUS
    <3>2. m \in S /\ rigid \in Seq(S)
      BY <2>3, <3>1
    <3>3. /\ s \in Seq(S) /\ Len(s) = Len(rigid) + 1 /\ DOMAIN s = 1..(Len(rigid) + 1)
          /\ \A i \in 1..Len(rigid) : s[i] = rigid[i]
          /\ s[Len(rigid) + 1] = m
      BY <2>2, <2>3, <3>2
    <3>4. s = [i \in 1..(Len(rigid) + 1) |-> s[i]]
      BY <3>3
    <3> QED
      BY <3>3, <3>4
  <2>5. \A i \in 1..(Len(rigid) + 1) : i \in 1..Len(rigid) \/ i = Len(rigid) + 1
    BY <2>3
  <2>6. \A i \in 1..Len(rigid) : KeepsPorts(rigid[i].cells, before)
    BY <1>2, <2>3 DEF Keeping, On
  <2>7. \A i \in 1..(Len(rigid) + 1) : KeepsPorts(s[i].cells, before)
    BY <2>1, <2>4, <2>5, <2>6
  <2>8. Len(rigid) + 1 \in Nat
    BY <2>3
  <2> QED
    BY <2>2, <2>4, <2>7, <2>8, KeepingIf
<1>5. Keeping(Append(rigid, inward), before)
  BY <1>3, <1>4
<1> QED
  BY <1>1, <1>2, <1>5

\* Numbers in their order.
LEMMA SortedNumbers ==
    ASSUME NEW S, IsFiniteSet(S), S \subseteq Nat
    PROVE  Enumerates(Sorted(S, LAMBDA i, j : i < j), S)
<1> DEFINE R == {ij \in S \X S : ij[1] < ij[2]}
           placed == {<<Cardinality({y \in S \ {x} : y < x}) + 1, x>> : x \in S}
<1>1. \A i, j \in S : <<i, j>> \in R <=> i < j
  OBVIOUS
<1>2. \A i \in S : i \in Nat
  OBVIOUS
<1>3. Orders(R, S)
  <2> HIDE DEF R
  <2>1. \A x, y \in S : x # y => x < y \/ y < x
    BY <1>2
  <2>2. \A x, y \in S : ~(x < y /\ y < x)
    BY <1>2
  <2>3. \A x, y, z \in S : x < y /\ y < z => x < z
    BY <1>2
  <2> QED
    BY <1>1, <2>1, <2>2, <2>3 DEF Orders
<1>4. placed = Placed(R, S)
  <2>1. \A x \in S : {y \in S \ {x} : <<y, x>> \in R} = {y \in S \ {x} : y < x}
    <3> HIDE DEF R
    <3> QED
      BY <1>1
  <2> HIDE DEF R
  <2> QED
    BY <2>1 DEF Placed
<1>5. Sorted(S, LAMBDA i, j : i < j) = Listed(placed, Cardinality(S))
  BY DEF Sorted, Listed
<1> HIDE DEF placed, R
<1> QED
  BY <1>3, <1>4, <1>5, SortedEnumerates

LEMMA CandidatesAreListed ==
    ASSUME NEW kind \in DOMAIN Candidates
    PROVE  \E n \in Nat : DOMAIN Candidates[kind] = 1..n
<1>1. kind \in {"not", "and", "or", "nand"}
  BY DEF Candidates
<1>2. \A a, b : DOMAIN <<a>> = 1..1 /\ DOMAIN <<a, b>> = 1..2
  OBVIOUS
<1>3. \/ \E a : Candidates[kind] = <<a>>
      \/ \E a, b : Candidates[kind] = <<a, b>>
  BY <1>1 DEF Candidates
<1> QED
  BY <1>2, <1>3

\* What a cell may be replaced by has its ports.
LEMMA ReplacementsKeep ==
    ASSUME NEW before, NEW cells, NEW c, KeepsPorts(cells, before), ReplaceableCells(before)
    PROVE  Keeping(Replacements(cells, c), before)
<1> DEFINE kind == cells[c].kind
           alike == {v \in VerifiedCandidates : v[1] = kind /\ Candidates[v[1]][v[2]] # cells[c].cell}
           S == {v[2] : v \in alike}
           others == Sorted(S, LAMBDA i, j : i < j)
           put(i) == [cells[c] EXCEPT !.cell = Candidates[kind][i]]
           s == [n \in DOMAIN others |-> Mutation("replace", {c}, <<0, 0, 0>>, [cells EXCEPT ![c] = put(others[n])])]
<1>1. Replacements(cells, c) = s
  BY DEF Replacements
<1>2. \A i \in S : kind \in DOMAIN Candidates /\ i \in DOMAIN Candidates[kind]
  <2>1. \A v \in VerifiedCandidates : v[1] \in DOMAIN Candidates /\ v[2] \in DOMAIN Candidates[v[1]]
    BY DEF VerifiedCandidates
  <2> QED
    BY <2>1
<1>3. IsFiniteSet(S) /\ S \subseteq Nat
  <2> HIDE DEF S, kind
  <2>1. CASE S = {}
    BY <2>1, FS_EmptySet
  <2>2. CASE S # {}
    <3>1. PICK n \in Nat : DOMAIN Candidates[kind] = 1..n
      BY <1>2, <2>2, CandidatesAreListed
    <3>2. S \subseteq 1..n
      BY <1>2, <3>1
    <3>3. IsFiniteSet(1..n)
      BY FS_Interval
    <3>4. IsFiniteSet(S)
      BY <3>2, <3>3, FS_Subset
    <3> QED
      BY <3>2, <3>4
  <2> QED
    BY <2>1, <2>2
<1>4. Enumerates(others, S)
  <2> HIDE DEF S
  <2> QED
    BY <1>3, SortedNumbers
<1> HIDE DEF others, S
<1>5. \A i \in S : KeepsPorts([cells EXCEPT ![c] = put(i)], before)
  <2> SUFFICES ASSUME NEW i \in S
               PROVE  KeepsPorts([cells EXCEPT ![c] = put(i)], before)
    OBVIOUS
  <2>1. ASSUME c \in DOMAIN before
        PROVE  /\ {"kind", "cell"} \subseteq DOMAIN put(i) /\ put(i).kind = before[c].kind
               /\ SamePorts(put(i).cell, before[c].cell)
    <3>1. {"kind", "cell"} \subseteq DOMAIN cells[c] /\ kind = before[c].kind
      BY <2>1 DEF KeepsPorts
    <3>2. kind \in DOMAIN Candidates /\ i \in DOMAIN Candidates[kind]
      BY <1>2
    <3>3. PICK old, new : old = before[c].cell /\ new = Candidates[kind][i]
      OBVIOUS
    <3>4. SamePorts(old, new)
      BY <2>1, <3>1, <3>2, <3>3 DEF ReplaceableCells
    <3>5. SamePorts(new, old)
      BY <3>4, SamePortsAre
    <3>6. DOMAIN put(i) = DOMAIN cells[c] /\ put(i).kind = kind /\ put(i).cell = new
      BY <3>1, <3>3
    <3> HIDE DEF put, kind
    <3> QED
      BY <3>1, <3>3, <3>5, <3>6
  <2> HIDE DEF put
  <2> QED
    BY <2>1, OneChangedKeeps
<1> HIDE DEF put
<1>6. /\ others \in Seq(S) /\ Len(others) \in Nat /\ DOMAIN others = 1..Len(others)
      /\ \A n \in 1..Len(others) : others[n] \in S
  BY <1>4, OnIsTheRange DEF Enumerates
<1>7. s = [n \in 1..Len(others) |-> s[n]] /\ \A n \in 1..Len(others) : s[n].cells = [cells EXCEPT ![c] = put(others[n])]
  BY <1>6 DEF Mutation
<1> HIDE DEF s
<1>8. \A n \in 1..Len(others) : KeepsPorts(s[n].cells, before)
  BY <1>5, <1>6, <1>7
<1> QED
  BY <1>1, <1>6, <1>7, <1>8, KeepingIf

\* The sorted lists the mutations are made from have a length.
LEMMA ListsHaveLengths ==
    ASSUME NEW cells, NEW routes, IsFiniteSet(DOMAIN cells), IsFiniteSet(DOMAIN routes)
    PROVE  /\ \E n \in Nat : DOMAIN Gates(cells) = 1..n
           /\ \E n \in Nat : DOMAIN Pairs(routes) = 1..n
           /\ \E n \in Nat : DOMAIN Groups(cells, routes) = 1..n
<1>1. \E n \in Nat : DOMAIN Gates(cells) = 1..n
  <2> DEFINE S == {c \in DOMAIN cells : cells[c].kind \in GateKinds}
  <2>1. DOMAIN Gates(cells) = 1..Cardinality(S)
    BY DEF Gates, Sorted
  <2>2. S \subseteq DOMAIN cells
    OBVIOUS
  <2> HIDE DEF S
  <2>3. IsFiniteSet(S)
    BY <2>2, FS_Subset
  <2> QED
    BY <2>1, <2>3, FS_CardinalityType
<1>2. \E n \in Nat : DOMAIN Pairs(routes) = 1..n
  <2> DEFINE S == {cd \in Connected(routes) : cd[1] <= cd[2]}
             both(r) == {<<routes[r].source.cell, routes[r].sink.cell>>, <<routes[r].sink.cell, routes[r].source.cell>>}
             D == {s \in DOMAIN routes : routes[s].source.cell # 0 /\ routes[s].sink.cell # 0}
             U == {both(r) : r \in D}
  <2>1. DOMAIN Pairs(routes) = 1..Cardinality(S)
    BY DEF Pairs, Sorted
  <2>2. D \subseteq DOMAIN routes
    OBVIOUS
  <2>3. Connected(routes) = UNION U
    BY DEF Connected
  <2>4. S \subseteq Connected(routes)
    OBVIOUS
  <2>5. \A r : IsFiniteSet(both(r))
    <3> SUFFICES ASSUME NEW r
                 PROVE  IsFiniteSet(both(r))
      OBVIOUS
    <3>1. PICK p, q : both(r) = {p, q}
      OBVIOUS
    <3>2. IsFiniteSet({p}) /\ {p, q} = {p} \cup {q}
      BY FS_Singleton
    <3>3. IsFiniteSet({p} \cup {q})
      BY <3>2, FS_AddElement
    <3> QED
      BY <3>1, <3>2, <3>3
  <2> HIDE DEF S, D, both
  <2>6. IsFiniteSet(D)
    BY <2>2, FS_Subset
  <2>7. IsFiniteSet(U)
    <3>1. U = {[q \in D |-> both(q)][r] : r \in D}
      OBVIOUS
    <3>2. PICK f : f = [q \in D |-> both(q)]
      OBVIOUS
    <3>3. f \in Surjection(D, U)
      BY <3>1, <3>2 DEF Surjection
    <3> QED
      BY <2>6, <3>3, FS_Surjection
  <2>8. \A x \in U : IsFiniteSet(x)
    BY <2>5
  <2> HIDE DEF U
  <2>9. IsFiniteSet(UNION U)
    BY <2>7, <2>8, FS_UNION
  <2>10. IsFiniteSet(S)
    BY <2>3, <2>4, <2>9, FS_Subset
  <2> QED
    BY <2>1, <2>10, FS_CardinalityType
<1>3. \E n \in Nat : DOMAIN Groups(cells, routes) = 1..n
  <2> DEFINE group(c) == {c} \cup Beside(routes, c)
             U == {group(c) : c \in DOMAIN cells}
             S == {g \in U : Cardinality(g) \in 2..8}
  <2>1. DOMAIN Groups(cells, routes) = 1..Cardinality(S)
    BY DEF Groups, Sorted
  <2>2. S \subseteq U
    OBVIOUS
  <2> HIDE DEF S, group
  <2>3. IsFiniteSet(U)
    <3>1. PICK f : f = [c \in DOMAIN cells |-> group(c)]
      OBVIOUS
    <3>2. f \in Surjection(DOMAIN cells, U)
      BY <3>1 DEF Surjection
    <3> QED
      BY <3>2, FS_Surjection
  <2> HIDE DEF U
  <2>4. IsFiniteSet(S)
    BY <2>2, <2>3, FS_Subset
  <2> QED
    BY <2>1, <2>4, FS_CardinalityType
<1> QED
  BY <1>1, <1>2, <1>3

\* Whatever is tried, no cell loses a port.
LEMMA MutationsKeep ==
    ASSUME NEW before, NEW c, KeepsPorts(c.cells, before), ReplaceableCells(before), IsFiniteSet(DOMAIN c.routes)
    PROVE  \A i \in DOMAIN Mutations(c) : KeepsPorts(Mutations(c)[i].cells, before)
<1> DEFINE cells == c.cells
           gates == Gates(cells)
           pairs == Pairs(c.routes)
           groups == Groups(cells, c.routes)
           changed == [g \in DOMAIN gates |->
                         Moves(cells, gates[g]) \o Rotations(cells, gates[g]) \o Replacements(cells, gates[g])]
           paired == [n \in DOMAIN pairs |-> TogetherPair(cells, pairs[n])]
           grouped == [n \in DOMAIN groups |-> TogetherGroup(cells, groups[n])]
<1>1. Mutations(c) = Concat(changed) \o Concat(paired) \o Concat(grouped)
  BY DEF Mutations
<1>2. IsFiniteSet(DOMAIN cells)
  BY DEF KeepsPorts, ReplaceableCells
<1>3. PICK g, p, q \in Nat : DOMAIN gates = 1..g /\ DOMAIN pairs = 1..p /\ DOMAIN groups = 1..q
  BY <1>2, ListsHaveLengths
<1> HIDE DEF gates, pairs, groups, cells
<1>4. Keeping(Concat(changed), before)
  <2>1. changed = [i \in 1..g |-> changed[i]]
    BY <1>3
  <2>2. ASSUME NEW i \in 1..g
        PROVE  Keeping(changed[i], before)
    <3>1. PICK gate : gate = gates[i]
      OBVIOUS
    <3>2. changed[i] = Moves(cells, gate) \o Rotations(cells, gate) \o Replacements(cells, gate)
      BY <1>3, <3>1
    <3>3. KeepsPorts(cells, before)
      BY DEF cells
    <3>4. /\ Keeping(Moves(cells, gate), before) /\ Keeping(Rotations(cells, gate), before)
          /\ Keeping(Replacements(cells, gate), before)
      BY <3>3, MovesKeep, RotationsKeep, ReplacementsKeep
    <3>5. Keeping(Moves(cells, gate) \o Rotations(cells, gate), before)
      BY <3>4, KeepingBoth
    <3> HIDE DEF changed
    <3> QED
      BY <3>2, <3>4, <3>5, KeepingBoth
  <2> HIDE DEF changed
  <2> QED
    BY <2>1, <2>2, ConcatKeeps
<1>5. Keeping(Concat(paired), before)
  <2>1. paired = [i \in 1..p |-> paired[i]] /\ \A i \in 1..p : paired[i] = TogetherPair(cells, pairs[i])
    BY <1>3
  <2> HIDE DEF paired
  <2>2. \A i \in 1..p : Keeping(paired[i], before)
    BY <2>1, PairKeeps DEF cells
  <2> QED
    BY <2>1, <2>2, ConcatKeeps
<1>6. Keeping(Concat(grouped), before)
  <2>1. grouped = [i \in 1..q |-> grouped[i]] /\ \A i \in 1..q : grouped[i] = TogetherGroup(cells, groups[i])
    BY <1>3
  <2> HIDE DEF grouped
  <2>2. \A i \in 1..q : Keeping(grouped[i], before)
    BY <2>1, GroupKeeps DEF cells
  <2> QED
    BY <2>1, <2>2, ConcatKeeps
<1> HIDE DEF changed, paired, grouped
<1>7. Keeping(Concat(changed) \o Concat(paired), before)
  BY <1>4, <1>5, KeepingBoth
<1>8. Keeping(Mutations(c), before)
  BY <1>1, <1>6, <1>7, KeepingBoth
<1> QED
  BY <1>8 DEF Keeping, On

LEMMA ImprovingKeeps ==
    ASSUME NEW before, KeepsPorts(circuit.cells, before), ReplaceableCells(before), IsFiniteSet(DOMAIN circuit.routes)
    PROVE  \A i \in DOMAIN Improving :
               \E cells : KeepsPorts(cells, before) /\ Improving[i].circuit = Mutated(circuit, cells)
<1>1. \A i \in DOMAIN Improving : /\ i \in DOMAIN Mutations(circuit)
                                  /\ Improving[i].circuit = Mutated(circuit, Mutations(circuit)[i].cells)
  BY DEF Improving, BetterOf, Weighed
<1> QED
  BY <1>1, MutationsKeep

-----------------------------------------------------------------------------
(* The endpoints of the routes, wherever their cells have gone.            *)

LEMMA RefreshAgain ==
    ASSUME NEW cells, NEW other, NEW e
    PROVE  RefreshEndpoint(cells, RefreshEndpoint(other, e)) = RefreshEndpoint(cells, e)
<1>1. CASE e.cell = 0
  BY <1>1 DEF RefreshEndpoint
<1>2. CASE e.cell # 0
  <2>1. PICK f : f = RefreshEndpoint(other, e)
    OBVIOUS
  <2>2. f.cell = e.cell /\ f.port = e.port
    BY <1>2, <2>1 DEF RefreshEndpoint, InputEndpoint, OutputEndpoint, Endpoint
  <2>3. RefreshEndpoint(cells, f) = RefreshEndpoint(cells, e)
    BY <1>2, <2>2 DEF RefreshEndpoint
  <2> QED
    BY <2>1, <2>3
<1> QED
  BY <1>1, <1>2

LEMMA RefreshedIsSame ==
    ASSUME NEW before, NEW after, NEW e, KeepsPorts(after, before), IsAtPort(before, e)
    PROVE  SameEndpoint(RefreshEndpoint(after, e), e)
<1>1. CASE e.cell = 0
  BY <1>1 DEF RefreshEndpoint, SameEndpoint
<1>2. CASE e.cell # 0
  <2>1. PICK c : c = e.cell
    OBVIOUS
  <2>2. PICK old, new : old = before[c].cell /\ new = after[c].cell
    OBVIOUS
  <2>3. c \in DOMAIN before /\ e.port \in DOMAIN old.inputs \cup DOMAIN old.outputs /\ RefreshEndpoint(before, e) = e
    BY <1>2, <2>1, <2>2 DEF IsAtPort
  <2>4. SamePorts(new, old)
    BY <2>2, <2>3 DEF KeepsPorts
  <2>5. /\ DOMAIN new.inputs = DOMAIN old.inputs /\ DOMAIN new.outputs = DOMAIN old.outputs
        /\ \A n \in DOMAIN new.inputs : new.inputs[n].kind = old.inputs[n].kind
        /\ \A n \in DOMAIN new.outputs : new.outputs[n].kind = old.outputs[n].kind
    BY <2>4, SamePortsAre
  <2>6. CASE e.port \in DOMAIN old.inputs
    <3>1. e.kind = old.inputs[e.port].kind
      BY <1>2, <2>1, <2>2, <2>3, <2>6 DEF RefreshEndpoint, InputEndpoint, Endpoint
    <3>2. PICK f : f = RefreshEndpoint(after, e)
      OBVIOUS
    <3>3. f.cell = e.cell /\ f.port = e.port /\ f.kind = new.inputs[e.port].kind
      BY <1>2, <2>1, <2>2, <2>5, <2>6, <3>2 DEF RefreshEndpoint, InputEndpoint, Endpoint
    <3> QED
      BY <2>5, <2>6, <3>1, <3>2, <3>3 DEF SameEndpoint
  <2>7. CASE e.port \notin DOMAIN old.inputs
    <3>1. e.kind = old.outputs[e.port].kind /\ e.port \in DOMAIN old.outputs
      BY <1>2, <2>1, <2>2, <2>3, <2>7 DEF RefreshEndpoint, OutputEndpoint, Endpoint
    <3>2. PICK f : f = RefreshEndpoint(after, e)
      OBVIOUS
    <3>3. f.cell = e.cell /\ f.port = e.port /\ f.kind = new.outputs[e.port].kind
      BY <1>2, <2>1, <2>2, <2>5, <2>7, <3>2 DEF RefreshEndpoint, OutputEndpoint, Endpoint
    <3> QED
      BY <2>5, <3>1, <3>2, <3>3 DEF SameEndpoint
  <2> QED
    BY <2>6, <2>7
<1> QED
  BY <1>1, <1>2

\* Different endpoints stay different.
LEMMA RefreshedDiffer ==
    ASSUME NEW before, NEW after, NEW e, NEW f, IsAtPort(before, e), IsAtPort(before, f),
           RefreshEndpoint(after, e) = RefreshEndpoint(after, f)
    PROVE  e = f
<1>1. RefreshEndpoint(before, e) = e /\ RefreshEndpoint(before, f) = f
  BY DEF IsAtPort, RefreshEndpoint
<1>2. /\ RefreshEndpoint(before, RefreshEndpoint(after, e)) = RefreshEndpoint(before, e)
      /\ RefreshEndpoint(before, RefreshEndpoint(after, f)) = RefreshEndpoint(before, f)
  BY RefreshAgain
<1> QED
  BY <1>1, <1>2

LEMMA LowestIsLeast ==
    ASSUME NEW S, S \subseteq Nat, S # {}
    PROVE  Lowest(S) \in S /\ \A n \in S : Lowest(S) <= n
BY LeastNatural DEF Lowest

\* The sinks of a job are those of the routes from its source, each once.
LEMMA JobSinksAre ==
    ASSUME NEW routes, IsFiniteSet(DOMAIN routes), DOMAIN routes \subseteq Nat, NEW r
    PROVE  Enumerates(JobSinks(routes, r),
                      {routes[q].sink : q \in {p \in DOMAIN routes : routes[p].source = routes[r].source}})
<1> DEFINE from == {q \in DOMAIN routes : routes[q].source = routes[r].source}
           to(sink) == Lowest({q \in from : routes[q].sink = sink})
           S == {routes[q].sink : q \in from}
           R == {ab \in S \X S : to(ab[1]) < to(ab[2])}
           placed == {<<Cardinality({y \in S \ {x} : to(y) < to(x)}) + 1, x>> : x \in S}
<1>1. \A x \in S : to(x) \in Nat /\ routes[to(x)].sink = x
  <2> SUFFICES ASSUME NEW x \in S
               PROVE  to(x) \in Nat /\ routes[to(x)].sink = x
    OBVIOUS
  <2> DEFINE Q == {q \in from : routes[q].sink = x}
  <2>1. Q # {} /\ Q \subseteq Nat /\ \A q \in Q : routes[q].sink = x
    OBVIOUS
  <2>2. to(x) = Lowest(Q)
    OBVIOUS
  <2> HIDE DEF Q, to
  <2>3. Lowest(Q) \in Q
    BY <2>1, LowestIsLeast
  <2> QED
    BY <2>1, <2>2, <2>3
<1>2. IsFiniteSet(S)
  <2>1. from \subseteq DOMAIN routes
    OBVIOUS
  <2> HIDE DEF from
  <2>2. IsFiniteSet(from)
    BY <2>1, FS_Subset
  <2>3. PICK f : f = [q \in from |-> routes[q].sink]
    OBVIOUS
  <2>4. f \in Surjection(from, S)
    BY <2>3 DEF Surjection
  <2> QED
    BY <2>2, <2>4, FS_Surjection
<1>3. \A a, b \in S : <<a, b>> \in R <=> to(a) < to(b)
  <2> HIDE DEF S, to
  <2> QED
    OBVIOUS
<1>4. JobSinks(routes, r) = Listed(placed, Cardinality(S))
  BY DEF JobSinks, Sorted, Listed
<1> HIDE DEF R, to, S
<1>5. Orders(R, S)
  <2>1. \A x, y \in S : x # y => to(x) < to(y) \/ to(y) < to(x)
    <3> SUFFICES ASSUME NEW x \in S, NEW y \in S, x # y
                 PROVE  to(x) < to(y) \/ to(y) < to(x)
      OBVIOUS
    <3>1. to(x) # to(y)
      BY <1>1
    <3> QED
      BY <1>1, <3>1
  <2>2. \A x, y \in S : ~(to(x) < to(y) /\ to(y) < to(x))
    BY <1>1
  <2>3. \A x, y, z \in S : to(x) < to(y) /\ to(y) < to(z) => to(x) < to(z)
    BY <1>1
  <2> QED
    BY <1>3, <2>1, <2>2, <2>3 DEF Orders
<1>6. placed = Placed(R, S)
  <2>1. \A x \in S : {y \in S \ {x} : <<y, x>> \in R} = {y \in S \ {x} : to(y) < to(x)}
    BY <1>3
  <2> QED
    BY <2>1 DEF Placed
<1> HIDE DEF placed
<1>7. Enumerates(JobSinks(routes, r), S)
  BY <1>2, <1>4, <1>5, <1>6, SortedEnumerates
<1> QED
  BY <1>7 DEF S

\* What the circuit is from then on: its cells have the ports of those of
\* the original, and its routes are those of the original.
Follows(c, was) ==
    /\ KeepsPorts(c.cells, was.circuit.cells)
    /\ c.routes = [r \in DOMAIN was.circuit.routes |->
                     [source |-> RefreshEndpoint(c.cells, was.circuit.routes[r].source),
                      sink |-> RefreshEndpoint(c.cells, was.circuit.routes[r].sink)]]

LEMMA MutatedFollows ==
    ASSUME NEW c, NEW cells, Follows(c, original), KeepsPorts(cells, original.circuit.cells)
    PROVE  Follows(Mutated(c, cells), original)
<1>1. PICK new : new = Mutated(c, cells)
  OBVIOUS
<1>2. PICK routes : routes = original.circuit.routes
  OBVIOUS
<1>3. DOMAIN c.routes = DOMAIN routes
  BY <1>2 DEF Follows
<1>4. /\ new.cells = cells
      /\ new.routes = [r \in DOMAIN routes |-> [source |-> RefreshEndpoint(cells, c.routes[r].source),
                                                sink |-> RefreshEndpoint(cells, c.routes[r].sink)]]
  BY <1>1, <1>3 DEF Mutated
<1>5. \A r \in DOMAIN routes : /\ RefreshEndpoint(cells, c.routes[r].source) = RefreshEndpoint(cells, routes[r].source)
                               /\ RefreshEndpoint(cells, c.routes[r].sink) = RefreshEndpoint(cells, routes[r].sink)
  <2> SUFFICES ASSUME NEW r \in DOMAIN routes
               PROVE  /\ RefreshEndpoint(cells, c.routes[r].source) = RefreshEndpoint(cells, routes[r].source)
                      /\ RefreshEndpoint(cells, c.routes[r].sink) = RefreshEndpoint(cells, routes[r].sink)
    OBVIOUS
  <2>1. /\ c.routes[r].source = RefreshEndpoint(c.cells, routes[r].source)
        /\ c.routes[r].sink = RefreshEndpoint(c.cells, routes[r].sink)
    BY <1>2 DEF Follows
  <2> QED
    BY <2>1, RefreshAgain
<1>6. new.routes = [r \in DOMAIN routes |-> [source |-> RefreshEndpoint(cells, routes[r].source),
                                             sink |-> RefreshEndpoint(cells, routes[r].sink)]]
  BY <1>4, <1>5
<1> QED
  BY <1>1, <1>2, <1>4, <1>6 DEF Follows

\* The circuit has the routes of the nets, and both are at its ports.
Described(was) ==
    /\ RecordsNets(was.circuit.routes, was.routing)
    /\ EndAtPorts(was.circuit.cells, was.routing)

NetsLike(job) == {n \in DOMAIN original.routing : SameNet(job, original.routing[n])}

\* The routes are a sequence, so there are finitely many.
LEMMA RoutesAreListed ==
    ASSUME NEW was, Described(was)
    PROVE  /\ IsFiniteSet(DOMAIN was.circuit.routes) /\ DOMAIN was.circuit.routes \subseteq Nat
           /\ was.circuit.routes = [r \in DOMAIN was.circuit.routes |-> was.circuit.routes[r]]
<1>1. PICK routes : routes = was.circuit.routes
  OBVIOUS
<1>2. routes \in Seq(On(routes))
  BY <1>1 DEF Described, RecordsNets
<1>3. Len(routes) \in Nat /\ DOMAIN routes = 1..Len(routes) /\ routes = [r \in DOMAIN routes |-> routes[r]]
  BY <1>2
<1>4. IsFiniteSet(1..Len(routes))
  BY <1>3, FS_Interval
<1> QED
  BY <1>1, <1>3, <1>4

\* A route leads from the source of a net to one of its sinks, and each has one.
LEMMA RouteOfANet ==
    ASSUME NEW was, Described(was)
    PROVE  /\ \A r \in DOMAIN was.circuit.routes : \E n \in DOMAIN was.routing :
                 /\ was.circuit.routes[r].source = was.routing[n].source
                 /\ was.circuit.routes[r].sink \in On(was.routing[n].sinks)
                 /\ was.circuit.routes[r] = [source |-> was.routing[n].source,
                                                  sink |-> was.circuit.routes[r].sink]
           /\ \A n \in DOMAIN was.routing : \A s \in On(was.routing[n].sinks) :
                 \E r \in DOMAIN was.circuit.routes :
                     was.circuit.routes[r].source = was.routing[n].source /\ was.circuit.routes[r].sink = s
<1> DEFINE routes == was.circuit.routes
           nets == was.routing
           pair(n, s) == [source |-> nets[n].source, sink |-> s]
           pairs(n) == {pair(n, s) : s \in On(nets[n].sinks)}
           all == {pairs(n) : n \in DOMAIN nets}
<1>1. {routes[r] : r \in DOMAIN routes} = UNION all
  BY DEF Described, RecordsNets, On
<1>2. ASSUME NEW r \in DOMAIN routes
      PROVE  \E n \in DOMAIN nets : /\ routes[r].source = nets[n].source /\ routes[r].sink \in On(nets[n].sinks)
                                    /\ routes[r] = [source |-> nets[n].source, sink |-> routes[r].sink]
  <2>1. routes[r] \in UNION all
    BY <1>1
  <2>2. PICK n \in DOMAIN nets : routes[r] \in pairs(n)
    BY <2>1
  <2> QED
    BY <2>2
<1>3. ASSUME NEW n \in DOMAIN nets, NEW s \in On(nets[n].sinks)
      PROVE  \E r \in DOMAIN routes : routes[r].source = nets[n].source /\ routes[r].sink = s
  <2>1. pair(n, s) \in UNION all
    <3>1. pair(n, s) \in pairs(n) /\ pairs(n) \in all
      OBVIOUS
    <3> HIDE DEF pair, pairs, all
    <3> QED
      BY <3>1
  <2>2. PICK r \in DOMAIN routes : routes[r] = pair(n, s)
    BY <1>1, <2>1
  <2> QED
    BY <2>2
<1> QED
  BY <1>2, <1>3

\* A job of the routes is one of the nets, and of no other.
LEMMA JobIsItsNet ==
    ASSUME NEW c, Follows(c, original), Described(original), NEW r \in DOMAIN c.routes, NEW n \in DOMAIN original.routing,
           original.circuit.routes[r].source = original.routing[n].source,
           NEW job, job = [source |-> c.routes[r].source, sinks |-> JobSinks(c.routes, r)]
    PROVE  NetsLike(job) = {n}
<1> DEFINE fresh(e) == RefreshEndpoint(c.cells, e)
           given == original.routing[n]
           cells == original.circuit.cells
           routes == original.circuit.routes
           from == {q \in DOMAIN c.routes : c.routes[q].source = c.routes[r].source}
           S == {c.routes[q].sink : q \in from}
<1>1. /\ DOMAIN c.routes = DOMAIN routes /\ KeepsPorts(c.cells, cells)
      /\ \A q \in DOMAIN routes : c.routes[q].source = fresh(routes[q].source) /\ c.routes[q].sink = fresh(routes[q].sink)
  BY DEF Follows
<1>2. /\ \A m \in DOMAIN original.routing : EndsAtPorts(cells, original.routing[m])
      /\ \A m, k \in DOMAIN original.routing :
             SameEndpoint(original.routing[m].source, original.routing[k].source) => m = k
      /\ given.sinks \in Seq(On(given.sinks)) /\ Distinct(given.sinks)
  BY DEF Described, EndAtPorts, RecordsNets, Distinct
<1>3. \A m \in DOMAIN original.routing :
          /\ IsAtPort(cells, original.routing[m].source)
          /\ \A s \in On(original.routing[m].sinks) : IsAtPort(cells, s)
  BY <1>2 DEF EndsAtPorts
<1>4. job.source = fresh(given.source)
  BY <1>1
<1>5. \A q \in DOMAIN routes : q \in from <=> routes[q].source = given.source
  <2> SUFFICES ASSUME NEW q \in DOMAIN routes
               PROVE  fresh(routes[q].source) = fresh(given.source) <=> routes[q].source = given.source
    BY <1>1
  <2>1. IsAtPort(cells, routes[q].source) /\ IsAtPort(cells, given.source)
    BY <1>3, RouteOfANet
  <2> QED
    BY <2>1, RefreshedDiffer
<1>6. S = {fresh(s) : s \in On(given.sinks)}
  <2>1. ASSUME NEW q \in from
        PROVE  c.routes[q].sink \in {fresh(s) : s \in On(given.sinks)}
    <3>1. q \in DOMAIN routes /\ routes[q].source = given.source
      BY <1>1, <1>5, <2>1
    <3>2. PICK m \in DOMAIN original.routing : /\ routes[q].source = original.routing[m].source
                                              /\ routes[q].sink \in On(original.routing[m].sinks)
      BY <3>1, RouteOfANet
    <3>3. m = n
      BY <1>2, <3>1, <3>2 DEF SameEndpoint
    <3> QED
      BY <1>1, <3>1, <3>2, <3>3
  <2>2. ASSUME NEW s \in On(given.sinks)
        PROVE  fresh(s) \in S
    <3>1. PICK q \in DOMAIN routes : routes[q].source = given.source /\ routes[q].sink = s
      BY RouteOfANet
    <3>2. q \in from /\ c.routes[q].sink = fresh(s)
      BY <1>1, <1>5, <3>1
    <3> HIDE DEF from, fresh
    <3> QED
      BY <3>2
  <2> HIDE DEF from, fresh
  <2> QED
    BY <2>1, <2>2
<1>7. Enumerates(job.sinks, S)
  <2>1. IsFiniteSet(DOMAIN c.routes) /\ DOMAIN c.routes \subseteq Nat
    <3>1. IsFiniteSet(DOMAIN routes) /\ DOMAIN routes \subseteq Nat
      BY RoutesAreListed
    <3> QED
      BY <1>1, <3>1
  <2>2. Enumerates(JobSinks(c.routes, r), S)
    BY <2>1, JobSinksAre
  <2> QED
    BY <2>2
<1> HIDE DEF from, S
<1>8. Len(job.sinks) = Len(given.sinks)
  <2> DEFINE moved == [i \in DOMAIN given.sinks |-> fresh(given.sinks[i])]
  <2>1. /\ Len(given.sinks) \in Nat /\ DOMAIN given.sinks = 1..Len(given.sinks)
        /\ \A i \in DOMAIN given.sinks : given.sinks[i] \in On(given.sinks)
    BY <1>2, OnIsTheRange
  <2>2. moved = [i \in 1..Len(given.sinks) |-> moved[i]] /\ \A i \in DOMAIN given.sinks : moved[i] = fresh(given.sinks[i])
    BY <2>1
  <2> HIDE DEF moved
  <2>3. moved \in Seq(On(moved)) /\ Len(moved) = Len(given.sinks) /\ DOMAIN moved = DOMAIN given.sinks
    BY <2>1, <2>2, IsSequence
  <2>4. On(moved) = S
    <3>1. On(moved) = {moved[i] : i \in DOMAIN given.sinks} /\ On(given.sinks) = {given.sinks[i] : i \in DOMAIN given.sinks}
      BY <2>3 DEF On
    <3> HIDE DEF fresh
    <3>2. \A x \in On(moved) : x \in S
      BY <1>6, <2>1, <2>2, <3>1
    <3>3. \A x \in S : x \in On(moved)
      <4> SUFFICES ASSUME NEW x \in S
                   PROVE  x \in On(moved)
        OBVIOUS
      <4>1. PICK s \in On(given.sinks) : x = fresh(s)
        BY <1>6
      <4>2. PICK i \in DOMAIN given.sinks : s = given.sinks[i]
        BY <3>1
      <4>3. moved[i] = x
        BY <2>2, <4>1, <4>2
      <4> QED
        BY <3>1, <4>3
    <3> QED
      BY <3>2, <3>3
  <2>5. Distinct(moved)
    <3> SUFFICES ASSUME NEW i \in DOMAIN given.sinks, NEW j \in DOMAIN given.sinks, moved[i] = moved[j]
                 PROVE  i = j
      BY <2>3 DEF Distinct
    <3>1. IsAtPort(cells, given.sinks[i]) /\ IsAtPort(cells, given.sinks[j])
      BY <1>3, <2>1
    <3>2. fresh(given.sinks[i]) = fresh(given.sinks[j])
      BY <2>2
    <3>3. given.sinks[i] = given.sinks[j]
      BY <3>1, <3>2, RefreshedDiffer
    <3> QED
      BY <1>2, <3>3 DEF Distinct
  <2>6. Cardinality(S) = Len(moved)
    BY <2>3, <2>4, <2>5, DistinctLength
  <2>7. Cardinality(S) = Len(job.sinks)
    BY <1>7, DistinctLength DEF Enumerates
  <2> QED
    BY <2>3, <2>6, <2>7
<1>9. SameNet(job, given)
  <2>1. SameEndpoint(job.source, given.source)
    BY <1>1, <1>3, <1>4, RefreshedIsSame
  <2>2. \A s \in On(job.sinks) : \E t \in On(given.sinks) : SameEndpoint(s, t)
    <3> SUFFICES ASSUME NEW s \in S
                 PROVE  \E t \in On(given.sinks) : SameEndpoint(s, t)
      BY <1>7 DEF Enumerates
    <3>1. PICK t \in On(given.sinks) : s = fresh(t)
      BY <1>6
    <3>2. IsAtPort(cells, t)
      BY <1>3
    <3>3. SameEndpoint(fresh(t), t)
      BY <1>1, <3>2, RefreshedIsSame
    <3> QED
      BY <3>1, <3>3
  <2> QED
    BY <1>8, <2>1, <2>2 DEF SameNet
<1>10. ASSUME NEW m \in DOMAIN original.routing, SameNet(job, original.routing[m])
       PROVE  m = n
  <2>1. SameEndpoint(job.source, original.routing[m].source) /\ SameEndpoint(job.source, given.source)
    BY <1>9, <1>10 DEF SameNet
  <2>2. SameEndpoint(original.routing[m].source, given.source)
    BY <2>1 DEF SameEndpoint
  <2> QED
    BY <1>2, <2>2
<1> QED
  BY <1>9, <1>10 DEF NetsLike

LEMMA LowestOfOne ==
    ASSUME NEW n \in Nat
    PROVE  Lowest({n}) = n
<1>1. Lowest({n}) \in {n}
  BY LowestIsLeast
<1> QED
  BY <1>1

\* Every net that is not fixed is routed again, and nothing else.
LEMMA JobsAgainAre ==
    ASSUME NEW c, Follows(c, original), Described(original), DOMAIN original.routing \subseteq Nat, NEW fixed
    PROVE  DOMAIN JobsAgain(c.routes, fixed) = DOMAIN original.routing \ DOMAIN fixed
<1> DEFINE jobs == RoutingJobs(c.routes)
           again == {job \in jobs : NetsLike(job) # {} /\ Lowest(NetsLike(job)) \notin DOMAIN fixed}
<1>1. DOMAIN JobsAgain(c.routes, fixed) = {Lowest(NetsLike(job)) : job \in again}
  BY DEF JobsAgain, NetsLike
<1>2. ASSUME NEW job \in jobs
      PROVE  \E n \in DOMAIN original.routing : NetsLike(job) = {n}
  <2>1. PICK r \in DOMAIN c.routes : job = [source |-> c.routes[r].source, sinks |-> JobSinks(c.routes, r)]
    BY <1>2 DEF RoutingJobs
  <2>2. r \in DOMAIN original.circuit.routes
    BY DEF Follows
  <2>3. PICK n \in DOMAIN original.routing : original.circuit.routes[r].source = original.routing[n].source
    BY <2>2, RouteOfANet
  <2> QED
    BY <2>1, <2>3, JobIsItsNet
<1>3. ASSUME NEW n \in DOMAIN original.routing
      PROVE  \E job \in jobs : NetsLike(job) = {n}
  <2>1. PICK s : s \in On(original.routing[n].sinks)
    <3>1. PICK sinks : sinks = original.routing[n].sinks
      OBVIOUS
    <3>2. sinks \in Seq(On(sinks)) /\ sinks # <<>>
      BY <3>1 DEF Described, RecordsNets
    <3>3. 1 \in DOMAIN sinks
      BY <3>2
    <3> QED
      BY <3>1, <3>3 DEF On
  <2>2. PICK r \in DOMAIN original.circuit.routes : original.circuit.routes[r].source = original.routing[n].source
    BY <2>1, RouteOfANet
  <2>3. r \in DOMAIN c.routes
    BY DEF Follows
  <2>4. PICK job : job = [source |-> c.routes[r].source, sinks |-> JobSinks(c.routes, r)]
    OBVIOUS
  <2>5. job \in jobs
    BY <2>3, <2>4 DEF RoutingJobs
  <2>6. NetsLike(job) = {n}
    BY <2>2, <2>3, <2>4, JobIsItsNet
  <2> QED
    BY <2>5, <2>6
<1> HIDE DEF jobs
<1>4. \A n \in DOMAIN original.routing : Lowest({n}) = n
  BY LowestOfOne
<1>5. \A x \in {Lowest(NetsLike(job)) : job \in again} : x \in DOMAIN original.routing \ DOMAIN fixed
  BY <1>2, <1>4
<1>6. \A n \in DOMAIN original.routing \ DOMAIN fixed : n \in {Lowest(NetsLike(job)) : job \in again}
  <2> SUFFICES ASSUME NEW n \in DOMAIN original.routing, n \notin DOMAIN fixed
               PROVE  n \in {Lowest(NetsLike(job)) : job \in again}
    OBVIOUS
  <2>1. PICK job \in jobs : NetsLike(job) = {n}
    BY <1>3
  <2>2. Lowest(NetsLike(job)) = n /\ NetsLike(job) # {}
    BY <1>4, <2>1
  <2>3. job \in again
    BY <2>1, <2>2
  <2> QED
    BY <2>2, <2>3
<1> QED
  BY <1>1, <1>5, <1>6

-----------------------------------------------------------------------------
(* No net of the original is lost.                                         *)

\* What was given: its cells may be replaced, and where its routes are
\* recorded they are those of its nets.
IsGiven(was, given) ==
    /\ was.circuit.cells = given.cells /\ was.circuit.routes = given.routes
    /\ DOMAIN was.routing = DOMAIN NetsOf(given)
    /\ \A n \in DOMAIN NetsOf(given) : /\ was.routing[n].source = NetsOf(given)[n].source
                                       /\ was.routing[n].sinks = NetsOf(given)[n].sinks

\* The nets that are routed are those of the problem.
OfTheProblem ==
    \A n \in DOMAIN routing : /\ n \in DOMAIN NetsOf(problem)
                              /\ routing[n].source = NetsOf(problem)[n].source
                              /\ routing[n].sinks = NetsOf(problem)[n].sinks

\* When it has compiled, every net is routed, and from then on the circuit
\* and every mutation that is tried has the ports and the routes of the
\* original; so each time it is routed again every net is.
SurviveInv ==
    /\ FitInv /\ "jobs" \in DOMAIN problem
    /\ Compiling => OfTheProblem /\ trials = Nothing /\ (stage \in {"routed", "compiled"} => pending = <<>>)
    /\ mode = "begin" => stage = "compiled"
    /\ ~Compiling => /\ \E given \in Problems : IsGiven(original, given)
                     /\ original.circuit.routes # <<>> =>
                          Follows(circuit, original) /\ \A i \in DOMAIN trials : Follows(trials[i].circuit, original)
    /\ mode \in {"route", "final"} /\ original.circuit.routes # <<>> =>
         DOMAIN original.routing = DOMAIN problem.jobs \cup DOMAIN problem.fixed

LEMMA SurviveMeans == SurviveInv => EveryNetSurvives
BY DEF SurviveInv, EveryNetSurvives

LEMMA SurviveAtFirst == OptimizerInit => SurviveInv
<1> SUFFICES ASSUME OptimizerInit
             PROVE  SurviveInv
  OBVIOUS
<1>1. FitInv
  BY FitAtFirst
<1>2. /\ problem \in Problems /\ routing = problem.fixed /\ stage = "nets" /\ Compiling /\ mode = "compile"
      /\ trials = Nothing
  BY DEF OptimizerInit, Init, Compiling
<1>3. "jobs" \in DOMAIN problem /\ DOMAIN problem.jobs \cap DOMAIN problem.fixed = {}
  BY <1>2, OptimizerAssumption, TheProblem DEF Jobs
<1>4. OfTheProblem
  BY <1>2, <1>3 DEF OfTheProblem, NetsOf
<1> QED
  BY <1>1, <1>2, <1>3, <1>4 DEF SurviveInv

\* The router gives a net what its job says, and ends when none waits.
LEMMA RoutingStaysOfTheProblem ==
    ASSUME KeptInv, RoutingStep, OfTheProblem, stage \in {"routed", "compiled"} => pending = <<>>
    PROVE  OfTheProblem' /\ (stage' \in {"routed", "compiled"} => pending' = <<>>)
<1>1. problem' = problem
  BY DEF RoutingStep, TakeNet, GiveUp, Finish, EndNet, TakeSink, EndSink, TakeGoal, SkipGoal, Expand, Miss, Arrive
<1>2. stage' \in {"routed", "compiled"} => pending' = <<>>
  BY DEF RoutingStep, TakeNet, GiveUp, Finish, EndNet, TakeSink, EndSink, TakeGoal, SkipGoal, Expand, Miss, Arrive,
         Reject, Accept, loop
<1>3. CASE UNCHANGED routing
  BY <1>1, <1>2, <1>3 DEF OfTheProblem, NetsOf
<1>4. CASE \E S : routing' = [n \in DOMAIN routing \ S |-> routing[n]]
  BY <1>1, <1>2, <1>4 DEF OfTheProblem, NetsOf
<1>5. CASE \E branches : routing' = With(MakeNet(Jobs[net.id], branches)) /\ net.id \in DOMAIN Jobs
  <2>1. PICK branches : routing' = With(MakeNet(Jobs[net.id], branches))
    BY <1>5
  <2>2. PICK made, job, id : made = MakeNet(job, branches) /\ job = Jobs[net.id] /\ id = net.id
    OBVIOUS
  <2>3. made.source = job.source /\ made.sinks = job.sinks
    BY <2>2, MakeNetKeepsEnds
  <2>4. id \in DOMAIN NetsOf(problem) /\ NetsOf(problem)[id] = job
    BY <1>5, <2>2 DEF NetsOf, Jobs
  <2>5. routing' = [m \in DOMAIN routing \cup {id} |-> IF m = id THEN made ELSE routing[m]]
    BY <2>1, <2>2 DEF With
  <2>6. NetsOf(problem)' = NetsOf(problem)
    BY <1>1 DEF NetsOf
  <2> QED
    BY <1>2, <2>3, <2>4, <2>5, <2>6 DEF OfTheProblem
<1>6. CASE Reject
  BY <1>2, <1>3, <1>4, <1>6 DEF Reject, RipUp
<1>7. CASE EndNet
  <2>1. net.id \in DOMAIN Jobs
    BY <1>7 DEF EndNet, KeptInv, Working
  <2>2. Accept(With(MakeNet(Jobs[net.id], net.branches))) \/ Reject
    BY <1>7 DEF EndNet
  <2> QED
    BY <1>5, <1>6, <2>1, <2>2 DEF Accept
<1>8. CASE EndSink
  BY <1>3, <1>6, <1>8 DEF EndSink
<1>9. CASE TakeNet \/ GiveUp \/ Finish \/ TakeSink \/ TakeGoal \/ SkipGoal \/ Expand \/ Miss \/ Arrive
  BY <1>3, <1>9 DEF TakeNet, GiveUp, Finish, TakeSink, TakeGoal, SkipGoal, Expand, Miss, Arrive, loop
<1> QED
  BY <1>7, <1>8, <1>9 DEF RoutingStep

LEMMA GivenIsDescribed ==
    ASSUME NEW was, NEW given \in Problems, IsGiven(was, given), was.circuit.routes # <<>>
    PROVE  /\ RecordsNets(was.circuit.routes, was.routing)
           /\ ReplaceableCells(was.circuit.cells)
           /\ DOMAIN was.routing \subseteq Nat
<1>1. PICK before, after : before = NetsOf(given) /\ after = was.routing
  OBVIOUS
<1>2. PICK routes, cells : routes = was.circuit.routes /\ cells = was.circuit.cells
  OBVIOUS
<1>3. routes = given.routes /\ cells = given.cells /\ routes # <<>> /\ DOMAIN after = DOMAIN before
  BY <1>1, <1>2 DEF IsGiven
<1>4. RecordsNets(routes, before) /\ ReplaceableCells(cells)
  BY <1>1, <1>3, OptimizerAssumption
<1>5. \A n \in DOMAIN before : after[n].source = before[n].source /\ after[n].sinks = before[n].sinks
  BY <1>1 DEF IsGiven
<1>6. DOMAIN before \subseteq Nat
  <2>1. DOMAIN before = DOMAIN given.jobs \cup DOMAIN given.fixed
    BY <1>1 DEF NetsOf
  <2> QED
    BY <2>1, RouterAssumption
<1>7. RecordsNets(routes, after)
  <2> DEFINE routesOf(nets, n) == {[source |-> nets[n].source, sink |-> s] : s \in On(nets[n].sinks)}
  <2>1. \A n \in DOMAIN before : routesOf(after, n) = routesOf(before, n)
    BY <1>5
  <2>2. On(routes) = UNION {routesOf(before, n) : n \in DOMAIN before}
    BY <1>4 DEF RecordsNets
  <2> HIDE DEF routesOf
  <2>3. {routesOf(before, n) : n \in DOMAIN before} = {routesOf(after, n) : n \in DOMAIN after}
    BY <1>3, <2>1
  <2>4. On(routes) = UNION {routesOf(after, n) : n \in DOMAIN after}
    BY <2>2, <2>3
  <2>5. \A n \in DOMAIN after :
          /\ after[n].sinks \in Seq(On(after[n].sinks)) /\ after[n].sinks # <<>>
          /\ \A i, j \in DOMAIN after[n].sinks : after[n].sinks[i] = after[n].sinks[j] => i = j
    BY <1>3, <1>4, <1>5 DEF RecordsNets
  <2>6. \A n, m \in DOMAIN after : SameEndpoint(after[n].source, after[m].source) => n = m
    BY <1>3, <1>4, <1>5 DEF RecordsNets
  <2>7. routes \in Seq(On(routes))
    BY <1>4 DEF RecordsNets
  <2> QED
    BY <2>4, <2>5, <2>6, <2>7 DEF RecordsNets, routesOf
<1> QED
  BY <1>1, <1>2, <1>3, <1>4, <1>6, <1>7

LEMMA OriginalFollows ==
    ASSUME NEW was, Described(was), ReplaceableCells(was.circuit.cells)
    PROVE  Follows(was.circuit, was)
<1> DEFINE cells == was.circuit.cells
           routes == was.circuit.routes
<1>1. KeepsPorts(cells, cells)
  BY DEF ReplaceableCells, KeepsPorts, SamePorts
<1>2. \A r \in DOMAIN routes : routes[r] = [source |-> RefreshEndpoint(cells, routes[r].source),
                                           sink |-> RefreshEndpoint(cells, routes[r].sink)]
  <2> SUFFICES ASSUME NEW r \in DOMAIN routes
               PROVE  routes[r] = [source |-> RefreshEndpoint(cells, routes[r].source),
                                   sink |-> RefreshEndpoint(cells, routes[r].sink)]
    OBVIOUS
  <2>1. PICK n \in DOMAIN was.routing : /\ routes[r].source = was.routing[n].source
                                            /\ routes[r].sink \in On(was.routing[n].sinks)
                                            /\ routes[r] = [source |-> was.routing[n].source, sink |-> routes[r].sink]
    BY RouteOfANet
  <2>2. IsAtPort(cells, routes[r].source) /\ IsAtPort(cells, routes[r].sink)
    BY <2>1 DEF Described, EndAtPorts, EndsAtPorts
  <2>3. \A e : IsAtPort(cells, e) => RefreshEndpoint(cells, e) = e
    BY DEF IsAtPort, RefreshEndpoint
  <2>4. PICK from, to : from = routes[r].source /\ to = routes[r].sink
    OBVIOUS
  <2>5. routes[r] = [source |-> from, sink |-> to]
    BY <2>1, <2>4
  <2> QED
    BY <2>2, <2>3, <2>4, <2>5
<1>3. routes = [r \in DOMAIN routes |-> routes[r]]
  BY RoutesAreListed
<1> QED
  BY <1>1, <1>2, <1>3 DEF Follows

LEMMA RouteAgainSurvives ==
    ASSUME NEW c, Follows(c, original), Described(original), DOMAIN original.routing \subseteq Nat, RouteAgain(c),
           {"cells", "jobs", "fixed"} \subseteq DOMAIN problem
    PROVE  DOMAIN original.routing = DOMAIN problem'.jobs \cup DOMAIN problem'.fixed
<1>1. PICK fixed : fixed = FixedNets(ChangedCells(c))
  OBVIOUS
<1>2. PICK jobs, before : jobs = JobsAgain(c.routes, fixed) /\ before = problem
  OBVIOUS
<1>3. problem'.jobs = jobs /\ problem'.fixed = fixed
  BY <1>1, <1>2 DEF RouteAgain
<1>4. DOMAIN fixed \subseteq DOMAIN original.routing
  BY <1>1 DEF FixedNets
<1>5. DOMAIN jobs = DOMAIN original.routing \ DOMAIN fixed
  BY <1>2, JobsAgainAre
<1> QED
  BY <1>3, <1>4, <1>5

LEMMA SurviveStays ==
    ASSUME SurviveInv, [OptimizerNext]_allVars
    PROVE  SurviveInv'
<1>1. FitInv' /\ FitInv
  BY FitStays DEF SurviveInv
<1>2. ASSUME ~Compiling, original.circuit.routes # <<>>
      PROVE  /\ Described(original) /\ ReplaceableCells(original.circuit.cells)
             /\ DOMAIN original.routing \subseteq Nat
  <2>1. PICK given \in Problems : IsGiven(original, given)
    BY <1>2 DEF SurviveInv
  <2>2. EndAtPorts(original.circuit.cells, original.routing)
    BY <1>1, <1>2 DEF FitInv
  <2> QED
    BY <1>2, <2>1, <2>2, GivenIsDescribed DEF Described
<1>3. CASE Route
  <2>1. UNCHANGED own /\ RoutingStep /\ mode # "begin"
    BY <1>3 DEF Route
  <2>2. problem' = problem
    BY <2>1 DEF RoutingStep, TakeNet, GiveUp, Finish, EndNet, TakeSink, EndSink, TakeGoal, SkipGoal, Expand, Miss, Arrive
  <2>3. UNCHANGED <<mode, original, circuit, trials>>
    BY <2>1 DEF own
  <2>4. Compiling => OfTheProblem' /\ (stage' \in {"routed", "compiled"} => pending' = <<>>)
    BY <1>1, <2>1, RoutingStaysOfTheProblem DEF SurviveInv, FitInv
  <2> QED
    BY <1>1, <2>1, <2>2, <2>3, <2>4 DEF SurviveInv, Compiling
<1>4. CASE CheckCompiled
  <2>1. UNCHANGED <<mode, original, circuit, trials, problem, routing, pending>> /\ mode # "begin" /\ stage = "routed"
    BY <1>4 DEF CheckCompiled, own, Check, loop
  <2> QED
    BY <1>1, <2>1 DEF SurviveInv, Compiling, OfTheProblem, NetsOf
<1>5. CASE Build
  <2>1. UNCHANGED <<original, circuit, trials, problem, routing, pending, stage>>
    BY <1>5 DEF Build, vars, loop
  <2>2. \/ mode = "compile" /\ stage = "compiled" /\ mode' = "begin"
        \/ ~Compiling /\ ~Compiling' /\ mode' \notin {"route", "final", "begin"}
    BY <1>5 DEF Build, Compiling
  <2> QED
    BY <1>1, <2>1, <2>2 DEF SurviveInv, Compiling, OfTheProblem, NetsOf
<1>6. CASE Begin
  <2>1. /\ mode = "begin" /\ mode' = "improve" /\ UNCHANGED <<problem, routing, trials>>
        /\ original'.circuit = circuit' /\ original'.routing = routing /\ circuit' = CircuitOf(problem)
    BY <1>6 DEF Begin, vars, loop
  <2>2. Compiling /\ ~Compiling'
    BY <2>1 DEF Compiling
  <2>3. /\ problem \in Problems /\ KeptInv /\ OfTheProblem /\ stage = "compiled" /\ pending = <<>> /\ trials = Nothing
        /\ EndAtPorts(problem.cells, routing)
    BY <1>1, <2>1, <2>2 DEF SurviveInv, FitInv, KeptInv
  <2>4. DOMAIN routing = DOMAIN NetsOf(problem)
    <3>1. On(pending) = {} /\ ~Working
      BY <2>3 DEF On, Working
    <3>2. DOMAIN routing = DOMAIN problem.fixed \cup On(routedOrder) /\ DOMAIN Jobs = On(routedOrder)
      BY <2>3, <3>1 DEF KeptInv
    <3> QED
      BY <3>2 DEF NetsOf, Jobs
  <2>5. PICK given, was, nets : given = problem /\ was = original' /\ nets = routing
    OBVIOUS
  <2>6. given \in Problems /\ was.circuit = CircuitOf(given) /\ was.routing = nets /\ EndAtPorts(given.cells, nets)
    BY <2>1, <2>3, <2>5
  <2>7. was.circuit.cells = given.cells /\ was.circuit.routes = given.routes
    BY <2>6 DEF CircuitOf
  <2>8. IsGiven(was, given)
    BY <2>3, <2>4, <2>5, <2>6, <2>7 DEF IsGiven, OfTheProblem
  <2>9. ASSUME was.circuit.routes # <<>>
        PROVE  Follows(was.circuit, was)
    <3>1. RecordsNets(was.circuit.routes, was.routing) /\ ReplaceableCells(was.circuit.cells)
      BY <2>6, <2>8, <2>9, GivenIsDescribed
    <3>2. Described(was)
      BY <2>6, <2>7, <3>1 DEF Described
    <3> QED
      BY <3>1, <3>2, OriginalFollows
  <2>10. /\ \E g \in Problems : IsGiven(original', g)
         /\ original'.circuit.routes # <<>> => Follows(circuit', original')
    BY <2>1, <2>5, <2>6, <2>8, <2>9
  <2>11. trials' = Nothing /\ DOMAIN Nothing = {} /\ mode' = "improve" /\ problem' = problem
    BY <2>1, <2>3 DEF Nothing
  <2> QED
    BY <1>1, <2>2, <2>10, <2>11 DEF SurviveInv
<1>7. CASE Improve
  <2>1. /\ UNCHANGED <<problem, original, circuit>> /\ mode = "improve" /\ mode' = "try"
        /\ trials' = Nothing \/ trials' = Improving
    BY <1>7 DEF Improve, vars
  <2>2. ~Compiling /\ ~Compiling' /\ DOMAIN Nothing = {}
    BY <2>1 DEF Compiling, Nothing
  <2>3. ASSUME original.circuit.routes # <<>>
        PROVE  \A i \in DOMAIN Improving : Follows(Improving[i].circuit, original)
    <3>1. Follows(circuit, original) /\ Described(original) /\ ReplaceableCells(original.circuit.cells)
      BY <1>2, <2>2, <2>3 DEF SurviveInv
    <3>2. KeepsPorts(circuit.cells, original.circuit.cells) /\ DOMAIN circuit.routes = DOMAIN original.circuit.routes
      BY <3>1 DEF Follows
    <3>3. IsFiniteSet(DOMAIN circuit.routes)
      BY <3>1, <3>2, RoutesAreListed
    <3>4. \A i \in DOMAIN Improving :
              \E cells : KeepsPorts(cells, original.circuit.cells) /\ Improving[i].circuit = Mutated(circuit, cells)
      BY <3>1, <3>2, <3>3, ImprovingKeeps
    <3> QED
      BY <3>1, <3>4, MutatedFollows
  <2>4. original.circuit.routes # <<>> => \A i \in DOMAIN trials' : Follows(trials'[i].circuit, original)
    BY <2>1, <2>2, <2>3
  <2> QED
    BY <1>1, <2>1, <2>2, <2>4 DEF SurviveInv
<1>8. CASE Try
  <2>1. /\ mode = "try" /\ mode' \in {"route", "final"} /\ UNCHANGED <<original, circuit, trials>>
        /\ RouteAgain(circuit) \/ \E best \in Foremost : RouteAgain(trials[best].circuit)
    BY <1>8 DEF Try
  <2>2. ~Compiling /\ ~Compiling' /\ mode' # "begin"
    BY <2>1 DEF Compiling
  <2>3. Foremost \subseteq DOMAIN trials
    BY DEF Foremost
  <2>4. {"cells", "jobs", "fixed"} \subseteq DOMAIN problem
    BY <1>1 DEF SurviveInv, FitInv
  <2>5. PICK candidate : /\ RouteAgain(candidate)
                         /\ original.circuit.routes # <<>> => Follows(candidate, original)
    BY <2>1, <2>2, <2>3 DEF SurviveInv
  <2>6. original.circuit.routes # <<>> => DOMAIN original.routing = DOMAIN problem'.jobs \cup DOMAIN problem'.fixed
    BY <1>2, <2>2, <2>4, <2>5, RouteAgainSurvives
  <2>7. "jobs" \in DOMAIN problem'
    <3>1. PICK before : before = problem
      OBVIOUS
    <3>2. DOMAIN problem' = DOMAIN before
      BY <2>5, <3>1 DEF RouteAgain
    <3> QED
      BY <2>4, <3>1, <3>2
  <2> QED
    BY <1>1, <2>1, <2>2, <2>6, <2>7 DEF SurviveInv
<1>9. CASE Judge
  <2>1. /\ UNCHANGED <<problem, original>> /\ mode = "judge" /\ mode' \in {"improve", "try"}
        /\ \/ trials' = Nothing /\ \E best \in Foremost : circuit' = trials[best].circuit
           \/ trials' = [i \in DOMAIN trials \ Foremost |-> trials[i]] /\ circuit' = circuit
    BY <1>9 DEF Judge, vars
  <2>2. ~Compiling /\ ~Compiling' /\ mode' \notin {"route", "final", "begin"} /\ DOMAIN Nothing = {}
    BY <2>1 DEF Compiling, Nothing
  <2>3. Foremost \subseteq DOMAIN trials
    BY DEF Foremost
  <2>4. original.circuit.routes # <<>> =>
            Follows(circuit', original) /\ \A i \in DOMAIN trials' : Follows(trials'[i].circuit, original)
    BY <2>1, <2>2, <2>3 DEF SurviveInv
  <2> QED
    BY <1>1, <2>1, <2>2, <2>4 DEF SurviveInv
<1>10. CASE EndPhase \/ KeepOriginal \/ Realize
  <2>1. /\ UNCHANGED <<problem, original, circuit, trials>> /\ ~Compiling /\ ~Compiling'
        /\ mode' \notin {"route", "final", "begin"}
    BY <1>10 DEF EndPhase, KeepOriginal, Realize, Compiling, vars
  <2> QED
    BY <1>1, <2>1 DEF SurviveInv
<1>11. CASE OptimizerStopped \/ UNCHANGED allVars
  <2>1. UNCHANGED <<problem, stage, routing, pending, mode, original, circuit, trials>>
    BY <1>11 DEF OptimizerStopped, allVars, own, vars, loop
  <2> QED
    BY <1>1, <2>1 DEF SurviveInv, Compiling, OfTheProblem, NetsOf
<1> QED
  BY <1>3, <1>4, <1>5, <1>6, <1>7, <1>8, <1>9, <1>10, <1>11 DEF OptimizerNext

\* Where the routes are recorded every net of the original is still there or
\* is routed again each time the router runs, whatever was moved, turned or
\* replaced and however often (realize.rs routing_jobs).
THEOREM NoNetIsDropped == OptimizerSpec => []EveryNetSurvives
BY SurviveAtFirst, SurviveStays, SurviveMeans, PTL DEF OptimizerSpec
=============================================================================
