---------------------------- MODULE OrderingProofs ----------------------------
(***************************************************************************)
(* What an arrangement is: all members, each once, in their order; and what *)
(* is picked of a sequence, or sorted.  Induction over numbers in the form  *)
(* the provers can use: a set of numbers that is not empty has a least one. *)
(***************************************************************************)
EXTENDS Ordering, FiniteSetTheorems, SequenceTheorems, TLAPS

(* A strict order that compares any two members.                            *)
Orders(R, S) ==
  /\ \A x \in S : <<x, x>> \notin R
  /\ \A x, y, z \in S : <<x, y>> \in R /\ <<y, z>> \in R => <<x, z>> \in R
  /\ \A x, y \in S : x = y \/ <<x, y>> \in R \/ <<y, x>> \in R

(* The first numbers are as many as the last of them says.                  *)
LEMMA Interval == ASSUME NEW n \in Nat PROVE IsFiniteSet(1..n) /\ Cardinality(1..n) = n
<1>1. 1 \in Int /\ n \in Int
  OBVIOUS
<1>2. IsFiniteSet(1..n) /\ Cardinality(1..n) = IF 1 > n THEN 0 ELSE n - 1 + 1
  BY ONLY <1>1, FS_Interval
<1>. QED
  BY <1>2

(* How many come before a member is its own.                                *)
LEMMA Ranks ==
  ASSUME NEW S, IsFiniteSet(S), NEW R, Orders(R, S)
  PROVE  /\ Cardinality(S) \in Nat
         /\ [x \in S |-> Cardinality(Preceding(S, R, x)) + 1] \in Injection(S, 1..Cardinality(S))
         /\ \A x \in S : Cardinality(Preceding(S, R, x)) \in 0..(Cardinality(S) - 1)
         /\ \A x, y \in S :
              <<x, y>> \in R <=> Cardinality(Preceding(S, R, x)) < Cardinality(Preceding(S, R, y))
<1>. DEFINE n == Cardinality(S)
            rank == [x \in S |-> Cardinality(Preceding(S, R, x)) + 1]
<1>0. n \in Nat
  BY FS_CardinalityType
<1>1. ASSUME NEW x \in S
      PROVE  /\ IsFiniteSet(Preceding(S, R, x)) /\ Cardinality(Preceding(S, R, x)) \in Nat
             /\ Cardinality(Preceding(S, R, x)) < n
  <2>1. Preceding(S, R, x) \subseteq S /\ x \notin Preceding(S, R, x)
    BY DEF Preceding, Orders
  <2>2. /\ IsFiniteSet(Preceding(S, R, x))
        /\ Cardinality(Preceding(S, R, x)) <= n
        /\ Cardinality(S) = Cardinality(Preceding(S, R, x)) => S = Preceding(S, R, x)
    BY <2>1, FS_Subset
  <2>3. Cardinality(Preceding(S, R, x)) \in Nat
    BY <2>2, FS_CardinalityType
  <2>. QED
    BY <1>0, <2>1, <2>2, <2>3
<1>2. ASSUME NEW x \in S, NEW y \in S, <<x, y>> \in R PROVE rank[x] < rank[y]
  <2>1. Preceding(S, R, x) \subseteq Preceding(S, R, y)
    BY <1>2 DEF Preceding, Orders
  <2>2. x \in Preceding(S, R, y) /\ x \notin Preceding(S, R, x)
    BY <1>2 DEF Preceding, Orders
  <2>3. /\ Cardinality(Preceding(S, R, x)) <= Cardinality(Preceding(S, R, y))
        /\ Cardinality(Preceding(S, R, y)) # Cardinality(Preceding(S, R, x))
    BY <1>1, <2>1, <2>2, FS_Subset
  <2>. QED
    BY <1>1, <2>3
<1>3. ASSUME NEW x \in S PROVE rank[x] \in 1..n
  BY <1>0, <1>1
<1>4. rank \in Injection(S, 1..n)
  <2>1. rank \in [S -> 1..n]
    BY <1>3
  <2>2. ASSUME NEW x \in S, NEW y \in S, rank[x] = rank[y], x # y PROVE FALSE
    <3>1. <<x, y>> \in R \/ <<y, x>> \in R
      BY <2>2 DEF Orders
    <3>2. rank[x] < rank[y] \/ rank[y] < rank[x]
      BY <1>2, <3>1
    <3>3. rank[x] \in 1..n /\ rank[y] \in 1..n
      BY <1>3
    <3>. HIDE DEF rank, n
    <3>. QED
      BY <1>0, <2>2, <3>2, <3>3
  <2>. QED
    BY <2>1, <2>2 DEF Injection, IsInjective
<1>5. ASSUME NEW x \in S, NEW y \in S, rank[x] < rank[y] PROVE <<x, y>> \in R
  <2>1. x # y /\ ~(<<y, x>> \in R)
    <3>1. \A z \in S : rank[z] \in 1..n
      BY <1>3
    <3>2. <<y, x>> \in R => rank[y] < rank[x]
      BY <1>2
    <3>. HIDE DEF rank, n
    <3>. QED
      BY <1>0, <1>5, <3>1, <3>2
  <2>. QED
    BY <2>1 DEF Orders
<1>. QED
  BY <1>0, <1>1, <1>2, <1>4, <1>5

(* All members have a place, which shows their order.                       *)
LEMMA ArrangedPlaces ==
  ASSUME NEW S, IsFiniteSet(S), NEW R, Orders(R, S)
  PROVE  /\ Cardinality(S) \in Nat
         /\ Arranged(S, R) \in [1..Cardinality(S) -> S]
         /\ \A x \in S : \E k \in 1..Cardinality(S) : Arranged(S, R)[k] = x
         /\ \A k, l \in 1..Cardinality(S) :
              k < l <=> <<Arranged(S, R)[k], Arranged(S, R)[l]>> \in R
         /\ \A k, l \in 1..Cardinality(S) : Arranged(S, R)[k] = Arranged(S, R)[l] => k = l
<1>. DEFINE n == Cardinality(S)
            rank == [x \in S |-> Cardinality(Preceding(S, R, x)) + 1]
            at == Arranged(S, R)
<1>0. n \in Nat /\ rank \in Injection(S, 1..n)
  BY Ranks
<1>1. \A x \in S : Cardinality(Preceding(S, R, x)) \in 0..(n - 1)
  BY Ranks
<1>2. ASSUME NEW x \in S, NEW y \in S PROVE <<x, y>> \in R <=> rank[x] < rank[y]
  <2>. DEFINE r(z) == Cardinality(Preceding(S, R, z))
  <2>1. <<x, y>> \in R <=> r(x) < r(y)
    BY Ranks
  <2>2. rank[x] = r(x) + 1 /\ rank[y] = r(y) + 1 /\ r(x) \in Nat /\ r(y) \in Nat
    BY <1>0, <1>1
  <2>. HIDE DEF r, rank
  <2>. QED
    BY <2>1, <2>2
<1>3. \A x \in S : rank[x] \in 1..n
  BY <1>0, <1>1
<1>4. rank \in Injection(S, 1..n)
  BY <1>0
<1>5. IsFiniteSet(1..n) /\ Cardinality(1..n) = n
  BY <1>0, Interval
<1>6. \A k \in 1..n : \E x \in S : rank[x] = k
  <2>1. rank \in Surjection(S, 1..n)
    BY <1>4, <1>5, FS_Injection
  <2>. QED
    BY <2>1 DEF Surjection
<1>7. ASSUME NEW k \in 1..n PROVE at[k] \in S /\ rank[at[k]] = k
  <2>1. at[k] = CHOOSE x \in S : Cardinality(Preceding(S, R, x)) = k - 1
    BY DEF Arranged
  <2>2. PICK x \in S : rank[x] = k
    BY <1>6
  <2>3. Cardinality(Preceding(S, R, x)) = k - 1
    BY <1>0, <1>1, <2>2
  <2>4. at[k] \in S /\ Cardinality(Preceding(S, R, at[k])) = k - 1
    BY <2>1, <2>3
  <2>. QED
    BY <1>0, <2>4
<1>8. \A x \in S : at[rank[x]] = x
  BY <1>3, <1>4, <1>7 DEF Injection, IsInjective
<1>9. at \in [1..n -> S]
  BY <1>7 DEF Arranged
<1>10. ASSUME NEW k \in 1..n, NEW l \in 1..n PROVE k < l <=> <<at[k], at[l]>> \in R
  <2>1. at[k] \in S /\ at[l] \in S /\ rank[at[k]] = k /\ rank[at[l]] = l
    BY <1>7
  <2>2. /\ <<at[k], at[l]>> \in R => k < l
        /\ <<at[l], at[k]>> \in R => l < k
    BY <1>2, <2>1
  <2>3. at[k] = at[l] => k = l
    BY <2>1
  <2>. HIDE DEF rank, n, at
  <2>4. at[k] = at[l] \/ <<at[k], at[l]>> \in R \/ <<at[l], at[k]>> \in R
    BY <2>1 DEF Orders
  <2>. QED
    BY <1>0, <2>2, <2>3, <2>4
<1>. HIDE DEF n, rank, at
<1>. QED
  BY <1>0, <1>3, <1>7, <1>8, <1>9, <1>10 DEF n, at

(* Fewer than n members have fewer than n before them, or just as many.     *)
LEMMA FirstFew ==
  ASSUME NEW S, IsFiniteSet(S), NEW R, Orders(R, S), NEW n \in Nat
  PROVE  /\ IsFiniteSet({x \in S : Cardinality(Preceding(S, R, x)) < n})
         /\ Cardinality({x \in S : Cardinality(Preceding(S, R, x)) < n}) <= n
<1>. DEFINE few == {x \in S : Cardinality(Preceding(S, R, x)) < n}
            rank == [x \in S |-> Cardinality(Preceding(S, R, x)) + 1]
            place == [x \in few |-> rank[x]]
<1>1. /\ rank \in Injection(S, 1..Cardinality(S))
      /\ \A x \in S : Cardinality(Preceding(S, R, x)) \in 0..(Cardinality(S) - 1)
      /\ Cardinality(S) \in Nat
  BY Ranks
<1>2. \A x \in few : place[x] \in 1..n
  BY <1>1
<1>3. \A x, y \in few : place[x] = place[y] => x = y
  BY <1>1 DEF Injection, IsInjective
<1>4. place \in Injection(few, 1..n)
  BY <1>2, <1>3 DEF Injection, IsInjective
<1>5. IsFiniteSet(1..n) /\ Cardinality(1..n) = n
  BY Interval
<1>. QED
  BY <1>4, <1>5, FS_Injection

(* What is picked of a sequence is a sequence of its elements, at places    *)
(* that come one after the other.                                           *)
LEMMA InFrontOrders == ASSUME NEW S, S \subseteq Nat PROVE Orders(InFront(S), S)
  BY DEF Orders, InFront

PickedAt(at, s, S) ==
  /\ \A k \in 1..Cardinality(S) : Picked(s, S)[k] = s[at[k]]
  /\ \A i \in S : \E k \in 1..Cardinality(S) : at[k] = i
  /\ \A k, l \in 1..Cardinality(S) : k < l <=> at[k] < at[l]

LEMMA PickedPlaces ==
  ASSUME NEW A, NEW s \in Seq(A), NEW S, S \subseteq DOMAIN s
  PROVE  /\ Picked(s, S) \in Seq(A)
         /\ IsFiniteSet(S) /\ Cardinality(S) \in Nat
         /\ Len(Picked(s, S)) = Cardinality(S) /\ Cardinality(S) <= Len(s)
         /\ \E at \in [1..Cardinality(S) -> S] : PickedAt(at, s, S)
<1>. DEFINE n == Cardinality(S)
            at == Arranged(S, InFront(S))
<1>1. Len(s) \in Nat /\ DOMAIN s = 1..Len(s) /\ \A i \in DOMAIN s : s[i] \in A
  OBVIOUS
<1>2. /\ IsFiniteSet(S) /\ n \in Nat /\ n <= Len(s)
  <2>1. IsFiniteSet(1..Len(s)) /\ Cardinality(1..Len(s)) = Len(s)
    BY <1>1, Interval
  <2>. QED
    BY <1>1, <2>1, FS_Subset, FS_CardinalityType
<1>3. S \subseteq Nat
  BY <1>1
<1>4. /\ at \in [1..n -> S]
      /\ \A i \in S : \E k \in 1..n : at[k] = i
      /\ \A k, l \in 1..n : k < l <=> <<at[k], at[l]>> \in InFront(S)
  BY <1>2, <1>3, InFrontOrders, ArrangedPlaces
<1>5. \A k, l \in 1..n : k < l <=> at[k] < at[l]
  BY <1>4 DEF InFront
<1>6. Picked(s, S) = [k \in 1..n |-> s[at[k]]]
  BY DEF Picked
<1>. HIDE DEF n, at
<1>7. \A k \in 1..n : s[at[k]] \in A
  BY <1>1, <1>4
<1>8. Picked(s, S) \in Seq(A) /\ Len(Picked(s, S)) = n
  BY <1>2, <1>6, <1>7
<1>9. \A k \in 1..n : Picked(s, S)[k] = s[at[k]]
  BY <1>6
<1>10. PickedAt(at, s, S)
  BY <1>4, <1>5, <1>9 DEF PickedAt, n
<1>. QED
  BY <1>2, <1>4, <1>8, <1>10 DEF n

LEMMA PickedMembers ==
  ASSUME NEW A, NEW s \in Seq(A), NEW S, S \subseteq DOMAIN s
  PROVE  /\ Picked(s, S) \in Seq(A) /\ Len(Picked(s, S)) <= Len(s)
         /\ \A k \in DOMAIN Picked(s, S) : \E i \in S : Picked(s, S)[k] = s[i]
<1>. DEFINE t == Picked(s, S)
            n == Cardinality(S)
<1>1. t \in Seq(A) /\ n \in Nat /\ Len(t) = n /\ n <= Len(s)
  BY PickedPlaces
<1>2. PICK at \in [1..n -> S] : PickedAt(at, s, S)
  BY PickedPlaces
<1>3. \A k \in 1..n : t[k] = s[at[k]]
  BY <1>2 DEF PickedAt
<1>. HIDE DEF t, n
<1>4. \A k \in DOMAIN t : k \in 1..n /\ at[k] \in S /\ t[k] = s[at[k]]
  BY <1>1, <1>3
<1>. QED
  BY <1>1, <1>4 DEF t

(* A sorted sequence has all elements, in the order of their places.        *)
SortedAt(at, s, R) ==
  /\ \A k \in DOMAIN s : Sorted(s, R)[k] = s[at[k]]
  /\ \A i \in DOMAIN s : \E k \in DOMAIN s : at[k] = i
  /\ \A k, l \in DOMAIN s : k < l <=> <<at[k], at[l]>> \in R
  /\ \A k, l \in DOMAIN s : at[k] = at[l] => k = l

LEMMA SortedPlaces ==
  ASSUME NEW A, NEW s \in Seq(A), NEW R, Orders(R, DOMAIN s)
  PROVE  /\ Sorted(s, R) \in Seq(A) /\ Len(Sorted(s, R)) = Len(s)
         /\ \E at \in [DOMAIN s -> DOMAIN s] : SortedAt(at, s, R)
<1>. DEFINE at == Arranged(DOMAIN s, R)
            n == Len(s)
<1>1. n \in Nat /\ DOMAIN s = 1..n /\ \A i \in DOMAIN s : s[i] \in A
  OBVIOUS
<1>2. IsFiniteSet(DOMAIN s) /\ Cardinality(DOMAIN s) = n
  BY <1>1, Interval
<1>3. /\ at \in [DOMAIN s -> DOMAIN s]
      /\ \A i \in DOMAIN s : \E k \in DOMAIN s : at[k] = i
      /\ \A k, l \in DOMAIN s : k < l <=> <<at[k], at[l]>> \in R
      /\ \A k, l \in DOMAIN s : at[k] = at[l] => k = l
  <2>. DEFINE D == DOMAIN s
  <2>1. IsFiniteSet(D) /\ Orders(R, D) /\ D = 1..Cardinality(D)
    BY <1>1, <1>2
  <2>. HIDE DEF D, at
  <2>2. /\ at \in [1..Cardinality(D) -> D]
        /\ \A i \in D : \E k \in 1..Cardinality(D) : at[k] = i
        /\ \A k, l \in 1..Cardinality(D) : k < l <=> <<at[k], at[l]>> \in R
        /\ \A k, l \in 1..Cardinality(D) : at[k] = at[l] => k = l
    BY <2>1, ArrangedPlaces DEF D, at
  <2>. QED
    BY <2>1, <2>2 DEF D
<1>4. Sorted(s, R) = [k \in DOMAIN s |-> s[at[k]]]
  BY DEF Sorted
<1>. HIDE DEF at
<1>5. \A k \in 1..n : s[at[k]] \in A
  BY <1>1, <1>3
<1>6. Sorted(s, R) \in Seq(A) /\ Len(Sorted(s, R)) = n
  BY <1>1, <1>4, <1>5
<1>7. SortedAt(at, s, R)
  BY <1>3, <1>4 DEF SortedAt
<1>. QED
  BY <1>3, <1>6, <1>7

(* The end of a sequence: a number of elements is dropped in front.         *)
EndOf(s, n) == SubSeq(s, IF Len(s) > n THEN Len(s) - n + 1 ELSE 1, Len(s))

EndAt(d, t, s) ==
  /\ Len(t) = Len(s) - d
  /\ \A i \in 1..Len(t) : i + d \in 1..Len(s) /\ t[i] = s[i + d]

LEMMA EndPlaces ==
  ASSUME NEW A, NEW s \in Seq(A), NEW n \in Nat
  PROVE  /\ EndOf(s, n) \in Seq(A) /\ Len(EndOf(s, n)) <= n
         /\ Len(s) <= n => EndOf(s, n) = s
         /\ \E d \in 0..Len(s) : EndAt(d, EndOf(s, n), s)
<1>. DEFINE d == IF Len(s) > n THEN Len(s) - n ELSE 0
            t == SubSeq(s, d + 1, Len(s))
<1>1. Len(s) \in Nat /\ d \in 0..Len(s) /\ Len(s) - d <= n
  OBVIOUS
<1>2. EndOf(s, n) = t
  BY DEF EndOf
<1>3. \A i \in (d + 1)..Len(s) : s[i] \in A
  BY <1>1
<1>. HIDE DEF d
<1>4. /\ t \in Seq(A)
      /\ Len(t) = IF d + 1 <= Len(s) THEN Len(s) - (d + 1) + 1 ELSE 0
      /\ \A i \in 1..(Len(s) - (d + 1) + 1) : t[i] = s[(d + 1) + i - 1]
  BY <1>1, <1>3, SubSeqProperties
<1>. HIDE DEF t
<1>5. Len(t) = Len(s) - d
  BY <1>1, <1>4
<1>6. ASSUME NEW i \in 1..Len(t) PROVE i + d \in 1..Len(s) /\ t[i] = s[i + d]
  <2>1. i \in 1..(Len(s) - (d + 1) + 1) /\ (d + 1) + i - 1 = i + d
    BY <1>1, <1>5
  <2>. QED
    BY <1>1, <1>4, <1>5, <2>1
<1>7. ASSUME Len(s) <= n PROVE t = s
  <2>1. d = 0
    BY <1>1, <1>7 DEF d
  <2>. QED
    BY <1>1, <2>1, <1>4, <1>5, <1>6, SeqEqual
<1>8. EndAt(d, t, s)
  BY <1>5, <1>6 DEF EndAt
<1>. QED
  BY <1>1, <1>2, <1>4, <1>5, <1>7, <1>8

(* An element is put at the end, behind some of those there were, and the   *)
(* first go when there are too many: what is left are elements there were,  *)
(* at places one behind the other, and the new one.                         *)
Renewed(s, S, e, n) == EndOf(Append(Picked(s, S), e), n)
Renews(t, A, s, S, e, n) ==
  /\ t \in Seq(A) /\ Len(t) \in 1..n /\ t[Len(t)] = e
  /\ \E at \in [1..(Len(t) - 1) -> S] :
       /\ \A i \in 1..(Len(t) - 1) : t[i] = s[at[i]]
       /\ \A i, j \in 1..(Len(t) - 1) : i < j <=> at[i] < at[j]

LEMMA Renewal ==
  ASSUME NEW A, NEW s \in Seq(A), NEW S, S \subseteq DOMAIN s, NEW e \in A,
         NEW n \in Nat \ {0}
  PROVE  Renews(Renewed(s, S, e, n), A, s, S, e, n)
<1>. DEFINE p == Picked(s, S)
            q == Append(p, e)
            t == EndOf(q, n)
            c == Cardinality(S)
<1>1. p \in Seq(A) /\ c \in Nat /\ Len(p) = c
  BY PickedPlaces
<1>p. \E at \in [1..c -> S] : PickedAt(at, s, S)
  BY PickedPlaces
<1>2. PICK at \in [1..c -> S] : /\ \A k \in 1..c : p[k] = s[at[k]]
                               /\ \A k, l \in 1..c : k < l <=> at[k] < at[l]
  BY <1>p DEF PickedAt
<1>. HIDE DEF p
<1>3. /\ q \in Seq(A) /\ Len(q) = c + 1
      /\ \A k \in 1..c : q[k] = p[k]
      /\ q[c + 1] = e
  BY <1>1, AppendProperties
<1>. HIDE DEF q
<1>n. n \in Nat
  OBVIOUS
<1>4. /\ t \in Seq(A) /\ Len(t) <= n
      /\ Len(q) <= n => t = q
  BY <1>3, <1>n, EndPlaces
<1>e. \E d \in 0..Len(q) : EndAt(d, t, q)
  BY <1>3, <1>n, EndPlaces
<1>5. PICK d \in 0..Len(q) :
        /\ Len(t) = Len(q) - d
        /\ \A i \in 1..Len(t) : i + d \in 1..Len(q) /\ t[i] = q[i + d]
  BY <1>e DEF EndAt
<1>6. Len(t) >= 1
  BY <1>1, <1>3 DEF t, EndOf, q
<1>. HIDE DEF t, c
<1>7. Len(t) \in Nat
  BY <1>4
<1>8. t[Len(t)] = e
  BY <1>1, <1>3, <1>5, <1>6, <1>7
<1>. DEFINE back == [i \in 1..(Len(t) - 1) |-> at[i + d]]
<1>9. ASSUME NEW i \in 1..(Len(t) - 1)
      PROVE  /\ i + d \in 1..c /\ back[i] = at[i + d] /\ back[i] \in S
             /\ t[i] = s[back[i]]
  <2>1. i + d \in 1..c /\ i \in 1..Len(t)
    BY <1>1, <1>3, <1>5, <1>6, <1>7
  <2>2. t[i] = q[i + d] /\ q[i + d] = p[i + d] /\ p[i + d] = s[at[i + d]]
    BY <1>2, <1>3, <1>5, <2>1
  <2>. QED
    BY <1>2, <2>1, <2>2
<1>10. ASSUME NEW i \in 1..(Len(t) - 1), NEW j \in 1..(Len(t) - 1)
       PROVE  i < j <=> back[i] < back[j]
  <2>1. i + d < j + d <=> at[i + d] < at[j + d]
    BY <1>2, <1>9
  <2>2. i < j <=> i + d < j + d
    BY <1>5
  <2>. QED
    BY <1>9, <2>1, <2>2
<1>11. back \in [1..(Len(t) - 1) -> S]
  BY <1>9
<1>. HIDE DEF back
<1>12. /\ t \in Seq(A) /\ Len(t) \in 1..n /\ t[Len(t)] = e
       /\ \E f \in [1..(Len(t) - 1) -> S] :
            /\ \A i \in 1..(Len(t) - 1) : t[i] = s[f[i]]
            /\ \A i, j \in 1..(Len(t) - 1) : i < j <=> f[i] < f[j]
  <2>1. Len(t) \in 1..n
    BY <1>4, <1>6, <1>7, <1>n
  <2>. QED
    BY <1>4, <1>8, <1>9, <1>10, <1>11, <2>1
<1>. QED
  BY <1>12 DEF Renews, Renewed, t, q, p

(* A set of numbers that is not empty has a least one.                      *)
LEMMA LeastNumber ==
  ASSUME NEW T, T \subseteq Nat, T # {}
  PROVE  \E m \in T : \A k \in T : m <= k
<1>1. PICK m \in T : \A k \in T : ~(<<k, m>> \in OpToRel(<, Nat))
  BY NatLessThanWellFounded, WFMin
<1>2. \A k \in T : ~(k < m)
  BY <1>1 DEF OpToRel
<1>3. \A i, j \in Nat : ~(i < j) => j <= i
  OBVIOUS
<1>. QED
  BY <1>2, <1>3, Zenon

LEMMA RenewedMembers ==
  ASSUME NEW A, NEW s \in Seq(A), NEW S, S \subseteq DOMAIN s, NEW e \in A,
         NEW n \in Nat \ {0}
  PROVE  /\ Renewed(s, S, e, n) \in Seq(A) /\ Len(Renewed(s, S, e, n)) <= n
         /\ \A k \in DOMAIN Renewed(s, S, e, n) :
              Renewed(s, S, e, n)[k] = e \/ \E i \in S : Renewed(s, S, e, n)[k] = s[i]
<1>. DEFINE t == Renewed(s, S, e, n)
<1>1. Renews(t, A, s, S, e, n)
  BY Renewal
<1>. HIDE DEF t
<1>2. PICK at \in [1..(Len(t) - 1) -> S] : \A i \in 1..(Len(t) - 1) : t[i] = s[at[i]]
  BY <1>1 DEF Renews
<1>3. t \in Seq(A) /\ Len(t) \in 1..n /\ t[Len(t)] = e
  BY <1>1 DEF Renews
<1>4. ASSUME NEW k \in DOMAIN t PROVE t[k] = e \/ \E i \in S : t[k] = s[i]
  <2>1. k = Len(t) \/ k \in 1..(Len(t) - 1)
    BY <1>3
  <2>. QED
    BY <1>2, <1>3, <2>1
<1>5. t \in Seq(A) /\ Len(t) <= n
  BY <1>3
<1>. QED
  BY <1>4, <1>5 DEF t

(* A set of numbers that holds the first, and with each one the next.       *)
LEMMA CountUp ==
  ASSUME NEW n \in Nat, NEW T, 0 \in T, \A k \in 1..n : k - 1 \in T => k \in T
  PROVE  \A k \in 0..n : k \in T
<1>. DEFINE out == {k \in 0..n : k \notin T}
<1>1. SUFFICES ASSUME out # {} PROVE FALSE
  OBVIOUS
<1>2. out \subseteq Nat
  OBVIOUS
<1>3. PICK m \in out : \A k \in out : m <= k
  <2>. HIDE DEF out
  <2>. QED
    BY <1>1, <1>2, LeastNumber
<1>4. m \in 1..n /\ m - 1 \in 0..n /\ ~(m <= m - 1)
  BY <1>3
<1>5. m - 1 \notin out
  BY <1>3, <1>4
<1>6. m - 1 \in T
  BY <1>4, <1>5
<1>. QED
  BY <1>3, <1>4, <1>6

(* A number of steps can be taken one after the other, and what each step   *)
(* keeps holds after all of them.                                           *)
Folded(g, base, n, step) == g[0] = base /\ \A k \in 1..n : g[k] = step[<<g[k - 1], k>>]

LEMMA Folding ==
  ASSUME NEW X, NEW base \in X, NEW n \in Nat, NEW step \in [X \X (1..n) -> X]
  PROVE  \E g \in [0..n -> X] : Folded(g, base, n, step)
<1>. DEFINE Made(g, m) == g[0] = base /\ \A k \in 1..m : g[k] = step[<<g[k - 1], k>>]
            T == {m \in 0..n : \E g \in [0..m -> X] : Made(g, m)}
<1>1. 0 \in T
  <2>. DEFINE g0 == [k \in 0..0 |-> base]
  <2>1. g0 \in [0..0 -> X] /\ Made(g0, 0) /\ 0 \in 0..n
    OBVIOUS
  <2>. HIDE DEF g0, Made
  <2>. QED
    BY <2>1
<1>2. ASSUME NEW m \in 1..n, m - 1 \in T PROVE m \in T
  <2>1. PICK g \in [0..(m - 1) -> X] : Made(g, m - 1)
    BY <1>2
  <2>. DEFINE h == [k \in 0..m |-> IF k = m THEN step[<<g[m - 1], m>>] ELSE g[k]]
  <2>2. g[m - 1] \in X /\ step[<<g[m - 1], m>>] \in X
    OBVIOUS
  <2>3. h \in [0..m -> X]
    BY <2>2
  <2>4. h[0] = base
    BY <2>1
  <2>5. ASSUME NEW k \in 1..m PROVE h[k] = step[<<h[k - 1], k>>]
    <3>1. CASE k = m
      <4>1. m - 1 \in 0..m /\ m - 1 # m /\ h[m - 1] = g[m - 1]
        OBVIOUS
      <4>. QED
        BY <3>1, <4>1
    <3>2. CASE k # m
      <4>1. k \in 1..(m - 1) /\ k - 1 \in 0..m /\ k - 1 # m /\ k \in 0..m
        BY <3>2
      <4>2. h[k] = g[k] /\ h[k - 1] = g[k - 1]
        BY <3>2, <4>1
      <4>. QED
        BY <2>1, <4>1, <4>2
    <3>. QED
      BY <3>1, <3>2
  <2>. HIDE DEF h
  <2>6. h \in [0..m -> X] /\ Made(h, m) /\ m \in 0..n
    BY <2>3, <2>4, <2>5
  <2>. HIDE DEF Made
  <2>. QED
    BY <2>6
<1>3. n \in T
  <2>1. \A k \in 1..n : k - 1 \in T => k \in T
    BY <1>2
  <2>. HIDE DEF T
  <2>2. \A k \in 0..n : k \in T
    BY <1>1, <2>1, CountUp
  <2>. QED
    BY <2>2
<1>. QED
  BY <1>3 DEF Folded

(* A member stands at the place after those that come before it.            *)
LEMMA Placing ==
  ASSUME NEW S, IsFiniteSet(S), NEW R, Orders(R, S), NEW x \in S, NEW k \in 1..Cardinality(S),
         Cardinality(Preceding(S, R, x)) = k - 1
  PROVE  Arranged(S, R)[k] = x
<1>. DEFINE r(z) == Cardinality(Preceding(S, R, z))
<1>1. \A y, z \in S : <<y, z>> \in R <=> r(y) < r(z)
  BY Ranks
<1>2. \A y \in S : r(y) \in Nat
  <2>1. \A y \in S : r(y) \in 0..(Cardinality(S) - 1)
    BY Ranks
  <2>. QED
    BY <2>1
<1>3. Arranged(S, R)[k] = CHOOSE y \in S : r(y) = k - 1
  BY DEF Arranged
<1>. HIDE DEF r
<1>4. r(x) = k - 1
  BY DEF r
<1>5. \E y \in S : r(y) = k - 1
  BY <1>4
<1>6. Arranged(S, R)[k] \in S /\ r(Arranged(S, R)[k]) = k - 1
  BY <1>3, <1>5
<1>7. ~(r(x) < r(Arranged(S, R)[k])) /\ ~(r(Arranged(S, R)[k]) < r(x))
  BY <1>2, <1>4, <1>6
<1>. QED
  BY <1>1, <1>6, <1>7 DEF Orders

LEMMA PlaceOf ==
  ASSUME NEW S, IsFiniteSet(S), NEW R, Orders(R, S), NEW k \in 1..Cardinality(S)
  PROVE  Arranged(S, R)[k] \in S /\ Cardinality(Preceding(S, R, Arranged(S, R)[k])) = k - 1
<1>. DEFINE r(z) == Cardinality(Preceding(S, R, z))
            n == Cardinality(S)
            rank == [x \in S |-> r(x) + 1]
<1>1. n \in Nat /\ rank \in Injection(S, 1..n) /\ \A y \in S : r(y) \in 0..(n - 1)
  BY Ranks
<1>2. IsFiniteSet(1..n) /\ Cardinality(1..n) = n
  BY <1>1, FS_Interval
<1>3. rank \in Surjection(S, 1..n)
  BY <1>1, <1>2, FS_Injection
<1>4. PICK x \in S : rank[x] = k
  BY <1>3 DEF Surjection
<1>5. r(x) = k - 1
  BY <1>1, <1>4
<1>. HIDE DEF rank
<1>6. Arranged(S, R)[k] = x
  BY <1>5, Placing
<1>. QED
  BY <1>5, <1>6

(* One more at the end is arranged last.                                    *)
LEMMA ArrangedLonger ==
  ASSUME NEW S, S \subseteq Nat, IsFiniteSet(S), NEW n \in Nat, \A i \in S : i < n
  PROVE  LET T == S \cup {n}  c == Cardinality(S) IN
         /\ IsFiniteSet(T) /\ Cardinality(T) = c + 1 /\ c \in Nat
         /\ Arranged(T, InFront(T)) =
              [k \in 1..(c + 1) |-> IF k <= c THEN Arranged(S, InFront(S))[k] ELSE n]
<1>. DEFINE T == S \cup {n}
            c == Cardinality(S)
            a == Arranged(S, InFront(S))
            b == Arranged(T, InFront(T))
<1>1. n \notin S /\ T \subseteq Nat
  OBVIOUS
<1>2. IsFiniteSet(T) /\ Cardinality(T) = c + 1 /\ c \in Nat
  BY <1>1, FS_AddElement, FS_CardinalityType
<1>3. Orders(InFront(S), S) /\ Orders(InFront(T), T)
  BY <1>1, InFrontOrders
<1>4. \A x \in S : Preceding(T, InFront(T), x) = Preceding(S, InFront(S), x)
  <2>1. \A x, y \in T : <<y, x>> \in InFront(T) <=> y < x
    BY DEF InFront
  <2>2. \A x, y \in S : <<y, x>> \in InFront(S) <=> y < x
    BY DEF InFront
  <2>3. \A x \in S : x \in T /\ n \in T /\ ~(n < x)
    OBVIOUS
  <2>4. \A y \in T : y \in S \/ y = n
    OBVIOUS
  <2>. HIDE DEF T
  <2>5. \A x \in S : \A y \in T : <<y, x>> \in InFront(T) <=> y \in S /\ <<y, x>> \in InFront(S)
    BY <2>1, <2>2, <2>3, <2>4
  <2>6. S \subseteq T
    BY <2>3
  <2>. QED
    BY <2>5, <2>6 DEF Preceding
<1>5. Preceding(T, InFront(T), n) = S
  <2>1. \A y \in T : <<y, n>> \in InFront(T) <=> y < n
    BY DEF InFront
  <2>2. S \subseteq T /\ \A y \in T : y \in S <=> y < n
    OBVIOUS
  <2>. HIDE DEF T
  <2>. QED
    BY <2>1, <2>2 DEF Preceding
<1>6. ASSUME NEW k \in 1..c PROVE b[k] = a[k]
  <2>1. a[k] \in S /\ Cardinality(Preceding(S, InFront(S), a[k])) = k - 1
    BY <1>3, PlaceOf
  <2>. HIDE DEF a, T, c
  <2>2. a[k] \in T
    BY <2>1 DEF T
  <2>3. Cardinality(Preceding(T, InFront(T), a[k])) = k - 1
    BY <1>4, <2>1
  <2>4. k \in 1..Cardinality(T)
    BY <1>2
  <2>. QED
    BY <1>2, <1>3, <2>2, <2>3, <2>4, Placing
<1>7. b[c + 1] = n
  <2>. HIDE DEF T, c
  <2>1. n \in T /\ c + 1 \in 1..Cardinality(T) /\ Cardinality(Preceding(T, InFront(T), n)) = (c + 1) - 1
    BY <1>2, <1>5 DEF T, c
  <2>. QED
    BY <1>2, <1>3, <2>1, Placing
<1>8. b = [k \in 1..(c + 1) |-> b[k]]
  <2>1. b = [k \in 1..Cardinality(T) |-> b[k]]
    BY DEF Arranged
  <2>. HIDE DEF b, T
  <2>. QED
    BY <1>2, <2>1
<1>. HIDE DEF T, c, a, b
<1>9. \A k \in 1..(c + 1) : b[k] = IF k <= c THEN a[k] ELSE n
  BY <1>2, <1>6, <1>7
<1>10. b = [k \in 1..(c + 1) |-> IF k <= c THEN a[k] ELSE n]
  BY <1>8, <1>9
<1>. QED
  BY <1>2, <1>10 DEF T, c, a, b

(* What is picked of a longer sequence.                                     *)
LEMMA PickedLonger ==
  ASSUME NEW A, NEW s \in Seq(A), NEW e \in A, NEW S, S \subseteq DOMAIN s
  PROVE  /\ Picked(Append(s, e), S) = Picked(s, S)
         /\ Picked(Append(s, e), S \cup {Len(s) + 1}) = Append(Picked(s, S), e)
<1>. DEFINE c == Cardinality(S)
            n == Len(s) + 1
            T == S \cup {n}
            a == Arranged(S, InFront(S))
            t == Append(s, e)
            p == Picked(s, S)
<1>1. /\ Len(s) \in Nat /\ n \in Nat /\ S \subseteq Nat /\ \A i \in S : i < n
      /\ DOMAIN s = 1..Len(s) /\ \A i \in DOMAIN s : t[i] = s[i]
      /\ t[n] = e
  OBVIOUS
<1>2. IsFiniteSet(S) /\ c \in Nat /\ p \in Seq(A) /\ Len(p) = c
  BY PickedPlaces
<1>3. a \in [1..c -> S]
  BY <1>1, <1>2, InFrontOrders, ArrangedPlaces
<1>4. p = [k \in 1..c |-> s[a[k]]] /\ Picked(t, S) = [k \in 1..c |-> t[a[k]]]
  BY DEF Picked
<1>5. \A k \in 1..c : t[a[k]] = s[a[k]] /\ p[k] = s[a[k]]
  BY <1>1, <1>3, <1>4
<1>6. Picked(t, S) = p
  BY <1>4, <1>5
<1>7. /\ Cardinality(T) = c + 1
      /\ Arranged(T, InFront(T)) = [k \in 1..(c + 1) |-> IF k <= c THEN a[k] ELSE n]
  <2>. HIDE DEF n, a
  <2>. QED
    BY <1>1, <1>2, ArrangedLonger DEF a
<1>8. Picked(t, T) = [k \in 1..(c + 1) |-> t[Arranged(T, InFront(T))[k]]]
  BY <1>7 DEF Picked
<1>. HIDE DEF n, T, a, t, p, c
<1>9. \A k \in 1..(c + 1) : t[Arranged(T, InFront(T))[k]] = IF k <= c THEN p[k] ELSE e
  BY <1>1, <1>2, <1>5, <1>7
<1>10. Picked(t, T) = [k \in 1..(c + 1) |-> IF k <= c THEN p[k] ELSE e]
  BY <1>8, <1>9
<1>11. Append(p, e) = [k \in 1..(c + 1) |-> IF k <= c THEN p[k] ELSE e]
  <2>. DEFINE q == Append(p, e)
  <2>1. /\ q \in Seq(A) /\ Len(q) = Len(p) + 1 /\ q[Len(p) + 1] = e
        /\ \A k \in 1..Len(p) : q[k] = p[k]
    BY <1>2, AppendProperties
  <2>. HIDE DEF q
  <2>2. q = [k \in 1..(c + 1) |-> q[k]]
    BY <1>2, <2>1
  <2>3. \A k \in 1..(c + 1) : q[k] = IF k <= c THEN p[k] ELSE e
    BY <1>2, <2>1
  <2>. QED
    BY <2>2, <2>3 DEF q
<1>. QED
  BY <1>6, <1>10, <1>11 DEF n, T, t, p

-----------------------------------------------------------------------------
(* Sequences put together, and their parts.                                 *)

(* Two sequences in one.                                                    *)
LEMMA Both ==
  ASSUME NEW A, NEW s \in Seq(A), NEW t \in Seq(A)
  PROVE  /\ s \o t \in Seq(A) /\ Len(s \o t) = Len(s) + Len(t)
         /\ \A i \in 1..Len(s) : (s \o t)[i] = s[i]
         /\ \A i \in 1..Len(t) : (s \o t)[Len(s) + i] = t[i]
  OBVIOUS

LEMMA Same ==
  ASSUME NEW A, NEW s \in Seq(A), NEW t \in Seq(A), Len(s) = Len(t),
         \A i \in 1..Len(s) : s[i] = t[i]
  PROVE  s = t
  OBVIOUS

LEMMA AppendJoins ==
  ASSUME NEW A, NEW s \in Seq(A), NEW t \in Seq(A), NEW e \in A
  PROVE  s \o Append(t, e) = Append(s \o t, e)
<1>. DEFINE u == s \o Append(t, e)
            v == Append(s \o t, e)
<1>1. /\ Append(t, e) \in Seq(A) /\ Len(Append(t, e)) = Len(t) + 1 /\ Append(t, e)[Len(t) + 1] = e
      /\ \A i \in 1..Len(t) : Append(t, e)[i] = t[i]
  OBVIOUS
<1>2. /\ u \in Seq(A) /\ Len(u) = Len(s) + (Len(t) + 1) /\ \A i \in 1..Len(s) : u[i] = s[i]
      /\ \A i \in 1..(Len(t) + 1) : u[Len(s) + i] = Append(t, e)[i]
  BY <1>1, Both
<1>3. /\ s \o t \in Seq(A) /\ Len(s \o t) = Len(s) + Len(t)
      /\ \A i \in 1..Len(s) : (s \o t)[i] = s[i]
      /\ \A i \in 1..Len(t) : (s \o t)[Len(s) + i] = t[i]
  BY Both
<1>4. /\ v \in Seq(A) /\ Len(v) = Len(s) + Len(t) + 1 /\ v[Len(s) + Len(t) + 1] = e
      /\ \A i \in 1..(Len(s) + Len(t)) : v[i] = (s \o t)[i]
  BY <1>3
<1>5. Len(s) \in Nat /\ Len(t) \in Nat
  OBVIOUS
<1>. HIDE DEF u, v
<1>6. ASSUME NEW i \in 1..Len(u) PROVE u[i] = v[i]
  <2>1. CASE i \in 1..Len(s)
    <3>1. i \in 1..(Len(s) + Len(t))
      BY <1>5, <2>1
    <3>. QED
      BY <1>2, <1>3, <1>4, <2>1, <3>1
  <2>2. CASE i \notin 1..Len(s)
    <3>1. i - Len(s) \in 1..(Len(t) + 1) /\ i = Len(s) + (i - Len(s))
      BY <1>2, <1>5, <2>2
    <3>2. CASE i - Len(s) = Len(t) + 1
      <4>1. i = Len(s) + Len(t) + 1 /\ i = Len(s) + (Len(t) + 1) /\ Len(t) + 1 \in 1..(Len(t) + 1)
        BY <1>5, <3>2
      <4>2. u[i] = e
        BY <1>1, <1>2, <4>1
      <4>. QED
        BY <1>4, <4>1, <4>2
    <3>3. CASE i - Len(s) # Len(t) + 1
      <4>1. i - Len(s) \in 1..Len(t) /\ i \in 1..(Len(s) + Len(t))
        BY <1>5, <3>1, <3>3
      <4>. DEFINE j == i - Len(s)
      <4>2. u[Len(s) + j] = t[j] /\ v[Len(s) + j] = t[j]
        BY <1>1, <1>2, <1>3, <1>4, <3>1, <4>1
      <4>. QED
        BY <3>1, <4>2
    <3>. QED
      BY <3>2, <3>3
  <2>. QED
    BY <2>1, <2>2
<1>7. Len(u) = Len(v)
  BY <1>2, <1>4, <1>5
<1>8. u = v
  BY <1>2, <1>4, <1>6, <1>7, Same
<1>. QED
  BY <1>8 DEF u, v

(* The first of a sequence, one after the other.                            *)
LEMMA FirstOnes ==
  ASSUME NEW A, NEW s \in Seq(A)
  PROVE  /\ SubSeq(s, 1, 0) = <<>> /\ SubSeq(s, 1, Len(s)) = s
         /\ \A k \in 1..Len(s) : SubSeq(s, 1, k) = Append(SubSeq(s, 1, k - 1), s[k])
         /\ \A k \in 0..Len(s) : SubSeq(s, 1, k) \in Seq(A) /\ Len(SubSeq(s, 1, k)) = k
<1>1. ASSUME NEW k \in 0..Len(s)
      PROVE  /\ SubSeq(s, 1, k) \in Seq(A) /\ Len(SubSeq(s, 1, k)) = k
             /\ \A i \in 1..k : SubSeq(s, 1, k)[i] = s[i]
  OBVIOUS
<1>2. ASSUME NEW k \in 1..Len(s) PROVE SubSeq(s, 1, k) = Append(SubSeq(s, 1, k - 1), s[k])
  <2>. DEFINE u == SubSeq(s, 1, k)
              p == SubSeq(s, 1, k - 1)
              v == Append(p, s[k])
  <2>1. /\ u \in Seq(A) /\ Len(u) = k /\ \A i \in 1..k : u[i] = s[i]
        /\ p \in Seq(A) /\ Len(p) = k - 1 /\ \A i \in 1..(k - 1) : p[i] = s[i]
    BY <1>1
  <2>. HIDE DEF u, p
  <2>2. v \in Seq(A) /\ Len(v) = k /\ v[k] = s[k] /\ \A i \in 1..(k - 1) : v[i] = p[i]
    BY <2>1
  <2>. HIDE DEF v
  <2>3. \A i \in 1..k : i = k \/ i \in 1..(k - 1)
    OBVIOUS
  <2>4. u = v
    BY <2>1, <2>2, <2>3, Same
  <2>. QED
    BY <2>4 DEF u, v, p
<1>3. SubSeq(s, 1, 0) = <<>> /\ SubSeq(s, 1, Len(s)) = s
  OBVIOUS
<1>. QED
  BY <1>1, <1>2, <1>3

ChainedBy(g, A, parts) ==
  /\ g \in [0..Len(parts) -> Seq(A)] /\ g[0] = <<>>
  /\ \A k \in 1..Len(parts) : g[k] = g[k - 1] \o parts[k]
  /\ Chained(parts) = g[Len(parts)]

LEMMA ChainedUp ==
  ASSUME NEW A, NEW parts \in Seq(Seq(A)) PROVE \E g : ChainedBy(g, A, parts)
<1>. DEFINE n == Len(parts)
            X == Seq(A)
            upTo[k \in 0..Len(parts)] == IF k = 0 THEN <<>> ELSE upTo[k - 1] \o parts[k]
            step == [a \in X \X (1..n) |-> a[1] \o parts[a[2]]]
<1>1. n \in Nat /\ <<>> \in X /\ \A k \in 1..n : parts[k] \in X
  OBVIOUS
<1>2. \A a \in X, b \in X : a \o b \in X
  OBVIOUS
<1>. HIDE DEF X
<1>3. step \in [X \X (1..n) -> X]
  BY <1>1, <1>2
<1>4. \E g \in [0..n -> X] : Folded(g, <<>>, n, step)
  <2>. HIDE DEF n, step
  <2>. QED
    BY <1>1, <1>3, Folding
<1>5. PICK g \in [0..n -> X] : g[0] = <<>> /\ \A k \in 1..n : g[k] = step[<<g[k - 1], k>>]
  BY <1>4 DEF Folded
<1>6. ASSUME NEW k \in 1..n PROVE g[k] = g[k - 1] \o parts[k]
  <2>1. k - 1 \in 0..n
    BY <1>1
  <2>. HIDE DEF n, step
  <2>2. g[k - 1] \in X
    BY <2>1
  <2>3. g[k] = step[<<g[k - 1], k>>]
    BY <1>5
  <2>. QED
    BY <2>2, <2>3 DEF step
<1>. HIDE DEF step
<1>7. g = [k \in 0..Len(parts) |-> IF k = 0 THEN <<>> ELSE g[k - 1] \o parts[k]]
  <2>1. \A k \in 0..n : k = 0 \/ k \in 1..n
    BY <1>1
  <2>. QED
    BY <1>5, <1>6, <2>1
<1>8. upTo = [k \in 0..Len(parts) |-> IF k = 0 THEN <<>> ELSE upTo[k - 1] \o parts[k]]
  BY <1>7
<1>9. upTo[0] = <<>> /\ \A k \in 1..n : upTo[k] = upTo[k - 1] \o parts[k]
  <2>1. 0 \in 0..n /\ \A k \in 1..n : k \in 0..n /\ k # 0
    BY <1>1
  <2>. HIDE DEF upTo
  <2>. QED
    BY <1>8, <2>1
<1>10. Chained(parts) = upTo[n]
  BY DEF Chained
<1>11. DOMAIN upTo = 0..n
  <2>. HIDE DEF upTo
  <2>. QED
    BY <1>8
<1>. HIDE DEF upTo
<1>. DEFINE T == {k \in 0..n : upTo[k] \in X}
<1>12. 0 \in T /\ \A k \in 1..n : k - 1 \in T => k \in T
  <2>1. ASSUME NEW k \in 1..n, k - 1 \in T PROVE k \in T
    <3>1. upTo[k - 1] \in X /\ parts[k] \in X /\ k \in 0..n
      BY <1>1, <2>1
    <3>2. upTo[k - 1] \o parts[k] \in X
      BY <1>2, <3>1
    <3>. QED
      BY <1>9, <3>1, <3>2
  <2>. QED
    BY <1>1, <1>9, <2>1
<1>13. \A k \in 0..n : k \in T
  <2>. HIDE DEF T, n
  <2>. QED
    BY <1>1, <1>12, CountUp
<1>14. \A k \in 0..n : upTo[k] \in X
  BY <1>13
<1>15. upTo = [k \in 0..n |-> upTo[k]]
  BY <1>8
<1>16. upTo \in [0..n -> X]
  BY <1>14, <1>15
<1>17. ChainedBy(upTo, A, parts)
  BY <1>9, <1>10, <1>16 DEF ChainedBy, X
<1>. QED
  BY <1>17

(* One more part.                                                           *)
LEMMA ChainedLonger ==
  ASSUME NEW A, NEW parts \in Seq(Seq(A)), NEW e \in Seq(A)
  PROVE  /\ Chained(parts) \in Seq(A) /\ Chained(Append(parts, e)) = Chained(parts) \o e
         /\ Chained(<<>>) = <<>>
<1>. DEFINE n == Len(parts)
            more == Append(parts, e)
<1>1. /\ n \in Nat /\ more \in Seq(Seq(A)) /\ Len(more) = n + 1 /\ more[n + 1] = e
      /\ \A k \in 1..n : more[k] = parts[k]
  OBVIOUS
<1>. HIDE DEF more
<1>2. PICK g : ChainedBy(g, A, parts)
  BY ChainedUp
<1>3. PICK h : ChainedBy(h, A, more)
  BY <1>1, ChainedUp
<1>4. /\ g \in [0..n -> Seq(A)] /\ g[0] = <<>> /\ \A k \in 1..n : g[k] = g[k - 1] \o parts[k]
      /\ Chained(parts) = g[n]
  BY <1>2 DEF ChainedBy
<1>5. /\ h[0] = <<>> /\ \A k \in 1..(n + 1) : h[k] = h[k - 1] \o more[k]
      /\ Chained(more) = h[n + 1]
  BY <1>1, <1>3 DEF ChainedBy
<1>. DEFINE T == {k \in 0..n : g[k] = h[k]}
<1>6. 0 \in T
  BY <1>1, <1>4, <1>5
<1>7. ASSUME NEW k \in 1..n, k - 1 \in T PROVE k \in T
  <2>1. k \in 1..(n + 1) /\ k \in 0..n /\ more[k] = parts[k] /\ g[k - 1] = h[k - 1]
    BY <1>1, <1>7
  <2>2. g[k] = g[k - 1] \o parts[k] /\ h[k] = h[k - 1] \o more[k]
    BY <1>4, <1>5, <2>1
  <2>3. g[k] = h[k]
    BY <2>1, <2>2
  <2>. QED
    BY <2>1, <2>3
<1>8. \A k \in 0..n : k \in T
  <2>1. \A k \in 1..n : k - 1 \in T => k \in T
    BY <1>7
  <2>. HIDE DEF T, n
  <2>. QED
    BY <1>1, <1>6, <2>1, CountUp
<1>9. g[n] = h[n] /\ n + 1 \in 1..(n + 1) /\ (n + 1) - 1 = n /\ n \in 0..n
  BY <1>1, <1>8
<1>10. Chained(more) = g[n] \o e
  BY <1>1, <1>5, <1>9
<1>11. Chained(<<>>) = <<>>
  <2>1. <<>> \in Seq(Seq(A)) /\ Len(<<>>) = 0
    OBVIOUS
  <2>2. PICK f : ChainedBy(f, A, <<>>)
    BY <2>1, ChainedUp
  <2>. QED
    BY <2>1, <2>2 DEF ChainedBy
<1>12. g[n] \in Seq(A)
  BY <1>4, <1>9
<1>. QED
  BY <1>4, <1>10, <1>11, <1>12 DEF more

(* The elements of a sequence that are of a kind.                           *)
Those(s, W) == Picked(s, {i \in DOMAIN s : s[i] \in W})

LEMMA ThoseOneMore ==
  ASSUME NEW A, NEW s \in Seq(A), NEW e \in A, NEW W
  PROVE  /\ Those(s, W) \in Seq(A)
         /\ Those(Append(s, e), W) = IF e \in W THEN Append(Those(s, W), e) ELSE Those(s, W)
<1>. DEFINE S == {i \in DOMAIN s : s[i] \in W}
            t == Append(s, e)
            T == {i \in DOMAIN t : t[i] \in W}
<1>1. /\ Len(s) \in Nat /\ DOMAIN s = 1..Len(s) /\ DOMAIN t = 1..(Len(s) + 1)
      /\ t[Len(s) + 1] = e /\ \A i \in 1..Len(s) : t[i] = s[i]
  OBVIOUS
<1>2. S \subseteq DOMAIN s
  OBVIOUS
<1>3. T = IF e \in W THEN S \cup {Len(s) + 1} ELSE S
  <2>. HIDE DEF t
  <2>1. 1..(Len(s) + 1) = 1..Len(s) \cup {Len(s) + 1} /\ Len(s) + 1 \notin 1..Len(s)
    BY <1>1
  <2>. QED
    BY <1>1, <2>1
<1>. HIDE DEF S, T
<1>4. Picked(t, S) = Picked(s, S) /\ Picked(t, S \cup {Len(s) + 1}) = Append(Picked(s, S), e)
  BY <1>2, PickedLonger
<1>5. Picked(s, S) \in Seq(A)
  BY <1>2, PickedMembers
<1>6. Those(s, W) = Picked(s, S) /\ Those(Append(s, e), W) = Picked(t, T)
  BY DEF Those, S, T
<1>. QED
  BY <1>3, <1>4, <1>5, <1>6

LEMMA ThoseMore ==
  ASSUME NEW A, NEW s \in Seq(A), NEW t \in Seq(A), NEW W
  PROVE  /\ (\A i \in 1..Len(t) : t[i] \in W) => Those(s \o t, W) = Those(s, W) \o t
         /\ (\A i \in 1..Len(t) : t[i] \notin W) => Those(s \o t, W) = Those(s, W)
<1>. DEFINE n == Len(t)
            p(k) == SubSeq(t, 1, k)
            U == {k \in 0..n : Those(s \o p(k), W) = Those(s, W) \o p(k)}
            V == {k \in 0..n : Those(s \o p(k), W) = Those(s, W)}
<1>1. /\ n \in Nat /\ p(0) = <<>> /\ p(n) = t
      /\ \A k \in 1..n : p(k) = Append(p(k - 1), t[k]) /\ p(k - 1) \in Seq(A) /\ t[k] \in A
  <2>1. n \in Nat /\ \A k \in 1..n : k - 1 \in 0..n /\ t[k] \in A
    OBVIOUS
  <2>. HIDE DEF n
  <2>. QED
    BY <2>1, FirstOnes DEF n
<1>. HIDE DEF p
<1>2. Those(s, W) \in Seq(A) /\ s \o <<>> = s /\ Those(s, W) \o <<>> = Those(s, W)
  <2>1. Those(s, W) \in Seq(A)
    <3>1. {i \in DOMAIN s : s[i] \in W} \subseteq DOMAIN s
      OBVIOUS
    <3>. QED
      BY <3>1, PickedMembers DEF Those
  <2>. QED
    BY <2>1
<1>3. 0 \in U /\ 0 \in V
  <2>1. 0 \in 0..n /\ s \o p(0) = s
    BY <1>1, <1>2
  <2>2. Those(s \o p(0), W) = Those(s, W) /\ Those(s, W) \o p(0) = Those(s, W)
    BY <1>1, <1>2, <2>1
  <2>. QED
    BY <2>1, <2>2
<1>4. ASSUME NEW k \in 1..n
      PROVE  /\ s \o p(k) = Append(s \o p(k - 1), t[k]) /\ s \o p(k - 1) \in Seq(A)
             /\ Those(s \o p(k), W) = IF t[k] \in W THEN Append(Those(s \o p(k - 1), W), t[k])
                                      ELSE Those(s \o p(k - 1), W)
  <2>1. p(k) = Append(p(k - 1), t[k]) /\ p(k - 1) \in Seq(A) /\ t[k] \in A
    BY <1>1
  <2>2. s \o p(k) = Append(s \o p(k - 1), t[k]) /\ s \o p(k - 1) \in Seq(A)
    BY <2>1, AppendJoins
  <2>3. Those(Append(s \o p(k - 1), t[k]), W) =
          IF t[k] \in W THEN Append(Those(s \o p(k - 1), W), t[k]) ELSE Those(s \o p(k - 1), W)
    <3>. DEFINE u == s \o p(k - 1)
                e == t[k]
    <3>1. u \in Seq(A) /\ e \in A
      BY <2>1, <2>2
    <3>. HIDE DEF u, e
    <3>2. Those(Append(u, e), W) = IF e \in W THEN Append(Those(u, W), e) ELSE Those(u, W)
      BY ONLY <3>1, ThoseOneMore, SMTT(30)
    <3>. QED
      BY <3>2 DEF u, e
  <2>. QED
    BY <2>2, <2>3
<1>5. ASSUME \A i \in 1..n : t[i] \in W PROVE Those(s \o t, W) = Those(s, W) \o t
  <2>1. ASSUME NEW k \in 1..n, k - 1 \in U PROVE k \in U
    <3>1. Those(s \o p(k - 1), W) = Those(s, W) \o p(k - 1)
      BY <2>1
    <3>2. Those(s, W) \in Seq(A) /\ p(k - 1) \in Seq(A) /\ t[k] \in A /\ p(k) = Append(p(k - 1), t[k])
      BY <1>1, <1>2
    <3>3. Append(Those(s, W) \o p(k - 1), t[k]) = Those(s, W) \o p(k)
      <4>. DEFINE u == Those(s, W)
                  v == p(k - 1)
                  e == t[k]
      <4>1. u \in Seq(A) /\ v \in Seq(A) /\ e \in A
        BY <3>2
      <4>. HIDE DEF u, v, e
      <4>2. u \o Append(v, e) = Append(u \o v, e)
        BY ONLY <4>1, AppendJoins, SMTT(30)
      <4>. QED
        BY <3>2, <4>2 DEF u, v, e
    <3>4. Those(s \o p(k), W) = Append(Those(s \o p(k - 1), W), t[k])
      BY <1>4, <1>5
    <3>5. Those(s \o p(k), W) = Those(s, W) \o p(k)
      BY <3>1, <3>3, <3>4
    <3>6. k \in 0..n
      BY <1>1
    <3>. QED
      BY <3>5, <3>6
  <2>2. \A k \in 1..n : k - 1 \in U => k \in U
    BY <2>1
  <2>3. \A k \in 0..n : k \in U
    <3>. HIDE DEF U, n
    <3>. QED
      BY <1>1, <1>3, <2>2, CountUp
  <2>4. n \in 0..n
    BY <1>1
  <2>5. n \in U
    BY <2>3, <2>4
  <2>. QED
    BY <1>1, <2>5
<1>6. ASSUME \A i \in 1..n : t[i] \notin W PROVE Those(s \o t, W) = Those(s, W)
  <2>1. ASSUME NEW k \in 1..n, k - 1 \in V PROVE k \in V
    <3>1. Those(s \o p(k), W) = Those(s \o p(k - 1), W) /\ Those(s \o p(k - 1), W) = Those(s, W)
      BY <1>4, <1>6, <2>1
    <3>2. k \in 0..n
      BY <1>1
    <3>. QED
      BY <3>1, <3>2
  <2>2. \A k \in 1..n : k - 1 \in V => k \in V
    BY <2>1
  <2>3. \A k \in 0..n : k \in V
    <3>. HIDE DEF V, n
    <3>. QED
      BY <1>1, <1>3, <2>2, CountUp
  <2>4. n \in 0..n
    BY <1>1
  <2>5. n \in V
    BY <2>3, <2>4
  <2>. QED
    BY <1>1, <2>5
<1>. QED
  BY <1>5, <1>6

(* Numbers in their order: between two neighbours there is none.            *)
LEMMA Neighbours ==
  ASSUME NEW S, S \subseteq Nat, IsFiniteSet(S)
  PROVE  LET e == Arranged(S, InFront(S))
             n == Cardinality(S)
         IN /\ n \in Nat /\ e \in [1..n -> S] /\ DOMAIN e = 1..n
            /\ \A k, l \in 1..n : k < l <=> e[k] < e[l]
            /\ \A k \in 1..n, x \in S : x <= e[k] \/ (k < n /\ e[k + 1] <= x)
            /\ \A x \in S : n > 0 /\ e[1] <= x /\ x <= e[n]
<1>. DEFINE e == Arranged(S, InFront(S))
            n == Cardinality(S)
<1>1. /\ n \in Nat /\ e \in [1..n -> S] /\ \A x \in S : \E k \in 1..n : e[k] = x
      /\ \A k, l \in 1..n : k < l <=> <<e[k], e[l]>> \in InFront(S)
  <2>1. Orders(InFront(S), S) /\ IsFiniteSet(S)
    BY InFrontOrders
  <2>. DEFINE R == InFront(S)
  <2>2. Orders(R, S)
    BY <2>1
  <2>. HIDE DEF R
  <2>. QED
    BY <2>1, <2>2, ArrangedPlaces DEF R
<1>2. \A k \in 1..n : e[k] \in S /\ e[k] \in Nat
  BY <1>1
<1>3. \A k, l \in 1..n : k < l <=> e[k] < e[l]
  <2>. HIDE DEF e, n
  <2>. QED
    BY <1>1, <1>2 DEF InFront
<1>. HIDE DEF e, n
<1>4. ASSUME NEW k \in 1..n, NEW x \in S, ~(x <= e[k]) PROVE k < n /\ e[k + 1] <= x
  <2>1. PICK l \in 1..n : e[l] = x
    BY <1>1
  <2>2. e[k] \in Nat /\ x \in Nat /\ e[k] < x
    BY <1>2, <1>4
  <2>3. k < l
    BY <1>3, <2>1, <2>2
  <2>4. k + 1 \in 1..n /\ ~(l < k + 1)
    BY <1>1, <2>3
  <2>5. ~(e[l] < e[k + 1]) /\ e[k + 1] \in Nat
    BY <1>2, <1>3, <2>4
  <2>. QED
    BY <1>1, <2>1, <2>2, <2>3, <2>4, <2>5
<1>5. ASSUME NEW x \in S PROVE n > 0 /\ e[1] <= x /\ x <= e[n]
  <2>1. PICK l \in 1..n : e[l] = x
    BY <1>1
  <2>2. 1 \in 1..n /\ n \in 1..n /\ ~(l < 1) /\ ~(n < l) /\ n > 0
    BY <1>1, <2>1
  <2>3. ~(e[l] < e[1]) /\ ~(e[n] < e[l]) /\ e[1] \in Nat /\ e[n] \in Nat /\ x \in Nat
    BY <1>2, <1>3, <2>1, <2>2
  <2>. QED
    BY <2>1, <2>2, <2>3
<1>. QED
  BY <1>1, <1>3, <1>4, <1>5 DEF e, n

(* A part of a sequence, and the part in front of it.                       *)
LEMMA NextPart ==
  ASSUME NEW A, NEW s \in Seq(A), NEW a \in 0..Len(s), NEW b \in 0..Len(s), a <= b
  PROVE  /\ SubSeq(s, a + 1, b) \in Seq(A) /\ Len(SubSeq(s, a + 1, b)) = b - a
         /\ \A i \in 1..(b - a) : SubSeq(s, a + 1, b)[i] = s[a + i]
         /\ SubSeq(s, 1, a) \o SubSeq(s, a + 1, b) = SubSeq(s, 1, b)
<1>1. Len(s) \in Nat /\ a \in Nat /\ b \in Nat /\ \A i \in 1..Len(s) : s[i] \in A
  OBVIOUS
<1>. DEFINE p == SubSeq(s, a + 1, b)
            f == SubSeq(s, 1, a)
            g == SubSeq(s, 1, b)
            h == f \o p
<1>2. p \in Seq(A) /\ Len(p) = b - a /\ \A i \in 1..(b - a) : p[i] = s[a + i]
  <2>1. p = [i \in 1..(b - a) |-> s[a + i]]
    <3>1. b - (a + 1) + 1 = b - a /\ \A i \in 1..(b - a) : i + (a + 1) - 1 = a + i
      BY <1>1
    <3>. QED
      BY <1>1
  <2>2. \A i \in 1..(b - a) : a + i \in 1..Len(s) /\ b - a \in Nat
    BY <1>1
  <2>. HIDE DEF p
  <2>3. b - a \in Nat
    BY <1>1
  <2>. QED
    BY <1>1, <2>1, <2>2, <2>3
<1>3. /\ f \in Seq(A) /\ Len(f) = a /\ \A i \in 1..a : f[i] = s[i]
      /\ g \in Seq(A) /\ Len(g) = b /\ \A i \in 1..b : g[i] = s[i]
  BY <1>1
<1>. HIDE DEF p, f, g
<1>4. /\ h \in Seq(A) /\ Len(h) = a + (b - a) /\ \A i \in 1..a : h[i] = f[i]
      /\ \A i \in 1..(b - a) : h[a + i] = p[i]
  <2>1. /\ h \in Seq(A) /\ Len(h) = Len(f) + Len(p) /\ \A i \in 1..Len(f) : h[i] = f[i]
        /\ \A i \in 1..Len(p) : h[Len(f) + i] = p[i]
    <3>1. f \in Seq(A) /\ p \in Seq(A)
      BY <1>2, <1>3
    <3>. QED
      BY ONLY <3>1, Both
  <2>. HIDE DEF h
  <2>. QED
    BY <1>2, <1>3, <2>1
<1>. HIDE DEF h
<1>5. ASSUME NEW i \in 1..Len(h) PROVE h[i] = g[i]
  <2>1. CASE i \in 1..a
    <3>1. i \in 1..b
      BY <1>1, <2>1
    <3>. QED
      BY <1>3, <1>4, <2>1, <3>1
  <2>2. CASE i \notin 1..a
    <3>. DEFINE j == i - a
    <3>1. j \in 1..(b - a) /\ i = a + j /\ i \in 1..b
      BY <1>1, <1>4, <2>2
    <3>. HIDE DEF j
    <3>. QED
      BY <1>2, <1>3, <1>4, <3>1
  <2>. QED
    BY <2>1, <2>2
<1>6. h = g
  <2>1. Len(h) = Len(g)
    BY <1>1, <1>3, <1>4
  <2>. QED
    BY <1>3, <1>4, <1>5, <2>1, Same
<1>. QED
  BY <1>2, <1>6 DEF h, p, f, g

(* One text behind another.                                                 *)
Behind(s, t) == s \o t

(* One part more, behind what there was and a text.                         *)
LEMMA OneCut ==
  ASSUME NEW A, NEW q \in Seq(Seq(A)), NEW e \in Seq(A), NEW a \in Seq(A), NEW b \in Seq(A),
         Chained(q) = Behind(a, b)
  PROVE  Chained(Append(q, e)) = Behind(a, Behind(b, e))
<1>1. Chained(Append(q, e)) = (a \o b) \o e
  BY ChainedLonger DEF Behind
<1>2. (a \o b) \o e = a \o (b \o e)
  OBVIOUS
<1>. QED
  BY <1>1, <1>2 DEF Behind

LEMMA Three ==
  ASSUME NEW A, NEW a \in Seq(A), NEW b \in Seq(A), NEW c \in Seq(A)
  PROVE  Behind(Behind(a, b), c) = Behind(a, Behind(b, c))
  BY DEF Behind

(* A text that is cut up, put behind what there was.                        *)
LEMMA CutsJoin ==
  ASSUME NEW A, NEW parts \in Seq(Seq(A)), NEW found \in Seq(Seq(A)), NEW text \in Seq(A),
         NEW cuts \in [0..Len(found) -> 0..Len(text)], cuts[0] = 0,
         \A k \in 1..Len(found) :
           cuts[k - 1] <= cuts[k] /\ found[k] = SubSeq(text, cuts[k - 1] + 1, cuts[k])
  PROVE  Chained(parts \o found) \o SubSeq(text, cuts[Len(found)] + 1, Len(text)) =
           Chained(parts) \o text
<1>. DEFINE n == Len(found)
            p(k) == SubSeq(found, 1, k)
            U == {k \in 0..n :
                    Chained(parts \o p(k)) = Chained(parts) \o SubSeq(text, 1, cuts[k])}
<1>1. /\ n \in Nat /\ p(0) = <<>> /\ p(n) = found
      /\ \A k \in 1..n : /\ p(k) = Append(p(k - 1), found[k]) /\ p(k - 1) \in Seq(Seq(A))
                         /\ found[k] \in Seq(A)
  <2>1. n \in Nat /\ \A k \in 1..n : k - 1 \in 0..n /\ found[k] \in Seq(A)
    OBVIOUS
  <2>. HIDE DEF n
  <2>. QED
    BY <2>1, FirstOnes DEF n
<1>2. /\ \A k \in 0..n : cuts[k] \in 0..Len(text) /\ cuts[k] \in Nat
      /\ Len(text) \in Nat /\ Len(text) \in 0..Len(text)
  OBVIOUS
<1>3. Chained(parts) \in Seq(A)
  <2>1. <<>> \in Seq(A)
    OBVIOUS
  <2>. QED
    BY <2>1, ChainedLonger
<1>. HIDE DEF p
<1>4. 0 \in U
  <2>1. parts \o p(0) = parts /\ SubSeq(text, 1, cuts[0]) = <<>> /\ 0 \in 0..n
    BY <1>1
  <2>2. Chained(parts) \o <<>> = Chained(parts)
    BY <1>3
  <2>. QED
    BY <2>1, <2>2
<1>5. ASSUME NEW k \in 1..n, k - 1 \in U PROVE k \in U
  <2>1. k \in 0..n /\ k - 1 \in 0..n
    BY <1>1
  <2>. DEFINE q == parts \o p(k - 1)
              e == found[k]
              b == SubSeq(text, 1, cuts[k - 1])
              c == SubSeq(text, cuts[k - 1] + 1, cuts[k])
  <2>2. p(k - 1) \in Seq(Seq(A)) /\ e \in Seq(A) /\ p(k) = Append(p(k - 1), e)
    BY <1>1
  <2>3. q \in Seq(Seq(A)) /\ parts \o p(k) = Append(q, e)
    <3>. DEFINE B == Seq(A)
                f == p(k - 1)
    <3>1. parts \in Seq(B) /\ f \in Seq(B) /\ e \in B /\ parts \o f \in Seq(B)
      BY <2>2
    <3>. HIDE DEF B, f, e
    <3>2. parts \o Append(f, e) = Append(parts \o f, e)
      BY ONLY <3>1, AppendJoins, SMTT(30)
    <3>. QED
      BY <2>2, <3>1, <3>2 DEF B, f
  <2>4. /\ cuts[k - 1] \in 0..Len(text) /\ cuts[k] \in 0..Len(text) /\ cuts[k - 1] <= cuts[k]
        /\ e = c
    BY <1>2, <2>1
  <2>5. c \in Seq(A) /\ b \o c = SubSeq(text, 1, cuts[k])
    BY <2>4, NextPart
  <2>6. b \in Seq(A)
    BY <2>4, FirstOnes
  <2>7. Chained(q) = Chained(parts) \o b
    BY <1>5
  <2>. HIDE DEF q, e, b, c
  <2>8. Chained(Append(q, e)) = Chained(parts) \o (b \o c)
    <3>1. e = c
      BY <2>4
    <3>. DEFINE a == Chained(parts)
    <3>2. /\ q \in Seq(Seq(A)) /\ e \in Seq(A) /\ a \in Seq(A) /\ b \in Seq(A)
          /\ Chained(q) = a \o b
      BY <1>3, <2>2, <2>3, <2>6, <2>7
    <3>. HIDE DEF a
    <3>3. Chained(Append(q, e)) = Behind(a, Behind(b, e))
      <4>1. Chained(q) = Behind(a, b)
        BY <3>2 DEF Behind
      <4>. QED
        BY ONLY <3>2, <4>1, OneCut
    <3>. QED
      BY <3>1, <3>3 DEF a, Behind
  <2>10. Chained(parts \o p(k)) = Chained(parts) \o SubSeq(text, 1, cuts[k])
    BY <2>3, <2>5, <2>8
  <2>. QED
    BY <2>1, <2>10
<1>6. \A k \in 0..n : k \in U
  <2>1. \A k \in 1..n : k - 1 \in U => k \in U
    BY <1>5
  <2>. HIDE DEF U, n
  <2>. QED
    BY <1>1, <1>4, <2>1, CountUp
<1>7. n \in 0..n
  BY <1>1
<1>8. Chained(parts \o found) = Chained(parts) \o SubSeq(text, 1, cuts[n])
  <2>1. n \in U
    BY <1>6, <1>7
  <2>. QED
    BY <1>1, <2>1
<1>. DEFINE b == SubSeq(text, 1, cuts[n])
            c == SubSeq(text, cuts[n] + 1, Len(text))
<1>9. /\ cuts[n] \in 0..Len(text) /\ cuts[n] <= Len(text)
  BY <1>2, <1>7
<1>10. b \in Seq(A) /\ c \in Seq(A) /\ b \o c = text
  <2>1. c \in Seq(A) /\ b \o c = SubSeq(text, 1, Len(text))
    <3>. DEFINE m == cuts[n]
                l == Len(text)
    <3>1. text \in Seq(A) /\ m \in 0..Len(text) /\ l \in 0..Len(text) /\ m <= l
      BY <1>2, <1>9
    <3>. HIDE DEF m, l
    <3>2. /\ SubSeq(text, m + 1, l) \in Seq(A)
          /\ SubSeq(text, 1, m) \o SubSeq(text, m + 1, l) = SubSeq(text, 1, l)
      BY ONLY <3>1, NextPart
    <3>. QED
      BY <3>2 DEF m, l
  <2>2. SubSeq(text, 1, Len(text)) = text /\ b \in Seq(A)
    BY <1>9, FirstOnes
  <2>. QED
    BY <2>1, <2>2
<1>. HIDE DEF b, c
<1>11. (Chained(parts) \o b) \o c = Chained(parts) \o (b \o c)
  <2>. DEFINE a == Chained(parts)
  <2>1. a \in Seq(A) /\ b \in Seq(A) /\ c \in Seq(A)
    BY <1>3, <1>10
  <2>. HIDE DEF a
  <2>2. Behind(Behind(a, b), c) = Behind(a, Behind(b, c))
    BY ONLY <2>1, Three
  <2>. QED
    BY <2>2 DEF a, Behind
<1>. QED
  BY <1>8, <1>10, <1>11 DEF b, c
=============================================================================
