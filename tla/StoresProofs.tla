----------------------------- MODULE StoresProofs -----------------------------
(***************************************************************************)
(* Proofs about what is kept and passed on beside a run: its entry in the   *)
(* queue, the indexes of the workspace, the usage of its answers, and the   *)
(* process of the desktop.                                                  *)
(***************************************************************************)
EXTENDS RunQueue, CodeRetrieval, UsageAccounting, BackendChild, OrderingProofs

-----------------------------------------------------------------------------
(* The backend process, for any number of starts and any output: at most    *)
(* one child works that was not told to end, and of what they write nothing *)
(* is lost, doubled or moved.                                               *)

Output == [of : Nat, number : Nat]

LEMMA Pieces ==
  ASSUME NEW c \in Nat, NEW n \in Nat
  PROVE  Piece(c, n) \in Output /\ Piece(c, n).of = c /\ Piece(c, n).number = n
BY DEF Piece, Output

(* Where the lines of a text end.                                           *)
EndsOf(text) ==
  LET ends == Arranged(Newlines(text), InFront(Newlines(text)))
  IN [k \in 0..Cardinality(Newlines(text)) |-> IF k = 0 THEN 0 ELSE ends[k]]

CutUp(text, n, cuts) ==
  /\ n \in Nat /\ cuts \in [0..n -> 0..Len(text)] /\ cuts[0] = 0
  /\ \A k \in 1..n : cuts[k - 1] < cuts[k] /\ cuts[k] \in Newlines(text)
  /\ \A k \in 0..n, x \in Newlines(text) : x <= cuts[k] \/ (k < n /\ cuts[k + 1] <= x)
  /\ LinesOf(text) = [k \in 1..n |-> SubSeq(text, cuts[k - 1] + 1, cuts[k])]
  /\ RestOf(text) = cuts[n] + 1

LEMMA CutsUp ==
  ASSUME NEW text \in Seq(Output)
  PROVE  CutUp(text, Cardinality(Newlines(text)), EndsOf(text))
<1>. DEFINE S == Newlines(text)
            n == Cardinality(S)
            e == Arranged(S, InFront(S))
            cuts == EndsOf(text)
            L == Len(text)
<1>1. L \in Nat /\ DOMAIN text = 1..L
  OBVIOUS
<1>2. S \subseteq 1..L /\ S \subseteq Nat
  BY <1>1 DEF Newlines
<1>3. IsFiniteSet(S)
  <2>1. IsFiniteSet(1..L)
    BY <1>1, Interval
  <2>. HIDE DEF S, L
  <2>. QED
    BY <1>2, <2>1, FS_Subset
<1>4. /\ n \in Nat /\ e \in [1..n -> S] /\ DOMAIN e = 1..n
      /\ \A k, l \in 1..n : k < l <=> e[k] < e[l]
      /\ \A k \in 1..n, x \in S : x <= e[k] \/ (k < n /\ e[k + 1] <= x)
      /\ \A x \in S : n > 0 /\ e[1] <= x /\ x <= e[n]
  <2>. HIDE DEF S
  <2>. QED
    BY <1>2, <1>3, Neighbours
<1>5. cuts = [k \in 0..n |-> IF k = 0 THEN 0 ELSE e[k]]
  BY DEF EndsOf
<1>6. LinesOf(text) = [k \in DOMAIN e |-> SubSeq(text, IF k = 1 THEN 1 ELSE e[k - 1] + 1, e[k])]
  BY DEF LinesOf
<1>. HIDE DEF S, n, e, cuts, L
<1>7. \A k \in 1..n : e[k] \in S /\ e[k] \in 1..L
  BY <1>2, <1>4
<1>8. /\ \A k \in 1..n : cuts[k] = e[k] /\ cuts[k] \in S /\ cuts[k] \in 1..L
      /\ cuts[0] = 0 /\ DOMAIN cuts = 0..n
  <2>1. 0 \in 0..n /\ \A k \in 1..n : k \in 0..n /\ k # 0
    BY <1>4
  <2>. QED
    BY <1>5, <1>7, <2>1
<1>9. cuts \in [0..n -> 0..L]
  <2>1. \A k \in 0..n : cuts[k] \in 0..L
    <3>1. \A k \in 0..n : k = 0 \/ k \in 1..n
      BY <1>4
    <3>. QED
      BY <1>1, <1>8, <3>1
  <2>2. cuts = [k \in 0..n |-> cuts[k]]
    BY <1>5, <1>8
  <2>. QED
    BY <2>1, <2>2
<1>10. ASSUME NEW k \in 1..n PROVE cuts[k - 1] < cuts[k] /\ cuts[k] \in S
  <2>1. CASE k = 1
    <3>1. k - 1 = 0 /\ cuts[k] \in 1..L
      BY <1>8, <2>1
    <3>. QED
      BY <1>1, <1>8, <3>1
  <2>2. CASE k # 1
    <3>1. k - 1 \in 1..n /\ k - 1 < k
      BY <1>4, <2>2
    <3>2. e[k - 1] < e[k]
      BY <1>4, <3>1
    <3>. QED
      BY <1>8, <3>1, <3>2
  <2>. QED
    BY <2>1, <2>2
<1>11. ASSUME NEW k \in 0..n, NEW x \in S PROVE x <= cuts[k] \/ (k < n /\ cuts[k + 1] <= x)
  <2>1. CASE k = 0
    <3>1. n > 0 /\ e[1] <= x /\ 1 \in 1..n /\ k + 1 = 1
      BY <1>4, <2>1
    <3>. QED
      BY <1>8, <2>1, <3>1
  <2>2. CASE k # 0
    <3>1. k \in 1..n /\ (k < n => k + 1 \in 1..n)
      BY <1>4, <2>2
    <3>2. x <= e[k] \/ (k < n /\ e[k + 1] <= x)
      BY <1>4, <3>1
    <3>. QED
      BY <1>8, <3>1, <3>2
  <2>. QED
    BY <2>1, <2>2
<1>12. LinesOf(text) = [k \in 1..n |-> SubSeq(text, cuts[k - 1] + 1, cuts[k])]
  <2>1. ASSUME NEW k \in 1..n
        PROVE  /\ (IF k = 1 THEN 1 ELSE e[k - 1] + 1) = cuts[k - 1] + 1 /\ e[k] = cuts[k]
    <3>1. CASE k = 1
      BY <1>8, <3>1
    <3>2. CASE k # 1
      <4>1. k - 1 \in 1..n
        BY <1>4, <3>2
      <4>. QED
        BY <1>8, <3>2, <4>1
    <3>. QED
      BY <3>1, <3>2
  <2>. QED
    BY <1>4, <1>6, <2>1
<1>13. RestOf(text) = cuts[n] + 1
  <2>. DEFINE T == S \cup {0}
  <2>1. n \in 0..n /\ (n = 0 \/ n \in 1..n)
    BY <1>4
  <2>2. cuts[n] \in T /\ cuts[n] \in Nat
    BY <1>1, <1>8, <1>9, <2>1
  <2>3. \A x \in T : x \in Nat /\ cuts[n] >= x
    <3>1. \A x \in S : x \in Nat /\ x <= cuts[n]
      BY <1>2, <1>4, <1>11, <2>1
    <3>. QED
      BY <2>2, <3>1
  <2>4. Max(T) = CHOOSE m \in T : \A x \in T : m >= x
    BY DEF Max
  <2>. HIDE DEF T
  <2>5. Max(T) \in T /\ \A x \in T : Max(T) >= x
    BY <2>2, <2>3, <2>4
  <2>6. Max(T) = cuts[n]
    BY <2>2, <2>3, <2>5
  <2>. QED
    BY <2>6 DEF RestOf, T, S
<1>. QED
  BY <1>4, <1>8, <1>9, <1>10, <1>11, <1>12, <1>13 DEF CutUp, S, n, cuts, L

(* Nothing of the text gets lost, and what is kept has no newline.          *)
LEMMA LinesTaken ==
  ASSUME NEW text \in Seq(Output)
  PROVE  /\ LinesOf(text) \in Seq(Seq(Output)) /\ Remainder(text) \in Seq(Output)
         /\ Newlines(Remainder(text)) = {}
         /\ \A parts \in Seq(Seq(Output)) :
              Chained(parts \o LinesOf(text)) \o Remainder(text) = Chained(parts) \o text
<1>. DEFINE n == Cardinality(Newlines(text))
            cuts == EndsOf(text)
            found == LinesOf(text)
            L == Len(text)
<1>1. CutUp(text, n, cuts)
  BY CutsUp
<1>. HIDE DEF n, cuts
<1>2. /\ n \in Nat /\ cuts \in [0..n -> 0..L] /\ cuts[0] = 0 /\ L \in Nat
      /\ \A k \in 1..n : cuts[k - 1] < cuts[k]
      /\ \A x \in Newlines(text) : x <= cuts[n]
      /\ found = [k \in 1..n |-> SubSeq(text, cuts[k - 1] + 1, cuts[k])]
      /\ RestOf(text) = cuts[n] + 1
  <2>1. n \in Nat => n \in 0..n /\ ~(n < n)
    OBVIOUS
  <2>2. L \in Nat
    OBVIOUS
  <2>. QED
    BY <1>1, <2>1, <2>2 DEF CutUp
<1>. HIDE DEF found, L
<1>3. \A k \in 0..n : cuts[k] \in 0..L /\ cuts[k] \in Nat
  BY <1>2
<1>4. ASSUME NEW k \in 1..n
      PROVE  /\ found[k] \in Seq(Output) /\ found[k] = SubSeq(text, cuts[k - 1] + 1, cuts[k])
             /\ cuts[k - 1] <= cuts[k]
  <2>1. k \in 0..n /\ k - 1 \in 0..n
    BY <1>2
  <2>2. /\ cuts[k - 1] \in 0..Len(text) /\ cuts[k] \in 0..Len(text) /\ cuts[k - 1] <= cuts[k]
    BY <1>2, <1>3, <2>1 DEF L
  <2>3. SubSeq(text, cuts[k - 1] + 1, cuts[k]) \in Seq(Output)
    BY <2>2, NextPart
  <2>. QED
    BY <1>2, <2>2, <2>3
<1>5. found \in Seq(Seq(Output)) /\ Len(found) = n
  <2>1. found = [k \in 1..n |-> found[k]]
    BY <1>2
  <2>. DEFINE X == Seq(Output)
  <2>2. found \in [1..n -> X] /\ n \in Nat
    BY <1>2, <1>4, <2>1
  <2>. HIDE DEF X
  <2>3. found \in Seq(X) /\ Len(found) = n
    BY <2>2
  <2>. QED
    BY <2>3 DEF X
<1>6. /\ cuts[n] \in 0..Len(text) /\ Len(text) \in 0..Len(text) /\ cuts[n] <= Len(text)
      /\ n \in 0..n
  BY <1>2, <1>3 DEF L
<1>7. Remainder(text) = SubSeq(text, cuts[n] + 1, Len(text))
  BY <1>2 DEF Remainder
<1>8. /\ Remainder(text) \in Seq(Output) /\ Len(Remainder(text)) = Len(text) - cuts[n]
      /\ \A i \in 1..(Len(text) - cuts[n]) : Remainder(text)[i] = text[cuts[n] + i]
  <2>. DEFINE a == cuts[n]
              b == Len(text)
  <2>1. text \in Seq(Output) /\ a \in 0..Len(text) /\ b \in 0..Len(text) /\ a <= b
    BY <1>6
  <2>. HIDE DEF a, b
  <2>2. /\ SubSeq(text, a + 1, b) \in Seq(Output) /\ Len(SubSeq(text, a + 1, b)) = b - a
        /\ \A i \in 1..(b - a) : SubSeq(text, a + 1, b)[i] = text[a + i]
    BY ONLY <2>1, NextPart, SMTT(20)
  <2>. QED
    BY <1>7, <2>2 DEF a, b
<1>9. Newlines(Remainder(text)) = {}
  <2>1. SUFFICES ASSUME NEW i \in Newlines(Remainder(text)) PROVE FALSE
    OBVIOUS
  <2>2. i \in DOMAIN Remainder(text) /\ Newline(Remainder(text)[i])
    BY DEF Newlines
  <2>3. i \in 1..(Len(text) - cuts[n])
    BY <1>8, <2>2
  <2>4. cuts[n] + i \in DOMAIN text /\ cuts[n] + i > cuts[n]
    BY <1>6, <2>3
  <2>5. cuts[n] + i \in Newlines(text)
    BY <1>8, <2>2, <2>3, <2>4 DEF Newlines
  <2>6. cuts[n] + i <= cuts[n]
    BY <1>2, <2>5
  <2>. QED
    BY <1>6, <2>3, <2>6
<1>10. ASSUME NEW parts \in Seq(Seq(Output))
       PROVE  Chained(parts \o found) \o Remainder(text) = Chained(parts) \o text
  <2>1. /\ cuts \in [0..Len(found) -> 0..Len(text)] /\ found \in Seq(Seq(Output)) /\ cuts[0] = 0
        /\ \A k \in 1..Len(found) :
             cuts[k - 1] <= cuts[k] /\ found[k] = SubSeq(text, cuts[k - 1] + 1, cuts[k])
    BY <1>2, <1>4, <1>5 DEF L
  <2>2. Chained(parts \o found) \o SubSeq(text, cuts[Len(found)] + 1, Len(text)) =
          Chained(parts) \o text
    <3>. DEFINE A == Output
    <3>1. parts \in Seq(Seq(A)) /\ text \in Seq(A) /\ found \in Seq(Seq(A))
      BY <2>1
    <3>. HIDE DEF A, found, cuts
    <3>. QED
      BY <2>1, <3>1, CutsJoin, ZenonT(30) DEF A
  <2>. QED
    BY <1>5, <1>7, <2>2
<1>. QED
  BY <1>5, <1>8, <1>9, <1>10 DEF found

(* Text that begins a line of one child is cut into lines of two pieces.    *)
LEMMA WholeLines ==
  ASSUME NEW text \in Seq(Output), NEW c \in Nat, NEW r \in Nat,
         \A k \in 1..Len(text) : text[k] = Piece(c, 2 * r + k)
  PROVE  /\ \A k \in 1..Len(LinesOf(text)) :
              /\ Len(LinesOf(text)[k]) = 2
              /\ \A n \in 1..2 : LinesOf(text)[k][n].of = c
         /\ \E q \in Nat : RestOf(text) = 2 * q + 1 /\ 2 * q <= Len(text)
<1>. DEFINE n == Cardinality(Newlines(text))
            cuts == EndsOf(text)
            found == LinesOf(text)
            L == Len(text)
            S == Newlines(text)
<1>1. CutUp(text, n, cuts)
  BY CutsUp
<1>2. L \in Nat /\ DOMAIN text = 1..L
  OBVIOUS
<1>3. \A i \in 1..L : text[i].of = c /\ text[i].number = 2 * r + i
  <2>1. \A i \in 1..L : 2 * r + i \in Nat
    BY <1>2
  <2>. QED
    BY <2>1, Pieces
<1>. HIDE DEF n, cuts, found, L
<1>4. S = {i \in 1..L : i % 2 = 0}
  <2>1. \A i \in 1..L : (2 * r + i) % 2 = i % 2
    BY <1>2
  <2>2. S = {i \in 1..L : text[i].number % 2 = 0}
    BY <1>2 DEF Newlines, Newline
  <2>. HIDE DEF S
  <2>. QED
    BY <1>3, <2>1, <2>2
<1>5. /\ n \in Nat /\ cuts \in [0..n -> 0..L] /\ cuts[0] = 0
      /\ \A k \in 1..n : cuts[k - 1] < cuts[k] /\ cuts[k] \in S
      /\ \A k \in 0..n, x \in S : x <= cuts[k] \/ (k < n /\ cuts[k + 1] <= x)
      /\ found = [k \in 1..n |-> SubSeq(text, cuts[k - 1] + 1, cuts[k])]
      /\ RestOf(text) = cuts[n] + 1
  BY <1>1 DEF CutUp, found, L
<1>. HIDE DEF S
<1>6. \A k \in 0..n : cuts[k] \in 0..L /\ cuts[k] % 2 = 0
  <2>1. \A k \in 1..n : cuts[k] % 2 = 0
    BY <1>4, <1>5
  <2>2. \A k \in 0..n : k = 0 \/ k \in 1..n
    BY <1>5
  <2>3. 0 % 2 = 0
    OBVIOUS
  <2>. QED
    BY <1>5, <2>1, <2>2, <2>3
<1>7. ASSUME NEW k \in 1..n
      PROVE  /\ cuts[k] = cuts[k - 1] + 2 /\ cuts[k - 1] \in 0..L /\ cuts[k] \in 0..L
  <2>1. k - 1 \in 0..n /\ k \in 0..n /\ (k - 1) + 1 = k
    BY <1>5
  <2>. DEFINE a == cuts[k - 1]
              b == cuts[k]
  <2>2. a \in 0..L /\ b \in 0..L /\ a < b /\ a % 2 = 0 /\ b % 2 = 0
    BY <1>5, <1>6, <2>1
  <2>3. \A x \in S : x <= a \/ b <= x
    BY <1>5, <2>1
  <2>. HIDE DEF a, b
  <2>4. a + 2 <= b /\ a + 2 \in 1..L /\ (a + 2) % 2 = 0
    BY <1>2, <2>2
  <2>5. a + 2 \in S
    BY <1>4, <2>4
  <2>6. b <= a + 2
    <3>1. a \in Nat /\ ~(a + 2 <= a)
      BY <1>2, <2>2
    <3>. QED
      BY <2>3, <2>5, <3>1
  <2>. QED
    BY <1>2, <2>2, <2>4, <2>6 DEF a, b
<1>8. ASSUME NEW k \in 1..n PROVE Len(found[k]) = 2 /\ \A i \in 1..2 : found[k][i].of = c
  <2>1. found[k] = SubSeq(text, cuts[k - 1] + 1, cuts[k]) /\ cuts[k] - cuts[k - 1] = 2
    <3>1. cuts[k - 1] \in Nat
      BY <1>2, <1>7
    <3>2. (cuts[k - 1] + 2) - cuts[k - 1] = 2
      BY ONLY <3>1
    <3>. QED
      BY <1>5, <1>7, <3>2
  <2>2. /\ cuts[k - 1] \in 0..Len(text) /\ cuts[k] \in 0..Len(text) /\ cuts[k - 1] <= cuts[k]
    BY <1>2, <1>7 DEF L
  <2>3. /\ Len(found[k]) = cuts[k] - cuts[k - 1]
        /\ \A i \in 1..(cuts[k] - cuts[k - 1]) : found[k][i] = text[cuts[k - 1] + i]
    <3>. DEFINE a == cuts[k - 1]
                b == cuts[k]
                A == Output
    <3>1. text \in Seq(A) /\ a \in 0..Len(text) /\ b \in 0..Len(text) /\ a <= b
      BY <2>2
    <3>. HIDE DEF a, b, A
    <3>2. /\ Len(SubSeq(text, a + 1, b)) = b - a
          /\ \A i \in 1..(b - a) : SubSeq(text, a + 1, b)[i] = text[a + i]
      BY ONLY <3>1, NextPart
    <3>3. found[k] = SubSeq(text, a + 1, b)
      BY <2>1 DEF a, b
    <3>. HIDE DEF found
    <3>4. /\ Len(found[k]) = b - a
          /\ \A i \in 1..(b - a) : found[k][i] = text[a + i]
      BY ONLY <3>2, <3>3
    <3>. QED
      BY <3>4 DEF a, b
  <2>4. Len(found[k]) = 2 /\ \A i \in 1..2 : found[k][i] = text[cuts[k - 1] + i]
    BY <2>1, <2>3
  <2>5. \A i \in 1..2 : cuts[k - 1] + i \in 1..L
    <3>. DEFINE a == cuts[k - 1]
    <3>1. a \in 0..L /\ a + 2 \in 0..L /\ L \in Nat
      BY <1>2, <1>7
    <3>. HIDE DEF a, L
    <3>2. \A i \in 1..2 : a + i \in 1..L
      BY ONLY <3>1
    <3>. QED
      BY <3>2 DEF a
  <2>. QED
    BY <1>3, <2>4, <2>5
<1>9. Len(found) = n
  BY <1>5
<1>10. \E q \in Nat : cuts[n] + 1 = 2 * q + 1 /\ 2 * q <= L
  <2>1. cuts[n] \in 0..L /\ cuts[n] % 2 = 0
    BY <1>5, <1>6
  <2>. DEFINE a == cuts[n]
              q == a \div 2
  <2>. HIDE DEF a
  <2>2. q \in Nat /\ a = 2 * q
    BY <1>2, <2>1 DEF a
  <2>. HIDE DEF q
  <2>3. a + 1 = 2 * q + 1 /\ 2 * q <= L
    BY <1>2, <2>1, <2>2 DEF a
  <2>. QED
    BY <2>2, <2>3, Zenon DEF a
<1>. QED
  BY <1>5, <1>8, <1>9, <1>10 DEF found, L

-----------------------------------------------------------------------------
Event == [line : Seq(Output), during : 0..MaxChildren]
Parts(events) == [i \in DOMAIN events |-> events[i].line]

LEMMA PartsType == ASSUME NEW events \in Seq(Event) PROVE Parts(events) \in Seq(Seq(Output))
<1>. DEFINE X == Seq(Output)
            n == Len(events)
<1>1. n \in Nat /\ DOMAIN events = 1..n /\ \A k \in 1..n : events[k] \in Event
  OBVIOUS
<1>2. Event = [line : X, during : 0..MaxChildren]
  BY DEF Event
<1>. HIDE DEF X, n
<1>3. \A k \in 1..n : events[k].line \in X
  BY <1>1, <1>2
<1>4. Parts(events) \in [1..n -> X]
  BY <1>1, <1>3 DEF Parts
<1>. QED
  BY <1>1, <1>4 DEF X

More(events, found, d) ==
  events \o [k \in DOMAIN found |-> [line |-> found[k], during |-> d]]

LEMMA PartsMore ==
  ASSUME NEW events \in Seq(Event), NEW found \in Seq(Seq(Output)), NEW d \in 0..MaxChildren
  PROVE  LET more == More(events, found, d)
         IN /\ more \in Seq(Event) /\ Len(more) = Len(events) + Len(found)
            /\ Parts(events) \in Seq(Seq(Output)) /\ Parts(more) = Parts(events) \o found
            /\ \A i \in 1..Len(events) : more[i] = events[i]
            /\ \A i \in 1..Len(found) :
                 more[Len(events) + i] = [line |-> found[i], during |-> d]
<1>. DEFINE X == Seq(Output)
            new == [k \in DOMAIN found |-> [line |-> found[k], during |-> d]]
            more == events \o new
            n == Len(events)
            m == Len(found)
<1>1. /\ n \in Nat /\ m \in Nat /\ DOMAIN found = 1..m /\ DOMAIN events = 1..n
      /\ \A k \in 1..m : found[k] \in X
      /\ \A k \in 1..n : events[k] \in Event
  <2>1. found \in Seq(X)
    OBVIOUS
  <2>. HIDE DEF X
  <2>. QED
    BY <2>1
<1>2. Event = [line : X, during : 0..MaxChildren]
  BY DEF Event
<1>. HIDE DEF X, n, m
<1>3. \A k \in 1..m : [line |-> found[k], during |-> d] \in Event
  BY <1>1, <1>2
<1>4. new = [k \in 1..m |-> [line |-> found[k], during |-> d]]
  BY <1>1
<1>. HIDE DEF new
<1>5. new \in Seq(Event) /\ Len(new) = m
  <2>1. new \in [1..m -> Event]
    BY <1>3, <1>4
  <2>. QED
    BY <1>1, <1>4, <2>1
<1>6. /\ more \in Seq(Event) /\ Len(more) = n + m /\ \A i \in 1..n : more[i] = events[i]
      /\ \A i \in 1..m : more[n + i] = new[i]
  <2>1. /\ more \in Seq(Event) /\ Len(more) = Len(events) + Len(new)
        /\ \A i \in 1..Len(events) : more[i] = events[i]
        /\ \A i \in 1..Len(new) : more[Len(events) + i] = new[i]
    <3>1. events \in Seq(Event) /\ new \in Seq(Event)
      BY <1>5
    <3>. QED
      BY ONLY <3>1, Both DEF more
  <2>. QED
    BY <1>5, <2>1 DEF n
<1>. HIDE DEF more
<1>7. \A i \in 1..m : new[i] = [line |-> found[i], during |-> d] /\ new[i].line = found[i]
  BY <1>4
<1>8. /\ Parts(events) = [i \in 1..n |-> events[i].line]
      /\ Parts(more) = [i \in 1..(n + m) |-> more[i].line]
  <2>1. DOMAIN more = 1..(n + m)
    BY <1>6
  <2>. QED
    BY <1>1, <2>1 DEF Parts
<1>9. /\ Parts(events) \in Seq(X) /\ Len(Parts(events)) = n
      /\ \A i \in 1..n : Parts(events)[i] = events[i].line
  <2>1. \A i \in 1..n : events[i].line \in X
    BY <1>1, <1>2
  <2>2. Parts(events) \in [1..n -> X]
    BY <1>8, <2>1
  <2>. QED
    BY <1>1, <1>8, <2>2
<1>10. /\ Parts(more) \in Seq(X) /\ Len(Parts(more)) = n + m
       /\ \A i \in 1..(n + m) : Parts(more)[i] = more[i].line
  <2>0. n + m \in Nat /\ \A i \in 1..(n + m) : more[i] \in Event
    <3>1. DOMAIN more = 1..(n + m)
      BY <1>6
    <3>. QED
      BY <1>1, <1>6, <3>1
  <2>1. \A i \in 1..(n + m) : more[i].line \in X
    BY <1>2, <2>0
  <2>2. Parts(more) \in [1..(n + m) -> X]
    BY <1>8, <2>1
  <2>. QED
    BY <1>8, <2>0, <2>2
<1>. DEFINE joined == Parts(events) \o found
<1>11. /\ joined \in Seq(X) /\ Len(joined) = n + m
       /\ \A i \in 1..n : joined[i] = Parts(events)[i]
       /\ \A i \in 1..m : joined[n + i] = found[i]
  <2>1. found \in Seq(X) /\ Parts(events) \in Seq(X)
    BY <1>9 DEF X
  <2>2. /\ joined \in Seq(X) /\ Len(joined) = Len(Parts(events)) + Len(found)
        /\ \A i \in 1..Len(Parts(events)) : joined[i] = Parts(events)[i]
        /\ \A i \in 1..Len(found) : joined[Len(Parts(events)) + i] = found[i]
    BY <2>1, Both
  <2>. HIDE DEF joined
  <2>. QED
    BY <1>9, <2>2 DEF m
<1>. HIDE DEF joined
<1>12. ASSUME NEW i \in 1..(n + m) PROVE Parts(more)[i] = joined[i]
  <2>1. CASE i \in 1..n
    <3>1. Parts(more)[i] = more[i].line
      BY <1>10
    <3>2. more[i] = events[i] /\ joined[i] = Parts(events)[i] /\ Parts(events)[i] = events[i].line
      BY <1>6, <1>9, <1>11, <2>1
    <3>. QED
      BY <3>1, <3>2
  <2>2. CASE i \notin 1..n
    <3>. DEFINE j == i - n
    <3>1. j \in 1..m /\ i = n + j
      BY <1>1, <2>2
    <3>. HIDE DEF j
    <3>2. more[n + j] = new[j] /\ joined[n + j] = found[j] /\ new[j].line = found[j]
      BY <1>6, <1>7, <1>11, <3>1
    <3>. QED
      BY <1>10, <3>1, <3>2
  <2>. QED
    BY <2>1, <2>2
<1>13. Parts(more) = joined
  BY <1>10, <1>11, <1>12, Same
<1>. QED
  BY <1>6, <1>7, <1>9, <1>13 DEF More, more, new, joined, X, n, m

(* What is one child's of a text, and of a longer one.                      *)
LEMMA OfType == ASSUME NEW s \in Seq(Output), NEW c PROVE Of(c, s) \in Seq(Output)
<1>1. {i \in DOMAIN s : s[i].of = c} \subseteq DOMAIN s
  OBVIOUS
<1>. QED
  BY <1>1, PickedMembers DEF Of

AllOf(chunk, c) == \A i \in 1..Len(chunk) : chunk[i].of = c
Longer(text, chunk) == text \o chunk

LEMMA OfMore ==
  ASSUME NEW text \in Seq(Output), NEW chunk \in Seq(Output), NEW d,
         AllOf(chunk, d), NEW c
  PROVE  Of(c, Longer(text, chunk)) = IF c = d THEN Longer(Of(c, text), chunk) ELSE Of(c, text)
<1>. DEFINE W == {p \in Output : p.of = c}
            both == text \o chunk
<1>1. both \in Seq(Output)
  OBVIOUS
<1>. HIDE DEF both
<1>2. ASSUME NEW s \in Seq(Output) PROVE Of(c, s) = Those(s, W)
  <2>1. \A i \in DOMAIN s : s[i] \in Output
    OBVIOUS
  <2>2. {i \in DOMAIN s : s[i].of = c} = {i \in DOMAIN s : s[i] \in W}
    BY <2>1
  <2>. QED
    BY <2>2 DEF Of, Those
<1>3. /\ (\A i \in 1..Len(chunk) : chunk[i] \in W) => Those(text \o chunk, W) = Those(text, W) \o chunk
      /\ (\A i \in 1..Len(chunk) : chunk[i] \notin W) => Those(text \o chunk, W) = Those(text, W)
  <2>. HIDE DEF W
  <2>. QED
    BY ThoseMore
<1>4. \A i \in 1..Len(chunk) : chunk[i] \in Output
  OBVIOUS
<1>5. c = d => \A i \in 1..Len(chunk) : chunk[i] \in W
  BY <1>4 DEF AllOf
<1>6. c # d => \A i \in 1..Len(chunk) : chunk[i] \notin W
  BY DEF AllOf
<1>7. Of(c, text) = Those(text, W) /\ Of(c, both) = Those(both, W)
  BY <1>1, <1>2
<1>. HIDE DEF W
<1>. QED
  BY <1>3, <1>5, <1>6, <1>7 DEF both, Longer

(* Text that goes on from the middle of what a child wrote up to its end.   *)
Tailed(c, r, text, n) ==
  n = 2 * r + Len(text) /\ \A k \in 1..Len(text) : text[k] = Piece(c, 2 * r + k)

(* Whole lines have been taken from its beginning.                          *)
LEMMA TailCut ==
  ASSUME NEW text \in Seq(Output), NEW rest \in Seq(Output), NEW c \in Nat, NEW r \in Nat, NEW n,
         Tailed(c, r, text \o rest, n)
  PROVE  /\ \A k \in 1..Len(LinesOf(text)) :
              Len(LinesOf(text)[k]) = 2 /\ \A i \in 1..2 : LinesOf(text)[k][i].of = c
         /\ \E s \in Nat : Tailed(c, s, Remainder(text) \o rest, n)
<1>. DEFINE all == text \o rest
            L == Len(text)
            M == Len(rest)
<1>1. /\ L \in Nat /\ M \in Nat /\ all \in Seq(Output) /\ Len(all) = L + M
      /\ \A i \in 1..L : all[i] = text[i]
      /\ \A i \in 1..M : all[L + i] = rest[i]
  BY Both
<1>. HIDE DEF all, L, M
<1>2. n = 2 * r + (L + M) /\ \A k \in 1..(L + M) : all[k] = Piece(c, 2 * r + k)
  BY <1>1 DEF Tailed, all
<1>3. \A k \in 1..Len(text) : text[k] = Piece(c, 2 * r + k)
  <2>1. \A k \in 1..L : k \in 1..(L + M)
    BY <1>1
  <2>. QED
    BY <1>1, <1>2, <2>1 DEF L
<1>4. /\ \A k \in 1..Len(LinesOf(text)) :
           Len(LinesOf(text)[k]) = 2 /\ \A i \in 1..2 : LinesOf(text)[k][i].of = c
      /\ \E q \in Nat : RestOf(text) = 2 * q + 1 /\ 2 * q <= Len(text)
  <2>. HIDE DEF Piece
  <2>. QED
    BY <1>3, WholeLines, ZenonT(30)
<1>5. PICK q \in Nat : RestOf(text) = 2 * q + 1 /\ 2 * q <= Len(text)
  BY <1>4
<1>. DEFINE kept == SubSeq(text, 2 * q + 1, Len(text))
<1>6. /\ kept \in Seq(Output) /\ Len(kept) = L - 2 * q
      /\ \A i \in 1..(L - 2 * q) : kept[i] = text[2 * q + i]
  <2>1. 2 * q \in 0..Len(text) /\ Len(text) \in 0..Len(text)
    BY <1>1, <1>5 DEF L
  <2>. QED
    BY <1>5, <2>1, NextPart DEF L
<1>7. Remainder(text) = kept
  BY <1>5 DEF Remainder
<1>. HIDE DEF kept
<1>. DEFINE more == kept \o rest
            K == L - 2 * q
<1>8. /\ more \in Seq(Output) /\ Len(more) = K + M
      /\ \A i \in 1..K : more[i] = kept[i]
      /\ \A i \in 1..M : more[K + i] = rest[i]
  <2>1. /\ more \in Seq(Output) /\ Len(more) = Len(kept) + Len(rest)
        /\ \A i \in 1..Len(kept) : more[i] = kept[i]
        /\ \A i \in 1..Len(rest) : more[Len(kept) + i] = rest[i]
    <3>1. kept \in Seq(Output) /\ rest \in Seq(Output)
      BY <1>6
    <3>. QED
      BY ONLY <3>1, Both DEF more
  <2>. HIDE DEF more
  <2>. QED
    BY <1>6, <2>1 DEF M
<1>9. K \in Nat /\ L = 2 * q + K /\ r + q \in Nat
  BY <1>1, <1>5 DEF L
<1>. HIDE DEF more, K
<1>10. n = 2 * (r + q) + (K + M)
  BY <1>1, <1>2, <1>9
<1>11. ASSUME NEW k \in 1..(K + M) PROVE more[k] = Piece(c, 2 * (r + q) + k)
  <2>1. 2 * q + k \in 1..(L + M) /\ 2 * r + (2 * q + k) = 2 * (r + q) + k
    BY <1>1, <1>9
  <2>2. all[2 * q + k] = Piece(c, 2 * (r + q) + k)
    BY <1>2, <2>1
  <2>3. more[k] = all[2 * q + k]
    <3>1. CASE k \in 1..K
      <4>0. L \in Nat /\ q \in Nat /\ K \in Nat /\ L = 2 * q + K /\ k \in 1..K
        BY <1>1, <1>9, <3>1
      <4>1. k \in 1..(L - 2 * q) /\ 2 * q + k \in 1..L
        BY ONLY <4>0
      <4>. QED
        BY <1>1, <1>6, <1>8, <3>1, <4>1
    <3>2. CASE k \notin 1..K
      <4>. DEFINE j == k - K
      <4>0. /\ L \in Nat /\ M \in Nat /\ q \in Nat /\ K \in Nat /\ L = 2 * q + K
            /\ k \in 1..(K + M) /\ k \notin 1..K
        BY <1>1, <1>9, <3>2
      <4>1. j \in 1..M /\ k = K + j /\ 2 * q + k = L + j
        BY ONLY <4>0
      <4>. HIDE DEF j
      <4>. QED
        BY <1>1, <1>8, <4>1
    <3>. QED
      BY <3>1, <3>2
  <2>. QED
    BY <2>2, <2>3
<1>12. Tailed(c, r + q, more, n)
  BY <1>8, <1>10, <1>11 DEF Tailed
<1>13. \E s \in Nat : Tailed(c, s, more, n)
  BY <1>9, <1>12, Zenon
<1>. QED
  BY <1>4, <1>7, <1>13 DEF more

(* One piece more.                                                          *)
LEMMA TailLonger ==
  ASSUME NEW text \in Seq(Output), NEW c \in Nat, NEW r \in Nat, NEW n \in Nat,
         Tailed(c, r, text, n)
  PROVE  Tailed(c, r, Append(text, Piece(c, n + 1)), n + 1)
<1>. DEFINE more == Append(text, Piece(c, n + 1))
            L == Len(text)
<1>1. Piece(c, n + 1) \in Output
  BY Pieces
<1>2. /\ Len(more) = L + 1 /\ L \in Nat /\ more[L + 1] = Piece(c, n + 1)
      /\ \A k \in 1..L : more[k] = text[k]
  <2>. DEFINE p == Piece(c, n + 1)
  <2>. HIDE DEF p
  <2>. QED
    BY <1>1 DEF p
<1>3. n = 2 * r + L /\ \A k \in 1..L : text[k] = Piece(c, 2 * r + k)
  BY DEF Tailed
<1>. HIDE DEF more, L
<1>4. n + 1 = 2 * r + (L + 1) /\ \A k \in 1..(L + 1) : k = L + 1 \/ k \in 1..L
  BY <1>2, <1>3
<1>5. \A k \in 1..(L + 1) : more[k] = Piece(c, 2 * r + k)
  BY <1>2, <1>3, <1>4
<1>6. Tailed(c, r, more, n + 1)
  BY <1>2, <1>4, <1>5 DEF Tailed
<1>. QED
  BY <1>6 DEF more

-----------------------------------------------------------------------------
(* A child that runs was spawned, and so was the one that is sent to: a     *)
(* start finds neither under the number it gives out.                       *)
SpawnedInv ==
  /\ spawned \in 0..MaxChildren /\ kid \in 0..spawned
  /\ process \in [Kids -> {"none", "running", "failed", "over", "gone"}]
  /\ \A c \in Kids : process[c] = "running" => c <= spawned

ChildInv == SpawnedInv /\ OneBackend

LEMMA ChildInitInv == ChildInit => ChildInv
  BY ChildAssumption DEF ChildInit, ChildInv, SpawnedInv, OneBackend, Kids, NoKid

(* A child whose state alone changes, and which does not run afterwards.    *)
LEMMA ChildStops ==
  ASSUME ChildInv, NEW c \in Kids, NEW state \in {"failed", "over", "gone"},
         process' = [process EXCEPT ![c] = state], UNCHANGED <<spawned, expected>>,
         kid' = kid \/ (kid = c /\ kid' = NoKid)
  PROVE  ChildInv'
<1>1. \A d \in Kids : process'[d] = "running" => process[d] = "running" /\ d # c
  BY ChildAssumption DEF ChildInv, SpawnedInv
<1>2. SpawnedInv'
  BY ChildAssumption, <1>1 DEF ChildInv, SpawnedInv, Kids, NoKid
<1>3. OneBackend'
  BY ChildAssumption, <1>1 DEF ChildInv, OneBackend
<1>. QED
  BY ChildAssumption, <1>2, <1>3 DEF ChildInv

LEMMA ChildInvKept == ChildInv /\ [ChildNext]_childVars => ChildInv'
<1>. SUFFICES ASSUME ChildInv, [ChildNext]_childVars PROVE ChildInv'
  OBVIOUS
<1>. USE DEF ChildInv
<1>1. CASE StartChild
  <2>1. \A d \in Kids : process'[d] = "running" => d = spawned + 1 \/ process[d] = "running"
    BY ChildAssumption, <1>1 DEF StartChild, SpawnedInv
  <2>2. SpawnedInv'
    BY ChildAssumption, <1>1, <2>1 DEF StartChild, SpawnedInv, Kids
  <2>3. ASSUME NEW d \in Kids, process'[d] = "running", d \notin expected' PROVE d = kid'
    BY ChildAssumption, <1>1, <2>1, <2>3 DEF StartChild, Stopped, OneBackend, SpawnedInv, Kids, NoKid
  <2>. QED
    BY ChildAssumption, <2>2, <2>3 DEF OneBackend
<1>2. CASE StopChild
  <2>1. SpawnedInv'
    BY ChildAssumption, <1>2 DEF StopChild, SpawnedInv, NoKid
  <2>2. OneBackend'
    BY ChildAssumption, <1>2 DEF StopChild, Stopped, OneBackend, Kids, NoKid
  <2>. QED
    BY <2>1, <2>2
<1>3. ASSUME NEW c \in Kids, SpawnFails(c) PROVE ChildInv'
  BY ChildAssumption, <1>3, ChildStops DEF SpawnFails
<1>4. ASSUME NEW c \in Kids, ChildWrites(c) PROVE ChildInv'
  BY ChildAssumption, <1>4 DEF ChildWrites, SpawnedInv, OneBackend
<1>5. ASSUME NEW c \in Kids, ChildEnds(c) PROVE ChildInv'
  BY ChildAssumption, <1>5, ChildStops DEF ChildEnds
<1>6. ASSUME NEW c \in Kids, ExitSeen(c) PROVE ChildInv'
  BY ChildAssumption, <1>6, ChildStops DEF ExitSeen, Forgotten
<1>7. ASSUME NEW c \in Kids, NEW n \in 1..MaxPieces, OutputArrives(c, n) PROVE ChildInv'
  BY ChildAssumption, <1>7 DEF OutputArrives, SpawnedInv, OneBackend
<1>8. CASE UNCHANGED childVars
  BY ChildAssumption, <1>8 DEF childVars, SpawnedInv, OneBackend
<1>. QED
  BY ChildAssumption, <1>1, <1>2, <1>3, <1>4, <1>5, <1>6, <1>7, <1>8 DEF ChildNext

(* No two backends work on at a time: a child that runs was told to end, or *)
(* is the one commands are sent to, whenever exits are announced (start,    *)
(* stop and the exit handler of BackendProcess).                            *)
THEOREM OneWorks == ChildSpec => []OneBackend
<1>1. ChildSpec => []ChildInv
  BY ChildInitInv, ChildInvKept, PTL DEF ChildSpec
<1>2. ChildInv => OneBackend
  BY DEF ChildInv
<1>. QED
  BY <1>1, <1>2, PTL

-----------------------------------------------------------------------------
(* What the children have written: it was emitted, or is in the buffer or a *)
(* pipe.                                                                    *)
OutputInv ==
  /\ lines \in Seq(Event) /\ stdoutBuffer \in Seq(Output) /\ Newlines(stdoutBuffer) = {}
  /\ written \in [Kids -> Nat] /\ pipe \in [Kids -> Seq(Output)]
  /\ \A c \in Kids : \A i \in 1..Len(pipe[c]) : pipe[c][i].of = c
  /\ \A c \in Kids :
       Of(c, Emitted \o stdoutBuffer) \o pipe[c] = [n \in 1..written[c] |-> Piece(c, n)]

LEMMA EmittedOf == Emitted = Chained(Parts(lines))
BY DEF Emitted, Parts

LEMMA EmittedText ==
  ASSUME OutputInv PROVE Emitted \in Seq(Output) /\ Emitted \o stdoutBuffer \in Seq(Output)
<1>1. lines \in Seq(Event) /\ stdoutBuffer \in Seq(Output)
  BY DEF OutputInv
<1>2. Parts(lines) \in Seq(Seq(Output))
  BY <1>1, PartsType
<1>3. Chained(Parts(lines)) \in Seq(Output)
  <2>1. <<>> \in Seq(Output)
    OBVIOUS
  <2>. QED
    BY <1>2, <2>1, ChainedLonger
<1>. QED
  BY <1>1, <1>3, EmittedOf

LEMMA OutputBegins == ChildInit => OutputInv
<1>. SUFFICES ASSUME ChildInit PROVE OutputInv
  OBVIOUS
<1>1. /\ lines = <<>> /\ stdoutBuffer = <<>> /\ written = [c \in Kids |-> 0]
      /\ pipe = [c \in Kids |-> <<>>]
  BY DEF ChildInit
<1>2. Parts(<<>>) = <<>> /\ <<>> \in Seq(Seq(Output)) /\ <<>> \in Seq(Output) /\ <<>> \in Seq(Event)
  BY DEF Parts
<1>3. Emitted = <<>>
  BY <1>1, <1>2, EmittedOf, ChainedLonger
<1>4. Emitted \o stdoutBuffer = <<>>
  BY <1>1, <1>3
<1>5. ASSUME NEW c \in Kids
      PROVE  Of(c, <<>>) \o pipe[c] = [n \in 1..written[c] |-> Piece(c, n)]
  <2>1. {i \in DOMAIN <<>> : <<>>[i].of = c} = {} /\ Cardinality({}) = 0
    BY FS_EmptySet
  <2>2. Picked(<<>>, {}) = <<>>
    BY <2>1 DEF Picked
  <2>3. Of(c, <<>>) = <<>>
    BY <2>1, <2>2 DEF Of
  <2>4. pipe[c] = <<>> /\ written[c] = 0
    BY <1>1
  <2>5. 1..0 = {}
    OBVIOUS
  <2>6. <<>> \o <<>> = <<>> /\ [n \in {} |-> Piece(c, n)] = <<>>
    OBVIOUS
  <2>. QED
    BY <2>3, <2>4, <2>5, <2>6
<1>6. Newlines(<<>>) = {}
  BY DEF Newlines
<1>. QED
  BY <1>1, <1>2, <1>4, <1>5, <1>6 DEF OutputInv

LEMMA OutputWritten ==
  ASSUME OutputInv, NEW c \in Kids, ChildWrites(c) PROVE OutputInv'
<1>. DEFINE w == written[c]
            p == Piece(c, w + 1)
            own == Of(c, Emitted \o stdoutBuffer)
<1>1. /\ written' = [written EXCEPT ![c] = w + 1] /\ pipe' = [pipe EXCEPT ![c] = Append(pipe[c], p)]
      /\ lines' = lines /\ stdoutBuffer' = stdoutBuffer
  BY DEF ChildWrites
<1>2. /\ w \in Nat /\ pipe[c] \in Seq(Output) /\ c \in Nat
      /\ written \in [Kids -> Nat] /\ pipe \in [Kids -> Seq(Output)]
      /\ \A d \in Kids : \A i \in 1..Len(pipe[d]) : pipe[d][i].of = d
      /\ \A d \in Kids :
           Of(d, Emitted \o stdoutBuffer) \o pipe[d] = [n \in 1..written[d] |-> Piece(d, n)]
  <2>1. c \in Nat
    BY ChildAssumption DEF Kids
  <2>2. written \in [Kids -> Nat] /\ pipe \in [Kids -> Seq(Output)]
    BY DEF OutputInv
  <2>. QED
    BY <2>1, <2>2 DEF OutputInv
<1>3. p \in Output /\ p.of = c
  BY <1>2, Pieces
<1>4. own \in Seq(Output)
  BY EmittedText, OfType
<1>5. Emitted' = Emitted
  BY <1>1 DEF Emitted
<1>6. \A d \in Kids : /\ d = c => written'[d] = w + 1 /\ pipe'[d] = Append(pipe[c], p)
                      /\ d # c => written'[d] = written[d] /\ pipe'[d] = pipe[d]
  BY <1>1, <1>2
<1>. HIDE DEF w, p, own
<1>7. Append(pipe[c], p) \in Seq(Output) /\ \A i \in 1..Len(Append(pipe[c], p)) : Append(pipe[c], p)[i].of = c
  <2>. DEFINE s == pipe[c]
              t == Append(s, p)
  <2>1. s \in Seq(Output) /\ \A i \in 1..Len(s) : s[i].of = c
    BY <1>2
  <2>. HIDE DEF s
  <2>2. /\ t \in Seq(Output) /\ Len(t) = Len(s) + 1 /\ t[Len(s) + 1] = p
        /\ \A i \in 1..Len(s) : t[i] = s[i]
    BY <1>3, <2>1
  <2>3. \A i \in 1..(Len(s) + 1) : i = Len(s) + 1 \/ i \in 1..Len(s)
    BY <2>1
  <2>. HIDE DEF t
  <2>4. \A i \in 1..Len(t) : t[i].of = c
    BY <1>3, <2>1, <2>2, <2>3
  <2>. QED
    BY <2>2, <2>4 DEF s, t
<1>8. own \o Append(pipe[c], p) = [n \in 1..(w + 1) |-> Piece(c, n)]
  <2>. DEFINE s == pipe[c]
              q == [n \in 1..w |-> Piece(c, n)]
  <2>0. s \in Seq(Output)
    BY <1>2
  <2>1. own \o Append(s, p) = Append(own \o s, p)
    <3>. HIDE DEF s
    <3>. QED
      BY <1>3, <1>4, <2>0, AppendJoins
  <2>2. own \o s = q
    BY <1>2 DEF own, w
  <2>3. \A n \in 1..w : Piece(c, n) \in Output
    BY <1>2, Pieces
  <2>4. q \in Seq(Output) /\ Len(q) = w
    BY <1>2, <2>3
  <2>5. Append(q, p) = [n \in 1..(w + 1) |-> Piece(c, n)]
    <3>. DEFINE t == Append(q, p)
    <3>0. \A n \in 1..w : q[n] = Piece(c, n)
      OBVIOUS
    <3>. HIDE DEF q
    <3>1. t \in Seq(Output) /\ Len(t) = w + 1 /\ t[w + 1] = p /\ \A n \in 1..w : t[n] = q[n]
      BY <1>3, <2>4
    <3>. HIDE DEF t
    <3>2. t = [n \in 1..(w + 1) |-> t[n]]
      BY <1>2, <3>1
    <3>3. \A n \in 1..(w + 1) : n = w + 1 \/ n \in 1..w
      BY <1>2
    <3>4. \A n \in 1..(w + 1) : t[n] = Piece(c, n)
      BY <3>0, <3>1, <3>3 DEF p
    <3>. QED
      BY <3>2, <3>4 DEF t
  <2>. QED
    BY <2>1, <2>2, <2>5
<1>9. ASSUME NEW d \in Kids
      PROVE  /\ Of(d, Emitted' \o stdoutBuffer') \o pipe'[d] = [n \in 1..written'[d] |-> Piece(d, n)]
             /\ \A i \in 1..Len(pipe'[d]) : pipe'[d][i].of = d
  <2>1. CASE d = c
    <3>1. pipe'[d] = Append(pipe[c], p) /\ written'[d] = w + 1
      BY <1>6, <2>1
    <3>2. Of(d, Emitted' \o stdoutBuffer') = own
      BY <1>1, <1>5, <2>1 DEF own
    <3>. QED
      BY <1>7, <1>8, <2>1, <3>1, <3>2
  <2>2. CASE d # c
    <3>1. pipe'[d] = pipe[d] /\ written'[d] = written[d]
      BY <1>6, <2>2
    <3>. QED
      BY <1>1, <1>2, <1>5, <3>1
  <2>. QED
    BY <2>1, <2>2
<1>10. written' \in [Kids -> Nat] /\ pipe' \in [Kids -> Seq(Output)]
  BY <1>1, <1>2, <1>7
<1>11. lines' \in Seq(Event) /\ stdoutBuffer' \in Seq(Output) /\ Newlines(stdoutBuffer') = {}
  BY <1>1 DEF OutputInv
<1>. QED
  BY <1>9, <1>10, <1>11 DEF OutputInv, Emitted, Of, Picked, Newlines, Newline, Arranged, InFront, Preceding, Piece, Chained, Kids

LEMMA OutputTaken ==
  ASSUME OutputInv, spawned \in 0..MaxChildren, NEW c \in Kids, NEW n \in 1..MaxPieces,
         OutputArrives(c, n)
  PROVE  OutputInv'
<1>. DEFINE p == pipe[c]
            chunk == SubSeq(p, 1, n)
            rest == SubSeq(p, n + 1, Len(p))
            text == stdoutBuffer \o chunk
            found == LinesOf(text)
            old == Emitted \o stdoutBuffer
<1>1. /\ lines \in Seq(Event) /\ stdoutBuffer \in Seq(Output)
      /\ written \in [Kids -> Nat] /\ pipe \in [Kids -> Seq(Output)]
      /\ \A d \in Kids : \A i \in 1..Len(pipe[d]) : pipe[d][i].of = d
      /\ \A d \in Kids : Of(d, old) \o pipe[d] = [k \in 1..written[d] |-> Piece(d, k)]
  BY DEF OutputInv
<1>2. /\ n <= Len(p) /\ written' = written /\ pipe' = [pipe EXCEPT ![c] = rest]
      /\ stdoutBuffer' = Remainder(text)
      /\ lines' = lines \o [k \in DOMAIN found |-> [line |-> found[k], during |-> spawned]]
  BY DEF OutputArrives, HandleStdout
<1>3. p \in Seq(Output) /\ Len(p) \in Nat /\ \A i \in 1..Len(p) : p[i].of = c
  BY <1>1
<1>4. /\ chunk \in Seq(Output) /\ Len(chunk) = n /\ rest \in Seq(Output) /\ Len(rest) = Len(p) - n
      /\ \A i \in 1..n : chunk[i] = p[i]
      /\ \A i \in 1..(Len(p) - n) : rest[i] = p[n + i]
      /\ chunk \o rest = p
  <2>. HIDE DEF p
  <2>1. n \in 0..Len(p) /\ Len(p) \in 0..Len(p) /\ n \in Nat
    BY <1>2, <1>3
  <2>2. /\ rest \in Seq(Output) /\ Len(rest) = Len(p) - n
        /\ \A i \in 1..(Len(p) - n) : rest[i] = p[n + i]
        /\ chunk \o rest = SubSeq(p, 1, Len(p))
    BY <1>2, <1>3, <2>1, NextPart, SMTT(20)
  <2>3. chunk \in Seq(Output) /\ Len(chunk) = n /\ SubSeq(p, 1, Len(p)) = p
    BY <1>3, <2>1, FirstOnes
  <2>4. \A i \in 1..n : chunk[i] = p[i]
    BY <1>3, <2>1
  <2>. QED
    BY <2>2, <2>3, <2>4
<1>5. Emitted \in Seq(Output) /\ old \in Seq(Output)
  BY EmittedText
<1>. HIDE DEF p, chunk, rest, old
<1>6. text \in Seq(Output)
  BY <1>1, <1>4
<1>. HIDE DEF text
<1>7. /\ found \in Seq(Seq(Output)) /\ Remainder(text) \in Seq(Output)
      /\ Newlines(Remainder(text)) = {}
      /\ \A parts \in Seq(Seq(Output)) :
           Chained(parts \o found) \o Remainder(text) = Chained(parts) \o text
  BY <1>6, LinesTaken
<1>. HIDE DEF found
<1>8. /\ lines' \in Seq(Event) /\ Parts(lines) \in Seq(Seq(Output))
      /\ Parts(lines') = Parts(lines) \o found
  <2>. DEFINE more == More(lines, found, spawned)
  <2>1. lines \in Seq(Event) /\ found \in Seq(Seq(Output)) /\ spawned \in 0..MaxChildren
    BY <1>1, <1>7
  <2>2. /\ more \in Seq(Event) /\ Parts(lines) \in Seq(Seq(Output))
        /\ Parts(more) = Parts(lines) \o found
    BY ONLY <2>1, PartsMore
  <2>. HIDE DEF more
  <2>3. lines' = more
    BY <1>2 DEF More, more
  <2>. QED
    BY <2>2, <2>3
<1>9. Emitted' = Chained(Parts(lines'))
  BY DEF Emitted, Parts
<1>10. Emitted' \o stdoutBuffer' = old \o chunk
  <2>1. Emitted' \o stdoutBuffer' = Emitted \o text
    <3>1. Chained(Parts(lines) \o found) \o Remainder(text) = Chained(Parts(lines)) \o text
      BY <1>7, <1>8
    <3>. QED
      BY <1>2, <1>8, <1>9, <3>1, EmittedOf
  <2>2. Emitted \o (stdoutBuffer \o chunk) = (Emitted \o stdoutBuffer) \o chunk
    <3>. DEFINE a == Emitted
                b == stdoutBuffer
    <3>1. a \in Seq(Output) /\ b \in Seq(Output) /\ chunk \in Seq(Output)
      BY <1>1, <1>4, <1>5
    <3>. HIDE DEF a, b
    <3>2. Behind(Behind(a, b), chunk) = Behind(a, Behind(b, chunk))
      <4>. HIDE DEF chunk
      <4>. QED
        BY ONLY <3>1, Three
    <3>. QED
      BY <3>2 DEF a, b, Behind
  <2>. QED
    BY <2>1, <2>2 DEF text, old
<1>11. /\ \A i \in 1..Len(chunk) : chunk[i].of = c
       /\ \A i \in 1..Len(rest) : rest[i].of = c
  <2>1. /\ \A i \in 1..n : i \in 1..Len(p)
        /\ \A i \in 1..(Len(p) - n) : n + i \in 1..Len(p)
    BY <1>2, <1>3
  <2>2. \A i \in 1..n : chunk[i].of = c
    BY <1>3, <1>4, <2>1, ZenonT(60)
  <2>3. \A i \in 1..(Len(p) - n) : rest[i].of = c
    BY <1>3, <1>4, <2>1, ZenonT(60)
  <2>. QED
    BY <1>4, <2>2, <2>3
<1>12. ASSUME NEW d \in Kids
       PROVE  /\ Of(d, old \o chunk) \o pipe'[d] = [k \in 1..written[d] |-> Piece(d, k)]
              /\ \A i \in 1..Len(pipe'[d]) : pipe'[d][i].of = d
  <2>0. /\ Of(d, old) \in Seq(Output)
        /\ d = c => Of(d, old \o chunk) = Of(d, old) \o chunk
        /\ d # c => Of(d, old \o chunk) = Of(d, old)
    <3>1. old \in Seq(Output) /\ chunk \in Seq(Output) /\ AllOf(chunk, c)
      BY <1>4, <1>5, <1>11 DEF AllOf
    <3>2. Of(d, Longer(old, chunk)) = IF d = c THEN Longer(Of(d, old), chunk) ELSE Of(d, old)
      BY <3>1, OfMore
    <3>3. Of(d, old) \in Seq(Output)
      BY <3>1, OfType
    <3>. QED
      BY <3>2, <3>3 DEF Longer
  <2>1. CASE d = c
    <3>1. pipe'[d] = rest
      BY <1>1, <1>2, <2>1
    <3>. DEFINE own == Of(d, old)
    <3>2. own \in Seq(Output) /\ chunk \in Seq(Output) /\ rest \in Seq(Output)
      BY <1>4, <2>0
    <3>. HIDE DEF own
    <3>3. (own \o chunk) \o rest = own \o (chunk \o rest)
      <4>1. Behind(Behind(own, chunk), rest) = Behind(own, Behind(chunk, rest))
        <5>. HIDE DEF chunk, rest
        <5>. QED
          BY ONLY <3>2, Three
      <4>. QED
        BY <4>1 DEF Behind
    <3>4. own \o p = [k \in 1..written[d] |-> Piece(d, k)]
      BY <1>1, <2>1 DEF own, p
    <3>5. Of(d, old \o chunk) = own \o chunk
      BY <2>0, <2>1 DEF own
    <3>. QED
      BY <1>4, <1>11, <2>1, <3>1, <3>3, <3>4, <3>5
  <2>2. CASE d # c
    <3>1. pipe'[d] = pipe[d]
      BY <1>1, <1>2, <2>2
    <3>. QED
      BY <1>1, <2>0, <2>2, <3>1
  <2>. QED
    BY <2>1, <2>2
<1>13. pipe' \in [Kids -> Seq(Output)]
  BY <1>1, <1>2, <1>4
<1>14. \A d \in Kids : Of(d, Emitted' \o stdoutBuffer') \o pipe'[d] = [k \in 1..written'[d] |-> Piece(d, k)]
  BY <1>2, <1>10, <1>12
<1>. QED
  BY <1>1, <1>2, <1>7, <1>8, <1>12, <1>13, <1>14 DEF OutputInv, Emitted, Of, Picked, Newlines, Newline, Arranged, InFront, Preceding, Piece, Chained, Kids

-----------------------------------------------------------------------------
(* Children are told of, run and write once they are spawned.               *)
NamedInv ==
  /\ expected \cup complaints \subseteq 1..spawned
  /\ \A c \in Kids : process[c] # "none" => c <= spawned
  /\ \A c \in Kids : c > spawned => written[c] = 0

(* As long as the starts found all output read: the last child alone runs,  *)
(* or has output, and the buffer begins with a line of its.                 *)
CleanInv ==
  clean =>
    /\ \A c \in Kids : c # spawned => process[c] # "running" /\ pipe[c] = <<>>
    /\ spawned = 0 => stdoutBuffer = <<>>
    /\ \A c \in Kids :
         c = spawned => \E r \in Nat : Tailed(c, r, stdoutBuffer \o pipe[c], written[c])

SoundChild == ChildInv /\ NamedInv /\ OutputInv /\ CleanInv /\ LinesAreCurrent

LEMMA SoundBegins == ChildInit => SoundChild
<1>. SUFFICES ASSUME ChildInit PROVE SoundChild
  OBVIOUS
<1>1. ChildInv /\ OutputInv
  BY ChildInitInv, OutputBegins
<1>2. NamedInv
  BY ChildAssumption DEF ChildInit, NamedInv, Kids
<1>3. CleanInv
  BY DEF ChildInit, CleanInv, Kids
<1>4. LinesAreCurrent
  BY DEF ChildInit, LinesAreCurrent
<1>. QED
  BY <1>1, <1>2, <1>3, <1>4 DEF SoundChild

LEMMA NamedKept ==
  ASSUME ChildInv, NamedInv, OutputInv, [ChildNext]_childVars PROVE NamedInv'
<1>0. /\ spawned \in 0..MaxChildren /\ kid \in 0..spawned /\ DOMAIN process = Kids
      /\ \A c \in Kids : c \in Nat
      /\ DOMAIN written = Kids
      /\ \A c \in Kids : process[c] = "running" => c <= spawned
  BY ChildAssumption DEF ChildInv, SpawnedInv, OutputInv, Kids
<1>1. CASE StartChild
  <2>1. /\ expected' = Stopped /\ spawned' = spawned + 1 /\ written' = written
        /\ process' = [process EXCEPT ![spawned + 1] = "running"] /\ complaints' = complaints
    BY <1>1 DEF StartChild
  <2>2. Stopped \subseteq 1..spawned
    BY <1>0 DEF NamedInv, Stopped, NoKid
  <2>3. 1..spawned \subseteq 1..spawned'
    BY <1>0, <2>1
  <2>4. \A c \in Kids : process'[c] # "none" => c <= spawned'
    BY <1>0, <2>1 DEF NamedInv
  <2>5. \A c \in Kids : c > spawned' => c > spawned
    BY <1>0, <2>1
  <2>. QED
    BY <2>1, <2>2, <2>3, <2>4, <2>5 DEF NamedInv
<1>2. CASE StopChild
  BY <1>0, <1>2 DEF StopChild, NamedInv, Stopped, NoKid
<1>3. ASSUME NEW c \in Kids, SpawnFails(c) PROVE NamedInv'
  BY <1>0, <1>3 DEF SpawnFails, NamedInv, Kids
<1>4. ASSUME NEW c \in Kids, ChildWrites(c) PROVE NamedInv'
  BY <1>0, <1>4 DEF ChildWrites, NamedInv
<1>5. ASSUME NEW c \in Kids, ChildEnds(c) PROVE NamedInv'
  BY <1>0, <1>5 DEF ChildEnds, NamedInv
<1>6. ASSUME NEW c \in Kids, ExitSeen(c) PROVE NamedInv'
  <2>1. c \in 1..spawned
    BY <1>0, <1>6 DEF ExitSeen, NamedInv, Kids
  <2>. QED
    BY <1>0, <1>6, <2>1 DEF ExitSeen, NamedInv
<1>7. ASSUME NEW c \in Kids, NEW n \in 1..MaxPieces, OutputArrives(c, n) PROVE NamedInv'
  BY <1>7 DEF OutputArrives, NamedInv
<1>8. CASE UNCHANGED childVars
  BY <1>8 DEF childVars, NamedInv
<1>. QED
  BY <1>1, <1>2, <1>3, <1>4, <1>5, <1>6, <1>7, <1>8 DEF ChildNext

LEMMA OutputKept ==
  ASSUME ChildInv, OutputInv, [ChildNext]_childVars PROVE OutputInv'
<1>1. CASE UNCHANGED <<written, pipe, stdoutBuffer, lines>>
  BY <1>1 DEF OutputInv, Emitted
<1>2. CASE StartChild
  BY <1>1, <1>2 DEF StartChild
<1>3. CASE StopChild
  BY <1>1, <1>3 DEF StopChild
<1>4. ASSUME NEW c \in Kids, SpawnFails(c) PROVE OutputInv'
  BY <1>1, <1>4 DEF SpawnFails
<1>5. ASSUME NEW c \in Kids, ChildWrites(c) PROVE OutputInv'
  BY <1>5, OutputWritten
<1>6. ASSUME NEW c \in Kids, ChildEnds(c) PROVE OutputInv'
  BY <1>1, <1>6 DEF ChildEnds
<1>7. ASSUME NEW c \in Kids, ExitSeen(c) PROVE OutputInv'
  BY <1>1, <1>7 DEF ExitSeen
<1>8. ASSUME NEW c \in Kids, NEW n \in 1..MaxPieces, OutputArrives(c, n) PROVE OutputInv'
  BY <1>8, OutputTaken DEF ChildInv, SpawnedInv
<1>9. CASE UNCHANGED childVars
  BY <1>1, <1>9 DEF childVars
<1>. QED
  BY <1>2, <1>3, <1>4, <1>5, <1>6, <1>7, <1>8, <1>9 DEF ChildNext

LEMMA CleanKept ==
  ASSUME SoundChild, [ChildNext]_childVars PROVE CleanInv' /\ LinesAreCurrent'
<1>. USE DEF SoundChild
<1>0. /\ spawned \in 0..MaxChildren /\ MaxChildren \in Nat
      /\ process \in [Kids -> {"none", "running", "failed", "over", "gone"}]
      /\ \A c \in Kids : c \in Nat
      /\ written \in [Kids -> Nat] /\ pipe \in [Kids -> Seq(Output)]
      /\ lines \in Seq(Event) /\ stdoutBuffer \in Seq(Output)
  <2>1. MaxChildren \in Nat /\ \A c \in Kids : c \in Nat
    BY ChildAssumption DEF Kids
  <2>2. written \in [Kids -> Nat] /\ pipe \in [Kids -> Seq(Output)]
    BY DEF OutputInv
  <2>3. lines \in Seq(Event) /\ stdoutBuffer \in Seq(Output)
    BY DEF OutputInv
  <2>4. /\ spawned \in 0..MaxChildren
        /\ process \in [Kids -> {"none", "running", "failed", "over", "gone"}]
    BY DEF ChildInv, SpawnedInv
  <2>. QED
    BY <2>1, <2>2, <2>3, <2>4
\* Nothing is written or read, and no child begins to run.
<1>1. ASSUME UNCHANGED <<spawned, written, pipe, stdoutBuffer, lines, clean>>,
             \A c \in Kids : process'[c] = "running" => process[c] = "running"
      PROVE  CleanInv' /\ LinesAreCurrent'
  <2>1. CleanInv'
    BY <1>1 DEF CleanInv, Tailed
  <2>2. LinesAreCurrent'
    BY <1>1 DEF LinesAreCurrent
  <2>. QED
    BY <2>1, <2>2
<1>2. CASE StartChild
  <2>. DEFINE c == spawned + 1
  <2>1. /\ spawned' = c /\ written' = written /\ pipe' = pipe /\ stdoutBuffer' = stdoutBuffer
        /\ lines' = lines /\ process' = [process EXCEPT ![c] = "running"]
        /\ clean' => /\ clean /\ stdoutBuffer = <<>>
                     /\ \A d \in Kids : process[d] # "running" /\ pipe[d] = <<>>
    BY <1>2 DEF StartChild
  <2>2. LinesAreCurrent'
    BY <2>1 DEF LinesAreCurrent
  <2>3. ASSUME clean' PROVE /\ \A d \in Kids : d # c => process'[d] # "running" /\ pipe'[d] = <<>>
                            /\ spawned' = 0 => stdoutBuffer' = <<>>
                            /\ \A d \in Kids : d = c =>
                                 \E r \in Nat : Tailed(d, r, stdoutBuffer' \o pipe'[d], written'[d])
    <3>1. \A d \in Kids : d # c => process'[d] # "running" /\ pipe'[d] = <<>>
      BY <1>0, <2>1, <2>3
    <3>2. stdoutBuffer' = <<>>
      BY <2>1, <2>3
    <3>3. ASSUME NEW d \in Kids, d = c
          PROVE  \E r \in Nat : Tailed(d, r, stdoutBuffer' \o pipe'[d], written'[d])
      <4>1. stdoutBuffer' \o pipe'[d] = <<>> /\ Len(<<>>) = 0
        BY <2>1, <2>3, <3>2
      <4>2. written'[d] = 0
        BY <1>0, <2>1, <3>3 DEF NamedInv
      <4>3. Tailed(d, 0, <<>>, 0)
        BY DEF Tailed
      <4>. QED
        BY <4>1, <4>2, <4>3
    <3>. QED
      BY <3>1, <3>2, <3>3
  <2>4. CleanInv'
    BY <2>1, <2>3 DEF CleanInv
  <2>. QED
    BY <2>2, <2>4
<1>3. CASE StopChild
  BY <1>1, <1>3 DEF StopChild
<1>4. ASSUME NEW c \in Kids, SpawnFails(c) PROVE CleanInv' /\ LinesAreCurrent'
  BY <1>0, <1>1, <1>4 DEF SpawnFails
<1>5. ASSUME NEW c \in Kids, ChildWrites(c) PROVE CleanInv' /\ LinesAreCurrent'
  <2>1. /\ process[c] = "running" /\ written' = [written EXCEPT ![c] = written[c] + 1]
        /\ pipe' = [pipe EXCEPT ![c] = Append(pipe[c], Piece(c, written[c] + 1))]
        /\ UNCHANGED <<spawned, process, stdoutBuffer, lines, clean>>
    BY <1>5 DEF ChildWrites
  <2>2. LinesAreCurrent'
    BY <2>1 DEF LinesAreCurrent
  <2>3. ASSUME clean PROVE /\ \A d \in Kids : d # spawned => process'[d] # "running" /\ pipe'[d] = <<>>
                           /\ spawned = 0 => stdoutBuffer = <<>>
                           /\ \A d \in Kids : d = spawned =>
                                \E r \in Nat : Tailed(d, r, stdoutBuffer \o pipe'[d], written'[d])
    <3>1. c = spawned
      BY <2>1, <2>3 DEF CleanInv
    <3>2. \A d \in Kids : d # spawned => process'[d] # "running" /\ pipe'[d] = <<>>
      BY <1>0, <2>1, <2>3, <3>1 DEF CleanInv
    <3>3. PICK r \in Nat : Tailed(c, r, stdoutBuffer \o pipe[c], written[c])
      BY <2>3, <3>1 DEF CleanInv
    <3>. DEFINE text == stdoutBuffer \o pipe[c]
                p == Piece(c, written[c] + 1)
    <3>4. text \in Seq(Output) /\ p \in Output /\ pipe[c] \in Seq(Output) /\ stdoutBuffer \in Seq(Output)
          /\ written[c] \in Nat /\ c \in Nat
      <4>1. pipe[c] \in Seq(Output) /\ stdoutBuffer \in Seq(Output) /\ written[c] \in Nat /\ c \in Nat
        BY <1>0
      <4>2. p \in Output
        BY <4>1, Pieces
      <4>3. text \in Seq(Output)
        BY <4>1
      <4>. QED
        BY <4>1, <4>2, <4>3
    <3>5. Tailed(c, r, Append(text, p), written[c] + 1)
      BY <3>3, <3>4, TailLonger
    <3>6. stdoutBuffer \o Append(pipe[c], p) = Append(text, p)
      <4>. DEFINE s == stdoutBuffer
                  t == pipe[c]
      <4>1. s \in Seq(Output) /\ t \in Seq(Output) /\ p \in Output
        BY <3>4
      <4>. HIDE DEF s, t, p
      <4>2. s \o Append(t, p) = Append(s \o t, p)
        BY <4>1, AppendJoins
      <4>. QED
        BY <4>2 DEF s, t
    <3>7. pipe'[c] = Append(pipe[c], p) /\ written'[c] = written[c] + 1
      BY <1>0, <2>1
    <3>8. \E q \in Nat : Tailed(c, q, stdoutBuffer \o pipe'[c], written'[c])
      BY <3>5, <3>6, <3>7
    <3>9. spawned # 0
      BY <3>1 DEF Kids
    <3>. QED
      BY <3>1, <3>2, <3>8, <3>9
  <2>4. CleanInv'
    BY <2>1, <2>3 DEF CleanInv
  <2>. QED
    BY <2>2, <2>4
<1>6. ASSUME NEW c \in Kids, ChildEnds(c) PROVE CleanInv' /\ LinesAreCurrent'
  BY <1>0, <1>1, <1>6 DEF ChildEnds
<1>7. ASSUME NEW c \in Kids, ExitSeen(c) PROVE CleanInv' /\ LinesAreCurrent'
  BY <1>0, <1>1, <1>7 DEF ExitSeen
<1>8. ASSUME NEW c \in Kids, NEW n \in 1..MaxPieces, OutputArrives(c, n)
      PROVE  CleanInv' /\ LinesAreCurrent'
  <2>. DEFINE p == pipe[c]
              chunk == SubSeq(p, 1, n)
              rest == SubSeq(p, n + 1, Len(p))
              text == stdoutBuffer \o chunk
              found == LinesOf(text)
              new == [k \in DOMAIN found |-> [line |-> found[k], during |-> spawned]]
  <2>1. /\ n <= Len(p) /\ pipe' = [pipe EXCEPT ![c] = rest]
        /\ stdoutBuffer' = Remainder(text) /\ lines' = lines \o new
        /\ UNCHANGED <<spawned, process, written, clean>>
    BY <1>8 DEF OutputArrives, HandleStdout
  <2>2. ASSUME clean
        PROVE  /\ \A d \in Kids : d # spawned => process[d] # "running" /\ pipe'[d] = <<>>
               /\ spawned = 0 => stdoutBuffer' = <<>>
               /\ \A d \in Kids : d = spawned =>
                    \E r \in Nat : Tailed(d, r, stdoutBuffer' \o pipe'[d], written[d])
               /\ \A i \in DOMAIN lines' :
                    /\ Len(lines'[i].line) = 2
                    /\ \A k \in 1..2 : lines'[i].line[k].of = lines'[i].during
    <3>1. c = spawned
      <4>1. Len(p) # 0
        BY <2>1, ChildAssumption
      <4>2. p # <<>>
        BY <4>1
      <4>. QED
        BY <2>2, <4>2 DEF CleanInv
    <3>2. \A d \in Kids : d # spawned => process[d] # "running" /\ pipe'[d] = <<>>
      BY <1>0, <2>1, <2>2, <3>1 DEF CleanInv
    <3>3. PICK r \in Nat : Tailed(c, r, stdoutBuffer \o p, written[c])
      BY <2>2, <3>1 DEF CleanInv
    <3>4. /\ p \in Seq(Output) /\ stdoutBuffer \in Seq(Output) /\ c \in Nat
          /\ n \in 0..Len(p) /\ Len(p) \in 0..Len(p)
      <4>1. p \in Seq(Output) /\ stdoutBuffer \in Seq(Output) /\ c \in Nat
        BY <1>0
      <4>2. n \in Nat /\ Len(p) \in Nat
        BY <4>1, ChildAssumption
      <4>. QED
        BY <2>1, <4>1, <4>2
    <3>5. chunk \in Seq(Output) /\ rest \in Seq(Output) /\ chunk \o rest = p
      <4>1. chunk \in Seq(Output) /\ SubSeq(p, 1, Len(p)) = p
        BY <3>4, FirstOnes
      <4>2. rest \in Seq(Output) /\ chunk \o rest = SubSeq(p, 1, Len(p))
        BY <2>1, <3>4, NextPart
      <4>. QED
        BY <4>1, <4>2
    <3>. HIDE DEF p, chunk, rest
    <3>6. text \in Seq(Output)
      BY <3>4, <3>5
    <3>7. text \o rest = stdoutBuffer \o p
      <4>. DEFINE b == stdoutBuffer
      <4>1. b \in Seq(Output) /\ chunk \in Seq(Output) /\ rest \in Seq(Output)
        BY <3>4, <3>5
      <4>. HIDE DEF b
      <4>2. (b \o chunk) \o rest = b \o (chunk \o rest)
        <5>1. Behind(Behind(b, chunk), rest) = Behind(b, Behind(chunk, rest))
          BY ONLY <4>1, Three
        <5>. QED
          BY <5>1 DEF Behind
      <4>. QED
        BY <3>5, <4>2 DEF b
    <3>. HIDE DEF text, found, new
    <3>8. /\ \A k \in 1..Len(found) : Len(found[k]) = 2 /\ \A i \in 1..2 : found[k][i].of = c
          /\ \E s \in Nat : Tailed(c, s, Remainder(text) \o rest, written[c])
      <4>1. /\ text \in Seq(Output) /\ rest \in Seq(Output) /\ c \in Nat /\ r \in Nat
            /\ Tailed(c, r, text \o rest, written[c])
        BY <3>3, <3>4, <3>5, <3>6, <3>7
      <4>. QED
        BY ONLY <4>1, TailCut DEF found
    <3>9. pipe'[c] = rest
      BY <1>0, <2>1
    <3>10. \A d \in Kids : d = spawned =>
             \E s \in Nat : Tailed(d, s, stdoutBuffer' \o pipe'[d], written[d])
      BY <2>1, <3>1, <3>8, <3>9
    <3>11. /\ found \in Seq(Seq(Output))
      BY <3>6, LinesTaken DEF found
    <3>12. /\ lines' \in Seq(Event) /\ Len(lines') = Len(lines) + Len(found)
           /\ \A i \in 1..Len(lines) : lines'[i] = lines[i]
           /\ \A i \in 1..Len(found) :
                lines'[Len(lines) + i] = [line |-> found[i], during |-> spawned]
      <4>. DEFINE more == More(lines, found, spawned)
      <4>1. lines \in Seq(Event) /\ found \in Seq(Seq(Output)) /\ spawned \in 0..MaxChildren
        BY <1>0, <3>11
      <4>2. /\ more \in Seq(Event) /\ Len(more) = Len(lines) + Len(found)
            /\ \A i \in 1..Len(lines) : more[i] = lines[i]
            /\ \A i \in 1..Len(found) :
                 more[Len(lines) + i] = [line |-> found[i], during |-> spawned]
        BY <4>1, PartsMore, ZenonT(60)
      <4>. HIDE DEF more
      <4>3. lines' = more
        BY <2>1 DEF More, more, new
      <4>. QED
        BY <4>2, <4>3
    <3>13. ASSUME NEW i \in DOMAIN lines'
           PROVE  /\ Len(lines'[i].line) = 2
                  /\ \A k \in 1..2 : lines'[i].line[k].of = lines'[i].during
      <4>0. /\ Len(lines) \in Nat /\ Len(found) \in Nat /\ DOMAIN lines = 1..Len(lines)
            /\ i \in 1..(Len(lines) + Len(found))
        BY <1>0, <3>11, <3>12
      <4>1. CASE i \in 1..Len(lines)
        <5>1. lines'[i] = lines[i] /\ i \in DOMAIN lines
          BY <3>12, <4>0, <4>1
        <5>2. Len(lines[i].line) = 2 /\ \A k \in 1..2 : lines[i].line[k].of = lines[i].during
          BY <2>2, <5>1 DEF LinesAreCurrent
        <5>. QED
          BY <5>1, <5>2
      <4>2. CASE i \notin 1..Len(lines)
        <5>. DEFINE j == i - Len(lines)
        <5>1. j \in 1..Len(found) /\ i = Len(lines) + j
          BY <4>0, <4>2
        <5>. HIDE DEF j
        <5>2. lines'[i].line = found[j] /\ lines'[i].during = spawned
          <6>1. lines'[i] = [line |-> found[j], during |-> spawned]
            BY <3>12, <5>1
          <6>. QED
            BY ONLY <6>1
        <5>. QED
          BY <3>1, <3>8, <5>1, <5>2
      <4>. QED
        BY <4>1, <4>2
    <3>14. spawned # 0
      BY <3>1 DEF Kids
    <3>. QED
      BY <3>2, <3>10, <3>13, <3>14
  <2>3. CleanInv'
    BY <2>1, <2>2 DEF CleanInv
  <2>4. LinesAreCurrent'
    BY <2>1, <2>2 DEF LinesAreCurrent
  <2>. QED
    BY <2>3, <2>4
<1>9. CASE UNCHANGED childVars
  BY <1>1, <1>9 DEF childVars
<1>. QED
  BY <1>2, <1>3, <1>4, <1>5, <1>6, <1>7, <1>8, <1>9 DEF ChildNext

LEMMA SoundStep == SoundChild /\ [ChildNext]_childVars => SoundChild'
<1>. SUFFICES ASSUME SoundChild, [ChildNext]_childVars PROVE SoundChild'
  OBVIOUS
<1>1. ChildInv'
  BY ChildInvKept DEF SoundChild
<1>2. NamedInv' /\ OutputInv'
  BY NamedKept, OutputKept DEF SoundChild
<1>3. CleanInv' /\ LinesAreCurrent'
  BY CleanKept
<1>. QED
  BY <1>1, <1>2, <1>3 DEF SoundChild

LEMMA SoundGives == SoundChild => BackendSound
<1>. SUFFICES ASSUME SoundChild PROVE BackendSound
  OBVIOUS
<1>. USE DEF SoundChild
<1>1. kid \in Kids \cup {NoKid} /\ spawned \in 0..MaxChildren
  BY ChildAssumption DEF ChildInv, SpawnedInv, Kids, NoKid
<1>2. ChildTypeOK
  BY <1>1 DEF NamedInv, OutputInv, ChildTypeOK
<1>3. OneBackend
  BY DEF ChildInv
<1>. QED
  BY <1>2, <1>3 DEF BackendSound

(* What the backends write is neither lost, doubled nor moved on its way    *)
(* through pipe, buffer and events, one of them works at a time, and as     *)
(* long as each start found the earlier output read, only whole lines of    *)
(* the current one are emitted (handleStdout, start, stop, the exit         *)
(* handler).                                                                *)
THEOREM BackendStaysSound == ChildSpec => []BackendSound
  BY SoundBegins, SoundStep, SoundGives, PTL DEF ChildSpec

-----------------------------------------------------------------------------
(* Retrieval, for any files, contents, services that fail and processes     *)
(* that end: vectors are those of their records, and an answer, new or from *)
(* the cache, is of the files as they are.                                  *)

-----------------------------------------------------------------------------
(* What the indexes are made of.                                            *)

Trees == [CodeFiles -> Codes \cup {NoFile}]

FilesInv ==
  /\ tree \in Trees /\ indexed \in Trees
  /\ unseen \subseteq CodeFiles
  /\ \A f \in CodeFiles \ unseen : indexed[f] = tree[f]
  /\ edits \in 0..MaxEdits

VectorsInv ==
  /\ DOMAIN chunks \subseteq AllIds /\ DOMAIN vectors \subseteq AllIds
  /\ \A id \in DOMAIN vectors : vectors[id] \in embedded
  /\ embedded \subseteq Codes
  /\ VectorTrue

(* The definitions there are in the files of an answer, and what an answer  *)
(* made with a current index says of them.                                  *)
PresentIn(files) == {f \in CodeFiles : files[f] # NoFile}
DefinedIn(files) ==
  {<<f, SymbolAt(files[f])>> : f \in {g \in PresentIn(files) : SymbolAt(files[g]) # 0}}

AllFound(hits, defined) ==
  /\ Cardinality(defined) <= HitLimit => hits \cap defined = defined
  /\ Cardinality(defined) > HitLimit => hits \cap defined = hits
  /\ \A hit \in hits, at \in defined : hit[1] = at[1] => hit = at

AnswerTrue(a) ==
  /\ FilesOf(a.hits) \subseteq PresentIn(a.tree)
  /\ a.intent = "definition" /\ a.current => AllFound(a.hits, DefinedIn(a.tree))

AnswersInv ==
  /\ \A a \in answers : AnswerTrue(a)
  /\ \A a, other \in answers : a.intent = other.intent /\ a.tree = other.tree => a = other

(* The answer shown is one of the cache, for what was asked and for the     *)
(* files as they are.                                                       *)
ShownInv ==
  answer # NoAnswer =>
    /\ answer.given \in answers
    /\ answer.given.intent = answer.asked /\ answer.given.tree = tree

RetrievalInv == FilesInv /\ VectorsInv /\ AnswersInv /\ ShownInv

-----------------------------------------------------------------------------
(* A symbol's line is a number, and a file that is not there has no chunk.  *)
LEMMA SymbolLine ==
  ASSUME NEW code \in Codes \cup {NoFile}
  PROVE  SymbolAt(code) \in Nat
<1>1. CASE code \in Codes
  BY <1>1, RetrievalAssumption DEF SymbolAt
<1>2. CASE code = NoFile
  BY <1>2 DEF NoFile, SymbolAt
<1>. QED
  BY <1>1, <1>2

LEMMA ChunkTypes ==
  ASSUME tree \in Trees, indexed \in Trees
  PROVE  /\ DOMAIN Chunked \subseteq AllIds
         /\ \A id \in DOMAIN Chunked : id[1] \in Present /\ Chunked[id] \in Codes
<1>1. ASSUME NEW f \in Present
      PROVE  /\ ChunkId(f) \in AllIds /\ ChunkId(f)[1] = f
             /\ tree[f] \in Codes
  <2>1. f \in CodeFiles /\ tree[f] # NoFile /\ indexed[f] \in Codes \cup {NoFile}
    BY DEF Present, Trees
  <2>2. SymbolAt(indexed[f]) \in Nat
    BY <2>1, SymbolLine
  <2>. QED
    BY <2>1, <2>2 DEF ChunkId, AllIds, Trees
<1>2. DOMAIN Chunked = {ChunkId(f) : f \in Present}
  BY DEF Chunked
<1>3. ASSUME NEW id \in DOMAIN Chunked
      PROVE  Chunked[id] = tree[id[1]] /\ \E f \in Present : id = ChunkId(f)
  BY <1>2, <1>3 DEF Chunked
<1>. QED
  BY <1>1, <1>2, <1>3

(* A refresh keeps the vectors true, whatever of it was done.               *)
LEMMA RefreshKeeps ==
  ASSUME VectorsInv, tree \in Trees, indexed \in Trees,
         NEW done \in SUBSET Pending, RefreshVectors(done)
  PROVE  VectorsInv'
<1>. DEFINE kept == DOMAIN vectors \ (DOMAIN chunks \ DOMAIN Chunked)
<1>1. /\ chunks' = Chunked
      /\ DOMAIN vectors' = kept \cup done
      /\ \A id \in kept \cup done :
           vectors'[id] = IF id \in done THEN Chunked[id] ELSE vectors[id]
  BY DEF RefreshVectors, Vectors
<1>2. done \subseteq DOMAIN Chunked
  BY DEF Pending
<1>3. /\ embedded' = embedded \cup {Chunked[id] : id \in done}
      /\ doubtful' = ((doubtful \cup (Pending \cap DOMAIN vectors)) \ done) \cap DOMAIN Chunked
  BY DEF RefreshVectors
<1>4. DOMAIN chunks' \subseteq AllIds /\ DOMAIN vectors' \subseteq AllIds
  BY <1>1, <1>2, ChunkTypes DEF VectorsInv
<1>5. embedded' \subseteq Codes
  BY <1>2, <1>3, ChunkTypes DEF VectorsInv
<1>6. ASSUME NEW id \in DOMAIN vectors' PROVE vectors'[id] \in embedded'
  BY <1>1, <1>3 DEF VectorsInv
<1>7. ASSUME NEW id \in DOMAIN vectors', id \in DOMAIN chunks', id \notin doubtful'
      PROVE  vectors'[id] = chunks'[id]
  <2>1. CASE id \in done
    BY <1>1, <2>1
  <2>2. CASE id \notin done
    <3>1. id \in DOMAIN vectors /\ id \in DOMAIN Chunked /\ id \notin doubtful /\ id \notin Pending
      BY <1>1, <1>3, <1>7, <2>2
    <3>2. id \in DOMAIN chunks /\ chunks[id] = Chunked[id]
      BY <3>1 DEF Pending
    <3>3. vectors[id] = chunks[id]
      BY <3>1, <3>2 DEF VectorsInv, VectorTrue
    <3>. QED
      BY <1>1, <3>2, <3>3, <2>2
  <2>. QED
    BY <2>1, <2>2
<1>. QED
  BY <1>4, <1>5, <1>6, <1>7 DEF VectorsInv, VectorTrue

(* So does a refresh that ends when only the records are written.           *)
LEMMA RecordsKeep ==
  ASSUME VectorsInv, tree \in Trees, indexed \in Trees,
         NEW first \in SUBSET Pending,
         chunks' = Chunked, vectors' = vectors,
         embedded' = embedded \cup {Chunked[id] : id \in first},
         doubtful' = (doubtful \cup (Pending \cap DOMAIN vectors)) \cap DOMAIN Chunked
  PROVE  VectorsInv'
<1>1. first \subseteq DOMAIN Chunked
  BY DEF Pending
<1>2. DOMAIN chunks' \subseteq AllIds /\ DOMAIN vectors' \subseteq AllIds
  BY ChunkTypes DEF VectorsInv
<1>3. embedded' \subseteq Codes /\ embedded \subseteq embedded'
  BY <1>1, ChunkTypes DEF VectorsInv
<1>4. ASSUME NEW id \in DOMAIN vectors', id \in DOMAIN chunks', id \notin doubtful'
      PROVE  vectors'[id] = chunks'[id]
  <2>1. id \in DOMAIN vectors /\ id \in DOMAIN Chunked /\ id \notin doubtful /\ id \notin Pending
    BY <1>4
  <2>2. id \in DOMAIN chunks /\ chunks[id] = Chunked[id]
    BY <2>1 DEF Pending
  <2>. QED
    BY <2>1, <2>2 DEF VectorsInv, VectorTrue
<1>. QED
  BY <1>2, <1>3, <1>4 DEF VectorsInv, VectorTrue

-----------------------------------------------------------------------------
(* What the limit leaves.                                                   *)

(* A list with one hit to a file has as many hits as files.                 *)
LEMMA OneToAFile ==
  ASSUME NEW exact, IsFiniteSet(FilesOf(exact)),
         \A hit, at \in exact : hit[1] = at[1] => hit = at
  PROVE  IsFiniteSet(exact) /\ Cardinality(exact) = Cardinality(FilesOf(exact))
<1>. DEFINE hitOf == [f \in FilesOf(exact) |-> CHOOSE hit \in exact : hit[1] = f]
            fileOf == [hit \in exact |-> hit[1]]
<1>1. ASSUME NEW hit \in exact
      PROVE  hit[1] \in FilesOf(exact) /\ hitOf[hit[1]] = hit
  <2>1. hit[1] \in FilesOf(exact)
    BY DEF FilesOf
  <2>2. \E at \in exact : at[1] = hit[1]
    OBVIOUS
  <2>. QED
    BY <2>1, <2>2
<1>2. \A f \in FilesOf(exact) : hitOf[f] \in exact
  BY DEF FilesOf
<1>3. hitOf \in Surjection(FilesOf(exact), exact)
  BY <1>1, <1>2 DEF Surjection
<1>4. IsFiniteSet(exact) /\ Cardinality(exact) <= Cardinality(FilesOf(exact))
  BY <1>3, FS_Surjection
<1>5. fileOf \in Surjection(exact, FilesOf(exact))
  BY <1>1 DEF Surjection, FilesOf
<1>6. Cardinality(FilesOf(exact)) <= Cardinality(exact)
  BY <1>4, <1>5, FS_Surjection
<1>7. Cardinality(exact) \in Nat /\ Cardinality(FilesOf(exact)) \in Nat
  BY <1>4, FS_CardinalityType
<1>. QED
  BY <1>4, <1>6, <1>7

LEMMA LeastOfTwo ==
  ASSUME NEW m \in Nat, NEW n \in Nat
  PROVE  Min({m, n}) = IF m <= n THEN m ELSE n
<1>. DEFINE least == IF m <= n THEN m ELSE n
<1>1. least \in {m, n} /\ \A y \in {m, n} : least <= y
  OBVIOUS
<1>2. \A x \in {m, n} : (\A y \in {m, n} : x <= y) => x = least
  OBVIOUS
<1>. QED
  BY <1>1, <1>2 DEF Min

(* The cut: what is shown is of files that are there, and has all exact     *)
(* hits, or nothing else if there are more of them than fit.                *)
LEMMA CutTrue ==
  ASSUME NEW exact, NEW found, NEW hits \in Cut(exact, found),
         FilesOf(exact) \subseteq Present, FilesOf(found) \subseteq Present,
         \A hit, at \in exact : hit[1] = at[1] => hit = at
  PROVE  FilesOf(hits) \subseteq Present /\ AllFound(hits, exact)
<1>. DEFINE all == Hits(exact, found)
            size == Min({HitLimit, Cardinality(FilesOf(all))})
<1>1. PICK S \in Foremost(exact, FilesOf(all), size) : hits = {hit \in all : hit[1] \in S}
  BY DEF Cut
<1>2. /\ S \subseteq FilesOf(all) /\ Cardinality(S) = size
      /\ S \subseteq FilesOf(exact) \/ FilesOf(exact) \subseteq S
  BY <1>1 DEF Foremost
<1>3. /\ all \subseteq exact \cup found /\ exact \subseteq all
      /\ \A hit \in all : hit[1] \in FilesOf(exact) => hit \in exact
  BY DEF Hits
<1>4. /\ FilesOf(all) \subseteq Present /\ FilesOf(exact) \subseteq FilesOf(all)
      /\ FilesOf(hits) \subseteq FilesOf(all)
  BY <1>1, <1>3 DEF FilesOf
<1>5. /\ IsFiniteSet(FilesOf(all)) /\ IsFiniteSet(FilesOf(exact)) /\ IsFiniteSet(S)
  <2>1. IsFiniteSet(Present)
    BY FS_Subset, RetrievalAssumption DEF Present
  <2>2. IsFiniteSet(FilesOf(all))
    BY <1>4, <2>1, FS_Subset
  <2>. QED
    BY <1>2, <1>4, <2>2, FS_Subset
<1>6. /\ Cardinality(S) \in Nat /\ Cardinality(FilesOf(all)) \in Nat
      /\ Cardinality(FilesOf(exact)) \in Nat
      /\ Cardinality(FilesOf(exact)) <= Cardinality(FilesOf(all))
  BY <1>4, <1>5, FS_CardinalityType, FS_Subset
<1>7. IsFiniteSet(exact) /\ Cardinality(exact) = Cardinality(FilesOf(exact))
  BY <1>5, OneToAFile
<1>8. /\ size <= HitLimit
      /\ size = HitLimit \/ size = Cardinality(FilesOf(all))
  BY <1>6, LeastOfTwo, RetrievalAssumption
<1>9. ASSUME Cardinality(exact) <= HitLimit PROVE hits \cap exact = exact
  <2>1. FilesOf(exact) \subseteq S
    <3>1. Cardinality(FilesOf(exact)) <= Cardinality(S)
      BY <1>2, <1>6, <1>7, <1>8, <1>9
    <3>2. CASE S \subseteq FilesOf(exact)
      <4>1. Cardinality(S) <= Cardinality(FilesOf(exact))
        BY <1>5, <3>2, FS_Subset
      <4>2. S = FilesOf(exact)
        BY <1>5, <1>6, <3>1, <3>2, <4>1, FS_Subset
      <4>. QED
        BY <4>2
    <3>. QED
      BY <1>2, <3>2
  <2>2. \A hit \in exact : hit[1] \in S
    BY <2>1 DEF FilesOf
  <2>. QED
    BY <1>1, <1>3, <2>2
<1>10. ASSUME Cardinality(exact) > HitLimit PROVE hits \cap exact = hits
  <2>1. S \subseteq FilesOf(exact)
    <3>1. CASE FilesOf(exact) \subseteq S
      <4>1. Cardinality(FilesOf(exact)) <= Cardinality(S)
        BY <1>5, <3>1, FS_Subset
      <4>. QED
        BY <1>2, <1>6, <1>7, <1>8, <1>10, <4>1, RetrievalAssumption
    <3>. QED
      BY <1>2, <3>1
  <2>. QED
    BY <1>1, <1>3, <2>1
<1>11. ASSUME NEW hit \in hits, NEW at \in exact, hit[1] = at[1] PROVE hit = at
  BY <1>1, <1>3, <1>11 DEF FilesOf
<1>. QED
  BY <1>4, <1>9, <1>10, <1>11 DEF AllFound

(* An answer that is given is true, and the only one to its key.            *)
LEMMA GivenTrue ==
  ASSUME FilesInv, AnswersInv, tree' = tree,
         NEW intent \in Intents, CachedAnswers(intent) = {},
         NEW found, FilesOf(found) \subseteq Present,
         GiveAnswer(intent, ExactHits(intent), found)
  PROVE  AnswersInv' /\ ShownInv'
<1>1. PICK hits \in Cut(ExactHits(intent), found) :
        LET made == [intent |-> intent, tree |-> tree, hits |-> hits, current |-> unseen = {}]
        IN answers' = answers \cup {made} /\ answer' = [asked |-> intent, given |-> made]
  BY DEF GiveAnswer
<1>. DEFINE made == [intent |-> intent, tree |-> tree, hits |-> hits, current |-> unseen = {}]
<1>2. FilesOf(ExactHits(intent)) \subseteq Present
  BY DEF ExactHits, FilesOf, Symbols
<1>3. \A hit, at \in ExactHits(intent) : hit[1] = at[1] => hit = at
  BY DEF ExactHits, Symbols
<1>4. FilesOf(hits) \subseteq Present /\ AllFound(hits, ExactHits(intent))
  BY <1>1, <1>2, <1>3, CutTrue
<1>5. PresentIn(tree) = Present
  BY DEF PresentIn, Present
<1>6. ASSUME intent = "definition", unseen = {} PROVE ExactHits(intent) = DefinedIn(tree)
  <2>1. \A f \in Present : indexed[f] = tree[f]
    BY <1>6 DEF FilesInv, Present
  <2>. QED
    BY <1>5, <1>6, <2>1 DEF ExactHits, Symbols, DefinedIn
<1>7. AnswerTrue(made)
  <2>1. made.hits = hits /\ made.tree = tree /\ made.intent = intent /\ made.current = (unseen = {})
    OBVIOUS
  <2>2. FilesOf(made.hits) \subseteq PresentIn(made.tree)
    BY <1>4, <1>5, <2>1
  <2>3. made.intent = "definition" /\ made.current => AllFound(made.hits, DefinedIn(made.tree))
    BY <1>4, <1>6, <2>1
  <2>. QED
    BY <2>2, <2>3 DEF AnswerTrue
<1>8. \A a \in answers : ~(a.intent = made.intent /\ a.tree = made.tree)
  BY DEF CachedAnswers, SameKey
<1>9. answers' = answers \cup {made} /\ answer' = [asked |-> intent, given |-> made]
  BY <1>1
<1>10. AnswersInv'
  <2>1. \A a \in answers' : AnswerTrue(a)
    BY <1>7, <1>9 DEF AnswersInv
  <2>2. \A a, other \in answers' : a.intent = other.intent /\ a.tree = other.tree => a = other
    BY <1>8, <1>9 DEF AnswersInv
  <2>. QED
    BY <2>1, <2>2 DEF AnswersInv
<1>11. ShownInv'
  BY <1>9 DEF ShownInv
<1>. QED
  BY <1>10, <1>11

(* Whatever is found is in files that are there.                            *)
LEMMA FoundPresent ==
  ASSUME tree \in Trees, indexed \in Trees, NEW intent \in Intents
  PROVE  /\ FilesOf(Found(intent)) \subseteq Present
         /\ \A done : FilesOf(Found(intent) \cup NearHits(done)) \subseteq Present
<1>1. /\ FilesOf(Lexical) \subseteq Present /\ FilesOf(Symbols) \subseteq Present
      /\ FilesOf(References) \subseteq Present
  BY DEF FilesOf, Lexical, Symbols, References
<1>2. FilesOf(Structural(intent)) \subseteq Present
  <2>1. Structural(intent) \in {Symbols, References, {}}
    BY DEF Structural, Intents
  <2>. QED
    BY <1>1, <2>1 DEF FilesOf
<1>3. FilesOf(Found(intent)) \subseteq Present
  BY <1>1, <1>2 DEF FilesOf, Found
<1>4. ASSUME NEW done PROVE FilesOf(NearHits(done)) \subseteq Present
  BY ChunkTypes DEF FilesOf, NearHits
<1>. QED
  BY <1>3, <1>4 DEF FilesOf

-----------------------------------------------------------------------------

LEMMA Beginning == RetrievalInit => RetrievalInv
<1>. SUFFICES ASSUME RetrievalInit PROVE RetrievalInv
  OBVIOUS
<1>. USE DEF RetrievalInit
<1>1. FilesInv
  BY RetrievalAssumption DEF FilesInv, Trees
<1>2. VectorsInv
  BY DEF VectorsInv, VectorTrue
<1>3. AnswersInv /\ ShownInv
  BY DEF AnswersInv, ShownInv
<1>. QED
  BY <1>1, <1>2, <1>3 DEF RetrievalInv

(* What an agent does when it starts, beside the vectors.                   *)
LEMMA RestartKeeps ==
  ASSUME FilesInv, AnswersInv, tree' = tree, indexed' = Reindexed(CodeFiles),
         unseen' = {}, answer' = NoAnswer, UNCHANGED <<answers, edits>>
  PROVE  FilesInv' /\ AnswersInv' /\ ShownInv'
<1>1. indexed' = [f \in CodeFiles |-> tree[f]]
  BY DEF Reindexed
<1>2. FilesInv'
  BY <1>1 DEF FilesInv, Trees
<1>3. AnswersInv' /\ ShownInv'
  BY DEF AnswersInv, ShownInv
<1>. QED
  BY <1>2, <1>3

LEMMA Keeping == RetrievalInv /\ [RetrievalNext]_retrievalVars => RetrievalInv'
<1>. SUFFICES ASSUME RetrievalInv, [RetrievalNext]_retrievalVars PROVE RetrievalInv'
  OBVIOUS
<1>. USE DEF RetrievalInv
<1>t. tree \in Trees /\ indexed \in Trees
  BY DEF FilesInv
<1>0. CASE UNCHANGED retrievalVars
  BY <1>0 DEF retrievalVars, FilesInv, VectorsInv, VectorTrue, AnswersInv, ShownInv
<1>c. ASSUME NEW f \in CodeFiles, NEW code \in Codes \cup {NoFile}, Change(f, code)
      PROVE  /\ tree' \in Trees /\ edits' \in 0..MaxEdits
             /\ \A g \in CodeFiles : tree'[g] = IF g = f THEN code ELSE tree[g]
             /\ VectorsInv' /\ AnswersInv' /\ ShownInv'
  <2>1. tree' \in Trees /\ \A g \in CodeFiles : tree'[g] = IF g = f THEN code ELSE tree[g]
    BY <1>t, <1>c DEF Change, Trees
  <2>2. edits' \in 0..MaxEdits
    BY <1>c, RetrievalAssumption DEF Change, FilesInv
  <2>3. VectorsInv'
    BY <1>c DEF Change, VectorsInv, VectorTrue
  <2>4. AnswersInv' /\ ShownInv'
    BY <1>c DEF Change, AnswersInv, ShownInv
  <2>. QED
    BY <2>1, <2>2, <2>3, <2>4
<1>1. ASSUME NEW f \in CodeFiles, NEW code \in Codes \cup {NoFile}, EditByTool(f, code)
      PROVE  RetrievalInv'
  <2>1. Change(f, code) /\ indexed' = Reindexed({f}) /\ unseen' = unseen \ {f}
    BY <1>1 DEF EditByTool
  <2>2. indexed' \in Trees /\ \A g \in CodeFiles : indexed'[g] = IF g = f THEN tree'[g] ELSE indexed[g]
    BY <1>c, <1>t, <2>1 DEF Reindexed, Trees
  <2>3. FilesInv'
    BY <1>c, <2>1, <2>2 DEF FilesInv
  <2>. QED
    BY <1>c, <2>1, <2>3
<1>2. ASSUME NEW f \in CodeFiles, NEW code \in Codes \cup {NoFile}, EditUnseen(f, code)
      PROVE  RetrievalInv'
  <2>1. Change(f, code) /\ indexed' = indexed /\ unseen' = unseen \cup {f}
    BY <1>2 DEF EditUnseen
  <2>2. FilesInv'
    BY <1>c, <2>1 DEF FilesInv
  <2>. QED
    BY <1>c, <2>1, <2>2
<1>3. ASSUME NEW intent \in Intents, AnswerFromCache(intent) PROVE RetrievalInv'
  <2>1. FilesInv' /\ VectorsInv' /\ AnswersInv'
    BY <1>3 DEF AnswerFromCache, FilesInv, VectorsInv, VectorTrue, AnswersInv
  <2>2. PICK a \in CachedAnswers(intent) : answer' = [asked |-> intent, given |-> a]
    BY <1>3 DEF AnswerFromCache
  <2>3. ShownInv'
    BY <1>3, <2>2 DEF AnswerFromCache, CachedAnswers, SameKey, ShownInv
  <2>. QED
    BY <2>1, <2>3
<1>4. ASSUME NEW intent \in Intents, AnswerByStructure(intent) PROVE RetrievalInv'
  <2>1. FilesInv' /\ VectorsInv'
    BY <1>4 DEF AnswerByStructure, FilesInv, VectorsInv, VectorTrue
  <2>2. AnswersInv' /\ ShownInv'
    BY <1>4, <1>t, FoundPresent, GivenTrue DEF AnswerByStructure
  <2>. QED
    BY <2>1, <2>2
<1>d. ASSUME NEW failing \in SUBSET Pending PROVE Done(failing) \in SUBSET Pending
  BY DEF Done
<1>5. ASSUME NEW intent \in Intents, NEW failing \in SUBSET Pending, AnswerBySearch(intent, failing)
      PROVE  RetrievalInv'
  <2>1. FilesInv'
    BY <1>5 DEF AnswerBySearch, FilesInv
  <2>2. VectorsInv'
    BY <1>5, <1>d, <1>t, RefreshKeeps DEF AnswerBySearch
  <2>3. AnswersInv' /\ ShownInv'
    BY <1>5, <1>t, FoundPresent, GivenTrue DEF AnswerBySearch
  <2>. QED
    BY <2>1, <2>2, <2>3
<1>6. ASSUME NEW intent \in Intents, NEW failing \in SUBSET Pending, AnswerWithoutQuery(intent, failing)
      PROVE  RetrievalInv'
  <2>1. FilesInv'
    BY <1>6 DEF AnswerWithoutQuery, FilesInv
  <2>2. VectorsInv'
    BY <1>6, <1>d, <1>t, RefreshKeeps DEF AnswerWithoutQuery
  <2>3. AnswersInv' /\ ShownInv'
    BY <1>6, <1>t, FoundPresent, GivenTrue DEF AnswerWithoutQuery
  <2>. QED
    BY <2>1, <2>2, <2>3
<1>7. CASE Restart
  <2>1. FilesInv' /\ AnswersInv' /\ ShownInv'
    BY <1>7, RestartKeeps DEF Restart
  <2>2. VectorsInv'
    BY <1>7 DEF Restart, VectorsInv, VectorTrue
  <2>. QED
    BY <2>1, <2>2
<1>8. ASSUME NEW done \in SUBSET Pending, RestartInRefresh(done) PROVE RetrievalInv'
  <2>1. FilesInv' /\ AnswersInv' /\ ShownInv'
    BY <1>8, RestartKeeps DEF RestartInRefresh
  <2>2. VectorsInv'
    BY <1>8, <1>t, RefreshKeeps DEF RestartInRefresh
  <2>. QED
    BY <2>1, <2>2
<1>9. ASSUME NEW first \in {{}} \cup {{id} : id \in Pending}, RestartBetweenWrites(first)
      PROVE  RetrievalInv'
  <2>1. FilesInv' /\ AnswersInv' /\ ShownInv'
    BY <1>9, RestartKeeps DEF RestartBetweenWrites
  <2>2. first \in SUBSET Pending
    OBVIOUS
  <2>3. VectorsInv'
    BY <1>9, <1>t, <2>2, RecordsKeep DEF RestartBetweenWrites
  <2>. QED
    BY <2>1, <2>3
<1>. QED
  BY <1>0, <1>1, <1>2, <1>3, <1>4, <1>5, <1>6, <1>7, <1>8, <1>9 DEF RetrievalNext

(* The invariant says what the run checks.                                  *)
LEMMA Implied == RetrievalInv => RetrievalTrue
<1>. SUFFICES ASSUME RetrievalInv PROVE RetrievalTrue
  OBVIOUS
<1>. USE DEF RetrievalInv
<1>1. RetrievalTypeOK
  BY DEF RetrievalTypeOK, FilesInv, Trees, VectorsInv, AnswersInv
<1>2. VectorTrue
  BY DEF VectorsInv
<1>3. PresentIn(tree) = Present
  BY DEF PresentIn, Present
<1>4. ASSUME answer # NoAnswer
      PROVE  /\ answer.given.intent = answer.asked /\ answer.given.tree = tree
             /\ AnswerTrue(answer.given)
  BY <1>4 DEF ShownInv, AnswersInv
<1>5. HitsTrue
  BY <1>3, <1>4 DEF HitsTrue, AnswerTrue
<1>6. ASSUME answer # NoAnswer, answer.asked = "definition", answer.given.current
      PROVE  AllFound(answer.given.hits,
                      {<<f, SymbolAt(tree[f])>> : f \in {g \in Present : SymbolAt(tree[g]) # 0}})
  BY <1>3, <1>4, <1>6 DEF AnswerTrue, DefinedIn
<1>7. DefinitionsFound
  BY <1>6 DEF DefinitionsFound, AllFound
<1>. QED
  BY <1>1, <1>2, <1>5, <1>7 DEF RetrievalTrue

(* For any files and contents, any changes by tools and by others, failures *)
(* of the embedding service and ends of the process: vectors are those of   *)
(* their records, what an answer shows is in the files as they are, and a   *)
(* definition the index knows is found, also from the cache                 *)
(* (retrieval.search, vector_index.refresh).                                *)
THEOREM RetrievedTrue == RetrievalSpec => []RetrievalTrue
<1>1. RetrievalSpec => []RetrievalInv
  BY Beginning, Keeping, PTL DEF RetrievalSpec
<1>. QED
  BY <1>1, Implied, PTL

-----------------------------------------------------------------------------

(* The run queue, for any runs and workers and any number of deliveries,    *)
(* crashes and reclaims: an accepted run is not lost, a run that is said to *)
(* be completed was executed to the end, and a run starts again only when   *)
(* its entry was reclaimed.                                                 *)

USE BoundAssumption, NoneAssumption

(* Adding an entry to the stream: it waits, and what waited still does.     *)
LEMMA AppendWaits ==
  ASSUME stream \in Seq(Runs), NEW r \in Runs, stream' = Append(stream, r)
  PROVE  /\ stream' \in Seq(Runs)
         /\ \A s \in Runs : Waiting(s)' <=> Waiting(s) \/ s = r
         /\ IsInjective(stream) /\ ~Waiting(r) => IsInjective(stream')
<1>1. /\ stream' \in Seq(Runs)
      /\ Len(stream') = Len(stream) + 1
      /\ stream'[Len(stream) + 1] = r
      /\ \A n \in 1..Len(stream) : stream'[n] = stream[n]
  OBVIOUS
<1>2. ASSUME NEW s \in Runs PROVE Waiting(s)' <=> Waiting(s) \/ s = r
  BY <1>1 DEF Waiting
<1>3. ASSUME IsInjective(stream), ~Waiting(r) PROVE IsInjective(stream')
  BY <1>1, <1>3 DEF IsInjective, Waiting
<1>. QED
  BY <1>1, <1>2, <1>3

(* Taking the first entry off the stream: only its run stops to wait.       *)
LEMMA TailWaits ==
  ASSUME stream \in Seq(Runs), stream # <<>>, IsInjective(stream), stream' = Tail(stream)
  PROVE  /\ stream' \in Seq(Runs) /\ IsInjective(stream')
         /\ Head(stream) \in Runs /\ Waiting(Head(stream))
         /\ \A s \in Runs : Waiting(s)' <=> Waiting(s) /\ s # Head(stream)
<1>1. /\ stream' \in Seq(Runs)
      /\ Len(stream) \in Nat /\ Len(stream) > 0 /\ Len(stream') = Len(stream) - 1
      /\ \A n \in 1..Len(stream') : stream'[n] = stream[n + 1]
      /\ Head(stream) = stream[1] /\ Head(stream) \in Runs
  OBVIOUS
<1>2. \A m, n \in 1..Len(stream) : stream[m] = stream[n] => m = n
  BY DEF IsInjective
<1>3. IsInjective(stream')
  BY <1>1, <1>2 DEF IsInjective
<1>4. Waiting(Head(stream))
  BY <1>1 DEF Waiting
<1>5. ASSUME NEW s \in Runs PROVE Waiting(s)' <=> Waiting(s) /\ s # Head(stream)
  <2>1. ASSUME NEW n \in 1..Len(stream'), stream'[n] = s
        PROVE  Waiting(s) /\ s # Head(stream)
    <3>1. n + 1 \in 1..Len(stream) /\ stream[n + 1] = s /\ 1 \in 1..Len(stream) /\ n + 1 # 1
      BY <1>1, <2>1
    <3>. QED
      BY <1>1, <1>2, <3>1 DEF Waiting
  <2>2. ASSUME NEW n \in 1..Len(stream), stream[n] = s, s # Head(stream)
        PROVE  Waiting(s)'
    <3>1. n - 1 \in 1..Len(stream') /\ stream'[n - 1] = s
      BY <1>1, <2>2
    <3>. QED
      BY <3>1 DEF Waiting
  <2>. QED
    BY <2>1, <2>2 DEF Waiting
<1>. QED
  BY <1>1, <1>3, <1>4, <1>5

-----------------------------------------------------------------------------

(* The types are inductive together with what keeps entries unique and      *)
(* reclaims bounded.                                                        *)
TypeInv == TypeOK /\ UndeliveredIsNew /\ ReclaimsStarted

(* The queue starts empty.                                                  *)
LEMMA TypeInit == Init => TypeInv
BY DEF Init, TypeInv, TypeOK, UndeliveredIsNew, ReclaimsStarted, Waiting, IsInjective

(* A delivery keeps the types of what it writes.                            *)
LEMMA DeliverTypes ==
  ASSUME TypeOK, NEW c \in Consumers, NEW r \in Runs, starts[r] < MaxStarts, Deliver(c, r)
  PROVE  /\ owner' \in [Runs -> Consumers \cup {NoConsumer}]
         /\ inflight' \in [Consumers -> SUBSET Runs]
         /\ starts' \in [Runs -> 0..MaxStarts]
         /\ job' \in [Consumers -> Runs \cup {NoRun}]
         /\ stage' \in [Consumers -> {"idle", "executing", "completing", "acknowledged",
                                      "failing"}]
         /\ \A d \in Consumers : stage'[d] = "idle" <=> job'[d] = NoRun
<1>1. owner' \in [Runs -> Consumers \cup {NoConsumer}]
  BY DEF TypeOK, Deliver
<1>2. inflight' \in [Consumers -> SUBSET Runs]
  BY DEF TypeOK, Deliver
<1>3. starts' \in [Runs -> 0..MaxStarts]
  BY DEF TypeOK, Deliver
<1>4. /\ job' \in [Consumers -> Runs \cup {NoRun}]
      /\ stage' \in [Consumers -> {"idle", "executing", "completing", "acknowledged",
                                   "failing"}]
      /\ \A d \in Consumers : stage'[d] = "idle" <=> job'[d] = NoRun
  BY DEF TypeOK, Deliver
<1>. QED
  BY <1>1, <1>2, <1>3, <1>4

(* Every step keeps the types.                                              *)
LEMMA TypeNext == TypeInv /\ [Next]_vars => TypeOK'
<1>. SUFFICES ASSUME TypeInv, [Next]_vars PROVE TypeOK'
  OBVIOUS
<1>. USE DEF TypeInv, TypeOK, redisVars, historyVars, workVars
<1>1. ASSUME NEW r \in Runs, SetKey(r) PROVE TypeOK'
  BY <1>1 DEF SetKey
<1>2. ASSUME NEW r \in Runs, AddEntry(r) PROVE TypeOK'
  <2>1. ~Waiting(r)
    BY <1>2 DEF AddEntry, UndeliveredIsNew
  <2>2. stream' \in Seq(Runs) /\ IsInjective(stream')
    BY <1>2, <2>1, AppendWaits DEF AddEntry
  <2>. QED
    BY <1>2, <2>2 DEF AddEntry
<1>3. ASSUME NEW r \in Runs, LeaveKey(r) PROVE TypeOK'
  BY <1>3 DEF LeaveKey
<1>4. ASSUME NEW c \in Consumers, Dequeue(c) PROVE TypeOK'
  <2>1. stream' \in Seq(Runs) /\ IsInjective(stream') /\ Head(stream) \in Runs
    BY <1>4, TailWaits DEF Dequeue
  <2>2. deliveries' \in [Consumers -> [Runs -> 0..(MaxDeliveries + 1)]]
    BY <1>4, <2>1, SMTT(20) DEF Dequeue, CountDelivery
  <2>3. CASE dead' = dead \cup {Head(stream)} /\ UNCHANGED <<owner, inflight, job, stage, starts>>
    BY <1>4, <2>1, <2>2, <2>3 DEF Dequeue
  <2>4. CASE starts[Head(stream)] < MaxStarts /\ Deliver(c, Head(stream)) /\ UNCHANGED dead
    <3>1. UNCHANGED <<key, adding, dead, accepted, reclaims, ended, crashes>>
      BY <1>4, <2>4 DEF Dequeue
    <3>. HIDE DEF TypeOK
    <3>2. /\ owner' \in [Runs -> Consumers \cup {NoConsumer}]
          /\ inflight' \in [Consumers -> SUBSET Runs]
          /\ starts' \in [Runs -> 0..MaxStarts]
          /\ job' \in [Consumers -> Runs \cup {NoRun}]
          /\ stage' \in [Consumers -> {"idle", "executing", "completing", "acknowledged",
                                       "failing"}]
          /\ \A d \in Consumers : stage'[d] = "idle" <=> job'[d] = NoRun
      BY <2>1, <2>4, DeliverTypes
    <3>. QED
      BY <2>1, <2>2, <3>1, <3>2 DEF TypeOK
  <2>. QED
    BY <1>4, <2>3, <2>4 DEF Dequeue
<1>5. ASSUME NEW c \in Consumers, NEW r \in Runs, Reclaim(c, r) PROVE TypeOK'
  <2>1. deliveries' \in [Consumers -> [Runs -> 0..(MaxDeliveries + 1)]]
    BY <1>5 DEF Reclaim, CountDelivery
  <2>2. starts[r] < MaxStarts /\ Deliver(c, r)
    BY <1>5 DEF Reclaim
  <2>3. reclaims' \in [Runs -> 0..MaxStarts]
    BY <1>5 DEF Reclaim, ReclaimsStarted
  <2>4. UNCHANGED <<key, adding, stream, dead, accepted, ended, crashes>>
    BY <1>5 DEF Reclaim
  <2>. HIDE DEF TypeOK
  <2>5. /\ owner' \in [Runs -> Consumers \cup {NoConsumer}]
        /\ inflight' \in [Consumers -> SUBSET Runs]
        /\ starts' \in [Runs -> 0..MaxStarts]
        /\ job' \in [Consumers -> Runs \cup {NoRun}]
        /\ stage' \in [Consumers -> {"idle", "executing", "completing", "acknowledged",
                                     "failing"}]
        /\ \A d \in Consumers : stage'[d] = "idle" <=> job'[d] = NoRun
    BY <2>2, DeliverTypes
  <2>. QED
    BY <2>1, <2>3, <2>4, <2>5 DEF TypeOK
<1>6. ASSUME NEW c \in Consumers, Execute(c) PROVE TypeOK'
  <2>1. job[c] \in Runs
    BY <1>6 DEF Execute
  <2>. QED
    BY <1>6, <2>1 DEF Execute
<1>7. ASSUME NEW c \in Consumers, Acknowledge(c) PROVE TypeOK'
  <2>1. job[c] \in Runs
    BY <1>7 DEF Acknowledge
  <2>. QED
    BY <1>7, <2>1 DEF Acknowledge
<1>8. ASSUME NEW c \in Consumers, SetCompleted(c) PROVE TypeOK'
  BY <1>8 DEF SetCompleted, Leave
<1>9. ASSUME NEW c \in Consumers, SetFailed(c) PROVE TypeOK'
  BY <1>9 DEF SetFailed, Leave
<1>10. ASSUME NEW c \in Consumers, Crash(c) PROVE TypeOK'
  BY <1>10 DEF Crash, Leave
<1>11. CASE UNCHANGED vars
  BY <1>11 DEF vars
<1>. QED
  BY <1>1, <1>2, <1>3, <1>4, <1>5, <1>6, <1>7, <1>8, <1>9, <1>10, <1>11 DEF Next, Work

(* A stream that does not change has the same runs waiting.                 *)
LEMMA SameWaits == stream' = stream => \A r \in Runs : Waiting(r)' <=> Waiting(r)
BY DEF Waiting

(* A delivery starts one run, once more, and gives its entry an owner.      *)
LEMMA DeliverStarts ==
  ASSUME TypeOK, NEW c \in Consumers, NEW r \in Runs, Deliver(c, r)
  PROVE  /\ starts'[r] = starts[r] + 1 /\ owner'[r] = c /\ c # NoConsumer
         /\ starts[r] \in Nat
         /\ \A s \in Runs : s # r => starts'[s] = starts[s] /\ owner'[s] = owner[s]
BY DEF TypeOK, Deliver

(* What a dequeue does: the first entry leaves the stream, and its run is   *)
(* put aside or delivered.                                                  *)
LEMMA DequeueEffect ==
  ASSUME TypeOK, NEW c \in Consumers, Dequeue(c)
  PROVE  /\ Head(stream) \in Runs /\ Waiting(Head(stream))
         /\ \A s \in Runs : Waiting(s)' <=> Waiting(s) /\ s # Head(stream)
         /\ \/ /\ dead' = dead \cup {Head(stream)}
               /\ UNCHANGED <<owner, inflight, job, stage, starts>>
            \/ Deliver(c, Head(stream)) /\ UNCHANGED dead
         /\ UNCHANGED <<key, adding, accepted, reclaims, ended, crashes>>
<1>1. stream \in Seq(Runs) /\ IsInjective(stream) /\ stream # <<>> /\ stream' = Tail(stream)
  BY DEF TypeOK, Dequeue
<1>2. /\ Head(stream) \in Runs /\ Waiting(Head(stream))
      /\ \A s \in Runs : Waiting(s)' <=> Waiting(s) /\ s # Head(stream)
  BY <1>1, TailWaits
<1>3. \/ /\ dead' = dead \cup {Head(stream)}
         /\ UNCHANGED <<owner, inflight, job, stage, starts>>
      \/ Deliver(c, Head(stream)) /\ UNCHANGED dead
  BY DEF Dequeue
<1>4. UNCHANGED <<key, adding, accepted, reclaims, ended, crashes>>
  BY DEF Dequeue
<1>. QED
  BY <1>2, <1>3, <1>4

(* A run that no consumer received stays one that never started.            *)
LEMMA NewNext == TypeInv /\ [Next]_vars => UndeliveredIsNew' /\ ReclaimsStarted'
<1>. SUFFICES ASSUME TypeInv, [Next]_vars PROVE UndeliveredIsNew' /\ ReclaimsStarted'
  OBVIOUS
<1>. DEFINE Goal == UndeliveredIsNew' /\ ReclaimsStarted'
<1>. USE DEF UndeliveredIsNew, ReclaimsStarted
<1>t. /\ starts \in [Runs -> Nat] /\ reclaims \in [Runs -> Nat]
      /\ key \in [Runs -> {"none", "queued", "completed", "failed"}]
      /\ owner \in [Runs -> Consumers \cup {NoConsumer}]
      /\ adding \subseteq Runs /\ job \in [Consumers -> Runs \cup {NoRun}]
  BY DEF TypeInv, TypeOK
<1>i. TypeOK /\ UndeliveredIsNew /\ ReclaimsStarted
  BY DEF TypeInv
<1>1. ASSUME NEW r \in Runs, SetKey(r) PROVE Goal
  <2>1. UNCHANGED <<stream, owner, starts, reclaims>>
    BY <1>1 DEF SetKey, workVars, historyVars
  <2>. QED
    BY <1>1, <1>t, <1>i, <2>1, SameWaits DEF SetKey
<1>2. ASSUME NEW r \in Runs, AddEntry(r) PROVE Goal
  <2>1. \A s \in Runs : Waiting(s)' <=> Waiting(s) \/ s = r
    BY <1>2, <1>i, AppendWaits DEF AddEntry, TypeOK
  <2>. QED
    BY <1>2, <1>t, <1>i, <2>1 DEF AddEntry
<1>3. ASSUME NEW r \in Runs, LeaveKey(r) PROVE Goal
  <2>1. UNCHANGED <<key, stream, owner, starts, reclaims>>
    BY <1>3 DEF LeaveKey, historyVars
  <2>. QED
    BY <1>3, <1>t, <1>i, <2>1, SameWaits DEF LeaveKey
<1>4. ASSUME NEW c \in Consumers, Dequeue(c) PROVE Goal
  <2>1. /\ Head(stream) \in Runs /\ Waiting(Head(stream))
        /\ \A s \in Runs : Waiting(s)' <=> Waiting(s) /\ s # Head(stream)
        /\ UNCHANGED <<key, adding, reclaims>>
    BY <1>4, <1>i, DequeueEffect
  <2>2. CASE UNCHANGED <<owner, starts>>
    BY <2>1, <2>2, <1>t, <1>i
  <2>3. CASE Deliver(c, Head(stream))
    <3>1. /\ starts'[Head(stream)] = starts[Head(stream)] + 1
          /\ \A s \in Runs : s # Head(stream) => starts'[s] = starts[s] /\ owner'[s] = owner[s]
      BY <2>1, <2>3, <1>i, DeliverStarts
    <3>. QED
      BY <2>1, <3>1, <1>t, <1>i
  <2>. QED
    BY <1>4, <1>i, <2>2, <2>3, DequeueEffect
<1>5. ASSUME NEW c \in Consumers, NEW r \in Runs, Reclaim(c, r) PROVE Goal
  <2>1. /\ starts'[r] = starts[r] + 1
        /\ \A s \in Runs : s # r => starts'[s] = starts[s] /\ owner'[s] = owner[s]
    BY <1>5, <1>i, DeliverStarts DEF Reclaim
  <2>2. owner[r] # NoConsumer /\ reclaims' = [reclaims EXCEPT ![r] = @ + 1]
    BY <1>5 DEF Reclaim
  <2>3. UNCHANGED <<key, adding, stream>>
    BY <1>5 DEF Reclaim
  <2>. QED
    BY <2>1, <2>2, <2>3, <1>t, <1>i, SameWaits
<1>6. ASSUME NEW c \in Consumers, Execute(c) PROVE Goal
  <2>1. UNCHANGED <<key, adding, stream, owner, starts, reclaims>>
    BY <1>6 DEF Execute, redisVars
  <2>. QED
    BY <2>1, <1>i, SameWaits
<1>7. ASSUME NEW c \in Consumers, Acknowledge(c) PROVE Goal
  <2>1. UNCHANGED <<key, adding, stream, starts, reclaims>>
    BY <1>7 DEF Acknowledge, historyVars
  <2>2. \A r \in Runs : owner'[r] # NoConsumer => owner[r] # NoConsumer
    BY <1>7, <1>t DEF Acknowledge
  <2>. QED
    BY <2>1, <2>2, <1>i, SameWaits
<1>8. ASSUME NEW c \in Consumers, SetCompleted(c) \/ SetFailed(c) PROVE Goal
  <2>1. UNCHANGED <<adding, stream, owner, starts, reclaims>>
    BY <1>8 DEF SetCompleted, SetFailed, historyVars
  <2>2. \A r \in Runs : key'[r] = "none" => key[r] = "none"
    BY <1>8, <1>t DEF SetCompleted, SetFailed
  <2>. QED
    BY <2>1, <2>2, <1>i, SameWaits
<1>9. ASSUME NEW c \in Consumers, Crash(c) PROVE Goal
  <2>1. UNCHANGED <<key, adding, stream, owner, starts, reclaims>>
    BY <1>9 DEF Crash, redisVars, historyVars
  <2>. QED
    BY <2>1, <1>i, SameWaits
<1>10. CASE UNCHANGED vars
  BY <1>10, <1>i, SameWaits DEF vars
<1>. QED
  BY <1>1, <1>2, <1>3, <1>4, <1>5, <1>6, <1>7, <1>8, <1>9, <1>10 DEF Next, Work

(* The types and the strengthening hold in every state.                     *)
LEMMA TypeInvariance == Spec => []TypeInv
<1>1. TypeInv /\ [Next]_vars => TypeInv'
  BY TypeNext, NewNext DEF TypeInv
<1>. QED
  BY <1>1, TypeInit, PTL DEF Spec

(* Type correctness, for any runs and workers: with it, no entry is in the  *)
(* stream twice, and no bound of the model is passed.                       *)
THEOREM TypesKept == Spec => []TypeOK
<1>1. TypeInv => TypeOK
  BY DEF TypeInv
<1>. QED
  BY <1>1, TypeInvariance, PTL

-----------------------------------------------------------------------------

(* What a consumer completes was executed to the end.                       *)
LEMMA CompletingNext == TypeOK /\ CompletingEnded /\ [Next]_vars => CompletingEnded'
<1>. SUFFICES ASSUME TypeOK, CompletingEnded, [Next]_vars PROVE CompletingEnded'
  OBVIOUS
<1>. USE DEF CompletingEnded
<1>t. job \in [Consumers -> Runs \cup {NoRun}]
      /\ stage \in [Consumers -> {"idle", "executing", "completing", "acknowledged", "failing"}]
  BY DEF TypeOK
<1>1. CASE UNCHANGED <<job, stage, ended>>
  BY <1>1
<1>2. ASSUME NEW c \in Consumers, NEW r \in Runs, Deliver(c, r), UNCHANGED ended
      PROVE  CompletingEnded'
  BY <1>2, <1>t DEF Deliver
<1>3. ASSUME NEW c \in Consumers, Execute(c) PROVE CompletingEnded'
  BY <1>3, <1>t DEF Execute
<1>4. ASSUME NEW c \in Consumers, Acknowledge(c) PROVE CompletingEnded'
  BY <1>4, <1>t DEF Acknowledge, historyVars
<1>5. ASSUME NEW c \in Consumers, Leave(c), UNCHANGED ended PROVE CompletingEnded'
  BY <1>5, <1>t DEF Leave
<1>6. ASSUME NEW r \in Runs, SetKey(r) \/ AddEntry(r) \/ LeaveKey(r) PROVE CompletingEnded'
  BY <1>1, <1>6 DEF SetKey, AddEntry, LeaveKey, workVars, historyVars
<1>7. ASSUME NEW c \in Consumers, Dequeue(c) PROVE CompletingEnded'
  BY <1>1, <1>2, <1>7, DequeueEffect
<1>8. ASSUME NEW c \in Consumers, NEW r \in Runs, Reclaim(c, r) PROVE CompletingEnded'
  BY <1>2, <1>8 DEF Reclaim
<1>9. ASSUME NEW c \in Consumers, SetCompleted(c) \/ SetFailed(c) \/ Crash(c)
      PROVE  CompletingEnded'
  BY <1>5, <1>9 DEF SetCompleted, SetFailed, Crash, historyVars
<1>10. CASE UNCHANGED vars
  BY <1>1, <1>10 DEF vars
<1>. QED
  BY <1>3, <1>4, <1>6, <1>7, <1>8, <1>9, <1>10 DEF Next, Work

(* A run said to be completed was executed to the end: over crashes,        *)
(* failures and reclaims, the key is set only after ask() returned.         *)
THEOREM CompletedRan == Spec => []CompletedEnded
<1>. DEFINE Inv == CompletingEnded /\ CompletedEnded
<1>1. Init => Inv
  BY DEF Init, CompletingEnded, CompletedEnded
<1>2. TypeOK /\ Inv /\ [Next]_vars => CompletedEnded'
  <2>. SUFFICES ASSUME TypeOK, Inv, [Next]_vars PROVE CompletedEnded'
    OBVIOUS
  <2>. USE DEF CompletedEnded
  <2>t. key \in [Runs -> {"none", "queued", "completed", "failed"}]
    BY DEF TypeOK
  <2>1. CASE key' = key /\ ended \subseteq ended'
    BY <2>1
  <2>2. ASSUME NEW r \in Runs, SetKey(r) PROVE CompletedEnded'
    BY <2>2, <2>t DEF SetKey, historyVars
  <2>3. ASSUME NEW c \in Consumers, SetCompleted(c) PROVE CompletedEnded'
    BY <2>3, <2>t DEF SetCompleted, historyVars, CompletingEnded
  <2>4. ASSUME NEW c \in Consumers, SetFailed(c) PROVE CompletedEnded'
    BY <2>4, <2>t DEF SetFailed, historyVars
  <2>5. ASSUME NEW r \in Runs, AddEntry(r) \/ LeaveKey(r) PROVE CompletedEnded'
    BY <2>1, <2>5 DEF AddEntry, LeaveKey, historyVars
  <2>6. ASSUME NEW c \in Consumers, NEW r \in Runs, Reclaim(c, r) PROVE CompletedEnded'
    BY <2>1, <2>6 DEF Reclaim
  <2>7. ASSUME NEW c \in Consumers,
               Dequeue(c) \/ Execute(c) \/ Acknowledge(c) \/ Crash(c)
        PROVE  CompletedEnded'
    BY <2>1, <2>7 DEF Dequeue, Execute, Acknowledge, Crash, redisVars, historyVars
  <2>8. CASE UNCHANGED vars
    BY <2>1, <2>8 DEF vars
  <2>. QED
    BY <2>2, <2>3, <2>4, <2>5, <2>6, <2>7, <2>8 DEF Next, Work
<1>3. TypeOK /\ Inv /\ [Next]_vars => Inv'
  BY <1>2, CompletingNext
<1>4. Inv => CompletedEnded
  OBVIOUS
<1>. QED
  BY <1>1, <1>3, <1>4, TypesKept, PTL DEF Spec

-----------------------------------------------------------------------------

(* An accepted run is never lost: it waits, is pending, was executed to the *)
(* end or was put aside, whatever crashes and whoever reclaims.             *)
THEOREM AcceptedKept == Spec => []NothingLost
<1>. DEFINE Inv == CompletingEnded /\ NothingLost
<1>1. Init => Inv
  BY DEF Init, CompletingEnded, NothingLost
<1>2. TypeOK /\ Inv /\ [Next]_vars => NothingLost'
  <2>. SUFFICES ASSUME TypeOK, Inv, [Next]_vars PROVE NothingLost'
    OBVIOUS
  <2>. USE DEF NothingLost
  <2>t. accepted \subseteq Runs /\ owner \in [Runs -> Consumers \cup {NoConsumer}]
    BY DEF TypeOK
  <2>1. CASE UNCHANGED <<stream, owner, dead, accepted>> /\ ended \subseteq ended'
    BY <2>1, <2>t, SameWaits
  <2>2. ASSUME NEW r \in Runs, AddEntry(r) PROVE NothingLost'
    <3>1. \A s \in Runs : Waiting(s)' <=> Waiting(s) \/ s = r
      BY <2>2, AppendWaits DEF AddEntry, TypeOK
    <3>. QED
      BY <2>2, <2>t, <3>1 DEF AddEntry
  <2>3. ASSUME NEW c \in Consumers, Dequeue(c) PROVE NothingLost'
    <3>1. /\ Head(stream) \in Runs
          /\ \A s \in Runs : Waiting(s)' <=> Waiting(s) /\ s # Head(stream)
          /\ UNCHANGED <<accepted, ended>>
      BY <2>3, DequeueEffect
    <3>2. CASE dead' = dead \cup {Head(stream)} /\ owner' = owner
      BY <3>1, <3>2, <2>t
    <3>3. CASE Deliver(c, Head(stream)) /\ UNCHANGED dead
      BY <3>1, <3>3, <2>t, DeliverStarts
    <3>. QED
      BY <2>3, <3>2, <3>3, DequeueEffect
  <2>4. ASSUME NEW c \in Consumers, NEW r \in Runs, Reclaim(c, r) PROVE NothingLost'
    BY <2>4, <2>t, SameWaits, DeliverStarts DEF Reclaim
  <2>5. ASSUME NEW c \in Consumers, Acknowledge(c) PROVE NothingLost'
    <3>1. job[c] \in ended
      BY <2>5 DEF Acknowledge, CompletingEnded
    <3>2. \A r \in Runs : r # job[c] => owner'[r] = owner[r]
      BY <2>5, <2>t DEF Acknowledge
    <3>. QED
      BY <2>5, <2>t, <3>1, <3>2, SameWaits DEF Acknowledge, historyVars
  <2>6. ASSUME NEW r \in Runs, SetKey(r) \/ LeaveKey(r) PROVE NothingLost'
    BY <2>1, <2>6 DEF SetKey, LeaveKey, historyVars
  <2>7. ASSUME NEW c \in Consumers, Execute(c) \/ SetCompleted(c) \/ SetFailed(c) \/ Crash(c)
        PROVE  NothingLost'
    BY <2>1, <2>7 DEF Execute, SetCompleted, SetFailed, Crash, redisVars, historyVars
  <2>8. CASE UNCHANGED vars
    BY <2>1, <2>8 DEF vars
  <2>. QED
    BY <2>2, <2>3, <2>4, <2>5, <2>6, <2>7, <2>8 DEF Next, Work
<1>3. TypeOK /\ Inv /\ [Next]_vars => Inv'
  BY <1>2, CompletingNext
<1>4. Inv => NothingLost
  OBVIOUS
<1>. QED
  BY <1>1, <1>3, <1>4, TypesKept, PTL DEF Spec

-----------------------------------------------------------------------------

(* A run starts once, and once more for each reclaim of its entry, however  *)
(* often it is enqueued and whatever fails or crashes.                      *)
THEOREM StartsCounted == Spec => []ExecutedOnce
<1>1. Init => ExecutedOnce
  BY DEF Init, ExecutedOnce
<1>2. TypeInv /\ ExecutedOnce /\ [Next]_vars => ExecutedOnce'
  <2>. SUFFICES ASSUME TypeInv, ExecutedOnce, [Next]_vars PROVE ExecutedOnce'
    OBVIOUS
  <2>. USE DEF ExecutedOnce
  <2>t. /\ starts \in [Runs -> Nat] /\ reclaims \in [Runs -> Nat]
        /\ TypeOK /\ UndeliveredIsNew
    BY DEF TypeInv, TypeOK
  <2>1. CASE UNCHANGED <<starts, reclaims>>
    BY <2>1
  <2>2. ASSUME NEW c \in Consumers, Dequeue(c) PROVE ExecutedOnce'
    <3>1. Head(stream) \in Runs /\ starts[Head(stream)] = 0 /\ reclaims' = reclaims
      BY <2>2, <2>t, DequeueEffect DEF UndeliveredIsNew
    <3>2. CASE Deliver(c, Head(stream))
      BY <3>1, <3>2, <2>t, DeliverStarts
    <3>. QED
      BY <2>1, <2>2, <3>1, <3>2, <2>t, DequeueEffect
  <2>3. ASSUME NEW c \in Consumers, NEW r \in Runs, Reclaim(c, r) PROVE ExecutedOnce'
    <3>1. reclaims' = [reclaims EXCEPT ![r] = @ + 1] /\ Deliver(c, r)
      BY <2>3 DEF Reclaim
    <3>. QED
      BY <3>1, <2>t, DeliverStarts
  <2>4. ASSUME NEW r \in Runs, SetKey(r) \/ AddEntry(r) \/ LeaveKey(r) PROVE ExecutedOnce'
    BY <2>1, <2>4 DEF SetKey, AddEntry, LeaveKey, historyVars
  <2>5. ASSUME NEW c \in Consumers,
               Execute(c) \/ Acknowledge(c) \/ SetCompleted(c) \/ SetFailed(c) \/ Crash(c)
        PROVE  ExecutedOnce'
    BY <2>1, <2>5 DEF Execute, Acknowledge, SetCompleted, SetFailed, Crash, historyVars
  <2>6. CASE UNCHANGED vars
    BY <2>1, <2>6 DEF vars
  <2>. QED
    BY <2>2, <2>3, <2>4, <2>5, <2>6 DEF Next, Work
<1>. QED
  BY <1>1, <1>2, TypeInvariance, PTL DEF Spec

-----------------------------------------------------------------------------

(* Usage accounting, for any runs, counts and number of answers: no row     *)
(* stands twice, and whoever loads the usage of a session is given what its *)
(* rows add up to.  The argument is that of the revision: rows are only     *)
(* ever added, so that a summary of fewer rows has a smaller revision than  *)
(* they have.                                                               *)

USE UsageAssumption

Rows ==
  [id : RunIds \X Nat, of : Nat, group : Groups \cup {NoRunId},
   tokens : Counts \cup {NoCount}]

(* There are as many rows as they have ids, also in what is about to be     *)
(* written.                                                                 *)
RowsInv ==
  /\ turn \in {"idle", "asking", "answered", "kept", "writing", "written"}
  /\ {usage, rows, next} \subseteq Seq(Rows)
  /\ run \in RunIds \cup {NoRunId} /\ (turn # "idle" => run \in RunIds)
  /\ attempts \in Nat /\ queued \in Nat /\ asked \in 0..MaxAsked
  /\ metadata \in [asked : Nat, group : Groups \cup {NoRunId}, tokens : Counts \cup {NoCount}]
  /\ turn = "kept" => usage # <<>>
  /\ IsFiniteSet(Ids(rows)) /\ Cardinality(Ids(rows)) = Len(rows)
  /\ turn = "writing" => IsFiniteSet(Ids(next)) /\ Cardinality(Ids(next)) = Len(next)

(* While the rows could be read, what is being written is the rows with a   *)
(* new one, and a summary is of the rows there are, or of fewer.            *)
RevisionInv ==
  ~misread =>
    /\ turn = "writing" => \E row \in Rows : next = Append(rows, row) /\ row.id \notin Ids(rows)
    /\ turn = "written" => next = rows
    /\ totals # NoSummary => \/ totals = Snapshot(rows)
                             \/ /\ totals.revision \in Nat
                                /\ totals.revision < Cardinality(Ids(rows))

UsageInv == RowsInv /\ misread \in BOOLEAN /\ RevisionInv

(* A row that is added adds its id.                                         *)
LEMMA AddedId ==
  ASSUME NEW S \in Seq(Rows), NEW row \in Rows
  PROVE  /\ Append(S, row) \in Seq(Rows) /\ Len(Append(S, row)) = Len(S) + 1
         /\ Ids(Append(S, row)) = Ids(S) \cup {row.id}
<1>1. /\ Append(S, row) \in Seq(Rows) /\ Len(Append(S, row)) = Len(S) + 1
      /\ DOMAIN Append(S, row) = DOMAIN S \cup {Len(S) + 1}
      /\ \A i \in DOMAIN S : Append(S, row)[i] = S[i]
      /\ Append(S, row)[Len(S) + 1] = row
  OBVIOUS
<1>. QED
  BY <1>1 DEF Ids

LEMMA NoIds ==
  <<>> \in Seq(Rows) /\ Len(<<>>) = 0 /\ IsFiniteSet(Ids(<<>>)) /\ Cardinality(Ids(<<>>)) = 0
<1>1. <<>> \in Seq(Rows) /\ Len(<<>>) = 0 /\ DOMAIN <<>> = {}
  OBVIOUS
<1>2. Ids(<<>>) = {}
  BY <1>1 DEF Ids
<1>. QED
  BY <1>1, <1>2, FS_EmptySet

LEMMA InitInv == UsageInit => UsageInv
<1>. SUFFICES ASSUME UsageInit PROVE UsageInv
  OBVIOUS
<1>1. RowsInv
  <2>1. rows = <<>> /\ next = <<>> /\ usage = <<>>
    BY DEF UsageInit, Nothing
  <2>2. metadata \in [asked : Nat, group : Groups \cup {NoRunId}, tokens : Counts \cup {NoCount}]
    BY DEF UsageInit
  <2>. QED
    BY <2>1, <2>2, NoIds DEF UsageInit, RowsInv
<1>2. RevisionInv
  BY DEF UsageInit, RevisionInv
<1>. QED
  BY <1>1, <1>2 DEF UsageInit, UsageInv

LEMMA RowsKept == UsageInv /\ [UsageNext]_usageVars => RowsInv'
<1>. SUFFICES ASSUME UsageInv, [UsageNext]_usageVars PROVE RowsInv'
  OBVIOUS
<1>. USE DEF UsageInv, RowsInv
<1>1. ASSUME NEW r \in RunIds, BeginRun(r) PROVE RowsInv'
  BY <1>1, NoIds DEF BeginRun
<1>2. ASSUME NEW g \in Groups, NEW tokens \in Counts, NEW size \in BatchSizes,
             ModelAnswers(g, tokens, size)
      PROVE  RowsInv'
  BY <1>2 DEF ModelAnswers
<1>3. CASE TakeCall
  BY <1>3 DEF TakeCall
<1>4. CASE KeepRecord
  <2>1. UsageRecord \in Rows
    BY <1>4 DEF KeepRecord, UsageRecord, UsageId, Rows
  <2>2. usage' \in Seq(Rows) /\ usage' # <<>>
    BY <1>4, <2>1 DEF KeepRecord
  <2>. QED
    BY <1>4, <2>2 DEF KeepRecord
<1>5. ASSUME NEW read \in BOOLEAN, ReadRows(read) PROVE RowsInv'
  <2>. DEFINE old == IF read THEN rows ELSE <<>>
              record == usage[Len(usage)]
  <2>1. /\ record \in Rows /\ old \in Seq(Rows)
        /\ IsFiniteSet(Ids(old)) /\ Cardinality(Ids(old)) = Len(old)
    BY <1>5, NoIds DEF ReadRows
  <2>2. /\ Append(old, record) \in Seq(Rows)
        /\ record.id \notin Ids(old) =>
             /\ IsFiniteSet(Ids(Append(old, record)))
             /\ Cardinality(Ids(Append(old, record))) = Len(Append(old, record))
    <3>. HIDE DEF old, record
    <3>1. /\ Append(old, record) \in Seq(Rows) /\ Len(Append(old, record)) = Len(old) + 1
          /\ Ids(Append(old, record)) = Ids(old) \cup {record.id}
      BY <2>1, AddedId
    <3>2. /\ IsFiniteSet(Ids(old) \cup {record.id})
          /\ record.id \notin Ids(old) =>
               Cardinality(Ids(old) \cup {record.id}) = Cardinality(Ids(old)) + 1
      BY <2>1, FS_AddElement
    <3>. QED
      BY <2>1, <3>1, <3>2
  <2>3. \/ /\ next' = Append(old, record) /\ record.id \notin Ids(old) /\ turn' = "writing"
        \/ next' = next /\ turn' = "asking"
    BY <1>5 DEF ReadRows, Inserted
  <2>4. /\ next' \in Seq(Rows)
        /\ turn' = "writing" => IsFiniteSet(Ids(next')) /\ Cardinality(Ids(next')) = Len(next')
    BY <2>2, <2>3
  <2>5. IsFiniteSet(Ids(rows')) /\ Cardinality(Ids(rows')) = Len(rows')
    BY <1>5 DEF ReadRows
  <2>. QED
    BY <1>5, <2>3, <2>4, <2>5 DEF ReadRows
<1>6. CASE WriteRows
  BY <1>6 DEF WriteRows, Ids
<1>7. CASE WriteSummary
  BY <1>7, NoIds DEF WriteSummary, Nothing, Ids
<1>8. CASE WriteFails
  BY <1>8, NoIds DEF WriteFails, Nothing, Ids
<1>9. CASE EndUsage
  BY <1>9 DEF EndUsage
<1>10. CASE UsageRestart
  BY <1>10, NoIds DEF UsageRestart, Nothing, Ids
<1>11. CASE UNCHANGED usageVars
  BY <1>11 DEF usageVars, Ids
<1>. QED
  BY <1>1, <1>2, <1>3, <1>4, <1>5, <1>6, <1>7, <1>8, <1>9, <1>10, <1>11 DEF UsageNext

(* A step that leaves the files alone, and begins no write.                 *)
LEMMA FilesKept ==
  ASSUME RevisionInv, UNCHANGED <<rows, totals, next, misread>>,
         turn' \in {"writing", "written"} => turn' = turn
  PROVE  RevisionInv'
<1>1. Ids(rows)' = Ids(rows) /\ Snapshot(rows)' = Snapshot(rows)
  OBVIOUS
<1>. QED
  BY <1>1 DEF RevisionInv

(* A write that is given up leaves the files as they are.                   *)
LEMMA WriteGivenUp ==
  ASSUME RevisionInv, UNCHANGED <<rows, totals, misread>>, turn' \notin {"writing", "written"}
  PROVE  RevisionInv'
<1>1. Ids(rows)' = Ids(rows) /\ Snapshot(rows)' = Snapshot(rows)
  OBVIOUS
<1>. QED
  BY <1>1 DEF RevisionInv

LEMMA RevisionKept == UsageInv /\ [UsageNext]_usageVars => RevisionInv'
<1>. SUFFICES ASSUME UsageInv, [UsageNext]_usageVars PROVE RevisionInv'
  OBVIOUS
<1>. USE DEF UsageInv
<1>1. ASSUME NEW r \in RunIds, BeginRun(r) PROVE RevisionInv'
  BY <1>1, FilesKept DEF BeginRun
<1>2. ASSUME NEW g \in Groups, NEW tokens \in Counts, NEW size \in BatchSizes,
             ModelAnswers(g, tokens, size)
      PROVE  RevisionInv'
  BY <1>2, FilesKept DEF ModelAnswers
<1>3. CASE TakeCall
  BY <1>3, FilesKept DEF TakeCall
<1>4. CASE KeepRecord
  BY <1>4, FilesKept DEF KeepRecord
<1>5. ASSUME NEW read \in BOOLEAN, ReadRows(read) PROVE RevisionInv'
  <2>. SUFFICES ASSUME read, ~misread PROVE RevisionInv'
    BY <1>5 DEF ReadRows, RevisionInv
  <2>. DEFINE record == usage[Len(usage)]
  <2>1. record \in Rows /\ rows' = rows /\ totals' = totals /\ misread' = misread
    BY <1>5 DEF ReadRows, RowsInv
  <2>2. \/ next' = Append(rows, record) /\ record.id \notin Ids(rows) /\ turn' = "writing"
        \/ turn' = "asking"
    BY <1>5 DEF ReadRows, Inserted
  <2>3. Ids(rows)' = Ids(rows) /\ Snapshot(rows)' = Snapshot(rows)
    BY <2>1
  <2>. QED
    BY <2>1, <2>2, <2>3 DEF RevisionInv
<1>6. CASE WriteRows
  <2>. SUFFICES ASSUME ~misread PROVE RevisionInv'
    BY <1>6 DEF WriteRows, RevisionInv
  <2>1. PICK row \in Rows : next = Append(rows, row) /\ row.id \notin Ids(rows)
    BY <1>6 DEF WriteRows, RevisionInv
  <2>2. rows' = next /\ next' = next /\ totals' = totals /\ turn' = "written"
    BY <1>6 DEF WriteRows
  <2>3. Ids(next) = Ids(rows) \cup {row.id}
    BY <2>1, AddedId DEF RowsInv
  <2>4. Cardinality(Ids(next)) = Cardinality(Ids(rows)) + 1 /\ Cardinality(Ids(rows)) \in Nat
    BY <2>1, <2>3, FS_AddElement, FS_CardinalityType DEF RowsInv
  <2>5. Cardinality(Ids(rows)') = Cardinality(Ids(rows)) + 1
    BY <2>2, <2>4 DEF Ids
  <2>6. totals # NoSummary =>
          totals.revision \in Nat /\ totals.revision <= Cardinality(Ids(rows))
    <3>1. Snapshot(rows).revision = Cardinality(Ids(rows))
      BY DEF Snapshot
    <3>. QED
      BY <2>4, <3>1 DEF RevisionInv
  <2>. QED
    BY <2>2, <2>4, <2>5, <2>6 DEF RevisionInv
<1>7. CASE WriteSummary
  <2>. SUFFICES ASSUME ~misread PROVE RevisionInv'
    BY <1>7 DEF WriteSummary, RevisionInv
  <2>1. next = rows /\ rows' = rows /\ turn' = "asking" /\ totals' = Snapshot(next)
    BY <1>7 DEF WriteSummary, RevisionInv
  <2>2. totals' = Snapshot(rows)'
    BY <2>1
  <2>. QED
    BY <2>1, <2>2 DEF RevisionInv
<1>8. CASE WriteFails
  BY <1>8, WriteGivenUp DEF WriteFails
<1>9. CASE EndUsage
  BY <1>9, FilesKept DEF EndUsage
<1>10. CASE UsageRestart
  BY <1>10, WriteGivenUp DEF UsageRestart
<1>11. CASE UNCHANGED usageVars
  BY <1>11, FilesKept DEF usageVars
<1>. QED
  BY <1>1, <1>2, <1>3, <1>4, <1>5, <1>6, <1>7, <1>8, <1>9, <1>10, <1>11 DEF UsageNext

LEMMA InvKept == UsageInv /\ [UsageNext]_usageVars => UsageInv'
<1>. SUFFICES ASSUME UsageInv, [UsageNext]_usageVars PROVE misread' \in BOOLEAN
  BY RowsKept, RevisionKept DEF UsageInv
<1>. QED
  BY DEF UsageInv, UsageNext, usageVars, BeginRun, ModelAnswers, TakeCall, KeepRecord, ReadRows,
         WriteRows, WriteSummary, WriteFails, EndUsage, UsageRestart

LEMMA InvGivesCurrent == UsageInv => SnapshotCurrent
<1>. SUFFICES ASSUME UsageInv, ~misread, Trusted PROVE totals = Snapshot(rows)
  BY DEF SnapshotCurrent, LoadSnapshot
<1>. QED
  BY DEF UsageInv, RevisionInv, Trusted

LEMMA InvGivesTypes == UsageInv => UsageTypeOK
<1>. SUFFICES ASSUME RowsInv PROVE {rows[i].id : i \in DOMAIN rows} \subseteq RunIds \X Nat
  BY DEF UsageInv, RowsInv, UsageTypeOK
<1>1. \A i \in DOMAIN rows : rows[i] \in Rows
  BY DEF RowsInv
<1>. QED
  BY <1>1 DEF Rows

LEMMA AlwaysInv == UsageSpec => []UsageInv
  BY InitInv, InvKept, PTL DEF UsageSpec

(* The rows of a session have one id each and no two the same, although a   *)
(* run that is run again gives its ids anew: nothing is counted twice.      *)
THEOREM NoRowTwice == UsageSpec => []UsageTypeOK
  BY AlwaysInv, InvGivesTypes, PTL

(* Whoever loads the usage of a session, at whatever moment, is given what  *)
(* its rows add up to, unless the rows could not be read once (load_snapshot, *)
(* record): for any runs, counts and batches.                               *)
THEOREM LoadedIsCurrent == UsageSpec => []SnapshotCurrent
  BY AlwaysInv, InvGivesCurrent, PTL

-----------------------------------------------------------------------------

(* A run's part of the rows.                                                *)
OfRun(s) == {i \in DOMAIN s : s[i].id[1] = run}
Part(s) == Picked(s, OfRun(s))
(* The rows that an answer has.                                             *)
RowsOfAnswer(s, of) == {i \in DOMAIN s : s[i].of = of}

LEMMA IdNumbers ==
  ASSUME NEW s \in Seq(Rows)
  PROVE  \A i \in OfRun(s) : s[i].id[2] \in Nat
<1>1. ASSUME NEW i \in OfRun(s) PROVE s[i].id[2] \in Nat
  <2>1. s[i] \in Rows
    BY DEF OfRun
  <2>2. s[i].id \in RunIds \X Nat
    BY <2>1 DEF Rows
  <2>. QED
    BY <2>2
<1>. QED
  BY <1>1

LEMMA PartLonger ==
  ASSUME NEW s \in Seq(Rows), NEW row \in Rows, row.id[1] = run
  PROVE  /\ Part(Append(s, row)) = Append(Part(s), row)
         /\ \A i \in OfRun(Append(s, row)) :
              (i \in OfRun(s) /\ Append(s, row)[i] = s[i]) \/ Append(s, row)[i] = row
<1>. DEFINE t == Append(s, row)
<1>1. /\ DOMAIN t = DOMAIN s \cup {Len(s) + 1}
      /\ \A i \in DOMAIN s : t[i] = s[i]
      /\ t[Len(s) + 1] = row
  BY AppendProperties
<1>. HIDE DEF t
<1>2. OfRun(t) = OfRun(s) \cup {Len(s) + 1}
  BY <1>1 DEF OfRun
<1>3. OfRun(s) \subseteq DOMAIN s
  BY DEF OfRun
<1>. DEFINE S == OfRun(s)
<1>. HIDE DEF S
<1>4. Picked(Append(s, row), S \cup {Len(s) + 1}) = Append(Picked(s, S), row)
  BY <1>3, PickedLonger DEF S
<1>5. Part(t) = Append(Part(s), row)
  BY <1>2, <1>4 DEF Part, t, S
<1>6. \A i \in OfRun(t) : (i \in OfRun(s) /\ t[i] = s[i]) \/ t[i] = row
  BY <1>1, <1>2, <1>3
<1>. QED
  BY <1>5, <1>6 DEF t

LEMMA AnswerLonger ==
  ASSUME NEW s \in Seq(Rows), NEW row \in Rows, NEW of
  PROVE  /\ Cardinality(RowsOfAnswer(s, of)) \in Nat
         /\ Cardinality(RowsOfAnswer(Append(s, row), of)) =
              Cardinality(RowsOfAnswer(s, of)) + IF row.of = of THEN 1 ELSE 0
<1>. DEFINE t == Append(s, row)
            S == RowsOfAnswer(s, of)
<1>1. /\ DOMAIN t = DOMAIN s \cup {Len(s) + 1} /\ Len(s) + 1 \notin DOMAIN s
      /\ \A i \in DOMAIN s : t[i] = s[i]
      /\ t[Len(s) + 1] = row
  <2>1. DOMAIN s = 1..Len(s) /\ Len(s) \in Nat
    OBVIOUS
  <2>. QED
    BY <2>1, AppendProperties
<1>. HIDE DEF t
<1>2. S \subseteq DOMAIN s
  BY DEF RowsOfAnswer
<1>3. IsFiniteSet(S) /\ Cardinality(S) \in Nat
  <2>. HIDE DEF S
  <2>. QED
    BY <1>2, PickedPlaces
<1>4. RowsOfAnswer(t, of) = IF row.of = of THEN S \cup {Len(s) + 1} ELSE S
  BY <1>1 DEF RowsOfAnswer
<1>5. Len(s) + 1 \notin S
  BY <1>1, <1>2
<1>. HIDE DEF S
<1>6. Cardinality(S \cup {Len(s) + 1}) = Cardinality(S) + 1
  BY <1>3, <1>5, FS_AddElement
<1>7. Cardinality(RowsOfAnswer(t, of)) = Cardinality(S) + IF row.of = of THEN 1 ELSE 0
  BY <1>3, <1>4, <1>6
<1>. QED
  BY <1>3, <1>7 DEF S, t

-----------------------------------------------------------------------------

(* Rows are of runs that began, the last record that was kept has the id    *)
(* given last, and what was written are the rows.                           *)
BegunInv ==
  /\ \A i \in DOMAIN rows : rows[i].id[1] \in begun
  /\ turn = "writing" => \A i \in DOMAIN next : next[i].id[1] \in begun
  /\ turn # "idle" => run \in begun
  /\ turn = "kept" => usage[Len(usage)].id = <<run, attempts>>
  /\ turn = "written" => next = rows
  /\ metadata.asked <= asked
  /\ sound \in BOOLEAN

(* What an answer is owed: the calls that were not recorded.                *)
Owed == queued + IF turn = "answered" THEN 1 ELSE 0

AnswerInv(of) ==
  LET n == Cardinality(RowsOfAnswer(usage, of)) IN
  IF of = metadata.asked THEN (n = 0 /\ Owed = 0) \/ n + Owed \in BatchSizes
  ELSE n = 0 \/ n \in BatchSizes

(* A run that met no failure: its rows are what it counted, or will be with *)
(* the record that is on its way; each with an id of its own.               *)
SoundInv ==
  sound /\ turn # "idle" =>
    /\ turn \in {"asking", "answered", "written"} => Part(rows) = usage
    /\ turn = "kept" => usage = Append(Part(rows), usage[Len(usage)])
    /\ turn = "writing" => Part(next) = usage
    /\ \A i \in OfRun(rows) :
         \/ rows[i].id[2] < attempts
         \/ rows[i].id[2] = attempts /\ turn \in {"asking", "written"}
    /\ turn = "writing" => \A i \in OfRun(next) : next[i].id[2] <= attempts
    /\ Len(usage) + (IF turn = "answered" THEN 1 ELSE 0) = attempts
    /\ turn = "asking" /\ event # NoEvent =>
         event = [run |-> Snapshot(usage), session |-> Snapshot(rows)]
    /\ \A i \in DOMAIN usage : usage[i].of <= asked
    /\ \A of \in 1..asked : AnswerInv(of)

PartInv == UsageInv /\ BegunInv /\ SoundInv

LEMMA PartInit == UsageInit => PartInv
<1>1. SUFFICES ASSUME UsageInit PROVE PartInv
  OBVIOUS
<1>2. UsageInv
  BY <1>1, InitInv
<1>3. BegunInv /\ SoundInv
  <2>1. /\ turn = "idle" /\ rows = <<>> /\ metadata.asked = 0 /\ asked = 0 /\ sound = FALSE
        /\ DOMAIN rows = {}
    BY <1>1 DEF UsageInit
  <2>2. metadata.asked <= asked
    BY <2>1
  <2>. QED
    BY <2>1, <2>2 DEF BegunInv, SoundInv
<1>. QED
  BY <1>2, <1>3 DEF PartInv

LEMMA BegunKept == UsageInv /\ BegunInv /\ [UsageNext]_usageVars => BegunInv'
<1>1. SUFFICES ASSUME UsageInv, BegunInv, [UsageNext]_usageVars PROVE BegunInv'
  OBVIOUS
<1>t. /\ usage \in Seq(Rows) /\ rows \in Seq(Rows) /\ next \in Seq(Rows)
      /\ attempts \in Nat /\ metadata.asked \in Nat /\ asked \in Nat
      /\ metadata \in [asked : Nat, group : Groups \cup {NoRunId}, tokens : Counts \cup {NoCount}]
      /\ (turn # "idle" => run \in RunIds)
  BY <1>1 DEF UsageInv, RowsInv
<1>2. ASSUME NEW r \in RunIds, BeginRun(r) PROVE BegunInv'
  BY <1>1, <1>2 DEF BegunInv, BeginRun
<1>3. ASSUME NEW g \in Groups, NEW tokens \in Counts, NEW size \in BatchSizes,
             ModelAnswers(g, tokens, size)
      PROVE  BegunInv'
  BY <1>1, <1>t, <1>3 DEF BegunInv, ModelAnswers
<1>4. CASE TakeCall
  BY <1>1, <1>4 DEF BegunInv, TakeCall
<1>5. CASE KeepRecord
  <2>1. UsageRecord \in Rows /\ UsageRecord.id = <<run, attempts>>
    BY <1>t, <1>5 DEF UsageRecord, UsageId, Rows, KeepRecord
  <2>2. usage'[Len(usage')] = UsageRecord
    <3>1. usage' = Append(usage, UsageRecord)
      BY <1>5 DEF KeepRecord
    <3>. HIDE DEF UsageRecord
    <3>. QED
      BY <1>t, <2>1, <3>1, AppendProperties
  <2>. QED
    BY <1>1, <1>5, <2>1, <2>2 DEF BegunInv, KeepRecord
<1>6. ASSUME NEW read \in BOOLEAN, ReadRows(read) PROVE BegunInv'
  <2>. DEFINE old == IF read THEN rows ELSE <<>>
              record == usage[Len(usage)]
  <2>1. record.id = <<run, attempts>> /\ run \in begun /\ turn = "kept"
    BY <1>1, <1>6 DEF BegunInv, ReadRows
  <2>2. /\ begun' = begun /\ rows' = rows /\ run' = run /\ asked' = asked /\ metadata' = metadata
        /\ turn' \in {"writing", "asking"} /\ (turn' = "writing" => next' = Append(old, record))
        /\ sound' \in BOOLEAN
    BY <1>1, <1>6 DEF ReadRows, BegunInv
  <2>3. record \in Rows /\ old \in Seq(Rows)
    <3>1. usage # <<>>
      BY <1>1, <2>1 DEF UsageInv, RowsInv
    <3>2. Len(usage) \in 1..Len(usage)
      BY <1>t, <3>1
    <3>. QED
      BY <1>t, <3>2
  <2>4. \A i \in DOMAIN old : old[i].id[1] \in begun
    BY <1>1 DEF BegunInv
  <2>5. record.id[1] \in begun
    BY <2>1
  <2>. HIDE DEF old, record
  <2>6. \A i \in DOMAIN Append(old, record) : Append(old, record)[i].id[1] \in begun
    <3>1. /\ DOMAIN Append(old, record) = DOMAIN old \cup {Len(old) + 1}
          /\ \A i \in DOMAIN old : Append(old, record)[i] = old[i]
          /\ Append(old, record)[Len(old) + 1] = record
      BY <2>3, AppendProperties
    <3>. QED
      BY <2>4, <2>5, <3>1
  <2>. QED
    BY <1>1, <2>1, <2>2, <2>6 DEF BegunInv
<1>7. CASE WriteRows
  BY <1>1, <1>7 DEF BegunInv, WriteRows
<1>8. CASE WriteSummary
  BY <1>1, <1>8 DEF BegunInv, WriteSummary
<1>9. CASE WriteFails
  BY <1>1, <1>9 DEF BegunInv, WriteFails
<1>10. CASE EndUsage
  BY <1>1, <1>10 DEF BegunInv, EndUsage
<1>11. CASE UsageRestart
  <2>1. metadata'.asked = 0 /\ asked' = asked /\ turn' = "idle" /\ sound' = FALSE /\ rows' = rows
        /\ begun' = begun
    BY <1>11 DEF UsageRestart
  <2>2. metadata'.asked <= asked'
    BY <1>t, <2>1
  <2>. QED
    BY <1>1, <2>1, <2>2 DEF BegunInv
<1>12. CASE UNCHANGED usageVars
  BY <1>1, <1>12 DEF BegunInv, usageVars
<1>. QED
  BY <1>1, <1>2, <1>3, <1>4, <1>5, <1>6, <1>7, <1>8, <1>9, <1>10, <1>11, <1>12 DEF UsageNext

(* In the steps of a run that does not count its answers.                   *)
LEMMA AnswersAlike ==
  ASSUME usage' = usage, metadata' = metadata, asked' = asked, Owed' = Owed,
         \A of \in 1..asked : AnswerInv(of)
  PROVE  \A of \in 1..asked' : AnswerInv(of)'
BY DEF AnswerInv, RowsOfAnswer

LEMMA SoundKept == PartInv /\ [UsageNext]_usageVars => SoundInv'
<1>1. SUFFICES ASSUME PartInv, [UsageNext]_usageVars PROVE SoundInv'
  OBVIOUS
<1>t. /\ usage \in Seq(Rows) /\ rows \in Seq(Rows) /\ next \in Seq(Rows)
      /\ attempts \in Nat /\ queued \in Nat /\ metadata.asked \in Nat /\ asked \in Nat
      /\ metadata \in [asked : Nat, group : Groups \cup {NoRunId}, tokens : Counts \cup {NoCount}]
      /\ (turn # "idle" => run \in RunIds)
  BY <1>1 DEF PartInv, UsageInv, RowsInv
<1>b. BegunInv
  BY <1>1 DEF PartInv
<1>s. SoundInv
  BY <1>1 DEF PartInv
<1>2. ASSUME NEW r \in RunIds, BeginRun(r) PROVE SoundInv'
  <2>1. /\ turn' = "asking" /\ run' = r /\ attempts' = 0 /\ usage' = <<>> /\ queued' = 0
        /\ event' = NoEvent /\ rows' = rows /\ metadata' = metadata /\ asked' = asked
        /\ sound' = (r \notin begun)
    BY <1>2 DEF BeginRun
  <2>2. SUFFICES ASSUME r \notin begun PROVE SoundInv'
    BY <2>1 DEF SoundInv
  <2>3. OfRun(rows)' = {}
    BY <1>b, <2>1, <2>2 DEF OfRun, BegunInv
  <2>4. Part(rows)' = <<>>
    <3>1. Part(rows)' = Picked(rows, {})
      BY <2>1, <2>3 DEF Part
    <3>2. Cardinality({}) = 0
      BY FS_EmptySet
    <3>3. Picked(rows, {}) \in Seq(Rows) /\ Len(Picked(rows, {})) = 0
      BY <1>t, <3>2, PickedPlaces
    <3>. QED
      BY <3>1, <3>3
  <2>5. \A of : AnswerInv(of)'
    <3>1. \A of : RowsOfAnswer(usage, of)' = {}
      BY <2>1 DEF RowsOfAnswer
    <3>2. Owed' = 0
      BY <2>1 DEF Owed
    <3>. QED
      BY <3>1, <3>2, FS_EmptySet DEF AnswerInv
  <2>6. Len(usage') = 0 /\ DOMAIN usage' = {}
    BY <2>1
  <2>. QED
    BY <2>1, <2>3, <2>4, <2>5, <2>6 DEF SoundInv
<1>3. ASSUME NEW g \in Groups, NEW tokens \in Counts, NEW size \in BatchSizes,
             ModelAnswers(g, tokens, size)
      PROVE  SoundInv'
  <2>1. /\ turn = "asking" /\ queued = 0 /\ turn' = "answered" /\ attempts' = attempts + 1
        /\ asked' = asked + 1 /\ queued' = size - 1 /\ metadata'.asked = asked + 1
        /\ run' = run /\ usage' = usage /\ rows' = rows /\ sound' = sound
    BY <1>3 DEF ModelAnswers
  <2>2. SUFFICES ASSUME sound PROVE SoundInv'
    BY <2>1 DEF SoundInv
  <2>3. /\ Part(rows) = usage
        /\ \A i \in OfRun(rows) : rows[i].id[2] < attempts \/ rows[i].id[2] = attempts
        /\ Len(usage) = attempts /\ \A i \in DOMAIN usage : usage[i].of <= asked
        /\ \A of \in 1..asked : AnswerInv(of)
    BY <1>s, <1>t, <2>1, <2>2 DEF SoundInv
  <2>4. Part(rows)' = usage' /\ OfRun(rows)' = OfRun(rows)
    BY <2>1, <2>3 DEF Part, OfRun
  <2>5. \A i \in OfRun(rows) : rows[i].id[2] \in Nat
    BY <1>t, IdNumbers
  <2>6. \A i \in OfRun(rows)' : rows'[i].id[2] < attempts'
    <3>1. ASSUME NEW i \in OfRun(rows) PROVE rows[i].id[2] < attempts + 1
      <4>1. rows[i].id[2] \in Nat /\ (rows[i].id[2] < attempts \/ rows[i].id[2] = attempts)
        BY <2>3, <2>5
      <4>. QED
        BY <1>t, <4>1
    <3>. QED
      BY <2>1, <2>4, <3>1
  <2>7. ASSUME NEW i \in DOMAIN usage PROVE usage[i].of <= asked + 1 /\ usage[i].of # asked + 1
    <3>1. usage[i] \in Rows /\ usage[i].of <= asked
      BY <1>t, <2>3
    <3>2. usage[i].of \in Nat
      BY <3>1 DEF Rows
    <3>3. asked \in Nat
      BY <1>t
    <3>. QED
      BY ONLY <3>1, <3>2, <3>3
  <2>8. ASSUME NEW of \in 1..asked' PROVE AnswerInv(of)'
    <3>1. RowsOfAnswer(usage, of)' = RowsOfAnswer(usage, of)
      BY <2>1 DEF RowsOfAnswer
    <3>2. CASE of = asked + 1
      <4>1. RowsOfAnswer(usage, of) = {}
        BY <2>7, <3>2 DEF RowsOfAnswer
      <4>2. Owed' = size
        BY <2>1 DEF Owed
      <4>3. Cardinality(RowsOfAnswer(usage, of)') = 0 /\ 0 + size \in BatchSizes
        BY <3>1, <4>1, FS_EmptySet
      <4>. QED
        BY <2>1, <3>2, <4>2, <4>3 DEF AnswerInv
    <3>3. CASE of # asked + 1
      <4>1. of \in 1..asked
        BY <1>t, <2>1, <3>3
      <4>2. AnswerInv(of)
        BY <2>3, <4>1
      <4>3. Owed = 0
        BY <2>1 DEF Owed
      <4>4. Cardinality(RowsOfAnswer(usage, of)) \in Nat
        <5>1. RowsOfAnswer(usage, of) \subseteq DOMAIN usage
          BY DEF RowsOfAnswer
        <5>. HIDE DEF RowsOfAnswer
        <5>. QED
          BY <1>t, <5>1, PickedPlaces
      <4>5. \/ Cardinality(RowsOfAnswer(usage, of)) = 0
            \/ Cardinality(RowsOfAnswer(usage, of)) \in BatchSizes
        BY <4>2, <4>3, <4>4 DEF AnswerInv
      <4>. QED
        BY <2>1, <3>1, <3>3, <4>5 DEF AnswerInv
    <3>. QED
      BY <3>2, <3>3
  <2>. QED
    BY <1>t, <2>1, <2>3, <2>4, <2>6, <2>7, <2>8 DEF SoundInv
<1>4. CASE TakeCall
  <2>1. /\ turn = "asking" /\ queued > 0 /\ turn' = "answered" /\ attempts' = attempts + 1
        /\ queued' = queued - 1 /\ asked' = asked /\ metadata' = metadata
        /\ run' = run /\ usage' = usage /\ rows' = rows /\ sound' = sound
    BY <1>4 DEF TakeCall
  <2>2. SUFFICES ASSUME sound PROVE SoundInv'
    BY <2>1 DEF SoundInv
  <2>3. /\ Part(rows) = usage
        /\ \A i \in OfRun(rows) : rows[i].id[2] < attempts \/ rows[i].id[2] = attempts
        /\ Len(usage) = attempts /\ \A i \in DOMAIN usage : usage[i].of <= asked
        /\ \A of \in 1..asked : AnswerInv(of)
    BY <1>s, <1>t, <2>1, <2>2 DEF SoundInv
  <2>4. Part(rows)' = usage' /\ OfRun(rows)' = OfRun(rows)
    BY <2>1, <2>3 DEF Part, OfRun
  <2>5. \A i \in OfRun(rows) : rows[i].id[2] \in Nat
    BY <1>t, IdNumbers
  <2>6. \A i \in OfRun(rows)' : rows'[i].id[2] < attempts'
    <3>1. ASSUME NEW i \in OfRun(rows) PROVE rows[i].id[2] < attempts + 1
      <4>1. rows[i].id[2] \in Nat /\ (rows[i].id[2] < attempts \/ rows[i].id[2] = attempts)
        BY <2>3, <2>5
      <4>. QED
        BY <1>t, <4>1
    <3>. QED
      BY <2>1, <2>4, <3>1
  <2>7. Owed' = Owed
    BY <1>t, <2>1 DEF Owed
  <2>8. \A of \in 1..asked' : AnswerInv(of)'
    BY <2>1, <2>3, <2>7, AnswersAlike
  <2>. QED
    BY <1>t, <2>1, <2>3, <2>4, <2>6, <2>8 DEF SoundInv
<1>5. CASE KeepRecord
  <2>. DEFINE row == UsageRecord
  <2>1. /\ turn = "answered" /\ turn' = "kept" /\ usage' = Append(usage, row)
        /\ attempts' = attempts /\ queued' = queued /\ asked' = asked /\ metadata' = metadata
        /\ run' = run /\ rows' = rows /\ sound' = sound
    BY <1>5 DEF KeepRecord
  <2>2. SUFFICES ASSUME sound PROVE SoundInv'
    BY <2>1 DEF SoundInv
  <2>3. /\ Part(rows) = usage
        /\ \A i \in OfRun(rows) : rows[i].id[2] < attempts
        /\ Len(usage) + 1 = attempts /\ \A i \in DOMAIN usage : usage[i].of <= asked
        /\ \A of \in 1..asked : AnswerInv(of)
    BY <1>s, <1>t, <2>1, <2>2 DEF SoundInv
  <2>4. row \in Rows /\ row.of = metadata.asked
    BY <1>t, <2>1 DEF UsageRecord, UsageId, Rows
  <2>. HIDE DEF row
  <2>5. /\ usage' \in Seq(Rows) /\ Len(usage') = Len(usage) + 1 /\ usage'[Len(usage')] = row
        /\ \A i \in DOMAIN usage' : (i \in DOMAIN usage /\ usage'[i] = usage[i]) \/ usage'[i] = row
    BY <1>t, <2>1, <2>4, AppendProperties
  <2>6. Part(rows)' = Part(rows) /\ OfRun(rows)' = OfRun(rows)
    BY <2>1 DEF Part, OfRun
  <2>7. \A i \in DOMAIN usage' : usage'[i].of <= asked'
    BY <1>b, <2>1, <2>3, <2>4, <2>5 DEF BegunInv
  <2>8. ASSUME NEW of \in 1..asked' PROVE AnswerInv(of)'
    <3>1. /\ Cardinality(RowsOfAnswer(usage, of)) \in Nat
          /\ Cardinality(RowsOfAnswer(Append(usage, row), of)) =
               Cardinality(RowsOfAnswer(usage, of)) + IF row.of = of THEN 1 ELSE 0
      BY <1>t, <2>4, AnswerLonger
    <3>2. RowsOfAnswer(usage, of)' = RowsOfAnswer(Append(usage, row), of)
      BY <2>1 DEF RowsOfAnswer
    <3>3. AnswerInv(of) /\ Owed = queued + 1 /\ Owed' = queued
      BY <2>1, <2>3, <1>t DEF Owed
    <3>. HIDE DEF RowsOfAnswer
    <3>4. CASE of = metadata.asked
      <4>1. Cardinality(RowsOfAnswer(usage, of)) + Owed \in BatchSizes
        BY <1>t, <3>3, <3>4 DEF AnswerInv
      <4>2. Cardinality(RowsOfAnswer(usage, of)') + Owed' = Cardinality(RowsOfAnswer(usage, of)) + Owed
        BY <1>t, <2>4, <3>1, <3>2, <3>3, <3>4
      <4>. QED
        BY <2>1, <3>4, <4>1, <4>2 DEF AnswerInv
    <3>5. CASE of # metadata.asked
      <4>1. Cardinality(RowsOfAnswer(usage, of)') = Cardinality(RowsOfAnswer(usage, of))
        BY <2>4, <3>1, <3>2, <3>5
      <4>. QED
        BY <2>1, <3>3, <3>5, <4>1 DEF AnswerInv
    <3>. QED
      BY <3>4, <3>5
  <2>. QED
    BY <1>t, <2>1, <2>3, <2>5, <2>6, <2>7, <2>8 DEF SoundInv
<1>6. ASSUME NEW read \in BOOLEAN, ReadRows(read) PROVE SoundInv'
  <2>1. /\ turn = "kept" /\ run' = run /\ attempts' = attempts /\ metadata' = metadata
        /\ queued' = queued /\ usage' = usage /\ rows' = rows /\ asked' = asked
        /\ sound' = (sound /\ read)
    BY <1>6 DEF ReadRows
  <2>2. SUFFICES ASSUME sound, read PROVE SoundInv'
    BY <2>1 DEF SoundInv
  <2>. DEFINE record == usage[Len(usage)]
  <2>3. /\ usage = Append(Part(rows), record)
        /\ \A i \in OfRun(rows) : rows[i].id[2] < attempts
        /\ Len(usage) = attempts /\ \A i \in DOMAIN usage : usage[i].of <= asked
        /\ \A of \in 1..asked : AnswerInv(of)
    BY <1>s, <1>t, <2>1, <2>2 DEF SoundInv
  <2>4. record.id = <<run, attempts>> /\ record.id[1] = run /\ record.id[2] = attempts
    BY <1>b, <2>1 DEF BegunInv
  <2>5. record \in Rows
    <3>1. usage # <<>>
      BY <1>1, <2>1 DEF PartInv, UsageInv, RowsInv
    <3>2. Len(usage) \in 1..Len(usage)
      BY <1>t, <3>1
    <3>. QED
      BY <1>t, <3>2
  <2>. HIDE DEF record
  <2>6. \A i \in OfRun(rows) : rows[i].id[2] \in Nat
    BY <1>t, IdNumbers
  <2>7. record.id \notin Ids(rows)
    <3>1. ASSUME NEW i \in DOMAIN rows, rows[i].id = record.id PROVE FALSE
      <4>1. i \in OfRun(rows) /\ rows[i].id[2] = attempts
        BY <2>4, <3>1 DEF OfRun
      <4>. QED
        BY <1>t, <2>3, <4>1
    <3>. QED
      BY <3>1 DEF Ids
  <2>8. next' = Append(rows, record) /\ turn' = "writing"
    BY <1>6, <2>2, <2>7 DEF ReadRows, Inserted, record
  <2>9. /\ Part(Append(rows, record)) = Append(Part(rows), record)
        /\ \A i \in OfRun(Append(rows, record)) :
             (i \in OfRun(rows) /\ Append(rows, record)[i] = rows[i])
             \/ Append(rows, record)[i] = record
    BY <1>t, <2>4, <2>5, PartLonger
  <2>10. Part(next)' = usage' /\ OfRun(next)' = OfRun(Append(rows, record))
    BY <2>1, <2>3, <2>8, <2>9 DEF Part, OfRun
  <2>11. \A i \in OfRun(next)' : next'[i].id[2] <= attempts'
    <3>1. ASSUME NEW i \in OfRun(Append(rows, record))
          PROVE  Append(rows, record)[i].id[2] <= attempts
      <4>1. CASE i \in OfRun(rows) /\ Append(rows, record)[i] = rows[i]
        BY <1>t, <2>3, <2>6, <4>1
      <4>2. CASE Append(rows, record)[i] = record
        BY <1>t, <2>4, <4>2
      <4>. QED
        BY <2>9, <4>1, <4>2
    <3>. QED
      BY <2>1, <2>8, <2>10, <3>1
  <2>12. OfRun(rows)' = OfRun(rows)
    BY <2>1 DEF OfRun
  <2>13. Owed' = Owed
    BY <2>1, <2>8 DEF Owed
  <2>14. \A of \in 1..asked' : AnswerInv(of)'
    BY <2>1, <2>3, <2>13, AnswersAlike
  <2>15. (\A i \in OfRun(rows) : rows[i].id[2] < attempts)'
    BY <2>1, <2>3, <2>12
  <2>16. (Len(usage) = attempts /\ \A i \in DOMAIN usage : usage[i].of <= asked)'
    BY <2>1, <2>3
  <2>17. (Len(usage) + (IF turn = "answered" THEN 1 ELSE 0) = attempts)'
    BY <1>t, <2>1, <2>3, <2>8
  <2>18. (Part(next) = usage)'
    BY <2>10
  <2>. HIDE DEF Part, OfRun, AnswerInv
  <2>. QED
    BY <2>8, <2>11, <2>14, <2>15, <2>16, <2>17, <2>18 DEF SoundInv
<1>7. CASE WriteRows
  <2>1. /\ turn = "writing" /\ turn' = "written" /\ rows' = next /\ run' = run
        /\ attempts' = attempts /\ metadata' = metadata /\ queued' = queued
        /\ usage' = usage /\ asked' = asked /\ sound' = sound
    BY <1>7 DEF WriteRows
  <2>2. SUFFICES ASSUME sound PROVE SoundInv'
    BY <2>1 DEF SoundInv
  <2>3. /\ Part(next) = usage
        /\ \A i \in OfRun(next) : next[i].id[2] <= attempts
        /\ Len(usage) = attempts /\ \A i \in DOMAIN usage : usage[i].of <= asked
        /\ \A of \in 1..asked : AnswerInv(of)
    BY <1>s, <1>t, <2>1, <2>2 DEF SoundInv
  <2>4. Part(rows)' = usage' /\ OfRun(rows)' = OfRun(next)
    BY <2>1, <2>3 DEF Part, OfRun
  <2>5. \A i \in OfRun(next) : next[i].id[2] \in Nat
    BY <1>t, IdNumbers
  <2>6. \A i \in OfRun(rows)' : rows'[i].id[2] < attempts' \/ rows'[i].id[2] = attempts'
    BY <1>t, <2>1, <2>3, <2>4, <2>5
  <2>7. Owed' = Owed
    BY <2>1 DEF Owed
  <2>8. \A of \in 1..asked' : AnswerInv(of)'
    BY <2>1, <2>3, <2>7, AnswersAlike
  <2>. QED
    BY <1>t, <2>1, <2>3, <2>4, <2>6, <2>8 DEF SoundInv
<1>8. CASE WriteSummary
  <2>1. /\ turn = "written" /\ turn' = "asking" /\ rows' = rows /\ run' = run
        /\ attempts' = attempts /\ metadata' = metadata /\ queued' = queued
        /\ usage' = usage /\ asked' = asked /\ sound' = sound
        /\ event' = [run |-> Snapshot(usage), session |-> Snapshot(next)]
    BY <1>8 DEF WriteSummary, Announce
  <2>2. SUFFICES ASSUME sound PROVE SoundInv'
    BY <2>1 DEF SoundInv
  <2>3. /\ Part(rows) = usage
        /\ \A i \in OfRun(rows) : rows[i].id[2] < attempts \/ rows[i].id[2] = attempts
        /\ Len(usage) = attempts /\ \A i \in DOMAIN usage : usage[i].of <= asked
        /\ \A of \in 1..asked : AnswerInv(of)
    BY <1>s, <1>t, <2>1, <2>2 DEF SoundInv
  <2>4. Part(rows)' = usage' /\ OfRun(rows)' = OfRun(rows)
    BY <2>1, <2>3 DEF Part, OfRun
  <2>5. event' = [run |-> Snapshot(usage), session |-> Snapshot(rows)]
    BY <1>b, <2>1 DEF BegunInv
  <2>6. event' = [run |-> Snapshot(usage), session |-> Snapshot(rows)]'
    <3>1. Snapshot(usage)' = Snapshot(usage) /\ Snapshot(rows)' = Snapshot(rows)
      BY <2>1
    <3>. HIDE DEF Snapshot
    <3>. QED
      BY <2>5, <3>1
  <2>7. Owed' = Owed
    BY <2>1 DEF Owed
  <2>8. \A of \in 1..asked' : AnswerInv(of)'
    BY <2>1, <2>3, <2>7, AnswersAlike
  <2>. QED
    BY <1>t, <2>1, <2>3, <2>4, <2>6, <2>8 DEF SoundInv
<1>9. CASE WriteFails
  BY <1>9 DEF SoundInv, WriteFails
<1>10. CASE EndUsage
  BY <1>10 DEF SoundInv, EndUsage
<1>11. CASE UsageRestart
  BY <1>11 DEF SoundInv, UsageRestart
<1>12. CASE UNCHANGED usageVars
  <2>1. /\ turn' = turn /\ rows' = rows /\ run' = run /\ next' = next /\ event' = event
        /\ attempts' = attempts /\ metadata' = metadata /\ queued' = queued
        /\ usage' = usage /\ asked' = asked /\ sound' = sound
    BY <1>12 DEF usageVars
  <2>2. /\ Part(rows)' = Part(rows) /\ Part(next)' = Part(next)
        /\ OfRun(rows)' = OfRun(rows) /\ OfRun(next)' = OfRun(next) /\ Owed' = Owed
        /\ Snapshot(usage)' = Snapshot(usage) /\ Snapshot(rows)' = Snapshot(rows)
    BY <2>1 DEF Part, OfRun, Owed, Snapshot
  <2>3. \A of \in 1..asked : AnswerInv(of)' <=> AnswerInv(of)
    BY <2>1, <2>2 DEF AnswerInv, RowsOfAnswer
  <2>. QED
    BY <1>s, <2>1, <2>2, <2>3 DEF SoundInv
<1>. QED
  BY <1>1, <1>2, <1>3, <1>4, <1>5, <1>6, <1>7, <1>8, <1>9, <1>10, <1>11, <1>12 DEF UsageNext

LEMMA PartImplies == PartInv => UsageTrue
<1>1. SUFFICES ASSUME PartInv PROVE UsageTrue
  OBVIOUS
<1>2. UsageTypeOK /\ SnapshotCurrent
  BY <1>1, InvGivesTypes, InvGivesCurrent DEF PartInv
<1>3. RowsOf(run) = Part(rows)
  BY DEF RowsOf, Part, OfRun
<1>t. /\ usage \in Seq(Rows) /\ rows \in Seq(Rows) /\ next \in Seq(Rows)
      /\ attempts \in Nat /\ queued \in Nat
  BY <1>1 DEF PartInv, UsageInv, RowsInv
<1>4. ASSUME sound, turn = "asking"
      PROVE  /\ RowsOf(run) = usage /\ Len(usage) = attempts
             /\ event # NoEvent => event = [run |-> Snapshot(usage), session |-> Snapshot(rows)]
             /\ \A of \in 1..asked : AnswerInv(of)
  BY <1>1, <1>3, <1>4, <1>t DEF PartInv, SoundInv
<1>5. RunIsPart
  <2>1. SUFFICES ASSUME event # NoEvent, sound, turn = "asking"
                 PROVE  event.run = Snapshot(RowsOf(run)) /\ event.session = Snapshot(rows)
    BY DEF RunIsPart
  <2>2. RowsOf(run) = usage /\ event = [run |-> Snapshot(usage), session |-> Snapshot(rows)]
    BY <1>4, <2>1
  <2>. QED
    BY <2>2
<1>6. CountedPerCall
  <2>1. SUFFICES ASSUME turn = "asking", sound
                 PROVE  /\ Len(RowsOf(run)) = attempts
                        /\ queued = 0 => \A of \in 1..asked :
                             LET counted == {i \in DOMAIN RowsOf(run) : RowsOf(run)[i].of = of}
                             IN counted = {} \/ Cardinality(counted) \in BatchSizes
    BY DEF CountedPerCall
  <2>2. RowsOf(run) = usage /\ Len(usage) = attempts /\ \A of \in 1..asked : AnswerInv(of)
    BY <1>4, <2>1
  <2>3. ASSUME queued = 0, NEW of \in 1..asked
        PROVE  RowsOfAnswer(usage, of) = {} \/ Cardinality(RowsOfAnswer(usage, of)) \in BatchSizes
    <3>1. AnswerInv(of) /\ Owed = 0
      BY <2>1, <2>2, <2>3 DEF Owed
    <3>2. IsFiniteSet(RowsOfAnswer(usage, of)) /\ Cardinality(RowsOfAnswer(usage, of)) \in Nat
      <4>1. RowsOfAnswer(usage, of) \subseteq DOMAIN usage
        BY DEF RowsOfAnswer
      <4>. HIDE DEF RowsOfAnswer
      <4>. QED
        BY <1>t, <4>1, PickedPlaces
    <3>. HIDE DEF RowsOfAnswer
    <3>3. \/ Cardinality(RowsOfAnswer(usage, of)) = 0
          \/ Cardinality(RowsOfAnswer(usage, of)) \in BatchSizes
      BY <3>1, <3>2 DEF AnswerInv
    <3>. QED
      BY <3>2, <3>3, FS_EmptySet
  <2>. QED
    BY <2>2, <2>3 DEF RowsOfAnswer
<1>. QED
  BY <1>2, <1>5, <1>6 DEF UsageTrue

(* For any runs, answers, batches and counts, over files that fail, ends of *)
(* the process and runs that are run again: the usage that is shown is the  *)
(* usage that was recorded, a run's part is within the session's, and each  *)
(* call of an answer has one row (UsageStore, usage records).               *)
THEOREM UsageStaysTrue == UsageSpec => []UsageTrue
<1>1. UsageInv /\ [UsageNext]_usageVars => UsageInv'
  BY InvKept
<1>2. PartInv /\ [UsageNext]_usageVars => PartInv'
  BY <1>1, BegunKept, SoundKept DEF PartInv
<1>. QED
  BY PartInit, <1>2, PartImplies, PTL DEF UsageSpec
=============================================================================
