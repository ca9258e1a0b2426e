----------------------------- MODULE GuardsProofs -----------------------------
(***************************************************************************)
(* Proofs about the guards of a tool call: the read guard, for any files,   *)
(* versions, lines and windows, the tool gate, for any tools, keys and      *)
(* failure threshold, and the progress watchdog, for any limits, windows    *)
(* and events.                                                              *)
(***************************************************************************)
EXTENDS ReadGuard, ToolGate, ProgressWatchdog, OrderingProofs, TLAPS

-----------------------------------------------------------------------------

(* The read guard: its windows claim only what was read.                    *)

RangeRecords == [path : Files, from : Lines, to : Lines, version : Versions]

(* The windows, and what the reads so far are worth.                        *)
WindowsInv ==
  /\ version \in [Files -> Versions]
  /\ ranges \in Seq(RangeRecords) /\ Len(ranges) <= RangeLimit
  /\ inspected \in Seq(RangeRecords) /\ Len(inspected) <= EntryLimit
  /\ stateRanges \in Seq(RangeRecords) /\ Len(stateRanges) <= StateLimit
  /\ changedFiles \in Seq(Files) /\ IsInjective(changedFiles)
GuardInv == WindowsInv /\ LedgerTrue /\ HeldBackWasRead /\ InspectedCurrent

(* What a window holds after a renewal is what it held, or the new record.  *)
WindowOf(t, s, S, e, n) ==
  /\ t \in Seq(RangeRecords) /\ Len(t) <= n
  /\ \A x \in ToSet(t) : x = e \/ \E i \in S : x = s[i]

LEMMA WindowRenewed ==
  ASSUME NEW s \in Seq(RangeRecords), NEW S, S \subseteq DOMAIN s, NEW e \in RangeRecords,
         NEW n \in Nat \ {0}
  PROVE  WindowOf(Newest(Append(Picked(s, S), e), n), s, S, e, n)
<1>. DEFINE t == Newest(Append(Picked(s, S), e), n)
<1>1. t = Renewed(s, S, e, n)
  BY DEF Newest, Renewed, EndOf
<1>. HIDE DEF t
<1>2. /\ t \in Seq(RangeRecords) /\ Len(t) <= n
      /\ \A k \in DOMAIN t : t[k] = e \/ \E i \in S : t[k] = s[i]
  BY <1>1, RenewedMembers
<1>3. \A x \in ToSet(t) : x = e \/ \E i \in S : x = s[i]
  BY <1>2 DEF ToSet
<1>. QED
  BY <1>2, <1>3 DEF t, WindowOf

LEMMA RestOfWindow ==
  ASSUME NEW A, NEW s \in Seq(A), NEW S, S \subseteq DOMAIN s
  PROVE  \A x \in ToSet(Picked(s, S)) : \E i \in S : x = s[i]
BY PickedMembers DEF ToSet

(* Two ranges that touch make a range of nothing but their lines.           *)
LEMMA TouchingLines ==
  ASSUME NEW r \in RangeRecords, NEW s \in RangeRecords, SameVersion(s, r), Touch(s, r)
  PROVE  LET w == [r EXCEPT !.from = IF s.from < @ THEN s.from ELSE @,
                            !.to = IF s.to > @ THEN s.to ELSE @]
         IN w \in RangeRecords /\ SameVersion(r, w) /\ LinesOf(w) \subseteq LinesOf(r) \cup LinesOf(s)
<1>. DEFINE from == IF s.from < r.from THEN s.from ELSE r.from
            to == IF s.to > r.to THEN s.to ELSE r.to
            w == [r EXCEPT !.from = from, !.to = to]
<1>1. r.from \in Nat /\ r.to \in Nat /\ s.from \in Nat /\ s.to \in Nat
  BY ReadGuardAssumption DEF RangeRecords
<1>2. from \in Lines /\ to \in Lines
  BY DEF RangeRecords
<1>3. w \in RangeRecords /\ w.path = r.path /\ w.version = r.version /\ w.from = from /\ w.to = to
  BY <1>2 DEF RangeRecords
<1>4. \A l \in from..to : l \in r.from..r.to \/ l \in s.from..s.to
  BY <1>1 DEF Touch
<1>. HIDE DEF from, to
<1>5. LinesOf(w) \subseteq LinesOf(r) \cup LinesOf(s)
  BY <1>3, <1>4 DEF LinesOf, SameVersion
<1>6. SameVersion(r, w)
  BY <1>3 DEF SameVersion
<1>. QED
  BY <1>3, <1>5, <1>6 DEF from, to

(* A record that is merged holds lines of the read and of records of the    *)
(* same version.                                                            *)
LEMMA PendingOrders == ASSUME ranges \in Seq(RangeRecords), NEW S, S \subseteq DOMAIN ranges
                       PROVE  Orders(Pending(S), S)
<1>. DEFINE before(i, j) == \/ ranges[i].from < ranges[j].from
                            \/ ranges[i].from = ranges[j].from /\ ranges[i].to < ranges[j].to
                            \/ /\ ranges[i].from = ranges[j].from
                               /\ ranges[i].to = ranges[j].to /\ i < j
<1>1. \A i \in S : i \in Nat /\ ranges[i].from \in Nat /\ ranges[i].to \in Nat
  <2>1. \A i \in DOMAIN ranges : i \in Nat /\ ranges[i] \in RangeRecords
    OBVIOUS
  <2>2. \A x \in RangeRecords : x.from \in Nat /\ x.to \in Nat
    BY ReadGuardAssumption DEF RangeRecords
  <2>. QED
    BY <2>1, <2>2
<1>2. \A i, j \in S : <<i, j>> \in Pending(S) <=> before(i, j)
  BY DEF Pending
<1>3. \A i, j \in S : i = j \/ before(i, j) \/ before(j, i)
  BY <1>1
<1>4. \A i \in S : ~before(i, i)
  BY <1>1
<1>5. \A i, j, k \in S : before(i, j) /\ before(j, k) => before(i, k)
  BY <1>1
<1>. HIDE DEF before
<1>. QED
  BY <1>2, <1>3, <1>4, <1>5 DEF Orders

Holding(r) ==
  {w \in RangeRecords :
     /\ SameVersion(r, w)
     /\ LinesOf(w) \subseteq LinesOf(r) \cup
          UNION {LinesOf(s) : s \in {x \in ToSet(ranges) : SameVersion(x, r)}}}

LEMMA MergeHolds ==
  ASSUME NEW r \in RangeRecords, NEW got \in [new : Holding(r), gone : SUBSET RangeRecords],
         NEW s \in ToSet(ranges), s \in RangeRecords, SameVersion(s, r)
  PROVE  Merge(got, s) \in [new : Holding(r), gone : SUBSET RangeRecords]
<1>1. CASE ~Touch(s, got.new)
  BY <1>1 DEF Merge
<1>2. CASE Touch(s, got.new)
  <2>. DEFINE w == [got.new EXCEPT !.from = IF s.from < @ THEN s.from ELSE @,
                                   !.to = IF s.to > @ THEN s.to ELSE @]
  <2>1. got.new \in RangeRecords /\ SameVersion(s, got.new) /\ SameVersion(r, got.new)
    BY DEF Holding, SameVersion
  <2>2. w \in RangeRecords /\ SameVersion(got.new, w) /\ LinesOf(w) \subseteq LinesOf(got.new) \cup LinesOf(s)
    BY <1>2, <2>1, TouchingLines
  <2>3. Merge(got, s) = [new |-> w, gone |-> got.gone \cup {s}]
    BY <1>2 DEF Merge
  <2>. HIDE DEF w
  <2>4. SameVersion(r, w)
    BY <2>1, <2>2 DEF SameVersion
  <2>5. w \in Holding(r)
    BY <2>2, <2>4 DEF Holding
  <2>. QED
    BY <2>3, <2>5
<1>. QED
  BY <1>1, <1>2

LEMMA MergedTrue ==
  ASSUME ranges \in Seq(RangeRecords), NEW r \in RangeRecords
  PROVE  \E S \in SUBSET DOMAIN ranges, w \in Holding(r) :
           MergeReadRanges(r) = Append(Picked(ranges, S), w)
<1>. DEFINE compatible == {i \in DOMAIN ranges : SameVersion(ranges[i], r)}
            pending == Arranged(compatible, Pending(compatible))
            n == Cardinality(compatible)
            first == [new |-> r, gone |-> {}]
            X == [new : Holding(r), gone : SUBSET RangeRecords]
            got[k \in 0..Len(pending)] ==
              IF k = 0 THEN [new |-> r, gone |-> {}] ELSE Merge(got[k - 1], ranges[pending[k]])
            merged == got[Len(pending)]
            S == {i \in DOMAIN ranges : ranges[i] \notin merged.gone}
<1>1. MergeReadRanges(r) = Append(Picked(ranges, S), merged.new)
  BY DEF MergeReadRanges
<1>2. IsFiniteSet(compatible) /\ n \in Nat
  <2>1. compatible \subseteq DOMAIN ranges
    OBVIOUS
  <2>. HIDE DEF compatible
  <2>. QED
    BY <2>1, PickedPlaces
<1>3. Orders(Pending(compatible), compatible)
  <2>1. compatible \subseteq DOMAIN ranges
    OBVIOUS
  <2>. HIDE DEF compatible
  <2>. QED
    BY <2>1, PendingOrders
<1>4. pending \in [1..n -> compatible]
  <2>. HIDE DEF compatible
  <2>. QED
    BY <1>2, <1>3, ArrangedPlaces
<1>5. \A i \in compatible : /\ ranges[i] \in ToSet(ranges) /\ ranges[i] \in RangeRecords
                            /\ SameVersion(ranges[i], r)
  BY DEF ToSet
<1>. HIDE DEF compatible, pending, n
<1>6. pending \in Seq(compatible) /\ Len(pending) = n
  BY <1>2, <1>4
<1>7. first \in X
  BY DEF Holding, SameVersion
<1>. DEFINE step == [a \in X \X (1..n) |-> Merge(a[1], ranges[pending[a[2]]])]
<1>8. step \in [X \X (1..n) -> X]
  <2>1. ASSUME NEW a \in X \X (1..n) PROVE Merge(a[1], ranges[pending[a[2]]]) \in X
    <3>1. a[1] \in X /\ pending[a[2]] \in compatible
      BY <1>4
    <3>. HIDE DEF X
    <3>. QED
      BY <1>5, <3>1, MergeHolds DEF X
  <2>. HIDE DEF X
  <2>. QED
    BY <2>1
<1>9. \E g \in [0..n -> X] : Folded(g, first, n, step)
  <2>. HIDE DEF X, step, first
  <2>. QED
    BY <1>2, <1>7, <1>8, Folding
<1>10. PICK g \in [0..n -> X] : g[0] = first /\ \A k \in 1..n : g[k] = step[<<g[k - 1], k>>]
  BY <1>9 DEF Folded
<1>. HIDE DEF X
<1>11. ASSUME NEW k \in 1..n PROVE g[k] = Merge(g[k - 1], ranges[pending[k]])
  <2>1. k - 1 \in 0..n /\ g[k - 1] \in X
    BY <1>2
  <2>. QED
    BY <1>10, <2>1
<1>. HIDE DEF step
<1>12. g = [k \in 0..Len(pending) |->
             IF k = 0 THEN [new |-> r, gone |-> {}] ELSE Merge(g[k - 1], ranges[pending[k]])]
  <2>1. \A k \in 0..n : k = 0 \/ k \in 1..n
    BY <1>2
  <2>. QED
    BY <1>6, <1>10, <1>11, <2>1
<1>13. got = [k \in 0..Len(pending) |->
             IF k = 0 THEN [new |-> r, gone |-> {}] ELSE Merge(got[k - 1], ranges[pending[k]])]
  BY <1>12
<1>14. got[0] = first /\ \A k \in 1..n : got[k] = Merge(got[k - 1], ranges[pending[k]])
  <2>1. /\ 0 \in 0..Len(pending)
        /\ \A k \in 1..n : k \in 0..Len(pending) /\ k # 0
    BY <1>2, <1>6
  <2>. HIDE DEF got
  <2>. QED
    BY <1>13, <2>1
<1>. DEFINE T == {k \in 0..n : got[k] \in X}
<1>. HIDE DEF got, first
<1>15. 0 \in T
  BY <1>2, <1>7, <1>14
<1>16. \A k \in 1..n : k - 1 \in T => k \in T
  <2>1. ASSUME NEW k \in 1..n, got[k - 1] \in X PROVE got[k] \in X
    <3>1. pending[k] \in compatible
      BY <1>4
    <3>. QED
      BY <1>5, <1>14, <2>1, <3>1, MergeHolds DEF X
  <2>. QED
    BY <1>2, <2>1
<1>17. \A k \in 0..n : k \in T
  <2>. HIDE DEF T
  <2>. QED
    BY <1>2, <1>15, <1>16, CountUp
<1>18. merged \in X
  BY <1>2, <1>6, <1>17
<1>19. merged.new \in Holding(r) /\ S \in SUBSET DOMAIN ranges
  BY <1>18 DEF X
<1>. HIDE DEF merged, S
<1>. QED
  BY <1>1, <1>19

LEMMA NewRecord ==
  ASSUME WindowsInv, NEW p \in Files, NEW from \in Lines, NEW to \in Lines
  PROVE  AsRead(p, from, to) \in RangeRecords
BY DEF WindowsInv, AsRead, RangeRecords

LEMMA CoveredWasRead ==
  ASSUME LedgerTrue, NEW r PROVE Covered(r) \subseteq read /\ Covered(r) \subseteq LinesOf(r)
BY DEF Covered, LedgerTrue

LEMMA ReadTrue ==
  ASSUME GuardInv, NEW p \in Files, NEW from \in Lines, NEW to \in Lines, NEW force \in BOOLEAN,
         ReadLines(p, from, to, force)
  PROVE  GuardInv'
<1>. DEFINE r == AsRead(p, from, to)
            action == Action(r, force)
            returned == IF action = "delta_read" THEN LinesOf(r) \ Covered(r) ELSE LinesOf(r)
            keep == {i \in DOMAIN inspected : inspected[i] # r}
            keepState == {i \in DOMAIN stateRanges : ~SameLines(stateRanges[i], r)}
<1>1. /\ ranges' = Newest(MergeReadRanges(r), RangeLimit)
      /\ inspected' = Newest(Append(Picked(inspected, keep), r), EntryLimit)
      /\ stateRanges' = Newest(Append(Picked(stateRanges, keepState), r), StateLimit)
      /\ read' = read \cup returned
      /\ last'.asked = LinesOf(r)
      /\ UNCHANGED <<version, changedFiles, outside>>
  BY DEF ReadLines, Renew
<1>2. r \in RangeRecords /\ r.path = p /\ r.version = version[p]
  BY NewRecord DEF GuardInv, AsRead
<1>3. LinesOf(r) \subseteq read' /\ read \subseteq read'
  BY <1>1, CoveredWasRead DEF GuardInv
<1>4. keep \subseteq DOMAIN inspected /\ keepState \subseteq DOMAIN stateRanges
  OBVIOUS
<1>5. /\ ranges \in Seq(RangeRecords) /\ inspected \in Seq(RangeRecords)
      /\ stateRanges \in Seq(RangeRecords)
      /\ RangeLimit \in Nat \ {0} /\ EntryLimit \in Nat \ {0} /\ StateLimit \in Nat \ {0}
  BY ReadGuardAssumption DEF GuardInv, WindowsInv
<1>. HIDE DEF r, returned, keep, keepState
<1>6. PICK S \in SUBSET DOMAIN ranges, w \in Holding(r) : MergeReadRanges(r) = Append(Picked(ranges, S), w)
  BY <1>2, <1>5, MergedTrue
<1>7. w \in RangeRecords /\ LinesOf(w) \subseteq read'
  <2>1. \A s \in ToSet(ranges) : LinesOf(s) \subseteq read
    BY DEF GuardInv, LedgerTrue
  <2>. QED
    BY <1>3, <2>1 DEF Holding
<1>8. /\ ranges' \in Seq(RangeRecords) /\ Len(ranges') <= RangeLimit
      /\ \A x \in ToSet(ranges') : x = w \/ \E i \in S : x = ranges[i]
  <2>1. ranges' = Newest(Append(Picked(ranges, S), w), RangeLimit)
    BY <1>1, <1>6
  <2>2. S \subseteq DOMAIN ranges
    BY <1>6
  <2>. QED
    <3>1. WindowOf(ranges', ranges, S, w, RangeLimit)
      BY <1>5, <1>7, <2>1, <2>2, WindowRenewed
    <3>. QED
      BY <3>1 DEF WindowOf
<1>9. /\ inspected' \in Seq(RangeRecords) /\ Len(inspected') <= EntryLimit
      /\ \A x \in ToSet(inspected') : x = r \/ \E i \in keep : x = inspected[i]
  <2>. DEFINE t == Newest(Append(Picked(inspected, keep), r), EntryLimit)
  <2>1. WindowOf(t, inspected, keep, r, EntryLimit)
    BY <1>2, <1>4, <1>5, WindowRenewed
  <2>2. inspected' = t
    BY <1>1
  <2>. HIDE DEF t
  <2>. QED
    BY <2>1, <2>2 DEF WindowOf
<1>10. /\ stateRanges' \in Seq(RangeRecords) /\ Len(stateRanges') <= StateLimit
       /\ \A x \in ToSet(stateRanges') : x = r \/ \E i \in keepState : x = stateRanges[i]
  <2>. DEFINE t == Newest(Append(Picked(stateRanges, keepState), r), StateLimit)
  <2>1. WindowOf(t, stateRanges, keepState, r, StateLimit)
    BY <1>2, <1>4, <1>5, WindowRenewed
  <2>2. stateRanges' = t
    BY <1>1
  <2>. HIDE DEF t
  <2>. QED
    BY <2>1, <2>2 DEF WindowOf
<1>11. WindowsInv'
  BY <1>1, <1>8, <1>9, <1>10 DEF GuardInv, WindowsInv
<1>12. LedgerTrue'
  <2>1. ASSUME NEW x \in ToSet(ranges') PROVE {[path |-> x.path, version |-> x.version, line |-> l] : l \in x.from..x.to} \subseteq read'
    <3>1. CASE x = w
      BY <1>7, <3>1 DEF LinesOf
    <3>2. CASE \E i \in S : x = ranges[i]
      BY <1>3, <1>6, <3>2 DEF GuardInv, LedgerTrue, LinesOf, ToSet
    <3>. QED
      BY <1>8, <3>1, <3>2
  <2>. QED
    BY <2>1 DEF LedgerTrue, LinesOf
<1>13. HeldBackWasRead'
  BY <1>1, <1>3 DEF HeldBackWasRead
<1>14. InspectedCurrent'
  <2>1. ASSUME NEW x \in ToSet(inspected') \cup ToSet(stateRanges')
        PROVE  x = r \/ x \in ToSet(inspected) \cup ToSet(stateRanges)
    BY <1>4, <1>9, <1>10 DEF ToSet
  <2>. QED
    BY <1>1, <1>2, <2>1 DEF GuardInv, InspectedCurrent
<1>. QED
  BY <1>11, <1>12, <1>13, <1>14 DEF GuardInv

(* A read is recorded as evidence, whether it returns something or not.     *)
LEMMA EvidenceTrue ==
  ASSUME GuardInv, NEW p \in Files, NEW from \in Lines, NEW to \in Lines,
         inspected' = Renew(inspected, AsRead(p, from, to), EntryLimit),
         last'.asked \subseteq read,
         UNCHANGED <<version, ranges, stateRanges, changedFiles, read, outside>>
  PROVE  GuardInv'
<1>. DEFINE r == AsRead(p, from, to)
            keep == {i \in DOMAIN inspected : inspected[i] # r}
<1>1. /\ inspected' = Newest(Append(Picked(inspected, keep), r), EntryLimit)
      /\ last'.asked \subseteq read
      /\ UNCHANGED <<version, ranges, stateRanges, changedFiles, read, outside>>
  BY DEF Renew
<1>2. r \in RangeRecords /\ r.path = p /\ r.version = version[p]
  BY NewRecord DEF GuardInv, AsRead
<1>3. keep \subseteq DOMAIN inspected /\ inspected \in Seq(RangeRecords) /\ EntryLimit \in Nat \ {0}
  BY ReadGuardAssumption DEF GuardInv, WindowsInv
<1>. HIDE DEF r, keep
<1>4. /\ inspected' \in Seq(RangeRecords) /\ Len(inspected') <= EntryLimit
      /\ \A x \in ToSet(inspected') : x = r \/ \E i \in keep : x = inspected[i]
  <2>. DEFINE t == Newest(Append(Picked(inspected, keep), r), EntryLimit)
  <2>1. WindowOf(t, inspected, keep, r, EntryLimit)
    BY <1>2, <1>3, WindowRenewed
  <2>2. inspected' = t
    BY <1>1
  <2>. HIDE DEF t
  <2>. QED
    BY <2>1, <2>2 DEF WindowOf
<1>5. WindowsInv'
  BY <1>1, <1>4 DEF GuardInv, WindowsInv
<1>6. LedgerTrue' /\ HeldBackWasRead'
  BY <1>1 DEF GuardInv, LedgerTrue, HeldBackWasRead, LinesOf
<1>7. InspectedCurrent'
  <2>1. ASSUME NEW x \in ToSet(inspected') PROVE x = r \/ x \in ToSet(inspected)
    BY <1>3, <1>4 DEF ToSet
  <2>. QED
    BY <1>1, <1>2, <2>1 DEF GuardInv, InspectedCurrent
<1>. QED
  BY <1>5, <1>6, <1>7 DEF GuardInv

LEMMA SuppressTrue ==
  ASSUME GuardInv, NEW p \in Files, NEW from \in Lines, NEW to \in Lines,
         SuppressRead(p, from, to)
  PROVE  GuardInv'
<1>. DEFINE r == AsRead(p, from, to)
<1>1. /\ inspected' = Renew(inspected, r, EntryLimit)
      /\ last'.asked = LinesOf(r)
      /\ Action(r, FALSE) = "suppressed"
      /\ UNCHANGED <<version, ranges, stateRanges, changedFiles, read, outside>>
  BY DEF SuppressRead
<1>2. r \in RangeRecords /\ r.path = p /\ r.version = version[p]
  BY NewRecord DEF GuardInv, AsRead
<1>. HIDE DEF r
<1>3. LinesOf(r) \subseteq read
  BY <1>1, CoveredWasRead DEF Action, GuardInv
<1>. QED
  BY <1>1, <1>3, EvidenceTrue DEF r

LEMMA FailTrue ==
  ASSUME GuardInv, NEW p \in Files, NEW from \in Lines, NEW to \in Lines, ReadFails(p, from, to)
  PROVE  GuardInv'
<1>1. /\ inspected' = Renew(inspected, AsRead(p, from, to), EntryLimit)
      /\ last'.asked \subseteq read
      /\ UNCHANGED <<version, ranges, stateRanges, changedFiles, read, outside>>
  BY DEF ReadFails, GuardInv, HeldBackWasRead
<1>. QED
  BY <1>1, EvidenceTrue

(* A tool's change takes back what is known of its files.                   *)
LEMMA OthersKept ==
  ASSUME NEW s \in Seq(RangeRecords), NEW P
  PROVE  /\ OfOthers(s, P) \in Seq(RangeRecords) /\ Len(OfOthers(s, P)) <= Len(s)
         /\ \A x \in ToSet(OfOthers(s, P)) : x \in ToSet(s) /\ x.path \notin P
<1>. DEFINE S == {i \in DOMAIN s : s[i].path \notin P}
<1>1. OfOthers(s, P) = Picked(s, S) /\ S \subseteq DOMAIN s
  BY DEF OfOthers
<1>2. \A i \in S : s[i] \in ToSet(s) /\ s[i].path \notin P
  BY DEF ToSet
<1>. HIDE DEF S
<1>3. Picked(s, S) \in Seq(RangeRecords) /\ Len(Picked(s, S)) <= Len(s)
  BY <1>1, PickedMembers
<1>4. \A x \in ToSet(Picked(s, S)) : \E i \in S : x = s[i]
  BY <1>1, RestOfWindow
<1>. QED
  BY <1>1, <1>2, <1>3, <1>4

LEMMA Joined ==
  ASSUME NEW A, NEW s \in Seq(A), NEW t \in Seq(A)
  PROVE  \A k \in 1..(Len(s) + Len(t)) :
           (s \o t)[k] = IF k <= Len(s) THEN s[k] ELSE t[k - Len(s)]
OBVIOUS

LEMMA JoinedParts ==
  ASSUME NEW A, NEW s \in Seq(A), NEW t \in Seq(A)
  PROVE  /\ s \o t \in Seq(A) /\ Len(s \o t) = Len(s) + Len(t)
         /\ \A k \in 1..Len(s) : (s \o t)[k] = s[k]
         /\ \A k \in (Len(s) + 1)..(Len(s) + Len(t)) :
              (s \o t)[k] = t[k - Len(s)] /\ k - Len(s) \in 1..Len(t)
<1>1. s \o t \in Seq(A) /\ Len(s \o t) = Len(s) + Len(t)
  BY ConcatProperties
<1>2. \A k \in 1..(Len(s) + Len(t)) : (s \o t)[k] = IF k <= Len(s) THEN s[k] ELSE t[k - Len(s)]
  BY Joined
<1>3. Len(s) \in Nat /\ Len(t) \in Nat
  BY LenProperties
<1>4. \A k \in 1..Len(s) : k \in 1..(Len(s) + Len(t)) /\ k <= Len(s)
  BY ONLY <1>3
<1>5. \A k \in (Len(s) + 1)..(Len(s) + Len(t)) :
        k \in 1..(Len(s) + Len(t)) /\ ~(k <= Len(s)) /\ k - Len(s) \in 1..Len(t)
  BY ONLY <1>3
<1>. QED
  BY ONLY <1>1, <1>2, <1>4, <1>5

(* The changed files are those that were, and behind them the affected.     *)
LEMMA ChangedOnce ==
  ASSUME NEW s \in Seq(Files), IsInjective(s), NEW A, A \subseteq Files, NEW n \in Nat,
         NEW t \in [1..n -> A], \A i, j \in 1..n : t[i] = t[j] => i = j,
         NEW S, S = {i \in DOMAIN s : s[i] \notin A}
  PROVE  Picked(s, S) \o t \in Seq(Files) /\ IsInjective(Picked(s, S) \o t)
<1>. DEFINE p == Picked(s, S)
            c == Cardinality(S)
            q == p \o t
<1>1. p \in Seq(Files) /\ c \in Nat /\ Len(p) = c
  BY PickedPlaces
<1>2. PICK at \in [1..c -> S] : PickedAt(at, s, S)
  BY PickedPlaces
<1>3. /\ \A k \in 1..c : p[k] = s[at[k]] /\ at[k] \in S
      /\ \A k, l \in 1..c : k < l <=> at[k] < at[l]
  BY <1>2 DEF PickedAt
<1>4. \A i \in S : s[i] \notin A /\ i \in DOMAIN s /\ i \in Nat
  OBVIOUS
<1>5. t \in Seq(Files) /\ Len(t) = n
  OBVIOUS
<1>. HIDE DEF p, c
<1>6. /\ q \in Seq(Files) /\ Len(q) = c + n
      /\ \A k \in 1..c : q[k] = p[k]
      /\ \A k \in (c + 1)..(c + n) : q[k] = t[k - c] /\ k - c \in 1..n
  <2>1. p \in Seq(Files) /\ t \in Seq(Files) /\ Len(p) = c /\ Len(t) = n
    BY <1>1, <1>5
  <2>2. /\ p \o t \in Seq(Files) /\ Len(p \o t) = Len(p) + Len(t)
        /\ \A k \in 1..Len(p) : (p \o t)[k] = p[k]
        /\ \A k \in (Len(p) + 1)..(Len(p) + Len(t)) :
             (p \o t)[k] = t[k - Len(p)] /\ k - Len(p) \in 1..Len(t)
    BY <2>1, JoinedParts
  <2>. QED
    BY <2>1, <2>2 DEF q
<1>. HIDE DEF q
<1>7. ASSUME NEW k \in 1..(c + n), NEW l \in 1..(c + n), q[k] = q[l], k < l PROVE FALSE
  <2>1. CASE l <= c
    <3>1. k \in 1..c /\ l \in 1..c
      BY <1>1, <1>7, <2>1
    <3>2. s[at[k]] = s[at[l]] /\ at[k] < at[l] /\ at[k] \in S /\ at[l] \in S
      BY <1>3, <1>6, <1>7, <3>1
    <3>3. at[k] = at[l]
      BY <1>4, <3>2 DEF IsInjective
    <3>. QED
      BY <1>4, <3>2, <3>3
  <2>2. CASE k <= c /\ l > c
    <3>1. k \in 1..c /\ l \in (c + 1)..(c + n)
      BY <1>1, <1>7, <2>2
    <3>2. q[k] = s[at[k]] /\ s[at[k]] \notin A
      BY <1>3, <1>4, <1>6, <3>1
    <3>3. q[l] \in A
      BY <1>6, <3>1
    <3>. QED
      BY <1>7, <3>2, <3>3
  <2>3. CASE k > c
    <3>1. k \in (c + 1)..(c + n) /\ l \in (c + 1)..(c + n)
      BY <1>1, <1>7, <2>3
    <3>2. t[k - c] = t[l - c] /\ k - c \in 1..n /\ l - c \in 1..n
      BY <1>6, <1>7, <3>1
    <3>3. k - c = l - c
      BY <3>2
    <3>. QED
      BY <1>1, <1>7, <3>3
  <2>. QED
    BY <1>1, <1>7, <2>1, <2>2, <2>3
<1>8. IsInjective(q)
  <2>1. DOMAIN q = 1..(c + n)
    BY <1>6
  <2>2. ASSUME NEW k \in 1..(c + n), NEW l \in 1..(c + n), q[k] = q[l] PROVE k = l
    <3>1. k < l \/ l < k \/ k = l
      BY <1>1
    <3>. QED
      BY <1>7, <2>2, <3>1
  <2>. QED
    BY <2>1, <2>2 DEF IsInjective
<1>. QED
  BY <1>6, <1>8 DEF q, p

LEMMA ToolChangeTrue ==
  ASSUME GuardInv, NEW P \in SUBSET Files, NEW v \in Versions, ChangeByTool(P, v)
  PROVE  GuardInv'
<1>. DEFINE affected == {p \in P : version[p] # v}
            S == {i \in DOMAIN changedFiles : changedFiles[i] \notin affected}
<1>1. /\ version' = [p \in Files |-> IF p \in P THEN v ELSE version[p]]
      /\ inspected' = OfOthers(inspected, affected)
      /\ stateRanges' = OfOthers(stateRanges, affected)
      /\ \E s \in SetToSeqs(affected) : changedFiles' = Picked(changedFiles, S) \o s
      /\ outside' = outside \ affected
      /\ UNCHANGED <<ranges, read, last>>
  BY DEF ChangeByTool
<1>2. PICK s \in SetToSeqs(affected) : changedFiles' = Picked(changedFiles, S) \o s
  BY <1>1
<1>3. \A p \in Files \ affected : version'[p] = version[p]
  BY <1>1 DEF GuardInv, WindowsInv
<1>4. /\ inspected \in Seq(RangeRecords) /\ stateRanges \in Seq(RangeRecords)
      /\ changedFiles \in Seq(Files) /\ IsInjective(changedFiles)
      /\ Len(inspected) <= EntryLimit /\ Len(stateRanges) <= StateLimit
      /\ EntryLimit \in Nat /\ StateLimit \in Nat
  BY ReadGuardAssumption DEF GuardInv, WindowsInv
<1>5. affected \subseteq Files
  OBVIOUS
<1>6. changedFiles' \in Seq(Files) /\ IsInjective(changedFiles')
  <2>. DEFINE n == Cardinality(affected)
  <2>1. s \in [1..n -> affected] /\ \A i, j \in 1..n : s[i] = s[j] => i = j
    BY DEF SetToSeqs, IsInjective
  <2>2. n \in Nat
    BY ReadGuardAssumption, <1>5, FS_Subset, FS_CardinalityType
  <2>3. S = {i \in DOMAIN changedFiles : changedFiles[i] \notin affected}
    OBVIOUS
  <2>. HIDE DEF affected, n, S
  <2>. QED
    BY <1>2, <1>4, <1>5, <2>1, <2>2, <2>3, ChangedOnce
<1>. HIDE DEF affected, S
<1>7. /\ inspected' \in Seq(RangeRecords) /\ Len(inspected') <= Len(inspected)
      /\ \A x \in ToSet(inspected') : x \in ToSet(inspected) /\ x.path \notin affected
  BY <1>1, <1>4, OthersKept
<1>8. /\ stateRanges' \in Seq(RangeRecords) /\ Len(stateRanges') <= Len(stateRanges)
      /\ \A x \in ToSet(stateRanges') : x \in ToSet(stateRanges) /\ x.path \notin affected
  BY <1>1, <1>4, OthersKept
<1>9. Len(inspected') <= EntryLimit /\ Len(stateRanges') <= StateLimit
  <2>1. Len(inspected) \in Nat /\ Len(stateRanges) \in Nat /\ Len(inspected') \in Nat /\ Len(stateRanges') \in Nat
    BY <1>4, <1>7, <1>8
  <2>. QED
    BY <1>4, <1>7, <1>8, <2>1
<1>10. version' \in [Files -> Versions]
  BY <1>1 DEF GuardInv, WindowsInv
<1>11. WindowsInv'
  BY <1>1, <1>6, <1>7, <1>8, <1>9, <1>10 DEF GuardInv, WindowsInv
<1>12. LedgerTrue' /\ HeldBackWasRead'
  BY <1>1 DEF GuardInv, LedgerTrue, HeldBackWasRead, LinesOf
<1>13. InspectedCurrent'
  <2>1. ASSUME NEW x \in ToSet(inspected') \cup ToSet(stateRanges'), x.version # version'[x.path]
        PROVE  x.path \in outside'
    <3>1. x \in ToSet(inspected) \cup ToSet(stateRanges) /\ x.path \notin affected
      BY <1>7, <1>8
    <3>2. x.path \in Files
      <4>1. x \in RangeRecords
        BY <1>4, <3>1 DEF ToSet
      <4>. QED
        BY <4>1 DEF RangeRecords
    <3>3. x.version # version[x.path]
      BY <1>3, <2>1, <3>1, <3>2
    <3>4. x.path \in outside
      BY <3>1, <3>3 DEF GuardInv, InspectedCurrent
    <3>. QED
      BY <1>1, <3>1, <3>4
  <2>. QED
    BY <2>1 DEF InspectedCurrent
<1>. QED
  BY <1>11, <1>12, <1>13 DEF GuardInv

LEMMA OutsideTrue ==
  ASSUME GuardInv, NEW p \in Files, NEW v \in Versions, ChangeOutside(p, v)
  PROVE  GuardInv'
<1>1. /\ version' = [version EXCEPT ![p] = v] /\ outside' = outside \cup {p}
      /\ UNCHANGED <<ranges, inspected, stateRanges, changedFiles, read, last>>
  BY DEF ChangeOutside
<1>2. WindowsInv'
  BY <1>1 DEF GuardInv, WindowsInv
<1>3. LedgerTrue' /\ HeldBackWasRead'
  BY <1>1 DEF GuardInv, LedgerTrue, HeldBackWasRead, LinesOf
<1>4. InspectedCurrent'
  BY <1>1 DEF GuardInv, WindowsInv, InspectedCurrent
<1>. QED
  BY <1>2, <1>3, <1>4 DEF GuardInv

LEMMA EmptyWindows ==
  /\ <<>> \in Seq(RangeRecords) /\ <<>> \in Seq(Files) /\ Len(<<>>) = 0
  /\ IsInjective(<<>>) /\ ToSet(<<>>) = {}
  /\ RangeLimit \in Nat /\ EntryLimit \in Nat /\ StateLimit \in Nat
BY ReadGuardAssumption DEF IsInjective, ToSet

(* A read guard that is honest, for any files, versions, lines and limits:  *)
(* its windows claim only what was read, whatever reads were merged and     *)
(* evicted, a read is held back only of lines that were read at the present *)
(* content, and no tool changed what the model is told it has inspected     *)
(* (merge_read_ranges, analyze_read_coverage, invalidate_evidence_for_paths). *)
THEOREM ReadsStayHonest == ReadGuardSpec => []ReadsHonest
<1>1. ReadGuardInit => GuardInv
  BY EmptyWindows DEF ReadGuardInit, NothingRead, GuardInv, WindowsInv, LedgerTrue, HeldBackWasRead,
                      InspectedCurrent
<1>2. GuardInv /\ [ReadGuardNext]_guardVars => GuardInv'
  <2>. SUFFICES ASSUME GuardInv, [ReadGuardNext]_guardVars PROVE GuardInv'
    OBVIOUS
  <2>1. CASE \E p \in Files, from, to \in Lines, force \in BOOLEAN :
               from <= to /\ ReadLines(p, from, to, force)
    BY <2>1, ReadTrue
  <2>2. CASE \E p \in Files, from, to \in Lines :
               from <= to /\ (SuppressRead(p, from, to) \/ ReadFails(p, from, to))
    BY <2>2, SuppressTrue, FailTrue
  <2>3. CASE \E P \in SUBSET Files \ {{}}, v \in Versions : ChangeByTool(P, v)
    BY <2>3, ToolChangeTrue
  <2>4. CASE \E p \in Files, v \in Versions : ChangeOutside(p, v)
    BY <2>4, OutsideTrue
  <2>5. CASE NextRun
    <3>1. /\ ranges' = <<>> /\ inspected' = <<>> /\ stateRanges' = <<>> /\ changedFiles' = <<>>
          /\ last'.asked = {} /\ version' = version
      BY <2>5 DEF NextRun
    <3>. QED
      BY <3>1, EmptyWindows DEF GuardInv, WindowsInv, LedgerTrue, HeldBackWasRead, InspectedCurrent
  <2>6. CASE UNCHANGED guardVars
    BY <2>6 DEF guardVars, GuardInv, WindowsInv, LedgerTrue, HeldBackWasRead, InspectedCurrent, LinesOf
  <2>. QED
    BY <2>1, <2>2, <2>3, <2>4, <2>5, <2>6 DEF ReadGuardNext
<1>3. GuardInv => ReadsHonest
  <2>. SUFFICES ASSUME GuardInv PROVE ReadGuardTypeOK
    BY DEF GuardInv, ReadsHonest
  <2>1. \A r \in ToSet(ranges) \cup ToSet(inspected) \cup ToSet(stateRanges) : r \in RangeRecords
    BY DEF GuardInv, WindowsInv, ToSet
  <2>2. ToSet(changedFiles) \subseteq Files
    BY DEF GuardInv, WindowsInv, ToSet
  <2>. QED
    BY <2>1, <2>2 DEF GuardInv, WindowsInv, ReadGuardTypeOK, RangeRecords
<1>. QED
  BY <1>1, <1>2, <1>3, PTL DEF ReadGuardSpec

-----------------------------------------------------------------------------

(* The tool gate: a circuit is open exactly after a streak of failures, and *)
(* nothing but the success of its probe closes it.                          *)

(* The type invariant is inductive together with the key of a claim.        *)
TypeInv == TypeOK /\ ClaimHasKey

USE ThresholdAssumption, SideEffectsAssumption, NoToolAssumption

(* The gate starts with closed circuits and no call.                        *)
LEMMA TypeInit == Init => TypeInv
BY DEF Init, TypeInv, ClaimHasKey, TypeOK, CircuitStates, ClosedCircuit

(* Counting a failure stays within the threshold.                           *)
LEMMA OneMoreBounded ==
  ASSUME NEW n \in 0..Threshold
  PROVE  OneMore(n) \in 0..Threshold /\ (OneMore(n) >= Threshold <=> OneMore(n) = Threshold)
BY DEF OneMore

(* What record_failure makes of the circuit of a tool.                      *)
LEMMA FailedCircuit ==
  ASSUME TypeOK, NEW t \in Tools, RecordFailure(t)
  PROVE  /\ circuit' \in [Tools -> CircuitStates]
         /\ \A u \in Tools \ {t} : circuit'[u] = circuit[u]
         /\ circuit'[t].failures = OneMore(circuit[t].failures)
         /\ circuit'[t].opened = IF circuit'[t].failures = Threshold THEN "hot"
                                 ELSE circuit[t].opened
         /\ ~circuit'[t].probing
<1>. DEFINE n == OneMore(circuit[t].failures)
            after == [failures |-> n,
                      opened |-> IF n >= Threshold THEN "hot" ELSE circuit[t].opened,
                      probing |-> FALSE]
<1>1. circuit[t] \in CircuitStates
  BY DEF TypeOK
<1>2. n \in 0..Threshold /\ (n >= Threshold <=> n = Threshold)
  BY <1>1, OneMoreBounded DEF CircuitStates
<1>3. after \in CircuitStates
  BY <1>1, <1>2 DEF CircuitStates
<1>4. circuit' = [circuit EXCEPT ![t] = after]
  BY DEF RecordFailure
<1>5. circuit'[t] = after /\ \A u \in Tools \ {t} : circuit'[u] = circuit[u]
  BY <1>4 DEF TypeOK
<1>. QED
  BY <1>2, <1>3, <1>4, <1>5 DEF TypeOK

(* Every step keeps the types.                                              *)
LEMMA TypeNext == TypeInv /\ [Next]_vars => TypeInv'
<1>. SUFFICES ASSUME TypeInv, [Next]_vars PROVE TypeInv'
  OBVIOUS
<1>. USE DEF TypeInv, ClaimHasKey
<1>1. ASSUME NEW t \in Tools, NEW k \in Keys \cup {NoKey}, RequestTool(t, k)
      PROVE  TypeInv'
  BY <1>1 DEF TypeOK, RequestTool
<1>2. CASE RejectEarly \/ BlockOpen \/ RefuseReplay
  BY <1>2 DEF TypeOK, RejectEarly, BlockOpen, RefuseReplay, EndCall
<1>3. CASE Admit
  <2>1. circuit' \in [Tools -> CircuitStates]
    BY <1>3 DEF TypeOK, Admit, CircuitStates
  <2>2. stage' \in {"claiming", "running"} /\ tool' \in Tools
    BY <1>3 DEF TypeOK, Admit
  <2>. QED
    BY <1>3, <2>1, <2>2 DEF TypeOK, Admit, Claims
<1>4. CASE GrantClaim
  <2>1. key \in Keys
    BY <1>4 DEF GrantClaim, TypeOK
  <2>. QED
    BY <1>4, <2>1 DEF TypeOK, GrantClaim
<1>5. CASE BodySucceeds
  BY <1>5 DEF TypeOK, BodySucceeds, RecordSuccess, EndCall, CircuitStates, ClosedCircuit
<1>6. CASE BodyFails
  <2>1. tool \in Tools /\ circuit' \in [Tools -> CircuitStates]
    BY <1>6, FailedCircuit DEF TypeOK, BodyFails
  <2>2. streak' \in [Tools -> 0..Threshold]
    BY <1>6, <2>1, OneMoreBounded DEF TypeOK, BodyFails
  <2>. QED
    BY <1>6, <2>1, <2>2 DEF TypeOK, BodyFails, EndCall
<1>7. ASSUME NEW t \in Tools, Cool(t) PROVE TypeInv'
  BY <1>7 DEF TypeOK, Cool, CircuitStates
<1>8. CASE UNCHANGED vars
  BY <1>8 DEF TypeOK, vars
<1>. QED
  BY <1>1, <1>2, <1>3, <1>4, <1>5, <1>6, <1>7, <1>8 DEF Next, Call

(* The state of the gate has its types.                                     *)
THEOREM TypesKept == Spec => []TypeOK
BY TypeInit, TypeNext, PTL DEF Spec, TypeInv

-----------------------------------------------------------------------------

(* A circuit that has just closed has no failures.                          *)
LEMMA GateInit == Init => GateInv
BY DEF Init, GateInv, FailuresAreStreak, OpenIffStreak, AdmittedIsProbe, ClosedCircuit

(* Every step keeps count and streak together, and lets only a probe past   *)
(* an open circuit.                                                         *)
LEMMA GateNext == TypeOK /\ GateInv /\ [Next]_vars => GateInv'
<1>. SUFFICES ASSUME TypeOK, GateInv, [Next]_vars PROVE GateInv'
  OBVIOUS
<1>. USE DEF TypeOK, GateInv, FailuresAreStreak, OpenIffStreak, AdmittedIsProbe
<1>1. ASSUME NEW t \in Tools, NEW k \in Keys \cup {NoKey}, RequestTool(t, k)
      PROVE  GateInv'
  BY <1>1 DEF RequestTool
<1>2. CASE RejectEarly \/ BlockOpen \/ RefuseReplay
  BY <1>2 DEF RejectEarly, BlockOpen, RefuseReplay, EndCall
<1>3. CASE Admit
  BY <1>3 DEF Admit, Allowed, Status, CircuitStates
<1>4. CASE GrantClaim
  BY <1>4 DEF GrantClaim
<1>5. CASE BodySucceeds
  BY <1>5 DEF BodySucceeds, RecordSuccess, EndCall, ClosedCircuit
<1>6. CASE BodyFails
  <2>1. /\ tool \in Tools /\ RecordFailure(tool) /\ stage' = "none"
        /\ streak' = [streak EXCEPT ![tool] = OneMore(@)]
    BY <1>6 DEF BodyFails, EndCall
  <2>2. streak'[tool] = circuit'[tool].failures
    BY <2>1, FailedCircuit
  <2>3. circuit'[tool].opened # "no" <=> streak'[tool] = Threshold
    BY <2>1, <2>2, FailedCircuit DEF OneMore
  <2>4. ASSUME NEW t \in Tools \ {tool}
        PROVE  circuit'[t] = circuit[t] /\ streak'[t] = streak[t]
    BY <2>1, FailedCircuit
  <2>. QED
    BY <2>1, <2>2, <2>3, <2>4
<1>7. ASSUME NEW t \in Tools, Cool(t) PROVE GateInv'
  BY <1>7 DEF Cool, CircuitStates
<1>8. CASE UNCHANGED vars
  BY <1>8 DEF vars
<1>. QED
  BY <1>1, <1>2, <1>3, <1>4, <1>5, <1>6, <1>7, <1>8 DEF Next, Call

(* The breaker's bookkeeping is an invariant of the gate.                   *)
LEMMA GateInvariance == Spec => [](TypeOK /\ GateInv)
BY TypesKept, GateInit, GateNext, PTL DEF Spec

(* A circuit is open, or cooling, exactly when the last Threshold recorded  *)
(* results of its tool were failures.                                       *)
THEOREM OpenAfterStreak == Spec => []OpenIffStreak
BY GateInvariance, PTL DEF GateInv

(* What a step may do to the circuit of a tool: an open one stays open, and *)
(* a cooled one is closed by the call that is its probe.                    *)
LEMMA ProbeStep ==
  ASSUME TypeOK, GateInv, [Next]_vars, NEW u \in Tools
  PROVE  /\ circuit[u].opened = "hot" => circuit'[u].opened # "no"
         /\ circuit[u].opened = "cooled" /\ circuit'[u].opened = "no"
              => circuit[u].probing /\ tool = u /\ stage = "running"
<1>. DEFINE Decided ==
       /\ circuit[u].opened = "hot" => circuit'[u].opened # "no"
       /\ circuit[u].opened = "cooled" /\ circuit'[u].opened = "no"
            => circuit[u].probing /\ tool = u /\ stage = "running"
<1>1. ASSUME circuit'[u].opened = circuit[u].opened PROVE Decided
  BY <1>1
<1>2. ASSUME NEW t \in Tools, NEW k \in Keys \cup {NoKey}, RequestTool(t, k)
      PROVE  circuit' = circuit
  BY <1>2 DEF RequestTool
<1>3. CASE RejectEarly \/ BlockOpen \/ RefuseReplay \/ GrantClaim \/ UNCHANGED vars
  BY <1>1, <1>3 DEF RejectEarly, BlockOpen, RefuseReplay, GrantClaim, vars
<1>4. CASE Admit
  BY <1>1, <1>4 DEF TypeOK, Admit, CircuitStates
<1>5. CASE BodySucceeds
  <2>1. CASE u = tool
    BY <1>5, <2>1 DEF BodySucceeds, TypeOK, GateInv, AdmittedIsProbe
  <2>2. CASE u # tool
    BY <1>1, <1>5, <2>2 DEF BodySucceeds, RecordSuccess, TypeOK
  <2>. QED
    BY <2>1, <2>2
<1>6. CASE BodyFails
  <2>1. tool \in Tools /\ RecordFailure(tool)
    BY <1>6 DEF TypeOK, BodyFails
  <2>2. CASE u = tool
    BY <2>1, <2>2, FailedCircuit
  <2>3. CASE u # tool
    BY <1>1, <2>1, <2>3, FailedCircuit
  <2>. QED
    BY <2>2, <2>3
<1>7. ASSUME NEW t \in Tools, Cool(t) PROVE Decided
  BY <1>7 DEF Cool, TypeOK, CircuitStates
<1>. QED
  BY <1>1, <1>2, <1>3, <1>4, <1>5, <1>6, <1>7 DEF Next, Call

(* An open circuit admits nothing until it has cooled, and then one call,   *)
(* which alone decides whether it closes.                                   *)
THEOREM ProbeAlone == Spec => ProbeDecides
<1>1. TypeOK /\ GateInv /\ [Next]_vars =>
        [\A t \in Tools :
           /\ circuit[t].opened = "hot" => circuit'[t].opened # "no"
           /\ circuit[t].opened = "cooled" /\ circuit'[t].opened = "no"
                => circuit[t].probing /\ tool = t /\ stage = "running"]_vars
  BY ProbeStep
<1>. QED
  BY <1>1, GateInvariance, PTL DEF Spec, ProbeDecides

-----------------------------------------------------------------------------

(* The watchdog: a run without progress is stopped in time, and never       *)
(* without its window of recovery.                                          *)

(* What is remembered was met: files that changed were read, and commands   *)
(* that failed were run.                                                    *)
MemoryInv ==
  /\ events \in Seq(Calls) /\ Len(events) <= MaxLen
  /\ \A s \in seen : s[1] \in {"read", "search", "symbol", "shell", "error"}
  /\ \A p \in moved : <<"read", p>> \in seen
  /\ \A c \in failed : <<"shell", c>> \in seen

(* Before a suspicion the score counts the silence; during recovery the     *)
(* silence is what it was at the suspicion and the steps since.             *)
ClockInv ==
  /\ silent \in Nat /\ quiet \in Nat /\ elapsed \in Nat
  /\ \/ state = "normal" /\ elapsed = 0 /\ silent = quiet /\ quiet < NoProgressLimit
     \/ /\ state = "recovery" /\ quiet = elapsed /\ elapsed < RecoveryWindow
        /\ elapsed <= silent /\ silent <= NoProgressLimit + elapsed
     \/ /\ state = "confirmed" /\ elapsed = 0 /\ quiet = RecoveryWindow
        /\ RecoveryWindow <= silent /\ silent <= NoProgressLimit + RecoveryWindow

StreakInv == verifyStreak \in Nat /\ errorStreak \in Nat

WatchdogInv == MemoryInv /\ ClockInv /\ StreakInv

(* Numbers of which one is the largest.                                     *)
HasLargest(S) == S \subseteq Nat /\ \E n \in S : \A m \in S : m <= n

LEMMA LargestIs ==
  ASSUME NEW S, HasLargest(S)
  PROVE  Largest(S) \in S /\ Largest(S) \in Nat /\ \A m \in S : m <= Largest(S)
BY DEF Largest, HasLargest

(* One more number, and the set still has a largest.                        *)
LEMMA AddedLargest ==
  ASSUME NEW S, HasLargest(S), NEW a \in Nat
  PROVE  HasLargest(S \cup {a})
<1>1. PICK n \in S : \A m \in S : m <= n
  BY DEF HasLargest
<1>2. n \in Nat /\ S \subseteq Nat
  BY DEF HasLargest
<1>3. CASE n <= a
  BY <1>1, <1>2, <1>3 DEF HasLargest
<1>4. CASE ~(n <= a)
  BY <1>1, <1>2, <1>4 DEF HasLargest
<1>. QED
  BY <1>3, <1>4

LEMMA OneLargest ==
  ASSUME NEW a \in Nat
  PROVE  HasLargest({a})
BY DEF HasLargest

LEMMA LargestOfTwo ==
  ASSUME NEW a \in Nat, NEW b \in Nat
  PROVE  Largest({a, b}) \in Nat /\ a <= Largest({a, b}) /\ b <= Largest({a, b})
<1>1. HasLargest({a} \cup {b})
  BY OneLargest, AddedLargest
<1>2. {a} \cup {b} = {a, b}
  OBVIOUS
<1>3. HasLargest({a, b})
  BY <1>1, <1>2
<1>. QED
  BY <1>3, LargestIs

LEMMA MaxLenType == MaxLen \in Nat /\ MaxLen >= 2
<1>. DEFINE limits == {Window, IdenticalLimit, AlternatingLimit, VerificationLimit,
                       ErrorLimit, RecoveryWindow}
<1>1. limits = (((({Window} \cup {IdenticalLimit}) \cup {AlternatingLimit})
                  \cup {VerificationLimit}) \cup {ErrorLimit}) \cup {RecoveryWindow}
  OBVIOUS
<1>2. /\ Window \in Nat /\ IdenticalLimit \in Nat /\ AlternatingLimit \in Nat
      /\ VerificationLimit \in Nat /\ ErrorLimit \in Nat /\ RecoveryWindow \in Nat
  BY LimitAssumption
<1>. HIDE DEF limits
<1>3. HasLargest(limits)
  <2>1. HasLargest({Window} \cup {IdenticalLimit})
    BY <1>2, OneLargest, AddedLargest
  <2>2. HasLargest(({Window} \cup {IdenticalLimit}) \cup {AlternatingLimit})
    BY <1>2, <2>1, AddedLargest
  <2>3. HasLargest((({Window} \cup {IdenticalLimit}) \cup {AlternatingLimit})
                   \cup {VerificationLimit})
    BY <1>2, <2>2, AddedLargest
  <2>4. HasLargest(((({Window} \cup {IdenticalLimit}) \cup {AlternatingLimit})
                    \cup {VerificationLimit}) \cup {ErrorLimit})
    BY <1>2, <2>3, AddedLargest
  <2>. QED
    BY <1>1, <1>2, <2>4, AddedLargest
<1>4. Largest(limits) \in Nat
  BY <1>3, LargestIs
<1>. USE DEF limits
<1>. QED
  BY <1>4 DEF MaxLen

LEMMA WatchdogInitInv == WatchdogInit => WatchdogInv
BY MaxLenType, LimitAssumption
   DEF WatchdogInit, WatchdogInv, MemoryInv, ClockInv, StreakInv

LEMMA MemoryKept ==
  ASSUME MemoryInv, NEW e \in Calls, events' = Remember(e), Learn(e)
  PROVE  MemoryInv'
<1>1. events' \in Seq(Calls) /\ Len(events') <= MaxLen
  <2>1. /\ Append(events, e) \in Seq(Calls) /\ Len(Append(events, e)) = Len(events) + 1
        /\ Append(events, e) # <<>>
    BY DEF MemoryInv
  <2>2. CASE Len(Append(events, e)) > MaxLen
    <3>1. events' = Tail(Append(events, e))
      BY <2>2 DEF Remember
    <3>. QED
      BY <2>1, <3>1, MaxLenType DEF MemoryInv
  <2>3. CASE ~(Len(Append(events, e)) > MaxLen)
    <3>1. events' = Append(events, e)
      BY <2>3 DEF Remember
    <3>. QED
      BY <2>1, <2>3, <3>1, MaxLenType DEF MemoryInv
  <2>. QED
    BY <2>2, <2>3
<1>2. \A s \in seen' : s[1] \in {"read", "search", "symbol", "shell", "error"}
  BY DEF MemoryInv, Learn, About, Failure
<1>3. seen \subseteq seen'
  BY DEF Learn
<1>4. \A p \in moved' : <<"read", p>> \in seen'
  BY <1>3 DEF MemoryInv, Learn
<1>5. \A c \in failed' : <<"shell", c>> \in seen'
  BY <1>3 DEF MemoryInv, Learn, About
<1>. QED
  BY <1>1, <1>2, <1>4, <1>5 DEF MemoryInv

(* Whether an event is a progress and whether it makes a pattern matters    *)
(* for the clocks, and nothing else of it does.                             *)
LEMMA ClockKept ==
  ASSUME ClockInv, state # "confirmed", NEW progress \in BOOLEAN, NEW pattern \in BOOLEAN,
         Advance(progress, pattern), silent' = IF progress THEN 0 ELSE silent + 1
  PROVE  ClockInv'
<1>1. CASE state = "normal"
  BY <1>1, LimitAssumption DEF ClockInv, Advance
<1>2. CASE state = "recovery"
  BY <1>2, LimitAssumption DEF ClockInv, Advance
<1>. QED
  BY <1>1, <1>2 DEF ClockInv

LEMMA StreakKept ==
  ASSUME StreakInv, NEW e, NEW progress
  PROVE  Streaks(e, progress).verify \in Nat /\ Streaks(e, progress).error \in Nat
BY DEF StreakInv, Streaks

LEMMA WatchdogInvKept == WatchdogInv /\ [WatchdogNext]_watchdogVars => WatchdogInv'
<1>. SUFFICES ASSUME WatchdogInv, [WatchdogNext]_watchdogVars PROVE WatchdogInv'
  OBVIOUS
<1>1. ASSUME NEW e \in Calls, RecordToolEvent(e) PROVE WatchdogInv'
  <2>1. MemoryInv'
    BY <1>1, MemoryKept DEF RecordToolEvent, WatchdogInv
  <2>2. Progress(e) \in BOOLEAN
    BY DEF Progress, FreshRead
  <2>3. StuckPattern(events', Streaks(e, Progress(e))) \in BOOLEAN
    BY DEF StuckPattern
  <2>4. ClockInv'
    BY <1>1, <2>2, <2>3, ClockKept DEF RecordToolEvent, WatchdogInv
  <2>5. StreakInv'
    BY <1>1, StreakKept DEF RecordToolEvent, StreakInv, WatchdogInv
  <2>. QED
    BY <2>1, <2>4, <2>5 DEF WatchdogInv
<1>2. CASE UNCHANGED watchdogVars
  BY <1>2 DEF watchdogVars, WatchdogInv, MemoryInv, ClockInv, StreakInv
<1>. QED
  BY <1>1, <1>2 DEF WatchdogNext

LEMMA InvGivesTimely == WatchdogInv => WatchdogTimely
<1>. SUFFICES ASSUME WatchdogInv PROVE WatchdogTimely
  OBVIOUS
<1>1. quiet \in 0..Largest({NoProgressLimit, RecoveryWindow}) /\ elapsed \in 0..RecoveryWindow
  BY LargestOfTwo, LimitAssumption DEF WatchdogInv, ClockInv
<1>2. WatchdogTypeOK
  BY <1>1 DEF WatchdogInv, MemoryInv, ClockInv, StreakInv, WatchdogTypeOK
<1>3. DetectedInTime /\ RecoveryGranted
  BY LimitAssumption DEF WatchdogInv, ClockInv, DetectedInTime, RecoveryGranted
<1>. QED
  BY <1>2, <1>3 DEF WatchdogTimely

(* Whatever the agent calls, a run without progress is confirmed as stuck   *)
(* after the limit and one window of recovery at the latest, and only after *)
(* a whole window without progress (record_tool_event).                     *)
THEOREM StoppedInTime == WatchdogSpec => []WatchdogTimely
<1>1. WatchdogInit /\ [][WatchdogNext]_watchdogVars => []WatchdogInv
  BY WatchdogInitInv, WatchdogInvKept, PTL
<1>. QED
  BY <1>1, InvGivesTimely, PTL DEF WatchdogSpec
=============================================================================
