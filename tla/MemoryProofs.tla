---------------------------- MODULE MemoryProofs ----------------------------
EXTENDS SessionMemory, EvidenceMemory, DurableTopics, DurableMemory, OrderingProofs

-----------------------------------------------------------------------------
(* The session's memory, for any files, contents, processes and limits.     *)

TextsKnown == [content : Texts \cup {"failure"}, part : Parts \cup Seq(Sources)]
NotesKnown == [text : TextsKnown, about : Seq(Sources)]

(* A memory is well formed, and a summary was taken from the content its    *)
(* freshness names.                                                         *)
RecentOK(recent) == recent \in Seq(Sources) /\ Len(recent) <= RecentLimit /\ IsInjective(recent)
SummariesOK(summaries) ==
  /\ DOMAIN summaries \subseteq Sources
  /\ \A p \in DOMAIN summaries : summaries[p].text.content = summaries[p].fresh
NotesOK(notes) ==
  /\ notes \in Seq(NotesKnown) /\ Len(notes) <= NoteLimit
  /\ \A i, j \in DOMAIN notes : notes[i].text = notes[j].text => i = j
MemoOK(m) ==
  /\ m = [recent |-> m.recent, summaries |-> m.summaries, notes |-> m.notes]
  /\ RecentOK(m.recent) /\ SummariesOK(m.summaries) /\ NotesOK(m.notes)

LEMMA RecentKept ==
  ASSUME NEW m, MemoOK(m), NEW p \in Sources
  PROVE  /\ MemoOK(RememberFile(m, p))
         /\ RememberFile(m, p).summaries = m.summaries /\ RememberFile(m, p).notes = m.notes
<1>. DEFINE s == m.recent
            S == {i \in DOMAIN s : s[i] # p}
            t == Renewed(s, S, p, RecentLimit)
<1>1. s \in Seq(Sources) /\ IsInjective(s) /\ RecentLimit \in Nat \ {0}
  BY SessionAssumption DEF MemoOK, RecentOK
<1>2. RememberFile(m, p) = [recent |-> t, summaries |-> m.summaries, notes |-> m.notes]
  <2>1. RememberFile(m, p) = [m EXCEPT !.recent = t]
    BY DEF RememberFile, LastFew, EndOf, Renewed
  <2>. HIDE DEF t
  <2>. QED
    BY <2>1 DEF MemoOK
<1>3. S \subseteq DOMAIN s
  OBVIOUS
<1>. HIDE DEF s
<1>4. /\ t \in Seq(Sources) /\ Len(t) \in 1..RecentLimit /\ t[Len(t)] = p
      /\ \E at \in [1..(Len(t) - 1) -> S] :
           /\ \A i \in 1..(Len(t) - 1) : t[i] = s[at[i]]
           /\ \A i, j \in 1..(Len(t) - 1) : i < j <=> at[i] < at[j]
  <2>1. Renews(t, Sources, s, S, p, RecentLimit)
    <3>. HIDE DEF S
    <3>. QED
      BY <1>1, <1>3, Renewal
  <2>. HIDE DEF t, S
  <2>. QED
    BY <2>1 DEF Renews
<1>5. PICK at \in [1..(Len(t) - 1) -> S] :
           /\ \A i \in 1..(Len(t) - 1) : t[i] = s[at[i]]
           /\ \A i, j \in 1..(Len(t) - 1) : i < j <=> at[i] < at[j]
  BY <1>4
<1>. HIDE DEF t
<1>6. ASSUME NEW i \in 1..Len(t), NEW j \in 1..Len(t), t[i] = t[j], i < j PROVE FALSE
  <2>1. i \in 1..(Len(t) - 1) /\ Len(t) \in Nat
    BY <1>4, <1>6
  <2>2. at[i] \in S /\ t[i] = s[at[i]] /\ t[i] # p
    BY <1>5, <2>1
  <2>3. CASE j = Len(t)
    BY <1>4, <1>6, <2>2, <2>3
  <2>4. CASE j # Len(t)
    <3>1. j \in 1..(Len(t) - 1)
      BY <1>4, <2>1, <2>4
    <3>2. at[j] \in S /\ s[at[i]] = s[at[j]] /\ at[i] < at[j]
      BY <1>5, <1>6, <2>1, <2>2, <3>1
    <3>3. at[i] = at[j]
      BY <1>1, <2>2, <3>2 DEF IsInjective
    <3>4. at[i] \in Nat
      BY <1>1, <2>2
    <3>. QED
      BY <3>2, <3>3, <3>4
  <2>. QED
    BY <2>3, <2>4
<1>7. IsInjective(t)
  <2>1. DOMAIN t = 1..Len(t) /\ Len(t) \in Nat
    BY <1>4
  <2>2. ASSUME NEW i \in 1..Len(t), NEW j \in 1..Len(t), t[i] = t[j] PROVE i = j
    <3>1. i < j \/ j < i \/ i = j
      BY <2>1
    <3>. QED
      BY <1>6, <2>2, <3>1
  <2>. QED
    BY <2>1, <2>2 DEF IsInjective
<1>8. RecentOK(t)
  BY <1>1, <1>4, <1>7 DEF RecentOK
<1>. QED
  BY <1>2, <1>8 DEF MemoOK

LEMMA NotesKept ==
  ASSUME NEW m, MemoOK(m), NEW note \in NotesKnown
  PROVE  /\ MemoOK(AppendNote(m, note))
         /\ AppendNote(m, note).summaries = m.summaries /\ AppendNote(m, note).recent = m.recent
<1>. DEFINE s == m.notes
            S == {i \in DOMAIN s : s[i].text # note.text}
            t == Renewed(s, S, note, NoteLimit)
<1>1. /\ s \in Seq(NotesKnown) /\ NoteLimit \in Nat \ {0}
      /\ \A i, j \in DOMAIN s : s[i].text = s[j].text => i = j
  BY SessionAssumption DEF MemoOK, NotesOK
<1>2. AppendNote(m, note) = [recent |-> m.recent, summaries |-> m.summaries, notes |-> t]
  <2>1. AppendNote(m, note) = [m EXCEPT !.notes = t]
    BY DEF AppendNote, LastFew, EndOf, Renewed
  <2>. HIDE DEF t
  <2>. QED
    BY <2>1 DEF MemoOK
<1>3. S \subseteq DOMAIN s
  OBVIOUS
<1>. HIDE DEF s
<1>4. /\ t \in Seq(NotesKnown) /\ Len(t) \in 1..NoteLimit /\ t[Len(t)] = note
      /\ \E at \in [1..(Len(t) - 1) -> S] :
           /\ \A i \in 1..(Len(t) - 1) : t[i] = s[at[i]]
           /\ \A i, j \in 1..(Len(t) - 1) : i < j <=> at[i] < at[j]
  <2>1. Renews(t, NotesKnown, s, S, note, NoteLimit)
    <3>. HIDE DEF S
    <3>. QED
      BY <1>1, <1>3, Renewal
  <2>. HIDE DEF t, S
  <2>. QED
    BY <2>1 DEF Renews
<1>5. PICK at \in [1..(Len(t) - 1) -> S] :
           /\ \A i \in 1..(Len(t) - 1) : t[i] = s[at[i]]
           /\ \A i, j \in 1..(Len(t) - 1) : i < j <=> at[i] < at[j]
  BY <1>4
<1>. HIDE DEF t
<1>6. ASSUME NEW i \in 1..Len(t), NEW j \in 1..Len(t), t[i].text = t[j].text, i < j PROVE FALSE
  <2>1. i \in 1..(Len(t) - 1) /\ Len(t) \in Nat
    BY <1>4, <1>6
  <2>2. at[i] \in S /\ t[i] = s[at[i]] /\ t[i].text # note.text
    BY <1>5, <2>1
  <2>3. CASE j = Len(t)
    BY <1>4, <1>6, <2>2, <2>3
  <2>4. CASE j # Len(t)
    <3>1. j \in 1..(Len(t) - 1)
      BY <1>4, <2>1, <2>4
    <3>2. at[j] \in S /\ s[at[i]].text = s[at[j]].text /\ at[i] < at[j]
      BY <1>5, <1>6, <2>1, <2>2, <3>1
    <3>3. at[i] = at[j]
      BY <1>1, <2>2, <3>2
    <3>4. at[i] \in Nat
      BY <1>1, <2>2
    <3>. QED
      BY <3>2, <3>3, <3>4
  <2>. QED
    BY <2>3, <2>4
<1>7. \A i, j \in DOMAIN t : t[i].text = t[j].text => i = j
  <2>1. DOMAIN t = 1..Len(t) /\ Len(t) \in Nat
    BY <1>4
  <2>2. ASSUME NEW i \in 1..Len(t), NEW j \in 1..Len(t), t[i].text = t[j].text PROVE i = j
    <3>1. i < j \/ j < i \/ i = j
      BY <2>1
    <3>. QED
      BY <1>6, <2>2, <3>1
  <2>. QED
    BY <2>1, <2>2
<1>8. NotesOK(t)
  BY <1>1, <1>4, <1>7 DEF NotesOK
<1>. QED
  BY <1>2, <1>8 DEF MemoOK

LEMMA SummaryKept ==
  ASSUME NEW m, MemoOK(m), NEW p \in Sources, NEW text, text.content = disk[p]
  PROVE  /\ MemoOK(SetSummary(m, p, text))
         /\ DOMAIN SetSummary(m, p, text).summaries = DOMAIN m.summaries \cup {p}
         /\ \A q \in DOMAIN m.summaries \ {p} :
              SetSummary(m, p, text).summaries[q] = m.summaries[q]
         /\ SetSummary(m, p, text).summaries[p].fresh = disk[p]
<1>. DEFINE new == [q \in DOMAIN m.summaries \cup {p} |->
                      IF q = p THEN [text |-> text, fresh |-> disk[p]] ELSE m.summaries[q]]
<1>1. SetSummary(m, p, text) = [recent |-> m.recent, summaries |-> new, notes |-> m.notes]
  BY DEF SetSummary, MemoOK
<1>2. SummariesOK(new)
  BY DEF MemoOK, SummariesOK
<1>. QED
  BY <1>1, <1>2 DEF MemoOK

LEMMA WithoutKept ==
  ASSUME NEW m, MemoOK(m), NEW P
  PROVE  /\ MemoOK(Without(m, P))
         /\ DOMAIN Without(m, P).summaries = DOMAIN m.summaries \ P
         /\ \A q \in DOMAIN m.summaries \ P : Without(m, P).summaries[q] = m.summaries[q]
<1>. DEFINE new == [q \in DOMAIN m.summaries \ P |-> m.summaries[q]]
<1>1. Without(m, P) = [recent |-> m.recent, summaries |-> new, notes |-> m.notes]
  BY DEF Without, MemoOK
<1>2. SummariesOK(new)
  BY DEF MemoOK, SummariesOK
<1>. QED
  BY <1>1, <1>2 DEF MemoOK

-----------------------------------------------------------------------------
(* What is recalled.                                                        *)

SummaryPlaces(m, q) ==
  {j \in DOMAIN m.recent : /\ j <= SummaryLimit /\ q[j] > 0
                           /\ m.recent[j] \in DOMAIN m.summaries \ StaleSummaries(m)}
NotePlaces(m, q) == {j \in DOMAIN m.notes : q[RecentLimit + j] > 0}

LEMMA CandidateKinds ==
  ASSUME NEW m, MemoOK(m), NEW q
  PROVE  /\ IsFiniteSet(Candidates(m, q))
         /\ \A c \in Candidates(m, q) :
              \/ \E i \in SummaryPlaces(m, q) : c = SummaryAt(m, q, i)
              \/ \E i \in NotePlaces(m, q) : c = NoteAt(m, q, i)
<1>. DEFINE S == {SummaryAt(m, q, i) : i \in SummaryPlaces(m, q)}
            N == {NoteAt(m, q, i) : i \in NotePlaces(m, q)}
<1>1. Candidates(m, q) = S \cup N
  BY DEF Candidates, SummaryPlaces, NotePlaces
<1>2. IsFiniteSet(SummaryPlaces(m, q)) /\ IsFiniteSet(NotePlaces(m, q))
  <2>1. Len(m.recent) \in Nat /\ Len(m.notes) \in Nat
    BY DEF MemoOK, RecentOK, NotesOK
  <2>2. IsFiniteSet(1..Len(m.recent)) /\ IsFiniteSet(1..Len(m.notes))
    <3>1. 1 \in Int /\ Len(m.recent) \in Int /\ Len(m.notes) \in Int
      BY <2>1
    <3>. QED
      BY <3>1, FS_Interval
  <2>3. SummaryPlaces(m, q) \subseteq 1..Len(m.recent) /\ NotePlaces(m, q) \subseteq 1..Len(m.notes)
    BY DEF MemoOK, RecentOK, NotesOK, SummaryPlaces, NotePlaces
  <2>. QED
    BY <2>2, <2>3, FS_Subset
<1>3. IsFiniteSet(S)
  <2>1. [i \in SummaryPlaces(m, q) |-> SummaryAt(m, q, i)] \in Surjection(SummaryPlaces(m, q), S)
    BY DEF Surjection
  <2>. QED
    BY <1>2, <2>1, FS_Surjection
<1>4. IsFiniteSet(N)
  <2>1. [i \in NotePlaces(m, q) |-> NoteAt(m, q, i)] \in Surjection(NotePlaces(m, q), N)
    BY DEF Surjection
  <2>. QED
    BY <1>2, <2>1, FS_Surjection
<1>. QED
  BY <1>1, <1>3, <1>4, FS_Union

(* Candidates can be compared: of two, one has a larger score, or a later   *)
(* place.                                                                   *)
Above(S) == {p \in S \X S : Better(p[1], p[2])}

LEMMA BetterOrders ==
  ASSUME NEW m, MemoOK(m), NEW q \in Requests, NEW S, S \subseteq Candidates(m, q)
  PROVE  Orders(Above(S), S) /\ \A c, d \in S : c = d \/ Better(c, d) \/ Better(d, c)
<1>0. q \in [1..(RecentLimit + NoteLimit) -> Nat] /\ RecentLimit \in Nat /\ NoteLimit \in Nat
  BY SessionAssumption
<1>1. ASSUME NEW c \in S
      PROVE  /\ c.score \in Nat /\ c.at \in Nat
             /\ c.at <= RecentLimit => c = SummaryAt(m, q, c.at)
             /\ ~(c.at <= RecentLimit) => c = NoteAt(m, q, c.at - RecentLimit)
  <2>1. CASE \E i \in SummaryPlaces(m, q) : c = SummaryAt(m, q, i)
    <3>1. PICK i \in SummaryPlaces(m, q) : c = SummaryAt(m, q, i)
      BY <2>1
    <3>2. i \in Nat /\ i <= RecentLimit /\ i \in 1..(RecentLimit + NoteLimit)
      BY <1>0 DEF SummaryPlaces, MemoOK, RecentOK
    <3>3. c.score = q[i] /\ c.at = i
      BY <3>1 DEF SummaryAt
    <3>. QED
      BY <1>0, <3>1, <3>2, <3>3
  <2>2. CASE \E i \in NotePlaces(m, q) : c = NoteAt(m, q, i)
    <3>1. PICK i \in NotePlaces(m, q) : c = NoteAt(m, q, i)
      BY <2>2
    <3>2. i \in Nat \ {0} /\ RecentLimit + i \in 1..(RecentLimit + NoteLimit)
      BY <1>0 DEF NotePlaces, MemoOK, NotesOK
    <3>3. c.score = q[RecentLimit + i] /\ c.at = RecentLimit + i
      BY <3>1 DEF NoteAt
    <3>4. ~(c.at <= RecentLimit) /\ c.at - RecentLimit = i /\ c.at \in Nat
      BY <1>0, <3>2, <3>3
    <3>. QED
      BY <1>0, <3>1, <3>2, <3>3, <3>4
  <2>. QED
    BY <2>1, <2>2, CandidateKinds
<1>2. ASSUME NEW c \in S, NEW d \in S
      PROVE  /\ <<c, d>> \in Above(S) <=> Better(c, d)
             /\ c = d \/ Better(c, d) \/ Better(d, c)
  <2>1. <<c, d>> \in Above(S) <=> Better(c, d)
    BY DEF Above
  <2>2. c.at = d.at => c = d
    BY <1>1
  <2>3. (c.score = d.score /\ c.at = d.at) \/ Better(c, d) \/ Better(d, c)
    BY <1>1 DEF Better
  <2>. QED
    BY <2>1, <2>2, <2>3
<1>3. \A c \in S : ~Better(c, c)
  BY <1>1 DEF Better
<1>4. \A c, d, e \in S : Better(c, d) /\ Better(d, e) => Better(c, e)
  <2>1. \A c \in S : c.score \in Nat /\ c.at \in Nat
    BY <1>1
  <2>. QED
    BY <2>1 DEF Better
<1>5. Orders(Above(S), S)
  BY <1>2, <1>3, <1>4 DEF Orders
<1>. QED
  BY <1>2, <1>5

(* A note is filed under the first file it is about, if that has a summary. *)
LEMMA FiledFirst ==
  ASSUME NEW m, NEW about \in Seq(Sources), about # <<>>, about[1] \in DOMAIN m.summaries
  PROVE  FileKey(m, about) = about[1]
<1>. DEFINE known == KnownPlaces(m, about)
<1>1. 1 \in known /\ \A i \in known : i \in Nat /\ 1 <= i
  BY DEF KnownPlaces
<1>2. FileKey(m, about) = about[Min(known)]
  BY <1>1 DEF FileKey
<1>. HIDE DEF known
<1>3. Min(known) \in known /\ \A i \in known : Min(known) <= i
  BY <1>1 DEF Min
<1>4. Min(known) = 1
  BY <1>1, <1>3
<1>. QED
  BY <1>2, <1>4

(* No more is recalled than the limit, each from a candidate, and no note   *)
(* that is about a file first of all beside a summary of it.                *)
LEMMA RecalledFacts ==
  ASSUME NEW m, MemoOK(m), NEW q \in Requests
  PROVE  /\ IsFiniteSet(Recalled(m, q)) /\ Cardinality(Recalled(m, q)) <= RecallLimit
         /\ \A c \in Recalled(m, q) : c.kind = "summary" =>
              /\ c.file \in DOMAIN m.summaries \ StaleSummaries(m)
              /\ c.text = m.summaries[c.file].text
         /\ \A c, d \in Recalled(m, q) :
              c.kind = "note" /\ d.kind = "summary" /\ c.about # <<>> => c.about[1] # d.file
<1>. DEFINE all == Deduped(Candidates(m, q))
            rank(c, S) == Cardinality({d \in S : Better(d, c)})
            ofKind(c) == {d \in all : d.kind = c.kind}
            allowed == {c \in all : rank(c, ofKind(c)) < (IF c.kind = "summary" THEN 1 ELSE 2)}
<1>1. Recalled(m, q) = {c \in allowed : rank(c, allowed) < RecallLimit}
  BY DEF Recalled
<1>2. all \subseteq Candidates(m, q) /\ allowed \subseteq all
  BY DEF Deduped
<1>. HIDE DEF all, allowed
<1>3. IsFiniteSet(Recalled(m, q)) /\ Cardinality(Recalled(m, q)) <= RecallLimit
  <2>1. allowed \subseteq Candidates(m, q) /\ IsFiniteSet(allowed)
    BY <1>2, CandidateKinds, FS_Subset
  <2>2. Orders(Above(allowed), allowed)
    BY <2>1, BetterOrders
  <2>3. ASSUME NEW c \in allowed PROVE {d \in allowed : Better(d, c)} = Preceding(allowed, Above(allowed), c)
    BY DEF Preceding, Above
  <2>4. Recalled(m, q) = {c \in allowed : Cardinality(Preceding(allowed, Above(allowed), c)) < RecallLimit}
    BY <1>1, <2>3
  <2>5. Recalled(m, q) \subseteq allowed
    BY <1>1
  <2>6. IsFiniteSet(Recalled(m, q))
    BY <2>1, <2>5, FS_Subset
  <2>. QED
    BY <2>1, <2>2, <2>4, <2>6, FirstFew, SessionAssumption
<1>4. \A c \in Recalled(m, q) : c \in Candidates(m, q) /\ c \in all
  BY <1>1, <1>2
<1>5. ASSUME NEW c \in Candidates(m, q), c.kind = "summary"
      PROVE  /\ c.file \in DOMAIN m.summaries \ StaleSummaries(m)
             /\ c.text = m.summaries[c.file].text
             /\ c.file # NoText
  <2>1. PICK i \in SummaryPlaces(m, q) : c = SummaryAt(m, q, i)
    BY <1>5, CandidateKinds DEF NoteAt
  <2>2. c.file = m.recent[i] /\ c.text = m.summaries[c.file].text
    BY <2>1 DEF SummaryAt
  <2>3. m.recent[i] \in DOMAIN m.summaries \ StaleSummaries(m)
    BY DEF SummaryPlaces
  <2>4. c.file \in Sources
    BY <2>2, <2>3 DEF MemoOK, SummariesOK
  <2>. QED
    BY <2>2, <2>3, <2>4, SessionAssumption
<1>6. ASSUME NEW c \in Candidates(m, q), c.kind = "note"
      PROVE  c.about \in Seq(Sources) /\ c.file = FileKey(m, c.about)
  <2>1. PICK i \in NotePlaces(m, q) : c = NoteAt(m, q, i)
    BY <1>6, CandidateKinds DEF SummaryAt
  <2>2. m.notes[i] \in NotesKnown
    BY DEF NotePlaces, MemoOK, NotesOK
  <2>3. c.about = m.notes[i].about /\ c.file = FileKey(m, c.about)
    BY <2>1 DEF NoteAt
  <2>. QED
    BY <2>2, <2>3 DEF NotesKnown
<1>7. ASSUME NEW c \in Recalled(m, q), NEW d \in Recalled(m, q),
             c.kind = "note", d.kind = "summary", c.about # <<>>, c.about[1] = d.file
      PROVE  FALSE
  <2>1. d.file \in DOMAIN m.summaries /\ d.file # NoText
    BY <1>4, <1>5, <1>7
  <2>2. c.about \in Seq(Sources) /\ c.file = FileKey(m, c.about)
    BY <1>4, <1>6, <1>7
  <2>3. c.file = d.file
    BY <1>7, <2>1, <2>2, FiledFirst
  <2>4. c \in all /\ d \in all /\ c \in Candidates(m, q) /\ d \in Candidates(m, q) /\ c # d
    BY <1>4, <1>7
  <2>5. Better(c, d) \/ Better(d, c)
    BY <2>4, BetterOrders
  <2>. QED
    BY <2>1, <2>3, <2>4, <2>5 DEF all, Deduped
<1>. QED
  BY <1>3, <1>4, <1>5, <1>7

(* The same of what the prompt shows of it.                                 *)
RecalledOK(m, told) ==
  /\ Cardinality(told) <= RecallLimit
  /\ \A c \in told : c.kind = "summary" =>
       /\ c.file \in DOMAIN m.summaries \ StaleSummaries(m)
       /\ c.text = m.summaries[c.file].text
  /\ \A c, d \in told :
       c.kind = "note" /\ d.kind = "summary" /\ c.about # <<>> => c.about[1] # d.file

LEMMA ShownFacts ==
  ASSUME NEW m, MemoOK(m), NEW q \in Requests
  PROVE  RecalledOK(m, {Shown(c) : c \in Recalled(m, q)})
<1>. DEFINE R == Recalled(m, q)
            told == {Shown(c) : c \in R}
<1>1. Cardinality(told) <= RecallLimit
  <2>1. [c \in R |-> Shown(c)] \in Surjection(R, told)
    BY DEF Surjection
  <2>2. IsFiniteSet(R) /\ Cardinality(R) <= RecallLimit
    BY RecalledFacts
  <2>. HIDE DEF R, told
  <2>3. IsFiniteSet(told) /\ Cardinality(told) <= Cardinality(R)
    BY <2>1, <2>2, FS_Surjection
  <2>4. Cardinality(told) \in Nat /\ Cardinality(R) \in Nat
    BY <2>2, <2>3, FS_CardinalityType
  <2>. QED
    BY <2>2, <2>3, <2>4, SessionAssumption
<1>2. \A s \in told : \E c \in R : s = Shown(c)
  OBVIOUS
<1>3. \A c : Shown(c).kind = c.kind /\ Shown(c).text = c.text
              /\ Shown(c).about = c.about /\ Shown(c).file = c.file
  BY DEF Shown
<1>. HIDE DEF told
<1>4. ASSUME NEW s \in told, s.kind = "summary"
      PROVE  s.file \in DOMAIN m.summaries \ StaleSummaries(m) /\ s.text = m.summaries[s.file].text
  <2>1. PICK c \in R : s = Shown(c)
    BY <1>2
  <2>. QED
    BY <1>3, <1>4, <2>1, RecalledFacts
<1>5. ASSUME NEW s \in told, NEW t \in told, s.kind = "note", t.kind = "summary", s.about # <<>>
      PROVE  s.about[1] # t.file
  <2>1. PICK c \in R : s = Shown(c)
    BY <1>2
  <2>2. PICK d \in R : t = Shown(d)
    BY <1>2
  <2>. QED
    BY <1>3, <1>5, <2>1, <2>2, RecalledFacts
<1>. QED
  <2>1. RecalledOK(m, told)
    BY <1>1, <1>4, <1>5 DEF RecalledOK
  <2>. QED
    BY <2>1 DEF told

-----------------------------------------------------------------------------
(* The inductive invariant: the session file has the same checkpoints as    *)
(* the session, a cached summary is of the content in its key, and what the *)
(* model read last is the content the file's summary was taken from.        *)
TypesInv ==
  /\ disk \in [Sources -> Texts] /\ settings \in Settings
  /\ steps \in Nat /\ written \in Nat /\ unwritten \in Nat
MemosInv ==
  /\ MemoOK(memo) /\ MemoOK(session.memo)
  /\ session = [memo |-> session.memo, checkpoint |-> session.checkpoint, items |-> session.items]
CheckpointsInv == session.items = items /\ written \in items \cup {0} /\ unwritten \in items \cup {0}
CacheInv ==
  \A k \in DOMAIN summaryCache : summaryCache[k] \in TextsKnown /\ summaryCache[k].content = k[2]
ReadInv ==
  /\ readAs \in [Sources -> Texts \cup {NoText}]
  /\ \A p \in Sources : readAs[p] # NoText =>
       p \in DOMAIN memo.summaries /\ memo.summaries[p].fresh = readAs[p]
PromptInv ==
  /\ Cardinality(prompt.recalled) <= RecallLimit
  /\ RecalledCurrent /\ DriftNamed
  /\ \A c, d \in prompt.recalled :
       c.kind = "note" /\ d.kind = "summary" /\ c.about # <<>> => c.about[1] # d.file

SessionInv == TypesInv /\ MemosInv /\ CheckpointsInv /\ CacheInv /\ ReadInv /\ PromptInv

(* The bound of what is recalled from nothing.                              *)
LEMMA NothingRecalled ==
  /\ MemoOK(NewMemo)
  /\ Cardinality({}) <= RecallLimit
<1>1. RecentOK(<<>>) /\ SummariesOK(<<>>) /\ NotesOK(<<>>)
  BY SessionAssumption DEF RecentOK, SummariesOK, NotesOK, IsInjective
<1>2. Cardinality({}) = 0
  BY FS_EmptySet
<1>. QED
  BY <1>1, <1>2, SessionAssumption DEF MemoOK, NewMemo

(* What a tool call leaves, whatever memory it makes.                       *)
LEMMA ToolKeeps ==
  ASSUME SessionInv, NEW m, MemoOK(m), EndTool(m)
  PROVE  /\ MemosInv' /\ CheckpointsInv' /\ PromptInv'
         /\ settings' \in Settings /\ steps' \in Nat /\ written' \in Nat /\ unwritten' \in Nat
         /\ memo' = m
<1>1. /\ session' = [memo |-> m, checkpoint |-> session.checkpoint, items |-> session.items]
      /\ memo' = m
  BY DEF SessionInv, MemosInv, EndTool
<1>2. MemosInv'
  BY <1>1 DEF MemosInv
<1>3. CheckpointsInv'
  BY <1>1 DEF SessionInv, CheckpointsInv, EndTool
<1>4. PromptInv'
  BY DEF SessionInv, PromptInv, EndTool, RecalledCurrent, DriftNamed
<1>. QED
  BY <1>1, <1>2, <1>3, <1>4 DEF SessionInv, TypesInv, EndTool

LEMMA ReadKeeps ==
  ASSUME SessionInv, NEW p \in Sources, NEW part \in Parts, ReadSource(p, part)
  PROVE  SessionInv'
<1>. DEFINE key == CacheKey(p)
            text == IF key \in DOMAIN summaryCache THEN summaryCache[key]
                    ELSE [content |-> disk[p], part |-> part]
            note == [text |-> text, about |-> <<p>>]
            one == RememberFile(memo, p)
            two == SetSummary(one, p, text)
            three == AppendNote(two, note)
<1>1. text \in TextsKnown /\ text.content = disk[p] /\ disk[p] \in Texts
  <2>1. key[2] = disk[p] /\ disk[p] \in Texts
    BY DEF CacheKey, SessionInv, TypesInv
  <2>2. CASE key \in DOMAIN summaryCache
    <3>. HIDE DEF key
    <3>. QED
      BY <2>1, <2>2 DEF SessionInv, CacheInv
  <2>3. CASE key \notin DOMAIN summaryCache
    BY <2>1, <2>3 DEF TextsKnown
  <2>. QED
    BY <2>2, <2>3
<1>2. /\ EndTool(three)
      /\ summaryCache' = [k \in DOMAIN summaryCache \cup {key} |->
                            IF k = key THEN text ELSE summaryCache[k]]
      /\ readAs' = [readAs EXCEPT ![p] = disk[p]]
      /\ disk' = disk
  BY DEF ReadSource
<1>3. note \in NotesKnown
  <2>1. <<p>> \in Seq(Sources)
    OBVIOUS
  <2>. HIDE DEF text
  <2>. QED
    BY <1>1, <2>1 DEF NotesKnown
<1>4. key[2] = disk[p]
  BY DEF CacheKey
<1>. HIDE DEF key, text, note
<1>5. MemoOK(one) /\ one.summaries = memo.summaries
  BY RecentKept DEF SessionInv, MemosInv
<1>. HIDE DEF one
<1>6. /\ MemoOK(two) /\ DOMAIN two.summaries = DOMAIN memo.summaries \cup {p}
      /\ \A q \in DOMAIN memo.summaries \ {p} : two.summaries[q] = memo.summaries[q]
      /\ two.summaries[p].fresh = disk[p]
  BY <1>1, <1>5, SummaryKept
<1>. HIDE DEF two
<1>7. MemoOK(three) /\ three.summaries = two.summaries
  BY <1>3, <1>6, NotesKept
<1>. HIDE DEF three
<1>8. MemosInv' /\ CheckpointsInv' /\ PromptInv' /\ TypesInv' /\ memo' = three
  BY <1>2, <1>7, ToolKeeps DEF SessionInv, TypesInv
<1>9. CacheInv'
  BY <1>1, <1>2, <1>4 DEF SessionInv, CacheInv
<1>10. ReadInv'
  <2>1. readAs' \in [Sources -> Texts \cup {NoText}]
    BY <1>1, <1>2 DEF SessionInv, ReadInv
  <2>2. ASSUME NEW q \in Sources, readAs'[q] # NoText
        PROVE  q \in DOMAIN memo'.summaries /\ memo'.summaries[q].fresh = readAs'[q]
    <3>1. CASE q = p
      BY <1>2, <1>6, <1>7, <1>8, <3>1 DEF SessionInv, ReadInv
    <3>2. CASE q # p
      BY <1>2, <1>6, <1>7, <1>8, <2>2, <3>2 DEF SessionInv, ReadInv
    <3>. QED
      BY <3>1, <3>2
  <2>. QED
    BY <2>1, <2>2 DEF ReadInv
<1>. QED
  BY <1>8, <1>9, <1>10 DEF SessionInv

LEMMA WriteKeeps ==
  ASSUME SessionInv, NEW p \in Sources, NEW c \in Texts, WriteSource(p, c)
  PROVE  SessionInv'
<1>. DEFINE one == RememberFile(memo, p)
            two == Without(one, {p})
<1>1. MemoOK(one) /\ one.summaries = memo.summaries
  BY RecentKept DEF SessionInv, MemosInv
<1>2. /\ EndTool(two) /\ disk' = [disk EXCEPT ![p] = c]
      /\ readAs' = [readAs EXCEPT ![p] = NoText] /\ summaryCache' = summaryCache
  BY DEF WriteSource
<1>. HIDE DEF one
<1>3. /\ MemoOK(two) /\ DOMAIN two.summaries = DOMAIN memo.summaries \ {p}
      /\ \A q \in DOMAIN memo.summaries \ {p} : two.summaries[q] = memo.summaries[q]
  BY <1>1, WithoutKept
<1>. HIDE DEF two
<1>4. MemosInv' /\ CheckpointsInv' /\ PromptInv' /\ TypesInv' /\ memo' = two
  BY <1>2, <1>3, ToolKeeps DEF SessionInv, TypesInv
<1>5. CacheInv'
  BY <1>2 DEF SessionInv, CacheInv
<1>6. ReadInv'
  BY <1>2, <1>3, <1>4 DEF SessionInv, ReadInv
<1>. QED
  BY <1>4, <1>5, <1>6 DEF SessionInv

LEMMA FailureKeeps ==
  ASSUME SessionInv, NEW changed \in [Sources -> Texts], ToolFails(changed)
  PROVE  SessionInv'
<1>. DEFINE places == {i \in DOMAIN SourceOrder : changed[SourceOrder[i]] # disk[SourceOrder[i]]}
            affected == Picked(SourceOrder, places)
            note == [text |-> [content |-> "failure", part |-> affected], about |-> affected]
            m == AppendNote(memo, note)
<1>1. EndTool(m) /\ disk' = changed /\ summaryCache' = summaryCache /\ readAs' = readAs
  BY DEF ToolFails
<1>2. note \in NotesKnown
  <2>1. SourceOrder \in Seq(Sources) /\ places \subseteq DOMAIN SourceOrder
    BY SessionAssumption
  <2>. HIDE DEF places
  <2>2. affected \in Seq(Sources)
    BY <2>1, PickedMembers
  <2>. HIDE DEF affected
  <2>. QED
    BY <2>2 DEF NotesKnown, TextsKnown
<1>. HIDE DEF note
<1>3. MemoOK(m) /\ m.summaries = memo.summaries
  BY <1>2, NotesKept DEF SessionInv, MemosInv
<1>. HIDE DEF m
<1>4. MemosInv' /\ CheckpointsInv' /\ PromptInv' /\ TypesInv' /\ memo' = m
  BY <1>1, <1>3, ToolKeeps DEF SessionInv, TypesInv
<1>5. CacheInv' /\ ReadInv'
  BY <1>1, <1>3, <1>4 DEF SessionInv, CacheInv, ReadInv
<1>. QED
  BY <1>4, <1>5 DEF SessionInv

LEMMA ChangeKeeps ==
  ASSUME SessionInv, NEW p \in Sources, NEW c \in Texts, ChangeSource(p, c)
  PROVE  SessionInv'
<1>1. TypesInv'
  BY DEF SessionInv, TypesInv, ChangeSource
<1>2. MemosInv' /\ CheckpointsInv' /\ CacheInv'
  BY DEF SessionInv, MemosInv, CheckpointsInv, CacheInv, ChangeSource
<1>3. ReadInv' /\ PromptInv'
  BY DEF SessionInv, ReadInv, PromptInv, ChangeSource, RecalledCurrent, DriftNamed
<1>. QED
  BY <1>1, <1>2, <1>3 DEF SessionInv

(* A checkpoint is saved with the session, before its id is anywhere else.  *)
LEMMA CheckpointKeeps ==
  ASSUME SessionInv, NEW m, MemoOK(m), memo' = m,
         MakeCheckpoint(m) \/ NoNewCheckpoint, written' = written
  PROVE  MemosInv' /\ CheckpointsInv' /\ steps' \in Nat /\ written' \in Nat /\ unwritten' \in Nat
<1>1. CASE MakeCheckpoint(m)
  <2>1. /\ session' = [memo |-> m, checkpoint |-> checkpoint', items |-> items']
        /\ items' = items \cup {steps + 1} /\ unwritten' = steps + 1 /\ steps' = steps + 1
    BY <1>1 DEF MakeCheckpoint
  <2>2. MemosInv'
    BY <2>1 DEF MemosInv
  <2>3. CheckpointsInv'
    BY <2>1 DEF SessionInv, CheckpointsInv
  <2>. QED
    BY <2>1, <2>2, <2>3 DEF SessionInv, TypesInv
<1>2. CASE NoNewCheckpoint
  BY <1>2 DEF NoNewCheckpoint, SessionInv, TypesInv, MemosInv, CheckpointsInv
<1>. QED
  BY <1>1, <1>2

LEMMA PromptKeeps ==
  ASSUME SessionInv, NEW q \in Requests, BuildSessionPrompt(q)
  PROVE  SessionInv'
<1>. DEFINE stale == StaleSummaries(memo)
            m == Without(memo, stale)
            told == IF checkpoint = NoCheckpoint THEN {} ELSE StalePaths(memo)
            old == {p \in Sources : readAs[p] \notin {NoText, disk[p]}}
            missed == IF checkpoint = NoCheckpoint THEN {} ELSE old \ told
<1>1. /\ memo' = m
      /\ prompt' = [status |-> ResumeStatus(memo), stale |-> told,
                    recalled |-> {Shown(c) : c \in Recalled(m, q)}, seen |-> disk, missed |-> missed]
      /\ readAs' = [p \in Sources |-> IF p \in old THEN NoText ELSE readAs[p]]
      /\ MakeCheckpoint(m) \/ NoNewCheckpoint
      /\ UNCHANGED <<disk, settings, summaryCache, written>>
  BY DEF BuildSessionPrompt
<1>2. /\ MemoOK(m) /\ DOMAIN m.summaries = DOMAIN memo.summaries \ stale
      /\ \A p \in DOMAIN memo.summaries \ stale : m.summaries[p] = memo.summaries[p]
  <2>. HIDE DEF stale
  <2>. QED
    BY WithoutKept DEF SessionInv, MemosInv
<1>3. \A p \in DOMAIN memo.summaries : p \in stale <=> memo.summaries[p].fresh # disk[p]
  BY DEF StaleSummaries
<1>4. old \subseteq stale
  BY <1>3 DEF SessionInv, ReadInv
<1>5. missed = {}
  BY <1>4 DEF StalePaths
<1>. HIDE DEF m, stale, missed
<1>6. MemosInv' /\ CheckpointsInv' /\ TypesInv'
  BY <1>1, <1>2, CheckpointKeeps DEF SessionInv, TypesInv
<1>7. CacheInv'
  BY <1>1 DEF SessionInv, CacheInv
<1>8. ReadInv'
  <2>1. readAs' \in [Sources -> Texts \cup {NoText}]
    BY <1>1 DEF SessionInv, ReadInv
  <2>2. ASSUME NEW p \in Sources, readAs'[p] # NoText
        PROVE  p \in DOMAIN m.summaries /\ m.summaries[p].fresh = readAs'[p]
    <3>1. readAs'[p] = readAs[p] /\ readAs[p] = disk[p]
      BY <1>1, <2>2
    <3>2. p \in DOMAIN memo.summaries /\ memo.summaries[p].fresh = readAs[p]
      BY <2>2, <3>1 DEF SessionInv, ReadInv
    <3>. QED
      BY <1>2, <1>3, <3>1, <3>2
  <2>. QED
    BY <1>1, <2>1, <2>2 DEF ReadInv
<1>9. PromptInv'
  <2>. DEFINE recalled == {Shown(c) : c \in Recalled(m, q)}
  <2>1. prompt'.recalled = recalled /\ prompt'.seen = disk /\ prompt'.missed = {}
    BY <1>1, <1>5
  <2>2. RecalledOK(m, recalled)
    BY <1>2, ShownFacts
  <2>. HIDE DEF recalled
  <2>3. ASSUME NEW c \in recalled, c.kind = "summary"
        PROVE  c.text.content = disk[c.file]
    BY <1>2, <2>2, <2>3 DEF RecalledOK, StaleSummaries, MemoOK, SummariesOK
  <2>. QED
    BY <2>1, <2>2, <2>3 DEF RecalledOK, PromptInv, RecalledCurrent, DriftNamed
<1>. QED
  BY <1>6, <1>7, <1>8, <1>9 DEF SessionInv

LEMMA ReopenKeeps ==
  ASSUME SessionInv, NEW s \in Settings, ReopenSession(s)
  PROVE  SessionInv'
<1>. DEFINE stale == StaleSummaries(session.memo)
            m == Without(session.memo, stale)
<1>1. /\ settings' = s /\ memo' = m
      /\ checkpoint' = session.checkpoint /\ items' = session.items
      /\ session' = [session EXCEPT !.memo = m]
      /\ unwritten' = 0 /\ prompt' = EmptyPrompt
      /\ readAs' = [p \in Sources |-> NoText]
      /\ UNCHANGED <<disk, summaryCache, written, steps>>
  BY DEF ReopenSession
<1>. HIDE DEF stale
<1>2. MemoOK(m)
  BY WithoutKept DEF SessionInv, MemosInv
<1>. HIDE DEF m
<1>3. session' = [memo |-> m, checkpoint |-> session.checkpoint, items |-> session.items]
  BY <1>1 DEF SessionInv, MemosInv
<1>4. TypesInv' /\ CacheInv'
  BY <1>1 DEF SessionInv, TypesInv, CacheInv
<1>5. MemosInv' /\ CheckpointsInv'
  BY <1>1, <1>2, <1>3 DEF SessionInv, MemosInv, CheckpointsInv
<1>6. ReadInv'
  BY <1>1 DEF ReadInv
<1>7. PromptInv'
  BY <1>1, NothingRecalled DEF PromptInv, EmptyPrompt, RecalledCurrent, DriftNamed
<1>. QED
  BY <1>4, <1>5, <1>6, <1>7 DEF SessionInv

LEMMA SessionImplied == SessionInv => SessionSound
BY DEF SessionInv, TypesInv, MemosInv, CheckpointsInv, PromptInv, MemoOK, RecentOK, NotesOK,
       SummariesOK, SessionSound, SessionTypeOK, CheckpointKnown, SummaryOverNote

(* What a prompt recalls of a session is current, for any files, contents   *)
(* and limits, over edits, changes from outside, failed calls, the cache    *)
(* that processes share, checkpoints, and processes that end anywhere       *)
(* (LayeredMemory, evaluate_resume_state, create_checkpoint).               *)
THEOREM SessionRecalled == SessionSpec => []SessionSound
<1>1. SessionInit => SessionInv
  <2>. SUFFICES ASSUME SessionInit PROVE SessionInv
    OBVIOUS
  <2>1. TypesInv
    BY DEF SessionInit, TypesInv
  <2>2. MemosInv /\ CheckpointsInv
    BY NothingRecalled DEF SessionInit, MemosInv, CheckpointsInv
  <2>3. CacheInv /\ ReadInv
    BY DEF SessionInit, CacheInv, ReadInv, NewMemo
  <2>4. PromptInv
    BY NothingRecalled DEF SessionInit, PromptInv, EmptyPrompt, RecalledCurrent, DriftNamed
  <2>. QED
    BY <2>1, <2>2, <2>3, <2>4 DEF SessionInv
<1>2. SessionInv /\ [SessionNext]_sessionVars => SessionInv'
  <2>. SUFFICES ASSUME SessionInv, [SessionNext]_sessionVars PROVE SessionInv'
    OBVIOUS
  <2>1. CASE \E p \in Sources, part \in Parts : ReadSource(p, part)
    BY <2>1, ReadKeeps
  <2>2. CASE \E p \in Sources, c \in Texts : WriteSource(p, c)
    BY <2>2, WriteKeeps
  <2>3. CASE \E changed \in [Sources -> Texts] : ToolFails(changed)
    BY <2>3, FailureKeeps
  <2>4. CASE \E p \in Sources, c \in Texts : ChangeSource(p, c)
    BY <2>4, ChangeKeeps
  <2>5. CASE \E q \in Requests : BuildSessionPrompt(q)
    BY <2>5, PromptKeeps
  <2>6. CASE EndSessionRun
    <3>1. MakeCheckpoint(memo) /\ memo' = memo /\ MemoOK(memo)
          /\ UNCHANGED <<disk, settings, summaryCache, written, prompt, readAs>>
      BY <2>6 DEF EndSessionRun, SessionInv, MemosInv
    <3>2. MemosInv' /\ CheckpointsInv' /\ TypesInv'
      BY <3>1, CheckpointKeeps DEF SessionInv, TypesInv
    <3>3. CacheInv' /\ ReadInv' /\ PromptInv'
      BY <3>1 DEF SessionInv, CacheInv, ReadInv, PromptInv, RecalledCurrent, DriftNamed
    <3>. QED
      BY <3>2, <3>3 DEF SessionInv
  <2>7. CASE WriteCheckpointId
    <3>1. TypesInv' /\ MemosInv' /\ CheckpointsInv'
      BY <2>7 DEF WriteCheckpointId, SessionInv, TypesInv, MemosInv, CheckpointsInv
    <3>2. CacheInv' /\ ReadInv' /\ PromptInv'
      BY <2>7 DEF WriteCheckpointId, SessionInv, CacheInv, ReadInv, PromptInv, RecalledCurrent,
                  DriftNamed
    <3>. QED
      BY <3>1, <3>2 DEF SessionInv
  <2>8. CASE \E s \in Settings : ReopenSession(s)
    BY <2>8, ReopenKeeps
  <2>9. CASE UNCHANGED sessionVars
    BY <2>9 DEF sessionVars, SessionInv, TypesInv, MemosInv, CheckpointsInv, CacheInv, ReadInv,
                PromptInv, RecalledCurrent, DriftNamed
  <2>. QED
    BY <2>1, <2>2, <2>3, <2>4, <2>5, <2>6, <2>7, <2>8, <2>9 DEF SessionNext
<1>3. SessionInv => SessionSound
  BY SessionImplied
<1>. QED
  BY <1>1, <1>2, <1>3, PTL DEF SessionSpec
-----------------------------------------------------------------------------

(* The evidence memory, for any files, contents, kinds, queries and limits. *)

(* A record by itself: of a file, or of a command, which does not go stale; *)
(* a summary of a read was taken from the content it names, or a secret     *)
(* took the place of that.                                                  *)
RecordOK(r, n) ==
  /\ r \in EvidenceRecords /\ r.at <= n /\ Id(r) \in Identities
  /\ r.path = NoPath => r.status \in {"fresh", "superseded"}
  /\ r.kind = "read" /\ r.status # "superseded" => r.about = r.hash \/ r.hash \in Secrets
(* Two records: made one after the other, and of the same identity only the *)
(* later one lives.                                                         *)
PairOK(r, q) ==
  /\ r.at # q.at
  /\ Id(r) = Id(q) /\ r.status # "superseded" => q.at < r.at /\ q.status = "superseded"
RecordsOK(s, n) ==
  /\ s \in Seq(EvidenceRecords)
  /\ \A i \in DOMAIN s : RecordOK(s[i], n)
  /\ \A i, j \in DOMAIN s : i # j => PairOK(s[i], s[j])

(* Of a sequence, elements at different places.                             *)
Among(t, s, at) ==
  /\ t \in Seq(EvidenceRecords) /\ at \in [DOMAIN t -> DOMAIN s]
  /\ \A k \in DOMAIN t : t[k] = s[at[k]]
  /\ \A k, l \in DOMAIN t : at[k] = at[l] => k = l

LEMMA AmongOK ==
  ASSUME NEW s, NEW n, RecordsOK(s, n), NEW t, NEW at, Among(t, s, at)
  PROVE  RecordsOK(t, n)
BY DEF RecordsOK, Among

(* New statuses and hashes.                                                 *)
Reviewed(t, s, n) ==
  /\ t = [i \in DOMAIN s |-> t[i]]
  /\ \A i \in DOMAIN s :
       /\ RecordOK(t[i], n) /\ t[i].at = s[i].at /\ Id(t[i]) = Id(s[i])
       /\ s[i].status = "superseded" => t[i].status = "superseded"

LEMMA ReviewedOK ==
  ASSUME NEW s, NEW n, RecordsOK(s, n), NEW t, Reviewed(t, s, n)
  PROVE  RecordsOK(t, n) /\ Len(t) = Len(s)
<1>1. s \in Seq(EvidenceRecords) /\ DOMAIN t = DOMAIN s
  BY DEF RecordsOK, Reviewed
<1>2. \A i \in DOMAIN s : t[i] \in EvidenceRecords
  BY DEF Reviewed, RecordOK
<1>3. t \in Seq(EvidenceRecords) /\ Len(t) = Len(s)
  <2>1. Len(s) \in Nat /\ DOMAIN s = 1..Len(s)
    BY <1>1
  <2>2. t \in [1..Len(s) -> EvidenceRecords]
    BY <1>2, <2>1 DEF Reviewed
  <2>. QED
    BY <2>1, <2>2
<1>4. \A i, j \in DOMAIN t : i # j => PairOK(t[i], t[j])
  BY <1>1 DEF RecordsOK, Reviewed, PairOK
<1>. QED
  BY <1>1, <1>3, <1>4 DEF RecordsOK, Reviewed

LEMMA LaterOK == ASSUME NEW s, NEW n \in Nat, RecordsOK(s, n) PROVE RecordsOK(s, n + 1)
<1>1. \A r \in EvidenceRecords : r.at <= n => r.at <= n + 1
  BY DEF EvidenceRecords
<1>. QED
  BY <1>1 DEF RecordsOK, RecordOK

(* A record is added: it is the latest.                                     *)
LEMMA AppendOK ==
  ASSUME NEW s, NEW n \in Nat, RecordsOK(s, n), NEW r, RecordOK(r, n + 1), r.at = n + 1,
         r.status # "superseded",
         \A i \in DOMAIN s : Id(s[i]) = Id(r) => s[i].status = "superseded"
  PROVE  RecordsOK(Append(s, r), n + 1)
<1>. DEFINE t == Append(s, r)
<1>1. RecordsOK(s, n + 1)
  BY LaterOK
<1>2. s \in Seq(EvidenceRecords) /\ r \in EvidenceRecords
  BY DEF RecordsOK, RecordOK
<1>3. /\ t \in Seq(EvidenceRecords) /\ DOMAIN t = 1..(Len(s) + 1) /\ DOMAIN s = 1..Len(s)
      /\ \A i \in DOMAIN s : t[i] = s[i] /\ i \in DOMAIN t
      /\ t[Len(s) + 1] = r /\ Len(s) \in Nat
      /\ \A i \in DOMAIN t : i \in DOMAIN s \/ i = Len(s) + 1
  BY <1>2, AppendProperties
<1>. HIDE DEF t
<1>4. \A i \in DOMAIN s : PairOK(s[i], r) /\ PairOK(r, s[i])
  <2>1. ASSUME NEW i \in DOMAIN s PROVE PairOK(s[i], r) /\ PairOK(r, s[i])
    <3>1. s[i].at \in Nat /\ s[i].at <= n
      BY <1>2 DEF RecordsOK, RecordOK, EvidenceRecords
    <3>2. Id(s[i]) = Id(r) => s[i].status = "superseded"
      OBVIOUS
    <3>3. s[i].at < r.at
      BY <3>1
    <3>. QED
      BY <3>1, <3>2, <3>3 DEF PairOK
  <2>. QED
    BY <2>1
<1>5. \A i \in DOMAIN t : RecordOK(t[i], n + 1)
  BY <1>1, <1>3 DEF RecordsOK
<1>6. \A i, j \in DOMAIN t : i # j => PairOK(t[i], t[j])
  BY <1>1, <1>3, <1>4 DEF RecordsOK
<1>. QED
  BY <1>3, <1>5, <1>6 DEF RecordsOK, t

(* What is left of a store within its bounds is among it, in the order of   *)
(* age when some had to go.                                                 *)
LEMMA OlderOrders ==
  ASSUME NEW s, NEW n, RecordsOK(s, n)
  PROVE  Orders(Older(s), DOMAIN s)
<1>. DEFINE before(i, j) == s[i].at < s[j].at \/ (s[i].at = s[j].at /\ i < j)
<1>1. \A i \in DOMAIN s : i \in Nat /\ s[i].at \in Nat
  <2>1. \A i \in DOMAIN s : i \in Nat /\ s[i] \in EvidenceRecords
    BY DEF RecordsOK
  <2>. QED
    BY <2>1 DEF EvidenceRecords
<1>2. \A i, j \in DOMAIN s : <<i, j>> \in Older(s) <=> before(i, j)
  BY DEF Older
<1>3. \A i, j \in DOMAIN s : i = j \/ before(i, j) \/ before(j, i)
  BY <1>1
<1>4. \A i \in DOMAIN s : ~before(i, i)
  BY <1>1
<1>5. \A i, j, k \in DOMAIN s : before(i, j) /\ before(j, k) => before(i, k)
  BY <1>1
<1>. HIDE DEF before
<1>. QED
  BY <1>2, <1>3, <1>4, <1>5 DEF Orders

LEMMA BoundsOK ==
  ASSUME NEW s, NEW n, RecordsOK(s, n)
  PROVE  LET t == EnforceBounds(s) IN
         /\ Len(t) <= MaxRecords
         /\ \/ t = s
            \/ \E at : /\ Among(t, s, at)
                       /\ \A k, l \in DOMAIN t : k < l => t[k].at <= t[l].at
<1>. DEFINE t == EnforceBounds(s)
            a == ByAge(s)
<1>1. CASE Len(s) <= MaxRecords
  BY <1>1 DEF EnforceBounds
<1>2. CASE ~(Len(s) <= MaxRecords)
  <2>1. s \in Seq(EvidenceRecords) /\ Orders(Older(s), DOMAIN s)
    BY OlderOrders DEF RecordsOK
  <2>2. /\ a \in Seq(EvidenceRecords) /\ Len(a) = Len(s)
        /\ \E at \in [DOMAIN s -> DOMAIN s] : SortedAt(at, s, Older(s))
    BY <2>1, SortedPlaces DEF ByAge
  <2>3. PICK at \in [DOMAIN s -> DOMAIN s] : SortedAt(at, s, Older(s))
    BY <2>2
  <2>4. /\ \A k \in DOMAIN s : a[k] = s[at[k]]
        /\ \A k, l \in DOMAIN s : k < l <=> <<at[k], at[l]>> \in Older(s)
        /\ \A k, l \in DOMAIN s : at[k] = at[l] => k = l
    BY <2>3 DEF SortedAt, ByAge
  <2>. HIDE DEF a
  <2>5. MaxRecords \in Nat /\ Len(s) \in Nat /\ DOMAIN s = 1..Len(s) /\ DOMAIN a = DOMAIN s
    BY <2>1, <2>2, EvidenceAssumption
  <2>6. t = EndOf(a, MaxRecords)
    <3>1. t = SubSeq(a, Len(a) - MaxRecords + 1, Len(a))
      BY <1>2, <2>2 DEF EnforceBounds, a
    <3>2. Len(a) > MaxRecords
      BY <1>2, <2>2, <2>5
    <3>. QED
      BY <3>1, <3>2 DEF EndOf
  <2>. HIDE DEF t
  <2>7. t \in Seq(EvidenceRecords) /\ Len(t) <= MaxRecords
    BY <2>2, <2>5, <2>6, EndPlaces
  <2>e. \E d \in 0..Len(a) : EndAt(d, t, a)
    BY <2>2, <2>5, <2>6, EndPlaces
  <2>8. PICK d \in 0..Len(a) :
          \A i \in 1..Len(t) : i + d \in 1..Len(a) /\ t[i] = a[i + d]
    BY <2>e DEF EndAt
  <2>. DEFINE from == [k \in DOMAIN t |-> at[k + d]]
  <2>9. ASSUME NEW k \in DOMAIN t
        PROVE  k \in Nat /\ k + d \in DOMAIN s /\ t[k] = s[from[k]] /\ from[k] \in DOMAIN s
               /\ from[k] = at[k + d]
    <3>1. k \in 1..Len(t) /\ k \in Nat
      BY <2>7
    <3>. QED
      BY <2>2, <2>4, <2>5, <2>8, <3>1
  <2>10. ASSUME NEW k \in DOMAIN t, NEW l \in DOMAIN t, from[k] = from[l] PROVE k = l
    <3>1. k + d = l + d
      BY <2>4, <2>9, <2>10
    <3>. QED
      BY <2>9, <3>1
  <2>11. ASSUME NEW k \in DOMAIN t, NEW l \in DOMAIN t, k < l PROVE t[k].at <= t[l].at
    <3>1. k + d < l + d
      BY <2>9, <2>11
    <3>2. <<from[k], from[l]>> \in Older(s)
      BY <2>4, <2>9, <3>1
    <3>3. s[from[k]].at <= s[from[l]].at
      <4>1. s[from[k]].at \in Nat /\ s[from[l]].at \in Nat
        <5>1. s[from[k]] \in EvidenceRecords /\ s[from[l]] \in EvidenceRecords
          BY <2>1, <2>9
        <5>. QED
          BY <5>1 DEF EvidenceRecords
      <4>. QED
        BY <3>2, <4>1 DEF Older
    <3>. QED
      BY <2>9, <3>3
  <2>12. Among(t, s, from)
    <3>1. from \in [DOMAIN t -> DOMAIN s]
      BY <2>9
    <3>. HIDE DEF from
    <3>. QED
      BY <2>7, <2>9, <2>10, <3>1 DEF Among
  <2>. QED
    BY <2>7, <2>11, <2>12 DEF t
<1>. QED
  BY <1>1, <1>2

-----------------------------------------------------------------------------
(* What a store says of its files.                                          *)

ContentInv ==
  /\ content \in [Paths -> Contents \cup {Gone}]
  /\ current \in [Paths -> SUBSET (Contents \cup {Gone})]
  /\ \A p \in Paths : content[p] \in current[p]

(* A record that is called fresh names a content its file had lately.       *)
FreshIn(s) ==
  \A i \in DOMAIN s :
    s[i].status = "fresh" /\ s[i].path # NoPath => s[i].hash \in current[s[i].path]
(* Of two living records of the same content of a file, one that is called  *)
(* fresh beside one that is not is the later one, by place and by age.      *)
Even(s) ==
  \A i, j \in Live(s) :
    /\ s[i].path = s[j].path /\ s[i].hash = s[j].hash
    /\ s[i].status = "fresh" /\ s[j].status # "fresh"
    => j < i /\ s[j].at < s[i].at
Facts(s) == {<<Id(s[i]), s[i].about>> : i \in Live(s)}

LEMMA BoundsKeep ==
  ASSUME NEW s, NEW n, RecordsOK(s, n), FreshIn(s), Even(s)
  PROVE  LET t == EnforceBounds(s) IN
         RecordsOK(t, n) /\ Len(t) <= MaxRecords /\ FreshIn(t) /\ Even(t)
<1>. DEFINE t == EnforceBounds(s)
<1>1. Len(t) <= MaxRecords
  BY BoundsOK
<1>2. CASE t = s
  BY <1>1, <1>2
<1>3. CASE \E at : /\ Among(t, s, at)
                   /\ \A k, l \in DOMAIN t : k < l => t[k].at <= t[l].at
  <2>1. PICK at : /\ Among(t, s, at)
                  /\ \A k, l \in DOMAIN t : k < l => t[k].at <= t[l].at
    BY <1>3
  <2>. HIDE DEF t
  <2>2. RecordsOK(t, n)
    BY <2>1, AmongOK
  <2>3. \A k \in DOMAIN t : t[k] = s[at[k]] /\ at[k] \in DOMAIN s
    BY <2>1 DEF Among
  <2>4. FreshIn(t)
    BY <2>3 DEF FreshIn
  <2>5. Even(t)
    <3>1. ASSUME NEW i \in Live(t), NEW j \in Live(t),
                 t[i].path = t[j].path /\ t[i].hash = t[j].hash,
                 t[i].status = "fresh" /\ t[j].status # "fresh"
          PROVE  j < i /\ t[j].at < t[i].at
      <4>1. i \in DOMAIN t /\ j \in DOMAIN t /\ i # j
        BY <3>1 DEF Live
      <4>2. at[i] \in Live(s) /\ at[j] \in Live(s)
        BY <2>3, <3>1, <4>1 DEF Live
      <4>3. s[at[j]].at < s[at[i]].at
        BY <2>3, <3>1, <4>1, <4>2 DEF Even
      <4>4. t[j].at < t[i].at
        BY <2>3, <4>1, <4>3
      <4>5. t[i] \in EvidenceRecords /\ t[j] \in EvidenceRecords /\ i \in Nat /\ j \in Nat
        BY <2>2, <4>1 DEF RecordsOK
      <4>6. t[i].at \in Nat /\ t[j].at \in Nat
        BY <4>5 DEF EvidenceRecords
      <4>7. ~(i < j)
        <5>1. i < j => t[i].at <= t[j].at
          BY <2>1, <4>1
        <5>. QED
          BY <4>4, <4>6, <5>1
      <4>. QED
        BY <4>1, <4>4, <4>5, <4>7
    <3>. QED
      BY <3>1 DEF Even
  <2>. QED
    BY <1>1, <2>2, <2>4, <2>5 DEF t
<1>. QED
  BY <1>2, <1>3, BoundsOK

(* A record is added to a store in which its identity does not live.        *)
LEMMA AddedKeeps ==
  ASSUME NEW u, ticks \in Nat, RecordsOK(u, ticks), FreshIn(u), Even(u), ContentInv,
         NEW p, NEW k, <<p, k>> \in Identities,
         \A i \in DOMAIN u : Id(u[i]) = <<p, k>> => u[i].status = "superseded"
  PROVE  LET t == EnforceBounds(Append(u, NewRecord(p, k))) IN
         RecordsOK(t, ticks + 1) /\ Len(t) <= MaxRecords /\ FreshIn(t) /\ Even(t)
<1>. DEFINE r == NewRecord(p, k)
            v == Append(u, r)
<1>1. /\ p \in Paths \cup {NoPath} /\ k \in Kinds \cup {"verified"}
      /\ Hash(p) \in Contents \cup {Gone}
  BY EvidenceAssumption DEF Identities, Hash, ContentInv
<1>2. /\ r \in EvidenceRecords /\ r.at = ticks + 1 /\ r.status = "fresh" /\ Id(r) = <<p, k>>
      /\ r.path = p /\ r.hash = Hash(p) /\ r.about = Hash(p)
  BY <1>1 DEF NewRecord, EvidenceRecords, Statuses, Id
<1>. HIDE DEF r
<1>3. RecordOK(r, ticks + 1)
  BY <1>2 DEF RecordOK
<1>4. RecordsOK(v, ticks + 1)
  BY <1>2, <1>3, AppendOK
<1>5. u \in Seq(EvidenceRecords)
  BY DEF RecordsOK
<1>6. /\ DOMAIN v = 1..(Len(u) + 1) /\ DOMAIN u = 1..Len(u)
      /\ \A i \in DOMAIN u : v[i] = u[i] /\ i \in DOMAIN v
      /\ v[Len(u) + 1] = r /\ Len(u) \in Nat
      /\ \A i \in DOMAIN v : i \in DOMAIN u \/ i = Len(u) + 1
  BY <1>2, <1>5, AppendProperties
<1>. HIDE DEF v
<1>7. FreshIn(v)
  <2>1. r.path # NoPath => r.hash \in current[r.path]
    BY <1>1, <1>2 DEF Hash, ContentInv
  <2>. QED
    BY <1>6, <2>1 DEF FreshIn
<1>8. Even(v)
  <2>1. ASSUME NEW i \in Live(v), NEW j \in Live(v),
               v[i].path = v[j].path /\ v[i].hash = v[j].hash,
               v[i].status = "fresh" /\ v[j].status # "fresh"
        PROVE  j < i /\ v[j].at < v[i].at
    <3>1. i \in DOMAIN v /\ j \in DOMAIN v
      BY DEF Live
    <3>2. j \in DOMAIN u
      BY <1>2, <1>6, <2>1, <3>1
    <3>3. CASE i \in DOMAIN u
      <4>1. i \in Live(u) /\ j \in Live(u)
        BY <1>6, <3>2, <3>3 DEF Live
      <4>. QED
        BY <1>6, <2>1, <3>2, <3>3, <4>1 DEF Even
    <3>4. CASE i = Len(u) + 1
      <4>1. u[j] \in EvidenceRecords /\ u[j].at <= ticks
        BY <3>2 DEF RecordsOK, RecordOK
      <4>2. u[j].at \in Nat
        BY <4>1 DEF EvidenceRecords
      <4>3. j \in Nat /\ j <= Len(u)
        BY <1>6, <3>2
      <4>. QED
        BY <1>2, <1>6, <3>2, <3>4, <4>1, <4>2, <4>3
    <3>. QED
      BY <1>6, <3>1, <3>3, <3>4
  <2>. QED
    BY <2>1 DEF Even
<1>. QED
  BY <1>4, <1>7, <1>8, BoundsKeep DEF v, r

(* Statuses that change at most to superseded.                              *)
LEMMA SupersededKeeps ==
  ASSUME NEW s, NEW n, NEW id, RecordsOK(s, n)
  PROVE  LET t == Superseded(s, id) IN
         /\ RecordsOK(t, n)
         /\ FreshIn(s) => FreshIn(t)
         /\ Even(s) => Even(t)
         /\ \A i \in DOMAIN t : Id(t[i]) = id => t[i].status = "superseded"
<1>. DEFINE t == Superseded(s, id)
<1>1. /\ t = [i \in DOMAIN s |-> t[i]]
      /\ \A i \in DOMAIN s : t[i] = IF Id(s[i]) = id THEN [s[i] EXCEPT !.status = "superseded"]
                                     ELSE s[i]
  BY DEF Superseded
<1>. HIDE DEF t
<1>2. \A i \in DOMAIN s : RecordOK(s[i], n) /\ s[i] \in EvidenceRecords
  BY DEF RecordsOK, RecordOK
<1>3. ASSUME NEW i \in DOMAIN s
      PROVE  /\ t[i] \in EvidenceRecords
             /\ t[i].at = s[i].at /\ t[i].path = s[i].path /\ t[i].kind = s[i].kind
             /\ t[i].hash = s[i].hash /\ t[i].about = s[i].about
             /\ t[i].status \in {s[i].status, "superseded"}
             /\ Id(s[i]) = id => t[i].status = "superseded"
  BY <1>1, <1>2 DEF EvidenceRecords, Statuses
<1>4. \A i \in DOMAIN s : Id(t[i]) = Id(s[i])
  BY <1>3 DEF Id
<1>5. Reviewed(t, s, n)
  BY <1>1, <1>2, <1>3, <1>4 DEF Reviewed, RecordOK
<1>6. DOMAIN t = DOMAIN s
  BY <1>1
<1>7. FreshIn(s) => FreshIn(t)
  BY <1>3, <1>6 DEF FreshIn
<1>8. Live(t) \subseteq Live(s) /\ \A i \in Live(t) : i \in DOMAIN s /\ t[i].status = s[i].status
  BY <1>3, <1>6 DEF Live
<1>9. Even(s) => Even(t)
  BY <1>3, <1>8 DEF Even
<1>10. RecordsOK(t, n)
  BY <1>5, ReviewedOK
<1>. QED
  BY <1>3, <1>4, <1>6, <1>7, <1>9, <1>10 DEF t

LEMMA AddKeeps ==
  ASSUME NEW s, ticks \in Nat, RecordsOK(s, ticks), FreshIn(s), Even(s), ContentInv,
         NEW p, NEW k, <<p, k>> \in Identities
  PROVE  LET t == AddEvidence(s, p, k) IN
         RecordsOK(t, ticks + 1) /\ Len(t) <= MaxRecords /\ FreshIn(t) /\ Even(t)
BY SupersededKeeps, AddedKeeps DEF AddEvidence

(* A read of a file calls all its records fresh, with the hash it has.      *)
LEMMA RevalidatedFacts ==
  ASSUME NEW s, NEW n, RecordsOK(s, n), FreshIn(s), Even(s), ContentInv,
         NEW p \in Paths, content[p] # Gone
  PROVE  LET t == Revalidated(s, p) IN
         /\ t = [i \in DOMAIN s |-> t[i]] /\ FreshIn(t) /\ Even(t) /\ Live(t) = Live(s)
         /\ \A i \in DOMAIN s :
              /\ t[i] \in EvidenceRecords
              /\ t[i].at = s[i].at /\ Id(t[i]) = Id(s[i]) /\ t[i].path = s[i].path
              /\ t[i].kind = s[i].kind /\ t[i].about = s[i].about
              /\ s[i].status = "superseded" => t[i] = s[i]
              /\ s[i].path # p => t[i] = s[i]
              /\ s[i].path = p /\ s[i].status # "superseded" =>
                   t[i].hash = content[p] /\ t[i].status = "fresh"
<1>. DEFINE t == Revalidated(s, p)
<1>1. Hash(p) = content[p] /\ p # NoPath /\ content[p] \in Contents
  BY EvidenceAssumption DEF Hash, ContentInv
<1>2. /\ t = [i \in DOMAIN s |-> t[i]]
      /\ \A i \in DOMAIN s : t[i] = IF s[i].path = p /\ s[i].status # "superseded"
                                     THEN [s[i] EXCEPT !.hash = content[p], !.status = "fresh"]
                                     ELSE s[i]
  BY <1>1 DEF Revalidated
<1>. HIDE DEF t
<1>3. \A i \in DOMAIN s : s[i] \in EvidenceRecords
  BY DEF RecordsOK
<1>4. ASSUME NEW i \in DOMAIN s
      PROVE  /\ t[i] \in EvidenceRecords
             /\ t[i].at = s[i].at /\ t[i].path = s[i].path
             /\ t[i].kind = s[i].kind /\ t[i].about = s[i].about
             /\ s[i].status = "superseded" => t[i] = s[i]
             /\ s[i].path # p => t[i] = s[i]
             /\ s[i].path = p /\ s[i].status # "superseded" =>
                  t[i].hash = content[p] /\ t[i].status = "fresh"
  <2>1. CASE s[i].path = p /\ s[i].status # "superseded"
    <3>1. t[i] = [s[i] EXCEPT !.hash = content[p], !.status = "fresh"]
      BY <1>2, <2>1
    <3>. QED
      BY <1>1, <1>3, <2>1, <3>1 DEF EvidenceRecords, Statuses
  <2>2. CASE ~(s[i].path = p /\ s[i].status # "superseded")
    BY <1>2, <1>3, <2>2
  <2>. QED
    BY <2>1, <2>2
<1>5. \A i \in DOMAIN s : Id(t[i]) = Id(s[i])
  BY <1>4 DEF Id
<1>6. DOMAIN t = DOMAIN s
  BY <1>2
<1>7. Live(t) = Live(s)
  BY <1>4, <1>6 DEF Live
<1>8. FreshIn(t)
  <2>1. ASSUME NEW i \in DOMAIN t, t[i].status = "fresh", t[i].path # NoPath
        PROVE  t[i].hash \in current[t[i].path]
    <3>1. CASE s[i].path = p /\ s[i].status # "superseded"
      BY <1>4, <1>6, <3>1 DEF ContentInv
    <3>2. CASE ~(s[i].path = p /\ s[i].status # "superseded")
      BY <1>4, <1>6, <2>1, <3>2 DEF FreshIn
    <3>. QED
      BY <3>1, <3>2
  <2>. QED
    BY <2>1 DEF FreshIn
<1>9. Even(t)
  <2>1. ASSUME NEW i \in Live(t), NEW j \in Live(t),
               t[i].path = t[j].path /\ t[i].hash = t[j].hash,
               t[i].status = "fresh" /\ t[j].status # "fresh"
        PROVE  j < i /\ t[j].at < t[i].at
    <3>1. i \in DOMAIN s /\ j \in DOMAIN s /\ s[j].status # "superseded" /\ i \in Live(s) /\ j \in Live(s)
      BY <1>7 DEF Live
    <3>2. s[j].path # p
      BY <1>4, <2>1, <3>1
    <3>3. t[j] = s[j] /\ t[i] = s[i]
      BY <1>4, <2>1, <3>1, <3>2
    <3>. QED
      BY <2>1, <3>1, <3>3 DEF Even
  <2>. QED
    BY <2>1 DEF Even
<1>. QED
  BY <1>2, <1>4, <1>5, <1>7, <1>8, <1>9 DEF t

(* The two results of a read that finds something: its record is new, or    *)
(* its content is a secret.                                                 *)
LEMMA ReadAdds ==
  ASSUME NEW s, ticks \in Nat, RecordsOK(s, ticks), FreshIn(s), Even(s), ContentInv,
         NEW p \in Paths, content[p] # Gone
  PROVE  LET t == AddEvidence(Revalidated(s, p), p, "read") IN
         RecordsOK(t, ticks + 1) /\ Len(t) <= MaxRecords /\ FreshIn(t) /\ Even(t)
<1>. DEFINE known == Revalidated(s, p)
            id == <<p, "read">>
            u == Superseded(known, id)
<1>1. /\ known = [i \in DOMAIN s |-> known[i]] /\ FreshIn(known) /\ Even(known)
      /\ \A i \in DOMAIN s :
           /\ known[i] \in EvidenceRecords
           /\ known[i].at = s[i].at /\ Id(known[i]) = Id(s[i]) /\ known[i].path = s[i].path
           /\ known[i].kind = s[i].kind /\ known[i].about = s[i].about
           /\ s[i].status = "superseded" => known[i] = s[i]
           /\ s[i].path # p => known[i] = s[i]
           /\ s[i].path = p /\ s[i].status # "superseded" =>
                known[i].hash = content[p] /\ known[i].status = "fresh"
  BY RevalidatedFacts
<1>2. /\ u = [i \in DOMAIN known |-> u[i]]
      /\ \A i \in DOMAIN known : u[i] = IF Id(known[i]) = id
                                         THEN [known[i] EXCEPT !.status = "superseded"]
                                         ELSE known[i]
  BY DEF Superseded
<1>. HIDE DEF known, u
<1>3. DOMAIN known = DOMAIN s /\ DOMAIN u = DOMAIN s
  BY <1>1, <1>2
<1>4. ASSUME NEW i \in DOMAIN s
      PROVE  /\ u[i] \in EvidenceRecords
             /\ u[i].at = known[i].at /\ u[i].path = known[i].path /\ u[i].kind = known[i].kind
             /\ u[i].hash = known[i].hash /\ u[i].about = known[i].about
             /\ u[i].status \in {known[i].status, "superseded"}
             /\ Id(known[i]) = id => u[i].status = "superseded"
  BY <1>1, <1>2, <1>3 DEF EvidenceRecords, Statuses
<1>5. \A i \in DOMAIN s : Id(u[i]) = Id(s[i])
  BY <1>1, <1>4 DEF Id
<1>6. ASSUME NEW i \in DOMAIN s PROVE RecordOK(u[i], ticks)
  <2>1. RecordOK(s[i], ticks)
    BY DEF RecordsOK
  <2>2. CASE s[i].path = p
    <3>1. p # NoPath
      BY EvidenceAssumption
    <3>2. u[i].kind = "read" => u[i].status = "superseded"
      <4>1. u[i].kind = "read" => Id(known[i]) = id
        BY <1>1, <1>4, <2>2 DEF Id
      <4>. QED
        BY <1>4, <4>1
    <3>. QED
      BY <1>1, <1>4, <1>5, <2>1, <2>2, <3>1, <3>2 DEF RecordOK
  <2>3. CASE s[i].path # p
    <3>1. known[i] = s[i]
      BY <1>1, <2>3
    <3>. QED
      BY <1>4, <1>5, <2>1, <3>1 DEF RecordOK
  <2>. QED
    BY <2>2, <2>3
<1>7. ASSUME NEW i \in DOMAIN s
      PROVE  /\ u[i].at = s[i].at
             /\ s[i].status = "superseded" => u[i].status = "superseded"
  BY <1>1, <1>4
<1>8. Reviewed(u, s, ticks)
  BY <1>2, <1>3, <1>5, <1>6, <1>7 DEF Reviewed
<1>9. RecordsOK(u, ticks)
  BY <1>8, ReviewedOK
<1>10. FreshIn(u)
  BY <1>1, <1>3, <1>4 DEF FreshIn
<1>11. Even(u)
  <2>1. Live(u) \subseteq Live(known) /\ \A i \in Live(u) : i \in DOMAIN s /\ u[i].status = known[i].status
    BY <1>3, <1>4 DEF Live
  <2>2. ASSUME NEW i \in Live(u), NEW j \in Live(u),
               u[i].path = u[j].path /\ u[i].hash = u[j].hash,
               u[i].status = "fresh" /\ u[j].status # "fresh"
        PROVE  j < i /\ u[j].at < u[i].at
    <3>1. i \in DOMAIN s /\ j \in DOMAIN s /\ i \in Live(known) /\ j \in Live(known)
      BY <2>1
    <3>2. /\ known[i].path = known[j].path /\ known[i].hash = known[j].hash
          /\ known[i].status = "fresh" /\ known[j].status # "fresh"
      BY <1>4, <2>1, <2>2, <3>1
    <3>3. Even(known)
      BY <1>1
    <3>4. j < i /\ known[j].at < known[i].at
      BY <3>1, <3>2, <3>3 DEF Even
    <3>. QED
      BY <1>4, <3>1, <3>4
  <2>. QED
    BY <2>2 DEF Even
<1>12. \A i \in DOMAIN u : Id(u[i]) = id => u[i].status = "superseded"
  BY <1>1, <1>3, <1>4, <1>5
<1>13. id \in Identities
  BY EvidenceAssumption DEF Identities
<1>. QED
  BY <1>9, <1>10, <1>11, <1>12, <1>13, AddedKeeps DEF AddEvidence, u, known

LEMMA SecretKeeps ==
  ASSUME NEW s, NEW n, RecordsOK(s, n), FreshIn(s), Even(s), ContentInv,
         NEW p \in Paths, content[p] # Gone, content[p] \in Secrets
  PROVE  LET t == Revalidated(s, p) IN
         RecordsOK(t, n) /\ Len(t) = Len(s) /\ FreshIn(t) /\ Even(t)
<1>. DEFINE t == Revalidated(s, p)
<1>1. /\ t = [i \in DOMAIN s |-> t[i]] /\ FreshIn(t) /\ Even(t)
      /\ \A i \in DOMAIN s :
           /\ t[i] \in EvidenceRecords
           /\ t[i].at = s[i].at /\ Id(t[i]) = Id(s[i]) /\ t[i].path = s[i].path
           /\ t[i].kind = s[i].kind /\ t[i].about = s[i].about
           /\ s[i].status = "superseded" => t[i] = s[i]
           /\ s[i].path # p => t[i] = s[i]
           /\ s[i].path = p /\ s[i].status # "superseded" =>
                t[i].hash = content[p] /\ t[i].status = "fresh"
  BY RevalidatedFacts
<1>. HIDE DEF t
<1>2. ASSUME NEW i \in DOMAIN s PROVE RecordOK(t[i], n)
  <2>1. RecordOK(s[i], n)
    BY DEF RecordsOK
  <2>2. CASE s[i].path = p /\ s[i].status # "superseded"
    BY <1>1, <2>1, <2>2 DEF RecordOK
  <2>3. CASE ~(s[i].path = p /\ s[i].status # "superseded")
    BY <1>1, <2>1, <2>3
  <2>. QED
    BY <2>2, <2>3
<1>3. Reviewed(t, s, n)
  BY <1>1, <1>2 DEF Reviewed
<1>. QED
  BY <1>1, <1>3, ReviewedOK DEF t

-----------------------------------------------------------------------------
(* Comparing with the files, and loading.                                   *)

LEMMA ComparedFacts ==
  ASSUME NEW s, NEW n, RecordsOK(s, n), ContentInv
  PROVE  LET t == Refreshed(s) IN
         /\ RecordsOK(t, n) /\ Len(t) = Len(s) /\ Even(t) /\ Facts(t) = Facts(s)
         /\ Live(t) = Live(s) /\ DOMAIN t = DOMAIN s
         /\ \A i \in DOMAIN s :
              /\ t[i].path = s[i].path /\ t[i].hash = s[i].hash /\ t[i].status = Compared(s[i])
              /\ t[i].status = "fresh" /\ s[i].path # NoPath => s[i].hash = content[s[i].path]
<1>. DEFINE t == Refreshed(s)
<1>1. \A i \in DOMAIN s : RecordOK(s[i], n) /\ s[i] \in EvidenceRecords
  BY DEF RecordsOK, RecordOK
<1>2. ASSUME NEW i \in DOMAIN s
      PROVE  /\ Compared(s[i]) \in Statuses
             /\ s[i].path = NoPath => Compared(s[i]) = s[i].status
             /\ Compared(s[i]) = "superseded" <=> s[i].status = "superseded"
             /\ s[i].path # NoPath /\ Compared(s[i]) = "fresh" => Hash(s[i].path) = s[i].hash
             /\ s[i].path # NoPath /\ s[i].status # "superseded" =>
                  Compared(s[i]) = IF Hash(s[i].path) = Gone THEN "missing"
                                   ELSE IF Hash(s[i].path) # s[i].hash THEN "stale" ELSE "fresh"
  <2>1. s[i].status \in Statuses
    BY <1>1 DEF EvidenceRecords
  <2>2. CASE s[i].status = "superseded" \/ s[i].path = NoPath
    <3>1. Compared(s[i]) = s[i].status
      BY <2>2 DEF Compared
    <3>2. s[i].path # NoPath => s[i].status = "superseded"
      BY <2>2
    <3>. QED
      BY <2>1, <3>1, <3>2
  <2>3. CASE ~(s[i].status = "superseded" \/ s[i].path = NoPath)
    <3>1. Compared(s[i]) = IF Hash(s[i].path) = Gone THEN "missing"
                           ELSE IF Hash(s[i].path) # s[i].hash THEN "stale" ELSE "fresh"
      <4>1. Hash(s[i].path) = Gone => Compared(s[i]) = "missing"
        BY <2>3 DEF Compared
      <4>2. Hash(s[i].path) # Gone /\ Hash(s[i].path) # s[i].hash => Compared(s[i]) = "stale"
        BY <2>3 DEF Compared
      <4>3. Hash(s[i].path) # Gone /\ Hash(s[i].path) = s[i].hash => Compared(s[i]) = "fresh"
        BY <2>3 DEF Compared
      <4>. QED
        BY <4>1, <4>2, <4>3
    <3>. QED
      BY <2>3, <3>1 DEF Statuses
  <2>. QED
    BY <2>2, <2>3
<1>3. t = [i \in DOMAIN s |-> t[i]] /\ \A i \in DOMAIN s : t[i] = [s[i] EXCEPT !.status = Compared(s[i])]
  BY DEF Refreshed
<1>. HIDE DEF t
<1>4. ASSUME NEW i \in DOMAIN s
      PROVE  /\ t[i] \in EvidenceRecords
             /\ t[i].at = s[i].at /\ t[i].path = s[i].path /\ t[i].kind = s[i].kind
             /\ t[i].hash = s[i].hash /\ t[i].about = s[i].about /\ t[i].status = Compared(s[i])
  BY <1>1, <1>2, <1>3 DEF EvidenceRecords
<1>5. \A i \in DOMAIN s : Id(t[i]) = Id(s[i])
  BY <1>4 DEF Id
<1>6. \A i \in DOMAIN s : RecordOK(t[i], n)
  BY <1>1, <1>2, <1>4, <1>5 DEF RecordOK
<1>7. Reviewed(t, s, n)
  BY <1>2, <1>3, <1>4, <1>5, <1>6 DEF Reviewed
<1>8. RecordsOK(t, n) /\ Len(t) = Len(s)
  BY <1>7, ReviewedOK
<1>9. DOMAIN t = DOMAIN s
  BY <1>3
<1>10. Live(t) = Live(s)
  BY <1>2, <1>4, <1>9 DEF Live
<1>11. Facts(t) = Facts(s)
  <2>1. \A i \in Live(s) : i \in DOMAIN s
    BY DEF Live
  <2>. QED
    BY <1>4, <1>5, <1>10, <2>1 DEF Facts
<1>12. Even(t)
  <2>1. ASSUME NEW i \in Live(t), NEW j \in Live(t),
               t[i].path = t[j].path /\ t[i].hash = t[j].hash,
               t[i].status = "fresh" /\ t[j].status # "fresh"
        PROVE  FALSE
    <3>1. /\ i \in DOMAIN s /\ j \in DOMAIN s
          /\ s[i].status # "superseded" /\ s[j].status # "superseded"
      BY <1>10 DEF Live
    <3>2. s[i].path = s[j].path /\ s[i].hash = s[j].hash
      BY <1>4, <2>1, <3>1
    <3>3. CASE s[i].path = NoPath
      <4>1. t[j].status = s[j].status
        BY <1>2, <1>4, <3>1, <3>2, <3>3
      <4>2. s[j].status \in {"fresh", "superseded"}
        BY <1>1, <3>1, <3>2, <3>3 DEF RecordOK
      <4>. QED
        BY <2>1, <3>1, <4>1, <4>2
    <3>4. CASE s[i].path # NoPath
      <4>1. Compared(s[i]) = Compared(s[j])
        BY <1>2, <3>1, <3>2, <3>4
      <4>. QED
        BY <1>4, <2>1, <3>1, <4>1
    <3>. QED
      BY <3>3, <3>4
  <2>. QED
    BY <2>1 DEF Even
<1>13. \A i \in DOMAIN s : t[i].status = "fresh" /\ s[i].path # NoPath => s[i].hash = content[s[i].path]
  BY <1>2, <1>4 DEF Hash
<1>. QED
  BY <1>4, <1>8, <1>9, <1>10, <1>11, <1>12, <1>13 DEF t

(* The first place of an identity is one where it stands.                   *)
LEMMA FirstStands ==
  ASSUME NEW s \in Seq(EvidenceRecords), NEW i \in DOMAIN s
  PROVE  LET f == FirstPlace(s, Id(s[i])) IN f \in DOMAIN s /\ Id(s[f]) = Id(s[i])
<1>. DEFINE id == Id(s[i])
            T == {j \in DOMAIN s : Id(s[j]) = id}
<1>1. T \subseteq Nat /\ T # {}
  OBVIOUS
<1>2. PICK m \in T : \A k \in T : m <= k
  <2>. HIDE DEF T
  <2>. QED
    BY <1>1, LeastNumber
<1>. HIDE DEF id
<1>3. \E j \in DOMAIN s : Id(s[j]) = id /\ \A k \in DOMAIN s : Id(s[k]) = id => j <= k
  BY <1>2
<1>4. FirstPlace(s, id) \in DOMAIN s /\ Id(s[FirstPlace(s, id)]) = id
  BY <1>3 DEF FirstPlace
<1>. QED
  BY <1>4 DEF id

LEMMA LoadFacts ==
  ASSUME NEW s, NEW n, RecordsOK(s, n)
  PROVE  RecordsOK(Load(s), n) /\ Len(Load(s)) <= Len(s) /\ Facts(Load(s)) = Facts(s)
<1>. DEFINE S == Lasting(s)
            R == Placed(s)
            c == Cardinality(S)
            at == Arranged(S, R)
            t == Load(s)
<1>1. /\ s \in Seq(EvidenceRecords) /\ Len(s) \in Nat /\ DOMAIN s = 1..Len(s) /\ S \subseteq DOMAIN s
      /\ \A i \in DOMAIN s : s[i] \in EvidenceRecords
  BY DEF RecordsOK, Lasting
<1>a. \A i \in DOMAIN s : s[i].at \in Nat
  BY <1>1 DEF EvidenceRecords
<1>2. IsFiniteSet(S) /\ c \in Nat /\ c <= Len(s)
  BY <1>1, PickedPlaces
<1>3. Orders(R, S)
  <2>. DEFINE f == [i \in S |-> FirstPlace(s, Id(s[i]))]
  <2>1. \A i \in S : f[i] \in Nat /\ f[i] \in DOMAIN s /\ Id(s[f[i]]) = Id(s[i])
    BY <1>1, FirstStands
  <2>2. \A i, j \in S : <<i, j>> \in R <=> f[i] < f[j]
    BY DEF Placed
  <2>3. ASSUME NEW i \in S, NEW j \in S, f[i] = f[j] PROVE i = j
    <3>1. Id(s[i]) = Id(s[j])
      BY <2>1, <2>3
    <3>2. s[j].at <= s[i].at /\ s[i].at <= s[j].at
      BY <1>1, <3>1 DEF Lasting, Latest
    <3>3. s[i].at = s[j].at
      BY <1>1, <1>a, <3>2
    <3>. QED
      BY <1>1, <3>3 DEF RecordsOK, PairOK
  <2>. HIDE DEF f, S, R
  <2>4. \A i, j \in S : f[i] = f[j] \/ f[i] < f[j] \/ f[j] < f[i]
    BY <2>1
  <2>5. \A i \in S : ~(f[i] < f[i])
    BY <2>1
  <2>6. \A i, j, k \in S : f[i] < f[j] /\ f[j] < f[k] => f[i] < f[k]
    BY <2>1
  <2>. QED
    BY <2>2, <2>3, <2>4, <2>5, <2>6 DEF Orders
<1>. HIDE DEF S, R
<1>4. /\ at \in [1..c -> S]
      /\ \A i \in S : \E k \in 1..c : at[k] = i
      /\ \A k, l \in 1..c : at[k] = at[l] => k = l
  BY <1>2, <1>3, ArrangedPlaces
<1>5. t = [k \in 1..c |-> s[at[k]]]
  BY DEF Load, S, R
<1>. HIDE DEF c, at, t
<1>6. t \in Seq(EvidenceRecords) /\ Len(t) = c /\ DOMAIN t = 1..c
  <2>1. \A k \in 1..c : s[at[k]] \in EvidenceRecords
    BY <1>1, <1>4
  <2>. QED
    BY <1>2, <1>5, <2>1
<1>7. Among(t, s, at)
  BY <1>1, <1>4, <1>5, <1>6 DEF Among
<1>8. RecordsOK(t, n)
  BY <1>7, AmongOK
<1>9. Facts(t) = Facts(s)
  <2>1. ASSUME NEW k \in Live(t) PROVE <<Id(t[k]), t[k].about>> \in Facts(s)
    <3>1. k \in 1..c /\ t[k].status # "superseded"
      BY <1>6 DEF Live
    <3>2. at[k] \in DOMAIN s /\ t[k] = s[at[k]]
      BY <1>1, <1>4, <1>5, <3>1
    <3>. QED
      BY <3>1, <3>2 DEF Facts, Live
  <2>2. ASSUME NEW i \in Live(s) PROVE <<Id(s[i]), s[i].about>> \in Facts(t)
    <3>1. i \in DOMAIN s /\ s[i].status # "superseded"
      BY DEF Live
    <3>2. ASSUME NEW j \in DOMAIN s, Id(s[j]) = Id(s[i]) PROVE s[j].at <= s[i].at
      <4>1. j = i \/ PairOK(s[i], s[j])
        BY <3>1 DEF RecordsOK
      <4>2. j = i \/ s[j].at < s[i].at
        BY <3>1, <3>2, <4>1 DEF PairOK
      <4>. QED
        BY <1>a, <3>1, <4>2
    <3>3. i \in S
      BY <3>1, <3>2 DEF S, Lasting, Latest
    <3>4. PICK k \in 1..c : at[k] = i
      BY <1>4, <3>3
    <3>5. t[k] = s[i] /\ k \in Live(t)
      BY <1>5, <1>6, <3>1, <3>4 DEF Live
    <3>. QED
      BY <3>5 DEF Facts
  <2>. QED
    BY <2>1, <2>2 DEF Facts
<1>. QED
  BY <1>2, <1>6, <1>8, <1>9 DEF t
-----------------------------------------------------------------------------
(* What the hints are, and what is remembered of them.                      *)

HintOf(x, s, read) ==
  \E k \in DOMAIN s :
    /\ HeadOfPath(s, k) /\ s[k].path \notin read
    /\ x.path = s[k].path /\ x.status = s[k].status /\ x.hash = s[k].hash
HintsOf(h, s, read) == \A i \in DOMAIN h : HintOf(h[i], s, read)

LEMMA FoundRanked ==
  ASSUME NEW s, NEW n, RecordsOK(s, n), NEW q \in Queries
  PROVE  Orders(Ahead(s, q), Found(s, q))
<1>. DEFINE S == Found(s, q)
            score(i) == Score(s[i], q)
            ahead(i, j) == score(i) > score(j) \/ (score(i) = score(j) /\ i < j)
<1>1. \A i \in S : i \in DOMAIN s /\ i \in Nat /\ RecordOK(s[i], n)
  BY DEF Found, RecordsOK
<1>2. \A i \in S : score(i) \in Nat
  <2>1. ASSUME NEW i \in S PROVE score(i) \in Nat
    <3>1. q[Id(s[i])] \in Nat
      BY <1>1, EvidenceAssumption DEF RecordOK
    <3>. QED
      BY <3>1 DEF Score, FreshBonus
  <2>. QED
    BY <2>1
<1>3. \A i, j \in S : <<i, j>> \in Ahead(s, q) <=> ahead(i, j)
  BY DEF Ahead
<1>. HIDE DEF score, S
<1>4. \A i, j \in S : i = j \/ ahead(i, j) \/ ahead(j, i)
  BY <1>1, <1>2
<1>5. \A i \in S : ~ahead(i, i)
  BY <1>1, <1>2
<1>6. \A i, j, k \in S : ahead(i, j) /\ ahead(j, k) => ahead(i, k)
  BY <1>1, <1>2
<1>. HIDE DEF ahead
<1>. QED
  BY <1>3, <1>4, <1>5, <1>6 DEF Orders, S

LEMMA SelectedHeads ==
  ASSUME NEW s, NEW n, RecordsOK(s, n), NEW q \in Queries
  PROVE  /\ Selected(s, q) \in Seq(EvidenceRecords)
         /\ \A k \in DOMAIN Selected(s, q) :
              \E i \in DOMAIN s : HeadOfPath(s, i) /\ Selected(s, q)[k] = s[i]
<1>. DEFINE S == Found(s, q)
            c == Cardinality(S)
            ranked == Arranged(S, Ahead(s, q))
            m == IF c < TopK THEN c ELSE TopK
            t == Selected(s, q)
<1>1. s \in Seq(EvidenceRecords) /\ S \subseteq DOMAIN s /\ \A i \in S : HeadOfPath(s, i)
  BY DEF RecordsOK, Found
<1>2. IsFiniteSet(S) /\ c \in Nat
  <2>. HIDE DEF S
  <2>. QED
    BY <1>1, PickedPlaces
<1>3. ranked \in [1..c -> S]
  <2>1. Orders(Ahead(s, q), S)
    BY FoundRanked
  <2>. HIDE DEF S
  <2>. QED
    BY <1>2, <2>1, ArrangedPlaces
<1>4. t = [k \in 1..m |-> s[ranked[k]]]
  BY DEF Selected
<1>5. TopK \in Nat
  BY EvidenceAssumption
<1>. HIDE DEF S, c, ranked
<1>6. m \in Nat /\ \A k \in 1..m : k \in 1..c
  BY <1>2, <1>5
<1>. HIDE DEF m, t
<1>7. \A k \in 1..m : ranked[k] \in S /\ ranked[k] \in DOMAIN s /\ t[k] = s[ranked[k]]
  BY <1>1, <1>3, <1>4, <1>6
<1>8. \A k \in 1..m : t[k] \in EvidenceRecords
  BY <1>1, <1>7
<1>9. t \in Seq(EvidenceRecords) /\ DOMAIN t = 1..m
  BY <1>4, <1>6, <1>8
<1>10. \A k \in DOMAIN t : \E i \in DOMAIN s : HeadOfPath(s, i) /\ t[k] = s[i]
  BY <1>1, <1>7, <1>9
<1>. QED
  BY <1>9, <1>10 DEF t

LEMMA HintsFacts ==
  ASSUME NEW s, NEW n, RecordsOK(s, n), NEW q \in Queries, NEW read
  PROVE  HintsOf(Hints(s, q, read), s, read)
<1>. DEFINE found == Selected(s, q)
            S == {k \in DOMAIN found : found[k].path \notin read}
            new == Picked(found, S)
            fits == (OverallLimit + ItemTokens - 1) \div ItemTokens
            m == IF Len(new) < fits THEN Len(new) ELSE fits
            h == Hints(s, q, read)
<1>1. /\ found \in Seq(EvidenceRecords)
      /\ \A k \in DOMAIN found : \E i \in DOMAIN s : HeadOfPath(s, i) /\ found[k] = s[i]
  BY SelectedHeads
<1>2. h = [i \in 1..m |-> [path |-> new[i].path, status |-> new[i].status,
                           hash |-> new[i].hash]]
  BY DEF Hints
<1>3. S \subseteq DOMAIN found /\ \A k \in S : found[k].path \notin read
  OBVIOUS
<1>4. fits \in Int
  BY EvidenceAssumption
<1>. HIDE DEF found, S
<1>5. /\ new \in Seq(EvidenceRecords)
      /\ \A k \in DOMAIN new : \E i \in S : new[k] = found[i]
  BY <1>1, <1>3, PickedMembers
<1>. HIDE DEF new, fits, h
<1>6. \A i \in 1..m : i \in DOMAIN new
  BY <1>4, <1>5
<1>. HIDE DEF m
<1>7. ASSUME NEW i \in DOMAIN h PROVE HintOf(h[i], s, read)
  <2>1. /\ i \in DOMAIN new /\ h[i].path = new[i].path /\ h[i].status = new[i].status
        /\ h[i].hash = new[i].hash
    BY <1>2, <1>6
  <2>2. PICK k \in S : new[i] = found[k]
    BY <1>5, <2>1
  <2>3. PICK j \in DOMAIN s : HeadOfPath(s, j) /\ found[k] = s[j]
    BY <1>1, <1>3
  <2>. QED
    BY <1>3, <2>1, <2>2, <2>3 DEF HintOf
<1>. QED
  BY <1>7 DEF HintsOf, h
-----------------------------------------------------------------------------
(* The invariant.                                                           *)

StoreInv ==
  /\ ContentInv /\ ticks \in Nat
  /\ RecordsOK(records, ticks) /\ Len(records) <= MaxRecords
  /\ RecordsOK(saved, ticks) /\ Len(saved) <= MaxRecords
  /\ FreshIn(records) /\ Even(records) /\ Facts(records) = Facts(saved)

(* A hint that may be given: about nothing that was read, and fresh only if *)
(* all that lives about this content is.                                    *)
Safe(x, s, read) ==
  /\ x.path \in (Paths \cup {NoPath}) \ read
  /\ x.status = "stale" => x.path \in Paths
  /\ x.status = "fresh" =>
       \A j \in Live(s) : s[j].path = x.path /\ s[j].hash = x.hash => s[j].status = "fresh"
AllSafe(h, s, read) == \A i \in DOMAIN h : Safe(h[i], s, read)

ResultInv == result.known \in BOOLEAN /\ (result.known => AllSafe(result.hints, records, result.read))

HintInv ==
  /\ asking \in {"no", "working", "prompt"}
  /\ Files(shown) \cup delivered \cup reread \subseteq Paths
  /\ injected \subseteq delivered /\ owed = injected \ reread
  /\ asking = "no" => counted = owed

EvidenceInv == StoreInv /\ ResultInv /\ HintInv

LEMMA HintsSafe ==
  ASSUME NEW s, NEW n, RecordsOK(s, n), Even(s), NEW q \in Queries, NEW read
  PROVE  AllSafe(Hints(s, q, read), s, read)
<1>. DEFINE h == Hints(s, q, read)
<1>1. HintsOf(h, s, read)
  BY HintsFacts
<1>. HIDE DEF h
<1>2. ASSUME NEW i \in DOMAIN h PROVE Safe(h[i], s, read)
  <2>1. HintOf(h[i], s, read)
    BY <1>1 DEF HintsOf
  <2>2. PICK k \in DOMAIN s :
          /\ HeadOfPath(s, k) /\ s[k].path \notin read
          /\ h[i].path = s[k].path /\ h[i].status = s[k].status /\ h[i].hash = s[k].hash
    BY <2>1 DEF HintOf
  <2>3. RecordOK(s[k], n)
    BY DEF RecordsOK
  <2>4. s[k].path \in Paths \cup {NoPath}
    BY <2>3 DEF RecordOK, EvidenceRecords
  <2>5. s[k].status = "stale" => s[k].path # NoPath
    BY <2>3 DEF RecordOK
  <2>6. ASSUME NEW j \in Live(s), s[j].path = s[k].path, s[j].hash = s[k].hash,
               s[k].status = "fresh"
        PROVE  s[j].status = "fresh"
    <3>1. k \in Live(s) /\ k <= j
      BY <2>2, <2>6 DEF HeadOfPath
    <3>2. s[j].status # "fresh" => j < k
      BY <2>6, <3>1 DEF Even
    <3>3. j \in Nat /\ k \in Nat
      BY DEF Live, RecordsOK
    <3>. QED
      BY <3>1, <3>2, <3>3
  <2>. QED
    BY <2>2, <2>4, <2>5, <2>6 DEF Safe
<1>. QED
  BY <1>2 DEF AllSafe, h

LEMMA SafeFiles ==
  ASSUME NEW h, NEW s, NEW read, AllSafe(h, s, read)
  PROVE  /\ Files(h) \subseteq Paths /\ StaleFiles(h) \subseteq Files(h)
         /\ StaleFiles(h) \cap read = {}
<1>1. \A i \in DOMAIN h :
        /\ h[i].path \in (Paths \cup {NoPath}) \ read
        /\ h[i].status = "stale" => h[i].path \in Paths
  BY DEF AllSafe, Safe
<1>. QED
  BY <1>1, EvidenceAssumption DEF Files, StaleFiles

LEMMA EvidenceStart == EvidenceInit => EvidenceInv
<1>1. SUFFICES ASSUME EvidenceInit PROVE EvidenceInv
  OBVIOUS
<1>2. ContentInv
  BY <1>1 DEF EvidenceInit, ContentInv
<1>3. records = <<>> /\ saved = <<>> /\ ticks = 0 /\ DOMAIN records = {} /\ Len(records) = 0
  BY <1>1 DEF EvidenceInit
<1>4. records \in Seq(EvidenceRecords)
  BY <1>3
<1>5. StoreInv
  BY <1>2, <1>3, <1>4, EvidenceAssumption DEF StoreInv, RecordsOK, FreshIn, Even, Live
<1>6. ResultInv /\ HintInv
  BY <1>1 DEF EvidenceInit, ResultInv, NoResult, HintInv, Files
<1>. QED
  BY <1>5, <1>6 DEF EvidenceInv

-----------------------------------------------------------------------------
(* The steps.                                                               *)

LEMMA EditKeeps ==
  ASSUME EvidenceInv, NEW p \in Paths, NEW c \in Contents \cup {Gone}, EditFile(p, c)
  PROVE  EvidenceInv'
<1>1. /\ ticks' = ticks + 1 /\ content' = [content EXCEPT ![p] = c]
      /\ current' = [current EXCEPT ![p] = @ \cup {c}]
      /\ records' = records /\ saved' = saved /\ asking' = asking /\ result' = result
      /\ shown' = shown /\ delivered' = delivered /\ reread' = reread
      /\ injected' = injected /\ counted' = counted /\ owed' = owed
  BY DEF EditFile, hintVars
<1>2. ContentInv' /\ \A f \in Paths : current[f] \subseteq current'[f]
  BY <1>1 DEF EvidenceInv, StoreInv, ContentInv
<1>3. ticks \in Nat /\ RecordsOK(records, ticks) /\ RecordsOK(saved, ticks)
  BY DEF EvidenceInv, StoreInv
<1>4. RecordsOK(records, ticks + 1) /\ RecordsOK(saved, ticks + 1)
  BY <1>3, LaterOK
<1>5. FreshIn(records)'
  <2>1. ASSUME NEW i \in DOMAIN records, records[i].status = "fresh", records[i].path # NoPath
        PROVE  records[i].hash \in current'[records[i].path]
    <3>1. records[i].hash \in current[records[i].path]
      BY <2>1 DEF EvidenceInv, StoreInv, FreshIn
    <3>2. records[i] \in EvidenceRecords
      BY <1>3 DEF RecordsOK
    <3>3. records[i].path \in Paths
      BY <2>1, <3>2 DEF EvidenceRecords
    <3>. QED
      BY <1>2, <3>1, <3>3
  <2>. QED
    BY <1>1, <2>1 DEF FreshIn
<1>6. StoreInv'
  <2>1. RecordsOK(records, ticks)' /\ RecordsOK(saved, ticks)' /\ ticks' \in Nat
    BY <1>1, <1>3, <1>4
  <2>2. Even(records)' /\ (Facts(records) = Facts(saved))' /\ (Len(records) <= MaxRecords)'
        /\ (Len(saved) <= MaxRecords)'
    BY <1>1 DEF EvidenceInv, StoreInv, Even, Facts
  <2>. QED
    BY <1>2, <1>5, <2>1, <2>2 DEF StoreInv
<1>7. ResultInv' /\ HintInv'
  BY <1>1 DEF EvidenceInv, ResultInv, HintInv
<1>. QED
  BY <1>6, <1>7 DEF EvidenceInv

(* Hints that are safe are given: the account of stale ones stays right.    *)
LEMMA GiveKeeps ==
  ASSUME EvidenceInv, NEW q \in Queries, NEW h, NEW old, Give(q, h, old),
         asking' = "working", AllSafe(h, records, reread'),
         reread' \subseteq Paths, saved' \in {saved, records},
         old.delivered \subseteq Paths, old.injected \subseteq old.delivered,
         old.owed = old.injected \ reread'
  PROVE  EvidenceInv'
<1>1. /\ result' = [known |-> TRUE, query |-> q, read |-> reread', hints |-> h]
      /\ shown' = h
      /\ delivered' = old.delivered \cup Files(h)
      /\ injected' = old.injected \cup StaleFiles(h)
      /\ owed' = old.owed \cup StaleFiles(h)
      /\ content' = content /\ records' = records /\ ticks' = ticks /\ current' = current
  BY DEF Give
<1>2. Files(h) \subseteq Paths /\ StaleFiles(h) \subseteq Files(h) /\ StaleFiles(h) \cap reread' = {}
  BY SafeFiles
<1>3. HintInv'
  BY <1>1, <1>2 DEF HintInv
<1>4. ResultInv'
  <2>1. result'.known = TRUE /\ result'.hints = h /\ result'.read = reread'
    BY <1>1
  <2>. QED
    BY <1>1, <2>1 DEF ResultInv
<1>5. StoreInv'
  BY <1>1 DEF EvidenceInv, StoreInv, ContentInv, FreshIn
<1>. QED
  BY <1>3, <1>4, <1>5 DEF EvidenceInv

LEMMA StartKeeps ==
  ASSUME EvidenceInv, NEW q \in Queries, StartAsk(q)
  PROVE  EvidenceInv'
<1>. DEFINE h == Hints(records, q, {})
            old == [delivered |-> {}, injected |-> {}, owed |-> {}]
<1>1. AllSafe(h, records, {})
  BY HintsSafe DEF EvidenceInv, StoreInv
<1>2. asking' = "working" /\ reread' = {} /\ Give(q, h, old) /\ saved' \in {saved, records}
  BY DEF StartAsk
<1>3. old.delivered = {} /\ old.injected = {} /\ old.owed = {}
  OBVIOUS
<1>. HIDE DEF h, old
<1>. QED
  BY <1>1, <1>2, <1>3, GiveKeeps

LEMMA AgainKeeps ==
  ASSUME EvidenceInv, NEW q \in Queries, RetrieveAgain(q)
  PROVE  EvidenceInv'
<1>. DEFINE h == IF Cached(q) THEN result.hints ELSE Hints(records, q, reread)
            old == [delivered |-> delivered, injected |-> injected, owed |-> owed]
<1>1. AllSafe(h, records, reread)
  <2>1. CASE Cached(q)
    BY <2>1 DEF EvidenceInv, ResultInv, Cached
  <2>2. CASE ~Cached(q)
    <3>1. AllSafe(Hints(records, q, reread), records, reread)
      BY HintsSafe DEF EvidenceInv, StoreInv
    <3>. QED
      BY <2>2, <3>1
  <2>. QED
    BY <2>1, <2>2
<1>2. asking' = "working" /\ reread' = reread /\ Give(q, h, old) /\ saved' \in {saved, records}
  BY DEF RetrieveAgain
<1>3. old.delivered = delivered /\ old.injected = injected /\ old.owed = owed
  OBVIOUS
<1>4. /\ delivered \subseteq Paths /\ reread \subseteq Paths /\ injected \subseteq delivered
      /\ owed = injected \ reread
  BY DEF EvidenceInv, HintInv
<1>. HIDE DEF h, old
<1>. QED
  BY <1>1, <1>2, <1>3, <1>4, GiveKeeps

LEMMA BuildKeeps ==
  ASSUME EvidenceInv, BuildPrompt
  PROVE  EvidenceInv'
<1>. DEFINE t == Refreshed(records)
<1>1. /\ asking' = "prompt" /\ records' = t
      /\ current' = [p \in Paths |-> {content[p]}]
      /\ content' = content /\ ticks' = ticks /\ shown' = shown /\ delivered' = delivered
      /\ reread' = reread /\ injected' = injected /\ counted' = counted /\ owed' = owed
      /\ \/ Degraded(records) /\ saved' = t /\ result' = NoResult
         \/ ~Degraded(records) /\ saved' = saved /\ result' = result
  BY DEF BuildPrompt, hintVars
<1>2. /\ ContentInv /\ ticks \in Nat /\ RecordsOK(records, ticks) /\ Len(records) <= MaxRecords
      /\ RecordsOK(saved, ticks) /\ Len(saved) <= MaxRecords /\ Facts(records) = Facts(saved)
  BY DEF EvidenceInv, StoreInv
<1>3. /\ RecordsOK(t, ticks) /\ Len(t) = Len(records) /\ Even(t) /\ Facts(t) = Facts(records)
      /\ Live(t) = Live(records) /\ DOMAIN t = DOMAIN records
      /\ \A i \in DOMAIN records :
           /\ t[i].path = records[i].path /\ t[i].hash = records[i].hash
           /\ t[i].status = Compared(records[i])
           /\ t[i].status = "fresh" /\ records[i].path # NoPath =>
                records[i].hash = content[records[i].path]
  BY <1>2, ComparedFacts
<1>. HIDE DEF t
<1>4. ContentInv'
  BY <1>1, <1>2 DEF ContentInv
<1>5. FreshIn(records)'
  <2>1. ASSUME NEW i \in DOMAIN t, t[i].status = "fresh", t[i].path # NoPath
        PROVE  t[i].hash \in current'[t[i].path]
    <3>1. t[i].hash = content[t[i].path]
      BY <1>3, <2>1
    <3>2. t[i] \in EvidenceRecords
      BY <1>3 DEF RecordsOK
    <3>3. t[i].path \in Paths
      BY <2>1, <3>2 DEF EvidenceRecords
    <3>. QED
      BY <1>1, <3>1, <3>3
  <2>. QED
    BY <1>1, <2>1 DEF FreshIn
<1>6. StoreInv'
  <2>1. RecordsOK(records, ticks)' /\ (Len(records) <= MaxRecords)' /\ Even(records)'
    BY <1>1, <1>2, <1>3 DEF Even, Live
  <2>2. RecordsOK(saved, ticks)' /\ (Len(saved) <= MaxRecords)'
    BY <1>1, <1>2, <1>3
  <2>3. Facts(records)' = Facts(saved)'
    <3>1. records' = t /\ (saved' = t \/ saved' = saved)
      BY <1>1
    <3>2. Facts(t) = Facts(saved)
      BY <1>2, <1>3
    <3>. QED
      BY <3>1, <3>2 DEF Facts, Live, Id
  <2>. QED
    BY <1>1, <1>2, <1>4, <1>5, <2>1, <2>2, <2>3 DEF StoreInv
<1>7. ResultInv'
  <2>1. CASE result' = NoResult
    BY <2>1 DEF ResultInv, NoResult
  <2>2. CASE ~Degraded(records) /\ result' = result
    <3>1. SUFFICES ASSUME result.known, NEW i \in DOMAIN result.hints
                   PROVE  Safe(result.hints[i], records', result.read)
      BY <2>2 DEF EvidenceInv, ResultInv, AllSafe
    <3>2. Safe(result.hints[i], records, result.read)
      BY <3>1 DEF EvidenceInv, ResultInv, AllSafe
    <3>3. ASSUME NEW j \in Live(t), records[j].status = "fresh" PROVE t[j].status = "fresh"
      <4>1. j \in DOMAIN records
        BY <1>3 DEF Live
      <4>2. Compared(records[j]) = records[j].status \/ Compared(records[j]) = "fresh"
        BY <2>2, <4>1 DEF Degraded
      <4>. QED
        BY <1>3, <3>3, <4>1, <4>2
    <3>4. \A j \in Live(t) : t[j].path = records[j].path /\ t[j].hash = records[j].hash
      BY <1>3 DEF Live
    <3>. QED
      BY <1>1, <1>3, <3>2, <3>3, <3>4 DEF Safe
  <2>. QED
    BY <1>1, <2>1, <2>2
<1>8. HintInv'
  BY <1>1 DEF EvidenceInv, HintInv
<1>. QED
  BY <1>6, <1>7, <1>8 DEF EvidenceInv

(* A store that was changed is written, and the last result dropped.        *)
LEMMA RecordKeeps ==
  ASSUME EvidenceInv, NEW s, NEW isNew \in BOOLEAN, Record(s, isNew),
         content' = content, current' = current,
         RecordsOK(s, IF isNew THEN ticks + 1 ELSE ticks), Len(s) <= MaxRecords,
         FreshIn(s), Even(s)
  PROVE  StoreInv' /\ ResultInv'
<1>1. records' = s /\ saved' = s /\ ticks' = (IF isNew THEN ticks + 1 ELSE ticks)
      /\ result' = NoResult
  BY DEF Record
<1>2. ContentInv' /\ ticks' \in Nat
  BY <1>1 DEF EvidenceInv, StoreInv, ContentInv
<1>3. FreshIn(records)' /\ Even(records)'
  BY <1>1 DEF FreshIn, Even, Live
<1>4. StoreInv'
  BY <1>1, <1>2, <1>3 DEF StoreInv
<1>5. ResultInv'
  BY <1>1 DEF ResultInv, NoResult
<1>. QED
  BY <1>4, <1>5

LEMMA EvidenceReadKeeps ==
  ASSUME EvidenceInv, NEW p \in Paths, ReadFile(p)
  PROVE  EvidenceInv'
<1>. DEFINE known == Revalidated(records, p)
            live == \E i \in Live(records) : records[i].path = p
            t == AddEvidence(known, p, "read")
<1>1. /\ content[p] # Gone /\ asking' = "working"
      /\ reread' = reread \cup ({p} \cap delivered) /\ owed' = owed \ {p}
      /\ content' = content /\ shown' = shown /\ delivered' = delivered
      /\ injected' = injected /\ counted' = counted /\ current' = current
  BY DEF ReadFile
<1>2. \/ Record(t, TRUE)
      \/ content[p] \in Secrets /\ Record(known, FALSE)
      \/ UNCHANGED <<records, saved, ticks, result>>
  BY DEF ReadFile
<1>3. /\ ContentInv /\ ticks \in Nat /\ RecordsOK(records, ticks) /\ Len(records) <= MaxRecords
      /\ FreshIn(records) /\ Even(records)
  BY DEF EvidenceInv, StoreInv
<1>4. StoreInv' /\ ResultInv'
  <2>1. CASE Record(t, TRUE)
    <3>1. RecordsOK(t, ticks + 1) /\ Len(t) <= MaxRecords /\ FreshIn(t) /\ Even(t)
      BY <1>1, <1>3, ReadAdds
    <3>. HIDE DEF t
    <3>2. RecordsOK(t, IF TRUE THEN ticks + 1 ELSE ticks)
      BY <3>1
    <3>. QED
      BY <1>1, <2>1, <3>1, <3>2, RecordKeeps
  <2>2. CASE content[p] \in Secrets /\ Record(known, FALSE)
    <3>1. RecordsOK(known, ticks) /\ Len(known) = Len(records) /\ FreshIn(known) /\ Even(known)
      BY <1>1, <1>3, <2>2, SecretKeeps
    <3>. HIDE DEF known
    <3>2. RecordsOK(known, IF FALSE THEN ticks + 1 ELSE ticks) /\ Len(known) <= MaxRecords
      BY <1>3, <3>1
    <3>. QED
      BY <1>1, <2>2, <3>1, <3>2, RecordKeeps
  <2>3. CASE UNCHANGED <<records, saved, ticks, result>>
    BY <1>1, <2>3 DEF EvidenceInv, StoreInv, ContentInv, FreshIn, ResultInv
  <2>. QED
    BY <1>2, <2>1, <2>2, <2>3
<1>5. HintInv'
  BY <1>1 DEF EvidenceInv, HintInv
<1>. QED
  BY <1>4, <1>5 DEF EvidenceInv

(* A record of what was found, or of a command.                             *)
LEMMA FoundKeeps ==
  ASSUME EvidenceInv, NEW p, NEW k, <<p, k>> \in Identities,
         Record(AddEvidence(records, p, k), TRUE), asking' = "working",
         UNCHANGED <<content, hintVars, current>>
  PROVE  EvidenceInv'
<1>. DEFINE t == AddEvidence(records, p, k)
<1>1. /\ ContentInv /\ ticks \in Nat /\ RecordsOK(records, ticks)
      /\ FreshIn(records) /\ Even(records)
  BY DEF EvidenceInv, StoreInv
<1>2. RecordsOK(t, ticks + 1) /\ Len(t) <= MaxRecords /\ FreshIn(t) /\ Even(t)
  BY <1>1, AddKeeps
<1>. HIDE DEF t
<1>3. Record(t, TRUE) /\ content' = content /\ current' = current
  BY DEF t
<1>4. RecordsOK(t, IF TRUE THEN ticks + 1 ELSE ticks)
  BY <1>2
<1>5. StoreInv' /\ ResultInv'
  BY <1>2, <1>3, <1>4, RecordKeeps
<1>6. HintInv'
  BY DEF EvidenceInv, HintInv, hintVars
<1>. QED
  BY <1>5, <1>6 DEF EvidenceInv

LEMMA EvidenceReopenKeeps ==
  ASSUME EvidenceInv, ReopenMemory
  PROVE  EvidenceInv'
<1>. DEFINE read == Load(saved)
            t == Refreshed(read)
<1>1. /\ asking' = "no" /\ records' = t /\ saved' \in {saved, t}
      /\ result' = NoResult /\ shown' = <<>>
      /\ delivered' = {} /\ reread' = {} /\ injected' = {} /\ counted' = {} /\ owed' = {}
      /\ current' = [p \in Paths |-> {content[p]}]
      /\ content' = content /\ ticks' = ticks
  BY DEF ReopenMemory
<1>2. /\ ContentInv /\ ticks \in Nat /\ RecordsOK(saved, ticks) /\ Len(saved) <= MaxRecords
  BY DEF EvidenceInv, StoreInv
<1>3. RecordsOK(read, ticks) /\ Len(read) <= Len(saved) /\ Facts(read) = Facts(saved)
  BY <1>2, LoadFacts
<1>. HIDE DEF read
<1>4. /\ RecordsOK(t, ticks) /\ Len(t) = Len(read) /\ Even(t) /\ Facts(t) = Facts(read)
      /\ DOMAIN t = DOMAIN read
      /\ \A i \in DOMAIN read :
           /\ t[i].path = read[i].path /\ t[i].hash = read[i].hash
           /\ t[i].status = "fresh" /\ read[i].path # NoPath =>
                read[i].hash = content[read[i].path]
  BY <1>2, <1>3, ComparedFacts
<1>. HIDE DEF t
<1>5. ContentInv'
  BY <1>1, <1>2 DEF ContentInv
<1>6. FreshIn(records)'
  <2>1. ASSUME NEW i \in DOMAIN t, t[i].status = "fresh", t[i].path # NoPath
        PROVE  t[i].hash \in current'[t[i].path]
    <3>1. t[i].hash = content[t[i].path]
      BY <1>4, <2>1
    <3>2. t[i] \in EvidenceRecords
      BY <1>4 DEF RecordsOK
    <3>3. t[i].path \in Paths
      BY <2>1, <3>2 DEF EvidenceRecords
    <3>. QED
      BY <1>1, <3>1, <3>3
  <2>. QED
    BY <1>1, <2>1 DEF FreshIn
<1>7. Len(t) <= MaxRecords
  <2>1. Len(t) \in Nat /\ Len(saved) \in Nat
    BY <1>2, <1>4 DEF RecordsOK
  <2>2. Len(t) <= Len(saved) /\ MaxRecords \in Nat
    BY <1>3, <1>4, EvidenceAssumption
  <2>. QED
    BY <1>2, <2>1, <2>2
<1>8. StoreInv'
  <2>1. RecordsOK(records, ticks)' /\ (Len(records) <= MaxRecords)' /\ Even(records)'
    BY <1>1, <1>4, <1>7 DEF Even, Live
  <2>2. RecordsOK(saved, ticks)' /\ (Len(saved) <= MaxRecords)'
    BY <1>1, <1>2, <1>4, <1>7
  <2>3. Facts(records)' = Facts(saved)'
    BY <1>1, <1>3, <1>4 DEF Facts, Live, Id
  <2>. QED
    BY <1>1, <1>2, <1>5, <1>6, <2>1, <2>2, <2>3 DEF StoreInv
<1>9. ResultInv' /\ HintInv'
  BY <1>1 DEF ResultInv, NoResult, HintInv, Files
<1>. QED
  BY <1>8, <1>9 DEF EvidenceInv

LEMMA EvidenceStep == EvidenceInv /\ [EvidenceNext]_evidenceVars => EvidenceInv'
<1>1. SUFFICES ASSUME EvidenceInv, [EvidenceNext]_evidenceVars PROVE EvidenceInv'
  OBVIOUS
<1>2. ASSUME NEW p \in Paths, NEW c \in Contents \cup {Gone}, EditFile(p, c)
      PROVE  EvidenceInv'
  BY <1>1, <1>2, EditKeeps
<1>3. ASSUME NEW q \in Queries, StartAsk(q) PROVE EvidenceInv'
  BY <1>1, <1>3, StartKeeps
<1>4. ASSUME NEW q \in Queries, RetrieveAgain(q) PROVE EvidenceInv'
  BY <1>1, <1>4, AgainKeeps
<1>5. CASE BuildPrompt
  BY <1>1, <1>5, BuildKeeps
<1>6. ASSUME NEW p \in Paths, ReadFile(p) PROVE EvidenceInv'
  BY <1>1, <1>6, EvidenceReadKeeps
<1>7. ASSUME NEW p \in Paths, NEW k \in Kinds, InspectFile(p, k) PROVE EvidenceInv'
  <2>1. <<p, k>> \in Identities
    BY DEF Identities
  <2>2. Record(AddEvidence(records, p, k), TRUE) /\ asking' = "working"
        /\ UNCHANGED <<content, hintVars, current>>
    BY <1>7 DEF InspectFile
  <2>. QED
    BY <1>1, <2>1, <2>2, FoundKeeps
<1>8. CASE VerifyCommand
  <2>1. <<NoPath, "verified">> \in Identities
    BY DEF Identities
  <2>2. Record(AddEvidence(records, NoPath, "verified"), TRUE) /\ asking' = "working"
        /\ UNCHANGED <<content, hintVars, current>>
    BY <1>8 DEF VerifyCommand
  <2>. QED
    BY <1>1, <2>1, <2>2, FoundKeeps
<1>9. CASE EndAsk
  <2>1. /\ asking' = "no" /\ counted' = injected \ reread
        /\ UNCHANGED <<content, records, saved, ticks, result, shown, delivered, reread,
                       injected, owed, current>>
    BY <1>9 DEF EndAsk
  <2>2. StoreInv' /\ ResultInv'
    BY <1>1, <2>1 DEF EvidenceInv, StoreInv, ContentInv, FreshIn, ResultInv
  <2>3. HintInv'
    BY <1>1, <2>1 DEF EvidenceInv, HintInv
  <2>. QED
    BY <2>2, <2>3 DEF EvidenceInv
<1>10. CASE ReopenMemory
  BY <1>1, <1>10, EvidenceReopenKeeps
<1>11. CASE UNCHANGED evidenceVars
  BY <1>1, <1>11
     DEF evidenceVars, hintVars, EvidenceInv, StoreInv, ContentInv, FreshIn, ResultInv, HintInv
<1>. QED
  BY <1>1, <1>2, <1>3, <1>4, <1>5, <1>6, <1>7, <1>8, <1>9, <1>10, <1>11 DEF EvidenceNext

LEMMA EvidenceImplies == EvidenceInv => EvidenceSound
<1>1. SUFFICES ASSUME EvidenceInv PROVE EvidenceSound
  OBVIOUS
<1>2. /\ ContentInv /\ ticks \in Nat
      /\ RecordsOK(records, ticks) /\ Len(records) <= MaxRecords /\ RecordsOK(saved, ticks)
      /\ FreshIn(records) /\ Even(records) /\ Facts(records) = Facts(saved)
  BY <1>1 DEF EvidenceInv, StoreInv
<1>3. HintInv
  BY <1>1 DEF EvidenceInv
<1>4. EvidenceTypeOK
  <2>1. records \in Seq(EvidenceRecords) /\ saved \in Seq(EvidenceRecords)
    BY <1>2 DEF RecordsOK
  <2>. QED
    BY <1>2, <1>3, <2>1 DEF EvidenceTypeOK, ContentInv, HintInv
<1>5. LatestAlive
  <2>1. ASSUME NEW s \in {records, saved}, NEW i \in Live(s), NEW j \in DOMAIN s,
               Id(s[i]) = Id(s[j]), i # j
        PROVE  s[j].at < s[i].at /\ s[j].status = "superseded"
    <3>1. RecordsOK(s, ticks)
      BY <1>2
    <3>2. i \in DOMAIN s /\ s[i].status # "superseded"
      BY DEF Live
    <3>3. PairOK(s[i], s[j])
      BY <2>1, <3>1, <3>2 DEF RecordsOK
    <3>. QED
      BY <2>1, <3>2, <3>3 DEF PairOK
  <2>. QED
    BY <2>1 DEF LatestAlive
<1>6. FreshIsRecent
  BY <1>2 DEF FreshIn, FreshIsRecent
<1>7. SummaryCurrent
  <2>1. ASSUME NEW i \in Live(records), records[i].kind = "read"
        PROVE  records[i].about = records[i].hash \/ records[i].hash \in Secrets
    <3>1. i \in DOMAIN records /\ records[i].status # "superseded"
      BY DEF Live
    <3>. QED
      BY <1>2, <2>1, <3>1 DEF RecordsOK, RecordOK
  <2>. QED
    BY <2>1 DEF SummaryCurrent
<1>8. NothingForgotten
  BY <1>2 DEF NothingForgotten, Facts
<1>9. CacheCautious
  <2>1. ASSUME Cached(result.query), NEW i \in DOMAIN result.hints, NEW j \in Live(records),
               result.hints[i].status = "fresh", records[j].path = result.hints[i].path,
               records[j].hash = result.hints[i].hash
        PROVE  records[j].status = "fresh"
    <3>1. Safe(result.hints[i], records, result.read)
      BY <1>1, <2>1 DEF EvidenceInv, ResultInv, AllSafe, Cached
    <3>. QED
      BY <2>1, <3>1 DEF Safe
  <2>. QED
    BY <2>1 DEF CacheCautious
<1>10. StaleCounted
  BY <1>3 DEF HintInv, StaleCounted
<1>. QED
  BY <1>4, <1>5, <1>6, <1>7, <1>8, <1>9, <1>10 DEF EvidenceSound

(* Whatever files, queries and limits there are, whatever is read, edited,  *)
(* searched and evicted, and however often the process ends, the evidence   *)
(* memory passes nothing old for new (memory_v2 evidence and retrieval).    *)
THEOREM EvidenceStaysSound == EvidenceSpec => []EvidenceSound
<1>. QED
  BY EvidenceStart, EvidenceStep, EvidenceImplies, PTL DEF EvidenceSpec

-----------------------------------------------------------------------------
(* The older durable memory, for any topics, notes and runs.                *)

(* No note twice, and no two of one subject.                                *)
OneEach(notes) ==
  \A i, j \in DOMAIN notes :
    notes[i] = notes[j] \/ (notes[i].subject = notes[j].subject /\ notes[i].subject # NoSubject)
      => i = j

(* Each note of s is among t, or one about its subject is.                  *)
Succeeds(s, t) ==
  \A n \in ToSet(s) \ ToSet(t) :
    n.subject # NoSubject /\ \E o \in ToSet(t) : o.subject = n.subject

NoteStores == UNION {[D -> Seq(Told)] : D \in SUBSET Topics}

(* Notes that may take the place of those of the files, for topics all of   *)
(* which the index lists.                                                   *)
FollowUp(all) ==
  /\ all \in NoteStores
  /\ \A t \in DOMAIN all : OneEach(all[t]) /\ Succeeds(topicFiles[t], all[t])

TopicsInv ==
  /\ index \subseteq Topics /\ topicFiles \in [Topics -> Seq(Told)]
  /\ \A t \in Topics : OneEach(topicFiles[t])
  /\ \A t \in Topics : topicFiles[t] # <<>> => t \in index
  /\ FollowUp(toWrite) /\ DOMAIN toWrite \subseteq index

LEMMA SucceedsOn ==
  ASSUME NEW s, NEW t, NEW u, Succeeds(s, t), Succeeds(t, u)
  PROVE  Succeeds(s, u)
<1>. SUFFICES ASSUME NEW n \in ToSet(s) \ ToSet(u)
              PROVE  n.subject # NoSubject /\ \E o \in ToSet(u) : o.subject = n.subject
  BY DEF Succeeds
<1>1. CASE n \in ToSet(t)
  BY <1>1 DEF Succeeds
<1>2. CASE n \notin ToSet(t)
  <2>1. n.subject # NoSubject
    BY <1>2 DEF Succeeds
  <2>2. PICK o \in ToSet(t) : o.subject = n.subject
    BY <1>2 DEF Succeeds
  <2>3. CASE o \in ToSet(u)
    BY <2>1, <2>2, <2>3
  <2>4. CASE o \notin ToSet(u)
    <3>1. \E q \in ToSet(u) : q.subject = o.subject
      BY <2>4 DEF Succeeds
    <3>. QED
      BY <2>1, <2>2, <3>1
  <2>. QED
    BY <2>3, <2>4
<1>. QED
  BY <1>1, <1>2

(* What one note does to the notes of its topic.                            *)
NewNotes(notes, n) ==
  LET same == SameSubjectAt(notes, n)
  IN IF n \in ToSet(notes) THEN notes
     ELSE IF same # {} THEN [notes EXCEPT ![FirstOf(same)] = n]
     ELSE Append(notes, n)

LEMMA NotesStayOne ==
  ASSUME NEW notes \in Seq(Told), NEW n \in Told, OneEach(notes)
  PROVE  /\ NewNotes(notes, n) \in Seq(Told) /\ OneEach(NewNotes(notes, n))
         /\ Succeeds(notes, NewNotes(notes, n))
<1>. DEFINE same == SameSubjectAt(notes, n)
            new == NewNotes(notes, n)
<1>s. \A i, j \in DOMAIN notes :
        notes[i] = notes[j] \/ (notes[i].subject = notes[j].subject
                                 /\ notes[i].subject # NoSubject) => i = j
  BY DEF OneEach
<1>1. CASE n \in ToSet(notes)
  BY <1>1 DEF NewNotes, Succeeds
<1>2. CASE n \notin ToSet(notes) /\ same # {}
  <2>1. same \subseteq Nat /\ same \subseteq DOMAIN notes
    BY DEF SameSubjectAt
  <2>2. \E m \in same : \A k \in same : m <= k
    <3>. HIDE DEF same
    <3>. QED
      BY <1>2, <2>1, LeastNumber
  <2>3. FirstOf(same) \in same
    BY <2>2 DEF FirstOf
  <2>. DEFINE m == FirstOf(same)
  <2>4. m \in DOMAIN notes /\ n.subject # NoSubject /\ notes[m].subject = n.subject
    BY <2>3 DEF SameSubjectAt
  <2>5. new = [notes EXCEPT ![m] = n]
    BY <1>2 DEF NewNotes
  <2>. HIDE DEF new, m, same
  <2>6. /\ new \in Seq(Told) /\ DOMAIN new = DOMAIN notes
        /\ \A i \in DOMAIN notes : new[i] = IF i = m THEN n ELSE notes[i]
    BY <2>4, <2>5
  <2>7. ToSet(new) = (ToSet(notes) \ {notes[m]}) \cup {n}
    <3>1. ASSUME NEW i \in DOMAIN notes, i # m PROVE notes[i] # notes[m]
      BY <1>s, <2>4, <3>1
    <3>. QED
      BY <2>4, <2>6, <3>1 DEF ToSet
  <2>8. OneEach(new)
    <3>. SUFFICES ASSUME NEW i \in DOMAIN notes, NEW j \in DOMAIN notes,
                         \/ new[i] = new[j]
                         \/ new[i].subject = new[j].subject /\ new[i].subject # NoSubject
                  PROVE  i = j
      BY <2>6 DEF OneEach
    <3>1. CASE i # m /\ j # m
      BY <1>s, <2>6, <3>1
    <3>2. CASE i = m /\ j # m
      <4>1. new[i] = n /\ new[j] = notes[j] /\ notes[j].subject = n.subject
        BY <2>4, <2>6, <3>2
      <4>. QED
        BY <1>s, <2>4, <3>2, <4>1
    <3>3. CASE i # m /\ j = m
      <4>1. new[j] = n /\ new[i] = notes[i] /\ notes[i].subject = n.subject
        BY <2>4, <2>6, <3>3
      <4>. QED
        BY <1>s, <2>4, <3>3, <4>1
    <3>. QED
      BY <3>1, <3>2, <3>3
  <2>9. Succeeds(notes, new)
    BY <2>4, <2>7 DEF Succeeds
  <2>. QED
    BY <2>6, <2>8, <2>9 DEF new
<1>3. CASE n \notin ToSet(notes) /\ same = {}
  <2>1. new = Append(notes, n)
    BY <1>3 DEF NewNotes
  <2>2. \A i \in DOMAIN notes : notes[i] # n /\ ~(n.subject # NoSubject /\ notes[i].subject = n.subject)
    BY <1>3 DEF SameSubjectAt, ToSet
  <2>. HIDE DEF new, same
  <2>3. /\ new \in Seq(Told) /\ DOMAIN new = DOMAIN notes \cup {Len(notes) + 1}
        /\ new[Len(notes) + 1] = n
        /\ \A i \in DOMAIN notes : new[i] = notes[i] /\ i # Len(notes) + 1
    BY <2>1
  <2>4. OneEach(new)
    <3>. SUFFICES ASSUME NEW i \in DOMAIN new, NEW j \in DOMAIN new,
                         \/ new[i] = new[j]
                         \/ new[i].subject = new[j].subject /\ new[i].subject # NoSubject
                  PROVE  i = j
      BY DEF OneEach
    <3>1. CASE i \in DOMAIN notes /\ j \in DOMAIN notes
      BY <1>s, <2>3, <3>1
    <3>2. CASE i \in DOMAIN notes /\ j = Len(notes) + 1
      BY <2>2, <2>3, <3>2
    <3>3. CASE i = Len(notes) + 1 /\ j \in DOMAIN notes
      BY <2>2, <2>3, <3>3
    <3>. QED
      BY <2>3, <3>1, <3>2, <3>3
  <2>5. ToSet(notes) \subseteq ToSet(new)
    BY <2>3 DEF ToSet
  <2>6. Succeeds(notes, new)
    BY <2>5 DEF Succeeds
  <2>. QED
    BY <2>3, <2>4, <2>6 DEF new
<1>. QED
  BY <1>1, <1>2, <1>3

LEMMA FollowsOn ==
  ASSUME TopicsInv, NEW all, FollowUp(all), index \subseteq DOMAIN all, NEW t \in Topics, NEW n \in Told
  PROVE  FollowUp(PromoteNote(all, <<t, n>>)) /\ index \subseteq DOMAIN PromoteNote(all, <<t, n>>)
<1>. DEFINE notes == IF t \in DOMAIN all THEN all[t] ELSE <<>>
            new == NewNotes(notes, n)
            then == [u \in DOMAIN all \cup {t} |-> IF u = t THEN new ELSE all[u]]
<1>1. PromoteNote(all, <<t, n>>) = then
  BY DEF PromoteNote, NewNotes
<1>2. PICK D \in SUBSET Topics : all \in [D -> Seq(Told)]
  BY DEF FollowUp, NoteStores
<1>3. notes \in Seq(Told) /\ OneEach(notes) /\ Succeeds(topicFiles[t], notes)
  <2>1. CASE t \in DOMAIN all
    BY <1>2, <2>1 DEF FollowUp
  <2>2. CASE t \notin DOMAIN all
    <3>1. topicFiles[t] = <<>>
      BY <2>2 DEF TopicsInv
    <3>2. notes = <<>>
      BY <2>2
    <3>3. ToSet(<<>>) = {} /\ <<>> \in Seq(Told) /\ DOMAIN <<>> = {}
      BY DEF ToSet
    <3>. HIDE DEF notes
    <3>. QED
      BY <3>1, <3>2, <3>3 DEF OneEach, Succeeds
  <2>. QED
    BY <2>1, <2>2
<1>. HIDE DEF notes
<1>4. new \in Seq(Told) /\ OneEach(new) /\ Succeeds(notes, new)
  BY <1>3, NotesStayOne
<1>. HIDE DEF new
<1>5. Succeeds(topicFiles[t], new)
  BY <1>3, <1>4, SucceedsOn
<1>6. then \in [D \cup {t} -> Seq(Told)] /\ D \cup {t} \in SUBSET Topics
  BY <1>2, <1>4
<1>7. then \in NoteStores
  BY <1>6 DEF NoteStores
<1>8. ASSUME NEW u \in DOMAIN then PROVE OneEach(then[u]) /\ Succeeds(topicFiles[u], then[u])
  <2>1. CASE u = t
    BY <1>4, <1>5, <2>1
  <2>2. CASE u # t
    BY <2>2 DEF FollowUp
  <2>. QED
    BY <2>1, <2>2
<1>9. index \subseteq DOMAIN then
  OBVIOUS
<1>. QED
  BY <1>1, <1>7, <1>8, <1>9 DEF FollowUp

LEMMA LoadedFollows ==
  ASSUME TopicsInv
  PROVE  FollowUp(Loaded) /\ DOMAIN Loaded = index
<1>1. Loaded \in [index -> Seq(Told)] /\ index \in SUBSET Topics
  BY DEF TopicsInv, Loaded
<1>2. ASSUME NEW t \in index PROVE Loaded[t] = topicFiles[t] /\ OneEach(topicFiles[t])
  BY DEF TopicsInv, Loaded
<1>3. \A t \in index : Succeeds(topicFiles[t], topicFiles[t])
  BY DEF Succeeds
<1>. QED
  BY <1>1, <1>2, <1>3 DEF FollowUp, NoteStores

LEMMA PromotedFollows ==
  ASSUME TopicsInv, NEW promotions \in Promotions
  PROVE  FollowUp(Promoted(promotions)) /\ index \subseteq DOMAIN Promoted(promotions)
<1>. DEFINE n == Len(promotions)
            X == {s \in NoteStores : FollowUp(s) /\ index \subseteq DOMAIN s}
            all[k \in 0..Len(promotions)] ==
              IF k = 0 THEN Loaded ELSE PromoteNote(all[k - 1], promotions[k])
            step == [a \in X \X (1..n) |-> PromoteNote(a[1], promotions[a[2]])]
<1>1. promotions \in Seq(Topics \X Told) /\ n \in Nat
  BY TopicsAssumption
<1>2. ASSUME NEW k \in 1..n
      PROVE  /\ promotions[k][1] \in Topics /\ promotions[k][2] \in Told
             /\ promotions[k] = <<promotions[k][1], promotions[k][2]>>
  <2>1. promotions[k] \in Topics \X Told
    BY <1>1
  <2>. QED
    BY <2>1
<1>3. Loaded \in X
  BY LoadedFollows DEF FollowUp
<1>4. ASSUME NEW s \in X, NEW k \in 1..n PROVE PromoteNote(s, promotions[k]) \in X
  <2>1. FollowUp(s) /\ index \subseteq DOMAIN s
    OBVIOUS
  <2>. DEFINE u == promotions[k][1]
              m == promotions[k][2]
  <2>2. u \in Topics /\ m \in Told /\ promotions[k] = <<u, m>>
    BY <1>2
  <2>. HIDE DEF u, m
  <2>3. FollowUp(PromoteNote(s, <<u, m>>)) /\ index \subseteq DOMAIN PromoteNote(s, <<u, m>>)
    BY <2>1, <2>2, FollowsOn
  <2>. QED
    BY <2>2, <2>3 DEF FollowUp
<1>. HIDE DEF X
<1>5. step \in [X \X (1..n) -> X]
  BY <1>4
<1>6. \E g \in [0..n -> X] : Folded(g, Loaded, n, step)
  <2>. HIDE DEF n, step
  <2>. QED
    BY <1>1, <1>3, <1>5, Folding
<1>7. PICK g \in [0..n -> X] : g[0] = Loaded /\ \A k \in 1..n : g[k] = step[<<g[k - 1], k>>]
  BY <1>6 DEF Folded
<1>8. ASSUME NEW k \in 1..n PROVE g[k] = PromoteNote(g[k - 1], promotions[k])
  <2>1. k - 1 \in 0..n /\ g[k - 1] \in X
    BY <1>1
  <2>. QED
    BY <1>7, <2>1
<1>. HIDE DEF step
<1>9. g = [k \in 0..Len(promotions) |->
             IF k = 0 THEN Loaded ELSE PromoteNote(g[k - 1], promotions[k])]
  <2>1. \A k \in 0..n : k = 0 \/ k \in 1..n
    BY <1>1
  <2>. QED
    BY <1>7, <1>8, <2>1
<1>10. all = [k \in 0..Len(promotions) |->
               IF k = 0 THEN Loaded ELSE PromoteNote(all[k - 1], promotions[k])]
  BY <1>9
<1>11. all[0] = Loaded /\ \A k \in 1..n : all[k] = PromoteNote(all[k - 1], promotions[k])
  <2>1. 0 \in 0..n /\ \A k \in 1..n : k \in 0..n /\ k # 0
    BY <1>1
  <2>. HIDE DEF all
  <2>. QED
    BY <1>10, <2>1
<1>. DEFINE T == {k \in 0..n : all[k] \in X}
<1>12. Promoted(promotions) = all[n]
  BY DEF Promoted
<1>. HIDE DEF all
<1>13. 0 \in T
  BY <1>1, <1>3, <1>11
<1>14. \A k \in 1..n : k - 1 \in T => k \in T
  BY <1>1, <1>4, <1>11
<1>15. \A k \in 0..n : k \in T
  <2>. HIDE DEF T, n
  <2>. QED
    BY <1>1, <1>13, <1>14, CountUp
<1>16. all[n] \in X
  BY <1>1, <1>15
<1>. QED
  BY <1>12, <1>16 DEF X

LEMMA NothingToWrite == FollowUp(<<>>) /\ DOMAIN <<>> = {}
<1>1. <<>> \in [{} -> Seq(Told)] /\ DOMAIN <<>> = {}
  OBVIOUS
<1>2. <<>> \in NoteStores
  BY <1>1 DEF NoteStores
<1>. QED
  BY <1>1, <1>2 DEF FollowUp

LEMMA TopicsBegin == TopicsInit => TopicsInv
<1>. SUFFICES ASSUME TopicsInit PROVE TopicsInv
  OBVIOUS
<1>1. \A t \in Topics : topicFiles[t] = <<>>
  BY DEF TopicsInit
<1>2. topicFiles \in [Topics -> Seq(Told)] /\ index = {} /\ toWrite = <<>>
  BY DEF TopicsInit
<1>. QED
  BY <1>1, <1>2, NothingToWrite DEF TopicsInv, OneEach

(* The step keeps the invariant, and replaces notes by ones of their        *)
(* subject only.                                                            *)
LEMMA TopicsStep ==
  TopicsInv /\ [TopicsNext]_topicVars
    => TopicsInv' /\ \A t \in Topics : Succeeds(topicFiles[t], topicFiles[t]')
<1>. SUFFICES ASSUME TopicsInv, [TopicsNext]_topicVars
              PROVE  TopicsInv' /\ \A t \in Topics : Succeeds(topicFiles[t], topicFiles'[t])
  OBVIOUS
<1>0. \A s : Succeeds(s, s)
  BY DEF Succeeds
<1>1. ASSUME NEW promotions \in Promotions, Promote(promotions)
      PROVE  TopicsInv' /\ topicFiles' = topicFiles
  <2>1. /\ topicFiles' = topicFiles /\ toWrite' = Promoted(promotions)
        /\ index' = DOMAIN toWrite'
    BY <1>1 DEF Promote
  <2>2. FollowUp(toWrite') /\ index \subseteq index'
    BY <2>1, PromotedFollows
  <2>3. FollowUp(toWrite)'
    BY <2>1, <2>2 DEF FollowUp
  <2>4. index' \subseteq Topics
    BY <2>1, <2>2 DEF FollowUp, NoteStores
  <2>. QED
    BY <2>1, <2>2, <2>3, <2>4 DEF TopicsInv
<1>2. ASSUME NEW t \in Topics, WriteTopic(t)
      PROVE  TopicsInv' /\ \A u \in Topics : Succeeds(topicFiles[u], topicFiles'[u])
  <2>1. /\ t \in DOMAIN toWrite /\ index' = index
        /\ topicFiles' = [topicFiles EXCEPT ![t] = toWrite[t]]
        /\ toWrite' = [u \in DOMAIN toWrite \ {t} |-> toWrite[u]]
    BY <1>2 DEF WriteTopic
  <2>2. PICK D \in SUBSET Topics : toWrite \in [D -> Seq(Told)]
    BY DEF TopicsInv, FollowUp, NoteStores
  <2>3. toWrite' \in [D \ {t} -> Seq(Told)] /\ D \ {t} \in SUBSET Topics
    BY <2>1, <2>2
  <2>4. toWrite' \in NoteStores /\ DOMAIN toWrite' \subseteq index'
    BY <2>1, <2>3 DEF NoteStores, TopicsInv
  <2>5. /\ topicFiles' \in [Topics -> Seq(Told)]
        /\ \A u \in Topics : topicFiles'[u] = IF u = t THEN toWrite[t] ELSE topicFiles[u]
    BY <2>1, <2>2 DEF TopicsInv
  <2>6. \A u \in Topics : OneEach(topicFiles'[u]) /\ Succeeds(topicFiles[u], topicFiles'[u])
    BY <1>0, <2>1, <2>5 DEF TopicsInv, FollowUp
  <2>7. \A u \in Topics : topicFiles'[u] # <<>> => u \in index'
    BY <2>1, <2>5 DEF TopicsInv
  <2>8. \A u \in DOMAIN toWrite' : OneEach(toWrite'[u]) /\ Succeeds(topicFiles'[u], toWrite'[u])
    <3>1. ASSUME NEW u \in DOMAIN toWrite'
          PROVE  u \in DOMAIN toWrite /\ toWrite'[u] = toWrite[u] /\ topicFiles'[u] = topicFiles[u]
      BY <2>1, <2>2, <2>5
    <3>. QED
      BY <3>1 DEF TopicsInv, FollowUp
  <2>9. FollowUp(toWrite)'
    BY <2>4, <2>8 DEF FollowUp
  <2>10. TopicsInv'
    BY <2>1, <2>4, <2>5, <2>6, <2>7, <2>9 DEF TopicsInv
  <2>. QED
    BY <2>6, <2>10
<1>3. CASE EndProcess
  <2>1. toWrite' = <<>> /\ UNCHANGED <<index, topicFiles>>
    BY <1>3 DEF EndProcess
  <2>2. FollowUp(toWrite)' /\ DOMAIN toWrite' = {}
    BY <2>1, NothingToWrite DEF FollowUp
  <2>3. TopicsInv'
    BY <2>1, <2>2 DEF TopicsInv
  <2>. QED
    BY <1>0, <2>1, <2>3
<1>4. CASE UNCHANGED topicVars
  BY <1>0, <1>4 DEF topicVars, TopicsInv, FollowUp
<1>. QED
  BY <1>0, <1>1, <1>2, <1>3, <1>4 DEF TopicsNext

(* Over promotions that a process leaves half done, every note on the disk  *)
(* is found, stands once to a subject, and goes only for another of its     *)
(* subject (promote, _write_index).                                         *)
THEOREM TopicsStayKept == TopicsSpec => TopicsKept
<1>1. TopicsInv => NotesReachable /\ OneNotePerSubject
  BY DEF TopicsInv, NotesReachable, OneNotePerSubject, OneEach
<1>2. TopicsInv /\ [TopicsNext]_topicVars => TopicsInv'
  BY TopicsStep
<1>3. TopicsInv /\ [TopicsNext]_topicVars =>
        [\A t \in Topics : \A n \in ToSet(topicFiles[t]) \ ToSet(topicFiles'[t]) :
           n.subject # NoSubject /\ \E o \in ToSet(topicFiles'[t]) : o.subject = n.subject]_topicVars
  BY TopicsStep DEF Succeeds
<1>. QED
  BY TopicsBegin, <1>1, <1>2, <1>3, PTL DEF TopicsSpec, TopicsKept, NotesReplaced

-----------------------------------------------------------------------------
(* The durable facts, for any harvests, notes and bounds.                   *)

FactRecords == [id : Nat, says : Statements, status : {"active", "superseded"},
                supersedes : Nat, conflict : Nat]

(* Records one after the other as they were made, m of them so far.         *)
Ageing(s) == \A i, j \in DOMAIN s : i < j <=> s[i].id < s[j].id
Pointing(r, m) == r.id \in 1..m /\ r.supersedes \in 0..(r.id - 1) /\ r.conflict \in 0..m
StoreOf(s, m) ==
  /\ s \in Seq(FactRecords) /\ Len(s) <= MaxFacts /\ Ageing(s)
  /\ \A i \in DOMAIN s : Pointing(s[i], m)

(* A sequence in its order stays as it is when it is sorted.                *)
LEMMA SortedStays ==
  ASSUME NEW s \in Seq(FactRecords), Ageing(s)
  PROVE  Sorted(s, ByMaking(s)) = s
<1>. DEFINE n == Len(s)
            D == DOMAIN s
            R == ByMaking(s)
<1>1. n \in Nat /\ D = 1..n /\ \A i \in D : s[i] \in FactRecords
  OBVIOUS
<1>2. \A i \in D : s[i].id \in Nat
  BY <1>1 DEF FactRecords
<1>3. \A i, j \in D : <<i, j>> \in R <=> i < j
  BY DEF ByMaking, Ageing
<1>. HIDE DEF R
<1>4. Orders(R, D)
  BY <1>1, <1>3 DEF Orders
<1>5. IsFiniteSet(D) /\ Cardinality(D) = n
  BY <1>1, Interval
<1>6. ASSUME NEW k \in 1..n PROVE Arranged(D, R)[k] = k
  <2>1. Preceding(D, R, k) = 1..(k - 1)
    <3>. HIDE DEF D
    <3>1. k \in D
      BY <1>1
    <3>2. \A y \in D : <<y, k>> \in R <=> y < k
      BY <1>3, <3>1 DEF D
    <3>3. Preceding(D, R, k) = {y \in D : y < k}
      BY <3>2 DEF Preceding
    <3>4. D = 1..n
      BY <1>1
    <3>5. {y \in 1..n : y < k} = 1..(k - 1)
      OBVIOUS
    <3>. QED
      BY ONLY <3>3, <3>4, <3>5
  <2>2. Cardinality(1..(k - 1)) = k - 1
    <3>1. k - 1 \in Nat
      OBVIOUS
    <3>. QED
      BY <3>1, Interval
  <2>3. k \in 1..Cardinality(D) /\ k \in D
    BY <1>1, <1>5
  <2>4. Cardinality(Preceding(D, R, k)) = k - 1
    BY <2>1, <2>2
  <2>. HIDE DEF D
  <2>. QED
    BY <1>4, <1>5, <2>3, <2>4, Placing
<1>7. \A k \in D : Arranged(D, R)[k] = k
  BY <1>1, <1>6
<1>. HIDE DEF D
<1>8. Sorted(s, R) = [k \in D |-> s[k]]
  BY <1>7 DEF Sorted, D
<1>. QED
  BY <1>1, <1>8 DEF D, R

(* An old record behind younger ones comes first when they are sorted.      *)
LEMMA SortedFirst ==
  ASSUME NEW s \in Seq(FactRecords), Ageing(s), NEW r \in FactRecords,
         \A i \in DOMAIN s : r.id < s[i].id
  PROVE  LET all == Append(s, r)
             t == Sorted(all, ByMaking(all)) IN
         /\ t \in Seq(FactRecords) /\ Len(t) = Len(s) + 1
         /\ \A k \in DOMAIN s : t[k + 1] = s[k]
<1>. DEFINE n == Len(s)
            all == Append(s, r)
            D == DOMAIN all
            R == ByMaking(all)
            t == Sorted(all, R)
<1>1. /\ n \in Nat /\ DOMAIN s = 1..n /\ D = 1..(n + 1) /\ all \in Seq(FactRecords)
      /\ Len(all) = n + 1 /\ all[n + 1] = r /\ \A i \in 1..n : all[i] = s[i]
  OBVIOUS
<1>. HIDE DEF all
<1>2. /\ \A i \in 1..n : s[i].id \in Nat /\ r.id < s[i].id
      /\ r.id \in Nat
  <2>1. \A i \in 1..n : s[i] \in FactRecords
    BY <1>1
  <2>. QED
    BY <1>1, <2>1 DEF FactRecords
<1>3. /\ \A i, j \in 1..n : <<i, j>> \in R <=> i < j
      /\ \A i \in 1..n : <<n + 1, i>> \in R /\ <<i, n + 1>> \notin R
      /\ <<n + 1, n + 1>> \notin R
  <2>1. \A i, j \in D : <<i, j>> \in R <=> all[i].id < all[j].id
    BY DEF ByMaking
  <2>2. \A i \in 1..n : i \in D
    BY <1>1
  <2>3. n + 1 \in D
    BY <1>1
  <2>. HIDE DEF R, D
  <2>4. \A i, j \in 1..n : <<i, j>> \in R <=> i < j
    BY <1>1, <2>1, <2>2 DEF Ageing
  <2>5. \A i \in 1..n : <<n + 1, i>> \in R /\ <<i, n + 1>> \notin R
    BY <1>1, <1>2, <2>1, <2>2, <2>3
  <2>6. <<n + 1, n + 1>> \notin R
    BY <1>1, <1>2, <2>1, <2>3
  <2>. QED
    BY <2>4, <2>5, <2>6
<1>. HIDE DEF R
<1>4. Orders(R, D)
  <2>1. \A x \in D : x = n + 1 \/ x \in 1..n
    BY <1>1
  <2>2. \A i \in 1..n : i \in Nat
    OBVIOUS
  <2>. HIDE DEF D
  <2>3. \A x \in D : <<x, x>> \notin R
    BY <1>3, <2>1, <2>2
  <2>4. ASSUME NEW x \in D, NEW y \in D, NEW z \in D, <<x, y>> \in R, <<y, z>> \in R
        PROVE  <<x, z>> \in R
    <3>1. y \in 1..n /\ z \in 1..n
      BY <1>3, <2>1, <2>4
    <3>2. CASE x = n + 1
      BY <1>3, <3>1, <3>2
    <3>3. CASE x \in 1..n
      <4>1. x < y /\ y < z
        BY <1>3, <2>4, <3>1, <3>3
      <4>2. x < z
        BY <3>1, <3>3, <4>1
      <4>. QED
        BY <1>3, <3>1, <3>3, <4>2
    <3>. QED
      BY <2>1, <3>2, <3>3
  <2>5. ASSUME NEW x \in D, NEW y \in D PROVE x = y \/ <<x, y>> \in R \/ <<y, x>> \in R
    <3>1. CASE x \in 1..n /\ y \in 1..n
      <4>1. x = y \/ x < y \/ y < x
        BY <3>1
      <4>. QED
        BY <1>3, <3>1, <4>1
    <3>2. CASE x = n + 1 \/ y = n + 1
      BY <1>3, <2>1, <3>2
    <3>. QED
      BY <2>1, <3>1, <3>2
  <2>. QED
    BY ONLY <2>3, <2>4, <2>5 DEF Orders
<1>5. IsFiniteSet(D) /\ Cardinality(D) = n + 1
  <2>1. n + 1 \in Nat
    BY <1>1
  <2>. QED
    BY <1>1, <2>1, Interval
<1>6. ASSUME NEW k \in 1..n PROVE Arranged(D, R)[k + 1] = k
  <2>1. Preceding(D, R, k) = (1..(k - 1)) \cup {n + 1}
    <3>1. Preceding(D, R, k) = {y \in D : <<y, k>> \in R}
      BY DEF Preceding
    <3>2. \A y \in 1..n : <<y, k>> \in R <=> y < k
      BY <1>3
    <3>3. <<n + 1, k>> \in R
      BY <1>3
    <3>4. D = (1..n) \cup {n + 1}
      BY <1>1
    <3>5. Preceding(D, R, k) = {y \in 1..n : y < k} \cup {n + 1}
      BY <3>1, <3>2, <3>3, <3>4
    <3>6. {y \in 1..n : y < k} = 1..(k - 1)
      BY <1>1
    <3>. QED
      BY <3>5, <3>6
  <2>2. IsFiniteSet(1..(k - 1)) /\ Cardinality(1..(k - 1)) = k - 1
    <3>1. k - 1 \in Nat
      OBVIOUS
    <3>. QED
      BY <3>1, Interval
  <2>3. n + 1 \notin 1..(k - 1)
    BY <1>1
  <2>4. Cardinality((1..(k - 1)) \cup {n + 1}) = (k - 1) + 1
    BY <2>2, <2>3, FS_AddElement
  <2>5. k \in D /\ k + 1 \in 1..Cardinality(D) /\ Cardinality(Preceding(D, R, k)) = (k + 1) - 1
    <3>1. k \in D
      BY <1>1
    <3>2. k + 1 \in 1..(n + 1) /\ (k - 1) + 1 = (k + 1) - 1
      BY <1>1
    <3>. HIDE DEF D, n
    <3>. QED
      BY <1>5, <2>1, <2>4, <3>1, <3>2
  <2>. HIDE DEF D
  <2>. QED
    BY <1>4, <1>5, <2>5, Placing
<1>7. t \in Seq(FactRecords) /\ Len(t) = n + 1
  <2>. HIDE DEF n
  <2>. QED
    BY <1>1, <1>4, SortedPlaces DEF D
<1>8. ASSUME NEW k \in 1..n PROVE t[k + 1] = s[k]
  <2>1. k + 1 \in D
    BY <1>1
  <2>2. t[k + 1] = all[Arranged(D, R)[k + 1]]
    <3>. HIDE DEF D
    <3>. QED
      BY <2>1 DEF Sorted, D
  <2>. QED
    BY <1>1, <1>6, <2>2
<1>. HIDE DEF t, n
<1>. QED
  BY <1>1, <1>7, <1>8 DEF t, n, R, all

(* A store with a record at its end, without its first when it was full.    *)
Longer(t, s, r, d) ==
  /\ t \in Seq(FactRecords) /\ d \in {0, 1} /\ (d = 1 <=> Len(s) = MaxFacts)
  /\ Len(t) = Len(s) + 1 - d /\ t[Len(t)] = r
  /\ \A k \in 1..(Len(t) - 1) : k + d \in 1..Len(s) /\ t[k] = s[k + d]

LEMMA AddedLonger ==
  ASSUME NEW m \in Nat, NEW s, StoreOf(s, m), NEW r \in FactRecords, m < r.id
  PROVE  \E d \in {0, 1} : Longer(Added(s, r), s, r, d)
<1>. DEFINE all == Append(s, r)
            n == Len(s)
<1>1. s \in Seq(FactRecords) /\ n \in Nat /\ n <= MaxFacts /\ DOMAIN s = 1..n
  BY DEF StoreOf
<1>2. /\ all \in Seq(FactRecords) /\ Len(all) = n + 1 /\ DOMAIN all = 1..(n + 1)
      /\ all[n + 1] = r /\ \A i \in 1..n : all[i] = s[i]
  BY <1>1
<1>m. MaxFacts \in Nat \ {0}
  BY DurableAssumption
<1>3. CASE n < MaxFacts
  <2>1. Added(s, r) = all
    BY <1>3 DEF Added
  <2>. HIDE DEF all
  <2>2. Longer(all, s, r, 0)
    <3>1. Len(s) # MaxFacts /\ Len(all) = Len(s) + 1 - 0 /\ all[Len(all)] = r /\ 0 \in {0, 1}
      <4>. HIDE DEF n
      <4>1. n # MaxFacts /\ n + 1 = n + 1 - 0
        BY <1>1, <1>3, <1>m
      <4>2. Len(s) = n
        BY DEF n
      <4>. QED
        BY <1>2, <4>1, <4>2
    <3>2. ASSUME NEW k \in 1..(Len(all) - 1) PROVE k + 0 \in 1..Len(s) /\ all[k] = s[k + 0]
      BY <1>1, <1>2
    <3>. QED
      BY <1>2, <3>1, <3>2 DEF Longer
  <2>. QED
    BY <2>1, <2>2
<1>4. CASE n = MaxFacts
  <2>1. Ageing(all)
    <3>1. \A i \in 1..n : s[i].id \in Nat /\ s[i].id < r.id
      <4>1. \A i \in 1..n : s[i] \in FactRecords /\ s[i].id \in 1..m
        BY <1>1 DEF StoreOf, Pointing
      <4>. QED
        BY <4>1 DEF FactRecords
    <3>2. r.id \in Nat
      BY DEF FactRecords
    <3>3. ASSUME NEW i \in 1..(n + 1), NEW j \in 1..(n + 1)
          PROVE  i < j <=> all[i].id < all[j].id
      <4>. HIDE DEF all
      <4>1. CASE i \in 1..n /\ j \in 1..n
        BY <1>1, <1>2, <4>1 DEF StoreOf, Ageing
      <4>2. CASE i = n + 1 /\ j \in 1..n
        BY <1>1, <1>2, <3>1, <3>2, <4>2
      <4>3. CASE i \in 1..n /\ j = n + 1
        BY <1>1, <1>2, <3>1, <3>2, <4>3
      <4>4. CASE i = n + 1 /\ j = n + 1
        BY <1>1, <1>2, <3>2, <4>4
      <4>. QED
        BY <1>1, <4>1, <4>2, <4>3, <4>4
    <3>. HIDE DEF all
    <3>. QED
      BY <1>2, <3>3 DEF Ageing
  <2>2. Sorted(all, ByMaking(all)) = all
    <3>. HIDE DEF all
    <3>. QED
      BY <1>2, <2>1, SortedStays
  <2>. DEFINE t == SubSeq(all, 2, n + 1)
  <2>3. Added(s, r) = t
    <3>1. Added(s, r) = SubSeq(all, Len(all) - MaxFacts + 1, Len(all))
      BY <1>1, <1>4, <1>m, <2>2 DEF Added
    <3>. HIDE DEF all
    <3>2. Len(all) - MaxFacts + 1 = 2 /\ Len(all) = n + 1
      BY <1>1, <1>2, <1>4
    <3>. QED
      BY <3>1, <3>2
  <2>. HIDE DEF all
  <2>4. /\ t \in Seq(FactRecords)
        /\ Len(t) = IF 2 <= n + 1 THEN (n + 1) - 2 + 1 ELSE 0
        /\ \A i \in 1..((n + 1) - 2 + 1) : t[i] = all[2 + i - 1]
    <3>1. 2 \in Int /\ n + 1 \in Int /\ \A i \in 2..(n + 1) : all[i] \in FactRecords
      BY <1>1, <1>2
    <3>. QED
      BY <3>1, SubSeqProperties
  <2>. HIDE DEF t
  <2>5. Len(t) = n /\ n >= 1 /\ \A i \in 1..n : t[i] = all[i + 1]
    <3>1. n \in Nat /\ n >= 1
      BY <1>1, <1>4, <1>m
    <3>2. Len(t) = n
      BY <2>4, <3>1
    <3>3. ASSUME NEW i \in 1..n PROVE t[i] = all[i + 1]
      <4>1. i \in 1..((n + 1) - 2 + 1) /\ 2 + i - 1 = i + 1
        BY <3>1
      <4>. QED
        BY <2>4, <4>1
    <3>. QED
      BY <3>1, <3>2, <3>3
  <2>6. Longer(t, s, r, 1)
    <3>1. t[Len(t)] = r
      BY <1>1, <1>2, <2>5
    <3>2. ASSUME NEW k \in 1..(Len(t) - 1) PROVE k + 1 \in 1..n /\ t[k] = s[k + 1]
      BY <1>1, <1>2, <2>5
    <3>. QED
      BY <1>1, <1>4, <2>4, <2>5, <3>1, <3>2 DEF Longer
  <2>. QED
    BY <2>3, <2>6
<1>5. n < MaxFacts \/ n = MaxFacts
  <2>. HIDE DEF n
  <2>. QED
    BY ONLY <1>1, <1>m
<1>. QED
  BY ONLY <1>3, <1>4, <1>5

(* A record that had to go goes again when it is added again.               *)
LEMMA AddedAgain ==
  ASSUME NEW m \in Nat, NEW s, StoreOf(s, m), Len(s) = MaxFacts, NEW r \in FactRecords,
         \A i \in DOMAIN s : r.id < s[i].id
  PROVE  Added(s, r) = s
<1>. DEFINE all == Append(s, r)
            u == Sorted(all, ByMaking(all))
            n == Len(s)
<1>1. s \in Seq(FactRecords) /\ n \in Nat /\ n = MaxFacts /\ DOMAIN s = 1..n /\ Ageing(s)
  BY DEF StoreOf
<1>2. Len(all) = n + 1
  BY <1>1
<1>3. u \in Seq(FactRecords) /\ Len(u) = n + 1 /\ \A k \in 1..n : u[k + 1] = s[k]
  BY <1>1, SortedFirst
<1>4. Added(s, r) = SubSeq(u, 2, n + 1)
  <2>1. Added(s, r) = SubSeq(u, Len(all) - MaxFacts + 1, Len(all))
    BY <1>1, DurableAssumption DEF Added
  <2>. HIDE DEF u, all
  <2>2. Len(all) - MaxFacts + 1 = 2
    BY <1>1, <1>2
  <2>. QED
    BY <1>2, <2>1, <2>2
<1>. HIDE DEF u, all
<1>. DEFINE t == SubSeq(u, 2, n + 1)
<1>5. /\ t \in Seq(FactRecords)
      /\ Len(t) = IF 2 <= n + 1 THEN (n + 1) - 2 + 1 ELSE 0
      /\ \A i \in 1..((n + 1) - 2 + 1) : t[i] = u[2 + i - 1]
  <2>1. 2 \in Int /\ n + 1 \in Int /\ \A i \in 2..(n + 1) : u[i] \in FactRecords
    BY <1>1, <1>3
  <2>. QED
    BY <1>3, <2>1, SubSeqProperties
<1>. HIDE DEF t
<1>6. n >= 1
  BY <1>1, DurableAssumption
<1>7. Len(t) = n
  BY <1>1, <1>5, <1>6
<1>8. ASSUME NEW i \in 1..n PROVE t[i] = s[i]
  <2>1. i \in 1..((n + 1) - 2 + 1) /\ 2 + i - 1 = i + 1
    BY <1>1
  <2>. QED
    BY <1>3, <1>5, <2>1
<1>9. t = s
  BY <1>1, <1>5, <1>7, <1>8, SeqEqual
<1>. QED
  BY <1>4, <1>9 DEF t

(* What the properties say of a store, but for some records.                *)
OnceIn(s) ==
  \A i, j \in DOMAIN s :
    /\ s[i].status = "active" /\ s[j].status = "active" /\ s[i].says = s[j].says
    => i = j
MutualBut(s, X) ==
  \A i, j \in DOMAIN s : s[j].conflict = s[i].id => s[i].conflict # None \/ s[i].id \in X
SucceededBut(s, X) ==
  \A i \in DOMAIN s : s[i].status = "superseded" =>
    (\E j \in DOMAIN s : s[j].supersedes = s[i].id) \/ s[i].id \in X
CarriedIn(s, n) ==
  Len(s) < MaxFacts =>
    \A k \in 1..n : \E i \in DOMAIN s : Tokens(LegacyNotes[k]) \subseteq Tokens(s[i].says)

(* Where the records of a store come from that got one more.                *)
LEMMA LongerPlaces ==
  ASSUME NEW m \in Nat, NEW s, StoreOf(s, m), NEW r \in FactRecords, NEW t, NEW d, Longer(t, s, r, d)
  PROVE  /\ t \in Seq(FactRecords) /\ Len(t) \in 1..MaxFacts /\ t[Len(t)] = r
         /\ \A k \in DOMAIN t : k = Len(t) \/ (k + d \in DOMAIN s /\ t[k] = s[k + d] /\ k < Len(t))
         /\ \A i \in DOMAIN s :
              (i - d \in DOMAIN t /\ i - d < Len(t) /\ t[i - d] = s[i]) \/ (i = 1 /\ d = 1)
         /\ (Len(t) < MaxFacts => d = 0)
<1>1. /\ s \in Seq(FactRecords) /\ Len(s) \in Nat /\ Len(s) <= MaxFacts /\ DOMAIN s = 1..Len(s)
      /\ MaxFacts \in Nat \ {0}
  BY DurableAssumption DEF StoreOf
<1>2. /\ t \in Seq(FactRecords) /\ d \in {0, 1} /\ (d = 1 <=> Len(s) = MaxFacts)
      /\ Len(t) = Len(s) + 1 - d /\ t[Len(t)] = r
      /\ \A k \in 1..(Len(t) - 1) : k + d \in 1..Len(s) /\ t[k] = s[k + d]
  BY DEF Longer
<1>3. DOMAIN t = 1..Len(t) /\ Len(t) \in Nat
  BY <1>2
<1>a. /\ Len(s) \in Nat /\ Len(s) <= MaxFacts /\ MaxFacts \in Nat \ {0} /\ d \in {0, 1}
      /\ (d = 1 <=> Len(s) = MaxFacts) /\ Len(t) = Len(s) + 1 - d /\ Len(t) \in Nat
  BY <1>1, <1>2, <1>3
<1>4. Len(t) \in 1..MaxFacts /\ (Len(t) < MaxFacts => d = 0)
  BY ONLY <1>a
<1>5. ASSUME NEW k \in DOMAIN t, k # Len(t) PROVE k + d \in DOMAIN s /\ t[k] = s[k + d] /\ k < Len(t)
  <2>1. k \in 1..Len(t)
    BY <1>3
  <2>2. k \in 1..(Len(t) - 1) /\ k < Len(t)
    BY ONLY <1>a, <1>5, <2>1
  <2>3. k + d \in 1..Len(s) /\ t[k] = s[k + d]
    BY <1>2, <2>2
  <2>. QED
    BY ONLY <1>1, <2>2, <2>3
<1>6. ASSUME NEW i \in DOMAIN s, ~(i = 1 /\ d = 1)
      PROVE  i - d \in DOMAIN t /\ i - d < Len(t) /\ t[i - d] = s[i]
  <2>0. i \in 1..Len(s)
    BY <1>1
  <2>1. i - d \in 1..(Len(t) - 1) /\ (i - d) + d = i
    BY ONLY <1>a, <1>6, <2>0
  <2>2. t[i - d] = s[(i - d) + d]
    BY <1>2, <2>1
  <2>3. i - d \in 1..Len(t) /\ i - d < Len(t)
    BY <1>3, <2>1
  <2>. QED
    BY <1>3, <2>1, <2>2, <2>3
<1>. QED
  BY <1>2, <1>4, <1>5, <1>6

LEMMA LongerIsStore ==
  ASSUME NEW m \in Nat, NEW s, StoreOf(s, m), NEW r \in FactRecords, NEW t, NEW d, Longer(t, s, r, d),
         r.id = m + 1, r.supersedes \in 0..m, r.conflict \in 0..m
  PROVE  StoreOf(t, m + 1)
<1>1. /\ t \in Seq(FactRecords) /\ Len(t) \in 1..MaxFacts /\ t[Len(t)] = r
      /\ \A k \in DOMAIN t : k = Len(t) \/ (k + d \in DOMAIN s /\ t[k] = s[k + d] /\ k < Len(t))
  BY LongerPlaces
<1>2. MaxFacts \in Nat /\ d \in {0, 1} /\ DOMAIN t = 1..Len(t)
  BY <1>1, DurableAssumption DEF Longer
<1>3. \A i \in DOMAIN s : s[i].id \in 1..m /\ Pointing(s[i], m)
  BY DEF StoreOf, Pointing
<1>4. ASSUME NEW k \in DOMAIN t PROVE Pointing(t[k], m + 1)
  <2>1. CASE k = Len(t)
    BY <1>1, <2>1 DEF Pointing
  <2>2. CASE k + d \in DOMAIN s /\ t[k] = s[k + d]
    <3>1. Pointing(t[k], m)
      BY <1>3, <2>2
    <3>. QED
      BY <3>1 DEF Pointing
  <2>. QED
    BY <1>1, <2>1, <2>2
<1>5. ASSUME NEW k \in DOMAIN t, NEW l \in DOMAIN t PROVE k < l <=> t[k].id < t[l].id
  <2>0. k \in Nat /\ l \in Nat /\ d \in Nat /\ Len(t) \in Nat
    BY <1>1, <1>2
  <2>1. CASE k < Len(t) /\ l < Len(t)
    <3>1. k + d \in DOMAIN s /\ l + d \in DOMAIN s /\ t[k] = s[k + d] /\ t[l] = s[l + d]
      BY <1>1, <2>0, <2>1
    <3>2. k + d < l + d <=> s[k + d].id < s[l + d].id
      BY <3>1 DEF StoreOf, Ageing
    <3>3. k + d < l + d <=> k < l
      BY <2>0
    <3>. QED
      BY <3>1, <3>2, <3>3
  <2>2. CASE k = Len(t) /\ l < Len(t)
    <3>1. l + d \in DOMAIN s /\ t[l] = s[l + d]
      BY <1>1, <2>0, <2>2
    <3>2. t[l].id \in 1..m /\ t[k].id = m + 1
      BY <1>1, <1>3, <2>2, <3>1
    <3>. QED
      BY <2>0, <2>2, <3>2
  <2>3. CASE k < Len(t) /\ l = Len(t)
    <3>1. k + d \in DOMAIN s /\ t[k] = s[k + d]
      BY <1>1, <2>0, <2>3
    <3>2. t[k].id \in 1..m /\ t[l].id = m + 1
      BY <1>1, <1>3, <2>3, <3>1
    <3>. QED
      BY <2>0, <2>3, <3>2
  <2>4. CASE k = Len(t) /\ l = Len(t)
    <3>1. t[k].id = t[l].id /\ t[k].id = m + 1
      BY <1>1, <2>4
    <3>. QED
      BY <2>0, <2>4, <3>1
  <2>. QED
    BY <1>2, <2>0, <2>1, <2>2, <2>3, <2>4
<1>6. Ageing(t)
  BY <1>5 DEF Ageing
<1>7. Len(t) <= MaxFacts
  BY <1>1, <1>2
<1>. QED
  BY <1>1, <1>4, <1>6, <1>7 DEF StoreOf

LEMMA LongerOnce ==
  ASSUME NEW m \in Nat, NEW s, StoreOf(s, m), NEW r \in FactRecords, NEW t, NEW d, Longer(t, s, r, d),
         OnceIn(s), \A i \in DOMAIN s : s[i].status = "active" => s[i].says # r.says
  PROVE  OnceIn(t)
<1>1. /\ t \in Seq(FactRecords) /\ Len(t) \in 1..MaxFacts /\ t[Len(t)] = r
      /\ \A k \in DOMAIN t : k = Len(t) \/ (k + d \in DOMAIN s /\ t[k] = s[k + d] /\ k < Len(t))
  BY LongerPlaces
<1>2. d \in {0, 1} /\ DOMAIN t = 1..Len(t)
  BY <1>1 DEF Longer
<1>. SUFFICES ASSUME NEW k \in DOMAIN t, NEW l \in DOMAIN t,
                     t[k].status = "active", t[l].status = "active", t[k].says = t[l].says
              PROVE  k = l
  BY DEF OnceIn
<1>3. CASE k # Len(t) /\ l # Len(t)
  <2>1. k + d \in DOMAIN s /\ l + d \in DOMAIN s /\ t[k] = s[k + d] /\ t[l] = s[l + d]
    BY <1>1, <1>3
  <2>2. k + d = l + d
    BY <2>1 DEF OnceIn
  <2>3. k \in Int /\ l \in Int /\ d \in Int
    BY <1>2
  <2>. QED
    BY ONLY <2>2, <2>3
<1>4. CASE k = Len(t) /\ l # Len(t)
  BY <1>1, <1>4
<1>5. CASE k # Len(t) /\ l = Len(t)
  BY <1>1, <1>5
<1>. QED
  BY <1>3, <1>4, <1>5

LEMMA LongerMutual ==
  ASSUME NEW m \in Nat, NEW s, StoreOf(s, m), NEW r \in FactRecords, NEW t, NEW d, Longer(t, s, r, d),
         r.id = m + 1, NEW X, MutualBut(s, X), r.conflict \in X \cup {None}, r.conflict # r.id
  PROVE  MutualBut(t, X)
<1>1. /\ t[Len(t)] = r
      /\ \A k \in DOMAIN t : k = Len(t) \/ (k + d \in DOMAIN s /\ t[k] = s[k + d] /\ k < Len(t))
  BY LongerPlaces
<1>2. \A i \in DOMAIN s : s[i].id \in 1..m /\ s[i].conflict \in 0..m
  BY DEF StoreOf, Pointing
<1>. SUFFICES ASSUME NEW k \in DOMAIN t, NEW l \in DOMAIN t, t[l].conflict = t[k].id
              PROVE  t[k].conflict # None \/ t[k].id \in X
  BY DEF MutualBut
<1>3. CASE k # Len(t) /\ l # Len(t)
  <2>1. k + d \in DOMAIN s /\ l + d \in DOMAIN s /\ t[k] = s[k + d] /\ t[l] = s[l + d]
    BY <1>1, <1>3
  <2>. QED
    BY <2>1 DEF MutualBut
<1>4. CASE k # Len(t) /\ l = Len(t)
  <2>1. k + d \in DOMAIN s /\ t[k] = s[k + d]
    BY <1>1, <1>4
  <2>2. t[k].id \in 1..m /\ t[k].id = r.conflict
    BY <1>1, <1>2, <1>4, <2>1
  <2>. QED
    BY <2>2 DEF None
<1>5. CASE k = Len(t) /\ l # Len(t)
  <2>1. l + d \in DOMAIN s /\ t[l] = s[l + d]
    BY <1>1, <1>5
  <2>2. m + 1 \in 0..m
    BY <1>1, <1>2, <1>5, <2>1
  <2>. QED
    BY <2>2
<1>6. CASE k = Len(t) /\ l = Len(t)
  BY <1>1, <1>6
<1>. QED
  BY <1>3, <1>4, <1>5, <1>6

LEMMA LongerSucceeded ==
  ASSUME NEW m \in Nat, NEW s, StoreOf(s, m), NEW r \in FactRecords, NEW t, NEW d, Longer(t, s, r, d),
         r.status = "active", NEW X, NEW Y, SucceededBut(s, X), X \subseteq Y \cup {r.supersedes}
  PROVE  SucceededBut(t, Y)
<1>1. /\ t \in Seq(FactRecords) /\ Len(t) \in 1..MaxFacts /\ t[Len(t)] = r
      /\ \A k \in DOMAIN t : k = Len(t) \/ (k + d \in DOMAIN s /\ t[k] = s[k + d] /\ k < Len(t))
      /\ \A i \in DOMAIN s :
           (i - d \in DOMAIN t /\ i - d < Len(t) /\ t[i - d] = s[i]) \/ (i = 1 /\ d = 1)
  BY LongerPlaces
<1>2. \A i \in DOMAIN s : s[i].id \in Nat /\ s[i].supersedes \in 0..(s[i].id - 1)
  BY DEF StoreOf, Pointing
<1>3. d \in {0, 1} /\ DOMAIN t = 1..Len(t) /\ Len(t) \in DOMAIN t
  BY <1>1 DEF Longer
<1>. SUFFICES ASSUME NEW k \in DOMAIN t, t[k].status = "superseded"
              PROVE  (\E j \in DOMAIN t : t[j].supersedes = t[k].id) \/ t[k].id \in Y
  BY DEF SucceededBut
<1>4. k # Len(t)
  BY <1>1
<1>5. k + d \in DOMAIN s /\ t[k] = s[k + d]
  BY <1>1, <1>4
<1>6. CASE s[k + d].id \in X
  BY <1>1, <1>3, <1>5, <1>6
<1>7. CASE \E j \in DOMAIN s : s[j].supersedes = s[k + d].id
  <2>1. PICK j \in DOMAIN s : s[j].supersedes = s[k + d].id
    BY <1>7
  <2>2. s[k + d].id < s[j].id
    BY <1>2, <1>5, <2>1
  <2>3. k + d < j
    BY <1>5, <2>1, <2>2 DEF StoreOf, Ageing
  <2>4. ~(j = 1 /\ d = 1)
    BY <1>3, <1>5, <2>3
  <2>5. j - d \in DOMAIN t /\ t[j - d] = s[j]
    BY <1>1, <2>1, <2>4
  <2>. QED
    BY <1>5, <2>1, <2>5
<1>. QED
  BY <1>5, <1>6, <1>7 DEF SucceededBut

LEMMA LongerCarried ==
  ASSUME NEW m \in Nat, NEW s, StoreOf(s, m), NEW r \in FactRecords, NEW t, NEW d, Longer(t, s, r, d),
         NEW n \in Nat, CarriedIn(s, n)
  PROVE  /\ CarriedIn(t, n)
         /\ n + 1 \in DOMAIN LegacyNotes /\ r.says = LegacyNotes[n + 1] => CarriedIn(t, n + 1)
<1>1. /\ t \in Seq(FactRecords) /\ Len(t) \in 1..MaxFacts /\ t[Len(t)] = r
      /\ \A i \in DOMAIN s :
           (i - d \in DOMAIN t /\ i - d < Len(t) /\ t[i - d] = s[i]) \/ (i = 1 /\ d = 1)
      /\ (Len(t) < MaxFacts => d = 0)
  BY LongerPlaces
<1>2. SUFFICES ASSUME Len(t) < MaxFacts
      PROVE  /\ \A k \in 1..n : \E i \in DOMAIN t :
                  Tokens(LegacyNotes[k]) \subseteq Tokens(t[i].says)
             /\ r.says = LegacyNotes[n + 1] =>
                  \E i \in DOMAIN t : Tokens(LegacyNotes[n + 1]) \subseteq Tokens(t[i].says)
  <2>1. \A k \in 1..(n + 1) : k \in 1..n \/ k = n + 1
    OBVIOUS
  <2>. QED
    BY <1>2, <2>1 DEF CarriedIn
<1>3. d = 0 /\ Len(s) < MaxFacts
  <2>1. d = 0 /\ Len(s) # MaxFacts
    BY <1>1, <1>2 DEF Longer
  <2>2. Len(s) \in Nat /\ Len(s) <= MaxFacts /\ MaxFacts \in Nat
    BY DurableAssumption DEF StoreOf
  <2>. QED
    BY <2>1, <2>2
<1>4. ASSUME NEW k \in 1..n
      PROVE  \E i \in DOMAIN t : Tokens(LegacyNotes[k]) \subseteq Tokens(t[i].says)
  <2>1. PICK i \in DOMAIN s : Tokens(LegacyNotes[k]) \subseteq Tokens(s[i].says)
    BY <1>3 DEF CarriedIn
  <2>2. i - d \in DOMAIN t /\ t[i - d] = s[i]
    BY <1>1, <1>3
  <2>. QED
    BY <2>1, <2>2
<1>5. Len(t) \in DOMAIN t
  BY <1>1
<1>. QED
  BY <1>1, <1>4, <1>5

(* The first of the greatest fractions.                                     *)
LEMMA Fractions ==
  ASSUME NEW x1 \in Nat, NEW y1 \in Nat \ {0}, NEW x2 \in Nat, NEW y2 \in Nat \ {0},
         NEW x3 \in Nat, NEW y3 \in Nat \ {0}, x1 * y2 <= x2 * y1, x2 * y3 < x3 * y2
  PROVE  x1 * y3 < x3 * y1
<1>0. /\ x1 * y2 \in Nat /\ x2 * y1 \in Nat /\ x2 * y3 \in Nat /\ x3 * y2 \in Nat
      /\ x1 * y3 \in Nat /\ x3 * y1 \in Nat
  OBVIOUS
<1>1. \A a, b, c \in Nat : a <= b => a * c <= b * c
  OBVIOUS
<1>2. \A a, b \in Nat : \A c \in Nat \ {0} : a < b => a * c < b * c
  OBVIOUS
<1>3. (x1 * y2) * y3 <= (x2 * y1) * y3
  BY <1>0, <1>1
<1>4. (x2 * y3) * y1 < (x3 * y2) * y1
  BY <1>0, <1>2
<1>5. /\ (x1 * y2) * y3 = (x1 * y3) * y2 /\ (x2 * y1) * y3 = (x2 * y3) * y1
      /\ (x3 * y2) * y1 = (x3 * y1) * y2
  OBVIOUS
<1>6. (x1 * y3) * y2 < (x3 * y1) * y2
  <2>1. (x1 * y2) * y3 \in Nat /\ (x2 * y1) * y3 \in Nat /\ (x3 * y2) * y1 \in Nat
    BY <1>0
  <2>. QED
    BY ONLY <1>3, <1>4, <1>5, <2>1
<1>7. ~(x3 * y1 <= x1 * y3)
  <2>1. ASSUME x3 * y1 <= x1 * y3 PROVE FALSE
    <3>1. (x3 * y1) * y2 <= (x1 * y3) * y2
      BY <1>0, <1>1, <2>1
    <3>2. (x3 * y1) * y2 \in Nat /\ (x1 * y3) * y2 \in Nat
      BY <1>0
    <3>. QED
      BY ONLY <1>6, <3>1, <3>2
  <2>. QED
    BY <2>1
<1>. QED
  BY ONLY <1>0, <1>7

Top(i, S, x, y) ==
  \A j \in S : ~(x[j] * y[i] > x[i] * y[j]) /\ (j < i => x[i] * y[j] > x[j] * y[i])

LEMMA TopThere ==
  ASSUME NEW n \in Nat, NEW S, S \subseteq 1..n, S # {},
         NEW x \in [S -> Nat], NEW y \in [S -> Nat \ {0}]
  PROVE  \E i \in S : Top(i, S, x, y)
<1>. DEFINE Up(m) == S \cap (1..m)
            T == {m \in 0..n : Up(m) = {} \/ \E i \in Up(m) : Top(i, Up(m), x, y)}
<1>1. 0 \in T
  OBVIOUS
<1>2. ASSUME NEW m \in 1..n, m - 1 \in T PROVE m \in T
  <2>1. CASE m \notin S
    <3>1. Up(m) = Up(m - 1)
      BY <2>1
    <3>. HIDE DEF Up
    <3>. QED
      BY <1>2, <3>1
  <2>2. CASE m \in S /\ Up(m - 1) = {}
    <3>1. Up(m) = {m} /\ m \in Up(m)
      BY <2>2
    <3>2. x[m] * y[m] \in Nat /\ ~(x[m] * y[m] > x[m] * y[m]) /\ ~(m < m)
      BY <2>2
    <3>3. Top(m, Up(m), x, y)
      <4>. HIDE DEF Up
      <4>. QED
        BY <3>1, <3>2 DEF Top
    <3>. HIDE DEF Up
    <3>. QED
      BY <3>1, <3>3
  <2>3. CASE m \in S /\ Up(m - 1) # {}
    <3>1. PICK b \in Up(m - 1) : Top(b, Up(m - 1), x, y)
      BY <1>2, <2>3
    <3>2. Up(m) = Up(m - 1) \cup {m} /\ b \in S /\ b < m /\ m \in Up(m) /\ b \in Up(m)
      BY <2>3
    <3>3. \A j \in Up(m - 1) : j \in S /\ j < m /\ j \in Nat
      OBVIOUS
    <3>4. \A j \in S : x[j] \in Nat /\ y[j] \in Nat \ {0}
      OBVIOUS
    <3>5. \A i, j \in S : x[i] * y[j] \in Nat
      BY <3>4
    <3>. HIDE DEF Up
    <3>6. CASE x[m] * y[b] > x[b] * y[m]
      <4>1. ASSUME NEW j \in Up(m - 1) PROVE x[m] * y[j] > x[j] * y[m]
        <5>1. j \in S /\ ~(x[j] * y[b] > x[b] * y[j])
          BY <3>1, <3>3 DEF Top
        <5>2. /\ x[j] * y[b] \in Nat /\ x[b] * y[j] \in Nat /\ x[m] * y[b] \in Nat
              /\ x[b] * y[m] \in Nat /\ x[j] * y[m] \in Nat /\ x[m] * y[j] \in Nat
          BY <2>3, <3>2, <3>5, <5>1
        <5>3. x[j] * y[b] <= x[b] * y[j] /\ x[b] * y[m] < x[m] * y[b]
          BY ONLY <3>6, <5>1, <5>2
        <5>4. /\ x[j] \in Nat /\ y[j] \in Nat \ {0} /\ x[b] \in Nat /\ y[b] \in Nat \ {0}
              /\ x[m] \in Nat /\ y[m] \in Nat \ {0}
          BY <2>3, <3>2, <3>4, <5>1
        <5>5. x[j] * y[m] < x[m] * y[j]
          BY ONLY <5>3, <5>4, Fractions
        <5>. QED
          BY ONLY <5>2, <5>5
      <4>2. ASSUME NEW j \in Up(m)
            PROVE  ~(x[j] * y[m] > x[m] * y[j]) /\ (j < m => x[m] * y[j] > x[j] * y[m])
        <5>1. CASE j = m
          <6>1. x[m] * y[m] \in Nat /\ m \in Nat
            BY <2>3, <3>5
          <6>. QED
            BY ONLY <5>1, <6>1
        <5>2. CASE j \in Up(m - 1)
          <6>1. x[j] * y[m] \in Nat /\ x[m] * y[j] \in Nat
            BY <2>3, <3>3, <3>5, <5>2
          <6>2. x[m] * y[j] > x[j] * y[m]
            BY <4>1, <5>2
          <6>. QED
            BY ONLY <6>1, <6>2
        <5>. QED
          BY <3>2, <5>1, <5>2
      <4>3. Top(m, Up(m), x, y)
        BY <4>2 DEF Top
      <4>4. \E i \in Up(m) : Top(i, Up(m), x, y)
        BY <3>2, <4>3
      <4>. QED
        BY <4>4
    <3>7. CASE ~(x[m] * y[b] > x[b] * y[m])
      <4>1. ASSUME NEW j \in Up(m)
            PROVE  ~(x[j] * y[b] > x[b] * y[j]) /\ (j < b => x[b] * y[j] > x[j] * y[b])
        <5>1. CASE j = m
          <6>1. ~(m < b)
            <7>1. m \in Int /\ b \in Int /\ b < m
              BY <3>2, <3>3
            <7>. QED
              BY ONLY <7>1
          <6>. QED
            BY <3>7, <5>1, <6>1
        <5>2. CASE j \in Up(m - 1)
          BY <3>1, <5>2 DEF Top
        <5>. QED
          BY <3>2, <5>1, <5>2
      <4>2. Top(b, Up(m), x, y)
        BY <4>1 DEF Top
      <4>. QED
        BY <3>2, <4>2
    <3>. QED
      BY <3>6, <3>7
  <2>. QED
    BY <2>1, <2>2, <2>3
<1>3. n \in T
  <2>1. \A k \in 1..n : k - 1 \in T => k \in T
    BY <1>2
  <2>. HIDE DEF T
  <2>2. \A k \in 0..n : k \in T
    BY <1>1, <2>1, CountUp
  <2>. QED
    BY <2>2
<1>4. Up(n) = S
  OBVIOUS
<1>. HIDE DEF Up
<1>. QED
  BY <1>3, <1>4

LEMMA BestIsActive ==
  ASSUME NEW m \in Nat, NEW store, StoreOf(store, m), NEW s \in Statements, Best(store, s) # None
  PROVE  Best(store, s) \in Active(store, s.topic)
<1>. DEFINE S == {i \in Active(store, s.topic) : Shared(s, store[i].says) > 0}
            x == [i \in S |-> Shared(s, store[i].says)]
            y == [i \in S |-> Shorter(s, store[i].says)]
            n == Len(store)
<1>1. store \in Seq(FactRecords) /\ n \in Nat /\ DOMAIN store = 1..n
  BY DEF StoreOf
<1>2. S \subseteq 1..n /\ S # {}
  BY <1>1 DEF Active, Best
<1>3. \A i \in S : store[i].says \in Statements
  <2>1. \A i \in S : store[i] \in FactRecords
    BY <1>1, <1>2
  <2>. QED
    BY <2>1 DEF FactRecords
<1>4. \A t \in Statements : IsFiniteSet(Tokens(t)) /\ Cardinality(Tokens(t)) \in Nat
  BY DurableAssumption, FS_Union, FS_CardinalityType DEF Tokens
<1>5. ASSUME NEW t \in Statements
      PROVE  Shared(s, t) \in Nat /\ Shorter(s, t) \in Nat
             /\ (Shared(s, t) > 0 => Shorter(s, t) # 0)
  <2>. DEFINE a == Tokens(s)
              b == Tokens(t)
  <2>1. IsFiniteSet(a) /\ IsFiniteSet(b) /\ Cardinality(a) \in Nat /\ Cardinality(b) \in Nat
    BY <1>4
  <2>. HIDE DEF a, b
  <2>2. /\ IsFiniteSet(a \cap b) /\ Cardinality(a \cap b) <= Cardinality(a)
        /\ Cardinality(a \cap b) \in Nat
    BY <2>1, FS_Subset, FS_CardinalityType
  <2>3. Cardinality(a \cap b) <= Cardinality(b)
    BY <2>1, FS_Subset
  <2>4. Shared(s, t) = Cardinality(a \cap b)
    BY DEF Shared, a, b
  <2>5. Shorter(s, t) = Cardinality(a) \/ Shorter(s, t) = Cardinality(b)
    BY DEF Shorter, LesserOf, a, b
  <2>. QED
    BY ONLY <2>1, <2>2, <2>3, <2>4, <2>5
<1>. HIDE DEF S
<1>6. \A i \in S : Shared(s, store[i].says) > 0
  BY DEF S
<1>7. x \in [S -> Nat] /\ y \in [S -> Nat \ {0}]
  BY <1>3, <1>5, <1>6
<1>8. PICK i \in S : Top(i, S, x, y)
  <2>. HIDE DEF x, y, n
  <2>. QED
    BY <1>1, <1>2, <1>7, TopThere
<1>9. \A j \in S : /\ ~CloserTo(s, store[j].says, store[i].says)
                   /\ j < i => CloserTo(s, store[i].says, store[j].says)
  BY <1>8 DEF Top, CloserTo
<1>10. Best(store, s) = CHOOSE k \in S : \A j \in S :
         /\ ~CloserTo(s, store[j].says, store[k].says)
         /\ j < k => CloserTo(s, store[k].says, store[j].says)
  BY <1>2 DEF Best, S
<1>11. Best(store, s) \in S
  BY <1>9, <1>10
<1>. QED
  BY <1>11 DEF S

LEMMA FirstRival ==
  ASSUME NEW m \in Nat, NEW store, StoreOf(store, m), NEW s, SameSubject(store, s) # {}
  PROVE  Min(SameSubject(store, s)) \in Active(store, s.topic)
<1>. DEFINE S == SameSubject(store, s)
<1>1. S \subseteq Nat /\ S \subseteq Active(store, s.topic)
  BY DEF SameSubject, Active, StoreOf
<1>2. \E k \in S : \A l \in S : k <= l
  <2>1. S # {}
    OBVIOUS
  <2>. HIDE DEF S
  <2>. QED
    BY <1>1, <2>1, LeastNumber
<1>3. Min(S) \in S
  BY <1>2 DEF Min
<1>. QED
  BY <1>1, <1>3

(* A record of a store takes another form.                                  *)
LEMMA Rewritten ==
  ASSUME NEW m \in Nat, NEW s, StoreOf(s, m), NEW k \in DOMAIN s, NEW e \in FactRecords,
         e.id = s[k].id, Pointing(e, m)
  PROVE  /\ StoreOf([s EXCEPT ![k] = e], m) /\ Len([s EXCEPT ![k] = e]) = Len(s)
         /\ DOMAIN [s EXCEPT ![k] = e] = DOMAIN s
         /\ \A i \in DOMAIN s : [s EXCEPT ![k] = e][i] = IF i = k THEN e ELSE s[i]
<1>. DEFINE t == [s EXCEPT ![k] = e]
<1>1. s \in Seq(FactRecords)
  BY DEF StoreOf
<1>2. t \in Seq(FactRecords) /\ Len(t) = Len(s)
  BY <1>1
<1>3. DOMAIN t = DOMAIN s /\ \A i \in DOMAIN s : t[i] = IF i = k THEN e ELSE s[i]
  OBVIOUS
<1>. HIDE DEF t
<1>4. \A i \in DOMAIN s : t[i].id = s[i].id /\ Pointing(t[i], m)
  BY <1>3 DEF StoreOf
<1>5. Ageing(t)
  BY <1>3, <1>4 DEF StoreOf, Ageing
<1>6. StoreOf(t, m)
  BY <1>2, <1>3, <1>4, <1>5 DEF StoreOf
<1>. QED
  BY <1>2, <1>3, <1>6 DEF t

Notes == Len(LegacyNotes)
MarkedOld == IF half.kind = "mark" THEN {half.old.id} ELSE {}
RetiredOld == IF half.kind = "add" THEN {half.old.id} ELSE {}

(* Between the two writes of a consolidation.                               *)
HalfOK ==
  /\ batch # <<>> /\ half.old \in FactRecords /\ Pointing(half.old, factsMade)
  /\ \/ /\ half.kind = "add" /\ factsMade < MaxMade
        /\ \A i \in DOMAIN facts : facts[i].status = "active" => facts[i].says # Said
     \/ /\ half.kind = "mark" /\ half.old.status = "active" /\ half.new \in 1..factsMade
        /\ \E i \in DOMAIN facts : facts[i].id = half.new /\ facts[i].conflict # None
        /\ \A i \in DOMAIN facts : facts[i].id = half.old.id => facts[i] = half.old
        /\ \/ Holds(facts, half.old.id)
           \/ Len(facts) = MaxFacts /\ \A i \in DOMAIN facts : half.old.id < facts[i].id

(* The notes of the older memory are being moved.                           *)
MovingOK ==
  /\ migration.open /\ ~migrated /\ batch = <<>> /\ half = NoHalf
  /\ migration = [open |-> TRUE, left |-> migration.left]
  /\ migration.left \in Seq(Statements) /\ Len(migration.left) <= Notes
  /\ \A k \in DOMAIN migration.left :
       migration.left[k] = LegacyNotes[Notes - Len(migration.left) + k]
  /\ \A i \in DOMAIN factFile : factFile[i].status = "active" /\ factFile[i].conflict = None
  /\ repeated \/ \A i \in DOMAIN factFile :
       \E n \in 1..(Notes - Len(migration.left)) : factFile[i].says = LegacyNotes[n]
  /\ CarriedIn(factFile, Notes - Len(migration.left))

MovedOK ==
  /\ migration = Closed /\ migrated /\ facts = factFile /\ CarriedIn(factFile, Notes)
  /\ half = NoHalf \/ HalfOK

DurableInv ==
  /\ factsMade \in 0..MaxMade /\ StoreOf(facts, factsMade) /\ StoreOf(factFile, factsMade)
  /\ batch \in Seq(MemoryCandidates) /\ cut \subseteq 1..factsMade
  /\ repeated \in BOOLEAN /\ migrated \in BOOLEAN
  /\ MovingOK \/ MovedOK
  /\ repeated \/ ~IsInjective(LegacyNotes) \/ (OnceIn(facts) /\ OnceIn(factFile))
  /\ MutualBut(facts, cut \cup MarkedOld) /\ SucceededBut(facts, cut \cup RetiredOld)

(* A consolidation writes the store t, of which m records were made.        *)
LEMMA Saved ==
  ASSUME DurableInv, ~migration.open, UNCHANGED openVars, NEW t, Save(t), cut' = cut,
         factsMade' \in 0..MaxMade, StoreOf(t, factsMade'), batch' \in Seq(MemoryCandidates),
         factsMade <= factsMade',
         OnceIn(facts) => OnceIn(t), CarriedIn(t, Notes),
         MutualBut(t, cut \cup MarkedOld'), SucceededBut(t, cut \cup RetiredOld'),
         half' = NoHalf \/ HalfOK'
  PROVE  DurableInv'
<1>1. MovedOK
  BY DEF DurableInv, MovingOK
<1>2. /\ facts' = t /\ factFile' = t /\ migration' = migration /\ migrated' = migrated
      /\ repeated' = repeated
  BY DEF Save, openVars
<1>3. MovedOK'
  BY <1>1, <1>2 DEF MovedOK, Closed
<1>4. repeated' \/ ~IsInjective(LegacyNotes) \/ (OnceIn(facts') /\ OnceIn(factFile'))
  BY <1>1, <1>2 DEF DurableInv, MovedOK
<1>5. cut' \subseteq 1..factsMade'
  <2>1. factsMade \in Nat /\ factsMade' \in Nat
    BY DurableAssumption DEF DurableInv
  <2>2. 1..factsMade \subseteq 1..factsMade'
    BY ONLY <2>1, factsMade <= factsMade'
  <2>. QED
    BY <2>2 DEF DurableInv
<1>6. repeated' \in BOOLEAN /\ migrated' \in BOOLEAN
  BY <1>2 DEF DurableInv
<1>7. MutualBut(facts', cut' \cup MarkedOld') /\ SucceededBut(facts', cut' \cup RetiredOld')
  BY <1>2
<1>8. StoreOf(facts', factsMade') /\ StoreOf(factFile', factsMade')
  BY <1>2
<1>. QED
  BY <1>3, <1>4, <1>5, <1>6, <1>7, <1>8 DEF DurableInv

(* What a candidate that is due says, and what the store holds.             *)
LEMMA Due ==
  ASSUME DurableInv, Ready
  PROVE  /\ MovedOK /\ ~migration.open /\ factsMade \in Nat /\ half = NoHalf
         /\ Said \in Statements /\ Tail(batch) \in Seq(MemoryCandidates)
         /\ batch \in Seq(MemoryCandidates) /\ batch # <<>>
         /\ facts \in Seq(FactRecords) /\ StoreOf(facts, factsMade)
         /\ facts = factFile /\ CarriedIn(facts, Notes)
         /\ (repeated \/ ~IsInjective(LegacyNotes) \/ OnceIn(facts))
         /\ MutualBut(facts, cut) /\ SucceededBut(facts, cut)
<1>1. half = NoHalf /\ batch # <<>> /\ batch \in Seq(MemoryCandidates)
  BY DEF Ready, DurableInv
<1>2. MovedOK
  BY <1>1 DEF DurableInv, MovingOK
<1>3. Head(batch) \in MemoryCandidates /\ Tail(batch) \in Seq(MemoryCandidates)
  BY <1>1
<1>4. Said \in Statements
  BY <1>3 DEF Said, MemoryCandidates
<1>5. MarkedOld = {} /\ RetiredOld = {}
  BY <1>1 DEF NoHalf, MarkedOld, RetiredOld
<1>6. MutualBut(facts, cut) /\ SucceededBut(facts, cut)
  BY <1>5 DEF DurableInv, MutualBut, SucceededBut
<1>7. factsMade \in Nat
  BY DurableAssumption DEF DurableInv
<1>8. facts \in Seq(FactRecords)
  BY DEF DurableInv, StoreOf
<1>. QED
  BY <1>1, <1>2, <1>3, <1>4, <1>6, <1>7, <1>8 DEF DurableInv, MovedOK, Closed

LEMMA HalfDue ==
  ASSUME DurableInv, half # NoHalf
  PROVE  /\ MovedOK /\ ~migration.open /\ factsMade \in Nat /\ HalfOK
         /\ Said \in Statements /\ Tail(batch) \in Seq(MemoryCandidates)
         /\ facts \in Seq(FactRecords) /\ StoreOf(facts, factsMade)
         /\ facts = factFile /\ CarriedIn(facts, Notes)
<1>2. MovedOK
  BY DEF DurableInv, MovingOK
<1>1. HalfOK /\ batch # <<>> /\ batch \in Seq(MemoryCandidates)
  BY <1>2 DEF MovedOK, HalfOK, DurableInv
<1>3. Head(batch) \in MemoryCandidates /\ Tail(batch) \in Seq(MemoryCandidates)
  BY <1>1
<1>4. Said \in Statements
  BY <1>3 DEF Said, MemoryCandidates
<1>7. factsMade \in Nat
  BY DurableAssumption DEF DurableInv
<1>8. facts \in Seq(FactRecords)
  BY DEF DurableInv, StoreOf
<1>. QED
  BY <1>1, <1>2, <1>3, <1>4, <1>7, <1>8 DEF DurableInv, MovedOK, Closed

LEMMA NewIs ==
  ASSUME factsMade \in Nat, NEW s \in Statements, NEW v \in 0..factsMade, NEW c \in 0..factsMade
  PROVE  LET r == NewFact(s, v, c) IN
         /\ r \in FactRecords /\ r.id = factsMade + 1 /\ r.says = s /\ r.status = "active"
         /\ r.supersedes = v /\ r.conflict = c /\ factsMade < r.id
BY DEF NewFact, FactRecords

(* A statement that no active record of its topic makes is made by none.    *)
LEMMA Fresh ==
  ASSUME ~Exact PROVE \A i \in DOMAIN facts : facts[i].status = "active" => facts[i].says # Said
BY DEF Exact, Active

LEMMA RivalThere ==
  ASSUME DurableInv, Ready, HasRival
  PROVE  /\ Rival \in DOMAIN facts /\ facts[Rival].status = "active"
         /\ facts[Rival] \in FactRecords /\ Pointing(facts[Rival], factsMade)
<1>1. StoreOf(facts, factsMade) /\ factsMade \in Nat /\ Said \in Statements
  BY Due
<1>2. Rival \in Active(facts, Said.topic)
  <2>1. CASE Rivals # {}
    <3>1. Min(SameSubject(facts, Said)) \in Active(facts, Said.topic)
      BY <1>1, <2>1, FirstRival DEF Rivals
    <3>. QED
      BY <2>1, <3>1 DEF Rival, Rivals
  <2>2. CASE Rivals = {}
    <3>1. BestFact # None
      BY <2>2 DEF HasRival, Contradictory, Near
    <3>2. Best(facts, Said) \in Active(facts, Said.topic)
      BY <1>1, <3>1, BestIsActive DEF BestFact
    <3>. QED
      BY <2>2, <3>2 DEF Rival, BestFact
  <2>. QED
    BY <2>1, <2>2
<1>3. Rival \in DOMAIN facts /\ facts[Rival].status = "active"
  BY <1>2 DEF Active
<1>4. facts \in Seq(FactRecords) /\ Pointing(facts[Rival], factsMade)
  BY <1>1, <1>3 DEF StoreOf
<1>. QED
  BY <1>3, <1>4

LEMMA BestThere ==
  ASSUME DurableInv, Ready, Near
  PROVE  BestFact \in DOMAIN facts
<1>1. StoreOf(facts, factsMade) /\ factsMade \in Nat /\ Said \in Statements
  BY Due
<1>2. Best(facts, Said) \in Active(facts, Said.topic)
  BY <1>1, BestIsActive DEF Near, BestFact
<1>. QED
  BY <1>2 DEF Active, BestFact

-----------------------------------------------------------------------------

LEMMA KeptByTouch == DurableInv /\ TouchDuplicate => DurableInv'
<1>. SUFFICES ASSUME DurableInv, TouchDuplicate PROVE DurableInv'
  OBVIOUS
<1>1. Ready /\ UNCHANGED <<factsMade, half, openVars, cut>> /\ Save(facts) /\ batch' = Tail(batch)
  BY DEF TouchDuplicate
<1>2. /\ ~migration.open /\ half = NoHalf /\ Tail(batch) \in Seq(MemoryCandidates)
      /\ CarriedIn(facts, Notes) /\ MutualBut(facts, cut) /\ SucceededBut(facts, cut)
      /\ factsMade \in Nat
  BY <1>1, Due
<1>3. half' = NoHalf /\ MarkedOld' = {} /\ RetiredOld' = {}
  BY <1>1, <1>2 DEF MarkedOld, RetiredOld, NoHalf
<1>4. MutualBut(facts, cut \cup MarkedOld') /\ SucceededBut(facts, cut \cup RetiredOld')
  BY <1>2, <1>3 DEF MutualBut, SucceededBut
<1>5. factsMade' \in 0..MaxMade /\ StoreOf(facts, factsMade') /\ factsMade <= factsMade'
  BY <1>1, <1>2 DEF DurableInv
<1>. QED
  BY <1>1, <1>2, <1>3, <1>4, <1>5, Saved

LEMMA KeptByRetire == DurableInv /\ RetireRival => DurableInv'
<1>. SUFFICES ASSUME DurableInv, RetireRival PROVE DurableInv'
  OBVIOUS
<1>. DEFINE e == [facts[Rival] EXCEPT !.status = "superseded"]
            t == [facts EXCEPT ![Rival] = e]
<1>1. /\ Ready /\ Supersedes /\ factsMade < MaxMade
      /\ UNCHANGED <<factsMade, batch, openVars, cut>> /\ Save(t)
      /\ half' = [kind |-> "add", old |-> facts[Rival]]
  BY DEF RetireRival
<1>2. /\ ~migration.open /\ half = NoHalf /\ batch \in Seq(MemoryCandidates) /\ batch # <<>>
      /\ CarriedIn(facts, Notes) /\ MutualBut(facts, cut) /\ SucceededBut(facts, cut)
      /\ factsMade \in Nat /\ StoreOf(facts, factsMade)
  BY <1>1, Due
<1>3. /\ Rival \in DOMAIN facts /\ facts[Rival].status = "active"
      /\ facts[Rival] \in FactRecords /\ Pointing(facts[Rival], factsMade)
  BY <1>1, RivalThere DEF Supersedes
<1>4. /\ e \in FactRecords /\ e.id = facts[Rival].id /\ e.status = "superseded"
      /\ e.says = facts[Rival].says /\ e.supersedes = facts[Rival].supersedes
      /\ e.conflict = facts[Rival].conflict
  BY <1>3 DEF FactRecords
<1>. DEFINE k == Rival
<1>. HIDE DEF e, k
<1>5. Pointing(e, factsMade)
  BY <1>3, <1>4 DEF Pointing
<1>6. /\ StoreOf(t, factsMade) /\ Len(t) = Len(facts) /\ DOMAIN t = DOMAIN facts
      /\ \A i \in DOMAIN facts : t[i] = IF i = Rival THEN e ELSE facts[i]
  BY <1>2, <1>3, <1>4, <1>5, Rewritten
<1>. HIDE DEF t
<1>7. \A i \in DOMAIN facts :
        /\ t[i].id = facts[i].id /\ t[i].says = facts[i].says /\ t[i].conflict = facts[i].conflict
        /\ t[i].supersedes = facts[i].supersedes
        /\ t[i].status = IF i = Rival THEN "superseded" ELSE facts[i].status
  BY <1>4, <1>6
<1>8. OnceIn(facts) => OnceIn(t)
  BY <1>3, <1>6, <1>7 DEF OnceIn
<1>9. CarriedIn(t, Notes)
  BY <1>2, <1>6, <1>7 DEF CarriedIn
<1>10. MarkedOld' = {} /\ RetiredOld' = {facts[Rival].id}
  BY <1>1 DEF MarkedOld, RetiredOld
<1>11. MutualBut(t, cut \cup MarkedOld')
  BY <1>2, <1>6, <1>7, <1>10 DEF MutualBut
<1>12. SucceededBut(t, cut \cup RetiredOld')
  <2>1. ASSUME NEW i \in DOMAIN t, t[i].status = "superseded"
        PROVE  (\E j \in DOMAIN t : t[j].supersedes = t[i].id) \/ t[i].id \in cut \cup RetiredOld'
    <3>1. CASE i = Rival
      BY <1>6, <1>7, <1>10, <2>1, <3>1
    <3>2. CASE i # Rival
      <4>1. (\E j \in DOMAIN facts : facts[j].supersedes = facts[i].id) \/ facts[i].id \in cut
        BY <1>2, <1>6, <1>7, <2>1, <3>2 DEF SucceededBut
      <4>. QED
        BY <1>6, <1>7, <2>1, <4>1
    <3>. QED
      BY <3>1, <3>2
  <2>. QED
    BY <2>1 DEF SucceededBut
<1>13. HalfOK'
  <2>1. half'.old = facts[Rival] /\ half'.kind = "add" /\ batch' = batch /\ factsMade' = factsMade
    BY <1>1
  <2>2. facts' = t /\ Said' = Said
    BY <1>1, <2>1 DEF Save, Said
  <2>3. \A i \in DOMAIN facts : facts[i].status = "active" => facts[i].says # Said
    BY <1>1, Fresh DEF Supersedes
  <2>4. \A i \in DOMAIN facts' : facts'[i].status = "active" => facts'[i].says # Said'
    BY <1>6, <1>7, <2>2, <2>3
  <2>5. /\ batch' # <<>> /\ half'.old \in FactRecords /\ Pointing(half'.old, factsMade')
        /\ factsMade' < MaxMade
    BY <1>1, <1>2, <1>3, <2>1
  <2>. QED
    BY <2>1, <2>4, <2>5 DEF HalfOK
<1>14. factsMade' \in 0..MaxMade /\ StoreOf(t, factsMade') /\ factsMade <= factsMade'
       /\ batch' \in Seq(MemoryCandidates)
  BY <1>1, <1>2, <1>6 DEF DurableInv
<1>. QED
  BY <1>1, <1>2, <1>8, <1>9, <1>11, <1>12, <1>13, <1>14, Saved

(* A new record is added to a store of m records.                           *)
LEMMA RecordAddedKeeps ==
  ASSUME NEW m \in Nat, NEW s, StoreOf(s, m), NEW r \in FactRecords, r.id = m + 1,
         r.status = "active", r.supersedes \in 0..m, r.conflict \in 0..m,
         NEW n \in Nat, CarriedIn(s, n)
  PROVE  /\ StoreOf(Added(s, r), m + 1) /\ CarriedIn(Added(s, r), n)
         /\ (OnceIn(s) /\ \A i \in DOMAIN s : s[i].status = "active" => s[i].says # r.says)
              => OnceIn(Added(s, r))
         /\ \A X : MutualBut(s, X) /\ r.conflict \in X \cup {None} => MutualBut(Added(s, r), X)
         /\ \A X, Y : SucceededBut(s, X) /\ X \subseteq Y \cup {r.supersedes}
              => SucceededBut(Added(s, r), Y)
<1>. DEFINE t == Added(s, r)
<1>1. m < r.id /\ r.conflict # r.id
  BY SMT
<1>2. PICK d \in {0, 1} : Longer(t, s, r, d)
  BY <1>1, AddedLonger
<1>. HIDE DEF t
<1>3. StoreOf(t, m + 1)
  BY <1>2, LongerIsStore
<1>4. CarriedIn(t, n)
  BY <1>2, LongerCarried
<1>5. OnceIn(s) /\ (\A i \in DOMAIN s : s[i].status = "active" => s[i].says # r.says) => OnceIn(t)
  BY <1>2, LongerOnce
<1>6. ASSUME NEW X, MutualBut(s, X), r.conflict \in X \cup {None} PROVE MutualBut(t, X)
  BY <1>1, <1>2, <1>6, LongerMutual
<1>7. ASSUME NEW X, NEW Y, SucceededBut(s, X), X \subseteq Y \cup {r.supersedes}
      PROVE  SucceededBut(t, Y)
  BY <1>2, <1>7, LongerSucceeded
<1>. QED
  BY <1>3, <1>4, <1>5, <1>6, <1>7 DEF t

LEMMA NotesNumber == Notes \in Nat /\ LegacyNotes \in Seq(Statements)
BY DurableAssumption DEF Notes

LEMMA KeptBySuccessor == DurableInv /\ AddSuccessor => DurableInv'
<1>. SUFFICES ASSUME DurableInv, AddSuccessor PROVE DurableInv'
  OBVIOUS
<1>. DEFINE r == NewFact(Said, half.old.id, None)
            t == Added(facts, r)
<1>1. /\ half.kind = "add" /\ Save(t) /\ factsMade' = factsMade + 1 /\ half' = NoHalf
      /\ batch' = Tail(batch) /\ UNCHANGED <<openVars, cut>>
  BY DEF AddSuccessor
<1>2. /\ ~migration.open /\ factsMade \in Nat /\ HalfOK /\ Said \in Statements
      /\ Tail(batch) \in Seq(MemoryCandidates) /\ StoreOf(facts, factsMade) /\ CarriedIn(facts, Notes)
  BY <1>1, HalfDue DEF NoHalf
<1>3. half.old.id \in 1..factsMade /\ half.old.id \in 0..factsMade /\ None \in 0..factsMade
      /\ factsMade < MaxMade
      /\ \A i \in DOMAIN facts : facts[i].status = "active" => facts[i].says # Said
  BY <1>1, <1>2 DEF HalfOK, Pointing, None
<1>4. /\ r \in FactRecords /\ r.id = factsMade + 1 /\ r.says = Said /\ r.status = "active"
      /\ r.supersedes = half.old.id /\ r.conflict = None
  BY <1>2, <1>3, NewIs
<1>5. MutualBut(facts, cut) /\ SucceededBut(facts, cut \cup {half.old.id})
  BY <1>1 DEF DurableInv, MarkedOld, RetiredOld, MutualBut, SucceededBut
<1>. HIDE DEF r
<1>6. /\ StoreOf(t, factsMade + 1) /\ CarriedIn(t, Notes) /\ (OnceIn(facts) => OnceIn(t))
      /\ MutualBut(t, cut) /\ SucceededBut(t, cut)
  BY <1>2, <1>3, <1>4, <1>5, RecordAddedKeeps, NotesNumber
<1>. HIDE DEF t
<1>7. half' = NoHalf /\ MarkedOld' = {} /\ RetiredOld' = {}
  BY <1>1 DEF MarkedOld, RetiredOld, NoHalf
<1>8. MutualBut(t, cut \cup MarkedOld') /\ SucceededBut(t, cut \cup RetiredOld')
  BY <1>6, <1>7 DEF MutualBut, SucceededBut
<1>9. factsMade' \in 0..MaxMade /\ StoreOf(t, factsMade') /\ factsMade <= factsMade'
       /\ batch' \in Seq(MemoryCandidates)
  BY <1>1, <1>2, <1>3, <1>6, DurableAssumption
<1>. QED
  BY <1>1, <1>2, <1>6, <1>7, <1>8, <1>9, Saved

LEMMA KeptByNew == DurableInv /\ AddNew => DurableInv'
<1>. SUFFICES ASSUME DurableInv, AddNew PROVE DurableInv'
  OBVIOUS
<1>. DEFINE r == NewFact(Said, None, None)
            t == Added(facts, r)
<1>1. /\ Ready /\ ~Exact /\ factsMade < MaxMade /\ Save(t) /\ factsMade' = factsMade + 1
      /\ batch' = Tail(batch) /\ UNCHANGED <<half, openVars, cut>>
  BY DEF AddNew
<1>2. /\ ~migration.open /\ factsMade \in Nat /\ Said \in Statements /\ half = NoHalf
      /\ Tail(batch) \in Seq(MemoryCandidates) /\ StoreOf(facts, factsMade) /\ CarriedIn(facts, Notes)
      /\ MutualBut(facts, cut) /\ SucceededBut(facts, cut)
  BY <1>1, Due
<1>3. None \in 0..factsMade
      /\ \A i \in DOMAIN facts : facts[i].status = "active" => facts[i].says # Said
  BY <1>1, <1>2, Fresh DEF None
<1>4. /\ r \in FactRecords /\ r.id = factsMade + 1 /\ r.says = Said /\ r.status = "active"
      /\ r.supersedes = None /\ r.conflict = None
  BY <1>2, <1>3, NewIs
<1>. HIDE DEF r
<1>6. /\ StoreOf(t, factsMade + 1) /\ CarriedIn(t, Notes) /\ (OnceIn(facts) => OnceIn(t))
      /\ MutualBut(t, cut) /\ SucceededBut(t, cut)
  BY <1>2, <1>3, <1>4, RecordAddedKeeps, NotesNumber
<1>. HIDE DEF t
<1>7. half' = NoHalf /\ MarkedOld' = {} /\ RetiredOld' = {}
  BY <1>1, <1>2 DEF MarkedOld, RetiredOld, NoHalf
<1>8. MutualBut(t, cut \cup MarkedOld') /\ SucceededBut(t, cut \cup RetiredOld')
  BY <1>6, <1>7 DEF MutualBut, SucceededBut
<1>9. factsMade' \in 0..MaxMade /\ StoreOf(t, factsMade') /\ factsMade <= factsMade'
       /\ batch' \in Seq(MemoryCandidates)
  BY <1>1, <1>2, <1>3, <1>6, DurableAssumption
<1>. QED
  BY <1>1, <1>2, <1>6, <1>7, <1>8, <1>9, Saved

(* The one it contradicts is there and has to be marked, or it has gone.    *)
LEMMA KeptByConflicting == DurableInv /\ AddConflicting => DurableInv'
<1>. SUFFICES ASSUME DurableInv, AddConflicting PROVE DurableInv'
  OBVIOUS
<1>. DEFINE old == facts[Rival]
            r == NewFact(Said, None, old.id)
            t == Added(facts, r)
<1>1. /\ Ready /\ ~Exact /\ HasRival /\ factsMade < MaxMade /\ Save(t)
      /\ factsMade' = factsMade + 1 /\ UNCHANGED <<batch, openVars, cut>>
      /\ half' = [kind |-> "mark", old |-> old, new |-> factsMade + 1]
  BY DEF AddConflicting, Conflicts
<1>2. /\ ~migration.open /\ factsMade \in Nat /\ Said \in Statements /\ half = NoHalf
      /\ batch \in Seq(MemoryCandidates) /\ batch # <<>>
      /\ StoreOf(facts, factsMade) /\ CarriedIn(facts, Notes)
      /\ MutualBut(facts, cut) /\ SucceededBut(facts, cut)
  BY <1>1, Due
<1>3. /\ Rival \in DOMAIN facts /\ old.status = "active" /\ old \in FactRecords
      /\ Pointing(old, factsMade)
  BY <1>1, RivalThere
<1>4. None \in 0..factsMade /\ old.id \in 1..factsMade /\ old.id \in 0..factsMade /\ old.id # None
      /\ \A i \in DOMAIN facts : facts[i].status = "active" => facts[i].says # Said
  BY <1>1, <1>2, <1>3, Fresh DEF None, Pointing
<1>5. /\ r \in FactRecords /\ r.id = factsMade + 1 /\ r.says = Said /\ r.status = "active"
      /\ r.supersedes = None /\ r.conflict = old.id /\ factsMade < r.id
  BY <1>2, <1>4, NewIs
<1>. DEFINE k == Rival
            X == cut \cup {old.id}
<1>6. MutualBut(facts, X)
  BY <1>2 DEF MutualBut
<1>. HIDE DEF r, old, k
<1>7. /\ StoreOf(t, factsMade + 1) /\ CarriedIn(t, Notes) /\ (OnceIn(facts) => OnceIn(t))
      /\ MutualBut(t, X) /\ SucceededBut(t, cut)
  BY <1>2, <1>4, <1>5, <1>6, RecordAddedKeeps, NotesNumber
<1>8. PICK d \in {0, 1} : Longer(t, facts, r, d)
  BY <1>2, <1>5, AddedLonger
<1>. HIDE DEF t
<1>9. /\ t \in Seq(FactRecords) /\ Len(t) \in 1..MaxFacts /\ t[Len(t)] = r
      /\ \A i \in DOMAIN t : i = Len(t) \/ (i + d \in DOMAIN facts /\ t[i] = facts[i + d] /\ i < Len(t))
      /\ \A i \in DOMAIN facts :
           (i - d \in DOMAIN t /\ i - d < Len(t) /\ t[i - d] = facts[i]) \/ (i = 1 /\ d = 1)
      /\ (Len(t) < MaxFacts => d = 0)
  BY <1>2, <1>5, <1>8, LongerPlaces
<1>10. half'.kind = "mark" /\ half'.old = old /\ half'.new = factsMade + 1
  BY <1>1
<1>11. MarkedOld' = {old.id} /\ RetiredOld' = {}
  BY <1>10 DEF MarkedOld, RetiredOld
<1>12. MutualBut(t, cut \cup MarkedOld') /\ SucceededBut(t, cut \cup RetiredOld')
  BY <1>7, <1>11 DEF SucceededBut
<1>13. old = facts[Rival]
  BY DEF old
<1>14. \A i, j \in DOMAIN facts : i < j <=> facts[i].id < facts[j].id
  BY <1>2 DEF StoreOf, Ageing
<1>15. facts \in Seq(FactRecords) /\ \A i \in DOMAIN facts : facts[i].id \in 1..factsMade
  BY <1>2 DEF StoreOf, Pointing
<1>16. \A i \in DOMAIN t : t[i].id = old.id => t[i] = old
  <2>1. ASSUME NEW i \in DOMAIN t, t[i].id = old.id PROVE t[i] = old
    <3>1. i # Len(t)
      BY <1>2, <1>4, <1>5, <1>9, <2>1
    <3>2. i + d \in DOMAIN facts /\ t[i] = facts[i + d]
      BY <1>9, <3>1
    <3>3. ~(i + d < Rival) /\ ~(Rival < i + d)
      <4>1. facts[i + d].id = facts[Rival].id /\ facts[Rival].id \in Nat
        BY <1>3, <1>13, <1>15, <2>1, <3>2
      <4>. QED
        BY <1>3, <1>14, <3>2, <4>1
    <3>4. i + d = Rival
      <4>1. i + d \in Int /\ Rival \in Int
        BY <1>3, <1>15, <3>2
      <4>. QED
        BY ONLY <3>3, <4>1
    <3>. QED
      BY <1>13, <3>2, <3>4
  <2>. QED
    BY <2>1
<1>17. Holds(t, old.id) \/ (Len(t) = MaxFacts /\ \A i \in DOMAIN t : old.id < t[i].id)
  <2>1. CASE ~(Rival = 1 /\ d = 1)
    <3>1. Rival - d \in DOMAIN t /\ t[Rival - d] = old
      BY <1>3, <1>9, <1>13, <2>1
    <3>. QED
      BY <3>1 DEF Holds
  <2>2. CASE Rival = 1 /\ d = 1
    <3>1. Len(t) = MaxFacts
      <4>1. ~(Len(t) < MaxFacts) /\ MaxFacts \in Nat
        BY <1>9, <2>2, DurableAssumption
      <4>. QED
        BY <1>9, <4>1
    <3>2. ASSUME NEW i \in DOMAIN t PROVE old.id < t[i].id
      <4>1. CASE i = Len(t)
        BY <1>2, <1>4, <1>5, <1>9, <4>1
      <4>2. CASE i # Len(t)
        <5>1. i + 1 \in DOMAIN facts /\ t[i] = facts[i + 1]
          BY <1>9, <2>2, <4>2
        <5>2. 1 < i + 1
          BY <1>9
        <5>. QED
          BY <1>3, <1>13, <1>14, <2>2, <5>1, <5>2
      <4>. QED
        BY <4>1, <4>2
    <3>. QED
      BY <3>1, <3>2
  <2>. QED
    BY <2>1, <2>2
<1>18. \E i \in DOMAIN t : t[i].id = factsMade + 1 /\ t[i].conflict # None
  <2>1. Len(t) \in DOMAIN t
    BY <1>9
  <2>. QED
    BY <1>4, <1>5, <1>9, <2>1
<1>19. HalfOK'
  <2>1. facts' = t /\ batch' = batch /\ factsMade' = factsMade + 1
    BY <1>1 DEF Save
  <2>2. factsMade + 1 \in 1..(factsMade + 1)
    BY <1>2
  <2>3. Pointing(old, factsMade + 1)
    BY <1>2, <1>3 DEF Pointing
  <2>4. /\ batch' # <<>> /\ half'.old \in FactRecords /\ Pointing(half'.old, factsMade')
        /\ half'.old.status = "active" /\ half'.new \in 1..factsMade'
    BY <1>2, <1>3, <1>10, <2>1, <2>2, <2>3
  <2>5. \E i \in DOMAIN facts' : facts'[i].id = half'.new /\ facts'[i].conflict # None
    BY <1>10, <1>18, <2>1
  <2>6. \A i \in DOMAIN facts' : facts'[i].id = half'.old.id => facts'[i] = half'.old
    BY <1>10, <1>16, <2>1
  <2>7. \/ Holds(facts', half'.old.id)
        \/ Len(facts') = MaxFacts /\ \A i \in DOMAIN facts' : half'.old.id < facts'[i].id
    BY <1>10, <1>17, <2>1
  <2>. QED
    BY <1>10, <2>4, <2>5, <2>6, <2>7 DEF HalfOK
<1>20. factsMade' \in 0..MaxMade /\ StoreOf(t, factsMade') /\ factsMade <= factsMade'
       /\ batch' \in Seq(MemoryCandidates)
  BY <1>1, <1>2, <1>7, DurableAssumption
<1>. QED
  BY <1>1, <1>2, <1>7, <1>12, <1>19, <1>20, Saved

(* The other side of the conflict is marked, when it is there.              *)
LEMMA KeptByMark == DurableInv /\ MarkConflict => DurableInv'
<1>. SUFFICES ASSUME DurableInv, MarkConflict PROVE DurableInv'
  OBVIOUS
<1>. DEFINE old == [half.old EXCEPT !.conflict = IF @ = None THEN half.new ELSE @]
            t == IF Holds(facts, old.id)
                 THEN [facts EXCEPT ![IndexOf(facts, old.id)] = old]
                 ELSE Added(facts, old)
<1>1. /\ half.kind = "mark" /\ Save(t) /\ half' = NoHalf /\ batch' = Tail(batch)
      /\ UNCHANGED <<factsMade, openVars, cut>>
  BY DEF MarkConflict
<1>2. /\ ~migration.open /\ factsMade \in Nat /\ HalfOK
      /\ Tail(batch) \in Seq(MemoryCandidates) /\ StoreOf(facts, factsMade) /\ CarriedIn(facts, Notes)
  BY <1>1, HalfDue DEF NoHalf
<1>3. /\ half.old \in FactRecords /\ Pointing(half.old, factsMade)
      /\ half.old.status = "active" /\ half.new \in 1..factsMade
      /\ \E i \in DOMAIN facts : facts[i].id = half.new /\ facts[i].conflict # None
      /\ \A i \in DOMAIN facts : facts[i].id = half.old.id => facts[i] = half.old
      /\ \/ Holds(facts, half.old.id)
         \/ Len(facts) = MaxFacts /\ \A i \in DOMAIN facts : half.old.id < facts[i].id
  BY <1>1, <1>2 DEF HalfOK
<1>4. /\ old \in FactRecords /\ old.id = half.old.id /\ old.says = half.old.says
      /\ old.status = "active" /\ old.supersedes = half.old.supersedes
      /\ old.conflict = IF half.old.conflict = None THEN half.new ELSE half.old.conflict
  <2>1. half.new \in Nat
    BY <1>3
  <2>2. half.old = [id |-> half.old.id, says |-> half.old.says, status |-> half.old.status,
                    supersedes |-> half.old.supersedes, conflict |-> half.old.conflict]
        /\ half.old.id \in Nat /\ half.old.says \in Statements /\ half.old.supersedes \in Nat
        /\ half.old.conflict \in Nat
    BY <1>3 DEF FactRecords
  <2>. QED
    BY <1>3, <2>1, <2>2 DEF FactRecords
<1>. HIDE DEF old
<1>5. old.conflict # None /\ Pointing(old, factsMade)
  BY <1>2, <1>3, <1>4 DEF Pointing, None
<1>6. MutualBut(facts, cut \cup {half.old.id}) /\ SucceededBut(facts, cut)
  BY <1>1 DEF DurableInv, MarkedOld, RetiredOld, SucceededBut
<1>7. /\ StoreOf(t, factsMade) /\ CarriedIn(t, Notes) /\ (OnceIn(facts) => OnceIn(t))
      /\ MutualBut(t, cut) /\ SucceededBut(t, cut)
  <2>1. CASE Holds(facts, old.id)
    <3>. DEFINE k == IndexOf(facts, old.id)
                u == [facts EXCEPT ![k] = old]
    <3>1. k \in DOMAIN facts /\ facts[k].id = old.id
      BY <2>1 DEF Holds, IndexOf
    <3>2. facts[k] = half.old
      BY <1>3, <1>4, <3>1
    <3>3. t = u
      BY <2>1
    <3>. HIDE DEF k
    <3>4. /\ StoreOf(u, factsMade) /\ Len(u) = Len(facts) /\ DOMAIN u = DOMAIN facts
          /\ \A i \in DOMAIN facts : u[i] = IF i = k THEN old ELSE facts[i]
      BY <1>2, <1>4, <1>5, <3>1, Rewritten
    <3>. HIDE DEF u, t
    <3>5. \A i \in DOMAIN facts :
            /\ u[i].id = facts[i].id /\ u[i].says = facts[i].says /\ u[i].status = facts[i].status
            /\ u[i].supersedes = facts[i].supersedes
            /\ i # k => u[i].conflict = facts[i].conflict
      BY <1>3, <1>4, <3>2, <3>4
    <3>6. OnceIn(facts) => OnceIn(u)
      BY <3>4, <3>5 DEF OnceIn
    <3>7. CarriedIn(u, Notes)
      BY <1>2, <3>4, <3>5 DEF CarriedIn
    <3>8. SucceededBut(u, cut)
      <4>1. ASSUME NEW i \in DOMAIN facts, u[i].status = "superseded"
            PROVE  (\E j \in DOMAIN facts : u[j].supersedes = u[i].id) \/ u[i].id \in cut
        <5>1. (\E j \in DOMAIN facts : facts[j].supersedes = facts[i].id) \/ facts[i].id \in cut
          BY <1>6, <3>5, <4>1 DEF SucceededBut
        <5>. QED
          BY <3>5, <5>1
      <4>. QED
        BY <3>4, <4>1 DEF SucceededBut
    <3>9. MutualBut(u, cut)
      <4>1. ASSUME NEW i \in DOMAIN facts, NEW j \in DOMAIN facts, u[j].conflict = u[i].id
            PROVE  u[i].conflict # None \/ u[i].id \in cut
        <5>1. CASE i = k
          BY <1>5, <3>4, <5>1
        <5>2. CASE i # k /\ facts[j].conflict = facts[i].id
          <6>1. facts[i].conflict # None \/ facts[i].id \in cut \cup {half.old.id}
            BY <1>6, <5>2 DEF MutualBut
          <6>2. facts[i].id # half.old.id
            BY <1>2, <3>1, <1>4, <5>2 DEF StoreOf, Ageing, Pointing
          <6>. QED
            BY <3>5, <5>2, <6>1, <6>2
        <5>3. CASE i # k /\ facts[j].conflict # facts[i].id
          <6>1. j = k /\ u[j] = old
            BY <3>4, <3>5, <4>1, <5>3
          <6>2. facts[i].id = half.new
            BY <1>4, <3>2, <3>5, <4>1, <5>3, <6>1
          <6>3. PICK l \in DOMAIN facts : facts[l].id = half.new /\ facts[l].conflict # None
            BY <1>3
          <6>4. l = i
            BY <1>2, <6>2, <6>3 DEF StoreOf, Ageing, Pointing
          <6>. QED
            BY <3>5, <5>3, <6>3, <6>4
        <5>. QED
          BY <5>1, <5>2, <5>3
      <4>. QED
        BY <3>4, <4>1 DEF MutualBut
    <3>. QED
      BY <3>3, <3>4, <3>6, <3>7, <3>8, <3>9
  <2>2. CASE ~Holds(facts, old.id)
    <3>1. Len(facts) = MaxFacts /\ \A i \in DOMAIN facts : old.id < facts[i].id
      BY <1>3, <1>4, <2>2
    <3>2. t = facts
      BY <1>2, <1>4, <2>2, <3>1, AddedAgain
    <3>. HIDE DEF t
    <3>3. \A i \in DOMAIN facts : facts[i].id # half.old.id
      BY <1>4, <2>2 DEF Holds
    <3>4. MutualBut(facts, cut)
      BY <1>6, <3>3 DEF MutualBut
    <3>. QED
      BY <1>2, <1>6, <3>2, <3>4
  <2>. QED
    BY <2>1, <2>2
<1>. HIDE DEF t
<1>8. half' = NoHalf /\ MarkedOld' = {} /\ RetiredOld' = {}
  BY <1>1 DEF MarkedOld, RetiredOld, NoHalf
<1>9. MutualBut(t, cut \cup MarkedOld') /\ SucceededBut(t, cut \cup RetiredOld')
  BY <1>7, <1>8 DEF MutualBut, SucceededBut
<1>10. factsMade' \in 0..MaxMade /\ StoreOf(t, factsMade') /\ factsMade <= factsMade'
       /\ batch' \in Seq(MemoryCandidates)
  BY <1>1, <1>2, <1>7 DEF DurableInv
<1>. QED
  BY <1>1, <1>2, <1>7, <1>8, <1>9, <1>10, Saved

(* A richer wording says all that the old one said, and nobody said it yet. *)
LEMMA KeptByMerge == DurableInv /\ MergeWording => DurableInv'
<1>. SUFFICES ASSUME DurableInv, MergeWording PROVE DurableInv'
  OBVIOUS
<1>. DEFINE k == BestFact
            e == [facts[k] EXCEPT !.says = Said]
            t == [facts EXCEPT ![k] = e]
<1>1. /\ Ready /\ ~Exact /\ Near /\ Tokens(facts[k].says) \subseteq Tokens(Said)
      /\ Save(t) /\ batch' = Tail(batch) /\ UNCHANGED <<factsMade, half, openVars, cut>>
  BY DEF MergeWording, Merges
<1>2. /\ ~migration.open /\ half = NoHalf /\ Tail(batch) \in Seq(MemoryCandidates)
      /\ CarriedIn(facts, Notes) /\ MutualBut(facts, cut) /\ SucceededBut(facts, cut)
      /\ factsMade \in Nat /\ StoreOf(facts, factsMade) /\ Said \in Statements
  BY <1>1, Due
<1>3. k \in DOMAIN facts
  BY <1>1, BestThere
<1>4. facts[k] \in FactRecords /\ Pointing(facts[k], factsMade)
  BY <1>2, <1>3 DEF StoreOf
<1>. HIDE DEF k
<1>5. /\ e \in FactRecords /\ e.id = facts[k].id /\ e.says = Said /\ e.status = facts[k].status
      /\ e.supersedes = facts[k].supersedes /\ e.conflict = facts[k].conflict
  BY <1>2, <1>4 DEF FactRecords
<1>. HIDE DEF e
<1>6. Pointing(e, factsMade)
  BY <1>4, <1>5 DEF Pointing
<1>7. /\ StoreOf(t, factsMade) /\ Len(t) = Len(facts) /\ DOMAIN t = DOMAIN facts
      /\ \A i \in DOMAIN facts : t[i] = IF i = k THEN e ELSE facts[i]
  BY <1>2, <1>3, <1>5, <1>6, Rewritten
<1>. HIDE DEF t
<1>8. \A i \in DOMAIN facts :
        /\ t[i].id = facts[i].id /\ t[i].conflict = facts[i].conflict
        /\ t[i].supersedes = facts[i].supersedes /\ t[i].status = facts[i].status
        /\ t[i].says = IF i = k THEN Said ELSE facts[i].says
  BY <1>5, <1>7
<1>9. \A i \in DOMAIN facts : facts[i].status = "active" => facts[i].says # Said
  BY <1>1, Fresh
<1>10. OnceIn(facts) => OnceIn(t)
  BY <1>7, <1>8, <1>9 DEF OnceIn
<1>11. CarriedIn(t, Notes)
  <2>1. \A i \in DOMAIN facts : Tokens(facts[i].says) \subseteq Tokens(t[i].says)
    BY <1>1, <1>8
  <2>. QED
    BY <1>2, <1>7, <2>1 DEF CarriedIn
<1>12. MutualBut(t, cut)
  BY <1>2, <1>7, <1>8 DEF MutualBut
<1>13. SucceededBut(t, cut)
  <2>1. ASSUME NEW i \in DOMAIN facts, t[i].status = "superseded"
        PROVE  (\E j \in DOMAIN facts : t[j].supersedes = t[i].id) \/ t[i].id \in cut
    <3>1. (\E j \in DOMAIN facts : facts[j].supersedes = facts[i].id) \/ facts[i].id \in cut
      BY <1>2, <1>8, <2>1 DEF SucceededBut
    <3>. QED
      BY <1>8, <3>1
  <2>. QED
    BY <1>7, <2>1 DEF SucceededBut
<1>14. half' = NoHalf /\ MarkedOld' = {} /\ RetiredOld' = {}
  BY <1>1, <1>2 DEF MarkedOld, RetiredOld, NoHalf
<1>15. MutualBut(t, cut \cup MarkedOld') /\ SucceededBut(t, cut \cup RetiredOld')
  BY <1>12, <1>13, <1>14 DEF MutualBut, SucceededBut
<1>16. factsMade' \in 0..MaxMade /\ StoreOf(t, factsMade') /\ factsMade <= factsMade'
       /\ batch' \in Seq(MemoryCandidates)
  BY <1>1, <1>2, <1>7 DEF DurableInv
<1>. QED
  BY <1>1, <1>2, <1>10, <1>11, <1>14, <1>15, <1>16, Saved

LEMMA KeptByEndRun == ASSUME NEW b \in Harvests PROVE DurableInv /\ EndRun(b) => DurableInv'
<1>. SUFFICES ASSUME DurableInv, EndRun(b) PROVE DurableInv'
  OBVIOUS
<1>1. /\ ~migration.open /\ half = NoHalf /\ batch' = ExtractAll(b)
      /\ UNCHANGED <<facts, factFile, factsMade, half, openVars, cut>>
  BY DEF EndRun
<1>2. ExtractAll(b) \in Seq(MemoryCandidates)
  <2>1. b \in Seq(MemoryCandidates)
    BY DurableAssumption
  <2>. DEFINE S == {i \in DOMAIN b :
                      b[i].says \notin Unfit /\ \A j \in 1..(i - 1) : b[j].says # b[i].says}
  <2>2. S \subseteq DOMAIN b /\ ExtractAll(b) = Picked(b, S)
    BY DEF ExtractAll
  <2>. HIDE DEF S
  <2>. QED
    BY <2>1, <2>2, PickedMembers
<1>3. MovedOK
  BY <1>1 DEF DurableInv, MovingOK
<1>4. MovedOK'
  BY <1>1, <1>3 DEF MovedOK, openVars
<1>5. MarkedOld' = MarkedOld /\ RetiredOld' = RetiredOld
  BY <1>1 DEF MarkedOld, RetiredOld
<1>. QED
  BY <1>1, <1>2, <1>4, <1>5 DEF DurableInv, openVars

(* A record that replaces and contradicts nothing.                          *)
LEMMA NewPlain ==
  ASSUME factsMade \in Nat, NEW s \in Statements
  PROVE  LET r == NewFact(s, None, None) IN
         /\ r \in FactRecords /\ r.id = factsMade + 1 /\ r.says = s /\ r.status = "active"
         /\ r.supersedes = None /\ r.conflict = None /\ factsMade < r.id
<1>1. None \in 0..factsMade
  BY DEF None
<1>. QED
  BY <1>1, NewIs

LEMMA KeptByMigrate == DurableInv /\ MigrateNote => DurableInv'
<1>. SUFFICES ASSUME DurableInv, MigrateNote PROVE DurableInv'
  OBVIOUS
<1>. DEFINE left == migration.left
            done == Notes - Len(left)
            r == NewFact(Head(left), None, None)
            t == Added(factFile, r)
<1>1. /\ migration.open /\ left # <<>> /\ factsMade < MaxMade /\ factFile' = t
      /\ factsMade' = factsMade + 1 /\ migration' = [migration EXCEPT !.left = Tail(left)]
      /\ UNCHANGED <<facts, batch, half, migrated, cut, repeated>>
  BY DEF MigrateNote
<1>2. MovingOK
  BY <1>1 DEF DurableInv, MovedOK, Closed
<1>3. left \in Seq(Statements) /\ Len(left) <= Notes /\ factsMade \in Nat /\ Notes \in Nat
      /\ LegacyNotes \in Seq(Statements)
  BY <1>2, DurableAssumption, NotesNumber DEF MovingOK, DurableInv
<1>4. Len(left) \in Nat \ {0} /\ Len(Tail(left)) = Len(left) - 1 /\ Tail(left) \in Seq(Statements)
      /\ Head(left) = left[1] /\ \A k \in 1..(Len(left) - 1) : Tail(left)[k] = left[k + 1]
      /\ Head(left) \in Statements /\ DOMAIN left = 1..Len(left)
  BY <1>1, <1>3
<1>. HIDE DEF left
<1>5. done \in Nat /\ done + 1 \in DOMAIN LegacyNotes /\ Notes - Len(Tail(left)) = done + 1
  <2>1. DOMAIN LegacyNotes = 1..Notes
    BY <1>3 DEF Notes
  <2>2. done \in Nat /\ done + 1 \in 1..Notes /\ Notes - (Len(left) - 1) = done + 1
    BY ONLY <1>3, <1>4
  <2>. QED
    BY <1>4, <2>1, <2>2
<1>6. /\ \A k \in DOMAIN left : left[k] = LegacyNotes[done + k]
      /\ \A i \in DOMAIN factFile : factFile[i].status = "active" /\ factFile[i].conflict = None
      /\ repeated \/ \A i \in DOMAIN factFile :
           \E n \in 1..done : factFile[i].says = LegacyNotes[n]
      /\ CarriedIn(factFile, done)
  BY <1>2 DEF MovingOK, left
<1>. HIDE DEF done
<1>7. Head(left) = LegacyNotes[done + 1]
  BY <1>4, <1>6
<1>8. /\ r \in FactRecords /\ r.id = factsMade + 1 /\ r.says = Head(left) /\ r.status = "active"
      /\ r.supersedes = None /\ r.conflict = None /\ factsMade < r.id
  <2>1. factsMade \in Nat /\ Head(left) \in Statements
    BY <1>3, <1>4
  <2>. QED
    BY <2>1, NewPlain
<1>9. StoreOf(factFile, factsMade)
  BY DEF DurableInv
<1>. HIDE DEF r
<1>10. PICK d \in {0, 1} : Longer(t, factFile, r, d)
  BY <1>3, <1>8, <1>9, AddedLonger
<1>. HIDE DEF t
<1>11. StoreOf(t, factsMade + 1)
  <2>1. r.supersedes \in 0..factsMade /\ r.conflict \in 0..factsMade
    BY <1>3, <1>8 DEF None
  <2>. QED
    BY <1>3, <1>8, <1>9, <1>10, <2>1, LongerIsStore
<1>12. CarriedIn(t, done + 1)
  BY <1>3, <1>5, <1>6, <1>7, <1>8, <1>9, <1>10, LongerCarried
<1>13. /\ t[Len(t)] = r
       /\ \A k \in DOMAIN t : k = Len(t) \/ (k + d \in DOMAIN factFile /\ t[k] = factFile[k + d])
  BY <1>3, <1>8, <1>9, <1>10, LongerPlaces
<1>14. \A i \in DOMAIN t : t[i].status = "active" /\ t[i].conflict = None
  BY <1>6, <1>8, <1>13
<1>15. repeated \/ \A i \in DOMAIN t : \E n \in 1..(done + 1) : t[i].says = LegacyNotes[n]
  <2>1. SUFFICES ASSUME ~repeated, NEW i \in DOMAIN t
                 PROVE  \E n \in 1..(done + 1) : t[i].says = LegacyNotes[n]
    OBVIOUS
  <2>2. CASE i = Len(t)
    <3>1. t[i].says = LegacyNotes[done + 1] /\ done + 1 \in 1..(done + 1)
      BY <1>5, <1>7, <1>8, <1>13, <2>2
    <3>. QED
      BY <3>1
  <2>3. CASE i + d \in DOMAIN factFile /\ t[i] = factFile[i + d]
    <3>1. PICK n \in 1..done : factFile[i + d].says = LegacyNotes[n]
      BY <1>6, <2>1, <2>3
    <3>2. n \in 1..(done + 1)
      BY <1>5
    <3>. QED
      BY <2>3, <3>1, <3>2
  <2>. QED
    BY <1>13, <2>2, <2>3
<1>16. repeated \/ ~IsInjective(LegacyNotes) \/ (OnceIn(facts) /\ OnceIn(t))
  <2>1. SUFFICES ASSUME ~repeated, IsInjective(LegacyNotes) PROVE OnceIn(facts) /\ OnceIn(t)
    OBVIOUS
  <2>2. OnceIn(facts) /\ OnceIn(factFile)
    BY <2>1 DEF DurableInv
  <2>3. ASSUME NEW i \in DOMAIN factFile PROVE factFile[i].says # r.says
    <3>1. PICK n \in 1..done : factFile[i].says = LegacyNotes[n]
      BY <1>6, <2>1
    <3>2. DOMAIN LegacyNotes = 1..Notes
      BY <1>3 DEF Notes
    <3>4. done + 1 \in 1..Notes /\ done \in Nat /\ Notes \in Nat
      BY <1>3, <1>5, <3>2
    <3>5. n \in 1..Notes /\ n # done + 1
      BY ONLY <3>4, n \in 1..done
    <3>3. n \in DOMAIN LegacyNotes /\ n # done + 1
      BY <3>2, <3>5
    <3>. QED
      BY <1>5, <1>7, <1>8, <2>1, <3>1, <3>3 DEF IsInjective
  <2>4. OnceIn(t)
    BY <1>3, <1>8, <1>9, <1>10, <2>2, <2>3, LongerOnce
  <2>. QED
    BY <2>2, <2>4
<1>17. /\ migration'.left = Tail(left) /\ migration'.open
       /\ migration' = [open |-> TRUE, left |-> migration'.left]
  <2>1. migration = [open |-> TRUE, left |-> left]
    BY <1>2 DEF MovingOK, left
  <2>. QED
    BY <1>1, <2>1
<1>18. ASSUME NEW k \in DOMAIN Tail(left) PROVE Tail(left)[k] = LegacyNotes[(done + 1) + k]
  <2>1. k \in 1..(Len(left) - 1) /\ k + 1 \in 1..Len(left) /\ k \in Nat
    BY <1>4
  <2>2. Tail(left)[k] = LegacyNotes[done + (k + 1)]
    BY <1>4, <1>6, <2>1
  <2>3. done + (k + 1) = (done + 1) + k
    BY <1>5, <2>1
  <2>. QED
    BY <2>2, <2>3
<1>19. MovingOK'
  <2>1. ~migrated' /\ batch' = <<>> /\ half' = NoHalf /\ repeated' = repeated /\ factFile' = t
    BY <1>1, <1>2 DEF MovingOK
  <2>2. Len(Tail(left)) <= Notes
    BY <1>3, <1>4
  <2>3. Notes - Len(migration'.left) = done + 1
    BY <1>5, <1>17
  <2>4. migration'.left \in Seq(Statements) /\ Len(migration'.left) <= Notes
    BY <1>4, <1>17, <2>2
  <2>5. \A k \in DOMAIN migration'.left :
          migration'.left[k] = LegacyNotes[Notes - Len(migration'.left) + k]
    BY <1>17, <1>18, <2>3
  <2>6. repeated' \/ \A i \in DOMAIN factFile' :
          \E n \in 1..(Notes - Len(migration'.left)) : factFile'[i].says = LegacyNotes[n]
    BY <1>15, <2>1, <2>3
  <2>7. CarriedIn(factFile', Notes - Len(migration'.left))
    BY <1>12, <2>1, <2>3
  <2>. QED
    BY <1>14, <1>17, <2>1, <2>4, <2>5, <2>6, <2>7 DEF MovingOK
<1>20. StoreOf(facts, factsMade + 1)
  <2>1. StoreOf(facts, factsMade)
    BY DEF DurableInv
  <2>2. \A i \in DOMAIN facts : Pointing(facts[i], factsMade + 1)
    BY <1>3, <2>1 DEF StoreOf, Pointing
  <2>. QED
    BY <2>1, <2>2 DEF StoreOf
<1>21. cut \subseteq 1..(factsMade + 1) /\ factsMade + 1 \in 0..MaxMade
  <2>1. 1..factsMade \subseteq 1..(factsMade + 1)
    BY <1>3
  <2>2. MaxMade \in Nat
    BY DurableAssumption
  <2>3. factsMade + 1 \in 0..MaxMade
    BY <1>1, <1>3, <2>2
  <2>. QED
    BY <2>1, <2>3 DEF DurableInv
<1>22. MarkedOld' = MarkedOld /\ RetiredOld' = RetiredOld
  BY <1>1 DEF MarkedOld, RetiredOld
<1>. QED
  BY <1>1, <1>11, <1>16, <1>19, <1>20, <1>21, <1>22 DEF DurableInv

(* Plain records point to nothing, and none of them was superseded.         *)
LEMMA PlainStore ==
  ASSUME NEW m \in Nat, NEW s, StoreOf(s, m), NEW X,
         \A i \in DOMAIN s : s[i].status = "active" /\ s[i].conflict = None
  PROVE  MutualBut(s, X) /\ SucceededBut(s, X)
<1>1. \A i \in DOMAIN s : s[i].id # None
  BY DEF StoreOf, Pointing, None
<1>. QED
  BY <1>1 DEF MutualBut, SucceededBut

LEMMA KeptByMigrated == DurableInv /\ MarkMigrated => DurableInv'
<1>. SUFFICES ASSUME DurableInv, MarkMigrated PROVE DurableInv'
  OBVIOUS
<1>1. /\ migration.open /\ migration.left = <<>> /\ migration' = Closed /\ migrated' = TRUE
      /\ facts' = factFile /\ UNCHANGED <<factFile, factsMade, batch, half, cut, repeated>>
  BY DEF MarkMigrated
<1>2. MovingOK
  BY <1>1 DEF DurableInv, MovedOK, Closed
<1>3. Notes - Len(migration.left) = Notes
  BY <1>1, NotesNumber
<1>4. /\ half = NoHalf /\ CarriedIn(factFile, Notes)
      /\ \A i \in DOMAIN factFile : factFile[i].status = "active" /\ factFile[i].conflict = None
  BY <1>2, <1>3 DEF MovingOK
<1>5. MovedOK'
  BY <1>1, <1>4 DEF MovedOK
<1>6. factsMade \in Nat
  BY DurableAssumption DEF DurableInv
<1>7. MutualBut(factFile, cut \cup MarkedOld') /\ SucceededBut(factFile, cut \cup RetiredOld')
  BY <1>4, <1>6, PlainStore DEF DurableInv
<1>. QED
  BY <1>1, <1>5, <1>7 DEF DurableInv

LEMMA KeptByReopen == DurableInv /\ ReopenFacts => DurableInv'
<1>. SUFFICES ASSUME DurableInv, ReopenFacts PROVE DurableInv'
  OBVIOUS
<1>1. /\ facts' = factFile /\ batch' = <<>> /\ half' = NoHalf
      /\ cut' = IF half = NoHalf THEN cut ELSE cut \cup {half.old.id}
      /\ migration' = IF migrated THEN Closed ELSE [open |-> TRUE, left |-> LegacyNotes]
      /\ repeated' = (repeated \/ (migration.open /\ factFile # <<>>))
      /\ UNCHANGED <<factFile, factsMade, migrated>>
  BY DEF ReopenFacts
<1>2. half = NoHalf \/ HalfOK
  BY DEF DurableInv, MovingOK, MovedOK
<1>3. cut' \subseteq 1..factsMade
  BY <1>1, <1>2 DEF DurableInv, HalfOK, Pointing
<1>4. MarkedOld' = {} /\ RetiredOld' = {}
  BY <1>1 DEF NoHalf, MarkedOld, RetiredOld
<1>5. factsMade \in Nat
  BY DurableAssumption DEF DurableInv
<1>6. repeated' \in BOOLEAN
  <2>1. CASE repeated
    BY <1>1, <2>1
  <2>2. CASE ~repeated
    <3>1. repeated = FALSE
      BY <2>2 DEF DurableInv
    <3>. QED
      BY <1>1, <3>1, Zenon
  <2>. QED
    BY <2>1, <2>2
<1>7. batch' \in Seq(MemoryCandidates)
  BY <1>1
<1>8. repeated' \/ ~IsInjective(LegacyNotes) \/ OnceIn(factFile)
  BY <1>1 DEF DurableInv
<1>9. CASE MovedOK
  <2>1. MovedOK'
    BY <1>1, <1>9 DEF MovedOK
  <2>2. cut \cup MarkedOld \subseteq cut' /\ cut \cup RetiredOld \subseteq cut'
    BY <1>1 DEF MarkedOld, RetiredOld, NoHalf
  <2>3. MutualBut(facts', cut' \cup MarkedOld') /\ SucceededBut(facts', cut' \cup RetiredOld')
    <3>1. facts' = facts
      BY <1>1, <1>9 DEF MovedOK
    <3>2. MutualBut(facts, cut')
      BY <2>2 DEF DurableInv, MutualBut
    <3>3. SucceededBut(facts, cut')
      BY <2>2 DEF DurableInv, SucceededBut
    <3>. QED
      BY <1>4, <3>1, <3>2, <3>3 DEF MutualBut, SucceededBut
  <2>. QED
    BY <1>1, <1>3, <1>6, <1>7, <1>8, <2>1, <2>3 DEF DurableInv
<1>10. CASE MovingOK
  <2>1. /\ ~migrated /\ migration.open
        /\ \A i \in DOMAIN factFile : factFile[i].status = "active" /\ factFile[i].conflict = None
    BY <1>10 DEF MovingOK
  <2>2. /\ migration' = [open |-> TRUE, left |-> LegacyNotes] /\ migration'.left = LegacyNotes
        /\ migration'.open /\ ~migrated'
    BY <1>1, <2>1
  <2>3. LegacyNotes \in Seq(Statements) /\ Notes \in Nat /\ Len(LegacyNotes) = Notes
    BY NotesNumber DEF Notes
  <2>4. Notes - Len(LegacyNotes) = 0
    BY <2>3
  <2>5. \A k \in DOMAIN LegacyNotes : Notes - Len(LegacyNotes) + k = k
    BY <2>3, <2>4
  <2>6. repeated' \/ factFile = <<>>
    BY <1>1, <2>1
  <2>7. repeated' \/ \A i \in DOMAIN factFile' :
          \E n \in 1..(Notes - Len(LegacyNotes)) : factFile'[i].says = LegacyNotes[n]
    BY <1>1, <2>6
  <2>8. CarriedIn(factFile', Notes - Len(LegacyNotes))
    BY <2>4 DEF CarriedIn
  <2>9. MovingOK'
    BY <1>1, <2>1, <2>2, <2>3, <2>5, <2>7, <2>8 DEF MovingOK
  <2>10. MutualBut(facts', cut' \cup MarkedOld') /\ SucceededBut(facts', cut' \cup RetiredOld')
    BY <1>1, <1>5, <2>1, PlainStore DEF DurableInv
  <2>. QED
    BY <1>1, <1>3, <1>6, <1>7, <1>8, <2>9, <2>10 DEF DurableInv
<1>. QED
  BY <1>9, <1>10 DEF DurableInv

LEMMA DurableBegins == DurableInit => DurableInv
<1>. SUFFICES ASSUME DurableInit PROVE DurableInv
  OBVIOUS
<1>1. /\ facts = <<>> /\ factFile = <<>> /\ factsMade = 0 /\ batch = <<>> /\ half = NoHalf
      /\ migration = [open |-> TRUE, left |-> LegacyNotes] /\ migrated = FALSE /\ cut = {}
      /\ repeated = FALSE
  BY DEF DurableInit
<1>2. StoreOf(<<>>, 0)
  BY DurableAssumption DEF StoreOf, Ageing
<1>3. LegacyNotes \in Seq(Statements) /\ Notes \in Nat /\ Len(LegacyNotes) = Notes
      /\ Notes - Len(LegacyNotes) = 0
  BY NotesNumber DEF Notes
<1>4. CarriedIn(<<>>, Notes - Len(LegacyNotes))
  BY <1>3 DEF CarriedIn
<1>5. MovingOK
  BY <1>1, <1>3, <1>4 DEF MovingOK
<1>6. OnceIn(<<>>) /\ MutualBut(<<>>, {}) /\ SucceededBut(<<>>, {})
  BY DEF OnceIn, MutualBut, SucceededBut
<1>7. MarkedOld = {} /\ RetiredOld = {}
  BY <1>1 DEF MarkedOld, RetiredOld, NoHalf
<1>8. 0 \in 0..MaxMade
  BY DurableAssumption
<1>9. StoreOf(facts, factsMade) /\ StoreOf(factFile, factsMade)
  BY <1>1, <1>2
<1>10. factsMade \in 0..MaxMade /\ batch \in Seq(MemoryCandidates)
  BY <1>1, <1>8
<1>11. cut \subseteq 1..factsMade /\ repeated \in BOOLEAN /\ migrated \in BOOLEAN
  BY <1>1
<1>12. OnceIn(facts) /\ OnceIn(factFile)
  BY <1>1, <1>6
<1>13. cut \cup MarkedOld = {} /\ cut \cup RetiredOld = {}
  BY <1>1, <1>7
<1>14. MutualBut(facts, cut \cup MarkedOld) /\ SucceededBut(facts, cut \cup RetiredOld)
  BY <1>1, <1>6, <1>13
<1>. QED
  BY <1>5, <1>9, <1>10, <1>11, <1>12, <1>14 DEF DurableInv

LEMMA DurableStep == DurableInv /\ [DurableNext]_durableVars => DurableInv'
<1>. SUFFICES ASSUME DurableInv, [DurableNext]_durableVars PROVE DurableInv'
  OBVIOUS
<1>1. CASE UNCHANGED durableVars
  BY <1>1 DEF durableVars, DurableInv, MovingOK, MovedOK, HalfOK, Said, MarkedOld, RetiredOld
<1>. QED
  BY <1>1, KeptByMigrate, KeptByMigrated, KeptByEndRun, KeptByTouch, KeptByRetire, KeptBySuccessor,
     KeptByConflicting, KeptByMark, KeptByMerge, KeptByNew, KeptByReopen DEF DurableNext

LEMMA DurableImplies == DurableInv => MemorySound
<1>. SUFFICES ASSUME DurableInv PROVE MemorySound
  OBVIOUS
<1>0. factsMade \in Nat
  BY DurableAssumption DEF DurableInv
<1>1. ASSUME NEW s, StoreOf(s, factsMade)
      PROVE  /\ Len(s) <= MaxFacts
             /\ \A i, j \in DOMAIN s : s[i].id = s[j].id => i = j
             /\ \A i \in DOMAIN s :
                  /\ s[i].id \in 1..factsMade /\ s[i].status \in {"active", "superseded"}
                  /\ s[i].supersedes \in 0..(s[i].id - 1) /\ s[i].conflict \in 0..factsMade
  <2>1. ASSUME NEW i \in DOMAIN s
        PROVE  s[i].id \in 1..factsMade /\ s[i].status \in {"active", "superseded"}
               /\ s[i].supersedes \in 0..(s[i].id - 1) /\ s[i].conflict \in 0..factsMade
    <3>1. s[i] \in FactRecords /\ Pointing(s[i], factsMade)
      BY <1>1 DEF StoreOf
    <3>. QED
      BY <3>1 DEF FactRecords, Pointing
  <2>2. ASSUME NEW i \in DOMAIN s, NEW j \in DOMAIN s, s[i].id = s[j].id PROVE i = j
    <3>1. s[i].id \in Nat /\ i \in Int /\ j \in Int
      BY <1>1, <2>1 DEF StoreOf
    <3>2. ~(i < j) /\ ~(j < i)
      BY <1>1, <2>2, <3>1 DEF StoreOf, Ageing
    <3>. QED
      BY ONLY <3>1, <3>2
  <2>3. Len(s) <= MaxFacts
    BY <1>1 DEF StoreOf
  <2>. QED
    BY <2>1, <2>2, <2>3
<1>2. half = NoHalf \/ (HalfOK /\ half.kind \in {"add", "mark"})
  BY DEF DurableInv, MovingOK, MovedOK, HalfOK
<1>3. DurableTypeOK
  <2>1. half.kind \in {"none", "add", "mark"} /\ (half # NoHalf => batch # <<>>)
    BY <1>2 DEF NoHalf, HalfOK
  <2>2. \A s \in {facts, factFile} : StoreOf(s, factsMade)
    BY DEF DurableInv
  <2>. QED
    BY <1>1, <2>1, <2>2 DEF DurableTypeOK, DurableInv
<1>4. RememberedOnce
  BY DEF DurableInv, RememberedOnce, OnceIn
<1>5. ConflictMutual
  <2>1. MarkedOld = {} \/ (half # NoHalf /\ MarkedOld = {half.old.id})
    BY DEF MarkedOld, NoHalf
  <2>. QED
    BY <2>1 DEF DurableInv, MutualBut, ConflictMutual
<1>6. SuccessorThere
  <2>1. RetiredOld = {} \/ (half # NoHalf /\ RetiredOld = {half.old.id})
    BY DEF RetiredOld, NoHalf
  <2>. QED
    BY <2>1 DEF DurableInv, SucceededBut, SuccessorThere
<1>7. NotesCarried
  <2>1. DOMAIN LegacyNotes = 1..Notes
    BY NotesNumber DEF Notes
  <2>2. migrated => CarriedIn(factFile, Notes)
    BY DEF DurableInv, MovingOK, MovedOK
  <2>. QED
    BY <2>1, <2>2 DEF NotesCarried, CarriedIn
<1>. QED
  BY <1>3, <1>4, <1>5, <1>6, <1>7 DEF MemorySound

(* Over consolidation, eviction, migration and processes that end between   *)
(* two writes: nothing is remembered twice, a conflict is marked on both    *)
(* sides, a superseded record has a successor, and no note is lost in the   *)
(* move (apply, migrate, _enforce_bounds).                                  *)
THEOREM MemoryStaysSound == DurableSpec => []MemorySound
BY DurableBegins, DurableStep, DurableImplies, PTL DEF DurableSpec
=============================================================================
