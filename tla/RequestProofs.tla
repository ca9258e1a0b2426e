---------------------------- MODULE RequestProofs ----------------------------
(***************************************************************************)
(* Proofs about a request on its way to the model and back: the summary of  *)
(* the older history, for any entries and budgets, the prompt that is made  *)
(* for it, for any texts, history and budget, the gateway it is sent        *)
(* through, for any number of callers, permits, retries and requests, and   *)
(* the stream of the reply, for any replies, chunks and attempts.           *)
(***************************************************************************)
EXTENDS ModelGateway, PromptBudget, ReplyStream, HistoryCondenser, OrderingProofs

-----------------------------------------------------------------------------
(* The stream of a reply, for any replies and any attempts: what is let     *)
(* through of the text that was fed, and what the parser makes of it.       *)

Signs == (UNION {ToSet(r) : r \in Replies}) \cup {"<", "/", "f", "t", ">"}
Text == Seq(Signs)

LEMMA Texts ==
  ASSUME NEW s \in Text, NEW t \in Text
  PROVE  /\ Len(s) \in Nat /\ s \o t \in Text /\ Len(s \o t) = Len(s) + Len(t)
         /\ \A i \in 1..Len(s) : (s \o t)[i] = s[i]
         /\ \A i \in 1..Len(t) : (s \o t)[Len(s) + i] = t[i]
BY Both DEF Text

LEMMA SameText ==
  ASSUME NEW s \in Text, NEW t \in Text, Len(s) = Len(t), \A i \in 1..Len(s) : s[i] = t[i]
  PROVE  s = t
BY Same DEF Text

(* A part of a text.                                                        *)
LEMMA PartOf ==
  ASSUME NEW s \in Text, NEW a \in 0..Len(s), NEW b \in 0..Len(s), a <= b
  PROVE  /\ SubSeq(s, a + 1, b) \in Text /\ Len(SubSeq(s, a + 1, b)) = b - a
         /\ \A i \in 1..(b - a) : SubSeq(s, a + 1, b)[i] = s[a + i]
BY NextPart DEF Text

LEMMA Tuples ==
  ASSUME NEW S, NEW a \in S, NEW b \in S, NEW c \in S, NEW d \in S
  PROVE  /\ <<a, b>> \in Seq(S) /\ Len(<<a, b>>) = 2
         /\ <<a, b, c>> \in Seq(S) /\ Len(<<a, b, c>>) = 3
         /\ <<a, b, c, d>> \in Seq(S) /\ Len(<<a, b, c, d>>) = 4
  OBVIOUS

LEMMA Tags ==
  /\ StartTag \in Text /\ Len(StartTag) = 3
  /\ EndTag \in Text /\ Len(EndTag) = 4
  /\ ToolTag \in Text /\ Len(ToolTag) = 2
<1>0. "<" \in Signs /\ "/" \in Signs /\ "f" \in Signs /\ "t" \in Signs /\ ">" \in Signs
  <2>1. /\ "<" \in {"<", "/", "f", "t", ">"} /\ "/" \in {"<", "/", "f", "t", ">"}
        /\ "f" \in {"<", "/", "f", "t", ">"} /\ "t" \in {"<", "/", "f", "t", ">"}
        /\ ">" \in {"<", "/", "f", "t", ">"}
    OBVIOUS
  <2>2. {"<", "/", "f", "t", ">"} \subseteq Signs
    BY DEF Signs
  <2>. QED
    BY <2>1, <2>2
<1>1. StartTag \in Text /\ Len(StartTag) = 3
  BY <1>0, Tuples DEF StartTag, Text
<1>2. EndTag \in Text /\ Len(EndTag) = 4
  BY <1>0, Tuples DEF EndTag, Text
<1>3. ToolTag \in Text /\ Len(ToolTag) = 2
  BY <1>0, Tuples DEF ToolTag, Text
<1>. QED
  BY <1>1, <1>2, <1>3

LEMMA TagSigns ==
  /\ StartTag[2] = "f" /\ ToolTag[2] = "t" /\ EndTag[1] = "<"
BY DEF StartTag, EndTag, ToolTag

(* One text is the beginning of another.                                    *)
LEMMA PrefixText ==
  ASSUME NEW s \in Text, NEW t \in Text
  PROVE  IsPrefix(s, t) <=> Len(s) <= Len(t) /\ \A i \in 1..Len(s) : t[i] = s[i]
<1>. DEFINE m == Len(s)
            p == SubSeq(t, 1, m)
<1>1. m \in Nat /\ Len(t) \in Nat
  BY Texts
<1>2. SubSeq(s, 1, m) = s
  BY FirstOnes DEF Text
<1>3. ASSUME m <= Len(t) PROVE p \in Text /\ Len(p) = m /\ \A i \in 1..m : p[i] = t[i]
  <2>1. 0 \in 0..Len(t) /\ m \in 0..Len(t) /\ 0 <= m /\ 0 + 1 = 1 /\ m - 0 = m
    BY <1>1, <1>3
  <2>. HIDE DEF m
  <2>2. /\ SubSeq(t, 0 + 1, m) \in Text /\ Len(SubSeq(t, 0 + 1, m)) = m - 0
        /\ \A i \in 1..(m - 0) : SubSeq(t, 0 + 1, m)[i] = t[0 + i]
    BY ONLY t \in Text, <2>1, PartOf
  <2>3. \A i \in 1..m : t[0 + i] = t[i]
    BY <1>1
  <2>. QED
    BY <2>1, <2>2, <2>3
<1>. HIDE DEF p, m
<1>4. ASSUME m <= Len(t), s = p PROVE \A i \in 1..m : t[i] = s[i]
  BY <1>3, <1>4
<1>5. ASSUME m <= Len(t), \A i \in 1..m : t[i] = s[i] PROVE s = p
  BY <1>3, <1>5, SameText DEF m
<1>. QED
  BY <1>2, <1>4, <1>5 DEF IsPrefix, m, p

(* A tag that begins at a place of a text.                                  *)
Begins(tag, text, i) ==
  /\ i \in 1..Len(text) /\ i + Len(tag) <= Len(text) + 1
  /\ \A k \in 1..Len(tag) : text[(i - 1) + k] = tag[k]

LEMMA PrefixHere ==
  ASSUME NEW tag \in Text, NEW text \in Text, NEW i \in 1..Len(text)
  PROVE  IsPrefix(tag, SubSeq(text, i, Len(text))) <=> Begins(tag, text, i)
<1>. DEFINE a == i - 1
            L == Len(text)
            p == SubSeq(text, a + 1, L)
<1>1. L \in Nat /\ a \in 0..L /\ L \in 0..L /\ a <= L /\ a + 1 = i /\ Len(tag) \in Nat
  BY Texts
<1>. HIDE DEF a
<1>2. p \in Text /\ Len(p) = L - a /\ \A k \in 1..(L - a) : p[k] = text[a + k]
  BY <1>1, PartOf
<1>. HIDE DEF p, L
<1>3. IsPrefix(tag, p) <=> Len(tag) <= Len(p) /\ \A k \in 1..Len(tag) : p[k] = tag[k]
  BY <1>2, PrefixText
<1>4. Len(tag) <= Len(p) <=> i + Len(tag) <= L + 1
  BY <1>1, <1>2
<1>5. ASSUME Len(tag) <= Len(p), NEW k \in 1..Len(tag) PROVE p[k] = text[a + k]
  BY <1>1, <1>2, <1>5
<1>. QED
  BY <1>1, <1>3, <1>4, <1>5 DEF Begins, p, L, a

(* str.find: the first place at which the tag begins.                       *)
LEMMA FindFirst ==
  ASSUME NEW tag \in Text, NEW text \in Text
  PROVE  /\ Find(text, tag) \in 0..Len(text)
         /\ Find(text, tag) = 0 => \A i \in 1..Len(text) : ~Begins(tag, text, i)
         /\ Find(text, tag) # 0 =>
              /\ Begins(tag, text, Find(text, tag))
              /\ \A i \in 1..Len(text) : Begins(tag, text, i) => Find(text, tag) <= i
<1>. DEFINE L == Len(text)
            T == {L + 1} \cup {i \in 1..L : Begins(tag, text, i)}
            m == Min(T)
<1>1. L \in Nat
  BY Texts
<1>2. T = {L + 1} \cup {i \in 1..L : IsPrefix(tag, SubSeq(text, i, L))}
  BY PrefixHere
<1>. HIDE DEF L
<1>3. T \subseteq Nat /\ T # {}
  BY <1>1
<1>4. Find(text, tag) = m % (L + 1)
  BY <1>2 DEF Find, L
<1>5. m \in T /\ \A k \in T : m <= k
  <2>. HIDE DEF T
  <2>. QED
    BY <1>3, LeastNumber DEF Min
<1>. HIDE DEF m
<1>6. CASE m = L + 1
  <2>1. m % (L + 1) = 0
    BY <1>1, <1>6
  <2>2. ASSUME NEW i \in 1..L PROVE ~Begins(tag, text, i)
    BY <1>1, <1>5, <1>6
  <2>. QED
    BY <1>1, <1>4, <2>1, <2>2 DEF L
<1>7. CASE m # L + 1
  <2>1. m \in 1..L /\ Begins(tag, text, m)
    BY <1>5, <1>7
  <2>2. m % (L + 1) = m
    BY <1>1, <2>1
  <2>3. \A i \in 1..L : Begins(tag, text, i) => m <= i
    BY <1>5
  <2>. QED
    BY <1>1, <1>4, <2>1, <2>2, <2>3 DEF L
<1>. QED
  BY <1>6, <1>7

LEMMA FindIs ==
  ASSUME NEW tag \in Text, NEW text \in Text
  PROVE  /\ (\A i \in 1..Len(text) : ~Begins(tag, text, i)) => Find(text, tag) = 0
         /\ \A p \in 1..Len(text) :
              Begins(tag, text, p) /\ (\A i \in 1..(p - 1) : ~Begins(tag, text, i)) =>
                Find(text, tag) = p
<1>. DEFINE f == Find(text, tag)
            L == Len(text)
<1>1. /\ f \in 0..L /\ L \in Nat
      /\ f = 0 => \A i \in 1..L : ~Begins(tag, text, i)
      /\ f # 0 => Begins(tag, text, f) /\ \A i \in 1..L : Begins(tag, text, i) => f <= i
  BY FindFirst, Texts
<1>. HIDE DEF f, L
<1>2. ASSUME \A i \in 1..L : ~Begins(tag, text, i) PROVE f = 0
  BY <1>1, <1>2
<1>3. ASSUME NEW p \in 1..L, Begins(tag, text, p), \A i \in 1..(p - 1) : ~Begins(tag, text, i)
      PROVE  f = p
  <2>1. f # 0 /\ f <= p
    BY <1>1, <1>3
  <2>2. ~(f < p)
    BY <1>1, <1>3, <2>1
  <2>. QED
    BY <1>1, <2>1, <2>2
<1>. QED
  BY <1>2, <1>3 DEF f, L

-----------------------------------------------------------------------------
(* Texts that grow.                                                         *)

LEMMA BeginsLonger ==
  ASSUME NEW tag \in Text, NEW s \in Text, NEW c \in Text, NEW i \in 1..Len(s)
  PROVE  /\ Begins(tag, s, i) => Begins(tag, s \o c, i)
         /\ i + Len(tag) <= Len(s) + 1 /\ Begins(tag, s \o c, i) => Begins(tag, s, i)
<1>. DEFINE t == s \o c
            m == Len(tag)
            n == Len(s)
<1>1. /\ m \in Nat /\ n \in Nat /\ Len(c) \in Nat /\ Len(t) = n + Len(c)
      /\ \A k \in 1..n : t[k] = s[k]
  BY Texts
<1>. HIDE DEF t, m, n
<1>2. ASSUME i + m <= n + 1, NEW k \in 1..m PROVE t[(i - 1) + k] = s[(i - 1) + k]
  <2>1. (i - 1) + k \in 1..n
    BY <1>1, <1>2 DEF n
  <2>. QED
    BY <1>1, <2>1
<1>3. i \in 1..n
  BY DEF n
<1>4. ASSUME Begins(tag, s, i) PROVE Begins(tag, t, i)
  <2>1. i + m <= n + 1 /\ \A k \in 1..m : s[(i - 1) + k] = tag[k]
    BY <1>4 DEF Begins, m, n
  <2>2. i \in 1..Len(t) /\ i + m <= Len(t) + 1
    BY <1>1, <1>3, <2>1
  <2>3. \A k \in 1..m : t[(i - 1) + k] = tag[k]
    BY <1>2, <2>1
  <2>. QED
    BY <2>2, <2>3 DEF Begins, m
<1>5. ASSUME i + m <= n + 1, Begins(tag, t, i) PROVE Begins(tag, s, i)
  <2>1. \A k \in 1..m : t[(i - 1) + k] = tag[k]
    BY <1>5 DEF Begins, m
  <2>2. \A k \in 1..m : s[(i - 1) + k] = tag[k]
    BY <1>2, <1>5, <2>1
  <2>. QED
    BY <1>3, <1>5, <2>2 DEF Begins, m, n
<1>. QED
  BY <1>4, <1>5 DEF t, m, n

LEMMA BeginsBehind ==
  ASSUME NEW tag \in Text, NEW s \in Text, NEW c \in Text, NEW j \in 1..Len(c)
  PROVE  Begins(tag, s \o c, Len(s) + j) <=> Begins(tag, c, j)
<1>. DEFINE t == s \o c
            m == Len(tag)
            n == Len(s)
            l == Len(c)
<1>1. /\ m \in Nat /\ n \in Nat /\ l \in Nat /\ Len(t) = n + l
      /\ \A k \in 1..l : t[n + k] = c[k]
  BY Texts
<1>2. j \in 1..l
  OBVIOUS
<1>. HIDE DEF t, m, n, l
<1>3. n + j \in 1..Len(t) /\ (n + j + m <= Len(t) + 1 <=> j + m <= l + 1)
  BY <1>1, <1>2
<1>4. ASSUME j + m <= l + 1, NEW k \in 1..m PROVE t[((n + j) - 1) + k] = c[(j - 1) + k]
  <2>. DEFINE a == (j - 1) + k
  <2>1. a \in 1..l /\ ((n + j) - 1) + k = n + a
    BY <1>1, <1>2, <1>4
  <2>. HIDE DEF a
  <2>2. t[((n + j) - 1) + k] = c[a]
    BY <1>1, <2>1
  <2>. QED
    BY <2>2 DEF a
<1>5. Begins(tag, t, n + j) <=>
        n + j + m <= Len(t) + 1 /\ \A k \in 1..m : t[((n + j) - 1) + k] = tag[k]
  BY <1>3 DEF Begins, m
<1>6. Begins(tag, c, j) <=> j + m <= l + 1 /\ \A k \in 1..m : c[(j - 1) + k] = tag[k]
  BY <1>2 DEF Begins, m, l
<1>. QED
  BY <1>3, <1>4, <1>5, <1>6 DEF t, n

LEMMA BeginsEnds ==
  ASSUME NEW tag \in Text, NEW s \in Text, NEW i, Begins(tag, s, i)
  PROVE  i \in 1..Len(s) /\ i + Len(tag) <= Len(s) + 1
BY DEF Begins

(* What was found stays where it is.                                        *)
LEMMA FindGrows ==
  ASSUME NEW tag \in Text, NEW s \in Text, NEW c \in Text, Find(s, tag) # 0
  PROVE  Find(s \o c, tag) = Find(s, tag)
<1>. DEFINE f == Find(s, tag)
            t == s \o c
<1>1. /\ f \in 1..Len(s) /\ Begins(tag, s, f)
      /\ \A i \in 1..Len(s) : Begins(tag, s, i) => f <= i
  BY FindFirst
<1>2. /\ t \in Text /\ Len(s) \in Nat /\ Len(c) \in Nat /\ Len(t) = Len(s) + Len(c)
      /\ Len(tag) \in Nat
  BY Texts
<1>3. Begins(tag, t, f)
  BY <1>1, BeginsLonger
<1>4. f + Len(tag) <= Len(s) + 1
  BY <1>1 DEF Begins
<1>5. f \in 1..Len(t)
  BY <1>1, <1>2
<1>6. ASSUME NEW i \in 1..(f - 1) PROVE ~Begins(tag, t, i)
  <2>1. i \in 1..Len(s) /\ i + Len(tag) <= Len(s) + 1 /\ ~(f <= i)
    BY <1>1, <1>2, <1>4
  <2>. QED
    BY <1>1, <2>1, BeginsLonger
<1>. HIDE DEF f, t
<1>7. Find(t, tag) = f
  BY <1>2, <1>3, <1>5, <1>6, FindIs
<1>. QED
  BY <1>7 DEF f, t

(* Nothing begins in the front part.                                        *)
LEMMA FindBehind ==
  ASSUME NEW tag \in Text, NEW s \in Text, NEW c \in Text,
         \A i \in 1..Len(s) : ~Begins(tag, s \o c, i)
  PROVE  Find(s \o c, tag) = IF Find(c, tag) = 0 THEN 0 ELSE Len(s) + Find(c, tag)
<1>. DEFINE f == Find(c, tag)
            t == s \o c
            n == Len(s)
<1>1. /\ t \in Text /\ n \in Nat /\ Len(c) \in Nat /\ Len(t) = n + Len(c)
  BY Texts
<1>2. /\ f \in 0..Len(c)
      /\ f = 0 => \A i \in 1..Len(c) : ~Begins(tag, c, i)
      /\ f # 0 => Begins(tag, c, f) /\ \A i \in 1..Len(c) : Begins(tag, c, i) => f <= i
  BY FindFirst
<1>3. \A j \in 1..Len(c) : Begins(tag, t, n + j) <=> Begins(tag, c, j)
  BY BeginsBehind
<1>4. \A i \in 1..n : ~Begins(tag, t, i)
  OBVIOUS
<1>. HIDE DEF f, t, n
<1>5. ASSUME NEW i \in 1..Len(t), i \notin 1..n PROVE i - n \in 1..Len(c) /\ i = n + (i - n)
  BY <1>1, <1>5
<1>6. CASE f = 0
  <2>1. ASSUME NEW i \in 1..Len(t) PROVE ~Begins(tag, t, i)
    <3>1. CASE i \in 1..n
      BY <1>4, <3>1
    <3>2. CASE i \notin 1..n
      BY <1>2, <1>3, <1>5, <1>6, <3>2
    <3>. QED
      BY <3>1, <3>2
  <2>2. Find(t, tag) = 0
    BY <1>1, <2>1, FindIs
  <2>. QED
    BY <1>6, <2>2 DEF f, t
<1>7. CASE f # 0
  <2>1. n + f \in 1..Len(t) /\ Begins(tag, t, n + f)
    <3>1. f \in 1..Len(c) /\ Begins(tag, c, f)
      BY <1>1, <1>2, <1>7
    <3>. QED
      BY <1>1, <1>3, <3>1
  <2>2. ASSUME NEW i \in 1..((n + f) - 1) PROVE ~Begins(tag, t, i)
    <3>1. CASE i \in 1..n
      BY <1>4, <3>1
    <3>2. CASE i \notin 1..n
      <4>. DEFINE j == i - n
      <4>0. i \in 1..Len(t)
        BY <1>1, <1>2, <1>7
      <4>1. j \in 1..Len(c) /\ i = n + j /\ ~(f <= j)
        BY <1>1, <1>2, <1>5, <3>2, <4>0
      <4>. HIDE DEF j
      <4>. QED
        BY <1>2, <1>3, <1>7, <4>1
    <3>. QED
      BY <3>1, <3>2
  <2>3. Find(t, tag) = n + f
    <3>. DEFINE p == n + f
    <3>0. \A i \in 1..(p - 1) : ~Begins(tag, t, i)
      BY <2>2
    <3>1. p \in 1..Len(t) /\ Begins(tag, t, p)
      BY <2>1
    <3>. HIDE DEF p
    <3>2. Find(t, tag) = p
      BY <1>1, <3>0, <3>1, FindIs
    <3>. QED
      BY <3>2 DEF p
  <2>. QED
    BY <1>7, <2>3 DEF f, t, n
<1>. QED
  BY <1>6, <1>7

(* A tool tag that came first stays first.                                  *)
LEMMA ToolFirstGrows ==
  ASSUME NEW s \in Text, NEW c \in Text, ToolFirst(s) PROVE ToolFirst(s \o c)
<1>. DEFINE a == Find(s, ToolTag)
            t == s \o c
            b == Find(t, StartTag)
<1>1. /\ a # 0 /\ a \in 1..Len(s) /\ Begins(ToolTag, s, a) /\ Find(t, ToolTag) = a
      /\ Begins(ToolTag, t, a)
  <2>1. a # 0
    BY DEF ToolFirst
  <2>2. a \in 1..Len(s) /\ Begins(ToolTag, s, a)
    <3>1. ToolTag \in Text /\ a \in 0..Len(s) /\ Len(s) \in Nat
      BY FindFirst, Texts, Tags
    <3>. QED
      BY <2>1, <3>1, FindFirst
  <2>. QED
    BY <2>1, <2>2, FindGrows, BeginsLonger, Tags
<1>2. t \in Text
  BY Texts
<1>3. ASSUME b # 0 PROVE a < b
  <2>1. CASE Find(s, StartTag) # 0
    BY <1>1, <2>1, FindGrows, Tags DEF ToolFirst
  <2>2. CASE Find(s, StartTag) = 0
    <3>1. b \in 1..Len(t) /\ Begins(StartTag, t, b)
      <4>1. StartTag \in Text
        BY Tags
      <4>2. b \in 0..Len(t) /\ Len(t) \in Nat
        BY <1>2, <4>1, FindFirst, Texts
      <4>3. b \in 1..Len(t)
        BY <1>3, <4>2
      <4>. QED
        BY <1>2, <1>3, <4>1, <4>3, FindFirst
    <3>2. t[(a - 1) + 2] = "t" /\ t[(b - 1) + 2] = "f"
      <4>1. 2 \in 1..Len(ToolTag) /\ 2 \in 1..Len(StartTag)
        BY Tags
      <4>2. /\ \A k \in 1..Len(ToolTag) : t[(a - 1) + k] = ToolTag[k]
            /\ \A k \in 1..Len(StartTag) : t[(b - 1) + k] = StartTag[k]
        BY <1>1, <3>1 DEF Begins
      <4>. QED
        BY <4>1, <4>2, TagSigns
    <3>3. a # b
      BY <3>2
    <3>4. a + 2 <= Len(s) + 1 /\ Len(s) \in Nat
      BY <1>1, Tags, Texts DEF Begins
    <3>5. ASSUME b < a PROVE FALSE
      <4>1. b \in 1..Len(s) /\ b + 3 <= Len(s) + 1
        BY <1>1, <3>1, <3>4, <3>5
      <4>2. Begins(StartTag, s, b)
        BY <3>1, <4>1, BeginsLonger, Tags
      <4>. QED
        BY <2>2, <4>1, <4>2, FindFirst, Tags
    <3>6. a \in Nat /\ b \in Nat
      BY <1>1, <3>1, <3>4
    <3>. QED
      BY <3>3, <3>5, <3>6
  <2>. QED
    BY <2>1, <2>2
<1>. QED
  BY <1>1, <1>3 DEF ToolFirst

-----------------------------------------------------------------------------
(* What follows a tag.                                                      *)

LEMMA FromIs ==
  ASSUME NEW t \in Text, NEW g \in 0..Len(t)
  PROVE  /\ From(t, g + 1) \in Text /\ Len(From(t, g + 1)) = Len(t) - g
         /\ \A i \in 1..(Len(t) - g) : From(t, g + 1)[i] = t[g + i]
         /\ SubSeq(t, 1, g) \in Text /\ Len(SubSeq(t, 1, g)) = g
         /\ \A i \in 1..g : SubSeq(t, 1, g)[i] = t[i]
         /\ SubSeq(t, 1, g) \o From(t, g + 1) = t
<1>. DEFINE L == Len(t)
<1>1. L \in Nat /\ g \in 0..L /\ L \in 0..Len(t) /\ g <= L /\ 0 \in 0..L /\ 0 <= g /\ 0 + 1 = 1
      /\ g - 0 = g /\ \A i \in 1..g : 0 + i = i
  BY Texts
<1>. HIDE DEF L
<1>2. /\ SubSeq(t, g + 1, L) \in Text /\ Len(SubSeq(t, g + 1, L)) = L - g
      /\ \A i \in 1..(L - g) : SubSeq(t, g + 1, L)[i] = t[g + i]
  BY <1>1, PartOf
<1>3. SubSeq(t, 1, g) \o SubSeq(t, g + 1, L) = SubSeq(t, 1, L)
  BY <1>1, NextPart DEF Text
<1>4. SubSeq(t, 1, L) = t
  BY FirstOnes DEF Text, L
<1>5. /\ SubSeq(t, 0 + 1, g) \in Text /\ Len(SubSeq(t, 0 + 1, g)) = g - 0
      /\ \A i \in 1..(g - 0) : SubSeq(t, 0 + 1, g)[i] = t[0 + i]
  BY <1>1, PartOf DEF L
<1>6. /\ SubSeq(t, 1, g) \in Text /\ Len(SubSeq(t, 1, g)) = g
      /\ \A i \in 1..g : SubSeq(t, 1, g)[i] = t[i]
  BY <1>1, <1>5
<1>. QED
  BY <1>2, <1>3, <1>4, <1>6 DEF From, L

LEMMA AfterIs ==
  ASSUME NEW tag \in Text, NEW t \in Text, NEW g, Find(t, tag) # 0,
         g = (Find(t, tag) - 1) + Len(tag)
  PROVE  /\ g \in 0..Len(t) /\ After(t, tag) \in Text /\ Len(After(t, tag)) = Len(t) - g
         /\ \A i \in 1..(Len(t) - g) : After(t, tag)[i] = t[g + i]
<1>. DEFINE f == Find(t, tag)
<1>1. f \in 0..Len(t) /\ Begins(tag, t, f) /\ Len(tag) \in Nat /\ Len(t) \in Nat
  BY FindFirst, Texts
<1>2. f \in 1..Len(t) /\ f + Len(tag) <= Len(t) + 1
  BY <1>1 DEF Begins
<1>. HIDE DEF f
<1>3. g \in 0..Len(t) /\ f + Len(tag) = g + 1
  BY <1>1, <1>2 DEF f
<1>4. After(t, tag) = From(t, g + 1)
  BY <1>3 DEF After, f
<1>. QED
  <2>1. /\ From(t, g + 1) \in Text /\ Len(From(t, g + 1)) = Len(t) - g
        /\ \A i \in 1..(Len(t) - g) : From(t, g + 1)[i] = t[g + i]
    BY <1>3, FromIs
  <2>. QED
    BY <1>3, <1>4, <2>1

LEMMA AfterGrows ==
  ASSUME NEW tag \in Text, NEW s \in Text, NEW c \in Text, Find(s, tag) # 0
  PROVE  After(s \o c, tag) = After(s, tag) \o c
<1>. DEFINE t == s \o c
            g == (Find(s, tag) - 1) + Len(tag)
            u == After(s, tag)
            v == After(t, tag)
            w == u \o c
            n == Len(s) - g
            l == Len(c)
<1>1. Find(t, tag) = Find(s, tag)
  BY FindGrows
<1>2. /\ g \in 0..Len(s) /\ u \in Text /\ Len(u) = n /\ \A i \in 1..n : u[i] = s[g + i]
  BY AfterIs
<1>3. /\ t \in Text /\ Len(s) \in Nat /\ l \in Nat /\ Len(t) = Len(s) + l
      /\ \A i \in 1..Len(s) : t[i] = s[i]
      /\ \A i \in 1..l : t[Len(s) + i] = c[i]
  BY Texts
<1>4. /\ v \in Text /\ Len(v) = Len(t) - g /\ \A i \in 1..(Len(t) - g) : v[i] = t[g + i]
  <2>1. Find(t, tag) # 0 /\ g = (Find(t, tag) - 1) + Len(tag)
    BY <1>1
  <2>2. t \in Text
    BY <1>3
  <2>. HIDE DEF t, g
  <2>. QED
    BY ONLY tag \in Text, <2>1, <2>2, AfterIs
<1>5. /\ w \in Text /\ Len(w) = n + l /\ \A i \in 1..n : w[i] = u[i]
      /\ \A i \in 1..l : w[n + i] = c[i]
  <2>. HIDE DEF u, n
  <2>1. u \in Text /\ Len(u) = n
    BY <1>2
  <2>2. /\ u \o c \in Text /\ Len(u \o c) = Len(u) + Len(c)
        /\ \A i \in 1..Len(u) : (u \o c)[i] = u[i]
        /\ \A i \in 1..Len(c) : (u \o c)[Len(u) + i] = c[i]
    BY ONLY <2>1, c \in Text, Texts
  <2>. QED
    BY <2>1, <2>2
<1>. HIDE DEF t, g, u, v, w, l
<1>6. Len(v) = Len(w) /\ n \in Nat
  BY <1>2, <1>3, <1>4, <1>5
<1>7. ASSUME NEW i \in 1..Len(v) PROVE v[i] = w[i]
  <2>1. i \in 1..(n + l) /\ v[i] = t[g + i]
    BY <1>4, <1>5, <1>6
  <2>2. CASE i \in 1..n
    <3>1. g + i \in 1..Len(s)
      BY <1>2, <1>3, <2>2
    <3>. QED
      BY <1>2, <1>3, <1>5, <2>1, <2>2, <3>1
  <2>3. CASE i \notin 1..n
    <3>. DEFINE j == i - n
    <3>1. j \in 1..l /\ i = n + j /\ g + i = Len(s) + j
      BY <1>2, <1>3, <1>6, <2>1, <2>3
    <3>. HIDE DEF j
    <3>. QED
      BY <1>3, <1>5, <2>1, <3>1
  <2>. QED
    BY <2>2, <2>3
<1>8. v = w
  BY <1>4, <1>5, <1>6, <1>7, SameText
<1>. QED
  BY <1>8 DEF v, w, t, u

LEMMA AfterBehind ==
  ASSUME NEW tag \in Text, NEW s \in Text, NEW c \in Text, Find(c, tag) # 0,
         Find(s \o c, tag) = Len(s) + Find(c, tag)
  PROVE  After(s \o c, tag) = After(c, tag)
<1>. DEFINE t == s \o c
            g == (Find(c, tag) - 1) + Len(tag)
            h == (Find(t, tag) - 1) + Len(tag)
            u == After(c, tag)
            v == After(t, tag)
            l == Len(c)
<1>1. Find(c, tag) \in 0..l /\ Len(tag) \in Nat
  BY FindFirst, Texts
<1>2. /\ g \in 0..l /\ u \in Text /\ Len(u) = l - g /\ \A i \in 1..(l - g) : u[i] = c[g + i]
  BY AfterIs
<1>3. /\ t \in Text /\ Len(s) \in Nat /\ l \in Nat /\ Len(t) = Len(s) + l
      /\ \A i \in 1..l : t[Len(s) + i] = c[i]
  BY Texts
<1>4. Find(t, tag) # 0 /\ h = Len(s) + g
  BY <1>1, <1>3
<1>5. /\ v \in Text /\ Len(v) = Len(t) - h /\ \A i \in 1..(Len(t) - h) : v[i] = t[h + i]
  <2>1. h = (Find(t, tag) - 1) + Len(tag) /\ Find(t, tag) # 0
    BY <1>4
  <2>2. t \in Text
    BY <1>3
  <2>. HIDE DEF t, h
  <2>. QED
    BY <2>1, <2>2, AfterIs
<1>. HIDE DEF t, g, h, u, v, l
<1>6. Len(v) = l - g /\ Len(v) = Len(u) /\ Len(t) - h = l - g
  BY <1>2, <1>3, <1>4, <1>5
<1>7. ASSUME NEW i \in 1..Len(v) PROVE v[i] = u[i]
  <2>. DEFINE j == g + i
  <2>1. i \in 1..(l - g) /\ j \in 1..l /\ h + i = Len(s) + j
    BY <1>2, <1>3, <1>4, <1>6
  <2>2. v[i] = t[h + i] /\ u[i] = c[j]
    BY <1>2, <1>5, <1>6, <2>1
  <2>. HIDE DEF j
  <2>. QED
    BY <1>3, <2>1, <2>2
<1>8. v = u
  BY <1>2, <1>5, <1>6, <1>7, SameText
<1>. QED
  BY <1>8 DEF v, u, t

(* The last signs that are held of a text in which no tag was found.        *)
Held(t, b) == \E h \in Text : t = h \o b /\ (Len(b) = 2 \/ (Len(b) < 2 /\ Len(h) = 0))

LEMMA LargestOne ==
  ASSUME NEW e \in Int PROVE Max({1, e}) = IF e > 1 THEN e ELSE 1
<1>. DEFINE T == {1, e}
            r == IF e > 1 THEN e ELSE 1
<1>1. r \in T /\ (\A y \in T : r >= y) /\ \A x \in T : (\A y \in T : x >= y) => x = r
  OBVIOUS
<1>. HIDE DEF T, r
<1>2. Max(T) = r
  BY <1>1 DEF Max
<1>. QED
  BY <1>2 DEF T, r

LEMMA KeptHeld ==
  ASSUME NEW t \in Text PROVE Kept(t) \in Text /\ Len(Kept(t)) < 3 /\ Held(t, Kept(t))
<1>. DEFINE L == Len(t)
            m == Max({1, L - Len(StartTag) + 2})
            g == m - 1
            h == SubSeq(t, 1, g)
<1>1. L \in Nat
  BY Texts
<1>2. m = IF L - 1 > 1 THEN L - 1 ELSE 1
  <2>1. L - Len(StartTag) + 2 = L - 1 /\ L - 1 \in Int
    BY <1>1, Tags
  <2>. QED
    BY <2>1, LargestOne
<1>3. Kept(t) = From(t, m)
  BY DEF Kept
<1>. HIDE DEF L, m
<1>4. g \in 0..L /\ g + 1 = m /\ (L - g = 2 \/ (L - g < 2 /\ g = 0))
  <2>1. CASE L - 1 > 1
    BY <1>1, <1>2, <2>1
  <2>2. CASE ~(L - 1 > 1)
    <3>1. m = 1 /\ g = 0 /\ L <= 2
      BY <1>1, <1>2, <2>2
    <3>. QED
      BY <1>1, <3>1
  <2>. QED
    BY <2>1, <2>2
<1>. HIDE DEF g
<1>5. /\ From(t, g + 1) \in Text /\ Len(From(t, g + 1)) = L - g
      /\ h \in Text /\ Len(h) = g /\ h \o From(t, g + 1) = t
  BY <1>4, FromIs DEF L
<1>. HIDE DEF h
<1>6. Held(t, From(t, g + 1))
  BY <1>4, <1>5 DEF Held
<1>. QED
  BY <1>1, <1>3, <1>4, <1>5, <1>6

(* Held still, when a chunk has come behind.                                *)
LEMMA HeldGrows ==
  ASSUME NEW t \in Text, NEW b \in Text, NEW c \in Text, Held(t, b)
  PROVE  Held(t \o c, Kept(b \o c))
<1>1. PICK h \in Text : t = h \o b /\ (Len(b) = 2 \/ (Len(b) < 2 /\ Len(h) = 0))
  BY DEF Held
<1>. DEFINE u == b \o c
            k == Kept(u)
<1>2. u \in Text /\ Len(u) = Len(b) + Len(c) /\ Len(b) \in Nat /\ Len(c) \in Nat /\ Len(h) \in Nat
  BY Texts
<1>3. k \in Text /\ Held(u, k)
  BY <1>2, KeptHeld
<1>4. PICK f \in Text : u = f \o k /\ (Len(k) = 2 \/ (Len(k) < 2 /\ Len(f) = 0))
  BY <1>3 DEF Held
<1>. HIDE DEF u, k
<1>5. h \o f \in Text /\ Len(h \o f) = Len(h) + Len(f)
  BY Texts
<1>6. (h \o b) \o c = h \o u
  <2>1. Behind(Behind(h, b), c) = Behind(h, Behind(b, c))
    BY ONLY h \in Text, b \in Text, c \in Text, Three DEF Text
  <2>. QED
    BY <2>1 DEF Behind, u
<1>7. h \o (f \o k) = (h \o f) \o k
  <2>1. Behind(Behind(h, f), k) = Behind(h, Behind(f, k))
    BY ONLY h \in Text, f \in Text, <1>3, Three DEF Text
  <2>. QED
    BY <2>1 DEF Behind
<1>8. t \o c = (h \o f) \o k
  BY <1>1, <1>4, <1>6, <1>7
<1>9. Len(k) = 2 \/ (Len(k) < 2 /\ Len(h \o f) = 0)
  <2>1. CASE Len(k) = 2
    BY <2>1
  <2>2. CASE Len(k) # 2
    <3>1. Len(k) < 2 /\ Len(f) = 0 /\ Len(k) \in Nat
      BY <1>3, <1>4, <2>2, Texts
    <3>2. Len(u) = Len(k)
      BY <1>3, <1>4, <3>1, Texts
    <3>3. Len(b) < 2 /\ Len(h) = 0
      <4>1. Len(b) < 2
        BY ONLY <1>2, <3>1, <3>2
      <4>2. Len(b) = 2 \/ (Len(b) < 2 /\ Len(h) = 0)
        BY <1>1
      <4>. DEFINE x == Len(b)
                  y == Len(h)
      <4>3. x < 2 /\ (x = 2 \/ (x < 2 /\ y = 0)) /\ x \in Nat
        BY <1>2, <4>1, <4>2
      <4>. HIDE DEF x, y
      <4>4. x # 2
        BY ONLY <4>3
      <4>5. x < 2 /\ y = 0
        BY ONLY <4>3, <4>4
      <4>. QED
        BY <4>5 DEF x, y
    <3>. QED
      BY <1>5, <3>1, <3>3
  <2>. QED
    BY <2>1, <2>2
<1>10. Held(t \o c, k)
  BY <1>5, <1>8, <1>9 DEF Held
<1>. QED
  BY <1>10 DEF k, u

(* A tag that was not found of a text is found behind it where it is found  *)
(* behind what is held.                                                     *)
HeldBehind(h, b) == Len(b) = 2 \/ (Len(b) < 2 /\ Len(h) = 0)

LEMMA HeldFind ==
  ASSUME NEW tag \in Text, NEW h \in Text, NEW b \in Text, NEW c \in Text, HeldBehind(h, b),
         Len(tag) <= 3, Find(h \o b, tag) = 0
  PROVE  Find(h \o (b \o c), tag) =
           IF Find(b \o c, tag) = 0 THEN 0 ELSE Len(h) + Find(b \o c, tag)
<1>. DEFINE t == h \o b
            u == b \o c
<1>2. /\ t \in Text /\ u \in Text /\ Len(h) \in Nat /\ Len(b) \in Nat /\ Len(tag) \in Nat
      /\ Len(t) = Len(h) + Len(b)
  BY Texts
<1>4. t \o c = h \o u
  <2>1. Behind(Behind(h, b), c) = Behind(h, Behind(b, c))
    BY ONLY h \in Text, b \in Text, c \in Text, Three DEF Text
  <2>. QED
    BY <2>1 DEF Behind
<1>. HIDE DEF u, t
<1>5. ASSUME NEW i \in 1..Len(h), Begins(tag, h \o u, i) PROVE FALSE
  <2>1. i \in 1..Len(t) /\ i + Len(tag) <= Len(t) + 1
    <3>. DEFINE x == Len(b)
                y == Len(h)
                m == Len(tag)
                z == Len(t)
    <3>3. /\ x = 2 \/ (x < 2 /\ y = 0)
          /\ m <= 3 /\ i \in 1..y /\ x \in Nat /\ y \in Nat /\ m \in Nat /\ z = y + x
      BY <1>2 DEF HeldBehind
    <3>. HIDE DEF x, y, m, z
    <3>4. x = 2
      BY ONLY <3>3
    <3>5. i \in 1..z /\ i + m <= z + 1
      BY ONLY <3>3, <3>4
    <3>. QED
      BY <3>5 DEF m, z
  <2>2. Begins(tag, t \o c, i)
    BY <1>4, <1>5
  <2>3. Begins(tag, t, i)
    BY <1>2, <2>1, <2>2, BeginsLonger
  <2>4. Find(t, tag) = 0
    BY DEF t
  <2>. QED
    BY <1>2, <2>1, <2>3, <2>4, FindFirst
<1>6. Find(h \o u, tag) = IF Find(u, tag) = 0 THEN 0 ELSE Len(h) + Find(u, tag)
  BY <1>2, <1>5, FindBehind
<1>. QED
  BY <1>6 DEF u

LEMMA HeldAll ==
  ASSUME NEW t \in Text, NEW b \in Text, NEW c \in Text, Held(t, b),
         Find(t, StartTag) = 0, Find(t, ToolTag) = 0
  PROVE  /\ ToolFirst(t \o c) <=> ToolFirst(b \o c)
         /\ Find(t \o c, StartTag) = 0 <=> Find(b \o c, StartTag) = 0
         /\ Find(t \o c, StartTag) # 0 => After(t \o c, StartTag) = After(b \o c, StartTag)
<1>1. PICK h \in Text : t = h \o b /\ HeldBehind(h, b)
  BY DEF Held, HeldBehind
<1>. DEFINE u == b \o c
<1>2. t \o c = h \o u
  <2>1. Behind(Behind(h, b), c) = Behind(h, Behind(b, c))
    BY ONLY h \in Text, b \in Text, c \in Text, Three DEF Text
  <2>. QED
    BY <1>1, <2>1 DEF Behind
<1>. DEFINE m == Find(u, StartTag)
            n == Find(u, ToolTag)
            l == Len(h)
<1>0. /\ StartTag \in Text /\ Len(StartTag) <= 3 /\ ToolTag \in Text /\ Len(ToolTag) <= 3
      /\ HeldBehind(h, b) /\ Find(h \o b, StartTag) = 0 /\ Find(h \o b, ToolTag) = 0
  BY <1>1, Tags
<1>3. Find(h \o u, StartTag) = IF m = 0 THEN 0 ELSE l + m
  BY ONLY h \in Text, b \in Text, c \in Text, <1>0, HeldFind
<1>4. Find(h \o u, ToolTag) = IF n = 0 THEN 0 ELSE l + n
  BY ONLY h \in Text, b \in Text, c \in Text, <1>0, HeldFind
<1>5. u \in Text /\ l \in Nat /\ Len(u) \in Nat
  BY Texts
<1>. HIDE DEF u
<1>6. m \in 0..Len(u) /\ n \in 0..Len(u)
  BY <1>5, FindFirst, Tags
<1>. HIDE DEF l
<1>7. ToolFirst(h \o u) <=> ToolFirst(u)
  <2>. HIDE DEF m, n
  <2>1. ToolFirst(u) <=> n # 0 /\ (m # 0 => n < m)
    BY DEF ToolFirst, m, n
  <2>2. ToolFirst(h \o u) <=> n # 0 /\ (m # 0 => n < m)
    BY <1>3, <1>4, <1>5, <1>6 DEF ToolFirst
  <2>. QED
    BY <2>1, <2>2
<1>8. Find(h \o u, StartTag) = 0 <=> m = 0
  <2>. HIDE DEF m
  <2>. QED
    BY <1>3, <1>5, <1>6
<1>9. ASSUME m # 0 PROVE After(h \o u, StartTag) = After(u, StartTag)
  BY <1>3, <1>5, <1>9, AfterBehind, Tags DEF l
<1>. QED
  BY <1>2, <1>7, <1>8, <1>9 DEF u

-----------------------------------------------------------------------------
(* The end of the answer.                                                   *)

(* An end tag that would begin at a place of a text is seen not to.         *)
Differs(text, p) ==
  \E k \in 1..4 : (p - 1) + k <= Len(text) /\ text[(p - 1) + k] # EndTag[k]

LEMMA DiffersEnds ==
  ASSUME NEW t \in Text, NEW p \in 1..Len(t), Differs(t, p) PROVE ~Begins(EndTag, t, p)
BY Tags DEF Differs, Begins

LEMMA DiffersLonger ==
  ASSUME NEW s \in Text, NEW c \in Text, NEW p \in 1..Len(s), Differs(s, p)
  PROVE  Differs(s \o c, p)
<1>1. PICK k \in 1..4 : (p - 1) + k <= Len(s) /\ s[(p - 1) + k] # EndTag[k]
  BY DEF Differs
<1>. DEFINE q == (p - 1) + k
            t == s \o c
<1>2. /\ Len(s) \in Nat /\ Len(c) \in Nat /\ Len(t) = Len(s) + Len(c)
      /\ \A i \in 1..Len(s) : t[i] = s[i]
  BY Texts
<1>3. q \in 1..Len(s)
  BY <1>1, <1>2
<1>. HIDE DEF t
<1>4. q <= Len(t) /\ t[q] # EndTag[k]
  BY <1>1, <1>2, <1>3
<1>. QED
  BY <1>4 DEF Differs, t

LEMMA DiffersBehind ==
  ASSUME NEW s \in Text, NEW c \in Text, NEW j \in 1..Len(c), Differs(c, j)
  PROVE  Differs(s \o c, Len(s) + j)
<1>1. PICK k \in 1..4 : (j - 1) + k <= Len(c) /\ c[(j - 1) + k] # EndTag[k]
  BY DEF Differs
<1>. DEFINE q == (j - 1) + k
            t == s \o c
            n == Len(s)
            l == Len(c)
<1>2. /\ n \in Nat /\ l \in Nat /\ Len(t) = n + l
      /\ \A i \in 1..l : t[n + i] = c[i]
  BY Texts
<1>. HIDE DEF t, n, l
<1>3. q \in 1..l /\ ((n + j) - 1) + k = n + q /\ n + q <= Len(t)
  BY <1>1, <1>2 DEF l
<1>4. t[n + q] # EndTag[k]
  BY <1>1, <1>2, <1>3
<1>5. ((n + j) - 1) + k <= Len(t) /\ t[((n + j) - 1) + k] # EndTag[k]
  BY <1>3, <1>4
<1>6. Differs(t, n + j)
  BY <1>5 DEF Differs
<1>. QED
  BY <1>6 DEF t, n

(* Behind a text no place of which begins an end tag.                       *)
LEMMA EndFound ==
  ASSUME NEW s \in Text, NEW c \in Text, \A p \in 1..Len(s) : Differs(s \o c, p)
  PROVE  Find(s \o c, EndTag) = IF Find(c, EndTag) = 0 THEN 0 ELSE Len(s) + Find(c, EndTag)
<1>1. s \o c \in Text /\ \A p \in 1..Len(s) : p \in 1..Len(s \o c)
  BY Texts
<1>2. \A p \in 1..Len(s) : ~Begins(EndTag, s \o c, p)
  BY <1>1, DiffersEnds
<1>. QED
  BY <1>2, Tags, FindBehind

(* _safe_emit_length: what is held back begins an end tag, and nothing that *)
(* is let through does.                                                     *)
LEMMA SafeIs ==
  ASSUME NEW t \in Text
  PROVE  /\ SafeLength(t) \in 0..Len(t) /\ Len(t) - SafeLength(t) <= 3
         /\ IsPrefix(From(t, SafeLength(t) + 1), EndTag)
         /\ Find(t, EndTag) = 0 => \A p \in 1..SafeLength(t) : Differs(t, p)
<1>. DEFINE L == Len(t)
            top == Min({Len(EndTag) - 1, L})
            T == {n \in 0..top : IsPrefix(From(t, L - n + 1), EndTag)}
            m == Max(T)
<1>1. L \in Nat /\ Len(EndTag) - 1 = 3
  BY Texts, Tags
<1>2. SafeLength(t) = L - m
  BY DEF SafeLength
<1>3. top \in 0..L /\ top <= 3 /\ (top = 3 \/ top = L)
  <2>. DEFINE r == IF 3 < L THEN 3 ELSE L
  <2>. HIDE DEF L
  <2>1. /\ r \in {3, L} /\ \A y \in {3, L} : r <= y
        /\ \A x \in {3, L} : (\A y \in {3, L} : x <= y) => x = r
    BY <1>1
  <2>. HIDE DEF r
  <2>2. Min({3, L}) = r
    BY <2>1 DEF Min
  <2>3. top = r
    BY <1>1, <2>2
  <2>. QED
    BY <1>1, <2>3 DEF r
<1>. HIDE DEF L, top
<1>4. \A n \in 0..top : L - n \in 0..L /\ L - (L - n) = n
  BY <1>1, <1>3
<1>5. \A n \in 0..top : /\ From(t, L - n + 1) \in Text /\ Len(From(t, L - n + 1)) = n
                        /\ \A i \in 1..n : From(t, L - n + 1)[i] = t[(L - n) + i]
  <2>. SUFFICES ASSUME NEW n \in 0..top
                PROVE  /\ From(t, L - n + 1) \in Text /\ Len(From(t, L - n + 1)) = n
                       /\ \A i \in 1..n : From(t, L - n + 1)[i] = t[(L - n) + i]
    OBVIOUS
  <2>. DEFINE g == L - n
  <2>1. g \in 0..Len(t) /\ Len(t) - g = n
    BY <1>4 DEF L
  <2>. HIDE DEF g
  <2>2. /\ From(t, g + 1) \in Text /\ Len(From(t, g + 1)) = n
        /\ \A i \in 1..n : From(t, g + 1)[i] = t[g + i]
    BY <2>1, FromIs
  <2>. QED
    BY <2>2 DEF g
<1>6. 0 \in T
  <2>1. 0 \in 0..top
    BY <1>3
  <2>2. From(t, L - 0 + 1) \in Text /\ Len(From(t, L - 0 + 1)) = 0
    BY <1>5, <2>1
  <2>3. IsPrefix(From(t, L - 0 + 1), EndTag)
    BY <2>2, PrefixText, Tags
  <2>. QED
    BY <2>1, <2>3
<1>7. m \in T /\ \A n \in T : n <= m
  <2>. DEFINE D == {top - n : n \in T}
  <2>1. T \subseteq 0..top /\ top \in Nat
    BY <1>3
  <2>. HIDE DEF T
  <2>2. D \subseteq Nat /\ D # {}
    BY <1>6, <2>1
  <2>3. PICK d \in D : \A x \in D : d <= x
    BY <2>2, LeastNumber
  <2>4. PICK n \in T : d = top - n
    BY <2>3
  <2>5. \A x \in T : n >= x
    BY <2>1, <2>3, <2>4
  <2>6. m \in T /\ \A x \in T : m >= x
    BY <2>5 DEF Max
  <2>. QED
    BY <2>1, <2>6
<1>8. m \in 0..top /\ IsPrefix(From(t, L - m + 1), EndTag)
  BY <1>7
<1>. HIDE DEF m
<1>9. ASSUME Find(t, EndTag) = 0, NEW p \in 1..(L - m) PROVE Differs(t, p)
  <2>0. p \in 1..L /\ p \in Nat
    BY <1>1, <1>3, <1>8
  <2>1. CASE p + 3 <= L
    <3>1. ~Begins(EndTag, t, p)
      BY <1>9, <2>0, Tags, FindFirst DEF L
    <3>2. p + Len(EndTag) <= L + 1 /\ Len(EndTag) = 4
      BY <1>1, <2>0, <2>1, Tags
    <3>3. PICK k \in 1..4 : t[(p - 1) + k] # EndTag[k]
      BY <2>0, <3>1, <3>2 DEF Begins, L
    <3>4. (p - 1) + k <= L
      BY <1>1, <2>0, <2>1
    <3>. QED
      BY <3>3, <3>4 DEF Differs, L
  <2>2. CASE ~(p + 3 <= L)
    <3>. DEFINE n == (L - p) + 1
    <3>1. n \in 1..top /\ n \in 0..top /\ L - n + 1 = p /\ L - n = p - 1 /\ ~(n <= m)
      BY <1>1, <1>3, <1>8, <2>0, <2>2
    <3>. HIDE DEF n
    <3>2. ~IsPrefix(From(t, L - n + 1), EndTag)
      BY <1>7, <3>1
    <3>. DEFINE u == From(t, L - n + 1)
    <3>3. u \in Text /\ Len(u) = n /\ \A i \in 1..n : u[i] = t[(L - n) + i]
      BY <1>5, <3>1
    <3>. HIDE DEF u
    <3>4. n <= 4
      BY <1>3, <3>1
    <3>5. ~(\A i \in 1..n : EndTag[i] = u[i])
      BY <3>2, <3>3, <3>4, PrefixText, Tags DEF u
    <3>6. PICK k \in 1..n : EndTag[k] # u[k]
      BY <3>5
    <3>7. k \in 1..4 /\ (p - 1) + k <= L
      BY <1>1, <1>3, <2>0, <3>1, <3>4
    <3>8. t[(p - 1) + k] # EndTag[k]
      BY <3>1, <3>3, <3>6
    <3>. QED
      BY <3>7, <3>8 DEF Differs, L
  <2>. QED
    BY <2>1, <2>2
<1>. QED
  BY <1>1, <1>2, <1>3, <1>8, <1>9 DEF L

LEMMA FrontGrows ==
  ASSUME NEW s \in Text, NEW c \in Text, NEW k \in 0..Len(s)
  PROVE  SubSeq(s \o c, 1, k) = SubSeq(s, 1, k)
<1>. DEFINE t == s \o c
            u == SubSeq(t, 1, k)
            v == SubSeq(s, 1, k)
<1>1. /\ t \in Text /\ Len(s) \in Nat /\ Len(c) \in Nat /\ Len(t) = Len(s) + Len(c)
      /\ \A i \in 1..Len(s) : t[i] = s[i]
  BY Texts
<1>2. k \in 0..Len(t) /\ k \in Nat
  BY <1>1
<1>3. v \in Text /\ Len(v) = k /\ \A i \in 1..k : v[i] = s[i]
  BY FromIs
<1>. HIDE DEF t
<1>4. u \in Text /\ Len(u) = k /\ \A i \in 1..k : u[i] = t[i]
  BY <1>1, <1>2, FromIs
<1>. HIDE DEF u, v
<1>5. ASSUME NEW i \in 1..k PROVE u[i] = v[i]
  <2>1. i \in 1..Len(s)
    BY <1>1
  <2>. QED
    BY <1>1, <1>3, <1>4, <2>1
<1>6. u = v
  BY <1>3, <1>4, <1>5, SameText
<1>. QED
  BY <1>6 DEF u, v, t

LEMMA FrontBehind ==
  ASSUME NEW s \in Text, NEW c \in Text, NEW k \in 0..Len(c)
  PROVE  SubSeq(s \o c, 1, Len(s) + k) = s \o SubSeq(c, 1, k)
<1>. DEFINE a == SubSeq(c, 1, k)
            d == From(c, k + 1)
            u == s \o a
<1>1. a \in Text /\ d \in Text /\ Len(a) = k /\ a \o d = c
  BY FromIs
<1>. HIDE DEF a, d
<1>2. u \in Text /\ Len(u) = Len(s) + k /\ Len(s) \in Nat
  BY <1>1, Texts
<1>3. s \o c = u \o d
  <2>1. Behind(Behind(s, a), d) = Behind(s, Behind(a, d))
    BY ONLY s \in Text, <1>1, Three DEF Text
  <2>. QED
    BY <1>1, <2>1 DEF Behind
<1>. HIDE DEF u
<1>4. Len(s) + k = Len(u) /\ Len(u) \in 0..Len(u)
  BY <1>2
<1>5. SubSeq(u \o d, 1, Len(u)) = SubSeq(u, 1, Len(u))
  BY <1>1, <1>2, <1>4, FrontGrows
<1>6. SubSeq(u, 1, Len(u)) = u
  BY <1>2, FirstOnes DEF Text
<1>. QED
  BY <1>3, <1>4, <1>5, <1>6 DEF u, a

(* The answer that ended does not grow.                                     *)
LEMMA ContentGrows ==
  ASSUME NEW s \in Text, NEW c \in Text, Find(s, StartTag) # 0,
         Find(After(s, StartTag), EndTag) # 0
  PROVE  /\ Find(After(s \o c, StartTag), EndTag) # 0
         /\ Content(s \o c) = Content(s)
<1>. DEFINE a == After(s, StartTag)
            b == After(s \o c, StartTag)
            f == Find(a, EndTag)
<1>1. a \in Text
  BY AfterIs, Tags
<1>2. b = a \o c
  BY AfterGrows, Tags
<1>. HIDE DEF a, b
<1>3. f \in 0..Len(a) /\ Len(a) \in Nat
  BY <1>1, FindFirst, Texts, Tags
<1>4. f # 0
  BY DEF a
<1>5. f - 1 \in 0..Len(a)
  BY <1>3, <1>4
<1>6. Find(b, EndTag) = f
  BY <1>1, <1>2, <1>4, FindGrows, Tags
<1>. HIDE DEF f
<1>7. SubSeq(b, 1, f - 1) = SubSeq(a, 1, f - 1)
  BY <1>1, <1>2, <1>5, FrontGrows
<1>8. Content(s) = SubSeq(a, 1, f - 1)
  BY <1>4 DEF Content, a, f
<1>9. Content(s \o c) = SubSeq(b, 1, f - 1)
  BY <1>4, <1>6 DEF Content, b
<1>. QED
  BY <1>4, <1>6, <1>7, <1>8, <1>9 DEF b

(* The answer that has not ended.                                           *)
LEMMA ContentOpen ==
  ASSUME NEW t, Find(After(t, StartTag), EndTag) = 0 PROVE Content(t) = After(t, StartTag)
BY DEF Content

LEMMA StrictShorter ==
  ASSUME NEW b \in Text
  PROVE  /\ IsStrictPrefix(b, EndTag) => Len(b) < 4 /\ Find(b, EndTag) = 0
         /\ IsPrefix(b, EndTag) /\ Len(b) < 4 => IsStrictPrefix(b, EndTag)
<1>1. ASSUME IsStrictPrefix(b, EndTag) PROVE Len(b) < 4 /\ Find(b, EndTag) = 0
  <2>1. /\ Len(b) <= 4 /\ \A i \in 1..Len(b) : EndTag[i] = b[i]
        /\ b # EndTag
    <3>1. IsPrefix(b, EndTag) /\ b # EndTag
      BY <1>1 DEF IsStrictPrefix
    <3>2. EndTag \in Text /\ Len(EndTag) = 4
      BY Tags
    <3>3. Len(b) <= Len(EndTag) /\ \A i \in 1..Len(b) : EndTag[i] = b[i]
      BY ONLY b \in Text, <3>1, <3>2, PrefixText
    <3>. QED
      BY <3>1, <3>2, <3>3
  <2>2. Len(b) # 4
    BY <2>1, SameText, Tags
  <2>3. Len(b) < 4 /\ Len(b) \in Nat
    <3>. DEFINE x == Len(b)
    <3>1. x \in Nat /\ x <= 4 /\ x # 4
      BY <2>1, <2>2, Texts
    <3>. HIDE DEF x
    <3>2. x < 4
      BY ONLY <3>1
    <3>. QED
      BY <3>1, <3>2 DEF x
  <2>4. ASSUME NEW i \in 1..Len(b) PROVE ~Begins(EndTag, b, i)
    BY <2>3, Tags DEF Begins
  <2>. QED
    BY <2>3, <2>4, FindIs, Tags
<1>2. ASSUME IsPrefix(b, EndTag), Len(b) < 4 PROVE IsStrictPrefix(b, EndTag)
  <2>1. b # EndTag
    <3>1. Len(b) # 4
      <4>. DEFINE x == Len(b)
      <4>1. x < 4 /\ x \in Nat
        BY <1>2, Texts
      <4>. HIDE DEF x
      <4>2. x # 4
        BY ONLY <4>1
      <4>. QED
        BY <4>2 DEF x
    <3>. QED
      BY <3>1, Tags
  <2>. QED
    BY <1>2, <2>1 DEF IsStrictPrefix
<1>. QED
  BY <1>1, <1>2

-----------------------------------------------------------------------------
(* The filter over the steps.                                               *)

StreamTypes ==
  /\ reply \in Replies /\ arrived \in 0..Len(reply) /\ streams \in 1..MaxStreams
  /\ buffer \in Text /\ shown \in Text /\ inFinal \in BOOLEAN /\ closed \in BOOLEAN
  /\ closed => inFinal
  /\ ~inFinal => Len(buffer) < 3 /\ shown = <<>>
  /\ inFinal /\ ~closed => IsStrictPrefix(buffer, EndTag)

(* What the filter knows of a text that it was fed from its beginning: that *)
(* no tag has come, and the last signs; or the answer so far, of which what *)
(* was shown holds no end; or the whole answer.                             *)
Knows(text, held, in, done, out) ==
  /\ ~in => Find(text, StartTag) = 0 /\ Find(text, ToolTag) = 0 /\ Held(text, held)
  /\ in => Find(text, StartTag) # 0
  /\ in /\ ~done =>
       /\ After(text, StartTag) = out \o held
       /\ \A p \in 1..Len(out) : Differs(After(text, StartTag), p)
  /\ done => Find(After(text, StartTag), EndTag) # 0 /\ Content(text) = out

Filtered(text) == Knows(text, buffer, inFinal, closed, shown)

StreamInv ==
  /\ StreamTypes
  /\ streams = 1 /\ ~ToolFirst(Fed) => Filtered(Fed)
  /\ parsed # NotParsed => arrived = Len(reply) /\ parsed = Parse(reply)

LEMMA RepliesAreTexts == ASSUME NEW r \in Replies PROVE r \in Text
<1>. DEFINE X == UNION {ToSet(s) : s \in Replies}
<1>1. r \in Seq(X)
  BY StreamAssumption
<1>2. X \subseteq Signs
  BY DEF Signs
<1>. HIDE DEF X
<1>3. Len(r) \in Nat /\ r \in [1..Len(r) -> X]
  BY <1>1
<1>4. r \in [1..Len(r) -> Signs]
  BY <1>2, <1>3
<1>. QED
  BY <1>3, <1>4 DEF Text

LEMMA NoText == <<>> \in Text /\ Len(<<>>) = 0
BY DEF Text

(* The answer so far that the filter goes on from.                          *)
LEMMA FinalText ==
  ASSUME StreamTypes, NEW chunk \in Text, ~Waiting(buffer \o chunk)
  PROVE  (IF inFinal THEN buffer \o chunk ELSE After(buffer \o chunk, StartTag)) \in Text
<1>. DEFINE text == buffer \o chunk
<1>1. text \in Text
  BY Texts DEF StreamTypes
<1>2. ASSUME ~inFinal PROVE Find(text, StartTag) # 0
  BY <1>2 DEF Waiting
<1>. HIDE DEF text
<1>3. ASSUME ~inFinal PROVE After(text, StartTag) \in Text
  BY <1>1, <1>2, <1>3, AfterIs, Tags
<1>. QED
  BY <1>1, <1>3 DEF text

LEMMA FeedTypes ==
  ASSUME StreamTypes, NEW chunk \in Text, Feed(chunk)
  PROVE  /\ buffer' \in Text /\ shown' \in Text /\ inFinal' \in BOOLEAN /\ closed' \in BOOLEAN
         /\ closed' => inFinal'
         /\ ~inFinal' => Len(buffer') < 3 /\ shown' = <<>>
         /\ inFinal' /\ ~closed' => IsStrictPrefix(buffer', EndTag)
<1>. DEFINE text == buffer \o chunk
            final == IF inFinal THEN text ELSE After(text, StartTag)
            end == Find(final, EndTag)
            g == SafeLength(final)
<1>0. text \in Text /\ shown \in Text /\ inFinal \in BOOLEAN /\ closed \in BOOLEAN
  BY Texts DEF StreamTypes
<1>1. CASE closed /\ UNCHANGED <<buffer, inFinal, closed, shown>>
  BY <1>1 DEF StreamTypes
<1>2. CASE /\ ~closed /\ Waiting(text)
           /\ buffer' = Kept(text) /\ UNCHANGED <<inFinal, closed, shown>>
  <2>1. ~inFinal /\ shown = <<>>
    BY <1>2 DEF Waiting, StreamTypes
  <2>. HIDE DEF text
  <2>2. buffer' \in Text /\ Len(buffer') < 3
    BY <1>0, <1>2, KeptHeld
  <2>. QED
    BY <1>0, <1>2, <2>1, <2>2
<1>3. CASE /\ ~closed /\ ~Waiting(text) /\ end # 0
           /\ shown' = shown \o SubSeq(final, 1, end - 1)
           /\ buffer' = From(final, end + Len(EndTag))
           /\ inFinal' = TRUE /\ closed' = TRUE
  <2>1. final \in Text
    BY <1>3, FinalText
  <2>. HIDE DEF final
  <2>2. end \in 0..Len(final) /\ Len(final) \in Nat
    BY <2>1, FindFirst, Texts, Tags
  <2>3. end - 1 \in 0..Len(final)
    BY <1>3, <2>2
  <2>4. SubSeq(final, 1, end - 1) \in Text
    <3>. DEFINE k == end - 1
    <3>. HIDE DEF k
    <3>1. k \in 0..Len(final)
      BY <2>3 DEF k
    <3>2. SubSeq(final, 1, k) \in Text
      BY <2>1, <3>1, FromIs
    <3>. QED
      BY <3>2 DEF k
  <2>5. shown' \in Text
    BY <1>0, <1>3, <2>4, Texts
  <2>6. buffer' = After(final, EndTag)
    BY <1>3 DEF After
  <2>7. buffer' \in Text
    BY <1>3, <2>1, <2>6, AfterIs, Tags
  <2>. QED
    BY <1>3, <2>5, <2>7
<1>4. CASE /\ ~closed /\ ~Waiting(text) /\ end = 0
           /\ shown' = shown \o SubSeq(final, 1, g)
           /\ buffer' = From(final, g + 1)
           /\ inFinal' = TRUE /\ UNCHANGED closed
  <2>1. final \in Text
    BY <1>4, FinalText
  <2>. HIDE DEF final
  <2>2. g \in 0..Len(final) /\ Len(final) - g <= 3 /\ IsPrefix(From(final, g + 1), EndTag)
    BY <2>1, SafeIs
  <2>. HIDE DEF g
  <2>3. /\ SubSeq(final, 1, g) \in Text /\ From(final, g + 1) \in Text
        /\ Len(From(final, g + 1)) = Len(final) - g
    BY <2>1, <2>2, FromIs
  <2>4. shown' \in Text /\ buffer' \in Text
    BY <1>0, <1>4, <2>3, Texts
  <2>5. IsPrefix(buffer', EndTag) /\ Len(buffer') <= 3
    BY <1>4, <2>2, <2>3
  <2>6. Len(buffer') < 4
    <3>. DEFINE x == Len(buffer')
    <3>1. x \in Nat /\ x <= 3
      BY <2>4, <2>5, Texts
    <3>. HIDE DEF x
    <3>2. x < 4
      BY ONLY <3>1
    <3>. QED
      BY <3>2 DEF x
  <2>7. IsStrictPrefix(buffer', EndTag)
    BY <2>4, <2>5, <2>6, StrictShorter
  <2>. QED
    BY <1>0, <1>4, <2>4, <2>7
<1>. QED
  <2>. HIDE DEF g
  <2>. QED
    BY <1>1, <1>2, <1>3, <1>4 DEF Feed, g

(* While the filter lets through, what it showed and what it goes on from   *)
(* are the answer so far.                                                   *)
LEMMA AnswerSoFar ==
  ASSUME StreamTypes, NEW f \in Text, NEW chunk \in Text, ~closed, ~Waiting(buffer \o chunk),
         ~ToolFirst(f \o chunk), Filtered(f),
         NEW final, final = IF inFinal THEN buffer \o chunk ELSE After(buffer \o chunk, StartTag)
  PROVE  /\ Find(f \o chunk, StartTag) # 0
         /\ After(f \o chunk, StartTag) = shown \o final
         /\ \A p \in 1..Len(shown) : Differs(shown \o final, p)
<1>. DEFINE text == buffer \o chunk
            a == After(f, StartTag)
<1>0. buffer \in Text /\ shown \in Text
  BY DEF StreamTypes
<1>1. CASE inFinal
  <2>1. Find(f, StartTag) # 0 /\ a = shown \o buffer /\ \A p \in 1..Len(shown) : Differs(a, p)
    BY <1>1 DEF Filtered, Knows
  <2>2. Find(f \o chunk, StartTag) # 0 /\ After(f \o chunk, StartTag) = a \o chunk
    BY <2>1, FindGrows, AfterGrows, Tags
  <2>3. (shown \o buffer) \o chunk = shown \o (buffer \o chunk)
    <3>1. Behind(Behind(shown, buffer), chunk) = Behind(shown, Behind(buffer, chunk))
      BY ONLY <1>0, chunk \in Text, Three DEF Text
    <3>. QED
      BY <3>1 DEF Behind
  <2>4. a \o chunk = shown \o final
    BY <1>1, <2>1, <2>3
  <2>5. a \in Text /\ \A p \in 1..Len(shown) : p \in 1..Len(a)
    BY <1>0, <2>1, Texts
  <2>. HIDE DEF a
  <2>6. \A p \in 1..Len(shown) : Differs(a \o chunk, p)
    BY <2>1, <2>5, DiffersLonger
  <2>. QED
    BY <2>2, <2>4, <2>6
<1>2. CASE ~inFinal
  <2>1. Find(f, StartTag) = 0 /\ Find(f, ToolTag) = 0 /\ Held(f, buffer) /\ shown = <<>>
    BY <1>2 DEF Filtered, Knows, StreamTypes
  <2>2. Find(text, StartTag) # 0 /\ final = After(text, StartTag)
    BY <1>2 DEF Waiting
  <2>3. Find(f \o chunk, StartTag) # 0 /\ After(f \o chunk, StartTag) = final
    BY <1>0, <2>1, <2>2, HeldAll
  <2>4. final \in Text
    <3>1. text \in Text
      BY <1>0, Texts
    <3>. HIDE DEF text
    <3>. QED
      BY <2>2, <3>1, AfterIs, Tags
  <2>5. <<>> \o final = final
    BY <2>4 DEF Text
  <2>6. Len(shown) = 0
    BY <2>1, NoText
  <2>. QED
    BY <2>1, <2>3, <2>5, <2>6
<1>. QED
  BY <1>1, <1>2

LEMMA FeedFilters ==
  ASSUME StreamTypes, NEW f \in Text, NEW chunk \in Text, Feed(chunk),
         ~ToolFirst(f \o chunk), Filtered(f)
  PROVE  Knows(f \o chunk, buffer', inFinal', closed', shown')
<1>. DEFINE text == buffer \o chunk
            final == IF inFinal THEN text ELSE After(text, StartTag)
            end == Find(final, EndTag)
            g == SafeLength(final)
            t == f \o chunk
            A == After(t, StartTag)
<1>0. buffer \in Text /\ shown \in Text /\ text \in Text /\ t \in Text
  BY Texts DEF StreamTypes
<1>1. CASE closed /\ UNCHANGED <<buffer, inFinal, closed, shown>>
  <2>1. /\ inFinal /\ Find(f, StartTag) # 0 /\ Find(After(f, StartTag), EndTag) # 0
        /\ Content(f) = shown
    BY <1>1 DEF StreamTypes, Filtered, Knows
  <2>2. Find(t, StartTag) # 0 /\ Find(A, EndTag) # 0 /\ Content(t) = shown
    BY <2>1, ContentGrows, FindGrows, Tags
  <2>. HIDE DEF t, A
  <2>. QED
    BY <1>1, <2>1, <2>2 DEF Filtered, Knows, A, t
<1>2. CASE /\ ~closed /\ Waiting(text)
           /\ buffer' = Kept(text) /\ UNCHANGED <<inFinal, closed, shown>>
  <2>1. ~inFinal
    BY <1>2 DEF Waiting
  <2>2. Find(f, StartTag) = 0 /\ Find(f, ToolTag) = 0 /\ Held(f, buffer)
    BY <2>1 DEF Filtered, Knows
  <2>3. /\ ToolFirst(t) <=> ToolFirst(text)
        /\ Find(t, StartTag) = 0 <=> Find(text, StartTag) = 0
    BY <1>0, <2>2, HeldAll
  <2>4. Held(t, Kept(text))
    BY <1>0, <2>2, HeldGrows
  <2>5. Find(t, StartTag) = 0
    BY <1>2, <2>3 DEF Waiting
  <2>6. Find(t, ToolTag) = 0
    BY <2>5 DEF ToolFirst
  <2>. HIDE DEF t, text
  <2>. QED
    BY <1>2, <2>1, <2>4, <2>5, <2>6 DEF Filtered, Knows, t
<1>3. CASE /\ ~closed /\ ~Waiting(text) /\ end # 0
           /\ shown' = shown \o SubSeq(final, 1, end - 1)
           /\ buffer' = From(final, end + Len(EndTag))
           /\ inFinal' = TRUE /\ closed' = TRUE
  <2>1. final \in Text
    BY <1>3, FinalText
  <2>2. /\ Find(t, StartTag) # 0 /\ A = shown \o final
        /\ \A p \in 1..Len(shown) : Differs(shown \o final, p)
    BY <1>3, AnswerSoFar
  <2>. HIDE DEF final, t, A
  <2>3. Find(A, EndTag) = Len(shown) + end
    BY <1>0, <1>3, <2>1, <2>2, EndFound
  <2>4. end \in 0..Len(final) /\ Len(final) \in Nat /\ Len(shown) \in Nat
    BY <1>0, <2>1, FindFirst, Texts, Tags
  <2>. DEFINE k == end - 1
              l == Len(shown)
  <2>5. k \in 0..Len(final) /\ (l + end) - 1 = l + k /\ l + end # 0
    <3>. DEFINE z == Len(final)
    <3>1. end \in 0..z /\ end # 0 /\ z \in Nat /\ l \in Nat
      BY <1>3, <2>4
    <3>. HIDE DEF end, l, z
    <3>2. k \in 0..z /\ (l + end) - 1 = l + k /\ l + end # 0
      BY ONLY <3>1
    <3>. QED
      BY <3>2 DEF z
  <2>6. Content(t) = SubSeq(A, 1, (l + end) - 1)
    <3>1. Find(A, EndTag) = l + end
      BY <2>3
    <3>. HIDE DEF l, end
    <3>. QED
      BY <2>5, <3>1 DEF Content, A
  <2>. HIDE DEF k
  <2>7. SubSeq(shown \o final, 1, Len(shown) + k) = shown \o SubSeq(final, 1, k)
    BY <1>0, <2>1, <2>5, FrontBehind
  <2>8. Content(t) = shown'
    BY <1>3, <2>2, <2>5, <2>6, <2>7 DEF k
  <2>. QED
    BY <1>3, <2>2, <2>3, <2>5, <2>8 DEF Filtered, Knows, A, t
<1>4. CASE /\ ~closed /\ ~Waiting(text) /\ end = 0
           /\ shown' = shown \o SubSeq(final, 1, g)
           /\ buffer' = From(final, g + 1)
           /\ inFinal' = TRUE /\ UNCHANGED closed
  <2>1. final \in Text
    BY <1>4, FinalText
  <2>2. /\ Find(t, StartTag) # 0 /\ A = shown \o final
        /\ \A p \in 1..Len(shown) : Differs(shown \o final, p)
    BY <1>4, AnswerSoFar
  <2>. HIDE DEF final, t, A
  <2>3. g \in 0..Len(final) /\ \A p \in 1..g : Differs(final, p)
    BY <1>4, <2>1, SafeIs
  <2>. HIDE DEF g
  <2>. DEFINE d == SubSeq(final, 1, g)
              b == From(final, g + 1)
              l == Len(shown)
  <2>4. d \in Text /\ b \in Text /\ Len(d) = g /\ d \o b = final
    BY <2>1, <2>3, FromIs
  <2>5. shown' = shown \o d /\ buffer' = b
    BY <1>4
  <2>. HIDE DEF d, b
  <2>6. (shown \o d) \o b = shown \o (d \o b)
    <3>1. Behind(Behind(shown, d), b) = Behind(shown, Behind(d, b))
      BY ONLY <1>0, <2>4, Three DEF Text
    <3>. QED
      BY <3>1 DEF Behind
  <2>7. A = shown' \o buffer'
    BY <2>2, <2>4, <2>5, <2>6
  <2>8. l \in Nat /\ Len(shown') = l + g /\ Len(final) \in Nat
    BY <1>0, <2>1, <2>4, <2>5, Texts
  <2>9. ASSUME NEW p \in 1..Len(shown') PROVE Differs(A, p)
    <3>1. CASE p \in 1..l
      BY <2>2, <3>1
    <3>2. CASE p \notin 1..l
      <4>. DEFINE j == p - l
      <4>1. j \in 1..g /\ j \in 1..Len(final) /\ p = l + j
        BY <2>3, <2>8, <3>2
      <4>. HIDE DEF j
      <4>2. Differs(shown \o final, Len(shown) + j)
        BY <1>0, <2>1, <2>3, <4>1, DiffersBehind
      <4>. QED
        BY <2>2, <4>1, <4>2
    <3>. QED
      BY <3>1, <3>2
  <2>. QED
    BY <1>4, <2>2, <2>7, <2>9 DEF Filtered, Knows, A, t
<1>. QED
  <2>. HIDE DEF g
  <2>. QED
    BY <1>1, <1>2, <1>3, <1>4 DEF Feed, g

LEMMA StreamInitInv == StreamInit => StreamInv
<1>. SUFFICES ASSUME StreamInit PROVE StreamInv
  OBVIOUS
<1>1. /\ reply \in Replies /\ arrived = 0 /\ streams = 1 /\ buffer = <<>> /\ shown = <<>>
      /\ inFinal = FALSE /\ closed = FALSE /\ parsed = NotParsed
  BY DEF StreamInit
<1>2. reply \in Text /\ Len(reply) \in Nat
  BY <1>1, RepliesAreTexts, Texts
<1>3. StreamTypes
  <2>1. 1 \in 1..MaxStreams
    BY StreamAssumption
  <2>2. 0 \in 0..Len(reply) /\ Len(<<>>) < 3 /\ <<>> \in Text
    BY <1>2, NoText
  <2>. QED
    BY <1>1, <2>1, <2>2 DEF StreamTypes
<1>4. Fed = <<>>
  <2>1. SubSeq(reply, 1, 0) = <<>>
    BY <1>2, FirstOnes DEF Text
  <2>. QED
    BY <1>1, <2>1 DEF Fed
<1>5. ASSUME NEW tag \in Text PROVE Find(<<>>, tag) = 0
  BY NoText, FindFirst
<1>6. Held(<<>>, <<>>)
  <2>1. <<>> \o <<>> = <<>>
    BY NoText DEF Text
  <2>. QED
    BY <2>1, NoText DEF Held
<1>7. Filtered(Fed)
  BY <1>1, <1>4, <1>5, <1>6, Tags DEF Filtered, Knows
<1>. QED
  BY <1>1, <1>3, <1>7 DEF StreamInv

LEMMA ChunkKeeps ==
  ASSUME StreamInv, NEW n \in 1..Len(reply), ChunkArrives(n) PROVE StreamInv'
<1>. DEFINE chunk == SubSeq(reply, arrived + 1, arrived + n)
            f == Fed
<1>1. /\ arrived + n <= Len(reply) /\ Feed(chunk) /\ arrived' = arrived + n
      /\ reply' = reply /\ streams' = streams /\ parsed' = parsed
  BY DEF ChunkArrives
<1>2. StreamTypes /\ reply \in Text /\ Len(reply) \in Nat /\ arrived \in 0..Len(reply)
  BY RepliesAreTexts, Texts DEF StreamInv, StreamTypes
<1>3. arrived' \in 0..Len(reply) /\ arrived <= arrived' /\ arrived < Len(reply)
  BY <1>1, <1>2
<1>4. chunk \in Text /\ f \in Text /\ Fed' = f \o chunk
  <2>. DEFINE a == arrived
              b == arrived + n
  <2>1. reply \in Text /\ a \in 0..Len(reply) /\ b \in 0..Len(reply) /\ a <= b
    BY <1>1, <1>2, <1>3
  <2>. HIDE DEF a, b
  <2>2. /\ SubSeq(reply, a + 1, b) \in Text
        /\ SubSeq(reply, 1, a) \o SubSeq(reply, a + 1, b) = SubSeq(reply, 1, b)
    BY ONLY <2>1, NextPart DEF Text
  <2>3. SubSeq(reply, 1, a) \in Text
    BY <2>1, FromIs
  <2>4. Fed' = SubSeq(reply, 1, b)
    BY <1>1 DEF Fed, b
  <2>. QED
    BY <2>2, <2>3, <2>4 DEF a, b, Fed
<1>. HIDE DEF chunk, f
<1>5. /\ buffer' \in Text /\ shown' \in Text /\ inFinal' \in BOOLEAN /\ closed' \in BOOLEAN
      /\ closed' => inFinal'
      /\ ~inFinal' => Len(buffer') < 3 /\ shown' = <<>>
      /\ inFinal' /\ ~closed' => IsStrictPrefix(buffer', EndTag)
  BY <1>1, <1>2, <1>4, FeedTypes
<1>6. StreamTypes'
  BY <1>1, <1>2, <1>3, <1>5 DEF StreamTypes
<1>7. ASSUME streams' = 1, ~ToolFirst(Fed') PROVE Filtered(Fed)'
  <2>1. ~ToolFirst(f \o chunk)
    BY <1>4, <1>7
  <2>2. ~ToolFirst(f)
    BY <1>4, <2>1, ToolFirstGrows
  <2>3. Filtered(f)
    BY <1>1, <1>7, <2>2 DEF StreamInv, f
  <2>4. Knows(f \o chunk, buffer', inFinal', closed', shown')
    BY <1>1, <1>2, <1>4, <2>1, <2>3, FeedFilters
  <2>. QED
    BY <1>4, <2>4 DEF Filtered
<1>8. parsed = NotParsed
  BY <1>2, <1>3 DEF StreamInv
<1>. QED
  BY <1>1, <1>6, <1>7, <1>8 DEF StreamInv

LEMMA StreamNextInv == StreamInv /\ [StreamNext]_streamVars => StreamInv'
<1>. SUFFICES ASSUME StreamInv, [StreamNext]_streamVars PROVE StreamInv'
  OBVIOUS
<1>1. ASSUME NEW n \in 1..Len(reply), ChunkArrives(n) PROVE StreamInv'
  BY <1>1, ChunkKeeps
<1>2. ASSUME NEW again \in Replies, StreamBreaks(again) PROVE StreamInv'
  <2>1. /\ parsed = NotParsed /\ parsed' = parsed /\ streams < MaxStreams /\ streams' = streams + 1
        /\ reply' = again /\ arrived' = 0
        /\ UNCHANGED <<buffer, inFinal, closed, shown>>
    BY <1>2 DEF StreamBreaks
  <2>2. streams \in 1..MaxStreams /\ MaxStreams \in Nat
    BY StreamAssumption DEF StreamInv, StreamTypes
  <2>3. streams' \in 1..MaxStreams /\ streams' # 1
    BY <2>1, <2>2
  <2>4. Len(reply') \in Nat
    BY <2>1, RepliesAreTexts, Texts
  <2>5. StreamTypes'
    BY <2>1, <2>3, <2>4 DEF StreamInv, StreamTypes
  <2>. QED
    BY <2>1, <2>3, <2>5 DEF StreamInv
<1>3. ASSUME ReplyComplete PROVE StreamInv'
  <2>1. /\ arrived = Len(reply) /\ parsed' = Parse(reply)
        /\ UNCHANGED <<reply, arrived, streams, buffer, inFinal, closed, shown>>
    BY <1>3 DEF ReplyComplete
  <2>2. StreamTypes'
    BY <2>1 DEF StreamInv, StreamTypes
  <2>3. Fed' = Fed
    BY <2>1 DEF Fed
  <2>4. streams' = 1 /\ ~ToolFirst(Fed') => Filtered(Fed)'
    BY <2>1, <2>3 DEF StreamInv, Filtered
  <2>. QED
    BY <2>1, <2>2, <2>4 DEF StreamInv
<1>4. CASE UNCHANGED streamVars
  <2>1. UNCHANGED <<reply, arrived, streams, buffer, inFinal, closed, shown, parsed>>
    BY <1>4 DEF streamVars
  <2>2. Fed' = Fed
    BY <2>1 DEF Fed
  <2>. QED
    BY <2>1, <2>2 DEF StreamInv, StreamTypes, Filtered
<1>. QED
  BY <1>1, <1>2, <1>3, <1>4 DEF StreamNext

(* What was shown of an answer that is not ended, and the rest of it.       *)
LEMMA OpenAnswer ==
  ASSUME StreamTypes, NEW text \in Text, Filtered(text), inFinal, ~closed
  PROVE  /\ Find(After(text, StartTag), EndTag) = 0
         /\ Content(text) = shown \o buffer /\ Len(buffer) < 4
<1>1. /\ shown \in Text /\ buffer \in Text /\ IsStrictPrefix(buffer, EndTag)
      /\ After(text, StartTag) = shown \o buffer
      /\ \A p \in 1..Len(shown) : Differs(shown \o buffer, p)
  BY DEF StreamTypes, Filtered, Knows
<1>2. Len(buffer) < 4 /\ Find(buffer, EndTag) = 0
  BY <1>1, StrictShorter
<1>3. Find(shown \o buffer, EndTag) = 0
  BY <1>1, <1>2, EndFound
<1>. QED
  BY <1>1, <1>2, <1>3, ContentOpen

LEMMA InvGivesAnswer == StreamInv => ShownIsAnswer
<1>. SUFFICES ASSUME StreamInv PROVE ShownIsAnswer
  OBVIOUS
<1>1. /\ StreamTypes /\ reply \in Text /\ arrived \in 0..Len(reply)
      /\ shown \in Text /\ buffer \in Text
  BY RepliesAreTexts DEF StreamInv, StreamTypes
<1>2. Fed \in Text
  BY <1>1, FromIs DEF Fed
<1>3. StreamTypeOK
  BY <1>1, Tags DEF StreamTypes, StreamTypeOK
<1>4. ASSUME NEW text \in Text, Filtered(text), Find(text, StartTag) # 0
      PROVE  Content(text) = shown \o (IF closed THEN <<>> ELSE buffer)
  <2>1. inFinal
    BY <1>4 DEF Filtered, Knows
  <2>2. CASE closed
    <3>1. shown \o <<>> = shown
      BY <1>1 DEF Text
    <3>. QED
      BY <1>4, <2>2, <3>1 DEF Filtered, Knows
  <2>3. CASE ~closed
    BY <1>1, <1>4, <2>1, <2>3, OpenAnswer
  <2>. QED
    BY <2>2, <2>3
<1>5. ShownIsContent
  BY <1>2, <1>4 DEF ShownIsContent, StreamInv
<1>6. ASSUME streams = 1, parsed.kind = "final"
      PROVE  /\ IsPrefix(shown, parsed.text)
             /\ Find(After(reply, StartTag), EndTag) # 0 => shown = parsed.text
             /\ Len(parsed.text) - Len(shown) < Len(EndTag)
  <2>1. parsed # NotParsed
    BY <1>6 DEF NotParsed
  <2>2. arrived = Len(reply) /\ parsed = Parse(reply)
    BY <2>1 DEF StreamInv
  <2>3. Fed = reply
    BY <1>1, <2>2, FirstOnes DEF Fed, Text
  <2>4. ~ToolFirst(reply) /\ Find(reply, StartTag) # 0 /\ parsed.text = Content(reply)
    BY <1>6, <2>2 DEF Parse
  <2>5. Filtered(reply)
    BY <1>6, <2>3, <2>4 DEF StreamInv
  <2>. DEFINE tail == IF closed THEN <<>> ELSE buffer
  <2>6. parsed.text = shown \o tail
    BY <1>1, <1>4, <2>4, <2>5
  <2>7. tail \in Text /\ Len(tail) < 4
    <3>1. CASE closed
      BY <3>1, NoText
    <3>2. CASE ~closed
      <4>1. inFinal
        BY <2>4, <2>5 DEF Filtered, Knows
      <4>. QED
        BY <1>1, <2>5, <3>2, <4>1, OpenAnswer
    <3>. QED
      BY <3>1, <3>2
  <2>8. Find(After(reply, StartTag), EndTag) # 0 => tail = <<>>
    <3>1. inFinal
      BY <2>4, <2>5 DEF Filtered, Knows
    <3>. QED
      BY <1>1, <2>5, <3>1, OpenAnswer
  <2>9. shown \o <<>> = shown
    BY <1>1 DEF Text
  <2>. HIDE DEF tail
  <2>10. /\ shown \o tail \in Text /\ Len(shown \o tail) = Len(shown) + Len(tail)
         /\ Len(shown) \in Nat /\ Len(tail) \in Nat
         /\ \A i \in 1..Len(shown) : (shown \o tail)[i] = shown[i]
    BY <1>1, <2>7, Texts
  <2>11. IsPrefix(shown, shown \o tail)
    <3>1. Len(shown) <= Len(shown \o tail)
      BY <2>10
    <3>. QED
      BY <1>1, <2>10, <3>1, PrefixText
  <2>12. Len(shown \o tail) - Len(shown) < 4
    <3>. DEFINE x == Len(shown)
                y == Len(tail)
                z == Len(shown \o tail)
    <3>1. x \in Nat /\ y \in Nat /\ z = x + y /\ y < 4
      BY <2>7, <2>10
    <3>. HIDE DEF x, y, z
    <3>2. z - x < 4
      BY ONLY <3>1
    <3>. QED
      BY <3>2 DEF x, z
  <2>. QED
    BY <2>6, <2>8, <2>9, <2>11, <2>12, Tags
<1>7. AnswerShown
  BY <1>6 DEF AnswerShown
<1>. QED
  BY <1>3, <1>5, <1>7 DEF ShownIsAnswer

(* However a reply is cut into chunks and whatever it holds, what the reader *)
(* is shown of a first attempt is the answer so far, and what was parsed of  *)
(* it was shown, up to a tail that could have been an end tag                *)
(* (FinalAnswerDeltaFilter, parse).                                          *)
THEOREM StreamShowsAnswer == StreamSpec => []ShownIsAnswer
<1>1. StreamInit => StreamInv
  BY StreamInitInv
<1>2. StreamInv /\ [StreamNext]_streamVars => StreamInv'
  BY StreamNextInv
<1>3. StreamInv => ShownIsAnswer
  BY InvGivesAnswer
<1>. QED
  BY <1>1, <1>2, <1>3, PTL DEF StreamSpec

-----------------------------------------------------------------------------
(* The prompt: its sections are cut down to the budget in their order, and  *)
(* what is left of the history is its newest entries, in the right order.   *)

-----------------------------------------------------------------------------
(* The prompt's sections, for any texts, budgets and windows.               *)

Entries == [call : CallSizes, text : EntrySizes, path : ReadPaths \cup {"none"}]
Got == [used : Nat, shown : SUBSET (1..Len(past))]

LEMMA FourSections ==
  /\ Sections = {"relevant_memory", "history", "memory", "prefix"}
  /\ DOMAIN Reduction = 1..4
  /\ \A s \in Sections : SectionFloor(s) \in Nat \ {0} /\ DefaultBudget[s] \in Nat \ {0}
<1>1. DOMAIN Reduction = 1..4 /\ Sections = {"relevant_memory", "history", "memory", "prefix"}
  <2>1. /\ Reduction[1] = "relevant_memory" /\ Reduction[2] = "history"
        /\ Reduction[3] = "memory" /\ Reduction[4] = "prefix"
    BY DEF Reduction
  <2>2. DOMAIN Reduction = 1..4
    BY DEF Reduction
  <2>3. \A k \in 1..4 : k = 1 \/ k = 2 \/ k = 3 \/ k = 4
    OBVIOUS
  <2>4. Sections = {Reduction[k] : k \in 1..4}
    BY <2>2 DEF Sections, ToSet
  <2>. QED
    BY <2>1, <2>2, <2>3, <2>4
<1>2. ASSUME NEW s \in Sections PROVE SectionFloor(s) \in Nat \ {0} /\ DefaultBudget[s] \in Nat \ {0}
  <2>1. DefaultBudget[s] \in Nat \ {0}
    BY PromptAssumption
  <2>2. DefaultBudget[s] \div 4 \in Nat
    BY ONLY <2>1
  <2>. QED
    BY <2>1, <2>2 DEF SectionFloor
<1>. QED
  BY <1>1, <1>2

(* Budgets fitted to a window are at least one token each.                  *)
LEMMA FittedSome ==
  ASSUME NEW w \in Nat PROVE FittedBudgets(w) \in [Sections -> Nat \ {0}]
<1>. DEFINE all == SumOf(DefaultBudget)
<1>1. all \in Nat \ {0}
  BY FourSections DEF SumOf
<1>. HIDE DEF all
<1>2. ASSUME NEW s \in Sections PROVE (DefaultBudget[s] * w) \div all \in Nat
  <2>1. DefaultBudget[s] * w \in Nat
    BY FourSections
  <2>. QED
    BY <1>1, <2>1
<1>3. DefaultBudget \in [Sections -> Nat \ {0}]
  BY PromptAssumption
<1>4. [s \in Sections |->
         IF (DefaultBudget[s] * w) \div all > 1 THEN (DefaultBudget[s] * w) \div all ELSE 1]
      \in [Sections -> Nat \ {0}]
  BY <1>2
<1>. QED
  BY <1>3, <1>4 DEF FittedBudgets, all

-----------------------------------------------------------------------------

(* Placing an entry adds it to what is shown, or adds nothing, and never    *)
(* takes anything away.                                                     *)
Adds(i, got, more) ==
  more \in Got /\ got.shown \subseteq more.shown /\ more.shown \subseteq got.shown \cup {i}

LEMMA PlaceAdds ==
  ASSUME past \in Seq(Entries), NEW i \in 1..Len(past), NEW got \in Got, NEW budget \in Nat
  PROVE  Adds(i, got, Place(past, i, got, budget))
<1>1. past[i] \in Entries
  OBVIOUS
<1>2. past[i].call \in Nat /\ past[i].text \in Nat
  BY <1>1, PromptAssumption DEF Entries
<1>. DEFINE lines == ShownAs(past, i)
            left == IF budget > got.used THEN budget - got.used ELSE 0
            clip == IF Recent(past, i) /\ left > SmallClip THEN left ELSE SmallClip
            whole == lines.call + lines.text
            clipped == Least(lines.call, clip) + Least(lines.text, clip)
            more(n) == [used |-> got.used + n, shown |-> got.shown \cup {i}]
<1>3. lines.call \in Nat /\ lines.text \in Nat
  BY <1>2, PromptAssumption DEF ShownAs, Least
<1>4. got.used \in Nat /\ got.shown \subseteq 1..Len(past)
  BY DEF Got
<1>5. clip \in Nat
  BY <1>4, PromptAssumption
<1>. HIDE DEF lines, clip
<1>6. whole \in Nat /\ clipped \in Nat
  BY <1>3, <1>5 DEF Least
<1>7. ASSUME NEW n \in Nat PROVE Adds(i, got, more(n))
  BY <1>4 DEF Got, Adds
<1>8. Place(past, i, got, budget) =
        IF Collapsed(past, i) THEN got
        ELSE IF whole <= left THEN more(whole)
        ELSE IF clipped <= left THEN more(clipped)
        ELSE got
  BY DEF Place, lines, clip
<1>. HIDE DEF more, whole, clipped
<1>9. Adds(i, got, more(whole)) /\ Adds(i, got, more(clipped)) /\ Adds(i, got, got)
  BY <1>6, <1>7 DEF Adds
<1>. QED
  BY <1>8, <1>9

(* The newest entry is placed when there is room for it, and only then: of  *)
(* two lines that do not fit together, one takes all the room when clipped. *)
LEMMA NewestPlaced ==
  ASSUME past \in Seq(Entries), past # <<>>, NEW budget \in Nat
  PROVE  Len(past) \in Place(past, Len(past), [used |-> 0, shown |-> {}], budget).shown
           <=> budget >= RoomFor(past[Len(past)])
<1>. DEFINE i == Len(past)
            entry == past[i]
            clip == IF budget > SmallClip THEN budget ELSE SmallClip
            whole == entry.call + entry.text
            clipped == Least(entry.call, clip) + Least(entry.text, clip)
            base == [used |-> 0, shown |-> {}]
<1>1. i \in 1..Len(past) /\ entry \in Entries
  OBVIOUS
<1>2. /\ entry.call \in Nat /\ entry.text \in Nat \ {0}
      /\ RecentWindow \in Nat \ {0} /\ SmallClip \in Nat \ {0}
  BY <1>1, PromptAssumption DEF Entries
<1>3. Recent(past, i)
  BY <1>1, <1>2 DEF Recent
<1>4. ~Collapsed(past, i) /\ ShownAs(past, i) = [call |-> entry.call, text |-> entry.text]
  BY <1>3 DEF Collapsed, ShownAs
<1>5. budget = IF budget > 0 THEN budget - 0 ELSE 0
  OBVIOUS
<1>6. Place(past, i, base, budget) =
        IF whole <= budget THEN [used |-> 0 + whole, shown |-> {} \cup {i}]
        ELSE IF clipped <= budget THEN [used |-> 0 + clipped, shown |-> {} \cup {i}]
        ELSE base
  <2>. DEFINE lines == [call |-> entry.call, text |-> entry.text]
  <2>1. lines.call = entry.call /\ lines.text = entry.text
    OBVIOUS
  <2>. HIDE DEF entry, i, lines
  <2>2. ShownAs(past, i) = lines
    BY <1>4 DEF lines
  <2>. QED
    BY <1>3, <1>4, <1>5, <2>1, <2>2 DEF Place
<1>7. i \in Place(past, i, base, budget).shown <=> whole <= budget \/ clipped <= budget
  <2>. HIDE DEF whole, clipped, i
  <2>. QED
    BY <1>6
<1>8. whole <= budget \/ clipped <= budget <=> budget >= RoomFor(entry)
  <2>. HIDE DEF entry
  <2>. QED
    BY <1>2 DEF RoomFor, Least
<1>. QED
  BY <1>7, <1>8

(* The section of the history is entries placed one after the other.        *)
LEMMA HistoryPlaced ==
  ASSUME past \in Seq(Entries), NEW budget \in Nat
  PROVE  /\ HistorySection(past, budget).used \in Nat
         /\ past # <<>> =>
              (Len(past) \in HistorySection(past, budget).shown <=> budget >= RoomFor(past[Len(past)]))
<1>. DEFINE n == Len(past)
            base == [used |-> 0, shown |-> {}]
            got[k \in 0..Len(past)] ==
              IF k = 0 THEN [used |-> 0, shown |-> {}]
              ELSE Place(past, Len(past) - k + 1, got[k - 1], budget)
            step == [a \in Got \X (1..n) |-> Place(past, n - a[2] + 1, a[1], budget)]
            room == budget >= RoomFor(past[Len(past)])
<1>1. n \in Nat
  OBVIOUS
<1>2. base \in Got
  BY DEF Got
<1>3. ASSUME NEW g \in Got, NEW k \in 1..n
      PROVE  Adds(n - k + 1, g, Place(past, n - k + 1, g, budget))
  <2>1. n - k + 1 \in 1..Len(past)
    BY <1>1
  <2>. QED
    BY <2>1, PlaceAdds
<1>4. step \in [Got \X (1..n) -> Got]
  BY <1>3 DEF Adds
<1>5. \E g \in [0..n -> Got] : Folded(g, base, n, step)
  <2>. HIDE DEF n, step, base
  <2>. QED
    BY <1>1, <1>2, <1>4, Folding
<1>6. PICK g \in [0..n -> Got] : g[0] = base /\ \A k \in 1..n : g[k] = step[<<g[k - 1], k>>]
  BY <1>5 DEF Folded
<1>7. ASSUME NEW k \in 1..n PROVE g[k] = Place(past, n - k + 1, g[k - 1], budget)
  <2>1. k - 1 \in 0..n /\ g[k - 1] \in Got
    BY <1>1
  <2>. QED
    BY <1>6, <2>1
<1>. HIDE DEF step
<1>8. g = [k \in 0..Len(past) |->
             IF k = 0 THEN [used |-> 0, shown |-> {}]
             ELSE Place(past, Len(past) - k + 1, g[k - 1], budget)]
  <2>1. \A k \in 0..n : k = 0 \/ k \in 1..n
    BY <1>1
  <2>. QED
    BY <1>6, <1>7, <2>1
<1>9. got = [k \in 0..Len(past) |->
               IF k = 0 THEN [used |-> 0, shown |-> {}]
               ELSE Place(past, Len(past) - k + 1, got[k - 1], budget)]
  BY <1>8
<1>10. got[0] = base /\ \A k \in 1..n : got[k] = Place(past, n - k + 1, got[k - 1], budget)
  <2>1. 0 \in 0..n /\ \A k \in 1..n : k \in 0..n /\ k # 0
    BY <1>1
  <2>. HIDE DEF got
  <2>. QED
    BY <1>9, <2>1
<1>11. HistorySection(past, budget) = got[n]
  BY DEF HistorySection
<1>. HIDE DEF got
<1>. DEFINE T == {k \in 0..n : got[k] \in Got /\
                    (k > 0 => (n \in got[k].shown <=> room))}
<1>12. 0 \in T
  BY <1>1, <1>2, <1>10
<1>13. ASSUME NEW k \in 1..n, k - 1 \in T PROVE k \in T
  <2>1. got[k - 1] \in Got /\ got[k] = Place(past, n - k + 1, got[k - 1], budget)
    BY <1>10, <1>13
  <2>2. Adds(n - k + 1, got[k - 1], got[k])
    BY <1>3, <2>1
  <2>3. CASE k = 1
    <3>1. n - k + 1 = n /\ k - 1 = 0 /\ past # <<>>
      BY <1>1, <2>3
    <3>2. got[k] = Place(past, n, base, budget)
      BY <1>10, <2>1, <3>1
    <3>3. n \in Place(past, n, base, budget).shown <=> room
      BY <3>1, NewestPlaced
    <3>. HIDE DEF n, base, room
    <3>4. n \in got[k].shown <=> room
      BY <3>2, <3>3
    <3>. QED
      BY <1>1, <2>2, <3>4 DEF Adds
  <2>4. CASE k # 1
    <3>1. k - 1 > 0 /\ n - k + 1 # n
      BY <1>1, <2>4
    <3>. HIDE DEF n, room
    <3>2. n \in got[k - 1].shown <=> room
      BY <1>13, <3>1
    <3>. QED
      BY <1>1, <2>2, <3>1, <3>2 DEF Adds
  <2>. QED
    BY <2>3, <2>4
<1>14. \A k \in 0..n : k \in T
  <2>1. \A k \in 1..n : k - 1 \in T => k \in T
    BY <1>13
  <2>. HIDE DEF T, n
  <2>. QED
    BY <1>1, <1>12, <2>1, CountUp
<1>15. n \in T
  BY <1>1, <1>14
<1>16. got[n] \in Got /\ (n > 0 => (n \in got[n].shown <=> room))
  BY <1>15
<1>17. past # <<>> => n > 0
  OBVIOUS
<1>. HIDE DEF n, room
<1>. QED
  BY <1>11, <1>16, <1>17 DEF Got, n, room

Fitted == FittedBudgets(window)

PromptInv ==
  /\ past \in Seq(Entries) /\ window \in Windows
  /\ texts \in [{"prefix", "memory", "relevant_memory", "request"} -> Nat]
  /\ budgets \in [Sections -> Nat \ {0}]
  /\ building \in {"no", "fitting", "built"}
  /\ building # "no" =>
       \A s \in Sections : budgets[s] <= Fitted[s] /\ budgets[s] >= Least(SectionFloor(s), Fitted[s])
  /\ GivenInOrder
  /\ building = "built" => PromptSize(budgets) <= window \/ \A s \in Sections : ~CanGive(s)

LEMMA SizeCounts ==
  ASSUME PromptInv PROVE PromptSize(budgets) \in Nat /\ window \in Nat
<1>1. /\ budgets["history"] \in Nat /\ texts["request"] \in Nat
      /\ \A s \in Sections \ {"history"} : Least(texts[s], budgets[s]) \in Nat
  BY FourSections DEF PromptInv, Least
<1>2. HistorySection(past, budgets["history"]).used \in Nat
  BY <1>1, HistoryPlaced DEF PromptInv
<1>3. \A s \in Sections : Rendered(s, budgets) \in Nat
  BY <1>1, <1>2 DEF Rendered
<1>4. SumOf([s \in Sections |-> Rendered(s, budgets)]) \in Nat
  BY <1>3, FourSections DEF SumOf
<1>. QED
  BY <1>1, <1>4, PromptAssumption DEF PromptSize, PromptInv

LEMMA PromptBegins == PromptInit => PromptInv
<1>. SUFFICES ASSUME PromptInit PROVE PromptInv
  OBVIOUS
<1>1. budgets \in [Sections -> Nat \ {0}] /\ past \in Seq(Entries)
  BY PromptAssumption DEF PromptInit
<1>. QED
  BY <1>1 DEF PromptInit, PromptInv, GivenInOrder

(* A section gives: those in front of it are at their floors.               *)
LEMMA KeptByReduce == PromptInv /\ ReduceSection => PromptInv'
<1>. SUFFICES ASSUME PromptInv, ReduceSection PROVE PromptInv'
  OBVIOUS
<1>. DEFINE m == Min(Giving)
            section == Reduction[m]
            over == PromptSize(budgets) - window
            least == IF budgets[section] > over THEN budgets[section] - over ELSE 0
            less == IF least > SectionFloor(section) THEN least ELSE SectionFloor(section)
<1>1. /\ building = "fitting" /\ PromptSize(budgets) > window /\ Giving # {}
      /\ budgets' = [budgets EXCEPT ![section] = less]
      /\ UNCHANGED <<past, texts, window, building>>
  BY DEF ReduceSection
<1>2. m \in Giving /\ \A i \in Giving : m <= i
  <2>1. Giving \subseteq Nat
    BY FourSections DEF Giving
  <2>2. PICK k \in Giving : \A i \in Giving : k <= i
    BY <1>1, <2>1, LeastNumber
  <2>. QED
    BY <2>2 DEF Min
<1>. HIDE DEF m
<1>3. m \in 1..4 /\ CanGive(section) /\ \A i \in 1..(m - 1) : ~CanGive(Reduction[i])
  <2>1. m \in 1..4 /\ CanGive(section)
    BY <1>2, FourSections DEF Giving
  <2>2. ASSUME NEW i \in 1..(m - 1) PROVE i \in 1..4 /\ ~(m <= i)
    BY <2>1
  <2>. QED
    BY <1>2, <2>1, <2>2, FourSections DEF Giving
<1>4. section \in Sections
  BY <1>3, FourSections DEF Sections, ToSet
<1>5. /\ budgets[section] \in Nat \ {0} /\ SectionFloor(section) \in Nat \ {0}
      /\ over \in Nat \ {0} /\ budgets[section] > SectionFloor(section)
      /\ Fitted[section] \in Nat \ {0} /\ budgets[section] <= Fitted[section]
  <2>1. over \in Nat \ {0}
    BY <1>1, SizeCounts
  <2>2. Fitted \in [Sections -> Nat \ {0}]
    BY SizeCounts, FittedSome DEF Fitted
  <2>. QED
    BY <1>1, <1>3, <1>4, <2>1, <2>2, FourSections DEF PromptInv, CanGive
<1>. HIDE DEF section, over
<1>6. less \in Nat \ {0} /\ less >= SectionFloor(section) /\ less <= budgets[section]
  BY <1>5
<1>. HIDE DEF less
<1>7. budgets' \in [Sections -> Nat \ {0}] /\ budgets'[section] = less
      /\ \A s \in Sections \ {section} : budgets'[s] = budgets[s]
  BY <1>1, <1>4, <1>6 DEF PromptInv
<1>8. ASSUME NEW s \in Sections
      PROVE  budgets'[s] <= Fitted[s] /\ budgets'[s] >= Least(SectionFloor(s), Fitted[s])
  <2>1. CASE s = section
    BY <1>5, <1>6, <1>7, <2>1 DEF Least
  <2>2. CASE s # section
    BY <1>1, <1>7, <2>2 DEF PromptInv
  <2>. QED
    BY <2>1, <2>2
<1>9. Fitted' = Fitted
  BY <1>1 DEF Fitted, FittedBudgets
<1>10. \A i, j \in 1..4 : Reduction[i] = Reduction[j] => i = j
  BY DEF Reduction
<1>11. \A i \in 1..4 : Reduction[i] \in Sections /\ SectionFloor(Reduction[i]) \in Nat
                       /\ budgets[Reduction[i]] \in Nat
  <2>1. \A i \in 1..4 : Reduction[i] \in Sections
    BY FourSections DEF Sections, ToSet
  <2>. QED
    BY <2>1, FourSections DEF PromptInv
<1>12. ASSUME NEW j \in 1..4, budgets'[Reduction[j]] < Fitted[Reduction[j]], NEW i \in 1..(j - 1)
       PROVE  budgets'[Reduction[i]] <= SectionFloor(Reduction[i])
  <2>1. i \in 1..4 /\ i < j
    OBVIOUS
  <2>2. CASE j = m
    <3>1. i \in 1..(m - 1) /\ i # m
      BY <2>2
    <3>2. ~CanGive(Reduction[i]) /\ Reduction[i] # section
      BY <1>3, <1>10, <2>1, <3>1 DEF section
    <3>. QED
      BY <1>7, <1>11, <2>1, <3>2 DEF CanGive
  <2>3. CASE j # m
    <3>1. Reduction[j] # section /\ budgets'[Reduction[j]] = budgets[Reduction[j]]
      BY <1>3, <1>7, <1>10, <1>11, <2>3 DEF section
    <3>2. \A k \in 1..(j - 1) : budgets[Reduction[k]] <= SectionFloor(Reduction[k])
      BY <1>1, <1>12, <3>1, FourSections DEF PromptInv, GivenInOrder, Fitted
    <3>3. i # m
      BY <1>3, <1>5, <3>2 DEF section
    <3>. QED
      BY <1>3, <1>7, <1>10, <1>11, <2>1, <3>2, <3>3 DEF section
  <2>. QED
    BY <2>2, <2>3
<1>13. GivenInOrder'
  BY <1>9, <1>12, FourSections DEF GivenInOrder, Fitted
<1>14. UNCHANGED building /\ building = "fitting"
  BY <1>1
<1>15. /\ past' \in Seq(Entries)' /\ window' \in Windows
       /\ texts' \in [{"prefix", "memory", "relevant_memory", "request"} -> Nat]
  BY <1>1 DEF PromptInv
<1>. QED
  BY <1>7, <1>8, <1>9, <1>13, <1>14, <1>15 DEF PromptInv

LEMMA PromptStep == PromptInv /\ [PromptNext]_promptVars => PromptInv'
<1>. SUFFICES ASSUME PromptInv, [PromptNext]_promptVars PROVE PromptInv'
  OBVIOUS
<1>1. ASSUME NEW c \in CallSizes, NEW n \in EntrySizes, NEW p \in ReadPaths \cup {"none"}, AddPast(c, n, p)
      PROVE  PromptInv'
  <2>1. past' \in Seq(Entries)
    <3>1. [call |-> c, text |-> n, path |-> p] \in Entries
      BY DEF Entries
    <3>. QED
      BY <1>1, <3>1 DEF AddPast, PromptInv
  <2>. QED
    BY <1>1, <2>1 DEF AddPast, PromptInv, GivenInOrder
<1>2. CASE BeginBuild
  <2>1. /\ texts' \in [DOMAIN texts -> TextSizes] /\ budgets' = Fitted /\ building' = "fitting"
        /\ UNCHANGED <<past, window>>
    BY <1>2 DEF BeginBuild, Fitted
  <2>2. window \in Nat /\ Fitted' = Fitted /\ Fitted \in [Sections -> Nat \ {0}]
    BY <2>1, SizeCounts, FittedSome DEF Fitted, FittedBudgets
  <2>3. texts' \in [{"prefix", "memory", "relevant_memory", "request"} -> Nat]
    BY <2>1, PromptAssumption DEF PromptInv
  <2>4. \A s \in Sections : budgets'[s] <= Fitted[s] /\ budgets'[s] >= Least(SectionFloor(s), Fitted[s])
    BY <2>1, <2>2, FourSections DEF Least
  <2>5. \A i \in 1..4 : Reduction[i] \in Sections
    BY FourSections DEF Sections, ToSet
  <2>6. \A j \in 1..4 : ~(budgets'[Reduction[j]] < Fitted[Reduction[j]])
    BY <2>1, <2>2, <2>5
  <2>7. GivenInOrder'
    BY <2>2, <2>6, FourSections DEF GivenInOrder, Fitted
  <2>8. past' \in Seq(Entries) /\ window' \in Windows
    BY <2>1 DEF PromptInv
  <2>. QED
    BY <2>1, <2>2, <2>3, <2>4, <2>7, <2>8 DEF PromptInv
<1>3. CASE EndBuild
  <2>1. /\ PromptSize(budgets) <= window \/ Giving = {}
        /\ building = "fitting" /\ building' = "built" /\ UNCHANGED <<past, texts, budgets, window>>
    BY <1>3 DEF EndBuild
  <2>2. Giving = {} => \A s \in Sections : ~CanGive(s)
    BY DEF Giving, Sections, ToSet
  <2>3. PromptSize(budgets)' = PromptSize(budgets) /\ \A s \in Sections : CanGive(s)' <=> CanGive(s)
    BY <2>1 DEF PromptSize, SumOf, Rendered, CanGive
  <2>. QED
    BY <2>1, <2>2, <2>3 DEF PromptInv, GivenInOrder, Fitted
<1>4. CASE UNCHANGED promptVars
  BY <1>4 DEF promptVars, PromptInv, GivenInOrder, Fitted, PromptSize, SumOf, Rendered,
              CanGive
<1>. QED
  BY <1>1, <1>2, <1>3, <1>4, KeptByReduce DEF PromptNext

(* Of any prompt, for any texts, budgets and windows: what is taken back is *)
(* taken back in order, as little as will do, and the newest entry is shown *)
(* exactly when the history has room for a clip of a message, or for the    *)
(* whole of a call and its result (ContextManager.build).                   *)
THEOREM PromptStaysSound == PromptSpec => []PromptSound
<1>1. PromptInv => PromptSound
  <2>. SUFFICES ASSUME PromptInv PROVE PromptSound
    OBVIOUS
  <2>1. OverOnlyAtFloors
    <3>. SUFFICES ASSUME building = "built", PromptSize(budgets) > window
                  PROVE  PromptSize([s \in Sections |-> Least(SectionFloor(s), Fitted[s])]) > window
      BY DEF OverOnlyAtFloors, Fitted
    <3>1. \A s \in Sections : ~CanGive(s)
      BY SizeCounts DEF PromptInv
    <3>2. Fitted \in [Sections -> Nat \ {0}]
      BY SizeCounts, FittedSome DEF Fitted
    <3>3. ASSUME NEW s \in Sections PROVE budgets[s] = Least(SectionFloor(s), Fitted[s])
      <4>1. /\ budgets[s] \in Nat /\ SectionFloor(s) \in Nat /\ Fitted[s] \in Nat
            /\ ~(budgets[s] > SectionFloor(s)) /\ budgets[s] <= Fitted[s]
            /\ budgets[s] >= Least(SectionFloor(s), Fitted[s])
        BY <3>1, <3>2, FourSections DEF PromptInv, CanGive
      <4>. QED
        BY <4>1 DEF Least
    <3>4. budgets = [s \in Sections |-> Least(SectionFloor(s), Fitted[s])]
      BY <3>3 DEF PromptInv
    <3>. QED
      BY <3>4
  <2>2. NewestResultShown
    <3>1. budgets["history"] \in Nat
      BY FourSections DEF PromptInv
    <3>. QED
      BY <3>1, HistoryPlaced DEF NewestResultShown, PromptInv
  <2>. QED
    BY <2>1, <2>2 DEF PromptInv, PromptSound, PromptTypeOK
<1>. QED
  BY <1>1, PromptBegins, PromptStep, PTL DEF PromptSpec

-----------------------------------------------------------------------------
(* The gateway: no permit is lost, starts keep their distance, a request    *)
(* has all its chances, and a caller that was alone reads its own metadata. *)

USE PolicyAssumption, CallerAssumption

(* There is always a primary client, and no other one than the fallback.    *)
LEMMA ClientsAre ==
  /\ "primary" \in Clients
  /\ \A c \in Clients : c = "primary" \/ (c = "fallback" /\ HasFallback)
  /\ HasFallback => "fallback" \in Clients
BY DEF Clients

(* A caller that is at work has a request of its own.                       *)
LEMMA CurrentIsRequest ==
  ASSUME TypeInv, NEW t \in Callers, place[t] # "idle"
  PROVE  Current(t) \in Requests
BY DEF TypeInv, Current, Requests

-----------------------------------------------------------------------------

(* The gateway starts with the right types, all permits and no requests.    *)
LEMMA TypeInit == Init => TypeInv
BY ClientsAre DEF Init, TypeInv, Requests, Holding

(* Every step keeps the types.                                              *)
LEMMA TypeNext == TypeInv /\ [Next]_vars => TypeInv'
<1>. SUFFICES ASSUME TypeInv, [Next]_vars PROVE TypeInv'
  OBVIOUS
<1>. USE DEF TypeInv, Go, Holding, timeVars, requestVars
<1>1. ASSUME NEW t \in Callers, Request(t) PROVE TypeInv'
  <2>1. calls' \in [Callers -> [Clients -> Nat]] /\ alone' \in [Callers -> BOOLEAN]
    BY <1>1 DEF Request
  <2>2. client' \in [Callers -> Clients] /\ attempt' \in [Callers -> 0..MaxRetries]
    BY <1>1, ClientsAre DEF Request
  <2>3. /\ number' \in [Callers -> 0..MaxRequests]
        /\ \A u \in Callers : place'[u] # "idle" => number'[u] > 0
    BY <1>1 DEF Request
  <2>. QED
    BY <1>1, <2>1, <2>2, <2>3 DEF Request
<1>2. ASSUME NEW t \in Callers, Acquire(t) PROVE TypeInv'
  BY <1>2 DEF Acquire
<1>3. ASSUME NEW t \in Callers, EnterInterval(t) PROVE TypeInv'
  BY <1>3 DEF EnterInterval
<1>4. ASSUME NEW t \in Callers, StartRequest(t) PROVE TypeInv'
  BY <1>4 DEF StartRequest
<1>5. ASSUME NEW t \in Callers, ClientAnswers(t) PROVE TypeInv'
  <2>1. Current(t) \in Requests
    BY <1>5, CurrentIsRequest DEF ClientAnswers
  <2>. QED
    BY <1>5, <2>1 DEF ClientAnswers, CountCall
<1>6. ASSUME NEW t \in Callers, CopyMetadata(t) PROVE TypeInv'
  BY <1>6 DEF CopyMetadata
<1>7. ASSUME NEW t \in Callers, UpdateMetadata(t) PROVE TypeInv'
  <2>1. Current(t) \in Requests
    BY <1>7, CurrentIsRequest DEF UpdateMetadata
  <2>. QED
    BY <1>7, <2>1 DEF UpdateMetadata
<1>8. ASSUME NEW t \in Callers, Retry(t) PROVE TypeInv'
  <2>1. Delay(attempt[t]) \in Nat
    BY DelayAssumption
  <2>. QED
    BY <1>8, <2>1 DEF Retry, MayRetry, FailTransient, CountCall
<1>9. ASSUME NEW t \in Callers, FallBack(t) PROVE TypeInv'
  BY <1>9, ClientsAre DEF FallBack, FailTransient, CountCall
<1>10. ASSUME NEW t \in Callers, GiveUp(t) PROVE TypeInv'
  BY <1>10 DEF GiveUp, FailTransient, CountCall
<1>11. ASSUME NEW t \in Callers, EndRest(t) PROVE TypeInv'
  BY <1>11 DEF EndRest
<1>12. ASSUME NEW t \in Callers, FailPermanent(t) PROVE TypeInv'
  BY <1>12 DEF FailPermanent, CountCall
<1>13. ASSUME NEW t \in Callers, Leave(t) PROVE TypeInv'
  <2>1. CASE Go(t, "returning", "reading")
    BY <1>13, <2>1 DEF Leave
  <2>2. CASE Go(t, "raising", "idle")
    BY <1>13, <2>2 DEF Leave
  <2>. QED
    BY <1>13, <2>1, <2>2 DEF Leave
<1>14. ASSUME NEW t \in Callers, ReadMetadata(t) PROVE TypeInv'
  BY <1>14 DEF ReadMetadata
<1>15. CASE Tick
  BY <1>15 DEF Tick
<1>16. CASE UNCHANGED vars
  BY <1>16 DEF vars, Current
<1>. QED
  BY <1>1, <1>2, <1>3, <1>4, <1>5, <1>6, <1>7, <1>8, <1>9, <1>10, <1>11, <1>12, <1>13,
     <1>14, <1>15, <1>16 DEF Next, Serve

-----------------------------------------------------------------------------

(* There are finitely many requests under way.                              *)
LEMMA HoldersFinite == IsFiniteSet(Holders) /\ Cardinality(Holders) \in Nat
BY FS_Subset, FS_CardinalityType DEF Holders

(* A caller that begins to hold a permit adds one, one that stops takes one *)
(* away, and one that goes on changes nothing.                              *)
LEMMA HoldersMove ==
  ASSUME TypeInv, NEW t \in Callers, NEW from, NEW to, Go(t, from, to)
  PROVE  /\ from \notin Holding /\ to \in Holding =>
              Cardinality(Holders') = Cardinality(Holders) + 1
         /\ from \in Holding /\ to \notin Holding =>
              Cardinality(Holders') = Cardinality(Holders) - 1
         /\ (from \in Holding <=> to \in Holding) => Holders' = Holders
<1>. USE DEF Go, Holders
<1>0. place \in [Callers -> Holding \cup {"idle", "waiting", "reading"}]
  BY DEF TypeInv
<1>1. ASSUME from \notin Holding, to \in Holding
      PROVE  Holders' = Holders \cup {t} /\ t \notin Holders
  BY <1>0, <1>1
<1>2. ASSUME from \in Holding, to \notin Holding
      PROVE  Holders' = Holders \ {t} /\ t \in Holders
  BY <1>0, <1>2
<1>3. ASSUME from \in Holding <=> to \in Holding PROVE Holders' = Holders
  BY <1>0, <1>3
<1>. HIDE DEF Holders
<1>4. ASSUME from \notin Holding, to \in Holding
      PROVE  Cardinality(Holders') = Cardinality(Holders) + 1
  BY <1>1, <1>4, HoldersFinite, FS_AddElement
<1>5. ASSUME from \in Holding, to \notin Holding
      PROVE  Cardinality(Holders') = Cardinality(Holders) - 1
  BY <1>2, <1>5, HoldersFinite, FS_RemoveElement
<1>. QED
  BY <1>3, <1>4, <1>5

(* No step loses or makes up a permit.                                      *)
LEMMA PermitsNext == TypeInv /\ PermitsKept /\ [Next]_vars => PermitsKept'
<1>. SUFFICES ASSUME TypeInv, PermitsKept, [Next]_vars PROVE PermitsKept'
  OBVIOUS
<1>0. permits \in Nat /\ permits + Cardinality(Holders) = MaxConcurrency
  BY DEF TypeInv, PermitsKept
<1>. SUFFICES permits' + Cardinality(Holders') = MaxConcurrency
  BY DEF PermitsKept
<1>1. ASSUME NEW t \in Callers, Acquire(t)
      PROVE  permits' + Cardinality(Holders') = MaxConcurrency
  <2>1. Cardinality(Holders') = Cardinality(Holders) + 1
    BY <1>1, HoldersMove DEF Acquire, Holding
  <2>. QED
    BY <1>0, <1>1, <2>1, HoldersFinite DEF Acquire
<1>2. ASSUME NEW t \in Callers, Leave(t)
      PROVE  permits' + Cardinality(Holders') = MaxConcurrency
  <2>1. Cardinality(Holders') = Cardinality(Holders) - 1
    BY <1>2, HoldersMove DEF Leave, Holding
  <2>. QED
    BY <1>0, <1>2, <2>1, HoldersFinite DEF Leave
<1>3. ASSUME NEW t \in Callers,
             Request(t) \/ EnterInterval(t) \/ StartRequest(t) \/ ClientAnswers(t)
             \/ CopyMetadata(t) \/ UpdateMetadata(t)
      PROVE  permits' = permits /\ Holders' = Holders
  BY <1>3, HoldersMove
     DEF Request, EnterInterval, StartRequest, ClientAnswers, CopyMetadata,
         UpdateMetadata, Holding
<1>4. ASSUME NEW t \in Callers, EndRest(t) \/ FailPermanent(t) \/ ReadMetadata(t)
      PROVE  permits' = permits /\ Holders' = Holders
  BY <1>4, HoldersMove DEF EndRest, FailPermanent, ReadMetadata, Holding
<1>5. ASSUME NEW t \in Callers, Retry(t) \/ GiveUp(t)
      PROVE  permits' = permits /\ Holders' = Holders
  <2>1. Go(t, "calling", "resting") \/ Go(t, "calling", "raising")
    BY <1>5 DEF Retry, GiveUp, FailTransient, Go
  <2>. QED
    BY <1>5, <2>1, HoldersMove DEF Retry, GiveUp, FailTransient, Holding
<1>6. ASSUME NEW t \in Callers, FallBack(t)
      PROVE  permits' = permits /\ Holders' = Holders
  BY <1>6 DEF FallBack, FailTransient, Holders
<1>7. ASSUME Tick \/ UNCHANGED vars PROVE permits' = permits /\ Holders' = Holders
  BY <1>7 DEF Tick, vars, Holders
<1>. QED
  BY <1>0, <1>1, <1>2, <1>3, <1>4, <1>5, <1>6, <1>7 DEF Next, Serve

(* At first there is no request under way.                                  *)
LEMMA PermitsInit == Init => PermitsKept
<1>. SUFFICES ASSUME Init PROVE PermitsKept
  OBVIOUS
<1>1. Holders = {}
  BY DEF Init, Holders, Holding
<1>. QED
  BY <1>1, FS_EmptySet DEF Init, PermitsKept

(* The types and the permits are invariants of the gateway.                 *)
LEMMA TypeInvariance == Spec => []TypeInv
BY TypeInit, TypeNext, PTL DEF Spec

(* No permit is lost or made up: however requests fail, retry and fall      *)
(* back, the requests under way and the permits left add up to the limit.   *)
THEOREM NoPermitLost == Spec => []PermitsKept
BY TypeInvariance, PermitsInit, PermitsNext, PTL DEF Spec

-----------------------------------------------------------------------------

(* The sleeper has the lock, and its sleep makes up the interval, after     *)
(* every step.                                                              *)
LEMMA SpacingNext == TypeInv /\ SpacingInv /\ [Next]_vars => SpacingInv'
<1>. SUFFICES ASSUME TypeInv, SpacingInv, [Next]_vars,
                     NEW u \in Callers, place'[u] = "spacing"
              PROVE  mutex' = u /\ timer'[u] + gap' >= MinInterval
  BY DEF SpacingInv
<1>. USE DEF TypeInv, SpacingInv, Go, timeVars, requestVars
<1>1. ASSUME NEW t \in Callers, EnterInterval(t)
      PROVE  mutex' = u /\ timer'[u] + gap' >= MinInterval
  <2>1. u = t
    BY <1>1 DEF EnterInterval
  <2>. QED
    BY <1>1, <2>1 DEF EnterInterval
<1>2. ASSUME NEW t \in Callers, StartRequest(t) PROVE FALSE
  <2>1. u # t /\ place[u] = "spacing" /\ place[t] = "spacing"
    BY <1>2 DEF StartRequest
  <2>. QED
    BY <2>1
<1>3. ASSUME NEW t \in Callers,
             Request(t) \/ Acquire(t) \/ ClientAnswers(t) \/ CopyMetadata(t)
             \/ UpdateMetadata(t) \/ EndRest(t) \/ FailPermanent(t) \/ ReadMetadata(t)
      PROVE  mutex' = u /\ timer'[u] + gap' >= MinInterval
  BY <1>3 DEF Request, Acquire, ClientAnswers, CopyMetadata, UpdateMetadata, EndRest,
              FailPermanent, ReadMetadata
<1>4. ASSUME NEW t \in Callers, Retry(t) \/ FallBack(t) \/ GiveUp(t)
      PROVE  mutex' = u /\ timer'[u] + gap' >= MinInterval
  <2>1. u # t /\ place[u] = "spacing"
    BY <1>4 DEF Retry, FallBack, GiveUp, FailTransient
  <2>. QED
    BY <1>4, <2>1 DEF Retry, FallBack, GiveUp, FailTransient
<1>5. ASSUME NEW t \in Callers, Leave(t)
      PROVE  mutex' = u /\ timer'[u] + gap' >= MinInterval
  BY <1>5 DEF Leave
<1>6. CASE Tick
  BY <1>6 DEF Tick
<1>7. CASE UNCHANGED vars
  BY <1>7 DEF vars
<1>. QED
  BY <1>1, <1>2, <1>3, <1>4, <1>5, <1>6, <1>7 DEF Next, Serve

(* A request starts only when the interval has passed.                      *)
LEMMA SpacedStep ==
  ASSUME TypeInv, SpacingInv, [Next]_vars, NEW u \in Callers,
         place[u] = "spacing", place'[u] = "calling"
  PROVE  gap = MinInterval
<1>. USE DEF TypeInv, SpacingInv, Go
<1>1. ASSUME NEW t \in Callers, StartRequest(t) PROVE gap = MinInterval
  <2>1. u = t
    BY <1>1 DEF StartRequest
  <2>. QED
    BY <1>1, <2>1 DEF StartRequest
<1>2. ASSUME NEW t \in Callers,
             Request(t) \/ Acquire(t) \/ EnterInterval(t) \/ ClientAnswers(t)
             \/ CopyMetadata(t) \/ UpdateMetadata(t) \/ EndRest(t) \/ FailPermanent(t)
             \/ ReadMetadata(t)
      PROVE  FALSE
  BY <1>2 DEF Request, Acquire, EnterInterval, ClientAnswers, CopyMetadata,
              UpdateMetadata, EndRest, FailPermanent, ReadMetadata
<1>3. ASSUME NEW t \in Callers, Retry(t) \/ FallBack(t) \/ GiveUp(t) PROVE FALSE
  BY <1>3 DEF Retry, FallBack, GiveUp, FailTransient
<1>4. ASSUME NEW t \in Callers, Leave(t) PROVE FALSE
  BY <1>4 DEF Leave
<1>5. ASSUME Tick \/ UNCHANGED vars PROVE FALSE
  BY <1>5 DEF Tick, vars
<1>. QED
  BY <1>1, <1>2, <1>3, <1>4, <1>5 DEF Next, Serve

(* Nobody sleeps at first.                                                  *)
LEMMA SpacingInit == Init => SpacingInv
BY DEF Init, SpacingInv

(* Between the starts of any two requests at least the minimum interval     *)
(* passes, whoever makes them and however long they sleep.                  *)
THEOREM SpacedStarts == Spec => StartsSpaced
<1>1. TypeInv /\ SpacingInv /\ [Next]_vars =>
        [\A t \in Callers :
           place[t] = "spacing" /\ place'[t] = "calling" => gap = MinInterval]_vars
  BY SpacedStep
<1>. QED
  BY <1>1, TypeInvariance, SpacingInit, SpacingNext, PTL DEF Spec, StartsSpaced

-----------------------------------------------------------------------------

(* The calls of a request are counted by its attempts, after every step.    *)
LEMMA CallsNext == TypeInv /\ CallsInv /\ [Next]_vars => CallsInv'
<1>. SUFFICES ASSUME TypeInv, CallsInv, [Next]_vars PROVE CallsInv'
  OBVIOUS
<1>. USE ClientsAre DEF TypeInv, CallsInv, Go, timeVars, requestVars
<1>1. ASSUME NEW t \in Callers, Request(t) PROVE CallsInv'
  BY <1>1 DEF Request
<1>2. ASSUME NEW t \in Callers,
             Acquire(t) \/ EnterInterval(t) \/ StartRequest(t)
      PROVE  CallsInv'
  BY <1>2 DEF Acquire, EnterInterval, StartRequest
<1>3. ASSUME NEW t \in Callers, ClientAnswers(t) PROVE CallsInv'
  <2>. DEFINE CallsOf(s) ==
                /\ client[s] = "fallback" => calls[s]["primary"] = MaxRetries + 1
                /\ client[s] = "primary" /\ HasFallback => calls[s]["fallback"] = 0
                /\ place[s] \in {"waiting", "permitted", "spacing", "calling"} =>
                     calls[s][client[s]] = attempt[s] /\ error[s] # "permanent"
                /\ place[s] \in {"resting", "answered", "copied", "returning", "reading"} =>
                     calls[s][client[s]] = attempt[s] + 1 /\ error[s] # "permanent"
                /\ place[s] \in {"raising", "idle"} => calls[s][client[s]] <= MaxRetries + 1
                /\ place[s] = "raising" /\ error[s] = "transient" =>
                     /\ calls[s][client[s]] = MaxRetries + 1
                     /\ HasFallback => client[s] = "fallback"
  <2>1. /\ UNCHANGED <<client, attempt, error>> /\ place[t] = "calling"
        /\ place' = [place EXCEPT ![t] = "answered"]
        /\ calls' = [calls EXCEPT ![t][client[t]] = @ + 1]
    BY <1>3 DEF ClientAnswers, CountCall
  <2>2. /\ calls[t][client[t]] = attempt[t] /\ error[t] # "permanent"
        /\ client[t] \in Clients /\ calls[t] \in [Clients -> Nat]
    BY <2>1
  <2>3. place'[t] = "answered" /\ calls'[t] = [calls[t] EXCEPT ![client[t]] = @ + 1]
    BY <2>1
  <2>4. /\ calls'[t][client[t]] = attempt[t] + 1
        /\ \A d \in Clients : d # client[t] => calls'[t][d] = calls[t][d]
    BY <2>2, <2>3
  <2>5. CallsOf(t)'
    BY <2>1, <2>2, <2>3, <2>4
  <2>6. ASSUME NEW s \in Callers, s # t PROVE CallsOf(s)'
    <3>1. place'[s] = place[s] /\ calls'[s] = calls[s]
      BY <2>1, <2>6
    <3>. QED
      BY <2>1, <3>1
  <2>. QED
    BY <2>5, <2>6
<1>4. ASSUME NEW t \in Callers, CopyMetadata(t) \/ UpdateMetadata(t) \/ ReadMetadata(t)
      PROVE  CallsInv'
  <2>1. CASE CopyMetadata(t)
    BY <2>1 DEF CopyMetadata
  <2>2. CASE UpdateMetadata(t)
    BY <2>2 DEF UpdateMetadata
  <2>3. CASE ReadMetadata(t)
    BY <2>3 DEF ReadMetadata
  <2>. QED
    BY <1>4, <2>1, <2>2, <2>3
<1>5. ASSUME NEW t \in Callers, Retry(t) PROVE CallsInv'
  BY <1>5 DEF Retry, MayRetry, FailTransient, CountCall
<1>6. ASSUME NEW t \in Callers, FallBack(t) PROVE CallsInv'
  BY <1>6 DEF FallBack, MayRetry, FailTransient, CountCall
<1>7. ASSUME NEW t \in Callers, GiveUp(t) PROVE CallsInv'
  BY <1>7 DEF GiveUp, MayRetry, FailTransient, CountCall
<1>8. ASSUME NEW t \in Callers, EndRest(t) PROVE CallsInv'
  BY <1>8 DEF EndRest
<1>9. ASSUME NEW t \in Callers, FailPermanent(t) PROVE CallsInv'
  BY <1>9 DEF FailPermanent, CountCall
<1>10. ASSUME NEW t \in Callers, Leave(t) PROVE CallsInv'
  BY <1>10 DEF Leave
<1>11. CASE Tick
  BY <1>11 DEF Tick
<1>12. CASE UNCHANGED vars
  BY <1>12 DEF vars
<1>. QED
  BY <1>1, <1>2, <1>3, <1>4, <1>5, <1>6, <1>7, <1>8, <1>9, <1>10, <1>11, <1>12
  DEF Next, Serve

(* No call was made at first.                                               *)
LEMMA CallsInit == Init => CallsInv
BY ClientsAre DEF Init, CallsInv

(* The types and the counts of the calls are invariants together.           *)
LEMMA CallsInvariance == Spec => [](TypeInv /\ CallsInv)
BY TypeInit, TypeNext, CallsInit, CallsNext, PTL DEF Spec

(* A request gives up over a transient error only after every client had    *)
(* its call and all its retries, and a permanent error is never retried.    *)
THEOREM AllChancesTaken == Spec => []ChancesTaken
<1>1. TypeInv /\ CallsInv => ChancesTaken
  <2>. SUFFICES ASSUME TypeInv, CallsInv, NEW t \in Callers
                PROVE  /\ client[t] = "fallback" => calls[t]["primary"] = MaxRetries + 1
                       /\ place[t] = "raising" /\ error[t] = "transient" =>
                            \A c \in Clients : calls[t][c] = MaxRetries + 1
                       /\ error[t] = "permanent" => place[t] \in {"raising", "idle"}
    BY DEF ChancesTaken
  <2>1. client[t] = "fallback" => calls[t]["primary"] = MaxRetries + 1
    BY DEF CallsInv
  <2>2. ASSUME place[t] = "raising", error[t] = "transient", NEW c \in Clients
        PROVE  calls[t][c] = MaxRetries + 1
    BY <2>2, ClientsAre DEF TypeInv, CallsInv
  <2>3. ASSUME error[t] = "permanent" PROVE place[t] \in {"raising", "idle"}
    BY <2>3 DEF TypeInv, CallsInv, Holding
  <2>. QED
    BY <2>1, <2>2, <2>3
<1>. QED
  BY <1>1, CallsInvariance, PTL

(* The state of the gateway has its types; a client is called at most once  *)
(* more than it is retried.                                                 *)
THEOREM TypesKept == Spec => []TypeOK
<1>1. TypeInv /\ CallsInv /\ PermitsKept => TypeOK
  <2>. SUFFICES ASSUME TypeInv, CallsInv, PermitsKept PROVE TypeOK
    OBVIOUS
  <2>1. permits \in 0..MaxConcurrency
    BY HoldersFinite DEF TypeInv, PermitsKept
  <2>2. ASSUME NEW t \in Callers, NEW c \in Clients
        PROVE  calls[t][c] \in 0..(MaxRetries + 1)
    BY ClientsAre, SMTT(20) DEF TypeInv, CallsInv, Holding
  <2>3. calls \in [Callers -> [Clients -> 0..(MaxRetries + 1)]]
    BY <2>2 DEF TypeInv
  <2>. QED
    BY <2>1, <2>3 DEF TypeInv, TypeOK
<1>. QED
  BY <1>1, CallsInvariance, NoPermitLost, PTL

-----------------------------------------------------------------------------

(* What a lone caller finds in the metadata is its own, after every step.   *)
LEMMA AloneNext == TypeInv /\ AloneInv /\ [Next]_vars => AloneInv'
<1>. SUFFICES ASSUME TypeInv, AloneInv, [Next]_vars PROVE AloneInv'
  OBVIOUS
<1>. USE DEF TypeInv, AloneInv, Go, Current, timeVars, requestVars
<1>1. ASSUME NEW t \in Callers, Request(t) PROVE AloneInv'
  BY <1>1 DEF Request
<1>2. ASSUME NEW t \in Callers,
             Acquire(t) \/ EnterInterval(t) \/ StartRequest(t) \/ EndRest(t)
             \/ ReadMetadata(t)
      PROVE  AloneInv'
  BY <1>2 DEF Acquire, EnterInterval, StartRequest, EndRest, ReadMetadata
<1>3. ASSUME NEW t \in Callers, ClientAnswers(t) PROVE AloneInv'
  BY <1>3 DEF ClientAnswers
<1>4. ASSUME NEW t \in Callers, CopyMetadata(t) PROVE AloneInv'
  BY <1>4 DEF CopyMetadata
<1>5. ASSUME NEW t \in Callers, UpdateMetadata(t) PROVE AloneInv'
  BY <1>5 DEF UpdateMetadata
<1>6. ASSUME NEW t \in Callers, Retry(t) \/ FallBack(t) \/ GiveUp(t) PROVE AloneInv'
  BY <1>6 DEF Retry, FallBack, GiveUp, FailTransient
<1>7. ASSUME NEW t \in Callers, FailPermanent(t) PROVE AloneInv'
  BY <1>7 DEF FailPermanent
<1>8. ASSUME NEW t \in Callers, Leave(t) PROVE AloneInv'
  BY <1>8 DEF Leave
<1>9. CASE Tick
  BY <1>9 DEF Tick
<1>10. CASE UNCHANGED vars
  BY <1>10 DEF vars
<1>. QED
  BY <1>1, <1>2, <1>3, <1>4, <1>5, <1>6, <1>7, <1>8, <1>9, <1>10 DEF Next, Serve

(* Nobody has read anything at first.                                       *)
LEMMA AloneInit == Init => AloneInv
BY DEF Init, AloneInv

(* A caller reads the metadata of its own request, with its own counts,     *)
(* unless another request was under way before it read.                     *)
THEOREM OwnMetadata == Spec => []MetadataOwn
<1>1. AloneInv => MetadataOwn
  BY DEF AloneInv, MetadataOwn
<1>. QED
  BY <1>1, TypeInvariance, AloneInit, AloneNext, PTL DEF Spec

-----------------------------------------------------------------------------
(* The summary of the older history, for any entries, categories, lines and *)
(* files of the map.                                                        *)

(* Of the members of a set, a sequence has none, or only in few places that *)
(* stand together.                                                          *)
Free(t, M) == \A k \in DOMAIN t : t[k] \notin M
Near(t, M, n) == \E m \in Nat : \A k \in DOMAIN t : t[k] \in M => k \in (m + 1)..(m + n)

(* A sequence goes on behind another.                                       *)
Heads(t, a) == \A k \in 1..Len(a) : k \in DOMAIN t /\ t[k] = a[k]

LEMMA JoinedPlaces ==
  ASSUME NEW A, NEW s \in Seq(A), NEW t \in Seq(A)
  PROVE  /\ s \o t \in Seq(A) /\ Len(s) \in Nat /\ Len(t) \in Nat
         /\ DOMAIN s = 1..Len(s) /\ DOMAIN t = 1..Len(t) /\ DOMAIN (s \o t) = 1..(Len(s) + Len(t))
         /\ \A k \in DOMAIN s : k \in DOMAIN (s \o t) /\ (s \o t)[k] = s[k]
         /\ \A k \in DOMAIN t : Len(s) + k \in DOMAIN (s \o t) /\ (s \o t)[Len(s) + k] = t[k]
         /\ \A k \in DOMAIN (s \o t) :
              \/ k \in DOMAIN s /\ (s \o t)[k] = s[k]
              \/ k - Len(s) \in DOMAIN t /\ (s \o t)[k] = t[k - Len(s)]
<1>. DEFINE u == s \o t
            a == Len(s)
            b == Len(t)
<1>1. /\ u \in Seq(A) /\ Len(u) = a + b /\ \A i \in 1..a : u[i] = s[i]
      /\ \A i \in 1..b : u[a + i] = t[i]
  BY Both
<1>2. a \in Nat /\ b \in Nat /\ DOMAIN s = 1..a /\ DOMAIN t = 1..b
  OBVIOUS
<1>3. DOMAIN u = 1..(a + b)
  <2>. HIDE DEF u, a, b
  <2>. QED
    BY <1>1
<1>. HIDE DEF u, a, b
<1>4. \A k \in 1..a : k \in 1..(a + b)
  BY <1>2
<1>5. \A k \in 1..b : a + k \in 1..(a + b)
  BY <1>2
<1>6. ASSUME NEW k \in 1..(a + b) PROVE k \in 1..a \/ (k - a \in 1..b /\ a + (k - a) = k)
  BY <1>2
<1>7. \A k \in DOMAIN u : \/ k \in DOMAIN s /\ u[k] = s[k]
                          \/ k - a \in DOMAIN t /\ u[k] = t[k - a]
  BY <1>1, <1>2, <1>3, <1>6
<1>. QED
  BY <1>1, <1>2, <1>3, <1>4, <1>5, <1>7 DEF u, a, b

LEMMA FreeJoin ==
  ASSUME NEW A, NEW s \in Seq(A), NEW t \in Seq(A), NEW M, Free(s, M), Free(t, M)
  PROVE  Free(s \o t, M)
<1>. DEFINE u == s \o t
<1>1. \A k \in DOMAIN u : \/ k \in DOMAIN s /\ u[k] = s[k]
                          \/ k - Len(s) \in DOMAIN t /\ u[k] = t[k - Len(s)]
  BY JoinedPlaces
<1>. HIDE DEF u
<1>2. Free(u, M)
  BY <1>1 DEF Free
<1>. QED
  BY <1>2 DEF u

LEMMA NearJoin ==
  ASSUME NEW A, NEW s \in Seq(A), NEW t \in Seq(A), NEW M, NEW n \in Nat,
         (Near(s, M, n) /\ Free(t, M)) \/ (Free(s, M) /\ Near(t, M, n))
  PROVE  Near(s \o t, M, n)
<1>. DEFINE u == s \o t
            a == Len(s)
<1>1. /\ a \in Nat /\ DOMAIN t = 1..Len(t) /\ Len(t) \in Nat
      /\ \A k \in DOMAIN u : k \in Nat /\ (\/ k \in DOMAIN s /\ u[k] = s[k]
                                           \/ k - a \in DOMAIN t /\ u[k] = t[k - a])
  BY JoinedPlaces
<1>. HIDE DEF u, a
<1>2. CASE Near(s, M, n) /\ Free(t, M)
  <2>1. PICK m \in Nat : \A k \in DOMAIN s : s[k] \in M => k \in (m + 1)..(m + n)
    BY <1>2 DEF Near
  <2>2. \A k \in DOMAIN u : u[k] \in M => k \in (m + 1)..(m + n)
    BY <1>1, <1>2, <2>1 DEF Free
  <2>3. Near(u, M, n)
    BY <2>2 DEF Near
  <2>. QED
    BY <2>3 DEF u
<1>3. CASE Free(s, M) /\ Near(t, M, n)
  <2>1. PICK m \in Nat : \A k \in DOMAIN t : t[k] \in M => k \in (m + 1)..(m + n)
    BY <1>3 DEF Near
  <2>2. ASSUME NEW k \in DOMAIN u, u[k] \in M PROVE k \in (m + a + 1)..(m + a + n)
    <3>1. k - a \in DOMAIN t /\ t[k - a] \in M
      BY <1>1, <1>3, <2>2 DEF Free
    <3>2. k - a \in (m + 1)..(m + n) /\ k \in Nat
      BY <1>1, <2>1, <3>1, <2>2
    <3>. QED
      BY <1>1, <3>2
  <2>3. m + a \in Nat
    BY <1>1
  <2>4. Near(u, M, n)
    BY <2>2, <2>3 DEF Near
  <2>. QED
    BY <2>4 DEF u
<1>. QED
  BY <1>2, <1>3

LEMMA NearShort ==
  ASSUME NEW A, NEW t \in Seq(A), NEW M, NEW n \in Nat, Len(t) <= n \/ Free(t, M)
  PROVE  Near(t, M, n)
<1>1. CASE Len(t) <= n
  <2>1. DOMAIN t = 1..Len(t) /\ Len(t) \in Nat
    OBVIOUS
  <2>2. \A k \in DOMAIN t : k \in (0 + 1)..(0 + n)
    BY <1>1, <2>1
  <2>. QED
    BY <2>2 DEF Near
<1>2. CASE Free(t, M)
  BY <1>2 DEF Near, Free
<1>. QED
  BY <1>1, <1>2

LEMMA NearFew ==
  ASSUME NEW t, NEW M, NEW n \in Nat, Near(t, M, n)
  PROVE  Cardinality({k \in DOMAIN t : t[k] \in M}) <= n
<1>. DEFINE K == {k \in DOMAIN t : t[k] \in M}
<1>1. PICK m \in Nat : \A k \in DOMAIN t : t[k] \in M => k \in (m + 1)..(m + n)
  BY DEF Near
<1>2. K \subseteq (m + 1)..(m + n)
  BY <1>1
<1>. HIDE DEF K
<1>3. /\ IsFiniteSet((m + 1)..(m + n))
      /\ Cardinality((m + 1)..(m + n)) = IF m + 1 > m + n THEN 0 ELSE m + n - (m + 1) + 1
  <2>1. m + 1 \in Int /\ m + n \in Int
    OBVIOUS
  <2>. DEFINE a == m + 1
              b == m + n
  <2>. HIDE DEF a, b
  <2>2. IsFiniteSet(a..b) /\ Cardinality(a..b) = IF a > b THEN 0 ELSE b - a + 1
    BY <2>1, FS_Interval DEF a, b
  <2>. QED
    BY <2>2 DEF a, b
<1>4. Cardinality((m + 1)..(m + n)) = n
  BY <1>3
<1>5. Cardinality(K) <= n
  BY <1>2, <1>3, <1>4, FS_Subset
<1>. QED
  BY <1>5 DEF K

(* The first lines of a sequence.                                           *)
FrontOf(u, t) ==
  /\ Len(u) <= Len(t) /\ \A k \in DOMAIN u : k \in DOMAIN t /\ u[k] = t[k]

LEMMA FrontKeeps ==
  ASSUME NEW u, NEW t, FrontOf(u, t), NEW M
  PROVE  /\ Free(t, M) => Free(u, M)
         /\ \A n \in Nat : Near(t, M, n) => Near(u, M, n)
<1>1. Free(t, M) => Free(u, M)
  BY DEF Free, FrontOf
<1>2. ASSUME NEW n \in Nat, Near(t, M, n) PROVE Near(u, M, n)
  <2>1. PICK m \in Nat : \A k \in DOMAIN t : t[k] \in M => k \in (m + 1)..(m + n)
    BY <1>2 DEF Near
  <2>2. \A k \in DOMAIN u : u[k] \in M => k \in (m + 1)..(m + n)
    BY <2>1 DEF FrontOf
  <2>. QED
    BY <2>2 DEF Near
<1>. QED
  BY <1>1, <1>2

LEMMA HeadsJoin ==
  ASSUME NEW A, NEW s \in Seq(A), NEW t \in Seq(A), NEW a, Heads(s, a)
  PROVE  Heads(s \o t, a)
<1>. DEFINE u == s \o t
<1>1. \A k \in DOMAIN s : k \in DOMAIN u /\ u[k] = s[k]
  BY JoinedPlaces
<1>. HIDE DEF u
<1>2. Heads(u, a)
  BY <1>1 DEF Heads
<1>. QED
  BY <1>2 DEF u

ToolParts == {"Findings", "Symbols", "Changed", "Verification", "Failed Approaches"}
Titled == Categories \cup {"Earlier Investigation", "Tool Evidence", "llm",
                           "compression budget exhausted"}
Whats == {"title"} \cup Facts \cup Places
SummaryLine == [part : Titled \cup ToolParts, what : Whats, ok : BOOLEAN]

OfPart(part) == {l \in SummaryLine : l.part = part}
About(f) == {l \in SummaryLine : l.what = f}

(* What is said of c stands in these parts of a sequence, in n places that  *)
(* stand together, or nowhere.                                              *)
Spread(t, M, n, c, parts) == Near(t, M, n) /\ (c \notin parts => Free(t, M))

(* Lines of a summary that say what the entries of s say, and each thing in *)
(* one of these parts only.                                                 *)
Tells(t, s) ==
  \A k \in DOMAIN t : t[k].what = "title" \/ \E i \in DOMAIN s : t[k].what = s[i].what
Told(t, s, parts) ==
  /\ t \in Seq(SummaryLine) /\ Tells(t, s)
  /\ \A p \in ToolParts : Spread(t, OfPart(p), KeepLast, p, parts)
  /\ \A f \in Facts : Spread(t, About(f), 1, CategoryOf[f], parts)

LEMMA SpreadJoin ==
  ASSUME NEW A, NEW s \in Seq(A), NEW t \in Seq(A), NEW M, NEW n \in Nat, NEW c, NEW C, NEW D,
         C \cap D = {}, Spread(s, M, n, c, C), Spread(t, M, n, c, D)
  PROVE  Spread(s \o t, M, n, c, C \cup D)
<1>1. CASE c \notin C
  <2>1. Free(s, M) /\ Near(t, M, n) /\ (c \notin D => Free(t, M))
    BY <1>1 DEF Spread
  <2>2. Near(s \o t, M, n)
    BY <2>1, NearJoin
  <2>3. c \notin D => Free(s \o t, M)
    BY <2>1, FreeJoin
  <2>. QED
    BY <2>2, <2>3 DEF Spread
<1>2. CASE c \in C
  <2>1. Near(s, M, n) /\ Free(t, M)
    BY <1>2 DEF Spread
  <2>2. Near(s \o t, M, n)
    BY <2>1, NearJoin
  <2>. QED
    BY <1>2, <2>2 DEF Spread
<1>. QED
  BY <1>1, <1>2

LEMMA ToldJoin ==
  ASSUME NEW s, NEW t, NEW u, NEW C, NEW D, C \cap D = {}, Told(t, s, C), Told(u, s, D)
  PROVE  Told(t \o u, s, C \cup D)
<1>1. t \in Seq(SummaryLine) /\ u \in Seq(SummaryLine)
  BY DEF Told
<1>. DEFINE v == t \o u
<1>2. /\ v \in Seq(SummaryLine)
      /\ \A k \in DOMAIN v : \/ k \in DOMAIN t /\ v[k] = t[k]
                             \/ k - Len(t) \in DOMAIN u /\ v[k] = u[k - Len(t)]
  BY <1>1, JoinedPlaces
<1>3. \A p \in ToolParts : Spread(v, OfPart(p), KeepLast, p, C \cup D)
  <2>1. SUFFICES ASSUME NEW p \in ToolParts PROVE Spread(v, OfPart(p), KeepLast, p, C \cup D)
    OBVIOUS
  <2>2. /\ Spread(t, OfPart(p), KeepLast, p, C) /\ Spread(u, OfPart(p), KeepLast, p, D)
        /\ KeepLast \in Nat
    BY CondenserAssumption DEF Told
  <2>. QED
    BY <1>1, <2>2, SpreadJoin
<1>4. \A f \in Facts : Spread(v, About(f), 1, CategoryOf[f], C \cup D)
  <2>1. SUFFICES ASSUME NEW f \in Facts PROVE Spread(v, About(f), 1, CategoryOf[f], C \cup D)
    OBVIOUS
  <2>2. Spread(t, About(f), 1, CategoryOf[f], C) /\ Spread(u, About(f), 1, CategoryOf[f], D)
    BY DEF Told
  <2>3. 1 \in Nat
    OBVIOUS
  <2>. QED
    BY <1>1, <2>2, <2>3, SpreadJoin
<1>5. Tells(t, s) /\ Tells(u, s)
  BY DEF Told
<1>. HIDE DEF v
<1>6. Tells(v, s)
  BY <1>2, <1>5 DEF Tells
<1>7. Told(v, s, C \cup D)
  BY <1>2, <1>3, <1>4, <1>6 DEF Told
<1>. QED
  BY <1>7 DEF v

LEMMA ToldFront ==
  ASSUME NEW s, NEW t, NEW u \in Seq(SummaryLine), NEW C, Told(t, s, C), FrontOf(u, t)
  PROVE  Told(u, s, C)
<1>1. Tells(u, s)
  BY DEF Told, Tells, FrontOf
<1>2. ASSUME NEW M, NEW n \in Nat, NEW c, Spread(t, M, n, c, C) PROVE Spread(u, M, n, c, C)
  BY <1>2, FrontKeeps DEF Spread
<1>3. KeepLast \in Nat /\ 1 \in Nat
  BY CondenserAssumption
<1>4. \A p \in ToolParts : Spread(u, OfPart(p), KeepLast, p, C)
  <2>1. ASSUME NEW p \in ToolParts PROVE Spread(u, OfPart(p), KeepLast, p, C)
    <3>1. Spread(t, OfPart(p), KeepLast, p, C)
      BY DEF Told
    <3>. QED
      BY <1>2, <1>3, <3>1
  <2>. QED
    BY <2>1
<1>5. \A f \in Facts : Spread(u, About(f), 1, CategoryOf[f], C)
  <2>1. ASSUME NEW f \in Facts PROVE Spread(u, About(f), 1, CategoryOf[f], C)
    <3>1. Spread(t, About(f), 1, CategoryOf[f], C)
      BY DEF Told
    <3>. QED
      BY <1>2, <1>3, <3>1
  <2>. QED
    BY <2>1
<1>. QED
  BY <1>1, <1>4, <1>5 DEF Told

LEMMA ToldTitle ==
  ASSUME NEW s, NEW part \in Titled
  PROVE  Told(<<Title(part)>>, s, {})
<1>. DEFINE t == <<Title(part)>>
<1>1. t \in Seq(SummaryLine) /\ DOMAIN t = {1} /\ t[1].what = "title" /\ t[1].part = part
  BY DEF Title, Line, SummaryLine, Whats
<1>. HIDE DEF t
<1>2. ASSUME NEW p \in ToolParts PROVE Free(t, OfPart(p)) /\ part # p
  <2>1. part # p
    BY DEF Titled, ToolParts, Categories
  <2>. QED
    BY <1>1, <2>1 DEF Free, OfPart
<1>3. ASSUME NEW f \in Facts PROVE Free(t, About(f))
  BY <1>1, CondenserAssumption DEF Free, About
<1>4. ASSUME NEW M, NEW n \in Nat, Free(t, M), NEW c PROVE Spread(t, M, n, c, {})
  BY <1>1, <1>4, NearShort DEF Spread
<1>5. KeepLast \in Nat /\ 1 \in Nat
  BY CondenserAssumption
<1>6. \A p \in ToolParts : Spread(t, OfPart(p), KeepLast, p, {})
  BY <1>2, <1>4, <1>5
<1>7. \A f \in Facts : Spread(t, About(f), 1, CategoryOf[f], {})
  BY <1>3, <1>4, <1>5
<1>8. Told(t, s, {})
  BY <1>1, <1>6, <1>7 DEF Told, Tells
<1>. QED
  BY <1>8 DEF t

LEMMA ToldNothing ==
  ASSUME NEW s, NEW C
  PROVE  Told(<<>>, s, C)
<1>. DEFINE t == <<>>
<1>1. t \in Seq(SummaryLine) /\ DOMAIN t = {}
  OBVIOUS
<1>. HIDE DEF t
<1>2. \A M : Free(t, M)
  BY <1>1 DEF Free
<1>3. ASSUME NEW M, NEW n \in Nat, NEW c PROVE Spread(t, M, n, c, C)
  <2>1. Near(t, M, n)
    BY <1>1, <1>2, NearShort
  <2>. QED
    BY <1>2, <2>1 DEF Spread
<1>4. KeepLast \in Nat /\ 1 \in Nat
  BY CondenserAssumption
<1>5. Tells(t, s)
  BY <1>1 DEF Tells
<1>6. Told(t, s, C)
  BY <1>1, <1>3, <1>4, <1>5 DEF Told
<1>. QED
  BY <1>6 DEF t

LEMMA ToldSection ==
  ASSUME NEW s, NEW part \in Titled, NEW t, NEW C, Told(t, s, C)
  PROVE  Told(Section(part, t), s, C)
<1>1. CASE t = <<>>
  BY <1>1, ToldNothing DEF Section
<1>2. CASE t # <<>>
  <2>1. Told(<<Title(part)>>, s, {})
    BY ToldTitle
  <2>2. Told(<<Title(part)>> \o t, s, {} \cup C) /\ {} \cup C = C
    BY <2>1, ToldJoin
  <2>. QED
    BY <1>2, <2>2 DEF Section
<1>. QED
  BY <1>1, <1>2

LEMMA EntryIs ==
  ASSUME NEW e \in SomeEntry
  PROVE  IF e.kind = "said" THEN e.what \in Facts ELSE e.what \in Places
  BY DEF SomeEntry

(* The lines made of the entries at these places.                           *)
LinesAt(t, at, s, part, places, passed) ==
  /\ t \in Seq(SummaryLine) /\ DOMAIN t = 1..Len(t) /\ Len(t) \in Nat
  /\ at \in [DOMAIN t -> places] /\ \A i \in places : \E k \in DOMAIN t : at[k] = i
  /\ \A k \in DOMAIN t : t[k] = Line(part, s[at[k]].what, at[k] \in passed)
  /\ \A k, l \in DOMAIN t : at[k] = at[l] => k = l

LEMMA LinesAre ==
  ASSUME NEW s \in Seq(SomeEntry), NEW part \in Titled \cup ToolParts,
         NEW places, places \subseteq DOMAIN s, NEW passed
  PROVE  \E at : LinesAt(LinesFor(s, part, places, passed), at, s, part, places, passed)
<1>. DEFINE L == [i \in DOMAIN s |-> Line(part, s[i].what, i \in passed)]
            t == Picked(L, places)
            n == Cardinality(places)
<1>1. \A i \in DOMAIN s : s[i].what \in Whats
  BY EntryIs DEF Whats
<1>2. \A i \in DOMAIN s : Line(part, s[i].what, i \in passed) \in SummaryLine
  BY <1>1 DEF Line, SummaryLine
<1>3. L \in Seq(SummaryLine) /\ DOMAIN L = DOMAIN s
  BY <1>2
<1>4. \A i \in DOMAIN s : L[i] = Line(part, s[i].what, i \in passed)
  OBVIOUS
<1>. HIDE DEF L
<1>5. /\ t \in Seq(SummaryLine) /\ n \in Nat /\ Len(t) = n
      /\ \E at \in [1..n -> places] : PickedAt(at, L, places)
  BY <1>3, PickedPlaces
<1>6. PICK at \in [1..n -> places] : PickedAt(at, L, places)
  BY <1>5
<1>7. /\ \A k \in 1..n : t[k] = L[at[k]]
      /\ \A i \in places : \E k \in 1..n : at[k] = i
      /\ \A k, l \in 1..n : k < l <=> at[k] < at[l]
  BY <1>6 DEF PickedAt
<1>8. DOMAIN t = 1..n
  BY <1>5
<1>9. ASSUME NEW k \in 1..n, NEW l \in 1..n, at[k] = at[l] PROVE k = l
  <2>1. at[k] \in Nat
    BY <1>6
  <2>2. ~(at[k] < at[l]) /\ ~(at[l] < at[k])
    BY <1>9, <2>1
  <2>3. ~(k < l) /\ ~(l < k)
    BY <1>7, <2>2
  <2>. QED
    BY <2>3, <1>5
<1>. HIDE DEF t, n
<1>10. \A k \in 1..n : t[k] = Line(part, s[at[k]].what, at[k] \in passed)
  BY <1>4, <1>6, <1>7
<1>11. LinesAt(t, at, s, part, places, passed)
  BY <1>5, <1>6, <1>7, <1>8, <1>9, <1>10 DEF LinesAt
<1>12. LinesFor(s, part, places, passed) = t
  BY DEF LinesFor, t, L
<1>. QED
  BY <1>11, <1>12

(* What one category has: its lines say each fact once.                     *)
LEMMA SignalsTold ==
  ASSUME NEW s \in Seq(SomeEntry), NEW c \in Categories
  PROVE  /\ Told(SignalsOf(s, c), s, {c})
         /\ \A k \in DOMAIN SignalsOf(s, c) : SignalsOf(s, c)[k].part = c
         /\ \A i \in DOMAIN s : s[i].kind = "said" /\ CategoryOf[s[i].what] = c =>
              \E k \in DOMAIN SignalsOf(s, c) : SignalsOf(s, c)[k] = Line(c, s[i].what, TRUE)
<1>. DEFINE places == {i \in OfKind(s, "said") : CategoryOf[s[i].what] = c /\ IsFirst(s, i)}
            t == SignalsOf(s, c)
<1>1. /\ places \subseteq DOMAIN s /\ c \in Titled \cup ToolParts
      /\ \A i \in places : s[i].kind = "said" /\ CategoryOf[s[i].what] = c /\ IsFirst(s, i)
  BY DEF OfKind, Titled
<1>2. PICK at : LinesAt(t, at, s, c, places, DOMAIN s)
  <2>. HIDE DEF places
  <2>1. \E at : LinesAt(LinesFor(s, c, places, DOMAIN s), at, s, c, places, DOMAIN s)
    BY <1>1, LinesAre
  <2>2. t = LinesFor(s, c, places, DOMAIN s)
    BY DEF SignalsOf, places
  <2>. QED
    BY <2>1, <2>2
<1>3. /\ t \in Seq(SummaryLine) /\ DOMAIN t = 1..Len(t) /\ Len(t) \in Nat
      /\ at \in [DOMAIN t -> places] /\ \A i \in places : \E k \in DOMAIN t : at[k] = i
      /\ \A k \in DOMAIN t : t[k] = Line(c, s[at[k]].what, at[k] \in DOMAIN s)
      /\ \A k, l \in DOMAIN t : at[k] = at[l] => k = l
  BY <1>2 DEF LinesAt
<1>4. \A k \in DOMAIN t : at[k] \in places /\ at[k] \in DOMAIN s /\ t[k] = Line(c, s[at[k]].what, TRUE)
  <2>1. ASSUME NEW k \in DOMAIN t
        PROVE  at[k] \in places /\ at[k] \in DOMAIN s /\ t[k] = Line(c, s[at[k]].what, TRUE)
    <3>1. at[k] \in places /\ t[k] = Line(c, s[at[k]].what, at[k] \in DOMAIN s)
      BY <1>3
    <3>2. at[k] \in DOMAIN s
      BY <1>1, <3>1
    <3>3. (at[k] \in DOMAIN s) = TRUE
      BY <3>2
    <3>. QED
      BY <3>1, <3>2, <3>3
  <2>. QED
    BY <2>1
<1>5. \A i \in DOMAIN s : i \in Nat
  OBVIOUS
<1>6. \A i \in DOMAIN s : s[i] \in SomeEntry
  OBVIOUS
<1>7. \A i \in places : s[i].what \in Facts
  BY <1>1, <1>6, EntryIs
<1>. HIDE DEF t
<1>8. ASSUME NEW k \in DOMAIN t, NEW l \in DOMAIN t, t[k].what = t[l].what PROVE k = l
  <2>. DEFINE i == at[k]
              j == at[l]
  <2>1. /\ i \in DOMAIN s /\ j \in DOMAIN s /\ s[i].what = s[j].what
        /\ i \in places /\ j \in places
    BY <1>4, <1>8 DEF Line
  <2>2. IsFirst(s, i) /\ IsFirst(s, j) /\ s[i].kind = s[j].kind
    BY <1>1, <2>1
  <2>. HIDE DEF i, j
  <2>3. i \in Nat /\ j \in Nat /\ i >= 1 /\ j >= 1
    BY <2>1
  <2>4. ~(i < j)
    <3>1. SUFFICES ASSUME i < j PROVE FALSE
      OBVIOUS
    <3>2. i \in 1..(j - 1)
      BY <3>1, <2>3
    <3>. QED
      BY <2>1, <2>2, <3>2 DEF IsFirst
  <2>5. ~(j < i)
    <3>1. SUFFICES ASSUME j < i PROVE FALSE
      OBVIOUS
    <3>2. j \in 1..(i - 1)
      BY <3>1, <2>3
    <3>. QED
      BY <2>1, <2>2, <3>2 DEF IsFirst
  <2>6. i = j
    BY <2>3, <2>4, <2>5
  <2>. QED
    BY <2>6, <1>3 DEF i, j
<1>9. \A k \in DOMAIN t : t[k].part = c /\ t[k].what \in Facts /\ CategoryOf[t[k].what] = c
                          /\ k \in Nat /\ k >= 1
  BY <1>1, <1>3, <1>4, <1>7 DEF Line
<1>10. Tells(t, s)
  BY <1>4 DEF Tells, Line
<1>11. ASSUME NEW p \in ToolParts PROVE Spread(t, OfPart(p), KeepLast, p, {c})
  <2>1. c # p
    BY DEF ToolParts, Categories
  <2>2. Free(t, OfPart(p))
    BY <2>1, <1>9 DEF Free, OfPart
  <2>. QED
    BY <1>3, <2>2, NearShort, CondenserAssumption DEF Spread
<1>12. ASSUME NEW f \in Facts PROVE Spread(t, About(f), 1, CategoryOf[f], {c})
  <2>1. CASE Free(t, About(f))
    BY <1>3, <2>1, NearShort DEF Spread
  <2>2. CASE ~Free(t, About(f))
    <3>1. PICK k \in DOMAIN t : t[k] \in About(f)
      BY <2>2 DEF Free
    <3>2. t[k].what = f
      BY <3>1 DEF About
    <3>3. CategoryOf[f] = c /\ k \in Nat /\ k >= 1
      BY <1>9, <3>2
    <3>4. \A l \in DOMAIN t : t[l] \in About(f) => l = k
      BY <1>8, <3>2 DEF About
    <3>5. k - 1 \in Nat /\ k \in (k - 1 + 1)..(k - 1 + 1)
      BY <3>3
    <3>6. Near(t, About(f), 1)
      <4>. DEFINE m == k - 1
      <4>1. m \in Nat /\ k \in (m + 1)..(m + 1)
        BY <3>3
      <4>. HIDE DEF m
      <4>. QED
        BY <3>4, <4>1 DEF Near
    <3>. QED
      BY <3>3, <3>6 DEF Spread
  <2>. QED
    BY <2>1, <2>2
<1>13. Told(t, s, {c})
  BY <1>3, <1>10, <1>11, <1>12 DEF Told
<1>14. ASSUME NEW i \in DOMAIN s, s[i].kind = "said", CategoryOf[s[i].what] = c
       PROVE  \E k \in DOMAIN t : t[k] = Line(c, s[i].what, TRUE)
  <2>. DEFINE T == {j \in DOMAIN s : s[j].kind = "said" /\ s[j].what = s[i].what}
  <2>1. T \subseteq Nat /\ T # {}
    BY <1>5, <1>14
  <2>2. PICK j \in T : \A l \in T : j <= l
    <3>. HIDE DEF T
    <3>. QED
      BY <2>1, LeastNumber
  <2>3. j \in DOMAIN s /\ s[j].kind = "said" /\ s[j].what = s[i].what /\ j \in Nat /\ DOMAIN s = 1..Len(s)
    BY <2>2
  <2>4. ASSUME NEW l \in 1..(j - 1), s[l].kind = s[j].kind PROVE s[l].what # s[j].what
    <3>1. l \in DOMAIN s /\ ~(j <= l)
      BY <2>3
    <3>. QED
      BY <2>2, <2>3, <2>4, <3>1
  <2>5. IsFirst(s, j)
    BY <2>4 DEF IsFirst
  <2>6. j \in places
    BY <1>14, <2>3, <2>5 DEF OfKind
  <2>7. PICK k \in DOMAIN t : at[k] = j
    BY <1>3, <2>6
  <2>. QED
    BY <1>4, <2>3, <2>7
<1>. QED
  BY <1>9, <1>13, <1>14 DEF t

LEMMA ToolTold ==
  ASSUME NEW s \in Seq(SomeEntry), NEW part \in ToolParts, NEW passed,
         NEW places, places \subseteq {i \in DOMAIN s : s[i].kind # "said"}
  PROVE  Told(LastOf(LinesFor(s, part, places, passed)), s, {part})
<1>. DEFINE q == LinesFor(s, part, places, passed)
            t == LastOf(q)
<1>1. /\ places \subseteq DOMAIN s /\ part \in Titled \cup ToolParts
      /\ \A i \in places : s[i].kind # "said" /\ s[i] \in SomeEntry
  OBVIOUS
<1>2. \A i \in places : s[i].what \in Places
  BY <1>1, EntryIs
<1>3. PICK at : LinesAt(q, at, s, part, places, passed)
  BY <1>1, LinesAre
<1>4. /\ q \in Seq(SummaryLine) /\ DOMAIN q = 1..Len(q)
      /\ at \in [DOMAIN q -> places]
      /\ \A k \in DOMAIN q : q[k] = Line(part, s[at[k]].what, at[k] \in passed)
  BY <1>3 DEF LinesAt
<1>. HIDE DEF q
<1>5. \A k \in DOMAIN q : at[k] \in places /\ q[k].part = part /\ q[k].what = s[at[k]].what
  BY <1>4 DEF Line
<1>6. t = EndOf(q, KeepLast) /\ KeepLast \in Nat
  BY CondenserAssumption DEF LastOf, EndOf
<1>7. /\ t \in Seq(SummaryLine) /\ Len(t) <= KeepLast
      /\ \E d \in 0..Len(q) : EndAt(d, t, q)
  BY <1>4, <1>6, EndPlaces
<1>8. PICK d \in 0..Len(q) : EndAt(d, t, q)
  BY <1>7
<1>. HIDE DEF t
<1>9. \A k \in DOMAIN t : k + d \in DOMAIN q /\ t[k] = q[k + d]
  BY <1>4, <1>7, <1>8 DEF EndAt
<1>10. \A k \in DOMAIN t : t[k].part = part /\ \E i \in places : t[k].what = s[i].what
  BY <1>5, <1>9
<1>11. Tells(t, s)
  BY <1>1, <1>10 DEF Tells
<1>12. ASSUME NEW p \in ToolParts PROVE Spread(t, OfPart(p), KeepLast, p, {part})
  <2>1. p # part => Free(t, OfPart(p))
    BY <1>10 DEF Free, OfPart
  <2>2. Near(t, OfPart(p), KeepLast)
    BY <1>6, <1>7, NearShort
  <2>. QED
    BY <2>1, <2>2 DEF Spread
<1>13. ASSUME NEW f \in Facts PROVE Spread(t, About(f), 1, CategoryOf[f], {part})
  <2>1. \A k \in DOMAIN t : t[k].what \in Places
    BY <1>2, <1>10
  <2>2. Free(t, About(f))
    BY <2>1, CondenserAssumption DEF Free, About
  <2>3. Near(t, About(f), 1)
    BY <1>7, <2>2, NearShort
  <2>. QED
    BY <2>2, <2>3 DEF Spread
<1>14. Told(t, s, {part})
  BY <1>7, <1>11, <1>12, <1>13 DEF Told
<1>. QED
  BY <1>14 DEF t, q

LEMMA ToolsTold ==
  ASSUME NEW s \in Seq(SomeEntry)
  PROVE  Told(ToolLines(s), s, ToolParts)
<1>. DEFINE others == {i \in DOMAIN s : s[i].kind # "said"}
            ran == OfKind(s, "run_shell")
            passed == {i \in ran : Passed(s[i])}
            found == OfKind(s, "search") \cup {i \in OfKind(s, "read_file") : IsFirst(s, i)}
            failed == (ran \ passed) \cup {i \in OfKind(s, "edit") : s[i].error}
            a == LastOf(LinesFor(s, "Findings", found, DOMAIN s))
            b == LastOf(LinesFor(s, "Symbols", OfKind(s, "symbol_search"), DOMAIN s))
            c == LastOf(LinesFor(s, "Changed", OfKind(s, "edit"), DOMAIN s))
            d == LastOf(LinesFor(s, "Verification", ran, passed))
            e == LastOf(LinesFor(s, "Failed Approaches", failed, {}))
<1>1. /\ ran \subseteq others /\ found \subseteq others /\ failed \subseteq others
      /\ OfKind(s, "symbol_search") \subseteq others /\ OfKind(s, "edit") \subseteq others
  BY DEF OfKind
<1>2. ToolParts = {"Findings", "Symbols", "Changed", "Verification", "Failed Approaches"}
  BY DEF ToolParts
<1>. HIDE DEF ran, found, failed, passed
<1>3. Told(a, s, {"Findings"})
  BY <1>1, <1>2, ToolTold
<1>4. Told(b, s, {"Symbols"})
  BY <1>1, <1>2, ToolTold
<1>5. Told(c, s, {"Changed"})
  BY <1>1, <1>2, ToolTold
<1>6. Told(d, s, {"Verification"})
  BY <1>1, <1>2, ToolTold
<1>7. Told(e, s, {"Failed Approaches"})
  BY <1>1, <1>2, ToolTold
<1>8. ToolLines(s) = a \o b \o c \o d \o e
  BY DEF ToolLines, ran, found, failed, passed
<1>. HIDE DEF a, b, c, d, e
<1>9. Told(a \o b, s, {"Findings"} \cup {"Symbols"})
  BY <1>3, <1>4, ToldJoin
<1>10. Told(a \o b \o c, s, {"Findings"} \cup {"Symbols"} \cup {"Changed"})
  BY <1>5, <1>9, ToldJoin
<1>11. Told(a \o b \o c \o d, s, {"Findings"} \cup {"Symbols"} \cup {"Changed"} \cup {"Verification"})
  BY <1>6, <1>10, ToldJoin
<1>12. Told(a \o b \o c \o d \o e, s,
            {"Findings"} \cup {"Symbols"} \cup {"Changed"} \cup {"Verification"} \cup {"Failed Approaches"})
  BY <1>7, <1>11, ToldJoin
<1>13. ToolParts = {"Findings"} \cup {"Symbols"} \cup {"Changed"} \cup {"Verification"} \cup {"Failed Approaches"}
  BY <1>2
<1>. QED
  BY <1>8, <1>12, <1>13

LEMMA SignalLinesTold ==
  ASSUME NEW s \in Seq(SomeEntry)
  PROVE  Told(SignalLines(s), s, Categories)
<1>. DEFINE section(category) == Section(category, SignalsOf(s, category))
            a == section("Constraints")
            b == section("Requirements")
            c == section("Decisions")
            d == section("Confirmed Facts")
            e == section("Logical Constraints")
<1>1. ASSUME NEW category \in Categories PROVE Told(section(category), s, {category})
  <2>1. category \in Titled /\ Told(SignalsOf(s, category), s, {category})
    BY SignalsTold DEF Titled
  <2>. QED
    BY <2>1, ToldSection
<1>2. Categories = {"Constraints", "Requirements", "Decisions", "Confirmed Facts", "Logical Constraints"}
  BY DEF Categories
<1>3. /\ Told(a, s, {"Constraints"}) /\ Told(b, s, {"Requirements"}) /\ Told(c, s, {"Decisions"})
      /\ Told(d, s, {"Confirmed Facts"}) /\ Told(e, s, {"Logical Constraints"})
  BY <1>1, <1>2
<1>4. SignalLines(s) = a \o b \o c \o d \o e
  BY DEF SignalLines
<1>. HIDE DEF a, b, c, d, e
<1>5. Told(a \o b, s, {"Constraints"} \cup {"Requirements"})
  BY <1>3, ToldJoin
<1>6. Told(a \o b \o c, s, {"Constraints"} \cup {"Requirements"} \cup {"Decisions"})
  BY <1>3, <1>5, ToldJoin
<1>7. Told(a \o b \o c \o d, s,
           {"Constraints"} \cup {"Requirements"} \cup {"Decisions"} \cup {"Confirmed Facts"})
  BY <1>3, <1>6, ToldJoin
<1>8. Told(a \o b \o c \o d \o e, s,
           {"Constraints"} \cup {"Requirements"} \cup {"Decisions"} \cup {"Confirmed Facts"}
             \cup {"Logical Constraints"})
  BY <1>3, <1>7, ToldJoin
<1>9. Categories = {"Constraints"} \cup {"Requirements"} \cup {"Decisions"} \cup {"Confirmed Facts"}
                     \cup {"Logical Constraints"}
  BY <1>2
<1>. QED
  BY <1>4, <1>8, <1>9

(* All lines of a summary, before it is fitted to its layer, and what they  *)
(* begin with: its title and the section of the constraints.                *)
AllLines(s) ==
  <<Title("Earlier Investigation")>> \o SignalLines(s) \o Section("Tool Evidence", ToolLines(s))
Opening(s) ==
  <<Title("Earlier Investigation")>> \o Section("Constraints", SignalsOf(s, "Constraints"))

LEMMA AllTold ==
  ASSUME NEW s \in Seq(SomeEntry)
  PROVE  Told(AllLines(s), s, Categories \cup ToolParts)
<1>1. {"Earlier Investigation", "Tool Evidence"} \subseteq Titled
  BY DEF Titled
<1>. DEFINE a == <<Title("Earlier Investigation")>>
            b == SignalLines(s)
            c == Section("Tool Evidence", ToolLines(s))
<1>2. Told(a, s, {})
  BY <1>1, ToldTitle
<1>3. Told(b, s, Categories)
  BY SignalLinesTold
<1>4. Told(c, s, ToolParts)
  BY <1>1, ToolsTold, ToldSection
<1>5. AllLines(s) = a \o b \o c
  BY DEF AllLines
<1>. HIDE DEF a, b, c
<1>6. {} \cap Categories = {} /\ ({} \cup Categories) \cap ToolParts = {}
  BY DEF Categories, ToolParts
<1>7. Told(a \o b, s, {} \cup Categories)
  BY <1>2, <1>3, <1>6, ToldJoin
<1>8. Told(a \o b \o c, s, ({} \cup Categories) \cup ToolParts)
  BY <1>4, <1>6, <1>7, ToldJoin
<1>9. ({} \cup Categories) \cup ToolParts = Categories \cup ToolParts
  OBVIOUS
<1>. QED
  BY <1>5, <1>8, <1>9

LEMMA HeadsBehind ==
  ASSUME NEW A, NEW a \in Seq(A), NEW t \in Seq(A), NEW b \in Seq(A), Heads(t, b)
  PROVE  Heads(a \o t, a \o b)
<1>. DEFINE u == a \o t
            v == a \o b
            n == Len(a)
<1>1. /\ u \in Seq(A) /\ v \in Seq(A) /\ n \in Nat /\ Len(b) \in Nat /\ Len(t) \in Nat
      /\ Len(v) = n + Len(b) /\ Len(u) = n + Len(t)
  BY Both
<1>2. /\ \A k \in 1..n : u[k] = a[k] /\ v[k] = a[k]
      /\ \A k \in 1..Len(b) : v[n + k] = b[k]
      /\ \A k \in 1..Len(t) : u[n + k] = t[k]
  BY Both
<1>3. DOMAIN t = 1..Len(t)
  OBVIOUS
<1>. HIDE DEF u, v, n
<1>4. DOMAIN u = 1..(n + Len(t))
  BY <1>1
<1>5. \A k \in 1..Len(b) : k \in 1..Len(t) /\ t[k] = b[k]
  BY <1>3 DEF Heads
<1>6. ASSUME NEW k \in 1..Len(v) PROVE k \in DOMAIN u /\ u[k] = v[k]
  <2>1. CASE k \in 1..n
    BY <1>1, <1>2, <1>4, <2>1
  <2>2. CASE k \notin 1..n
    <3>. DEFINE j == k - n
    <3>1. j \in 1..Len(b) /\ k = n + j
      BY <1>1, <2>2
    <3>. HIDE DEF j
    <3>2. j \in 1..Len(t) /\ t[j] = b[j]
      BY <1>5, <3>1
    <3>3. u[k] = t[j] /\ v[k] = b[j]
      BY <1>2, <3>1, <3>2
    <3>4. k \in 1..(n + Len(t))
      BY <1>1, <3>1, <3>2
    <3>. QED
      BY <1>4, <3>2, <3>3, <3>4
  <2>. QED
    BY <2>1, <2>2
<1>7. Heads(u, v)
  BY <1>6 DEF Heads
<1>. QED
  BY <1>7 DEF u, v

LEMMA HeadsItself ==
  ASSUME NEW A, NEW t \in Seq(A) PROVE Heads(t, t)
  BY DEF Heads

LEMMA SectionLines ==
  ASSUME NEW part \in Titled, NEW t \in Seq(SummaryLine)
  PROVE  /\ Section(part, t) \in Seq(SummaryLine)
         /\ \A k \in DOMAIN Section(part, t) :
              \/ Section(part, t)[k] = Title(part)
              \/ \E i \in DOMAIN t : Section(part, t)[k] = t[i]
         /\ \A i \in DOMAIN t : \E k \in DOMAIN Section(part, t) : Section(part, t)[k] = t[i]
<1>. DEFINE u == Section(part, t)
            h == <<Title(part)>>
<1>1. h \in Seq(SummaryLine) /\ DOMAIN h = {1} /\ h[1] = Title(part)
  BY DEF Title, Line, SummaryLine, Whats
<1>2. CASE t = <<>>
  BY <1>2 DEF Section
<1>3. CASE t # <<>>
  <2>1. u = h \o t
    BY <1>3 DEF Section
  <2>. HIDE DEF h
  <2>2. /\ h \o t \in Seq(SummaryLine)
        /\ \A k \in DOMAIN t : Len(h) + k \in DOMAIN (h \o t) /\ (h \o t)[Len(h) + k] = t[k]
        /\ \A k \in DOMAIN (h \o t) : \/ k \in DOMAIN h /\ (h \o t)[k] = h[k]
                                      \/ k - Len(h) \in DOMAIN t /\ (h \o t)[k] = t[k - Len(h)]
    BY <1>1, JoinedPlaces
  <2>3. /\ u \in Seq(SummaryLine)
        /\ \A k \in DOMAIN t : Len(h) + k \in DOMAIN u /\ u[Len(h) + k] = t[k]
        /\ \A k \in DOMAIN u : \/ k \in DOMAIN h /\ u[k] = h[k]
                               \/ k - Len(h) \in DOMAIN t /\ u[k] = t[k - Len(h)]
    BY <2>1, <2>2
  <2>. HIDE DEF u
  <2>4. \A k \in DOMAIN u : u[k] = Title(part) \/ \E i \in DOMAIN t : u[k] = t[i]
    BY <1>1, <2>3
  <2>5. \A i \in DOMAIN t : \E k \in DOMAIN u : u[k] = t[i]
    BY <2>3
  <2>. QED
    BY <2>3, <2>4, <2>5 DEF u
<1>. QED
  BY <1>2, <1>3

LEMMA TitleIs ==
  ASSUME NEW part \in Titled
  PROVE  /\ <<Title(part)>> \in Seq(SummaryLine) /\ Title(part).part = part
         /\ DOMAIN <<Title(part)>> = {1} /\ <<Title(part)>>[1] = Title(part)
  BY DEF Title, Line, SummaryLine, Whats

LEMMA OpeningIs ==
  ASSUME NEW s \in Seq(SomeEntry)
  PROVE  /\ Opening(s) \in Seq(SummaryLine)
         /\ \A k \in DOMAIN Opening(s) : Opening(s)[k].part \in {"Earlier Investigation", "Constraints"}
         /\ \A i \in DOMAIN s : s[i].kind = "said" /\ CategoryOf[s[i].what] = "Constraints" =>
              \E k \in DOMAIN Opening(s) : Opening(s)[k] = Line("Constraints", s[i].what, TRUE)
<1>. DEFINE t == SignalsOf(s, "Constraints")
            u == Section("Constraints", t)
            h == <<Title("Earlier Investigation")>>
            o == h \o u
<1>1. "Constraints" \in Categories /\ "Constraints" \in Titled /\ "Earlier Investigation" \in Titled
  BY DEF Categories, Titled
<1>2. /\ t \in Seq(SummaryLine) /\ \A k \in DOMAIN t : t[k].part = "Constraints"
      /\ \A i \in DOMAIN s : s[i].kind = "said" /\ CategoryOf[s[i].what] = "Constraints" =>
           \E k \in DOMAIN t : t[k] = Line("Constraints", s[i].what, TRUE)
  BY <1>1, SignalsTold DEF Told
<1>. HIDE DEF t
<1>3. /\ u \in Seq(SummaryLine)
      /\ \A k \in DOMAIN u : u[k] = Title("Constraints") \/ \E i \in DOMAIN t : u[k] = t[i]
      /\ \A i \in DOMAIN t : \E k \in DOMAIN u : u[k] = t[i]
  BY <1>1, <1>2, SectionLines
<1>4. /\ h \in Seq(SummaryLine) /\ DOMAIN h = {1} /\ h[1] = Title("Earlier Investigation")
      /\ h[1].part = "Earlier Investigation"
  BY <1>1, TitleIs
<1>. HIDE DEF u, h
<1>5. /\ o \in Seq(SummaryLine)
      /\ \A k \in DOMAIN u : Len(h) + k \in DOMAIN o /\ o[Len(h) + k] = u[k]
      /\ \A k \in DOMAIN o : \/ k \in DOMAIN h /\ o[k] = h[k]
                             \/ k - Len(h) \in DOMAIN u /\ o[k] = u[k - Len(h)]
  <2>1. u \in Seq(SummaryLine) /\ h \in Seq(SummaryLine)
    BY <1>3, <1>4
  <2>. QED
    BY ONLY <2>1, JoinedPlaces, SMTT(30)
<1>. HIDE DEF o
<1>6. \A k \in DOMAIN u : u[k].part = "Constraints"
  BY <1>2, <1>3 DEF Title, Line
<1>7. \A k \in DOMAIN o : o[k].part \in {"Earlier Investigation", "Constraints"}
  <2>1. ASSUME NEW k \in DOMAIN o PROVE o[k].part \in {"Earlier Investigation", "Constraints"}
    <3>1. CASE k \in DOMAIN h /\ o[k] = h[k]
      <4>1. k = 1
        BY <1>4, <3>1
      <4>. QED
        BY <1>4, <3>1, <4>1
    <3>2. CASE k - Len(h) \in DOMAIN u /\ o[k] = u[k - Len(h)]
      BY <1>6, <3>2
    <3>. QED
      BY <1>5, <3>1, <3>2
  <2>. QED
    BY <2>1
<1>8. ASSUME NEW i \in DOMAIN s, s[i].kind = "said", CategoryOf[s[i].what] = "Constraints"
      PROVE  \E k \in DOMAIN o : o[k] = Line("Constraints", s[i].what, TRUE)
  <2>1. PICK j \in DOMAIN t : t[j] = Line("Constraints", s[i].what, TRUE)
    BY <1>2, <1>8
  <2>2. PICK k \in DOMAIN u : u[k] = t[j]
    BY <1>3
  <2>. QED
    BY <1>5, <2>1, <2>2
<1>9. Opening(s) = o
  BY DEF Opening, o, h, u, t
<1>. QED
  BY <1>5, <1>7, <1>8, <1>9

LEMMA Opens ==
  ASSUME NEW s \in Seq(SomeEntry)
  PROVE  Heads(AllLines(s), Opening(s))
<1>. DEFINE section(category) == Section(category, SignalsOf(s, category))
            a == <<Title("Earlier Investigation")>>
            v == section("Constraints")
            w == section("Requirements")
            x == section("Decisions")
            y == section("Confirmed Facts")
            z == section("Logical Constraints")
            te == Section("Tool Evidence", ToolLines(s))
<1>1. \A category \in Categories : section(category) \in Seq(SummaryLine)
  BY SignalsTold, ToldSection DEF Titled, Told
<1>2. /\ v \in Seq(SummaryLine) /\ w \in Seq(SummaryLine) /\ x \in Seq(SummaryLine)
      /\ y \in Seq(SummaryLine) /\ z \in Seq(SummaryLine)
  BY <1>1 DEF Categories
<1>3. te \in Seq(SummaryLine)
  BY ToolsTold, ToldSection DEF Titled, Told
<1>4. a \in Seq(SummaryLine)
  BY DEF Title, Line, SummaryLine, Whats, Titled
<1>5. SignalLines(s) = v \o w \o x \o y \o z
  BY DEF SignalLines
<1>6. AllLines(s) = a \o SignalLines(s) \o te /\ Opening(s) = a \o v
  BY DEF AllLines, Opening
<1>. HIDE DEF a, v, w, x, y, z, te
<1>. DEFINE p == v \o w
            q == p \o x
            r == q \o y
            l == SignalLines(s)
<1>7. Heads(p, v) /\ p \in Seq(SummaryLine)
  BY <1>2, HeadsItself, HeadsJoin
<1>8. Heads(q, v) /\ q \in Seq(SummaryLine)
  <2>. HIDE DEF p
  <2>. QED
    BY <1>2, <1>7, HeadsJoin
<1>9. Heads(r, v) /\ r \in Seq(SummaryLine)
  <2>. HIDE DEF q
  <2>. QED
    BY <1>2, <1>8, HeadsJoin
<1>10. Heads(r \o z, v) /\ r \o z \in Seq(SummaryLine)
  <2>. HIDE DEF r
  <2>. QED
    BY <1>2, <1>9, HeadsJoin
<1>11. Heads(l, v) /\ l \in Seq(SummaryLine)
  BY <1>5, <1>10
<1>. HIDE DEF l
<1>12. Heads(a \o l, a \o v) /\ a \o l \in Seq(SummaryLine)
  BY <1>2, <1>4, <1>11, HeadsBehind
<1>13. Heads(a \o l \o te, a \o v)
  BY <1>3, <1>12, HeadsJoin
<1>. QED
  BY <1>6, <1>13 DEF l

TokensBy(g, files) ==
  /\ g \in [0..Len(files) -> Nat] /\ g[0] = 0
  /\ \A k \in 1..Len(files) : g[k] = g[k - 1] + BlockSize[files[k]]
  /\ MapTokens(files) = g[Len(files)]

LEMMA TokensUp ==
  ASSUME NEW files \in Seq(ToSet(MapFiles)) PROVE \E g : TokensBy(g, files)
<1>. DEFINE n == Len(files)
            upTo[k \in 0..Len(files)] == IF k = 0 THEN 0 ELSE upTo[k - 1] + BlockSize[files[k]]
            step == [a \in Nat \X (1..n) |-> a[1] + BlockSize[files[a[2]]]]
<1>1. n \in Nat /\ \A k \in 1..n : BlockSize[files[k]] \in Nat
  BY CondenserAssumption
<1>2. step \in [Nat \X (1..n) -> Nat]
  <2>. HIDE DEF n
  <2>. QED
    BY <1>1
<1>3. \E g \in [0..n -> Nat] : Folded(g, 0, n, step)
  <2>. HIDE DEF n, step
  <2>. QED
    BY <1>1, <1>2, Folding
<1>4. PICK g \in [0..n -> Nat] : g[0] = 0 /\ \A k \in 1..n : g[k] = step[<<g[k - 1], k>>]
  BY <1>3 DEF Folded
<1>5. ASSUME NEW k \in 1..n PROVE g[k] = g[k - 1] + BlockSize[files[k]]
  <2>. HIDE DEF n
  <2>1. k - 1 \in 0..n /\ g[k - 1] \in Nat
    BY <1>1
  <2>. QED
    BY <1>4, <2>1
<1>. HIDE DEF step
<1>6. g = [k \in 0..Len(files) |-> IF k = 0 THEN 0 ELSE g[k - 1] + BlockSize[files[k]]]
  <2>1. \A k \in 0..n : k = 0 \/ k \in 1..n
    BY <1>1
  <2>. QED
    BY <1>4, <1>5, <2>1
<1>7. upTo = [k \in 0..Len(files) |-> IF k = 0 THEN 0 ELSE upTo[k - 1] + BlockSize[files[k]]]
  BY <1>6
<1>8. MapTokens(files) = upTo[n]
  BY DEF MapTokens
<1>. HIDE DEF upTo
<1>9. upTo[0] = 0 /\ \A k \in 1..n : upTo[k] = upTo[k - 1] + BlockSize[files[k]]
  <2>1. 0 \in 0..n /\ \A k \in 1..n : k \in 0..n /\ k # 0
    BY <1>1
  <2>. QED
    BY <1>7, <2>1
<1>. DEFINE T == {k \in 0..n : upTo[k] \in Nat}
<1>10. 0 \in T /\ \A k \in 1..n : k - 1 \in T => k \in T
  <2>. HIDE DEF n
  <2>1. 0 \in T
    BY <1>1, <1>9
  <2>2. ASSUME NEW k \in 1..n, k - 1 \in T PROVE k \in T
    <3>1. k \in 0..n /\ upTo[k - 1] \in Nat /\ BlockSize[files[k]] \in Nat
      BY <1>1, <2>2
    <3>. QED
      BY <1>9, <3>1
  <2>. QED
    BY <2>1, <2>2
<1>11. \A k \in 0..n : k \in T
  <2>. HIDE DEF T, n
  <2>. QED
    BY <1>1, <1>10, CountUp
<1>12. upTo \in [0..n -> Nat]
  <2>1. \A k \in 0..n : upTo[k] \in Nat
    BY <1>11
  <2>. DEFINE w(k) == IF k = 0 THEN 0 ELSE upTo[k - 1] + BlockSize[files[k]]
  <2>2. upTo = [k \in 0..n |-> w(k)]
    BY <1>7
  <2>. HIDE DEF w
  <2>3. DOMAIN upTo = 0..n /\ upTo = [k \in 0..n |-> upTo[k]]
    BY <2>2
  <2>. QED
    BY <2>1, <2>3
<1>13. TokensBy(upTo, files)
  BY <1>8, <1>9, <1>12 DEF TokensBy
<1>. QED
  BY <1>13

LEMMA NoTokens == MapTokens(<<>>) = 0
<1>1. <<>> \in Seq(ToSet(MapFiles)) /\ Len(<<>>) = 0
  OBVIOUS
<1>2. PICK e : TokensBy(e, <<>>)
  BY <1>1, TokensUp
<1>. QED
  BY <1>1, <1>2 DEF TokensBy

LEMMA OneMoreFile ==
  ASSUME NEW files \in Seq(ToSet(MapFiles)), NEW f \in ToSet(MapFiles)
  PROVE  /\ MapTokens(files) \in Nat
         /\ MapTokens(Append(files, f)) = MapTokens(files) + BlockSize[f]
<1>. DEFINE n == Len(files)
            more == Append(files, f)
<1>1. /\ n \in Nat /\ more \in Seq(ToSet(MapFiles)) /\ Len(more) = n + 1 /\ more[n + 1] = f
      /\ \A k \in 1..n : more[k] = files[k]
  OBVIOUS
<1>2. PICK g : TokensBy(g, files)
  BY TokensUp
<1>. HIDE DEF more
<1>3. PICK h : TokensBy(h, more)
  BY <1>1, TokensUp
<1>4. /\ g \in [0..n -> Nat] /\ g[0] = 0 /\ MapTokens(files) = g[n]
      /\ \A k \in 1..n : g[k] = g[k - 1] + BlockSize[files[k]]
  BY <1>2 DEF TokensBy
<1>5. /\ h[0] = 0 /\ MapTokens(more) = h[n + 1]
      /\ \A k \in 1..(n + 1) : h[k] = h[k - 1] + BlockSize[more[k]]
  BY <1>1, <1>3 DEF TokensBy
<1>. DEFINE T == {k \in 0..n : h[k] = g[k]}
<1>. HIDE DEF n
<1>6. 0 \in T /\ \A k \in 1..n : k - 1 \in T => k \in T
  <2>1. 0 \in T
    BY <1>1, <1>4, <1>5
  <2>2. ASSUME NEW k \in 1..n, k - 1 \in T PROVE k \in T
    <3>1. k \in 0..n /\ k \in 1..(n + 1) /\ h[k - 1] = g[k - 1] /\ more[k] = files[k]
      BY <1>1, <2>2
    <3>2. h[k] = g[k]
      BY <1>4, <1>5, <3>1
    <3>. QED
      BY <3>1, <3>2
  <2>. QED
    BY <2>1, <2>2
<1>7. \A k \in 0..n : k \in T
  <2>. HIDE DEF T
  <2>. QED
    BY <1>1, <1>6, CountUp
<1>8. h[n] = g[n] /\ n + 1 \in 1..(n + 1) /\ (n + 1) - 1 = n /\ g[n] \in Nat
  BY <1>1, <1>4, <1>7
<1>9. MapTokens(more) = MapTokens(files) + BlockSize[f]
  BY <1>1, <1>4, <1>5, <1>8
<1>. QED
  BY <1>4, <1>8, <1>9 DEF more

(* The map is made of the files there are, and within its budget.           *)
MapOK(files) ==
  /\ files \in Seq(ToSet(MapFiles))
  /\ Len(files) > 1 => MapTokens(files) <= MapBudget

Blocks ==
  {r \in [used : Nat, files : Seq(ToSet(MapFiles)), full : BOOLEAN] :
     /\ r.used = MapTokens(r.files)
     /\ r.used = 0 => r.files = <<>>
     /\ MapOK(r.files)}

LEMMA BlockAdded ==
  ASSUME NEW r \in Blocks, NEW f \in ToSet(MapFiles)
  PROVE  WithBlock(r, f) \in Blocks
<1>1. /\ r \in [used : Nat, files : Seq(ToSet(MapFiles)), full : BOOLEAN]
      /\ r.used = MapTokens(r.files)
      /\ r.used = 0 => r.files = <<>>
      /\ MapOK(r.files)
  BY DEF Blocks
<1>2. BlockSize[f] \in Nat /\ BlockSize[f] > 0 /\ MapBudget \in Nat
  BY CondenserAssumption
<1>. DEFINE F == Seq(ToSet(MapFiles))
            q == Append(r.files, f)
<1>3. r.used \in Nat /\ r.files \in F /\ r.full \in BOOLEAN
  BY <1>1
<1>4. r = [used |-> r.used, files |-> r.files, full |-> r.full]
  BY <1>1
<1>5. q \in F /\ Len(q) = Len(r.files) + 1 /\ Len(r.files) \in Nat
  BY <1>3
<1>6. CASE r.full \/ (r.used > 0 /\ r.used + BlockSize[f] > MapBudget)
  <2>. HIDE DEF F
  <2>. DEFINE t == [used |-> r.used, files |-> r.files, full |-> TRUE]
  <2>1. t \in [used : Nat, files : F, full : BOOLEAN] /\ t.used = r.used /\ t.files = r.files
    BY <1>3
  <2>2. WithBlock(r, f) = [r EXCEPT !.full = TRUE]
    BY <1>6 DEF WithBlock
  <2>3. WithBlock(r, f) = t
    BY <1>4, <2>2
  <2>. HIDE DEF t
  <2>. QED
    BY <1>1, <2>1, <2>3 DEF Blocks, F
<1>7. CASE ~(r.full \/ (r.used > 0 /\ r.used + BlockSize[f] > MapBudget))
  <2>1. MapTokens(q) = r.used + BlockSize[f]
    BY <1>1, <1>3, OneMoreFile
  <2>2. r.used = 0 => Len(r.files) = 0
    BY <1>1
  <2>. HIDE DEF F, q
  <2>. DEFINE t == [used |-> r.used + BlockSize[f], files |-> q, full |-> r.full]
  <2>3. /\ t \in [used : Nat, files : F, full : BOOLEAN]
        /\ t.used = r.used + BlockSize[f] /\ t.files = q
    BY <1>2, <1>3, <1>5
  <2>4. WithBlock(r, f) = [r EXCEPT !.used = r.used + BlockSize[f], !.files = q]
    BY <1>7 DEF WithBlock, q
  <2>5. WithBlock(r, f) = t
    BY <1>4, <2>4
  <2>6. Len(q) > 1 => MapTokens(q) <= MapBudget
    BY <1>2, <1>3, <1>5, <1>7, <2>1, <2>2
  <2>7. t.used # 0
    BY <1>2, <1>3, <2>3
  <2>. HIDE DEF t
  <2>8. MapOK(q)
    BY <1>5, <2>6 DEF MapOK, F
  <2>. QED
    BY <2>1, <2>3, <2>5, <2>7, <2>8 DEF Blocks, F
<1>. QED
  BY <1>6, <1>7

LEMMA MapFits ==
  ASSUME NEW m \in 0..Len(MapFiles)
  PROVE  MapOK(SelectedMap(m))
<1>. DEFINE got[k \in 0..m] == IF k = 0 THEN NoBlocks ELSE WithBlock(got[k - 1], MapFiles[k])
            step == [a \in Blocks \X (1..m) |-> WithBlock(a[1], MapFiles[a[2]])]
<1>1. m \in Nat /\ \A k \in 1..m : MapFiles[k] \in ToSet(MapFiles)
  <2>1. MapFiles \in Seq(ToSet(MapFiles))
    BY CondenserAssumption
  <2>. QED
    BY <2>1
<1>2. NoBlocks \in Blocks
  <2>1. MapTokens(<<>>) = 0 /\ <<>> \in Seq(ToSet(MapFiles)) /\ Len(<<>>) = 0
    BY NoTokens
  <2>2. /\ NoBlocks \in [used : Nat, files : Seq(ToSet(MapFiles)), full : BOOLEAN]
        /\ NoBlocks.used = 0 /\ NoBlocks.files = <<>>
    BY <2>1 DEF NoBlocks
  <2>3. MapOK(<<>>)
    BY <2>1 DEF MapOK
  <2>. QED
    BY <2>1, <2>2, <2>3 DEF Blocks
<1>3. step \in [Blocks \X (1..m) -> Blocks]
  BY <1>1, BlockAdded
<1>4. \E g \in [0..m -> Blocks] : Folded(g, NoBlocks, m, step)
  <2>. HIDE DEF step
  <2>. QED
    BY <1>1, <1>2, <1>3, Folding
<1>5. PICK g \in [0..m -> Blocks] : g[0] = NoBlocks /\ \A k \in 1..m : g[k] = step[<<g[k - 1], k>>]
  BY <1>4 DEF Folded
<1>6. ASSUME NEW k \in 1..m PROVE g[k] = WithBlock(g[k - 1], MapFiles[k])
  <2>1. k - 1 \in 0..m /\ g[k - 1] \in Blocks
    BY <1>1
  <2>. QED
    BY <1>5, <2>1
<1>. HIDE DEF step
<1>7. g = [k \in 0..m |-> IF k = 0 THEN NoBlocks ELSE WithBlock(g[k - 1], MapFiles[k])]
  <2>1. \A k \in 0..m : k = 0 \/ k \in 1..m
    BY <1>1
  <2>. QED
    BY <1>5, <1>6, <2>1
<1>8. got = [k \in 0..m |-> IF k = 0 THEN NoBlocks ELSE WithBlock(got[k - 1], MapFiles[k])]
  BY <1>7
<1>9. SelectedMap(m) = got[m].files
  BY DEF SelectedMap
<1>. HIDE DEF got
<1>10. got[0] = NoBlocks /\ \A k \in 1..m : got[k] = WithBlock(got[k - 1], MapFiles[k])
  <2>1. 0 \in 0..m /\ \A k \in 1..m : k \in 0..m /\ k # 0
    BY <1>1
  <2>. QED
    BY <1>8, <2>1
<1>. DEFINE T == {k \in 0..m : got[k] \in Blocks}
<1>11. 0 \in T /\ \A k \in 1..m : k - 1 \in T => k \in T
  <2>1. 0 \in T
    BY <1>1, <1>2, <1>10
  <2>2. ASSUME NEW k \in 1..m, k - 1 \in T PROVE k \in T
    <3>1. k \in 0..m /\ got[k - 1] \in Blocks /\ MapFiles[k] \in ToSet(MapFiles)
      BY <1>1, <2>2
    <3>2. got[k] \in Blocks
      BY <1>10, <3>1, BlockAdded
    <3>. QED
      BY <3>1, <3>2
  <2>. QED
    BY <2>1, <2>2
<1>12. \A k \in 0..m : k \in T
  <2>. HIDE DEF T
  <2>. QED
    BY <1>1, <1>11, CountUp
<1>13. got[m] \in Blocks
  BY <1>1, <1>12
<1>. QED
  BY <1>9, <1>13 DEF Blocks

LaterParts == {"Tool Evidence", "Findings"} \cup (Categories \ {"Constraints"})
Constrains(e) == e.kind = "said" /\ CategoryOf[e.what] = "Constraints"

(* What a summary of these entries is like, whoever made it.                *)
SumOK(s, t) ==
  /\ Told(t, s, Categories \cup ToolParts)
  /\ Len(t) > 1 => Len(t) <= SummaryLines
  /\ (\E k \in DOMAIN t : t[k].part \in LaterParts) =>
       \A i \in DOMAIN s : Constrains(s[i]) =>
         \E k \in DOMAIN t : t[k] = Line("Constraints", s[i].what, TRUE)

LEMMA OnlyOne == ASSUME NEW n, n = 1, NEW m PROVE n > 1 => n <= m
  OBVIOUS

LEMMA OneTitle ==
  ASSUME NEW s, NEW part \in {"llm", "compression budget exhausted"}
  PROVE  SumOK(s, <<Title(part)>>) /\ <<Title(part)>> # <<>>
<1>. DEFINE t == <<Title(part)>>
<1>1. part \in Titled /\ part \notin LaterParts
  BY DEF Titled, LaterParts, Categories
<1>2. Told(t, s, {})
  BY <1>1, ToldTitle
<1>3. DOMAIN t = {1} /\ t[1].part = part /\ Len(t) = 1 /\ t # <<>>
  BY <1>1, TitleIs
<1>. DEFINE all == Categories \cup ToolParts
<1>. HIDE DEF t
<1>7. Told(t, s, all)
  <2>. HIDE DEF all
  <2>. QED
    BY <1>2 DEF Told, Spread
<1>8. ~\E k \in DOMAIN t : t[k].part \in LaterParts
  BY <1>1, <1>3
<1>9. Len(t) > 1 => Len(t) <= SummaryLines
  BY <1>3, OnlyOne
<1>10. SumOK(s, t)
  BY <1>7, <1>8, <1>9 DEF SumOK
<1>. QED
  BY <1>3, <1>10 DEF t

LEMMA FitsFront ==
  ASSUME NEW t \in Seq(SummaryLine)
  PROVE  Fit(t) \in Seq(SummaryLine) /\ Len(Fit(t)) <= SummaryLines /\ FrontOf(Fit(t), t)
<1>. DEFINE n == IF Len(t) < SummaryLines THEN Len(t) ELSE SummaryLines
            u == SubSeq(t, 1, n)
<1>1. n \in 0..Len(t) /\ n <= SummaryLines /\ Len(t) \in Nat
  BY CondenserAssumption
<1>2. Fit(t) = u
  BY DEF Fit
<1>. HIDE DEF n
<1>3. u \in Seq(SummaryLine) /\ Len(u) = n /\ \A k \in 1..n : u[k] = t[k]
  BY <1>1
<1>. HIDE DEF u
<1>4. DOMAIN u = 1..n /\ DOMAIN t = 1..Len(t)
  BY <1>3
<1>5. FrontOf(u, t)
  BY <1>1, <1>3, <1>4 DEF FrontOf
<1>. QED
  BY <1>1, <1>2, <1>3, <1>5

(* What is cut is cut from the end, so that no later part is left when a    *)
(* constraint is not.                                                       *)
LEMMA DeterministicOK ==
  ASSUME NEW s \in Seq(SomeEntry)
  PROVE  SumOK(s, Deterministic(s)) /\ Deterministic(s) # <<>>
<1>. DEFINE all == AllLines(s)
            u == Fit(all)
            o == Opening(s)
<1>1. Told(all, s, Categories \cup ToolParts) /\ all \in Seq(SummaryLine)
  BY AllTold DEF Told
<1>2. u \in Seq(SummaryLine) /\ Len(u) <= SummaryLines /\ FrontOf(u, all)
  BY <1>1, FitsFront
<1>3. Told(u, s, Categories \cup ToolParts)
  BY <1>1, <1>2, ToldFront
<1>4. /\ o \in Seq(SummaryLine)
      /\ \A k \in DOMAIN o : o[k].part \in {"Earlier Investigation", "Constraints"}
      /\ \A i \in DOMAIN s : Constrains(s[i]) =>
           \E k \in DOMAIN o : o[k] = Line("Constraints", s[i].what, TRUE)
  BY OpeningIs DEF Constrains
<1>5. Heads(all, o)
  BY Opens
<1>6. Deterministic(s) = IF u = <<>> THEN <<Title("compression budget exhausted")>> ELSE u
  BY DEF Deterministic, AllLines
<1>. HIDE DEF all, u, o
<1>7. /\ DOMAIN o = 1..Len(o) /\ Len(o) \in Nat /\ DOMAIN u = 1..Len(u) /\ Len(u) \in Nat
  <2>1. o \in Seq(SummaryLine) /\ u \in Seq(SummaryLine)
    BY <1>2, <1>4
  <2>. QED
    BY ONLY <2>1
<1>8. ASSUME NEW k \in DOMAIN u, k \in DOMAIN o PROVE u[k] = o[k]
  BY <1>2, <1>5, <1>7, <1>8 DEF FrontOf, Heads
<1>9. CASE Len(u) >= Len(o)
  <2>1. \A k \in DOMAIN o : k \in DOMAIN u
    BY <1>7, <1>9
  <2>2. \A i \in DOMAIN s : Constrains(s[i]) =>
          \E k \in DOMAIN u : u[k] = Line("Constraints", s[i].what, TRUE)
    BY <1>4, <1>8, <2>1
  <2>3. SumOK(s, u)
    BY <1>2, <1>3, <2>2 DEF SumOK
  <2>. QED
    BY <1>6, <2>3, OneTitle
<1>10. CASE ~(Len(u) >= Len(o))
  <2>1. \A k \in DOMAIN u : k \in DOMAIN o
    BY <1>7, <1>10
  <2>2. \A k \in DOMAIN u : u[k].part \in {"Earlier Investigation", "Constraints"}
    BY <1>4, <1>8, <2>1
  <2>3. {"Earlier Investigation", "Constraints"} \cap LaterParts = {}
    BY DEF LaterParts, Categories
  <2>4. ~\E k \in DOMAIN u : u[k].part \in LaterParts
    BY <2>2, <2>3
  <2>5. SumOK(s, u)
    BY <1>2, <1>3, <2>4 DEF SumOK
  <2>. QED
    BY <1>6, <2>5, OneTitle
<1>. QED
  BY <1>9, <1>10

CondenserInv ==
  /\ entries \in Seq(SomeEntry) /\ older \in 0..Len(entries) /\ failures \in Nat
  /\ SumOK(Condensed, summary)
  /\ older > 0 => summary # <<>>
  /\ MapOK(repoMap)

LEMMA CondensedIs ==
  ASSUME NEW s \in Seq(SomeEntry), NEW m \in 0..Len(s)
  PROVE  SubSeq(s, 1, m) \in Seq(SomeEntry) /\ Len(SubSeq(s, 1, m)) = m
  OBVIOUS

LEMMA CondenserBegins == CondenserInit => CondenserInv
<1>1. SUFFICES ASSUME CondenserInit PROVE CondenserInv
  OBVIOUS
<1>2. /\ entries = <<>> /\ older = 0 /\ summary = <<>> /\ failures = 0 /\ repoMap = <<>>
  BY <1>1 DEF CondenserInit
<1>3. Told(<<>>, Condensed, Categories \cup ToolParts)
  BY ToldNothing
<1>4. DOMAIN summary = {} /\ Len(summary) = 0
  BY <1>2
<1>5. SumOK(Condensed, summary)
  BY <1>2, <1>3, <1>4 DEF SumOK
<1>6. MapOK(repoMap)
  BY <1>2 DEF MapOK
<1>7. entries \in Seq(SomeEntry) /\ Len(entries) = 0
  BY <1>2
<1>. QED
  BY <1>2, <1>5, <1>6, <1>7 DEF CondenserInv

LEMMA EntryKeeps ==
  ASSUME CondenserInv, NEW e \in SomeEntry, AddEntry(e)
  PROVE  CondenserInv'
<1>1. /\ entries \in Seq(SomeEntry) /\ older \in 0..Len(entries) /\ failures \in Nat
      /\ entries' = Append(entries, e)
      /\ older' = older /\ summary' = summary /\ failures' = failures /\ repoMap' = repoMap
  BY DEF CondenserInv, AddEntry
<1>. DEFINE more == Append(entries, e)
<1>2. /\ more \in Seq(SomeEntry) /\ Len(more) = Len(entries) + 1
      /\ \A i \in 1..Len(entries) : more[i] = entries[i]
  BY <1>1
<1>3. SubSeq(more, 1, older) = SubSeq(entries, 1, older)
  <2>1. /\ SubSeq(entries, 1, older) \in Seq(SomeEntry) /\ Len(SubSeq(entries, 1, older)) = older
        /\ \A i \in 1..older : SubSeq(entries, 1, older)[i] = entries[i]
    BY <1>1
  <2>. HIDE DEF more
  <2>2. older \in 0..Len(more)
    BY <1>1, <1>2
  <2>3. /\ SubSeq(more, 1, older) \in Seq(SomeEntry) /\ Len(SubSeq(more, 1, older)) = older
        /\ \A i \in 1..older : SubSeq(more, 1, older)[i] = more[i]
    BY <1>2, <2>2
  <2>4. \A i \in 1..older : more[i] = entries[i]
    BY <1>1, <1>2
  <2>. DEFINE p == SubSeq(more, 1, older)
              q == SubSeq(entries, 1, older)
  <2>5. /\ p \in Seq(SomeEntry) /\ q \in Seq(SomeEntry) /\ Len(p) = Len(q)
        /\ \A i \in 1..Len(p) : p[i] = q[i]
    BY <2>1, <2>3, <2>4
  <2>. HIDE DEF p, q
  <2>6. p = q
    BY <2>5, Same
  <2>. QED
    BY <2>6 DEF p, q
<1>4. Condensed' = Condensed
  BY <1>1, <1>3 DEF Condensed
<1>5. SumOK(Condensed', summary')
  BY <1>1, <1>4 DEF CondenserInv
<1>6. older' \in 0..Len(entries') /\ entries' \in Seq(SomeEntry)
  BY <1>1, <1>2
<1>. QED
  BY <1>1, <1>5, <1>6 DEF CondenserInv

LEMMA CondenseKeeps ==
  ASSUME CondenserInv, NEW n \in 0..1, NEW answered \in BOOLEAN, Condense(n, answered)
  PROVE  CondenserInv'
<1>1. /\ entries \in Seq(SomeEntry) /\ failures \in Nat /\ n < Len(entries)
      /\ entries' = entries /\ older' = Len(entries) - n
  BY DEF CondenserInv, Condense
<1>. DEFINE m == Len(entries) - n
            s == SubSeq(entries, 1, m)
<1>2. m \in 0..Len(entries)
  BY <1>1
<1>3. summary' = IF answered THEN <<Title("llm")>> ELSE Deterministic(s)
  BY DEF Condense
<1>4. Condensed' = s
  BY <1>1 DEF Condensed
<1>5. s \in Seq(SomeEntry)
  <2>. HIDE DEF m
  <2>. QED
    BY <1>1, <1>2, CondensedIs
<1>. HIDE DEF s
<1>6. SumOK(s, summary') /\ summary' # <<>>
  BY <1>3, <1>5, OneTitle, DeterministicOK
<1>7. failures' \in Nat
  BY <1>1 DEF Condense
<1>8. MapOK(repoMap')
  <2>1. PICK k \in 0..Len(MapFiles) : repoMap' = SelectedMap(k)
    BY DEF Condense
  <2>. QED
    BY <2>1, MapFits
<1>. QED
  BY <1>1, <1>2, <1>4, <1>6, <1>7, <1>8 DEF CondenserInv

LEMMA InvSound == CondenserInv => SummarySound
<1>1. SUFFICES ASSUME CondenserInv PROVE SummarySound
  OBVIOUS
<1>. DEFINE s == Condensed
            t == summary
            all == Categories \cup ToolParts
<1>2. /\ entries \in Seq(SomeEntry) /\ older \in 0..Len(entries) /\ failures \in Nat
      /\ SumOK(s, t) /\ (older > 0 => t # <<>>) /\ MapOK(repoMap)
  BY <1>1 DEF CondenserInv
<1>3. Told(t, s, all)
  BY <1>2 DEF SumOK
<1>4. t \in Seq(SummaryLine) /\ Tells(t, s)
  BY <1>3 DEF Told
<1>5. s \in Seq(SomeEntry)
  BY <1>2, CondensedIs DEF Condensed
<1>6. KeepLast \in Nat /\ 1 \in Nat
  BY CondenserAssumption
<1>. HIDE DEF s, t
<1>7. \A k \in DOMAIN t : t[k] \in SummaryLine
  BY <1>4
<1>8. ASSUME NEW part \in ToolParts PROVE Cardinality({k \in DOMAIN t : t[k].part = part}) <= KeepLast
  <2>1. Near(t, OfPart(part), KeepLast)
    BY <1>3 DEF Told, Spread
  <2>2. Cardinality({k \in DOMAIN t : t[k] \in OfPart(part)}) <= KeepLast
    BY <1>6, <2>1, NearFew
  <2>3. {k \in DOMAIN t : t[k] \in OfPart(part)} = {k \in DOMAIN t : t[k].part = part}
    BY <1>7 DEF OfPart
  <2>. QED
    BY <2>2, <2>3
<1>9. ASSUME NEW f \in Facts PROVE Cardinality({k \in DOMAIN t : t[k].what = f}) <= 1
  <2>1. Near(t, About(f), 1)
    BY <1>3 DEF Told, Spread
  <2>2. Cardinality({k \in DOMAIN t : t[k] \in About(f)}) <= 1
    BY <1>6, <2>1, NearFew
  <2>3. {k \in DOMAIN t : t[k] \in About(f)} = {k \in DOMAIN t : t[k].what = f}
    BY <1>7 DEF About
  <2>. QED
    BY <2>2, <2>3
<1>10. CondenserTypeOK
  <2>1. ToSet(repoMap) \subseteq ToSet(MapFiles)
    <3>1. \A i \in DOMAIN repoMap : repoMap[i] \in ToSet(MapFiles)
      BY <1>2 DEF MapOK
    <3>2. ToSet(repoMap) = {repoMap[i] : i \in DOMAIN repoMap}
      BY DEF ToSet
    <3>. DEFINE F == ToSet(MapFiles)
    <3>. HIDE DEF F
    <3>. QED
      BY <3>1, <3>2
  <2>. QED
    BY <1>2, <1>8, <2>1 DEF CondenserTypeOK, ToolParts, t
<1>11. NeverBlank
  BY <1>2 DEF NeverBlank, SumOK, t
<1>12. ConstraintsFirst
  <2>1. SUFFICES ASSUME \E l \in ToSet(t) : l.part \in LaterParts,
                        NEW e \in ToSet(s), Constrains(e)
                 PROVE  Line("Constraints", e.what, TRUE) \in ToSet(t)
    BY DEF ConstraintsFirst, LaterParts, Constrains, s, t
  <2>2. \E k \in DOMAIN t : t[k].part \in LaterParts
    BY <2>1 DEF ToSet
  <2>3. PICK i \in DOMAIN s : e = s[i]
    BY DEF ToSet
  <2>4. PICK k \in DOMAIN t : t[k] = Line("Constraints", s[i].what, TRUE)
    BY <1>2, <2>1, <2>2, <2>3 DEF SumOK
  <2>. QED
    BY <2>3, <2>4 DEF ToSet
<1>13. SaidOnce
  <2>1. ASSUME NEW f \in Facts, NEW l \in ToSet(t), l.what = f PROVE \E e \in ToSet(s) : e.what = f
    <3>1. PICK k \in DOMAIN t : l = t[k]
      BY DEF ToSet
    <3>2. f # "title"
      BY CondenserAssumption
    <3>3. PICK i \in DOMAIN s : t[k].what = s[i].what
      BY <1>4, <2>1, <3>1, <3>2 DEF Tells
    <3>. QED
      BY <2>1, <3>1, <3>3 DEF ToSet
  <2>. QED
    BY <1>9, <2>1 DEF SaidOnce, s, t
<1>14. MapWithinBudget
  BY <1>2 DEF MapWithinBudget, MapOK
<1>. QED
  BY <1>10, <1>11, <1>12, <1>13, <1>14 DEF SummarySound

(* SummarySound: a summary is fit to stand for the history it condenses.    *)
THEOREM SummaryStaysSound == CondenserSpec => []SummarySound
<1>1. CondenserInv /\ [CondenserNext]_condenserVars => CondenserInv'
  <2>1. SUFFICES ASSUME CondenserInv, [CondenserNext]_condenserVars PROVE CondenserInv'
    OBVIOUS
  <2>2. CASE \E e \in SomeEntry : AddEntry(e)
    BY <2>1, <2>2, EntryKeeps
  <2>3. CASE \E n \in 0..1, answered \in BOOLEAN : Condense(n, answered)
    BY <2>1, <2>3, CondenseKeeps
  <2>4. CASE UNCHANGED condenserVars
    <3>1. /\ entries' = entries /\ older' = older /\ summary' = summary
          /\ failures' = failures /\ repoMap' = repoMap
      BY <2>4 DEF condenserVars
    <3>. QED
      BY <2>1, <3>1 DEF CondenserInv, Condensed
  <2>. QED
    BY <2>1, <2>2, <2>3, <2>4 DEF CondenserNext
<1>. QED
  BY <1>1, CondenserBegins, InvSound, PTL DEF CondenserSpec
=============================================================================
