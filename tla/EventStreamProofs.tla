-------------------------- MODULE EventStreamProofs --------------------------
(***************************************************************************)
(* EventStream implements PieceSource, for every set of bodies of any       *)
(* length and every way to cut them into packets.                           *)
(***************************************************************************)
EXTENDS EventStream, Integers, FiniteSetTheorems, SequenceTheorems, TLAPS

-----------------------------------------------------------------------------
(* Lines of a body.                                                         *)

\* A set of numbers that is not empty has a least member.
LEMMA LeastExists ==
    ASSUME NEW T, T \subseteq Nat, T # {}
    PROVE  \E x \in T : \A y \in T : x <= y
<1> DEFINE R == OpToRel(<, Nat)
<1>1. IsWellFoundedOn(R, Nat)
  BY NatLessThanWellFounded
<1> HIDE DEF R
<1>2. PICK x \in T : \A y \in T : ~(<<y, x>> \in R)
  BY <1>1, WFMin
<1>3. ASSUME NEW y \in T
      PROVE  x <= y
  <2>1. x \in Nat /\ y \in Nat
    OBVIOUS
  <2>2. y < x => <<y, x>> \in R
    BY <2>1 DEF R, OpToRel
  <2> QED
    BY <1>2, <2>1, <2>2
<1> QED
  BY <1>3

\* Line ends are places of the body.
LEMMA LineEndsType ==
    ASSUME NEW s \in Seq(Symbol)
    PROVE  /\ LineEnds(s) \subseteq 1..Len(s)
           /\ LineEnds(s) \subseteq Nat \ {0}
           /\ IsFiniteSet(LineEnds(s))
<1>1. LineEnds(s) \subseteq 1..Len(s) /\ Len(s) \in Nat
  BY DEF LineEnds
<1>2. IsFiniteSet(1..Len(s))
  BY <1>1, FS_Interval
<1>3. IsFiniteSet(LineEnds(s))
  BY <1>1, <1>2, FS_Subset
<1> QED
  BY <1>1, <1>3

\* FirstLine cuts the buffer at its least line end.
LEMMA FirstLineEnd ==
    ASSUME NEW s \in Seq(Symbol), LineEnds(s) # {}
    PROVE  \E i \in LineEnds(s) :
             /\ \A j \in LineEnds(s) : i <= j
             /\ FirstLine(s) = SubSeq(s, 1, i - 1)
<1>1. LineEnds(s) \subseteq Nat
  BY LineEndsType
<1>2. \E x \in LineEnds(s) : \A y \in LineEnds(s) : x <= y
  BY <1>1, LeastExists
<1> QED
  BY <1>2 DEF FirstLine

\* Two lines of a body that end at one place are one line, and each ends at a
\* line end.
LEMMA LineIsItsEnd ==
    ASSUME NEW s \in Seq(Symbol)
    PROVE  /\ \A l \in Lines(s) : l.end \in LineEnds(s)
           /\ \A l, m \in Lines(s) : l.end = m.end => l = m
<1>1. ASSUME NEW p \in Spans(s)
      PROVE  p[1] \in Nat /\ p[2] \in LineEnds(s) /\ p[2] \in Nat /\ p[1] < p[2]
  BY LineEndsType DEF Spans
<1>2. ASSUME NEW p \in Spans(s), NEW q \in Spans(s), p[2] = q[2]
      PROVE  p[1] = q[1]
  <2>1. p[1] \in Nat /\ q[1] \in Nat /\ p[1] < p[2] /\ q[1] < p[2] /\ p[2] \in Nat
    BY <1>1, <1>2
  <2>2. p[1] = 0 \/ p[1] \in LineEnds(s)
    BY DEF Spans
  <2>3. q[1] = 0 \/ q[1] \in LineEnds(s)
    BY DEF Spans
  <2>4. \A j \in LineEnds(s) : j <= p[1] \/ p[2] <= j
    BY DEF Spans
  <2>5. \A j \in LineEnds(s) : j <= q[1] \/ p[2] <= j
    BY <1>2 DEF Spans
  <2>6. q[1] <= p[1]
    BY <2>1, <2>3, <2>4
  <2>7. p[1] <= q[1]
    BY <2>1, <2>2, <2>5
  <2> QED
    BY <2>1, <2>6, <2>7
<1>3. \A l \in Lines(s) : l.end \in LineEnds(s)
  BY <1>1 DEF Lines
<1>4. ASSUME NEW l \in Lines(s), NEW m \in Lines(s), l.end = m.end
      PROVE  l = m
  <2>1. PICK p \in Spans(s) :
          l = [end |-> p[2], text |-> StripCr(SubSeq(s, p[1] + 1, p[2] - 1))]
    BY DEF Lines
  <2>2. PICK q \in Spans(s) :
          m = [end |-> q[2], text |-> StripCr(SubSeq(s, q[1] + 1, q[2] - 1))]
    BY DEF Lines
  <2>3. p[2] = q[2]
    BY <1>4, <2>1, <2>2
  <2>4. p[1] = q[1]
    BY <1>2, <2>3
  <2> QED
    BY <2>1, <2>2, <2>3, <2>4
<1> QED
  BY <1>3, <1>4

\* A body has finitely many lines.
LEMMA LinesFinite ==
    ASSUME NEW s \in Seq(Symbol)
    PROVE  IsFiniteSet(EventLines(s))
<1> DEFINE f == [l \in Lines(s) |-> l.end]
<1>1. IsFiniteSet(LineEnds(s))
  BY LineEndsType
<1>2. f \in Injection(Lines(s), LineEnds(s))
  BY LineIsItsEnd DEF Injection, IsInjective
<1>3. IsFiniteSet(Lines(s))
  BY <1>1, <1>2, FS_Injection
<1> QED
  BY <1>3, FS_Subset DEF EventLines

-----------------------------------------------------------------------------
(* The events of a body and their places.                                   *)

\* What the number of event lines up to a place is.
LEMMA UpToType ==
    ASSUME NEW s \in Seq(Symbol), NEW n \in Nat
    PROVE  /\ IsFiniteSet({l \in EventLines(s) : l.end <= n})
           /\ UpTo(EventLines(s), n) \in Nat
           /\ UpTo(EventLines(s), n) <= Cardinality(EventLines(s))
           /\ Cardinality(EventLines(s)) \in Nat
<1>1. IsFiniteSet(EventLines(s))
  BY LinesFinite
<1>2. {l \in EventLines(s) : l.end <= n} \in SUBSET EventLines(s)
  OBVIOUS
<1>3. /\ IsFiniteSet({l \in EventLines(s) : l.end <= n})
      /\ UpTo(EventLines(s), n) <= Cardinality(EventLines(s))
  BY <1>1, <1>2, FS_Subset DEF UpTo
<1> QED
  BY <1>1, <1>3, FS_CardinalityType DEF UpTo

\* An event line ends at a place of the body.
LEMMA EventLineEnd ==
    ASSUME NEW s \in Seq(Symbol), NEW l \in EventLines(s)
    PROVE  /\ l \in Lines(s) /\ l.end \in LineEnds(s)
           /\ l.end \in Nat /\ 1 <= l.end /\ l.end <= Len(s)
<1>1. l \in Lines(s)
  BY DEF EventLines
<1>2. l.end \in LineEnds(s)
  BY <1>1, LineIsItsEnd
<1>3. l.end \in 1..Len(s) /\ Len(s) \in Nat
  BY <1>2, LineEndsType
<1> QED
  BY <1>1, <1>2, <1>3

\* Event lines that end at different places have different ranks.
LEMMA RankIsUnique ==
    ASSUME NEW s \in Seq(Symbol),
           NEW l \in EventLines(s), NEW m \in EventLines(s), l.end < m.end
    PROVE  UpTo(EventLines(s), l.end) < UpTo(EventLines(s), m.end)
<1> DEFINE L == {k \in EventLines(s) : k.end <= l.end}
           M == {k \in EventLines(s) : k.end <= m.end}
<1>1. l.end \in Nat /\ m.end \in Nat
  BY EventLineEnd
<1>2. IsFiniteSet(M)
  BY <1>1, UpToType
<1>3. L \in SUBSET M
  BY <1>1, EventLineEnd
<1>4. m \in M /\ m \notin L
  BY <1>1
<1>5. L # M
  BY <1>4
<1> HIDE DEF L, M
<1>6. Cardinality(L) <= Cardinality(M) /\ Cardinality(L) # Cardinality(M)
  BY <1>2, <1>3, <1>5, FS_Subset
<1>7. Cardinality(L) \in Nat /\ Cardinality(M) \in Nat
  BY <1>2, <1>3, FS_Subset, FS_CardinalityType
<1>8. Cardinality(L) < Cardinality(M)
  BY <1>6, <1>7
<1> QED
  BY <1>8 DEF L, M, UpTo

\* The event of a line is found at its rank.
LEMMA EventAtRank ==
    ASSUME NEW s \in Seq(Symbol), NEW l \in EventLines(s)
    PROVE  /\ UpTo(EventLines(s), l.end) \in 1..Cardinality(EventLines(s))
           /\ Events(s)[UpTo(EventLines(s), l.end)] = Payload(l.text)
<1> DEFINE E == EventLines(s)
           r == UpTo(E, l.end)
<1>1. l.end \in Nat
  BY EventLineEnd
<1>2. r \in Nat /\ r <= Cardinality(E) /\ Cardinality(E) \in Nat
  BY <1>1, UpToType
<1>3. r # 0
  <2>1. l \in {k \in E : k.end <= l.end}
    BY <1>1
  <2>2. IsFiniteSet({k \in E : k.end <= l.end})
    BY <1>1, UpToType
  <2> QED
    BY <2>1, <2>2, FS_EmptySet DEF UpTo
<1>4. ASSUME NEW m \in E, UpTo(E, m.end) = r
      PROVE  m = l
  <2>1. m.end \in Nat /\ m \in Lines(s) /\ l \in Lines(s)
    BY EventLineEnd
  <2>2. ~(l.end < m.end)
    BY <1>1, <1>2, <1>4, <2>1, RankIsUnique
  <2>3. ~(m.end < l.end)
    BY <1>1, <1>2, <1>4, <2>1, RankIsUnique
  <2>4. l.end = m.end
    BY <1>1, <2>1, <2>2, <2>3
  <2> QED
    BY <2>1, <2>4, LineIsItsEnd
<1>5. (CHOOSE m \in E : UpTo(E, m.end) = r) = l
  BY <1>4
<1>6. r \in 1..Cardinality(E)
  BY <1>2, <1>3
<1>7. Events(s)[r] = Payload((CHOOSE m \in E : UpTo(E, m.end) = r).text)
  BY <1>6 DEF Events
<1> QED
  BY <1>5, <1>6, <1>7

\* The length of Events.
LEMMA EventsLen ==
    ASSUME NEW s \in Seq(Symbol)
    PROVE  Len(Events(s)) = Cardinality(EventLines(s))
<1>1. Cardinality(EventLines(s)) \in Nat
  BY LinesFinite, FS_CardinalityType
<1> QED
  BY <1>1 DEF Events

-----------------------------------------------------------------------------
(* Pieces of a body.                                                        *)

\* What a part of a body is.
LEMMA PartOf ==
    ASSUME NEW s \in Seq(Symbol), NEW m \in Int, NEW n \in Int,
           1 <= m, n <= Len(s)
    PROVE  /\ SubSeq(s, m, n) \in Seq(Symbol)
           /\ Len(SubSeq(s, m, n)) = IF m <= n THEN n - m + 1 ELSE 0
           /\ \A i \in 1..(n - m + 1) : SubSeq(s, m, n)[i] = s[m + i - 1]
<1>1. \A i \in m..n : s[i] \in Symbol
  <2>1. Len(s) \in Nat /\ \A i \in 1..Len(s) : s[i] \in Symbol
    OBVIOUS
  <2> QED
    BY <2>1
<1> QED
  BY ONLY m \in Int, n \in Int, <1>1, SubSeqProperties

\* A part of a part.
LEMMA PartOfPart ==
    ASSUME NEW s \in Seq(Symbol), NEW h \in Nat, NEW p \in Nat,
           h <= p, p <= Len(s),
           NEW m \in Int, NEW n \in Int, 1 <= m, n <= p - h
    PROVE  SubSeq(SubSeq(s, h + 1, p), m, n) = SubSeq(s, h + m, h + n)
<1> DEFINE b == SubSeq(s, h + 1, p)
           l == SubSeq(b, m, n)
           r == SubSeq(s, h + m, h + n)
<1>1. /\ b \in Seq(Symbol) /\ Len(b) = p - h
      /\ \A i \in 1..(p - h) : b[i] = s[h + i]
  <2>1. /\ b \in Seq(Symbol)
        /\ Len(b) = IF h + 1 <= p THEN p - (h + 1) + 1 ELSE 0
        /\ \A i \in 1..(p - (h + 1) + 1) : b[i] = s[(h + 1) + i - 1]
    BY PartOf
  <2> QED
    BY <2>1
<1> HIDE DEF b
<1>2. /\ l \in Seq(Symbol) /\ Len(l) = IF m <= n THEN n - m + 1 ELSE 0
      /\ \A i \in 1..(n - m + 1) : l[i] = b[m + i - 1]
  BY <1>1, PartOf
<1>3. /\ r \in Seq(Symbol) /\ Len(r) = IF h + m <= h + n THEN (h + n) - (h + m) + 1 ELSE 0
      /\ \A i \in 1..((h + n) - (h + m) + 1) : r[i] = s[(h + m) + i - 1]
  <2>1. 1 <= h + m /\ h + n <= Len(s) /\ h + m \in Int /\ h + n \in Int
    OBVIOUS
  <2> QED
    BY <2>1, PartOf
<1> HIDE DEF l, r
<1>4. Len(l) = Len(r)
  BY <1>2, <1>3
<1>5. ASSUME NEW i \in 1..Len(l)
      PROVE  l[i] = r[i]
  <2>1. i \in 1..(n - m + 1) /\ i \in 1..((h + n) - (h + m) + 1) /\ i \in Int
    BY <1>2
  <2>2. l[i] = b[m + i - 1] /\ r[i] = s[(h + m) + i - 1]
    BY <1>2, <1>3, <2>1
  <2>3. m + i - 1 \in 1..(p - h) /\ h + (m + i - 1) = (h + m) + i - 1
    BY <2>1
  <2> QED
    BY <1>1, <2>2, <2>3
<1>6. l = r
  BY <1>2, <1>3, <1>4, <1>5, SeqEqual
<1> QED
  BY <1>6 DEF l, r, b

\* Where the lines end in a part of a body.
LEMMA EndsOfPart ==
    ASSUME NEW s \in Seq(Symbol), NEW h \in Nat, NEW p \in Nat,
           h <= p, p <= Len(s)
    PROVE  /\ Len(SubSeq(s, h + 1, p)) = p - h
           /\ SubSeq(s, h + 1, p) \in Seq(Symbol)
           /\ \A i \in LineEnds(SubSeq(s, h + 1, p)) :
                i \in Nat /\ 1 <= i /\ i <= p - h /\ h + i \in LineEnds(s)
           /\ \A j \in LineEnds(s) :
                h < j /\ j <= p => j - h \in LineEnds(SubSeq(s, h + 1, p))
<1> DEFINE b == SubSeq(s, h + 1, p)
<1>1. /\ b \in Seq(Symbol) /\ Len(b) = p - h
      /\ \A i \in 1..(p - h) : b[i] = s[h + i]
  <2>1. /\ b \in Seq(Symbol)
        /\ Len(b) = IF h + 1 <= p THEN p - (h + 1) + 1 ELSE 0
        /\ \A i \in 1..(p - (h + 1) + 1) : b[i] = s[(h + 1) + i - 1]
    BY PartOf
  <2> QED
    BY <2>1
<1> HIDE DEF b
<1>2. DOMAIN b = 1..(p - h) /\ DOMAIN s = 1..Len(s) /\ Len(s) \in Nat
  BY <1>1
<1>3. ASSUME NEW i \in LineEnds(b)
      PROVE  i \in Nat /\ 1 <= i /\ i <= p - h /\ h + i \in LineEnds(s)
  <2>1. i \in 1..(p - h) /\ b[i] = Lf
    BY <1>2 DEF LineEnds
  <2>2. h + i \in 1..Len(s) /\ s[h + i] = Lf
    BY <1>1, <1>2, <2>1
  <2> QED
    BY <1>2, <2>1, <2>2 DEF LineEnds
<1>4. ASSUME NEW j \in LineEnds(s), h < j, j <= p
      PROVE  j - h \in LineEnds(b)
  <2>1. j \in 1..Len(s) /\ s[j] = Lf
    BY <1>2 DEF LineEnds
  <2>2. j - h \in 1..(p - h) /\ h + (j - h) = j
    BY <1>4, <2>1
  <2>3. b[j - h] = Lf
    BY <1>1, <2>1, <2>2
  <2> QED
    BY <1>2, <2>2, <2>3 DEF LineEnds
<1> QED
  BY <1>1, <1>3, <1>4 DEF b

\* The first line of b ends at e in s, where b is what s has behind h, up to p.
CutsAt(s, h, p, b, e) ==
    /\ e \in LineEnds(s) /\ e \in Nat /\ h < e /\ e <= p
    /\ <<h, e>> \in Spans(s)
    /\ FirstLine(b) = SubSeq(s, h + 1, e - 1)
    /\ SubSeq(b, Len(FirstLine(b)) + 2, Len(b)) = SubSeq(s, e + 1, p)

\* The first line of a buffer that begins behind a line end of the body is the
\* next line of the body, and what is left begins behind its end.
LEMMA NextLine ==
    ASSUME NEW s \in Seq(Symbol), NEW h \in Nat, NEW p \in Nat,
           h <= p, p <= Len(s), h = 0 \/ h \in LineEnds(s),
           NEW b, b = SubSeq(s, h + 1, p), LineEnds(b) # {}
    PROVE  \E e : CutsAt(s, h, p, b, e)
<1>1. b \in Seq(Symbol) /\ Len(b) = p - h
  BY EndsOfPart
<1>2. PICK i \in LineEnds(b) :
        (\A j \in LineEnds(b) : i <= j) /\ FirstLine(b) = SubSeq(b, 1, i - 1)
  BY <1>1, FirstLineEnd
<1>3. i \in Nat /\ 1 <= i /\ i <= p - h /\ h + i \in LineEnds(s)
  BY EndsOfPart
<1>4. PICK e \in Nat : e = h + i
  BY <1>3
<1>5. e \in LineEnds(s) /\ h < e /\ e <= p
  BY <1>3, <1>4
<1>6. ASSUME NEW j \in LineEnds(s)
      PROVE  j <= h \/ e <= j
  <2>1. j \in Nat
    BY LineEndsType
  <2>2. CASE h < j /\ j <= p
    <3>1. j - h \in LineEnds(b)
      BY <2>2, EndsOfPart
    <3>2. i <= j - h
      BY <1>2, <3>1
    <3> QED
      BY <1>3, <1>4, <2>1, <3>2
  <2>3. CASE ~(h < j /\ j <= p)
    BY <1>5, <2>1, <2>3
  <2> QED
    BY <2>2, <2>3
<1>7. <<h, e>> \in Spans(s)
  BY <1>5, <1>6 DEF Spans
<1>8. FirstLine(b) = SubSeq(s, h + 1, h + (i - 1))
  BY <1>2, <1>3, PartOfPart
<1>9. FirstLine(b) = SubSeq(s, h + 1, e - 1)
  BY <1>3, <1>4, <1>8
<1>10. Len(FirstLine(b)) = i - 1
  <2>1. h + 1 \in Int /\ e - 1 \in Int /\ 1 <= h + 1 /\ e - 1 <= Len(s)
    BY <1>3, <1>4, <1>5
  <2>2. Len(SubSeq(s, h + 1, e - 1)) =
          IF h + 1 <= e - 1 THEN (e - 1) - (h + 1) + 1 ELSE 0
    BY <2>1, PartOf
  <2> QED
    BY <1>3, <1>4, <1>9, <2>2
<1>11. SubSeq(b, i + 1, p - h) = SubSeq(s, h + (i + 1), h + (p - h))
  BY <1>3, PartOfPart
<1>12. /\ Len(FirstLine(b)) + 2 = i + 1 /\ Len(b) = p - h
       /\ h + (i + 1) = e + 1 /\ h + (p - h) = p
  BY <1>1, <1>3, <1>4, <1>10
<1>13. SubSeq(b, Len(FirstLine(b)) + 2, Len(b)) = SubSeq(s, e + 1, p)
  BY <1>11, <1>12
<1> QED
  BY <1>5, <1>7, <1>9, <1>13 DEF CutsAt

\* The line carries an event.
Carries(t) == IsData(t) /\ Payload(t) # NoContent

\* Handling the line between two line ends advances the count of events by one
\* if it carries one, and then this event is the next, or else not at all.
LEMMA PassLine ==
    ASSUME NEW s \in Seq(Symbol), NEW h \in Nat, NEW e \in Nat,
           <<h, e>> \in Spans(s),
           NEW t, t = StripCr(SubSeq(s, h + 1, e - 1))
    PROVE  /\ Carries(t) =>
                /\ [end |-> e, text |-> t] \in EventLines(s)
                /\ UpTo(EventLines(s), e) = UpTo(EventLines(s), h) + 1
           /\ ~Carries(t) =>
                UpTo(EventLines(s), e) = UpTo(EventLines(s), h)
<1> DEFINE E == EventLines(s)
           x == [end |-> e, text |-> t]
           A == {k \in E : k.end <= h}
           B == {k \in E : k.end <= e}
<1>1. x \in Lines(s)
  BY DEF Lines
<1>2. x \in E <=> Carries(t)
  BY <1>1 DEF EventLines, Carries
<1>3. h < e /\ \A j \in LineEnds(s) : j <= h \/ e <= j
  BY DEF Spans
<1>4. \A k \in E : k.end \in Nat /\ k.end \in LineEnds(s) /\ k \in Lines(s)
  BY EventLineEnd
<1>5. A \subseteq B /\ x \notin A
  BY <1>3, <1>4
<1>6. ASSUME NEW k \in B, k \notin A
      PROVE  k = x
  <2>1. k.end = e
    BY <1>3, <1>4, <1>6
  <2> QED
    BY <1>1, <1>4, <2>1, LineIsItsEnd
<1>7. x \in E => B = A \cup {x}
  BY <1>5, <1>6
<1>8. x \notin E => B = A
  BY <1>5, <1>6
<1>9. IsFiniteSet(A)
  BY UpToType
<1>10. x \in E => Cardinality(B) = Cardinality(A) + 1
  <2> HIDE DEF A, B, E, x
  <2> QED
    BY <1>5, <1>7, <1>9, FS_AddElement
<1> QED
  BY <1>2, <1>8, <1>10 DEF UpTo

-----------------------------------------------------------------------------
(* The invariant.                                                           *)

StateType ==
    /\ input \in Seq(Symbol) /\ pos \in Nat /\ pos <= Len(input)
    /\ pc \in {"wait", "parse", "stopped", "ended", "lost"}

\* stream_buf holds what has come behind the last line that was handled.
BufIsRest ==
    /\ Handled \in Nat /\ Handled <= pos
    /\ Handled = 0 \/ Handled \in LineEnds(input)
    /\ buf = SubSeq(input, Handled + 1, pos)

\* on_data leaves complete lines in stream_buf only behind [DONE].
LeftBehindDone ==
    pc = "wait" /\ LineEnds(buf) # {} =>
        \E l \in EventLines(input) : l.end <= Handled /\ Payload(l.text) = DoneMark

StreamInv == StateType /\ BufIsRest /\ LeftBehindDone

\* Small(S, n): S has at most n members.
Small(S, n) == IsFiniteSet(S) /\ Cardinality(S) <= n

\* One more element is at most one more member.
LEMMA OneMore ==
    ASSUME NEW S, NEW n \in Nat, Small(S, n), NEW x
    PROVE  Small(S \cup {x}, n + 1)
<1>1. IsFiniteSet(S \cup {x})
  BY FS_AddElement DEF Small
<1>2. Cardinality(S \cup {x}) = Cardinality(S) \/ Cardinality(S \cup {x}) = Cardinality(S) + 1
  BY FS_AddElement DEF Small
<1>3. Cardinality(S) \in Nat /\ Cardinality(S) <= n
  BY FS_CardinalityType DEF Small
<1>4. Cardinality(S \cup {x}) <= n + 1
  BY <1>2, <1>3
<1> QED
  BY <1>1, <1>4 DEF Small

\* A set of six has at most six members.
LEMMA SixAtMost ==
    ASSUME NEW a, NEW b, NEW c, NEW d, NEW e, NEW f
    PROVE  Cardinality({a, b, c, d, e, f}) <= 6
<1>0. Small({}, 0)
  BY FS_EmptySet DEF Small
<1>1. Small({} \cup {a}, 0 + 1)
  BY <1>0, OneMore
<1>2. Small({a}, 1)
  BY <1>1
<1>3. Small({a, b}, 2)
  <2>1. Small({a} \cup {b}, 1 + 1) /\ {a} \cup {b} = {a, b}
    BY <1>2, OneMore
  <2> QED
    BY <2>1
<1>4. Small({a, b, c}, 3)
  <2>1. Small({a, b} \cup {c}, 2 + 1) /\ {a, b} \cup {c} = {a, b, c}
    BY <1>3, OneMore
  <2> QED
    BY <2>1
<1>5. Small({a, b, c, d}, 4)
  <2>1. Small({a, b, c} \cup {d}, 3 + 1) /\ {a, b, c} \cup {d} = {a, b, c, d}
    BY <1>4, OneMore
  <2> QED
    BY <2>1
<1>6. Small({a, b, c, d, e}, 5)
  <2>1. Small({a, b, c, d} \cup {e}, 4 + 1) /\ {a, b, c, d} \cup {e} = {a, b, c, d, e}
    BY <1>5, OneMore
  <2> QED
    BY <2>1
<1>7. Small({a, b, c, d, e, f}, 6)
  <2>1. /\ Small({a, b, c, d, e} \cup {f}, 5 + 1)
        /\ {a, b, c, d, e} \cup {f} = {a, b, c, d, e, f}
    BY <1>6, OneMore
  <2> QED
    BY <2>1
<1> QED
  BY <1>7 DEF Small

\* The symbols that are told apart.
LEMMA SymbolsDiffer ==
    /\ DoneMark # Malformed /\ NoContent # Malformed /\ NoContent # DoneMark
    /\ DoneMark \notin Pieces /\ Malformed \notin Pieces /\ NoContent \notin Pieces
<1> DEFINE marks == {Data, Comment, Cr, Lf, NoContent, DoneMark, Malformed}
<1>1. Cardinality(marks) = 7 /\ marks \cap Pieces = {}
  BY SymbolsAssumption
<1>2. DoneMark \notin Pieces /\ Malformed \notin Pieces /\ NoContent \notin Pieces
  BY <1>1
<1>3. ASSUME NoContent = DoneMark \/ NoContent = Malformed \/ DoneMark = Malformed
      PROVE  FALSE
  <2>1. \E u, v : marks = {Data, Comment, Cr, Lf, u, v}
    BY <1>3
  <2>2. Cardinality(marks) <= 6
    BY <2>1, SixAtMost
  <2> QED
    BY <1>1, <2>2
<1> QED
  BY <1>2, <1>3

\* What is known of the turn of the loop that handles the line up to e.
HandlesLine(e, t) ==
    /\ e \in Nat /\ Handled < e /\ e <= pos /\ e \in LineEnds(input)
    /\ <<Handled, e>> \in Spans(input)
    /\ t = StripCr(FirstLine(buf)) /\ t = StripCr(SubSeq(input, Handled + 1, e - 1))
    /\ Handled' = e
    /\ buf' = SubSeq(input, e + 1, pos)

\* A turn of the loop handles the next line of the body.
LEMMA ParseHandlesLine ==
    ASSUME StreamInv, NEW more \in BOOLEAN, ParseLine(more)
    PROVE  \E e, t : HandlesLine(e, t)
<1>1. /\ input \in Seq(Symbol) /\ pos \in Nat /\ pos <= Len(input)
      /\ Handled \in Nat /\ Handled <= pos
      /\ Handled = 0 \/ Handled \in LineEnds(input)
      /\ buf = SubSeq(input, Handled + 1, pos)
  BY DEF StreamInv, StateType, BufIsRest
<1>2. LineEnds(buf) # {} /\ pos' = pos
      /\ buf' = SubSeq(buf, Len(FirstLine(buf)) + 2, Len(buf))
  BY DEF ParseLine
<1>3. PICK e : CutsAt(input, Handled, pos, buf, e)
  <2>1. PICK h \in Nat : h = Handled
    BY <1>1
  <2>2. /\ input \in Seq(Symbol) /\ pos \in Nat /\ pos <= Len(input)
        /\ h <= pos /\ (h = 0 \/ h \in LineEnds(input))
        /\ buf = SubSeq(input, h + 1, pos) /\ LineEnds(buf) # {}
    BY <1>1, <1>2, <2>1
  <2>3. \E e : CutsAt(input, h, pos, buf, e)
    BY ONLY <2>2, h \in Nat, NextLine
  <2> QED
    BY <2>1, <2>3
<1>4. buf' = SubSeq(input, e + 1, pos)
  BY <1>2, <1>3 DEF CutsAt
<1>5. Len(buf') = pos - e
  BY <1>1, <1>3, <1>4, EndsOfPart DEF CutsAt
<1>6. Handled' = e
  BY <1>1, <1>2, <1>3, <1>5 DEF Handled, CutsAt
<1>7. HandlesLine(e, StripCr(FirstLine(buf)))
  BY <1>1, <1>3, <1>4, <1>6 DEF HandlesLine, CutsAt
<1> QED
  BY <1>7

\* A packet leaves what was handled, and the buffer is still the rest.
LEMMA OnDataAppends ==
    ASSUME StreamInv, NEW n \in 1..Len(input), OnData(n)
    PROVE  Handled' = Handled /\ StreamInv'
<1>1. /\ input \in Seq(Symbol) /\ pos \in Nat /\ pos <= Len(input) /\ Len(input) \in Nat
      /\ Handled \in Nat /\ Handled <= pos
      /\ Handled = 0 \/ Handled \in LineEnds(input)
      /\ buf = SubSeq(input, Handled + 1, pos)
  BY DEF StreamInv, StateType, BufIsRest
<1>2. /\ pos' = pos + n /\ pos + n <= Len(input) /\ n \in Nat /\ pc' = "parse"
      /\ buf' = buf \o SubSeq(input, pos + 1, pos + n) /\ input' = input
  BY <1>1 DEF OnData
<1>3. PICK h \in Nat : h = Handled
  BY <1>1
<1>4. SubSeq(input, h + 1, pos) \o SubSeq(input, pos + 1, pos + n)
        = SubSeq(input, h + 1, pos + n)
  <2>1. /\ h + 1 \in 1..Len(input) + 1 /\ pos \in (h + 1) - 1..Len(input)
        /\ pos + n \in pos..Len(input)
    BY <1>1, <1>2, <1>3
  <2> QED
    BY <1>1, <2>1, ConcatAdjacentSubSeq
<1>5. buf' = SubSeq(input, h + 1, pos')
  BY <1>1, <1>2, <1>3, <1>4
<1>6. Len(buf') = pos' - h
  BY <1>1, <1>2, <1>3, <1>5, EndsOfPart
<1>7. Handled' = h
  BY <1>1, <1>2, <1>3, <1>6 DEF Handled
<1>8. StateType' /\ BufIsRest'
  <2>1. StateType'
    BY <1>1, <1>2 DEF StateType
  <2>2. h <= pos' /\ (h = 0 \/ h \in LineEnds(input'))
    BY <1>1, <1>2, <1>3
  <2>3. buf' = SubSeq(input', h + 1, pos')
    BY <1>2, <1>5
  <2> QED
    BY <1>7, <2>1, <2>2, <2>3 DEF BufIsRest
<1>9. LeftBehindDone'
  BY <1>2 DEF LeftBehindDone
<1> QED
  BY <1>3, <1>7, <1>8, <1>9 DEF StreamInv

\* The invariant after a turn of the loop.
LEMMA ParseKeepsInv ==
    ASSUME StreamInv, NEW more \in BOOLEAN, ParseLine(more)
    PROVE  StreamInv'
<1>1. /\ input \in Seq(Symbol) /\ pos \in Nat /\ pos <= Len(input)
      /\ Handled \in Nat /\ input' = input /\ pos' = pos
  BY DEF StreamInv, StateType, BufIsRest, ParseLine
<1>2. PICK e, t : HandlesLine(e, t)
  BY ParseHandlesLine
<1>3. BufIsRest'
  BY <1>1, <1>2 DEF BufIsRest, HandlesLine
<1>4. pc' \in {"wait", "parse", "stopped"}
  BY DEF ParseLine
<1>5. StateType'
  BY <1>1, <1>4 DEF StateType
<1>6. ASSUME pc' = "wait"
      PROVE  \E l \in EventLines(input) : l.end <= e /\ Payload(l.text) = DoneMark
  <2>1. IsData(t) /\ Payload(t) = DoneMark
    BY <1>2, <1>6 DEF ParseLine, HandlesLine
  <2>2. PICK h \in Nat : h = Handled
    BY <1>1
  <2>3. /\ <<h, e>> \in Spans(input) /\ e \in Nat
        /\ t = StripCr(SubSeq(input, h + 1, e - 1))
    BY <1>2, <2>2 DEF HandlesLine
  <2>4. [end |-> e, text |-> t] \in EventLines(input)
    BY <1>1, <2>1, <2>3, PassLine, SymbolsDiffer DEF Carries
  <2> QED
    BY <2>1, <2>3, <2>4
<1>7. LeftBehindDone'
  BY <1>1, <1>2, <1>6 DEF LeftBehindDone, HandlesLine
<1> QED
  BY <1>3, <1>5, <1>7 DEF StreamInv

\* Every step keeps the invariant.
LEMMA StreamInvStep ==
    ASSUME StreamInv, [Next]_vars
    PROVE  StreamInv'
<1>1. CASE UNCHANGED vars
  BY <1>1 DEF vars, StreamInv, StateType, BufIsRest, LeftBehindDone, Handled
<1>2. CASE \E n \in 1..Len(input) : OnData(n)
  BY <1>2, OnDataAppends
<1>3. CASE \E more \in BOOLEAN : ParseLine(more)
  BY <1>3, ParseKeepsInv
<1>4. CASE OnDataReturns \/ EndOfBody \/ ConnectionLost
  <2>1. /\ UNCHANGED <<input, pos, buf>> /\ pc' \in {"wait", "ended", "lost"}
        /\ pc' = "wait" => LineEnds(buf) = {}
    BY <1>4 DEF OnDataReturns, EndOfBody, ConnectionLost
  <2> QED
    BY <2>1 DEF StreamInv, StateType, BufIsRest, LeftBehindDone, Handled
<1> QED
  BY <1>1, <1>2, <1>3, <1>4 DEF Next

\* It holds before the first packet.
LEMMA StreamInvInit ==
    ASSUME Init
    PROVE  StreamInv /\ Handled = 0
<1>1. input \in Seq(Symbol) /\ pos = 0 /\ buf = <<>> /\ pc = "wait"
  BY InputsAssumption DEF Init
<1>2. Handled = 0
  <2>1. pos = 0 /\ Len(buf) = 0
    BY <1>1, EmptySeq
  <2> QED
    BY ONLY <2>1 DEF Handled
<1>3. SubSeq(input, 1, 0) = <<>>
  BY SubSeqEmpty
<1>4. StateType /\ BufIsRest
  BY <1>1, <1>2, <1>3 DEF StateType, BufIsRest
<1>5. LineEnds(buf) = {}
  BY <1>1 DEF LineEnds
<1> QED
  BY <1>2, <1>4, <1>5 DEF StreamInv, LeftBehindDone

\* Whatever the packets, stream_buf is exactly what has come behind the last
\* line that on_data handled, and on_data waits with complete lines in it only
\* behind [DONE].
THEOREM BufferIsRest == Spec => []StreamInv
<1>1. Init => StreamInv
  BY StreamInvInit
<1>2. StreamInv /\ [Next]_vars => StreamInv'
  BY StreamInvStep
<1> QED
  BY <1>1, <1>2, PTL DEF Spec

-----------------------------------------------------------------------------
(* The refinement.                                                          *)

Status == IF pc \in {"wait", "parse"} THEN "open" ELSE pc

\* The first event that has not been handled.
NextEvent == UpTo(EventLines(input), Handled) + 1

\* A turn of the loop passes the next event, or none.
LEMMA ParseSimulates ==
    ASSUME StreamInv, NEW more \in BOOLEAN, ParseLine(more)
    PROVE  [Source!SourceNext]_(Source!sourceVars)
<1>1. /\ input \in Seq(Symbol) /\ Handled \in Nat
      /\ input' = input /\ pos' = pos /\ pc = "parse"
  BY DEF StreamInv, StateType, BufIsRest, ParseLine
<1>2. PICK e, t : HandlesLine(e, t)
  BY ParseHandlesLine
<1>3. PICK h \in Nat : h = Handled
  BY <1>1
<1>4. /\ <<h, e>> \in Spans(input) /\ e \in Nat
      /\ t = StripCr(SubSeq(input, h + 1, e - 1)) /\ t = StripCr(FirstLine(buf))
  BY <1>2, <1>3 DEF HandlesLine
<1>5. PICK n \in Nat : n = UpTo(EventLines(input), h)
  BY <1>1, UpToType
<1>6. UpTo(EventLines(input), Handled) = n /\ UpTo(EventLines(input'), Handled') = UpTo(EventLines(input), e)
  BY <1>1, <1>2, <1>3, <1>5 DEF HandlesLine
<1>7. Events(input') = Events(input) /\ Status = "open"
  BY <1>1 DEF Status
<1>8. CASE Carries(t)
  <2>1. /\ [end |-> e, text |-> t] \in EventLines(input)
        /\ UpTo(EventLines(input), e) = n + 1
    BY <1>1, <1>4, <1>5, <1>8, PassLine
  <2>2. /\ n + 1 \in 1..Cardinality(EventLines(input))
        /\ Events(input)[n + 1] = Payload(t)
    <3> DEFINE l == [end |-> e, text |-> t]
    <3>1. l.end = e /\ l.text = t
      OBVIOUS
    <3>2. /\ UpTo(EventLines(input), l.end) \in 1..Cardinality(EventLines(input))
          /\ Events(input)[UpTo(EventLines(input), l.end)] = Payload(l.text)
      BY <1>1, <2>1, EventAtRank
    <3> QED
      BY <2>1, <3>1, <3>2
  <2>3. n + 1 <= Len(Events(input))
    BY <1>1, <2>2, EventsLen
  <2>4. /\ NextEvent = n + 1 /\ NextEvent' = NextEvent + 1
    BY <1>6, <2>1 DEF NextEvent
  <2>5. Source!More
    BY <1>7, <2>3, <2>4 DEF Source!More, NextEvent, Status
  <2>6. CASE Payload(t) \in Pieces
    <3>1. given' = Append(given, Payload(t)) /\ Status' \in {"open", "stopped"}
      BY <1>4, <1>8, <2>6 DEF ParseLine, Status, Carries
    <3>2. Payload(t) \notin {DoneMark, Malformed}
      BY <2>6, SymbolsDiffer
    <3> QED
      BY <1>7, <2>2, <2>4, <2>5, <3>1, <3>2
      DEF Source!SourceNext, Source!Give, NextEvent, Status
  <2>7. CASE Payload(t) = DoneMark
    <3>1. given' = given /\ Status' = "open"
      BY <1>4, <1>8, <2>7, SymbolsDiffer DEF ParseLine, Status, Carries
    <3> QED
      BY <1>7, <2>2, <2>4, <2>5, <2>7, <3>1
      DEF Source!SourceNext, Source!PassDone, NextEvent, Status
  <2>8. CASE Payload(t) \notin Pieces /\ Payload(t) # DoneMark
    <3>1. Payload(t) = Malformed
      BY <1>8, <2>8 DEF Payload, Carries
    <3>2. given' = given /\ Status' = "stopped"
      BY <1>4, <1>8, <2>8 DEF ParseLine, Status, Carries
    <3> QED
      BY <1>7, <2>2, <2>4, <2>5, <3>1, <3>2
      DEF Source!SourceNext, Source!Break, NextEvent, Status
  <2> QED
    BY <2>6, <2>7, <2>8
<1>9. CASE ~Carries(t)
  <2>1. UpTo(EventLines(input), e) = n
    BY <1>1, <1>4, <1>5, <1>9, PassLine
  <2>2. NextEvent' = NextEvent
    BY <1>6, <2>1 DEF NextEvent
  <2>3. given' = given /\ Status' = "open"
    BY <1>4, <1>9, SymbolsDiffer DEF ParseLine, Status, Carries
  <2> QED
    BY <1>7, <2>2, <2>3 DEF Source!sourceVars, NextEvent, Status
<1> QED
  BY <1>8, <1>9

\* The source ends behind its last event or behind [DONE].
LEMMA EndSimulates ==
    ASSUME StreamInv, EndOfBody
    PROVE  Source!End
<1>1. /\ input \in Seq(Symbol) /\ pos \in Nat /\ Handled \in Nat /\ Handled <= pos
      /\ buf = SubSeq(input, Handled + 1, pos) /\ pos = Len(input) /\ pc = "wait"
      /\ pc' = "ended" /\ UNCHANGED <<input, pos, buf, given>>
  BY DEF StreamInv, StateType, BufIsRest, EndOfBody
<1>2. PICK h \in Nat : h = Handled
  BY <1>1
<1>3. PICK n \in Nat : n = UpTo(EventLines(input), h)
  BY <1>1, UpToType
<1>4. Handled' = Handled
  BY <1>1 DEF Handled
<1>5. /\ NextEvent = n + 1 /\ NextEvent' = NextEvent /\ Events(input') = Events(input)
      /\ Status = "open" /\ Status' = "ended" /\ given' = given
  BY <1>1, <1>2, <1>3, <1>4 DEF NextEvent, Status
<1>6. CASE LineEnds(buf) = {}
  <2>1. ASSUME NEW l \in EventLines(input)
        PROVE  l.end <= h
    <3>1. l.end \in LineEnds(input) /\ l.end \in Nat /\ l.end <= pos
      BY <1>1, EventLineEnd
    <3>2. h < l.end => l.end - h \in LineEnds(buf)
      BY <1>1, <1>2, <3>1, EndsOfPart
    <3> QED
      BY <1>6, <3>1, <3>2
  <2>2. {l \in EventLines(input) : l.end <= h} = EventLines(input)
    BY <2>1
  <2>3. n = Len(Events(input))
    BY <1>1, <1>3, <2>2, EventsLen DEF UpTo
  <2>4. NextEvent > Len(Events(input))
    BY <1>5, <2>3
  <2> QED
    BY <1>5, <2>4 DEF Source!End, NextEvent, Status
<1>7. CASE LineEnds(buf) # {}
  <2>1. PICK l \in EventLines(input) : l.end <= h /\ Payload(l.text) = DoneMark
    BY <1>1, <1>2, <1>7 DEF StreamInv, LeftBehindDone
  <2>2. PICK r \in 1..Cardinality(EventLines(input)) :
          r = UpTo(EventLines(input), l.end) /\ Events(input)[r] = DoneMark
    BY <1>1, <2>1, EventAtRank
  <2>3. r <= n
    <3>1. l.end \in Nat
      BY <1>1, EventLineEnd
    <3>2. {k \in EventLines(input) : k.end <= l.end}
            \in SUBSET {k \in EventLines(input) : k.end <= h}
      <4>1. \A k \in EventLines(input) : k.end \in Nat
        BY <1>1, EventLineEnd
      <4> QED
        BY <2>1, <3>1, <4>1
    <3>3. IsFiniteSet({k \in EventLines(input) : k.end <= h})
      BY <1>1, UpToType
    <3> QED
      BY <1>3, <2>2, <3>2, <3>3, FS_Subset DEF UpTo
  <2>4. r \in 1..(NextEvent - 1)
    BY <1>5, <2>3
  <2> QED
    BY <1>5, <2>2, <2>4 DEF Source!End, NextEvent, Status
<1> QED
  BY <1>6, <1>7

\* Every step of the stream is a step of the source, or none.
LEMMA StreamSimulates ==
    ASSUME StreamInv, [Next]_vars
    PROVE  [Source!SourceNext]_(Source!sourceVars)
<1>1. CASE UNCHANGED vars
  BY <1>1 DEF vars, Source!sourceVars, Handled
<1>2. ASSUME NEW n \in 1..Len(input), OnData(n)
      PROVE  UNCHANGED Source!sourceVars
  <2>1. Handled' = Handled
    BY <1>2, OnDataAppends
  <2> QED
    BY <1>2, <2>1 DEF OnData, Source!sourceVars
<1>3. CASE \E more \in BOOLEAN : ParseLine(more)
  BY <1>3, ParseSimulates
<1>4. CASE OnDataReturns
  BY <1>4 DEF OnDataReturns, Source!sourceVars, Handled
<1>5. CASE EndOfBody
  BY <1>5, EndSimulates DEF Source!SourceNext
<1>6. CASE ConnectionLost
  <2>1. Source!Lose
    BY <1>6 DEF ConnectionLost, Source!Lose, Handled
  <2> QED
    BY <2>1 DEF Source!SourceNext
<1> QED
  BY <1>1, <1>2, <1>3, <1>4, <1>5, <1>6 DEF Next

\* A stream that has not begun is a source that has not begun.
LEMMA SourceStarts ==
    ASSUME Init
    PROVE  Source!SourceInit
<1>1. input \in Seq(Symbol) /\ Handled = 0 /\ pc = "wait" /\ given = <<>>
  BY StreamInvInit DEF StreamInv, StateType, Init
<1>2. {l \in EventLines(input) : l.end <= 0} = {}
  BY <1>1, EventLineEnd
<1>3. UpTo(EventLines(input), Handled) = 0
  BY <1>1, <1>2, FS_EmptySet DEF UpTo
<1> QED
  BY <1>1, <1>3 DEF Source!SourceInit

\* on_data gives the task the pieces of the uncut answer, in order, each once
\* and none left out up to [DONE], however the network cuts the answer.
THEOREM StreamImplementsSource == Spec => ImplementsPieceSource
<1>1. Init => Source!SourceInit
  BY SourceStarts
<1>2. StreamInv /\ [Next]_vars => [Source!SourceNext]_(Source!sourceVars)
  BY StreamSimulates
<1> QED
  BY <1>1, <1>2, BufferIsRest, PTL DEF Spec, ImplementsPieceSource, Source!SourceSpec
==============================================================================
