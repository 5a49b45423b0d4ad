------------------------- MODULE MarkdownFixesProofs -------------------------
(***************************************************************************)
(* Proofs about MarkdownFixes, for documents of any length, headings with  *)
(* any texts, any links and any number of edits by other programs: that    *)
(* byte offsets lead an operation to its heading, and what it does there.  *)
(***************************************************************************)
EXTENDS MarkdownFixes, SequenceTheorems, Minima

-----------------------------------------------------------------------------
(* Lines and documents.                                                    *)
Part ==
  {PathTitle, "empty heading", "TBD"} \cup Nat
    \cup UNION {{l.name[i] : i \in 1..Len(l.name)} : l \in {m \in InitialLine : m.kind \in HeadingKinds}}

Name == {name \in Seq(Part) : Len(name) > 0}

Heading == [kind : HeadingKinds, level : 1..6, name : Name, id : Nat]

Line == Heading \cup {Text, Blank}

DistinctIds(d) == \A i, j \in Headings(d) : d[i].id = d[j].id => i = j

(* A document between two steps.                                           *)
Document(d) ==
  /\ d \in Seq(Line) /\ Len(d) <= MaxLines + 2
  /\ \A h \in Headings(d) : d[h].id <= MaxLines
  /\ DistinctIds(d)

LEMMA LineKinds ==
  ASSUME NEW l \in Line
  PROVE  /\ l.kind \in HeadingKinds => l \in Heading
         /\ l.kind \notin HeadingKinds => l \in {Text, Blank}
         /\ l.kind \in HeadingKinds \cup {"text", "blank"}
  BY DEF Line, Heading, HeadingKinds, Text, Blank

LEMMA NameSizes ==
  ASSUME NEW name \in Name
  PROVE  Len(name) \in Nat \ {0} /\ TextSize(name) \in Nat \ {0}
  <1>1. Len(name) \in Nat /\ Len(name) > 0
    BY DEF Name
  <1> QED
    BY <1>1 DEF TextSize

(* Every line takes up room, and a setext heading more than its first line.*)
LEMMA LineSizes ==
  ASSUME NEW l \in Line
  PROVE  /\ Size(l) \in Nat \ {0} /\ TitleSize(l) \in Nat \ {0}
         /\ TitleSize(l) <= Size(l)
         /\ l.kind = "setext" => TitleSize(l) < Size(l)
         /\ l.kind # "setext" => TitleSize(l) = Size(l)
  <1>1. CASE l.kind \in HeadingKinds
    <2>1. l \in Heading
      BY <1>1, LineKinds
    <2>2. l.level \in 1..6 /\ l.name \in Name
      BY <2>1 DEF Heading
    <2>3. TextSize(l.name) \in Nat \ {0}
      BY <2>2, NameSizes
    <2>4. /\ l.kind = "atx" => Size(l) = l.level + TextSize(l.name) + 2
          /\ l.kind = "setext" => Size(l) = TextSize(l.name) + 5
          /\ l.kind = "bare" => Size(l) = l.level + 1
      BY DEF Size
    <2>5. TitleSize(l) = IF l.kind = "setext" THEN TextSize(l.name) + 1 ELSE Size(l)
      BY DEF TitleSize
    <2> QED
      BY <1>1, <2>2, <2>3, <2>4, <2>5 DEF HeadingKinds
  <1>2. CASE l.kind \notin HeadingKinds
    <2>1. l.kind = "text" \/ l.kind = "blank"
      BY <1>2, LineKinds
    <2> QED
      BY <2>1 DEF Size, TitleSize
  <1> QED
    BY <1>1, <1>2

(* Offset is what its recursion says: the shortest prefix without such a   *)
(* function would extend the one before it.                                *)
Follows(f, d, m) ==
  f = [i \in 1..m |-> IF i = 1 THEN 0 ELSE f[i - 1] + Size(d[i - 1])]

LEMMA FollowsOn ==
  ASSUME NEW d, NEW m \in Nat, NEW f, Follows(f, d, m)
  PROVE  \E g : Follows(g, d, m + 1)
  <1> DEFINE new == IF m + 1 = 1 THEN 0 ELSE f[m] + Size(d[m])
             g == [i \in 1..(m + 1) |-> IF i = m + 1 THEN new ELSE f[i]]
  <1>1. \A i \in 1..m : g[i] = f[i] /\ i # m + 1
    OBVIOUS
  <1>2. g[m + 1] = new
    OBVIOUS
  <1>3. \A i \in 1..m : f[i] = IF i = 1 THEN 0 ELSE f[i - 1] + Size(d[i - 1])
    BY DEF Follows
  <1>4. \A i \in 1..(m + 1) : g[i] = IF i = 1 THEN 0 ELSE g[i - 1] + Size(d[i - 1])
    <2> TAKE i \in 1..(m + 1)
    <2>1. CASE i = m + 1
      <3>1. i # 1 => g[i - 1] = f[m] /\ i - 1 = m
        BY <2>1, <1>1
      <3> HIDE DEF g
      <3> QED
        BY <2>1, <3>1, <1>2
    <2>2. CASE i # m + 1
      <3>1. i \in 1..m /\ (i # 1 => g[i - 1] = f[i - 1])
        BY <2>2, <1>1
      <3> HIDE DEF g
      <3> QED
        BY <3>1, <1>1, <1>3
    <2> QED
      BY <2>1, <2>2
  <1>5. g = [i \in 1..(m + 1) |-> g[i]]
    OBVIOUS
  <1> HIDE DEF g
  <1>6. Follows(g, d, m + 1)
    BY <1>4, <1>5 DEF Follows
  <1> QED
    BY <1>6

LEMMA OffsetIsDefined ==
  ASSUME NEW d, Len(d) \in Nat
  PROVE  Follows(Offset(d), d, Len(d) + 1)
  <1> DEFINE missing == {m \in Nat : ~ \E f : Follows(f, d, m)}
  <1>1. \E f : Follows(f, d, 0)
    <2>1. Follows([i \in 1..0 |-> 0], d, 0)
      BY DEF Follows
    <2> QED
      BY <2>1
  <1>2. missing = {}
    <2> SUFFICES ASSUME missing # {}
                 PROVE  FALSE
      OBVIOUS
    <2>1. missing \in SUBSET Nat
      OBVIOUS
    <2>2. PICK m \in missing : \A k \in missing : m <= k
      <3> HIDE DEF missing
      <3> QED
        BY <2>1, HasLeast
    <2>3. m \in Nat /\ ~ \E f : Follows(f, d, m)
      OBVIOUS
    <2>4. m # 0
      BY <1>1, <2>3
    <2>5. m - 1 \in Nat /\ ~(m <= m - 1) /\ (m - 1) + 1 = m
      BY <2>3, <2>4
    <2>6. PICK f : Follows(f, d, m - 1)
      BY <2>2, <2>5
    <2>7. \E g : Follows(g, d, (m - 1) + 1)
      BY <2>5, <2>6, FollowsOn
    <2> QED
      BY <2>3, <2>5, <2>7
  <1>3. \E f : Follows(f, d, Len(d) + 1)
    <2>1. \A m \in Nat : \E f : Follows(f, d, m)
      BY <1>2
    <2>2. Len(d) + 1 \in Nat
      OBVIOUS
    <2> HIDE DEF missing
    <2> QED
      BY <2>1, <2>2
  <1>4. Offset(d) = CHOOSE f : Follows(f, d, Len(d) + 1)
    BY DEF Offset, Follows
  <1> QED
    BY <1>3, <1>4

(* Offsets grow from line to line.                                         *)
LEMMA OffsetsGrow ==
  ASSUME NEW d \in Seq(Line)
  PROVE  /\ Len(d) \in Nat
         /\ \A i \in 1..(Len(d) + 1) : Offset(d)[i] \in Nat
         /\ \A i \in 1..Len(d) : Offset(d)[i + 1] = Offset(d)[i] + Size(d[i])
         /\ \A i, j \in 1..(Len(d) + 1) : i < j => Offset(d)[i] < Offset(d)[j]
  <1> DEFINE at == Offset(d)
             n == Len(d) + 1
  <1>1. Len(d) \in Nat /\ n \in Nat
    OBVIOUS
  <1>2. \A i \in 1..Len(d) : d[i] \in Line /\ Size(d[i]) \in Nat \ {0}
    BY LineSizes
  <1>3. Follows(at, d, n)
    BY <1>1, OffsetIsDefined
  <1> HIDE DEF at
  <1>4. \A i \in 1..n : at[i] = IF i = 1 THEN 0 ELSE at[i - 1] + Size(d[i - 1])
    BY <1>3 DEF Follows
  <1>5. \A i \in 1..Len(d) : at[i + 1] = at[i] + Size(d[i])
    <2> TAKE i \in 1..Len(d)
    <2>1. i + 1 \in 1..n /\ i + 1 # 1 /\ (i + 1) - 1 = i
      BY <1>1
    <2> QED
      BY <1>4, <2>1
  <1> DEFINE Good(m) == \A i \in 1..m : at[i] \in Nat /\ (i < m => at[i] < at[m])
             bad == {m \in 1..n : ~Good(m)}
  <1>6. Good(1)
    BY <1>1, <1>4
  <1>7. ASSUME NEW m \in 1..Len(d), Good(m)
        PROVE  Good(m + 1)
    <2> DEFINE a == at[m]
               b == at[m + 1]
               s == Size(d[m])
    <2>1. b = a + s /\ a \in Nat /\ s \in Nat \ {0}
      BY <1>2, <1>5, <1>7
    <2> HIDE DEF a, b, s
    <2>2. b \in Nat /\ a < b
      BY <2>1
    <2>3. \A i \in 1..m : at[i] \in Nat /\ (i = m \/ at[i] < a)
      BY <1>7 DEF a
    <2>4. ASSUME NEW i \in 1..(m + 1)
          PROVE  at[i] \in Nat /\ (i < m + 1 => at[i] < b)
      <3>1. CASE i = m + 1
        BY <2>2, <3>1 DEF b
      <3>2. CASE i # m + 1
        <4>1. i \in 1..m
          BY <3>2
        <4> DEFINE c == at[i]
        <4>2. c \in Nat /\ (c = a \/ c < a)
          BY <2>3, <4>1 DEF a
        <4> HIDE DEF c
        <4>3. c < b
          BY <2>1, <2>2, <4>2
        <4> QED
          BY <4>2, <4>3 DEF c
      <3> QED
        BY <3>1, <3>2
    <2> QED
      BY <2>4 DEF b
  <1>8. bad = {}
    <2> SUFFICES ASSUME bad # {}
                 PROVE  FALSE
      OBVIOUS
    <2>1. bad \in SUBSET Nat
      OBVIOUS
    <2>2. PICK m \in bad : \A k \in bad : m <= k
      <3> HIDE DEF bad
      <3> QED
        BY <2>1, HasLeast
    <2>3. m \in 1..n /\ ~Good(m)
      OBVIOUS
    <2>4. m # 1
      BY <1>6, <2>3
    <2> HIDE DEF Good
    <2>5. m - 1 \in 1..Len(d) /\ m - 1 \in 1..n /\ ~(m <= m - 1) /\ (m - 1) + 1 = m
      BY <1>1, <2>3, <2>4
    <2>6. Good(m - 1)
      BY <2>2, <2>5
    <2>7. Good((m - 1) + 1)
      BY <2>5, <2>6, <1>7
    <2> QED
      BY <2>3, <2>5, <2>7
  <1>9. \A m \in 1..n : Good(m)
    BY <1>8
  <1>10. \A i \in 1..n : at[i] \in Nat
    BY <1>9
  <1>11. \A i, j \in 1..n : i < j => at[i] < at[j]
    <2> TAKE i, j \in 1..n
    <2> HAVE i < j
    <2>1. i \in 1..j
      OBVIOUS
    <2> QED
      BY <1>9, <2>1
  <1> QED
    BY <1>1, <1>5, <1>10, <1>11 DEF at, n

-----------------------------------------------------------------------------
(* Headings and their ids.                                                 *)
LEMMA LeastIs ==
  ASSUME NEW S \in SUBSET Nat, S # {}
  PROVE  Least(S) \in S /\ \A j \in S : Least(S) <= j
  <1>1. \E i \in S : \A j \in S : i <= j
    BY HasLeast
  <1> QED
    BY <1>1 DEF Least

LEMMA HeadingsAre ==
  ASSUME NEW d \in Seq(Line), NEW h \in Headings(d)
  PROVE  /\ h \in 1..Len(d) /\ h \in Nat /\ d[h] \in Line /\ d[h] \in Heading
         /\ d[h].kind \in HeadingKinds /\ d[h].level \in 1..6 /\ d[h].name \in Name
         /\ d[h].id \in Nat
  <1>1. h \in 1..Len(d) /\ h \in Nat /\ d[h].kind \in HeadingKinds
    BY DEF Headings
  <1>2. d[h] \in Line
    BY <1>1
  <1>3. d[h] \in Heading
    BY <1>1, <1>2, LineKinds
  <1> QED
    BY <1>1, <1>2, <1>3 DEF Heading

(* The nearest heading above one that is not the first.                    *)
LEMMA ParentIs ==
  ASSUME NEW d \in Seq(Line), NEW h \in Headings(d), \E j \in Headings(d) : j < h
  PROVE  /\ Parent(d, h) \in Headings(d) /\ Parent(d, h) < h
         /\ \A k \in Headings(d) : k < h => k <= Parent(d, h)
  <1> DEFINE distances == {h - j : j \in {k \in Headings(d) : k < h}}
  <1>1. h \in Nat /\ \A j \in Headings(d) : j \in Nat
    BY HeadingsAre
  <1>2. distances \in SUBSET Nat /\ distances # {}
    <2>1. \A j \in Headings(d) : j < h => h - j \in Nat
      <3> TAKE j \in Headings(d)
      <3> HAVE j < h
      <3>1. h \in Nat /\ j \in Nat /\ j < h
        BY <1>1
      <3> HIDE DEF distances
      <3> QED
        BY <3>1
    <2> QED
      BY <2>1
  <1>3. PICK x \in distances : \A y \in distances : x <= y
    <2> HIDE DEF distances
    <2> QED
      BY <1>2, HasLeast
  <1>4. PICK j \in Headings(d) : j < h /\ x = h - j
    BY <1>3
  <1>5. \A k \in Headings(d) : k < h => k <= j
    <2> TAKE k \in Headings(d)
    <2> HAVE k < h
    <2>1. h - j <= h - k
      BY <1>3, <1>4
    <2> QED
      BY <1>1, <2>1
  <1> QED
    BY <1>4, <1>5 DEF Parent

(* A document has fewer headings than there are ids to choose from.        *)
LEMMA NewIdIsNew ==
  ASSUME NEW d \in Seq(Line)
  PROVE  NewId(d) \in 0..Len(d) /\ NewId(d) \notin HeadingIds(d)
  <1> DEFINE n == Len(d)
             free == (0..n) \ HeadingIds(d)
             id == [h \in Headings(d) |-> d[h].id]
  <1>1. n \in Nat
    OBVIOUS
  <1>2. IsFiniteSet(Headings(d)) /\ Cardinality(Headings(d)) <= n /\ Cardinality(Headings(d)) \in Nat
    <2>1. IsFiniteSet(1..n) /\ Cardinality(1..n) = n
      <3> HIDE DEF n
      <3>1. IsFiniteSet(1..n) /\ Cardinality(1..n) = IF 1 > n THEN 0 ELSE n - 1 + 1
        BY <1>1, FS_Interval
      <3> QED
        BY <1>1, <3>1
    <2>2. Headings(d) \in SUBSET (1..n)
      BY DEF Headings
    <2> HIDE DEF n
    <2> QED
      BY <2>1, <2>2, FS_Subset, FS_CardinalityType
  <1>3. IsFiniteSet(HeadingIds(d)) /\ Cardinality(HeadingIds(d)) <= Cardinality(Headings(d))
    <2>1. id \in Surjection(Headings(d), HeadingIds(d))
      BY DEF Surjection, HeadingIds
    <2> HIDE DEF id
    <2> QED
      BY <1>2, <2>1, FS_Surjection
  <1>4. free # {}
    <2> SUFFICES ASSUME free = {}
                 PROVE  FALSE
      OBVIOUS
    <2>1. 0..n \in SUBSET HeadingIds(d)
      OBVIOUS
    <2>2. Cardinality(0..n) <= Cardinality(HeadingIds(d)) /\ Cardinality(HeadingIds(d)) \in Nat
      <3> HIDE DEF n
      <3> QED
        BY <1>3, <2>1, FS_Subset, FS_CardinalityType
    <2>3. Cardinality(0..n) = n + 1
      BY <1>1, FS_Interval
    <2> HIDE DEF n
    <2> QED
      BY <1>1, <1>2, <1>3, <2>2, <2>3
  <1>5. free \in SUBSET Nat
    BY <1>1
  <1> HIDE DEF free
  <1>6. Least(free) \in free
    BY <1>4, <1>5, LeastIs
  <1> QED
    BY <1>6 DEF NewId, free

LEMMA WithIdIs ==
  ASSUME NEW d, DistinctIds(d), NEW h \in Headings(d)
  PROVE  WithId(d, d[h].id) = h
  BY DEF WithId, DistinctIds

(* Every heading of a new document is one of the old, at its place to, or  *)
(* the fresh one.                                                          *)
ComesFrom(new, d, to, fresh) ==
  \A i \in Headings(new) :
    \/ \E j \in Headings(d) : i = to[j] /\ new[i].id = d[j].id
    \/ i = fresh /\ new[i].id = NewId(d)

LEMMA DocumentsStay ==
  ASSUME NEW d, Document(d), Len(d) <= MaxLines, NEW new \in Seq(Line), Len(new) <= MaxLines + 2,
         NEW to, NEW fresh, ComesFrom(new, d, to, fresh)
  PROVE  Document(new)
  <1>1. d \in Seq(Line) /\ Len(d) \in Nat /\ MaxLines \in Nat
    BY BoundsAssumption DEF Document
  <1>2. NewId(d) \in 0..Len(d) /\ NewId(d) \notin HeadingIds(d)
    BY <1>1, NewIdIsNew
  <1>3. NewId(d) <= MaxLines
    BY <1>1, <1>2
  <1>4. \A i \in Headings(new) : new[i].id <= MaxLines
    BY <1>3 DEF ComesFrom, Document
  <1>5. DistinctIds(new)
    <2> SUFFICES ASSUME NEW i \in Headings(new), NEW k \in Headings(new), new[i].id = new[k].id
                 PROVE  i = k
      BY DEF DistinctIds
    <2>1. \A j \in Headings(d) : d[j].id # NewId(d)
      BY <1>2 DEF HeadingIds
    <2>2. CASE new[i].id = NewId(d)
      <3>1. i = fresh /\ k = fresh
        BY <2>1, <2>2 DEF ComesFrom
      <3> QED
        BY <3>1
    <2>3. CASE new[i].id # NewId(d)
      <3>1. PICK j \in Headings(d) : i = to[j] /\ new[i].id = d[j].id
        BY <2>3 DEF ComesFrom
      <3>2. PICK x \in Headings(d) : k = to[x] /\ new[k].id = d[x].id
        BY <2>3 DEF ComesFrom
      <3>3. j = x
        BY <3>1, <3>2 DEF Document, DistinctIds
      <3> QED
        BY <3>1, <3>2, <3>3
    <2> QED
      BY <2>2, <2>3
  <1> QED
    BY <1>4, <1>5 DEF Document

-----------------------------------------------------------------------------
(* What the operations make of a document, line by line.                   *)
LEMMA PrependLines ==
  ASSUME NEW d \in Seq(Line), NEW a \in Line, NEW b \in Line
  PROVE  LET new == <<a, b>> \o d IN
         /\ new \in Seq(Line) /\ Len(new) = Len(d) + 2
         /\ new[1] = a /\ new[2] = b
         /\ \A i \in 1..Len(d) : new[i + 2] = d[i]
  <1> DEFINE top == <<a, b>>
             new == top \o d
  <1>1. top \in Seq(Line) /\ Len(top) = 2 /\ top[1] = a /\ top[2] = b
    OBVIOUS
  <1> HIDE DEF top
  <1>2. /\ new \in Seq(Line) /\ Len(new) = Len(top) + Len(d)
        /\ \A i \in 1..(Len(top) + Len(d)) : new[i] = IF i <= Len(top) THEN top[i] ELSE d[i - Len(top)]
    BY <1>1, ConcatProperties
  <1> HIDE DEF new
  <1>3. Len(d) \in Nat
    OBVIOUS
  <1>4. new[1] = a /\ new[2] = b
    BY <1>1, <1>2, <1>3
  <1>5. \A i \in 1..Len(d) : new[i + 2] = d[i]
    <2> TAKE i \in 1..Len(d)
    <2>1. i + 2 \in 1..(Len(top) + Len(d)) /\ ~(i + 2 <= Len(top)) /\ i + 2 - Len(top) = i
      BY <1>1, <1>3
    <2> QED
      BY <1>2, <2>1
  <1> QED
    BY <1>1, <1>2, <1>3, <1>4, <1>5 DEF new, top

LEMMA PartOfDocument ==
  ASSUME NEW d \in Seq(Line), NEW m \in Nat \ {0}, NEW n \in Nat, n <= Len(d)
  PROVE  /\ SubSeq(d, m, n) \in Seq(Line)
         /\ Len(SubSeq(d, m, n)) = IF m <= n THEN n - m + 1 ELSE 0
         /\ \A i \in 1..(n - m + 1) : SubSeq(d, m, n)[i] = d[m + i - 1]
  <1>1. \A i \in m..n : d[i] \in Line
    OBVIOUS
  <1> QED
    BY <1>1, SubSeqProperties

ReplacedLine(d, k, lines) == SubSeq(d, 1, k - 1) \o lines \o SubSeq(d, k + 1, Len(d))

LEMMA ReplacedLineIs ==
  ASSUME NEW d \in Seq(Line), NEW k \in 1..Len(d), NEW lines \in Seq(Line)
  PROVE  LET new == ReplacedLine(d, k, lines) IN
         /\ new \in Seq(Line) /\ Len(new) = Len(d) - 1 + Len(lines)
         /\ \A i \in 1..(k - 1) : new[i] = d[i]
         /\ \A i \in 1..Len(lines) : new[k - 1 + i] = lines[i]
         /\ \A i \in (k + 1)..Len(d) : new[i + Len(lines) - 1] = d[i]
  <1> DEFINE n == Len(d)
             m == Len(lines)
             above == SubSeq(d, 1, k - 1)
             below == SubSeq(d, k + 1, n)
             front == above \o lines
             new == front \o below
  <1>1. n \in Nat /\ m \in Nat /\ k \in 1..n
    OBVIOUS
  <1>2. /\ above \in Seq(Line) /\ Len(above) = k - 1
        /\ \A i \in 1..(k - 1) : above[i] = d[i]
    <2>1. 1 \in Nat \ {0} /\ k - 1 \in Nat /\ k - 1 <= Len(d)
      BY <1>1
    <2>2. /\ above \in Seq(Line) /\ Len(above) = IF 1 <= k - 1 THEN k - 1 - 1 + 1 ELSE 0
          /\ \A i \in 1..(k - 1 - 1 + 1) : above[i] = d[1 + i - 1]
      BY <2>1, PartOfDocument
    <2>3. k - 1 - 1 + 1 = k - 1 /\ \A i \in 1..(k - 1) : 1 + i - 1 = i
      BY <1>1
    <2> HIDE DEF above
    <2> QED
      BY <1>1, <2>2, <2>3
  <1>3. /\ below \in Seq(Line) /\ Len(below) = n - k
        /\ \A i \in 1..(n - k) : below[i] = d[k + i]
    <2>1. k + 1 \in Nat \ {0} /\ n \in Nat /\ n <= Len(d)
      BY <1>1
    <2>2. /\ below \in Seq(Line) /\ Len(below) = IF k + 1 <= n THEN n - (k + 1) + 1 ELSE 0
          /\ \A i \in 1..(n - (k + 1) + 1) : below[i] = d[k + 1 + i - 1]
      BY <2>1, PartOfDocument
    <2>3. n - (k + 1) + 1 = n - k /\ \A i \in 1..(n - k) : k + 1 + i - 1 = k + i
      BY <1>1
    <2> HIDE DEF below, n
    <2> QED
      BY <1>1, <2>2, <2>3
  <1> HIDE DEF above, below, n, m
  <1>4. /\ front \in Seq(Line) /\ Len(front) = k - 1 + m
        /\ \A i \in 1..(k - 1 + m) : front[i] = IF i <= k - 1 THEN above[i] ELSE lines[i - (k - 1)]
    <2>1. /\ front \in Seq(Line) /\ Len(front) = Len(above) + Len(lines)
          /\ \A i \in 1..(Len(above) + Len(lines)) :
               front[i] = IF i <= Len(above) THEN above[i] ELSE lines[i - Len(above)]
      BY <1>2, ConcatProperties
    <2> QED
      BY <1>2, <2>1 DEF m
  <1> HIDE DEF front
  <1>5. /\ new \in Seq(Line) /\ Len(new) = k - 1 + m + (n - k)
        /\ \A i \in 1..(k - 1 + m + (n - k)) :
             new[i] = IF i <= k - 1 + m THEN front[i] ELSE below[i - (k - 1 + m)]
    <2>1. /\ new \in Seq(Line) /\ Len(new) = Len(front) + Len(below)
          /\ \A i \in 1..(Len(front) + Len(below)) :
               new[i] = IF i <= Len(front) THEN front[i] ELSE below[i - Len(front)]
      BY <1>3, <1>4, ConcatProperties
    <2> QED
      BY <1>3, <1>4, <2>1
  <1> HIDE DEF new
  <1>6. k - 1 + m + (n - k) = n - 1 + m
    BY <1>1
  <1>7. \A i \in 1..(k - 1) : new[i] = d[i]
    <2> TAKE i \in 1..(k - 1)
    <2>1. i \in 1..(k - 1 + m + (n - k)) /\ i \in 1..(k - 1 + m) /\ i <= k - 1 + m /\ i <= k - 1
      BY <1>1
    <2> QED
      BY <1>2, <1>4, <1>5, <2>1
  <1>8. \A i \in 1..m : new[k - 1 + i] = lines[i]
    <2> TAKE i \in 1..m
    <2> DEFINE x == k - 1 + i
    <2>1. /\ x \in 1..(k - 1 + m + (n - k)) /\ x \in 1..(k - 1 + m) /\ x <= k - 1 + m /\ ~(x <= k - 1)
          /\ x - (k - 1) = i
      BY <1>1
    <2> HIDE DEF x
    <2>2. new[x] = front[x] /\ front[x] = lines[x - (k - 1)]
      BY <1>4, <1>5, <2>1
    <2> QED
      BY <2>1, <2>2 DEF x
  <1>9. \A i \in (k + 1)..n : new[i + m - 1] = d[i]
    <2> TAKE i \in (k + 1)..n
    <2> DEFINE x == i + m - 1
               y == i - k
    <2>1. /\ x \in 1..(k - 1 + m + (n - k)) /\ ~(x <= k - 1 + m) /\ x - (k - 1 + m) = y
          /\ y \in 1..(n - k) /\ k + y = i
      BY <1>1
    <2> HIDE DEF x, y
    <2>2. new[x] = below[y] /\ below[y] = d[k + y]
      BY <1>3, <1>5, <2>1
    <2> QED
      BY <2>1, <2>2 DEF x
  <1> QED
    BY <1>5, <1>6, <1>7, <1>8, <1>9 DEF ReplacedLine, new, front, above, below, n, m

(* A marker or a text replaced: the line stays a heading with its id.      *)
Relevelled(d, k, level) == [d EXCEPT ![k].level = level]
Retitled(d, k, name) == [d EXCEPT ![k].name = name]

LEMMA ChangedLineIs ==
  ASSUME NEW d \in Seq(Line), NEW k \in Headings(d),
         NEW l \in Heading, l.kind = d[k].kind, l.id = d[k].id
  PROVE  LET new == [d EXCEPT ![k] = l] IN
         /\ new \in Seq(Line) /\ Len(new) = Len(d)
         /\ \A i \in 1..Len(d) : new[i] = IF i = k THEN l ELSE d[i]
         /\ Headings(new) = Headings(d)
         /\ \A i \in Headings(d) : new[i].id = d[i].id
  <1> DEFINE new == [d EXCEPT ![k] = l]
  <1>1. k \in 1..Len(d) /\ l \in Line
    BY DEF Headings, Line
  <1>2. /\ new \in Seq(Line) /\ Len(new) = Len(d)
        /\ \A i \in 1..Len(d) : new[i] = IF i = k THEN l ELSE d[i]
    BY <1>1, ExceptSeq
  <1> HIDE DEF new
  <1>3. \A i \in 1..Len(d) : new[i].kind = d[i].kind
    BY <1>2
  <1>4. Headings(new) = Headings(d)
    BY <1>2, <1>3 DEF Headings
  <1>5. \A i \in Headings(d) : new[i].id = d[i].id
    BY <1>2 DEF Headings
  <1> QED
    BY <1>2, <1>4, <1>5 DEF new

(* Only line k differs, and not in what makes it the heading it is.        *)
OneChanged(new, d, k) ==
  /\ new \in Seq(Line) /\ Len(new) = Len(d)
  /\ \A i \in 1..Len(d) : i # k => new[i] = d[i]
  /\ Headings(new) = Headings(d)
  /\ \A i \in Headings(d) : new[i].id = d[i].id

LEMMA RelevelledIs ==
  ASSUME NEW d \in Seq(Line), NEW k \in Headings(d), NEW level \in 1..6
  PROVE  /\ OneChanged(Relevelled(d, k, level), d, k)
         /\ Relevelled(d, k, level)[k].level = level
         /\ Relevelled(d, k, level)[k].name = d[k].name
         /\ Relevelled(d, k, level)[k].kind = d[k].kind
  <1> DEFINE l == [d[k] EXCEPT !.level = level]
  <1>1. k \in 1..Len(d) /\ d[k] \in Heading
    BY HeadingsAre
  <1>2. l \in Heading /\ l.kind = d[k].kind /\ l.id = d[k].id /\ l.level = level /\ l.name = d[k].name
    BY <1>1 DEF Heading
  <1>3. Relevelled(d, k, level) = [d EXCEPT ![k] = l]
    BY <1>1 DEF Relevelled
  <1> HIDE DEF l
  <1>4. LET new == [d EXCEPT ![k] = l] IN
         /\ new \in Seq(Line) /\ Len(new) = Len(d)
         /\ \A i \in 1..Len(d) : new[i] = IF i = k THEN l ELSE d[i]
         /\ Headings(new) = Headings(d)
         /\ \A i \in Headings(d) : new[i].id = d[i].id
    BY <1>2, ChangedLineIs
  <1> QED
    BY <1>1, <1>2, <1>3, <1>4 DEF OneChanged

LEMMA RetitledIs ==
  ASSUME NEW d \in Seq(Line), NEW k \in Headings(d), NEW name \in Name
  PROVE  /\ OneChanged(Retitled(d, k, name), d, k)
         /\ Retitled(d, k, name)[k].name = name
         /\ Retitled(d, k, name)[k].level = d[k].level
         /\ Retitled(d, k, name)[k].kind = d[k].kind
  <1> DEFINE l == [d[k] EXCEPT !.name = name]
  <1>1. k \in 1..Len(d) /\ d[k] \in Heading
    BY HeadingsAre
  <1>2. l \in Heading /\ l.kind = d[k].kind /\ l.id = d[k].id /\ l.level = d[k].level /\ l.name = name
    BY <1>1 DEF Heading
  <1>3. Retitled(d, k, name) = [d EXCEPT ![k] = l]
    BY <1>1 DEF Retitled
  <1> HIDE DEF l
  <1>4. LET new == [d EXCEPT ![k] = l] IN
         /\ new \in Seq(Line) /\ Len(new) = Len(d)
         /\ \A i \in 1..Len(d) : new[i] = IF i = k THEN l ELSE d[i]
         /\ Headings(new) = Headings(d)
         /\ \A i \in Headings(d) : new[i].id = d[i].id
    BY <1>2, ChangedLineIs
  <1> QED
    BY <1>1, <1>2, <1>3, <1>4 DEF OneChanged

(* The lines a placeholder is put among: those of the heading, and it.     *)
Filling(d, k) ==
  LET next == IF k < Len(d) /\ d[k + 1].kind = "blank" THEN <<Text>> ELSE <<Blank, Text>>
  IN IF d[k].kind = "setext"
     THEN <<Text, Blank, Setext(d[k].level, <<"TBD">>, NewId(d))>>
     ELSE <<d[k]>> \o next

LEMMA FilledSectionIs ==
  ASSUME NEW d, NEW p
  PROVE  FilledSection(d, p) =
           {ReplacedLine(d, LineOf(d, h), Filling(d, LineOf(d, h))) : h \in HeadingAt(d, p.offset)}
  BY DEF FilledSection, ReplacedLine, Filling

LEMMA NewHeadings ==
  ASSUME NEW level \in 1..6, NEW name \in Name, NEW id \in Nat
  PROVE  /\ Atx(level, name, id) \in Heading /\ Setext(level, name, id) \in Heading
         /\ Atx(level, name, id).id = id /\ Setext(level, name, id).id = id
         /\ Atx(level, name, id).level = level /\ Atx(level, name, id).kind = "atx"
         /\ Setext(level, name, id).kind = "setext"
  BY DEF Atx, Setext, Heading, HeadingKinds

LEMMA FillingIs ==
  ASSUME NEW d \in Seq(Line), NEW k \in 1..Len(d)
  PROVE  /\ Filling(d, k) \in Seq(Line) /\ Len(Filling(d, k)) \in 2..3
         /\ d[k].kind # "setext" =>
              /\ Filling(d, k)[1] = d[k]
              /\ \A i \in 2..Len(Filling(d, k)) : Filling(d, k)[i] \in {Text, Blank}
              /\ Filling(d, k)[Len(Filling(d, k))] = Text
         /\ d[k].kind = "setext" =>
              /\ Len(Filling(d, k)) = 3 /\ Filling(d, k)[1] = Text /\ Filling(d, k)[2] = Blank
              /\ Filling(d, k)[3].kind = "setext" /\ Filling(d, k)[3].id = NewId(d)
  <1>1. d[k] \in Line /\ Text \in Line /\ Blank \in Line
    BY DEF Line
  <1>2. CASE d[k].kind = "setext"
    <2> DEFINE l == Setext(d[k].level, <<"TBD">>, NewId(d))
    <2>1. d[k] \in Heading
      BY <1>1, <1>2, LineKinds DEF HeadingKinds
    <2>2. d[k].level \in 1..6
      BY <2>1 DEF Heading
    <2>3. <<"TBD">> \in Name
      BY DEF Name, Part
    <2>4. NewId(d) \in Nat
      BY NewIdIsNew
    <2>5. l \in Line /\ l.kind = "setext" /\ l.id = NewId(d)
      BY <2>2, <2>3, <2>4, NewHeadings DEF Line
    <2> HIDE DEF l
    <2>6. Filling(d, k) = <<Text, Blank, l>>
      BY <1>2 DEF Filling, l
    <2> HIDE DEF Filling
    <2> QED
      BY <1>1, <1>2, <2>5, <2>6
  <1>3. CASE d[k].kind # "setext" /\ k < Len(d) /\ d[k + 1].kind = "blank"
    <2>1. Filling(d, k) = <<d[k]>> \o <<Text>>
      BY <1>3 DEF Filling
    <2>2. <<d[k]>> \in Seq(Line) /\ <<Text>> \in Seq(Line)
      BY <1>1
    <2>3. /\ Filling(d, k) \in Seq(Line) /\ Len(Filling(d, k)) = 2
          /\ Filling(d, k)[1] = d[k] /\ Filling(d, k)[2] = Text
      BY <2>1, <2>2, ConcatProperties
    <2> HIDE DEF Filling
    <2> QED
      BY <1>1, <1>3, <2>3
  <1>4. CASE d[k].kind # "setext" /\ ~(k < Len(d) /\ d[k + 1].kind = "blank")
    <2>1. Filling(d, k) = <<d[k]>> \o <<Blank, Text>>
      BY <1>4 DEF Filling
    <2>2. <<d[k]>> \in Seq(Line) /\ <<Blank, Text>> \in Seq(Line)
      BY <1>1
    <2>3. /\ Filling(d, k) \in Seq(Line) /\ Len(Filling(d, k)) = 3
          /\ Filling(d, k)[1] = d[k] /\ Filling(d, k)[2] = Blank /\ Filling(d, k)[3] = Text
      BY <2>1, <2>2, ConcatProperties
    <2> HIDE DEF Filling
    <2> QED
      BY <1>1, <1>4, <2>3
  <1> QED
    BY <1>2, <1>3, <1>4

(* The lines below the placeholder move down.                              *)
Moved(d, k) ==
  [j \in 1..Len(d) |-> IF j <= k THEN j ELSE j + Len(Filling(d, k)) - 1]

LEMMA FilledIs ==
  ASSUME NEW d \in Seq(Line), NEW k \in 1..Len(d)
  PROVE  LET new == ReplacedLine(d, k, Filling(d, k)) IN
         /\ new \in Seq(Line) /\ Len(new) \in (Len(d) + 1)..(Len(d) + 2)
         /\ ComesFrom(new, d, Moved(d, k), k + 2)
         /\ d[k].kind # "setext" =>
              \A j \in 1..Len(d) : Moved(d, k)[j] \in 1..Len(new) /\ new[Moved(d, k)[j]] = d[j]
         /\ d[k].kind # "setext" =>
              \A i \in Headings(new) : \E j \in Headings(d) : new[i] = d[j]
         /\ d[k].kind # "setext" =>
              \E x \in (k + 1)..(k + 2) :
                /\ x \in 1..Len(new) /\ new[x] = Text
                /\ \A i \in (k + 1)..x : new[i] \in {Text, Blank}
  <1> DEFINE lines == Filling(d, k)
             m == Len(lines)
             n == Len(d)
             new == ReplacedLine(d, k, lines)
             to == Moved(d, k)
  <1>1. /\ lines \in Seq(Line) /\ m \in 2..3
        /\ d[k].kind # "setext" =>
              /\ lines[1] = d[k]
              /\ \A i \in 2..m : lines[i] \in {Text, Blank}
              /\ lines[m] = Text
        /\ d[k].kind = "setext" =>
              /\ m = 3 /\ lines[1] = Text /\ lines[2] = Blank
              /\ lines[3].kind = "setext" /\ lines[3].id = NewId(d)
    BY FillingIs
  <1>2. n \in Nat /\ k \in 1..n
    OBVIOUS
  <1>3. to = [j \in 1..n |-> IF j <= k THEN j ELSE j + m - 1]
    BY DEF Moved
  <1> HIDE DEF lines
  <1>4. /\ new \in Seq(Line) /\ Len(new) = n - 1 + m
        /\ \A i \in 1..(k - 1) : new[i] = d[i]
        /\ \A i \in 1..m : new[k - 1 + i] = lines[i]
        /\ \A i \in (k + 1)..n : new[i + m - 1] = d[i]
    BY <1>1, ReplacedLineIs
  <1> HIDE DEF new, n, m, to
  <1>5. Len(new) \in (n + 1)..(n + 2)
    BY <1>1, <1>2, <1>4
  <1>6. Text.kind \notin HeadingKinds /\ Blank.kind \notin HeadingKinds
    BY DEF Text, Blank, HeadingKinds
  <1>7. ASSUME NEW i \in Headings(new)
         PROVE  \/ \E j \in Headings(d) : i = to[j] /\ new[i] = d[j]
                \/ d[k].kind = "setext" /\ i = k + 2 /\ new[i].id = NewId(d)
    <2>1. i \in 1..(n - 1 + m) /\ new[i].kind \in HeadingKinds
      BY <1>4 DEF Headings
    <2>2. ASSUME NEW j \in 1..n, i = to[j], new[i] = d[j]
          PROVE  \E y \in Headings(d) : i = to[y] /\ new[i] = d[y]
      <3>1. j \in Headings(d)
        BY <2>1, <2>2 DEF Headings, n
      <3> QED
        BY <2>2, <3>1
    <2>3. CASE i < k
      <3>1. i \in 1..n /\ i \in 1..(k - 1) /\ to[i] = i
        BY <1>2, <1>3, <2>1, <2>3
      <3> QED
        BY <1>4, <2>2, <3>1
    <2>4. CASE i >= k /\ i <= k - 1 + m
      <3> DEFINE x == i - k + 1
      <3>1. x \in 1..m /\ k - 1 + x = i
        BY <1>1, <1>2, <2>1, <2>4
      <3> HIDE DEF x
      <3>2. new[i] = lines[x]
        BY <1>4, <3>1
      <3>3. CASE d[k].kind # "setext"
        <4>1. x = 1
          <5>1. x \notin 2..m
            BY <1>1, <1>6, <2>1, <3>2, <3>3
          <5> QED
            BY <1>1, <3>1, <5>1
        <4>2. i = k /\ to[k] = k /\ new[i] = d[k]
          <5>1. i = k /\ to[k] = k
            BY <1>2, <1>3, <3>1, <4>1
          <5> QED
            BY <1>1, <3>2, <3>3, <4>1, <5>1
        <4> QED
          BY <1>2, <2>2, <4>2
      <3>4. CASE d[k].kind = "setext"
        <4>1. x = 3
          <5>1. x # 1 /\ x # 2
            BY <1>1, <1>6, <2>1, <3>2, <3>4
          <5> QED
            BY <1>1, <3>1, <5>1
        <4>2. i = k + 2
          BY <1>2, <3>1, <4>1
        <4>3. new[i].id = NewId(d)
          BY <1>1, <3>2, <3>4, <4>1
        <4> QED
          BY <3>4, <4>2, <4>3
      <3> QED
        BY <3>3, <3>4
    <2>5. CASE i > k - 1 + m
      <3> DEFINE j == i - m + 1
      <3>1. j \in (k + 1)..n /\ j \in 1..n /\ ~(j <= k) /\ j + m - 1 = i
        BY <1>1, <1>2, <2>1, <2>5
      <3> HIDE DEF j
      <3>2. to[j] = i
        BY <1>3, <3>1
      <3>3. new[i] = d[j]
        BY <1>4, <3>1
      <3> QED
        BY <2>2, <3>1, <3>2, <3>3
    <2> QED
      BY <1>1, <1>2, <2>1, <2>3, <2>4, <2>5
  <1>8. /\ ComesFrom(new, d, to, k + 2)
        /\ d[k].kind # "setext" => \A i \in Headings(new) : \E j \in Headings(d) : new[i] = d[j]
    BY <1>7 DEF ComesFrom
  <1>9. ASSUME d[k].kind # "setext", NEW j \in 1..n
        PROVE  to[j] \in 1..Len(new) /\ new[to[j]] = d[j]
    <2>1. CASE j < k
      <3>1. to[j] = j /\ j \in 1..(n - 1 + m) /\ j \in 1..(k - 1)
        BY <1>1, <1>2, <1>3, <2>1
      <3> QED
        BY <1>4, <3>1
    <2>2. CASE j = k
      <3>1. to[j] = k /\ k \in 1..(n - 1 + m) /\ 1 \in 1..m /\ k - 1 + 1 = k
        BY <1>1, <1>2, <1>3, <2>2
      <3>2. new[k - 1 + 1] = lines[1]
        BY <1>4, <3>1
      <3> QED
        BY <1>1, <1>4, <1>9, <2>2, <3>1, <3>2
    <2>3. CASE j > k
      <3>1. to[j] = j + m - 1 /\ j + m - 1 \in 1..(n - 1 + m) /\ j \in (k + 1)..n
        BY <1>1, <1>2, <1>3, <2>3
      <3> QED
        BY <1>4, <3>1
    <2> QED
      BY <1>2, <2>1, <2>2, <2>3
  <1>10. ASSUME d[k].kind # "setext"
        PROVE  \E x \in (k + 1)..(k + 2) :
                 /\ x \in 1..Len(new) /\ new[x] = Text
                 /\ \A i \in (k + 1)..x : new[i] \in {Text, Blank}
    <2> DEFINE x == k - 1 + m
    <2>1. x \in (k + 1)..(k + 2) /\ x \in 1..(n - 1 + m) /\ m \in 1..m
      BY <1>1, <1>2
    <2>2. new[x] = Text
      BY <1>1, <1>4, <1>10, <2>1
    <2>3. \A i \in (k + 1)..x : new[i] \in {Text, Blank}
      <3> TAKE i \in (k + 1)..x
      <3> DEFINE y == i - k + 1
      <3>1. y \in 2..m /\ y \in 1..m /\ k - 1 + y = i
        BY <1>1, <1>2
      <3> HIDE DEF y
      <3>2. new[i] = lines[y]
        BY <1>4, <3>1
      <3> QED
        BY <1>1, <1>10, <3>1, <3>2
    <2> HIDE DEF x
    <2> QED
      BY <1>4, <2>1, <2>2, <2>3
  <1> QED
    BY <1>4, <1>5, <1>8, <1>9, <1>10 DEF new, lines, to, n

-----------------------------------------------------------------------------
(* Proposals, and what they are compiled to.                               *)
IsFix(p) ==
  /\ p.kind \in {"h1", "level", "body", "rename"}
  /\ p.offset \in Nat /\ p.level \in 0..6
  /\ p.kind = "h1" => p.name = <<PathTitle>>
  /\ p.kind = "level" => p.level \in 1..6
  /\ p.kind = "rename" => p.name \in Name

LEMMA StartIs ==
  ASSUME NEW d \in Seq(Line), NEW h \in Headings(d)
  PROVE  LineOf(d, h) \in 1..Len(d) /\ Start(d, h) \in Nat
  <1>1. h \in 1..Len(d) /\ Len(d) \in Nat
    BY DEF Headings
  <1>2. LineOf(d, h) \in 1..Len(d)
    BY <1>1 DEF LineOf
  <1>3. LineOf(d, h) \in 1..(Len(d) + 1)
    BY <1>1, <1>2
  <1>4. \A i \in 1..(Len(d) + 1) : Offset(d)[i] \in Nat
    BY OffsetsGrow
  <1> QED
    BY <1>2, <1>3, <1>4 DEF Start

LEMMA OccurrenceIs ==
  ASSUME NEW d \in Seq(Line), NEW h \in Headings(d)
  PROVE  Occurrence(d, h) \in Nat
  <1> DEFINE S == {j \in Headings(d) : j <= h /\ d[j].name = d[h].name}
  <1>1. IsFiniteSet(1..Len(d))
    BY FS_Interval
  <1>2. S \in SUBSET (1..Len(d))
    BY DEF Headings
  <1> HIDE DEF S
  <1>3. Cardinality(S) \in Nat
    BY <1>1, <1>2, FS_Subset, FS_CardinalityType
  <1> QED
    BY <1>3 DEF Occurrence, S

LEMMA LongerName ==
  ASSUME NEW name \in Name, NEW k \in Nat
  PROVE  Append(name, k) \in Name
  <1>1. name \in Seq(Part) /\ k \in Part
    BY DEF Name, Part
  <1>2. Append(name, k) \in Seq(Part) /\ Len(Append(name, k)) = Len(name) + 1 /\ Len(name) \in Nat
    BY <1>1, AppendProperties, LenProperties
  <1> QED
    BY <1>2 DEF Name

LEMMA SuggestionsAreFixes ==
  ASSUME NEW d \in Seq(Line), NEW p \in Suggestions(d)
  PROVE  IsFix(p)
  <1>1. CASE p \in EnsureH1s(d)
    <2>1. p = Proposal("h1", 0, 1, <<PathTitle>>, NewId(d))
      BY <1>1 DEF EnsureH1s
    <2> QED
      BY <2>1 DEF Proposal, IsFix
  <1>2. CASE p \in SetLevels(d)
    <2>1. PICK h \in Jumps(d) : p = Proposal("level", Start(d, h), d[Parent(d, h)].level + 1, <<>>, d[h].id)
      BY <1>2 DEF SetLevels
    <2>2. /\ h \in Headings(d) /\ \E j \in Headings(d) : j < h
          /\ d[h].level > d[Parent(d, h)].level + 1
      BY DEF Jumps
    <2>3. d[h].level \in 1..6 /\ d[Parent(d, h)].level \in 1..6
      BY <2>2, ParentIs, HeadingsAre
    <2>4. d[Parent(d, h)].level + 1 \in 1..6
      BY <2>2, <2>3
    <2>5. Start(d, h) \in Nat
      BY <2>2, StartIs
    <2> QED
      BY <2>1, <2>4, <2>5 DEF Proposal, IsFix
  <1>3. CASE p \in InsertBodies(d)
    <2>1. PICK h \in Headings(d) : p = Proposal("body", Start(d, h), 0, <<>>, d[h].id)
      BY <1>3 DEF InsertBodies
    <2>2. Start(d, h) \in Nat
      BY StartIs
    <2> QED
      BY <2>1, <2>2 DEF Proposal, IsFix
  <1>4. CASE p \in Renames(d)
    <2>1. PICK h \in Headings(d) :
            p = Proposal("rename", Start(d, h), 0, Append(d[h].name, Occurrence(d, h)), d[h].id)
      BY <1>4 DEF Renames
    <2>2. Start(d, h) \in Nat
      BY StartIs
    <2>3. Append(d[h].name, Occurrence(d, h)) \in Name
      BY HeadingsAre, OccurrenceIs, LongerName
    <2> QED
      BY <2>1, <2>2, <2>3 DEF Proposal, IsFix
  <1> QED
    BY <1>1, <1>2, <1>3, <1>4 DEF Suggestions

LEMMA HeadingAtIs ==
  ASSUME NEW d \in Seq(Line), NEW offset, NEW h \in HeadingAt(d, offset)
  PROVE  h \in Headings(d) /\ Start(d, h) = offset
  <1> DEFINE found == {x \in Headings(d) : Start(d, x) = offset}
  <1>1. found # {} /\ h = Least(found)
    BY DEF HeadingAt
  <1>2. found \in SUBSET Nat
    BY HeadingsAre
  <1>3. h \in found
    <2> HIDE DEF found
    <2> QED
      BY <1>1, <1>2, LeastIs
  <1> QED
    BY <1>3

(* An operation makes documents of documents, wherever it ends up.         *)
LEMMA SameHeadingsStay ==
  ASSUME NEW d, Document(d), Len(d) <= MaxLines, NEW new \in Seq(Line), Len(new) = Len(d),
         Headings(new) = Headings(d), \A i \in Headings(d) : new[i].id = d[i].id
  PROVE  Document(new)
  <1> DEFINE to == [j \in Headings(d) |-> j]
  <1>1. ComesFrom(new, d, to, 0)
    BY DEF ComesFrom
  <1>2. Len(new) <= MaxLines + 2
    BY DEF Document
  <1> HIDE DEF to
  <1> QED
    BY <1>1, <1>2, DocumentsStay

LEMMA CompiledIsDocument ==
  ASSUME NEW d, Document(d), Len(d) < MaxLines, NEW p, IsFix(p), NEW new \in Compiled(d, p)
  PROVE  Document(new)
  <1>1. d \in Seq(Line) /\ Len(d) \in Nat /\ Len(d) <= MaxLines /\ MaxLines \in Nat
    BY BoundsAssumption DEF Document
  <1>2. CASE p.kind = "h1"
    <2> DEFINE a == Atx(1, p.name, NewId(d))
               to == [j \in Headings(d) |-> j + 2]
    <2>1. new = <<a, Blank>> \o d
      BY <1>2 DEF Compiled, EnsuredH1
    <2>2. p.name \in Name /\ NewId(d) \in Nat
      <3>1. <<PathTitle>> \in Name
        BY DEF Name, Part
      <3> QED
        BY <1>1, <1>2, <3>1, NewIdIsNew DEF IsFix
    <2>3. a \in Line /\ a.id = NewId(d) /\ Blank \in Line
      BY <2>2, NewHeadings DEF Line
    <2> HIDE DEF a
    <2>4. /\ new \in Seq(Line) /\ Len(new) = Len(d) + 2
          /\ new[1] = a /\ new[2] = Blank
          /\ \A i \in 1..Len(d) : new[i + 2] = d[i]
      BY <1>1, <2>1, <2>3, PrependLines
    <2>5. ComesFrom(new, d, to, 1)
      <3> SUFFICES ASSUME NEW i \in Headings(new)
                   PROVE  \/ \E j \in Headings(d) : i = to[j] /\ new[i].id = d[j].id
                          \/ i = 1 /\ new[i].id = NewId(d)
        BY DEF ComesFrom
      <3>1. i \in 1..(Len(d) + 2) /\ new[i].kind \in HeadingKinds
        BY <2>4 DEF Headings
      <3>2. i # 2
        BY <2>4, <3>1 DEF Blank, HeadingKinds
      <3>3. CASE i > 2
        <4> DEFINE j == i - 2
        <4>1. j \in 1..Len(d) /\ j + 2 = i
          BY <1>1, <3>1, <3>3
        <4> HIDE DEF j
        <4>2. new[i] = d[j]
          BY <2>4, <4>1
        <4>3. j \in Headings(d)
          BY <3>1, <4>1, <4>2 DEF Headings
        <4> QED
          BY <4>1, <4>2, <4>3
      <3> QED
        BY <1>1, <2>3, <2>4, <3>1, <3>2, <3>3
    <2>6. Len(new) <= MaxLines + 2
      BY <1>1, <2>4
    <2> HIDE DEF to
    <2> QED
      BY <1>1, <2>4, <2>5, <2>6, DocumentsStay
  <1>3. CASE p.kind = "level"
    <2>1. PICK h \in HeadingAt(d, p.offset) :
            d[LineOf(d, h)].kind = "atx" /\ new = Relevelled(d, LineOf(d, h), p.level)
      BY <1>3 DEF Compiled, LeveledLine, Relevelled
    <2>2. LineOf(d, h) \in Headings(d)
      BY <1>1, <2>1, HeadingAtIs, StartIs DEF Headings, HeadingKinds
    <2>3. p.level \in 1..6
      BY <1>3 DEF IsFix
    <2>4. /\ new \in Seq(Line) /\ Len(new) = Len(d) /\ Headings(new) = Headings(d)
          /\ \A i \in Headings(d) : new[i].id = d[i].id
      <3>1. OneChanged(new, d, LineOf(d, h))
        BY <1>1, <2>1, <2>2, <2>3, RelevelledIs
      <3> QED
        BY <3>1 DEF OneChanged
    <2> QED
      BY <1>1, <2>4, SameHeadingsStay
  <1>4. CASE p.kind = "rename"
    <2>1. PICK h \in HeadingAt(d, p.offset) :
            d[LineOf(d, h)].kind = "atx" /\ new = Retitled(d, LineOf(d, h), p.name)
      BY <1>4 DEF Compiled, RenamedLine, Retitled
    <2>2. LineOf(d, h) \in Headings(d)
      BY <1>1, <2>1, HeadingAtIs, StartIs DEF Headings, HeadingKinds
    <2>3. p.name \in Name
      BY <1>4 DEF IsFix
    <2>4. /\ new \in Seq(Line) /\ Len(new) = Len(d) /\ Headings(new) = Headings(d)
          /\ \A i \in Headings(d) : new[i].id = d[i].id
      <3>1. OneChanged(new, d, LineOf(d, h))
        BY <1>1, <2>1, <2>2, <2>3, RetitledIs
      <3> QED
        BY <3>1 DEF OneChanged
    <2> QED
      BY <1>1, <2>4, SameHeadingsStay
  <1>5. CASE p.kind = "body"
    <2>1. PICK h \in HeadingAt(d, p.offset) :
            new = ReplacedLine(d, LineOf(d, h), Filling(d, LineOf(d, h)))
      BY <1>5, FilledSectionIs DEF Compiled
    <2> DEFINE k == LineOf(d, h)
    <2>2. k \in 1..Len(d)
      BY <1>1, HeadingAtIs, StartIs
    <2> HIDE DEF k
    <2>3. /\ new \in Seq(Line) /\ Len(new) \in (Len(d) + 1)..(Len(d) + 2)
          /\ ComesFrom(new, d, Moved(d, k), k + 2)
      BY <1>1, <2>1, <2>2, FilledIs DEF k
    <2>4. Len(new) <= MaxLines + 2
      BY <1>1, <2>3
    <2> QED
      BY <1>1, <2>3, <2>4, DocumentsStay
  <1> QED
    BY <1>2, <1>3, <1>4, <1>5 DEF IsFix

-----------------------------------------------------------------------------
(* The inductive invariant.                                                *)
IInv ==
  /\ Document(doc)
  /\ pending = NoDoc \/ Document(pending)
  /\ base = NoDoc \/ Document(base)
  /\ \A p \in proposals : IsFix(p)
  /\ proposals \subseteq Suggestions(base)
  /\ applied \in 0..MaxBatch /\ outside \in 0..MaxOutside

LEMMA InitialLines ==
  ASSUME NEW l \in InitialLine
  PROVE  l \in Line /\ (l.kind \in HeadingKinds => \A k \in Nat : [l EXCEPT !.id = k] \in Heading)
  <1>1. CASE l \in {Text, Blank}
    BY <1>1 DEF Line, Text, Blank, HeadingKinds
  <1>2. CASE IsHeading(l)
    <2>1. /\ l.kind \in HeadingKinds /\ l.level \in 1..6 /\ l.id \in Nat
          /\ l = [kind |-> l.kind, level |-> l.level, name |-> l.name, id |-> l.id]
          /\ Len(l.name) \in Nat \ {0} /\ l.name = [i \in 1..Len(l.name) |-> l.name[i]]
      BY <1>2 DEF IsHeading
    <2> DEFINE name == l.name
               n == Len(name)
    <2>2. \A i \in 1..n : name[i] \in Part
      <3> TAKE i \in 1..n
      <3> DEFINE Parts(m) == {m.name[k] : k \in 1..Len(m.name)}
                 lines == {m \in InitialLine : m.kind \in HeadingKinds}
      <3>1. l \in lines /\ name[i] \in Parts(l)
        BY <2>1
      <3>2. Part = {PathTitle, "empty heading", "TBD"} \cup Nat \cup UNION {Parts(m) : m \in lines}
        BY DEF Part
      <3> HIDE DEF lines, Parts, name, n
      <3> QED
        BY <3>1, <3>2
    <2>3. name \in [1..n -> Part]
      <3>1. name = [i \in 1..n |-> name[i]]
        BY <2>1
      <3> HIDE DEF name, n
      <3> QED
        BY <2>2, <3>1
    <2>4. name \in Seq(Part)
      <3>1. n \in Nat
        BY <2>1
      <3> HIDE DEF name, n
      <3> QED
        BY <2>3, <3>1, SeqDef
    <2>5. l.name \in Name
      BY <2>1, <2>4 DEF Name
    <2>6. l \in Heading
      BY <2>1, <2>5 DEF Heading
    <2> QED
      BY <2>6 DEF Line, Heading
  <1> QED
    BY <1>1, <1>2, LineAssumption

LEMMA ListIsSequence ==
  ASSUME NEW S, NEW n \in Nat, NEW f \in [1..n -> S]
  PROVE  f \in Seq(S) /\ Len(f) = n
  <1>1. f \in Seq(S)
    BY SeqDef
  <1>2. Len(f) \in Nat /\ DOMAIN f = 1..Len(f) /\ DOMAIN f = 1..n
    BY <1>1, LenProperties
  <1> QED
    BY <1>1, <1>2

LEMMA InitialDocsAreDocuments ==
  ASSUME NEW d \in InitialDocs
  PROVE  Document(d)
  <1>1. PICK n \in 1..MaxInitial : \E e \in [1..n -> InitialLine] : d = WithIds(e)
    BY DEF InitialDocs
  <1>a. PICK e \in [1..n -> InitialLine] : d = WithIds(e)
    BY <1>1
  <1>2. n \in Nat /\ n >= 1 /\ n <= MaxLines /\ MaxLines \in Nat
    BY BoundsAssumption
  <1>3. Len(e) = n
    BY <1>2, ListIsSequence
  <1>4. d = [k \in 1..n |-> IF e[k].kind \in HeadingKinds THEN [e[k] EXCEPT !.id = k] ELSE e[k]]
    BY <1>a, <1>3 DEF WithIds
  <1>5. ASSUME NEW k \in 1..n
        PROVE  /\ d[k] \in Line
               /\ d[k].kind \in HeadingKinds => d[k].id = k
    <2>1. e[k] \in InitialLine /\ k \in Nat
      OBVIOUS
    <2>2. CASE e[k].kind \in HeadingKinds
      <3>1. d[k] = [e[k] EXCEPT !.id = k]
        BY <1>4, <2>2
      <3>2. e[k] \in Heading /\ d[k] \in Heading
        BY <2>1, <2>2, <3>1, InitialLines, LineKinds
      <3> QED
        BY <3>1, <3>2 DEF Line, Heading
    <2>3. CASE e[k].kind \notin HeadingKinds
      <3>1. d[k] = e[k]
        BY <1>4, <2>3
      <3> QED
        BY <2>1, <2>3, <3>1, InitialLines
    <2> QED
      BY <2>2, <2>3
  <1>6. d \in Seq(Line) /\ Len(d) = n
    <2>1. d \in [1..n -> Line]
      BY <1>4, <1>5
    <2> QED
      BY <1>2, <2>1, ListIsSequence
  <1>7. \A h \in Headings(d) : h \in 1..n /\ d[h].id = h
    BY <1>5, <1>6 DEF Headings
  <1> QED
    BY <1>2, <1>6, <1>7 DEF Document, DistinctIds

LEMMA InitOK == Init => IInv
  <1> SUFFICES ASSUME Init
               PROVE  IInv
    OBVIOUS
  <1>1. Document(doc)
    BY InitialDocsAreDocuments DEF Init
  <1> QED
    BY <1>1, BoundsAssumption DEF Init, IInv

(* What other programs make of a document.                                 *)
LEMMA ShorterDocument ==
  ASSUME NEW d, Document(d), Len(d) > 1, Len(d) <= MaxLines
  PROVE  Document(Tail(d))
  <1> DEFINE new == Tail(d)
             to == [j \in Headings(d) |-> j - 1]
  <1>1. d \in Seq(Line) /\ d # <<>> /\ Len(d) \in Nat /\ MaxLines \in Nat
    BY BoundsAssumption DEF Document
  <1>2. /\ new \in Seq(Line) /\ Len(new) = Len(d) - 1
        /\ \A i \in 1..Len(new) : new[i] = d[i + 1]
    BY <1>1, HeadTailProperties
  <1> HIDE DEF new
  <1>3. ComesFrom(new, d, to, 0)
    <2> SUFFICES ASSUME NEW i \in Headings(new)
                 PROVE  \E j \in Headings(d) : i = to[j] /\ new[i].id = d[j].id
      BY DEF ComesFrom
    <2>1. i \in 1..Len(new) /\ new[i].kind \in HeadingKinds
      BY DEF Headings
    <2> DEFINE j == i + 1
    <2>2. j \in 1..Len(d) /\ j - 1 = i /\ new[i] = d[j]
      BY <1>1, <1>2, <2>1
    <2> HIDE DEF j
    <2>3. j \in Headings(d)
      BY <2>1, <2>2 DEF Headings
    <2> QED
      BY <2>2, <2>3
  <1>4. Len(new) <= MaxLines + 2
    BY <1>1, <1>2
  <1> HIDE DEF to
  <1> QED
    BY <1>2, <1>3, <1>4, DocumentsStay DEF new

LEMMA LongerDocument ==
  ASSUME NEW d, Document(d), Len(d) < MaxLines
  PROVE  Document(<<Text, Blank>> \o d)
  <1> DEFINE new == <<Text, Blank>> \o d
             to == [j \in Headings(d) |-> j + 2]
  <1>1. d \in Seq(Line) /\ Len(d) \in Nat /\ MaxLines \in Nat
    BY BoundsAssumption DEF Document
  <1>2. /\ new \in Seq(Line) /\ Len(new) = Len(d) + 2
        /\ new[1] = Text /\ new[2] = Blank
        /\ \A i \in 1..Len(d) : new[i + 2] = d[i]
    BY <1>1, PrependLines DEF Line
  <1> HIDE DEF new
  <1>3. ComesFrom(new, d, to, 0)
    <2> SUFFICES ASSUME NEW i \in Headings(new)
                 PROVE  \E j \in Headings(d) : i = to[j] /\ new[i].id = d[j].id
      BY DEF ComesFrom
    <2>1. i \in 1..(Len(d) + 2) /\ new[i].kind \in HeadingKinds
      BY <1>2 DEF Headings
    <2>2. i # 1 /\ i # 2
      BY <1>2, <2>1 DEF Text, Blank, HeadingKinds
    <2> DEFINE j == i - 2
    <2>3. j \in 1..Len(d) /\ j + 2 = i
      BY <1>1, <2>1, <2>2
    <2> HIDE DEF j
    <2>4. new[i] = d[j]
      BY <1>2, <2>3
    <2>5. j \in Headings(d)
      BY <2>1, <2>3, <2>4 DEF Headings
    <2> QED
      BY <2>3, <2>4, <2>5
  <1>4. Len(new) <= MaxLines + 2 /\ Len(d) <= MaxLines
    BY <1>1, <1>2
  <1> HIDE DEF to
  <1> QED
    BY <1>2, <1>3, <1>4, DocumentsStay DEF new

LEMMA IInvStep == IInv /\ [Next]_vars => IInv'
  <1> SUFFICES ASSUME IInv, [Next]_vars
               PROVE  IInv'
    OBVIOUS
  <1>1. /\ Document(doc) /\ (pending = NoDoc \/ Document(pending)) /\ (base = NoDoc \/ Document(base))
        /\ \A p \in proposals : IsFix(p)
        /\ proposals \subseteq Suggestions(base)
        /\ applied \in 0..MaxBatch /\ outside \in 0..MaxOutside
    BY DEF IInv
  <1>2. doc \in Seq(Line)
    BY <1>1 DEF Document
  <1>3. CASE Suggest
    <2>1. /\ proposals' = Suggestions(doc) /\ base' = doc
          /\ UNCHANGED <<doc, links, pending, applied, outside>>
      BY <1>3 DEF Suggest
    <2>2. \A p \in proposals' : IsFix(p)
      BY <1>2, <2>1, SuggestionsAreFixes
    <2>3. proposals' \subseteq Suggestions(base)'
      BY <2>1 DEF Suggestions, Renames, EnsureH1s, SetLevels, InsertBodies
    <2> QED
      BY <1>1, <2>1, <2>2, <2>3 DEF IInv
  <1>4. ASSUME NEW p \in proposals, Apply(p)
        PROVE  IInv'
    <2>1. /\ applied < MaxBatch /\ proposals' = proposals \ {p}
          /\ UNCHANGED <<doc, links, outside, base>>
      BY <1>4 DEF Apply
    <2>2. proposals' \subseteq Suggestions(base)'
      BY <1>1, <2>1 DEF Suggestions, Renames, EnsureH1s, SetLevels, InsertBodies
    <2>3. CASE UNCHANGED <<pending, applied>>
      BY <1>1, <2>1, <2>2, <2>3 DEF IInv
    <2>4. CASE pending' \in Compiled(View, p) /\ applied' = applied + 1 /\ ~(Len(View) >= MaxLines)
      <3>1. Document(View)
        BY <1>1 DEF View
      <3>2. Len(View) < MaxLines
        <4>1. Len(View) \in Nat /\ MaxLines \in Nat
          BY <3>1, BoundsAssumption DEF Document
        <4> QED
          BY <2>4, <4>1
      <3>3. Document(pending')
        BY <1>1, <2>4, <3>1, <3>2, CompiledIsDocument
      <3>4. applied' \in 0..MaxBatch
        BY <1>1, <2>1, <2>4, BoundsAssumption
      <3> QED
        BY <1>1, <2>1, <2>2, <3>3, <3>4 DEF IInv
    <2> QED
      BY <1>4, <2>3, <2>4 DEF Apply
  <1>5. CASE Publish
    BY <1>1, <1>5, BoundsAssumption DEF Publish, IInv
  <1>6. CASE OutsideEdit
    <2>1. /\ outside < MaxOutside /\ Len(doc) < MaxLines /\ outside' = outside + 1
          /\ UNCHANGED <<links, proposals, pending, applied, base>>
          /\ doc' = <<Text, Blank>> \o doc \/ (Len(doc) > 1 /\ doc' = Tail(doc))
      BY <1>6 DEF OutsideEdit
    <2>2. Len(doc) <= MaxLines
      BY <1>2, <2>1, BoundsAssumption
    <2>3. Document(doc')
      <3>1. Document(<<Text, Blank>> \o doc)
        BY <1>1, <2>1, LongerDocument
      <3>2. Len(doc) > 1 => Document(Tail(doc))
        BY <1>1, <2>2, ShorterDocument
      <3> QED
        BY <2>1, <3>1, <3>2
    <2>4. outside' \in 0..MaxOutside
      BY <1>1, <2>1, BoundsAssumption
    <2>5. proposals' \subseteq Suggestions(base)'
      BY <1>1, <2>1 DEF Suggestions, Renames, EnsureH1s, SetLevels, InsertBodies
    <2> QED
      BY <1>1, <2>1, <2>3, <2>4, <2>5 DEF IInv
  <1>7. CASE UNCHANGED vars
    <2>1. UNCHANGED <<doc, links, proposals, pending, applied, outside, base>>
      BY <1>7 DEF vars
    <2>2. proposals' \subseteq Suggestions(base)'
      BY <1>1, <2>1 DEF Suggestions, Renames, EnsureH1s, SetLevels, InsertBodies
    <2> QED
      BY <1>1, <2>1, <2>2 DEF IInv
  <1> QED
    BY <1>3, <1>4, <1>5, <1>6, <1>7 DEF Next, Loop

LEMMA DocumentIsDoc ==
  ASSUME NEW d, Document(d)
  PROVE  IsDoc(d)
  <1>1. d \in Seq(Line) /\ Len(d) \in Nat /\ Len(d) <= MaxLines + 2 /\ MaxLines \in Nat
    BY BoundsAssumption DEF Document
  <1>2. ASSUME NEW k \in 1..Len(d)
        PROVE  IsLine(d[k])
    <2>1. d[k] \in Line
      BY <1>1
    <2>2. CASE d[k].kind \in HeadingKinds
      <3>1. k \in Headings(d)
        BY <2>2 DEF Headings
      <3>2. /\ d[k].kind \in HeadingKinds /\ d[k].level \in 1..6 /\ d[k].name \in Name
            /\ d[k].id \in Nat /\ d[k].id <= MaxLines
        BY <1>1, <3>1, HeadingsAre DEF Document
      <3>3. d[k].id \in 0..MaxLines /\ Len(d[k].name) > 0
        BY <1>1, <3>2 DEF Name
      <3> QED
        BY <3>2, <3>3 DEF IsLine
    <2>3. CASE d[k].kind \notin HeadingKinds
      BY <2>1, <2>3, LineKinds DEF IsLine
    <2> QED
      BY <2>2, <2>3
  <1> QED
    BY <1>1, <1>2 DEF IsDoc

(* Whatever is proposed, compiled, published and edited from outside, a    *)
(* document stays one, with levels between 1 and 6 and texts that are not  *)
(* empty, and proposals are about offsets a document can have.             *)
THEOREM TypeCorrect == Spec => []TypeOK
  <1>1. IInv => TypeOK
    BY DocumentIsDoc DEF IInv, TypeOK, IsFix
  <1> QED
    BY <1>1, InitOK, IInvStep, PTL DEF Spec

-----------------------------------------------------------------------------
(* A fix of an unchanged document.                                         *)
LEMMA FreshFixIs ==
  ASSUME IInv, [Next]_vars, FreshFix
  PROVE  /\ last' \in Suggestions(doc) /\ pending' \in Compiled(doc, last')
         /\ Document(doc) /\ Document(pending') /\ IsFix(last')
         /\ base = doc /\ UNCHANGED links
  <1>1. last' # NoFix /\ pending = NoDoc /\ pending' # NoDoc /\ base = doc
    BY DEF FreshFix
  <1>2. PICK p \in proposals : Apply(p)
    BY <1>1 DEF Next, Loop, Suggest, Publish, OutsideEdit, vars
  <1>3. pending' \in Compiled(View, p) /\ last' = p /\ UNCHANGED links
    BY <1>1, <1>2 DEF Apply
  <1>4. View = doc
    BY <1>1 DEF View
  <1>5. Document(doc) /\ Document(pending') /\ IsFix(p) /\ p \in Suggestions(doc)
    BY <1>1, IInvStep DEF IInv
  <1> QED
    BY <1>1, <1>3, <1>4, <1>5

(* A link to a heading that a rename is about would be one of the two      *)
(* anchors the guard looks for, since ids are distinct.                    *)
LEMMA RenameIsUnlinked ==
  ASSUME NEW d, Document(d), NEW p \in Suggestions(d), p.kind = "rename", NEW a \in links
  PROVE  p.about \notin LinkTarget(d, a)
  <1>1. p \in Renames(d)
    BY DEF Suggestions, EnsureH1s, SetLevels, InsertBodies, Proposal
  <1>2. PICK h \in Headings(d) : p.about = d[h].id /\ Qualified(d, h) \notin links
    BY <1>1 DEF Renames, Proposal
  <1> SUFFICES ASSUME p.about \in LinkTarget(d, a)
               PROVE  FALSE
    OBVIOUS
  <1> DEFINE found == {x \in Headings(d) : Qualified(d, x) = a}
  <1>3. found # {} /\ p.about = d[Least(found)].id
    BY DEF LinkTarget
  <1>4. found \in SUBSET Nat
    BY HeadingsAre DEF Document
  <1>5. Least(found) \in found
    <2> HIDE DEF found
    <2> QED
      BY <1>3, <1>4, LeastIs
  <1>6. Least(found) = h
    BY <1>2, <1>3, <1>5 DEF Document, DistinctIds
  <1> QED
    BY <1>2, <1>5, <1>6

(* Without empty headings, an offset is where one heading starts.          *)
LEMMA HeadingFound ==
  ASSUME NEW d \in Seq(Line), ~HasBare(d), NEW h \in Headings(d)
  PROVE  LineOf(d, h) = h /\ Start(d, h) = Offset(d)[h] /\ HeadingAt(d, Start(d, h)) = {h}
  <1>1. \A x \in Headings(d) : LineOf(d, x) = x /\ Start(d, x) = Offset(d)[x]
    BY DEF HasBare, LineOf, Start
  <1>2. \A x \in Headings(d) : Start(d, x) = Start(d, h) => x = h
    <2> TAKE x \in Headings(d)
    <2> HAVE Start(d, x) = Start(d, h)
    <2> DEFINE a == Offset(d)[x]
               b == Offset(d)[h]
    <2>1. x \in 1..(Len(d) + 1) /\ h \in 1..(Len(d) + 1) /\ x \in Nat /\ h \in Nat
      BY HeadingsAre
    <2>2. (x < h => a < b) /\ (h < x => b < a) /\ a \in Nat /\ b \in Nat
      BY <2>1, OffsetsGrow
    <2>3. a = b
      BY <1>1
    <2> HIDE DEF a, b
    <2> QED
      BY <2>1, <2>2, <2>3
  <1>3. {x \in Headings(d) : Start(d, x) = Start(d, h)} = {h}
    BY <1>2
  <1>4. Least({h}) = h
    <2>1. {h} \in SUBSET Nat /\ {h} # {}
      BY HeadingsAre
    <2>2. Least({h}) \in {h}
      BY <2>1, LeastIs
    <2> QED
      BY <2>2
  <1> QED
    BY <1>1, <1>3, <1>4 DEF HeadingAt

(* A section ends where a heading starts, or the document ends.            *)
LEMMA SectionEndIs ==
  ASSUME NEW d \in Seq(Line), ~HasBare(d), NEW h \in Headings(d)
  PROVE  \E e \in (h + 1)..(Len(d) + 1) :
           /\ SectionEnd(d, h) = Offset(d)[e]
           /\ e = Len(d) + 1 \/ e \in Headings(d)
  <1> DEFINE closing == {j \in Headings(d) : j > h /\ d[j].level <= d[h].level}
  <1>1. h \in 1..Len(d) /\ Len(d) \in Nat
    BY HeadingsAre
  <1>2. CASE closing = {}
    <2>1. SectionEnd(d, h) = Offset(d)[Len(d) + 1]
      BY <1>2 DEF SectionEnd
    <2>2. Len(d) + 1 \in (h + 1)..(Len(d) + 1)
      BY <1>1
    <2> QED
      BY <2>1, <2>2
  <1>3. CASE closing # {}
    <2> DEFINE e == Least(closing)
    <2>1. SectionEnd(d, h) = Start(d, e)
      BY <1>3 DEF SectionEnd
    <2>2. closing \in SUBSET Nat
      BY HeadingsAre
    <2>3. e \in closing
      <3> HIDE DEF closing
      <3> QED
        BY <1>3, <2>2, LeastIs
    <2>4. e \in Headings(d) /\ e > h
      BY <2>3
    <2> HIDE DEF e
    <2>5. e \in 1..Len(d) /\ Start(d, e) = Offset(d)[e]
      BY <2>4, HeadingsAre, HeadingFound
    <2>6. e \in (h + 1)..(Len(d) + 1)
      BY <1>1, <2>4, <2>5
    <2> QED
      BY <2>1, <2>4, <2>5, <2>6
  <1> QED
    BY <1>2, <1>3

(* A setext heading's underline lies in its own section.                   *)
LEMMA EmptyIsAtx ==
  ASSUME NEW d \in Seq(Line), ~HasBare(d), NEW h \in Headings(d), EmptySection(d, h)
  PROVE  d[h].kind = "atx"
  <1>1. h \in 1..Len(d) /\ Len(d) \in Nat /\ d[h] \in Line /\ d[h].kind \in HeadingKinds
    BY HeadingsAre
  <1>2. d[h].kind # "bare"
    BY DEF HasBare
  <1>3. d[h].kind # "setext"
    <2> SUFFICES ASSUME d[h].kind = "setext"
                 PROVE  FALSE
      OBVIOUS
    <2> DEFINE at == Offset(d)
               a == at[h]
               b == at[h + 1]
               from == End(d, h)
               to == SectionEnd(d, h)
               title == TitleSize(d[h])
    <2>1. a >= to \/ b <= from
      BY <1>1 DEF EmptySection
    <2>2. PICK e \in (h + 1)..(Len(d) + 1) : to = at[e]
      BY SectionEndIs
    <2>3. h \in 1..(Len(d) + 1) /\ e \in 1..(Len(d) + 1) /\ h < e
      BY <1>1
    <2>4. a < to /\ a \in Nat /\ to \in Nat
      BY <2>2, <2>3, OffsetsGrow
    <2>5. b = a + Size(d[h]) /\ from = a + title
      BY <1>1, OffsetsGrow, HeadingFound DEF End
    <2>6. title \in Nat /\ Size(d[h]) \in Nat /\ title < Size(d[h])
      BY <1>1, LineSizes
    <2> DEFINE size == Size(d[h])
    <2> HIDE DEF a, b, from, to, title, size
    <2>7. b > from /\ ~(a >= to)
      BY <2>4, <2>5, <2>6 DEF size
    <2>8. b \in Nat /\ from \in Nat
      BY <2>4, <2>5, <2>6 DEF size
    <2> QED
      BY <2>1, <2>4, <2>7, <2>8
  <1> QED
    BY <1>1, <1>2, <1>3 DEF HeadingKinds

(* The headings not about are as they were, wherever they have moved to.   *)
OthersKept(d, new, about) ==
  \A id \in HeadingIds(d) \ {about} :
    LET was == d[WithId(d, id)]
        is == new[WithId(new, id)]
    IN id \in HeadingIds(new) /\ is.level = was.level /\ is.name = was.name

LEMMA OthersAreKept ==
  ASSUME NEW d, DistinctIds(d), NEW new, DistinctIds(new), NEW about, NEW to,
         \A j \in Headings(d) : d[j].id # about =>
           /\ to[j] \in Headings(new) /\ new[to[j]].id = d[j].id
           /\ new[to[j]].level = d[j].level /\ new[to[j]].name = d[j].name
  PROVE  OthersKept(d, new, about)
  <1> SUFFICES ASSUME NEW id \in HeadingIds(d), id # about
               PROVE  /\ id \in HeadingIds(new)
                      /\ new[WithId(new, id)].level = d[WithId(d, id)].level
                      /\ new[WithId(new, id)].name = d[WithId(d, id)].name
    BY DEF OthersKept
  <1>1. PICK j \in Headings(d) : d[j].id = id
    BY DEF HeadingIds
  <1>2. WithId(d, id) = j
    BY <1>1, WithIdIs
  <1>3. to[j] \in Headings(new) /\ new[to[j]].id = id
    BY <1>1
  <1>4. WithId(new, id) = to[j]
    BY <1>3, WithIdIs
  <1>5. id \in HeadingIds(new)
    BY <1>3 DEF HeadingIds
  <1> QED
    BY <1>1, <1>2, <1>4, <1>5

Mends(d, new, p) == Fixed(new, p) /\ OthersKept(d, new, p.about)

(* The title goes on top; nothing else has its id.                         *)
LEMMA TitleMends ==
  ASSUME NEW d, Document(d), NEW p \in EnsureH1s(d), NEW new \in EnsuredH1(d, p), Document(new)
  PROVE  Mends(d, new, p)
  <1> DEFINE a == Atx(1, p.name, NewId(d))
             to == [j \in Headings(d) |-> j + 2]
  <1>1. p = Proposal("h1", 0, 1, <<PathTitle>>, NewId(d)) /\ d \in Seq(Line)
    BY DEF EnsureH1s, Document
  <1>2. p.kind = "h1" /\ p.about = NewId(d) /\ p.name = <<PathTitle>>
    BY <1>1 DEF Proposal
  <1>3. new = <<a, Blank>> \o d
    BY DEF EnsuredH1
  <1>4. <<PathTitle>> \in Name
    BY DEF Name, Part
  <1>5. a \in Line /\ a.level = 1 /\ a.kind = "atx" /\ Blank \in Line
    <2>1. NewId(d) \in Nat /\ 1 \in 1..6
      BY <1>1, NewIdIsNew
    <2>2. /\ a \in Heading /\ a.level = 1 /\ a.kind = "atx"
      BY <1>2, <1>4, <2>1, NewHeadings
    <2> QED
      BY <2>2 DEF Line
  <1> HIDE DEF a
  <1>6. /\ new \in Seq(Line) /\ Len(new) = Len(d) + 2 /\ new[1] = a
        /\ \A i \in 1..Len(d) : new[i + 2] = d[i]
    BY <1>1, <1>3, <1>5, PrependLines
  <1>7. 1 \in Headings(new)
    <2>1. Len(d) \in Nat
      BY <1>1
    <2> QED
      BY <1>5, <1>6, <2>1 DEF Headings, HeadingKinds
  <1>8. Fixed(new, p)
    BY <1>2, <1>5, <1>6, <1>7 DEF Fixed, HasH1
  <1>9. ASSUME NEW j \in Headings(d)
        PROVE  to[j] \in Headings(new) /\ new[to[j]] = d[j]
    <2>1. j \in 1..Len(d) /\ Len(d) \in Nat /\ d[j].kind \in HeadingKinds
      BY <1>1, HeadingsAre
    <2>2. j + 2 \in 1..Len(new) /\ new[j + 2] = d[j]
      BY <1>6, <2>1
    <2> QED
      BY <2>1, <2>2 DEF Headings
  <1> HIDE DEF to
  <1>10. OthersKept(d, new, p.about)
    BY <1>9, OthersAreKept DEF Document
  <1> QED
    BY <1>8, <1>10 DEF Mends

(* The heading has the same parent as before, and is one level below it.   *)
LEMMA LevelMends ==
  ASSUME NEW d, Document(d), ~HasBare(d), NEW p \in SetLevels(d), NEW new \in LeveledLine(d, p),
         Document(new)
  PROVE  Mends(d, new, p)
  <1>1. d \in Seq(Line)
    BY DEF Document
  <1>2. PICK h \in Jumps(d) :
          p = Proposal("level", Start(d, h), d[Parent(d, h)].level + 1, <<>>, d[h].id)
    BY DEF SetLevels
  <1>3. /\ p.kind = "level" /\ p.about = d[h].id /\ p.offset = Start(d, h)
        /\ p.level = d[Parent(d, h)].level + 1
    BY <1>2 DEF Proposal
  <1>4. /\ h \in Headings(d) /\ \E j \in Headings(d) : j < h
        /\ d[h].level > d[Parent(d, h)].level + 1
    BY DEF Jumps
  <1>5. Parent(d, h) \in Headings(d) /\ Parent(d, h) < h /\ h \in Nat
    BY <1>1, <1>4, ParentIs, HeadingsAre
  <1>6. p.level \in 1..6
    <2>1. d[h].level \in 1..6 /\ d[Parent(d, h)].level \in 1..6
      BY <1>1, <1>4, <1>5, HeadingsAre
    <2> QED
      BY <1>3, <1>4, <2>1
  <1>7. new = Relevelled(d, h, p.level)
    BY <1>1, <1>3, <1>4, HeadingFound DEF LeveledLine, Relevelled
  <1>8. /\ \A i \in 1..Len(d) : i # h => new[i] = d[i]
        /\ new[h].level = p.level
        /\ Headings(new) = Headings(d)
        /\ \A i \in Headings(d) : new[i].id = d[i].id
    <2>1. OneChanged(new, d, h) /\ new[h].level = p.level
      BY <1>1, <1>4, <1>6, <1>7, RelevelledIs
    <2> QED
      BY <2>1 DEF OneChanged
  <1>9. Parent(new, h) = Parent(d, h)
    BY <1>8 DEF Parent
  <1>10. new[Parent(d, h)] = d[Parent(d, h)]
    <2>1. Parent(d, h) \in 1..Len(d) /\ Parent(d, h) # h
      BY <1>1, <1>5, HeadingsAre
    <2> QED
      BY <1>8, <2>1
  <1>11. h \notin Jumps(new)
    <2> DEFINE above == d[Parent(d, h)].level
    <2>1. above \in 1..6 /\ new[h].level = above + 1 /\ new[Parent(new, h)].level = above
      BY <1>1, <1>3, <1>5, <1>8, <1>9, <1>10, HeadingsAre
    <2> HIDE DEF above
    <2>2. ~(new[h].level > new[Parent(new, h)].level + 1)
      BY <2>1
    <2> QED
      BY <2>2 DEF Jumps
  <1>12. WithId(new, p.about) = h
    BY <1>3, <1>4, <1>8, WithIdIs DEF Document
  <1>13. Fixed(new, p)
    BY <1>3, <1>11, <1>12 DEF Fixed
  <1> DEFINE to == [j \in Headings(d) |-> j]
  <1>14. ASSUME NEW j \in Headings(d), d[j].id # p.about
         PROVE  to[j] \in Headings(new) /\ new[to[j]] = d[j]
    BY <1>1, <1>3, <1>8, <1>14, HeadingsAre
  <1> HIDE DEF to
  <1>15. OthersKept(d, new, p.about)
    BY <1>14, OthersAreKept DEF Document
  <1> QED
    BY <1>13, <1>15 DEF Mends

LEMMA RenameMends ==
  ASSUME NEW d, Document(d), ~HasBare(d), NEW p \in Renames(d), NEW new \in RenamedLine(d, p),
         Document(new), IsFix(p)
  PROVE  Mends(d, new, p)
  <1>1. d \in Seq(Line)
    BY DEF Document
  <1>2. PICK h \in Headings(d) :
          p = Proposal("rename", Start(d, h), 0, Append(d[h].name, Occurrence(d, h)), d[h].id)
    BY DEF Renames
  <1>3. p.kind = "rename" /\ p.about = d[h].id /\ p.offset = Start(d, h)
    BY <1>2 DEF Proposal
  <1>4. p.name \in Name
    BY <1>3 DEF IsFix
  <1>5. new = Retitled(d, h, p.name)
    BY <1>1, <1>3, HeadingFound DEF RenamedLine, Retitled
  <1>6. /\ \A i \in 1..Len(d) : i # h => new[i] = d[i]
        /\ new[h].name = p.name
        /\ Headings(new) = Headings(d)
        /\ \A i \in Headings(d) : new[i].id = d[i].id
    <2>1. OneChanged(new, d, h) /\ new[h].name = p.name
      BY <1>1, <1>4, <1>5, RetitledIs
    <2> QED
      BY <2>1 DEF OneChanged
  <1>7. WithId(new, p.about) = h
    BY <1>3, <1>6, WithIdIs DEF Document
  <1>8. Fixed(new, p)
    BY <1>3, <1>6, <1>7 DEF Fixed
  <1> DEFINE to == [j \in Headings(d) |-> j]
  <1>9. ASSUME NEW j \in Headings(d), d[j].id # p.about
        PROVE  to[j] \in Headings(new) /\ new[to[j]] = d[j]
    BY <1>1, <1>3, <1>6, <1>9, HeadingsAre
  <1> HIDE DEF to
  <1>10. OthersKept(d, new, p.about)
    BY <1>9, OthersAreKept DEF Document
  <1> QED
    BY <1>8, <1>10 DEF Mends

(* The placeholder comes before the next heading, so it lies in the        *)
(* section, whatever the section ends with.                                *)
LEMMA PlaceholderFills ==
  ASSUME NEW d \in Seq(Line), ~HasBare(d), NEW h \in Headings(d), d[h].kind = "atx",
         NEW x \in 1..Len(d), h < x, d[x] = Text, \A i \in (h + 1)..x : i \notin Headings(d)
  PROVE  ~EmptySection(d, h)
  <1> DEFINE at == Offset(d)
             from == End(d, h)
             to == SectionEnd(d, h)
  <1>1. h \in 1..Len(d) /\ Len(d) \in Nat /\ d[h] \in Line
    BY HeadingsAre
  <1>2. PICK e \in (h + 1)..(Len(d) + 1) : to = at[e] /\ (e = Len(d) + 1 \/ e \in Headings(d))
    BY SectionEndIs
  <1>3. e > x
    <2>1. ~(e \in (h + 1)..x)
      BY <1>1, <1>2
    <2> QED
      BY <1>1, <2>1
  <1>4. /\ x \in 1..(Len(d) + 1) /\ e \in 1..(Len(d) + 1) /\ x + 1 \in 1..(Len(d) + 1)
        /\ h + 1 \in 1..(Len(d) + 1) /\ h + 1 < x + 1
    BY <1>1
  <1>5. at[x] < to /\ at[x] \in Nat /\ to \in Nat
    BY <1>2, <1>3, <1>4, OffsetsGrow
  <1>6. from = at[h + 1]
    <2>1. TitleSize(d[h]) = Size(d[h])
      BY <1>1, LineSizes
    <2> QED
      BY <1>1, <2>1, OffsetsGrow, HeadingFound DEF End
  <1>7. from < at[x + 1] /\ from \in Nat /\ at[x + 1] \in Nat
    BY <1>4, <1>6, OffsetsGrow
  <1>8. d[x].kind # "blank"
    BY DEF Text
  <1> SUFFICES ASSUME EmptySection(d, h)
               PROVE  FALSE
    OBVIOUS
  <1>9. at[x] >= to \/ at[x + 1] <= from
    BY <1>8 DEF EmptySection
  <1> DEFINE a == at[x]
             b == at[x + 1]
  <1> HIDE DEF at, from, to
  <1>10. a < to /\ a \in Nat /\ to \in Nat /\ from < b /\ from \in Nat /\ b \in Nat /\ (a >= to \/ b <= from)
    BY <1>5, <1>7, <1>9
  <1> HIDE DEF a, b
  <1> QED
    BY <1>10

LEMMA BodyMends ==
  ASSUME NEW d, Document(d), ~HasBare(d), NEW p \in InsertBodies(d), NEW new \in FilledSection(d, p),
         Document(new)
  PROVE  Mends(d, new, p)
  <1>1. d \in Seq(Line) /\ new \in Seq(Line)
    BY DEF Document
  <1>2. PICK h \in Headings(d) : EmptySection(d, h) /\ p = Proposal("body", Start(d, h), 0, <<>>, d[h].id)
    BY DEF InsertBodies
  <1>3. p.kind = "body" /\ p.about = d[h].id /\ p.offset = Start(d, h)
    BY <1>2 DEF Proposal
  <1>4. d[h].kind = "atx" /\ d[h].kind # "setext"
    BY <1>1, <1>2, EmptyIsAtx
  <1>5. h \in 1..Len(d) /\ h \in Nat /\ Len(d) \in Nat /\ Len(new) \in Nat
    BY <1>1, HeadingsAre
  <1>6. new = ReplacedLine(d, h, Filling(d, h))
    BY <1>1, <1>3, HeadingFound, FilledSectionIs
  <1> DEFINE to == Moved(d, h)
  <1>7. /\ ComesFrom(new, d, to, h + 2)
        /\ \A j \in 1..Len(d) : to[j] \in 1..Len(new) /\ new[to[j]] = d[j]
        /\ \E x \in (h + 1)..(h + 2) :
             /\ x \in 1..Len(new) /\ new[x] = Text
             /\ \A i \in (h + 1)..x : new[i] \in {Text, Blank}
        /\ \A i \in Headings(new) : \E j \in Headings(d) : new[i] = d[j]
    <2> DEFINE r == ReplacedLine(d, h, Filling(d, h))
    <2>1. /\ ComesFrom(r, d, to, h + 2)
          /\ \A j \in 1..Len(d) : to[j] \in 1..Len(r) /\ r[to[j]] = d[j]
          /\ \E x \in (h + 1)..(h + 2) :
               /\ x \in 1..Len(r) /\ r[x] = Text
               /\ \A i \in (h + 1)..x : r[i] \in {Text, Blank}
          /\ \A i \in Headings(r) : \E j \in Headings(d) : r[i] = d[j]
      BY <1>1, <1>4, <1>5, FilledIs, Zenon
    <2> HIDE DEF r, to
    <2>2. new = r
      BY <1>6 DEF r
    <2> QED
      BY <2>1, <2>2
  <1>8. to[h] = h
    BY <1>5 DEF Moved
  <1> HIDE DEF to
  <1>9. ASSUME NEW j \in Headings(d)
        PROVE  to[j] \in Headings(new) /\ new[to[j]] = d[j]
    BY <1>1, <1>7, HeadingsAre DEF Headings
  <1>10. h \in Headings(new) /\ new[h] = d[h]
    BY <1>8, <1>9
  <1>11. WithId(new, p.about) = h
    BY <1>3, <1>10, WithIdIs DEF Document
  <1>12. ~HasBare(new)
    BY <1>7 DEF HasBare
  <1>13. ~EmptySection(new, h)
    <2>1. PICK x \in (h + 1)..(h + 2) :
             /\ x \in 1..Len(new) /\ new[x] = Text
             /\ \A i \in (h + 1)..x : new[i] \in {Text, Blank}
      BY <1>7
    <2>2. \A i \in (h + 1)..x : i \notin Headings(new)
      BY <2>1 DEF Headings, HeadingKinds, Text, Blank
    <2>3. h < x
      BY <1>5
    <2> QED
      BY <1>1, <1>4, <1>10, <1>12, <2>1, <2>2, <2>3, PlaceholderFills
  <1>14. Fixed(new, p)
    BY <1>3, <1>11, <1>13 DEF Fixed
  <1>15. OthersKept(d, new, p.about)
    BY <1>9, OthersAreKept DEF Document
  <1> QED
    BY <1>14, <1>15 DEF Mends

LEMMA FixesMend ==
  ASSUME NEW d, Document(d), ~HasBare(d), NEW p \in Suggestions(d), IsFix(p),
         NEW new \in Compiled(d, p), Document(new)
  PROVE  Mends(d, new, p)
  <1>1. CASE p \in EnsureH1s(d)
    <2>1. p.kind = "h1"
      BY <1>1 DEF EnsureH1s, Proposal
    <2>2. new \in EnsuredH1(d, p)
      BY <2>1 DEF Compiled
    <2> QED
      BY <1>1, <2>2, TitleMends
  <1>2. CASE p \in SetLevels(d)
    <2>1. p.kind = "level"
      BY <1>2 DEF SetLevels, Proposal
    <2>2. new \in LeveledLine(d, p)
      BY <2>1 DEF Compiled
    <2> QED
      BY <1>2, <2>2, LevelMends
  <1>3. CASE p \in InsertBodies(d)
    <2>1. p.kind = "body"
      BY <1>3 DEF InsertBodies, Proposal
    <2>2. new \in FilledSection(d, p)
      BY <2>1 DEF Compiled
    <2> QED
      BY <1>3, <2>2, BodyMends
  <1>4. CASE p \in Renames(d)
    <2>1. p.kind = "rename"
      BY <1>4 DEF Renames, Proposal
    <2>2. new \in RenamedLine(d, p)
      BY <2>1 DEF Compiled
    <2> QED
      BY <1>4, <2>2, RenameMends
  <1> QED
    BY <1>1, <1>2, <1>3, <1>4 DEF Suggestions

(* A proposal knows its heading by a byte offset, and the fix finds it: in *)
(* documents of any length without empty headings, a fix of an unchanged   *)
(* document mends what it was proposed for and keeps all other headings.   *)
THEOREM FreshFixesMend == Spec => FreshFixMendsItsHeading
  <1>1. ASSUME IInv, [Next]_vars, FreshFix, ~HasBare(doc)
        PROVE  Mends(doc, pending', last')
    BY <1>1, FreshFixIs, FixesMend
  <1>2. IInv /\ [Next]_vars =>
          [FreshFix /\ ~HasBare(doc) =>
             /\ Fixed(pending', last')
             /\ \A id \in HeadingIds(doc) \ {last'.about} :
                  LET old == doc[WithId(doc, id)]
                      new == pending'[WithId(pending', id)]
                  IN id \in HeadingIds(pending') /\ new.level = old.level /\ new.name = old.name]_vars
    BY <1>1 DEF Mends, OthersKept
  <1> QED
    BY <1>2, InitOK, IInvStep, PTL DEF Spec, FreshFixMendsItsHeading

-----------------------------------------------------------------------------
(* What links lead to.                                                     *)
LEMMA QualifiedIsAnchor ==
  ASSUME NEW d \in Seq(Line), NEW h \in Headings(d)
  PROVE  HasAnchor(d[h].name, Qualified(d, h))
  <1> DEFINE name == d[h].name
             k == Occurrence(d, h) - 1
             long == Append(name, k)
  <1>1. name \in Seq(Part \cup Int) /\ k \in Part \cup Int
    <2>1. name \in Name /\ Occurrence(d, h) \in Nat
      BY HeadingsAre, OccurrenceIs
    <2>2. name \in Seq(Part)
      BY <2>1 DEF Name
    <2> QED
      BY <2>1, <2>2
  <1>2. Qualified(d, h) \in {name, long}
    BY DEF Qualified
  <1> HIDE DEF name, k
  <1>3. Len(long) = Len(name) + 1 /\ long[Len(name) + 1] = k /\ Len(name) \in Nat
    BY <1>1, AppendProperties, LenProperties
  <1>4. HasAnchor(name, name) /\ HasAnchor(name, long)
    BY <1>3 DEF HasAnchor
  <1> QED
    BY <1>2, <1>4 DEF name

(* The headings of d are headings of new, in their order.                  *)
Carries(to, d, new) ==
  /\ \A j \in Headings(d) : to[j] \in Headings(new) /\ new[to[j]].id = d[j].id
  /\ \A i, j \in Headings(d) : i < j => to[i] < to[j]

(* A heading keeps its number when those above it with its text are        *)
(* carried along and no others have that text: by a bijection.             *)
LEMMA NumbersAreCarried ==
  ASSUME NEW d \in Seq(Line), NEW new \in Seq(Line), NEW to, Carries(to, d, new),
         NEW j \in Headings(d), new[to[j]].name = d[j].name,
         \A x \in Headings(d) : new[to[x]].name = d[j].name <=> d[x].name = d[j].name,
         \A i \in Headings(new) : new[i].name = d[j].name => \E x \in Headings(d) : i = to[x]
  PROVE  Qualified(new, to[j]) = Qualified(d, j)
  <1> DEFINE S == {x \in Headings(d) : x <= j /\ d[x].name = d[j].name}
             T == {i \in Headings(new) : i <= to[j] /\ new[i].name = new[to[j]].name}
             f == [x \in S |-> to[x]]
  <1>1. \A x \in Headings(d) : x \in Nat /\ to[x] \in Nat /\ to[x] \in Headings(new)
    BY HeadingsAre DEF Carries
  <1>2. \A x, y \in Headings(d) : (x <= y <=> to[x] <= to[y]) /\ (to[x] = to[y] => x = y)
    <2> TAKE x, y \in Headings(d)
    <2> DEFINE u == to[x]
               v == to[y]
    <2>1. (x < y => u < v) /\ (y < x => v < u) /\ (x = y => u = v)
      BY DEF Carries
    <2>2. x \in Nat /\ y \in Nat /\ u \in Nat /\ v \in Nat
      BY <1>1
    <2> HIDE DEF u, v
    <2>3. (x <= y <=> u <= v) /\ (u = v => x = y)
      BY <2>1, <2>2
    <2> QED
      BY <2>3 DEF u, v
  <1>3. IsFiniteSet(S)
    <2>1. IsFiniteSet(1..Len(d)) /\ S \in SUBSET (1..Len(d))
      BY FS_Interval DEF Headings
    <2> HIDE DEF S
    <2> QED
      BY <2>1, FS_Subset
  <1>4. \A x \in S : x \in Headings(d) /\ x <= j /\ d[x].name = d[j].name
    OBVIOUS
  <1>5. \A x \in S : to[x] \in T
    BY <1>1, <1>2, <1>4
  <1>6. \A i \in T : \E x \in S : to[x] = i
    <2> TAKE i \in T
    <2>1. PICK x \in Headings(d) : i = to[x]
      OBVIOUS
    <2>2. x <= j /\ d[x].name = d[j].name
      BY <1>2, <2>1
    <2> QED
      BY <2>1, <2>2
  <1>7. \A x, y \in S : to[x] = to[y] => x = y
    BY <1>2, <1>4
  <1> HIDE DEF S, T
  <1>8. f \in Bijection(S, T)
    BY <1>5, <1>6, <1>7 DEF Bijection, Injection, Surjection, IsInjective
  <1>9. Cardinality(T) = Cardinality(S)
    BY <1>3, <1>8, FS_Bijection DEF ExistsBijection
  <1>10. Occurrence(new, to[j]) = Occurrence(d, j)
    BY <1>9 DEF Occurrence, S, T
  <1> QED
    BY <1>10 DEF Qualified

(* Only headings with a text among names have come, gone or got another.   *)
Apart(names, to, d, new) ==
  /\ \A j \in Headings(d) :
       IF d[j].name \in names THEN new[to[j]].name \in names ELSE new[to[j]].name = d[j].name
  /\ \A i \in Headings(new) : new[i].name \notin names => \E j \in Headings(d) : i = to[j]

(* A link keeps its target when its anchor is of none of these texts.      *)
LEMMA TargetIsCarried ==
  ASSUME NEW d \in Seq(Line), NEW new \in Seq(Line), NEW to, Carries(to, d, new), NEW a,
         NEW names, \A m \in names : ~HasAnchor(m, a), Apart(names, to, d, new)
  PROVE  LinkTarget(new, a) = LinkTarget(d, a)
  <1> DEFINE was == {h \in Headings(d) : Qualified(d, h) = a}
             is == {h \in Headings(new) : Qualified(new, h) = a}
  <1>1. \A j \in Headings(d) : d[j].name \notin names => Qualified(new, to[j]) = Qualified(d, j)
    <2> TAKE j \in Headings(d)
    <2> HAVE d[j].name \notin names
    <2>1. \A x \in Headings(d) : new[to[x]].name = d[j].name <=> d[x].name = d[j].name
      BY DEF Apart
    <2>2. new[to[j]].name = d[j].name
      BY DEF Apart
    <2>3. \A i \in Headings(new) : new[i].name = d[j].name => \E x \in Headings(d) : i = to[x]
      BY DEF Apart
    <2> QED
      BY <2>1, <2>2, <2>3, NumbersAreCarried
  <1>2. \A j \in was : to[j] \in is
    <2> TAKE j \in was
    <2>1. d[j].name \notin names
      BY QualifiedIsAnchor
    <2> QED
      BY <1>1, <2>1 DEF Carries
  <1>3. \A i \in is : \E j \in was : i = to[j]
    <2> TAKE i \in is
    <2>1. new[i].name \notin names
      BY QualifiedIsAnchor
    <2>2. PICK j \in Headings(d) : i = to[j]
      BY <2>1 DEF Apart
    <2>3. d[j].name \notin names
      BY <2>1, <2>2 DEF Apart
    <2> QED
      BY <1>1, <2>2, <2>3
  <1>4. was \subseteq Headings(d) /\ was \in SUBSET Nat /\ is \in SUBSET Nat
    BY HeadingsAre
  <1>5. LinkTarget(d, a) = IF was = {} THEN {} ELSE {d[Least(was)].id}
    BY DEF LinkTarget
  <1>6. LinkTarget(new, a) = IF is = {} THEN {} ELSE {new[Least(is)].id}
    BY DEF LinkTarget
  <1> HIDE DEF was, is
  <1>7. ASSUME was # {}
        PROVE  is # {} /\ Least(is) = to[Least(was)] /\ Least(was) \in Headings(d)
    <2> DEFINE j == Least(was)
               i == Least(is)
    <2>1. is # {}
      BY <1>2, <1>7
    <2>2. j \in was /\ \A x \in was : j <= x
      BY <1>4, <1>7, LeastIs
    <2>3. i \in is /\ \A x \in is : i <= x
      BY <1>4, <2>1, LeastIs
    <2>4. PICK x \in was : i = to[x]
      BY <1>3, <2>3
    <2> DEFINE t == to[j]
    <2>5. t \in is /\ j \in Nat /\ x \in Nat /\ j \in Headings(d) /\ x \in Headings(d)
      BY <1>2, <1>4, <2>2
    <2>6. (j < x => t < i) /\ j <= x /\ i <= t /\ i \in Nat /\ t \in Nat
      BY <1>4, <2>2, <2>3, <2>4, <2>5 DEF Carries
    <2> HIDE DEF t, i, j
    <2>7. ~(j < x)
      BY <2>6
    <2>8. j = x
      BY <2>5, <2>6, <2>7
    <2>9. i = t
      BY <2>4, <2>8 DEF t
    <2> QED
      BY <2>1, <2>5, <2>9 DEF t, i, j
  <1>8. CASE was = {}
    BY <1>3, <1>5, <1>6, <1>8
  <1>9. CASE was # {}
    BY <1>5, <1>6, <1>7, <1>9 DEF Carries
  <1> QED
    BY <1>8, <1>9

(* The first heading with an anchor, if it is above the only change.       *)
LEMMA TargetsAboveStay ==
  ASSUME NEW d \in Seq(Line), NEW new, NEW k \in Headings(d), OneChanged(new, d, k), NEW a,
         NEW id \in LinkTarget(d, a), WithId(d, id) < k, DistinctIds(d)
  PROVE  LinkTarget(new, a) = LinkTarget(d, a)
  <1> DEFINE was == {h \in Headings(d) : Qualified(d, h) = a}
             is == {h \in Headings(new) : Qualified(new, h) = a}
  <1>1. /\ \A i \in Headings(d) : i \in 1..Len(d) /\ i \in Nat
        /\ \A i \in 1..Len(d) : i # k => new[i] = d[i]
        /\ Headings(new) = Headings(d)
    BY HeadingsAre DEF OneChanged
  <1>2. \A h \in Headings(d) : h < k => Qualified(new, h) = Qualified(d, h)
    <2> TAKE h \in Headings(d)
    <2> HAVE h < k
    <2>1. \A j \in Headings(d) : j <= h => new[j] = d[j]
      <3> TAKE j \in Headings(d)
      <3> HAVE j <= h
      <3>1. j # k
        BY <1>1
      <3> QED
        BY <1>1, <3>1
    <2>2. new[h] = d[h]
      BY <1>1, <2>1
    <2>3. {j \in Headings(new) : j <= h /\ new[j].name = new[h].name} =
            {j \in Headings(d) : j <= h /\ d[j].name = d[h].name}
      BY <1>1, <2>1, <2>2
    <2>4. Occurrence(new, h) = Occurrence(d, h)
      BY <2>3 DEF Occurrence
    <2> QED
      BY <2>2, <2>4 DEF Qualified
  <1>3. was \in SUBSET Nat /\ is \in SUBSET Nat /\ was \subseteq Headings(d) /\ is \subseteq Headings(d)
    BY <1>1
  <1>4. \A h \in Headings(d) : h < k => (h \in was <=> h \in is)
    BY <1>1, <1>2
  <1>5. LinkTarget(d, a) = IF was = {} THEN {} ELSE {d[Least(was)].id}
    BY DEF LinkTarget
  <1>6. LinkTarget(new, a) = IF is = {} THEN {} ELSE {new[Least(is)].id}
    BY DEF LinkTarget
  <1> HIDE DEF was, is
  <1>7. was # {} /\ id = d[Least(was)].id
    BY <1>5
  <1>8. Least(was) \in was /\ \A j \in was : Least(was) <= j
    BY <1>3, <1>7, LeastIs
  <1> DEFINE t == Least(was)
             u == Least(is)
  <1>9. t \in Headings(d) /\ t < k
    BY <1>3, <1>7, <1>8, WithIdIs
  <1>10. t \in is
    BY <1>4, <1>8, <1>9
  <1>11. u \in is /\ \A j \in is : u <= j
    BY <1>3, <1>10, LeastIs
  <1>12. t \in was /\ (\A j \in was : t <= j) /\ t \in Nat /\ u \in Nat /\ u \in Headings(d) /\ k \in Nat
    BY <1>1, <1>3, <1>8, <1>9, <1>11
  <1> HIDE DEF t, u
  <1>13. u < k /\ u <= t
    BY <1>9, <1>10, <1>11, <1>12
  <1>14. u \in was
    BY <1>4, <1>11, <1>12, <1>13
  <1>15. u = t
    BY <1>12, <1>13, <1>14
  <1>16. new[t].id = d[t].id
    BY <1>9 DEF OneChanged
  <1> QED
    BY <1>5, <1>6, <1>7, <1>10, <1>15, <1>16 DEF t, u

(* Which links may lose their targets.                                     *)
MayMove(d, p, a) ==
  \/ p.kind = "h1" /\ HasAnchor(p.name, a)
  \/ /\ p.kind = "rename"
     /\ LET h == WithId(d, p.about)
        IN /\ HasAnchor(d[h].name, a) \/ HasAnchor(p.name, a)
           /\ \A id \in LinkTarget(d, a) : h < WithId(d, id)

LEMMA TitleMovesItsLike ==
  ASSUME NEW d, Document(d), NEW p \in EnsureH1s(d), NEW new \in EnsuredH1(d, p), NEW a,
         LinkTarget(new, a) # LinkTarget(d, a)
  PROVE  MayMove(d, p, a)
  <1> DEFINE top == Atx(1, p.name, NewId(d))
             to == [j \in Headings(d) |-> j + 2]
  <1>1. p = Proposal("h1", 0, 1, <<PathTitle>>, NewId(d)) /\ d \in Seq(Line)
    BY DEF EnsureH1s, Document
  <1>2. p.kind = "h1" /\ p.name = <<PathTitle>>
    BY <1>1 DEF Proposal
  <1>3. new = <<top, Blank>> \o d
    BY DEF EnsuredH1
  <1>4. top \in Line /\ Blank \in Line /\ top.name = p.name
    <2>1. NewId(d) \in Nat /\ 1 \in 1..6 /\ <<PathTitle>> \in Name
      BY <1>1, NewIdIsNew DEF Name, Part
    <2> QED
      BY <1>2, <2>1, NewHeadings DEF Line, Atx
  <1> HIDE DEF top
  <1>5. /\ new \in Seq(Line) /\ Len(new) = Len(d) + 2 /\ new[1] = top /\ new[2] = Blank
        /\ \A i \in 1..Len(d) : new[i + 2] = d[i]
    BY <1>1, <1>3, <1>4, PrependLines
  <1>6. \A j \in Headings(d) : j \in 1..Len(d) /\ j \in Nat /\ Len(d) \in Nat /\ d[j].kind \in HeadingKinds
    BY <1>1, HeadingsAre
  <1>7. \A j \in Headings(d) : to[j] = j + 2 /\ to[j] \in Headings(new) /\ new[to[j]] = d[j]
    <2> TAKE j \in Headings(d)
    <2>1. j + 2 \in 1..Len(new) /\ new[j + 2] = d[j]
      BY <1>5, <1>6
    <2> QED
      BY <1>6, <2>1 DEF Headings
  <1>8. Carries(to, d, new)
    BY <1>6, <1>7 DEF Carries
  <1>9. ASSUME NEW i \in Headings(new), new[i].name # p.name
        PROVE  \E j \in Headings(d) : i = to[j]
    <2>1. i \in 1..(Len(d) + 2) /\ i # 1 /\ i # 2 /\ Len(d) \in Nat /\ new[i].kind \in HeadingKinds
      BY <1>1, <1>4, <1>5, <1>9 DEF Headings, HeadingKinds, Blank
    <2>2. i - 2 \in 1..Len(d) /\ i = (i - 2) + 2
      BY <2>1
    <2>3. d[i - 2] = new[i]
      BY <1>5, <2>2
    <2>4. i - 2 \in Headings(d)
      BY <2>1, <2>2, <2>3 DEF Headings
    <2> QED
      BY <1>7, <2>2, <2>4
  <1> HIDE DEF to
  <1>10. ~HasAnchor(p.name, a) => LinkTarget(new, a) = LinkTarget(d, a)
    <2> HAVE ~HasAnchor(p.name, a)
    <2>1. Apart({p.name}, to, d, new)
      BY <1>7, <1>9 DEF Apart
    <2>2. \A m \in {p.name} : ~HasAnchor(m, a)
      OBVIOUS
    <2> QED
      BY <1>1, <1>5, <1>8, <2>1, <2>2, TargetIsCarried
  <1> QED
    BY <1>2, <1>10 DEF MayMove

LEMMA LevelMovesNone ==
  ASSUME NEW d, Document(d), ~HasBare(d), NEW p \in SetLevels(d), NEW new \in LeveledLine(d, p),
         IsFix(p), NEW a
  PROVE  LinkTarget(new, a) = LinkTarget(d, a)
  <1>1. d \in Seq(Line)
    BY DEF Document
  <1>2. PICK h \in Headings(d) : p.offset = Start(d, h) /\ p.kind = "level"
    BY DEF SetLevels, Jumps, Proposal
  <1>3. p.level \in 1..6
    BY <1>2 DEF IsFix
  <1>4. new = Relevelled(d, h, p.level)
    BY <1>1, <1>2, HeadingFound DEF LeveledLine, Relevelled
  <1>5. OneChanged(new, d, h) /\ new[h].name = d[h].name
    BY <1>1, <1>3, <1>4, RelevelledIs
  <1> DEFINE to == [j \in Headings(d) |-> j]
  <1>6. \A j \in Headings(d) : to[j] = j /\ new[j].name = d[j].name
    BY <1>1, <1>5, HeadingsAre DEF OneChanged
  <1> HIDE DEF to
  <1>7. Carries(to, d, new) /\ new \in Seq(Line) /\ Headings(new) = Headings(d)
    BY <1>5, <1>6 DEF Carries, OneChanged
  <1>8. Apart({}, to, d, new)
    BY <1>6, <1>7 DEF Apart
  <1> QED
    BY <1>1, <1>7, <1>8, TargetIsCarried, \A m \in {} : ~HasAnchor(m, a)

LEMMA BodyMovesNone ==
  ASSUME NEW d, Document(d), ~HasBare(d), NEW p \in InsertBodies(d), NEW new \in FilledSection(d, p),
         Document(new), NEW a
  PROVE  LinkTarget(new, a) = LinkTarget(d, a)
  <1>1. d \in Seq(Line) /\ new \in Seq(Line)
    BY DEF Document
  <1>2. PICK h \in Headings(d) : EmptySection(d, h) /\ p = Proposal("body", Start(d, h), 0, <<>>, d[h].id)
    BY DEF InsertBodies
  <1>3. p.offset = Start(d, h) /\ d[h].kind # "setext"
    BY <1>1, <1>2, EmptyIsAtx DEF Proposal
  <1>4. \A j \in Headings(d) : j \in 1..Len(d) /\ j \in Nat /\ d[j].kind \in HeadingKinds
    BY <1>1, HeadingsAre
  <1> DEFINE to == Moved(d, h)
             r == ReplacedLine(d, h, Filling(d, h))
  <1>5. new = r
    BY <1>1, <1>3, HeadingFound, FilledSectionIs
  <1>6. /\ \A j \in 1..Len(d) : to[j] \in 1..Len(new) /\ new[to[j]] = d[j]
        /\ ComesFrom(new, d, to, h + 2)
        /\ \A i \in Headings(new) : \E j \in Headings(d) : new[i] = d[j]
    <2>1. /\ \A j \in 1..Len(d) : to[j] \in 1..Len(r) /\ r[to[j]] = d[j]
          /\ ComesFrom(r, d, to, h + 2)
          /\ \A i \in Headings(r) : \E j \in Headings(d) : r[i] = d[j]
      BY <1>1, <1>3, <1>4, FilledIs, Zenon
    <2> HIDE DEF r, to
    <2> QED
      BY <1>5, <2>1
  <1>7. \A i, j \in Headings(d) : i < j => to[i] < to[j]
    <2> DEFINE m == Len(Filling(d, h)) - 1
    <2>1. m \in 1..2
      BY <1>1, <1>4, FillingIs
    <2>2. \A j \in Headings(d) : to[j] = IF j <= h THEN j ELSE j + m
      BY <1>4 DEF Moved
    <2> HIDE DEF m, to
    <2>3. h \in Nat
      BY <1>4
    <2> QED
      BY <1>4, <2>1, <2>2, <2>3
  <1> HIDE DEF to
  <1>8. \A j \in Headings(d) : to[j] \in Headings(new) /\ new[to[j]] = d[j]
    BY <1>4, <1>6 DEF Headings
  <1>9. Carries(to, d, new)
    BY <1>7, <1>8 DEF Carries
  <1>10. ASSUME NEW i \in Headings(new)
         PROVE  \E j \in Headings(d) : i = to[j]
    <2>1. PICK j \in Headings(d) : new[i] = d[j]
      BY <1>6
    <2>2. new[i].id = new[to[j]].id /\ to[j] \in Headings(new)
      BY <1>8, <2>1
    <2>3. i = to[j]
      BY <2>2 DEF Document, DistinctIds
    <2> QED
      BY <2>3
  <1>11. Apart({}, to, d, new)
    BY <1>8, <1>10 DEF Apart
  <1> QED
    BY <1>1, <1>9, <1>11, TargetIsCarried, \A m \in {} : ~HasAnchor(m, a)

LEMMA RenameMovesBelow ==
  ASSUME NEW d, Document(d), ~HasBare(d), NEW p \in Suggestions(d), p.kind = "rename",
         NEW new \in RenamedLine(d, p), IsFix(p), NEW a \in links,
         LinkTarget(new, a) # LinkTarget(d, a)
  PROVE  MayMove(d, p, a)
  <1>1. d \in Seq(Line) /\ p \in Renames(d)
    BY DEF Document, Suggestions, EnsureH1s, SetLevels, InsertBodies, Proposal
  <1>2. PICK h \in Headings(d) : p.offset = Start(d, h) /\ p.about = d[h].id
    BY <1>1 DEF Renames, Proposal
  <1>3. WithId(d, p.about) = h
    BY <1>2, WithIdIs DEF Document
  <1>4. new = Retitled(d, h, p.name)
    BY <1>1, <1>2, HeadingFound DEF RenamedLine, Retitled
  <1>5. OneChanged(new, d, h) /\ new[h].name = p.name
    BY <1>1, <1>4, RetitledIs DEF IsFix
  <1> DEFINE to == [j \in Headings(d) |-> j]
             names == {d[h].name, p.name}
  <1>6. \A j \in Headings(d) : to[j] = j /\ (j # h => new[j].name = d[j].name)
    BY <1>1, <1>5, HeadingsAre DEF OneChanged
  <1>7. Carries(to, d, new) /\ new \in Seq(Line) /\ Headings(new) = Headings(d)
    BY <1>5, <1>6 DEF Carries, OneChanged
  <1>8. HasAnchor(d[h].name, a) \/ HasAnchor(p.name, a)
    <2> SUFFICES ASSUME \A m \in names : ~HasAnchor(m, a)
                 PROVE  FALSE
      OBVIOUS
    <2>1. Apart(names, to, d, new)
      BY <1>5, <1>6, <1>7 DEF Apart
    <2> HIDE DEF names, to
    <2> QED
      BY <1>1, <1>7, <2>1, TargetIsCarried
  <1>9. ASSUME NEW id \in LinkTarget(d, a)
        PROVE  h < WithId(d, id)
    <2>1. ~(WithId(d, id) < h)
      BY <1>1, <1>5, <1>9, TargetsAboveStay DEF Document
    <2>2. PICK t \in Headings(d) : id = d[t].id
      <3> DEFINE was == {x \in Headings(d) : Qualified(d, x) = a}
      <3>1. was # {} /\ id = d[Least(was)].id /\ was \in SUBSET Nat
        BY <1>1, HeadingsAre DEF LinkTarget
      <3>2. Least(was) \in was
        <4> HIDE DEF was
        <4> QED
          BY <3>1, LeastIs
      <3> QED
        BY <3>1, <3>2
    <2>3. WithId(d, id) = t
      BY <2>2, WithIdIs DEF Document
    <2>4. t # h
      BY <1>2, <2>2, RenameIsUnlinked
    <2>5. t \in Nat /\ h \in Nat
      BY <1>1, HeadingsAre
    <2> QED
      BY <2>1, <2>3, <2>4, <2>5
  <1> QED
    BY <1>3, <1>8, <1>9 DEF MayMove

LEMMA FixesMoveFewLinks ==
  ASSUME NEW d, Document(d), ~HasBare(d), NEW p \in Suggestions(d), IsFix(p),
         NEW new \in Compiled(d, p), Document(new), NEW a \in links,
         LinkTarget(new, a) # LinkTarget(d, a)
  PROVE  MayMove(d, p, a)
  <1>1. CASE p \in EnsureH1s(d)
    <2>1. new \in EnsuredH1(d, p)
      BY <1>1 DEF EnsureH1s, Proposal, Compiled
    <2> QED
      BY <1>1, <2>1, TitleMovesItsLike
  <1>2. CASE p \in SetLevels(d)
    <2>1. new \in LeveledLine(d, p)
      BY <1>2 DEF SetLevels, Proposal, Compiled
    <2> QED
      BY <1>2, <2>1, LevelMovesNone
  <1>3. CASE p \in InsertBodies(d)
    <2>1. new \in FilledSection(d, p)
      BY <1>3 DEF InsertBodies, Proposal, Compiled
    <2> QED
      BY <1>3, <2>1, BodyMovesNone
  <1>4. CASE p \in Renames(d)
    <2>1. new \in RenamedLine(d, p) /\ p.kind = "rename"
      BY <1>4 DEF Renames, Proposal, Compiled
    <2> QED
      BY <2>1, RenameMovesBelow
  <1> QED
    BY <1>1, <1>2, <1>3, <1>4 DEF Suggestions

(* Headings are numbered from the top, so a fix can take a link away from  *)
(* a heading it does not touch: only from one that counts the title put    *)
(* on top, or below a renamed heading from one with its old or new text.   *)
THEOREM LinksMoveBelowTheirLike == Spec => LinksMoveOnlyBelowTheirLike
  <1>1. ASSUME IInv, [Next]_vars, FreshFix, ~HasBare(doc), NEW a \in links,
               LinkTarget(doc, a) \notin {{}, LinkTarget(pending', a)}
        PROVE  MayMove(doc, last', a)
    BY <1>1, FreshFixIs, FixesMoveFewLinks
  <1>2. IInv /\ [Next]_vars =>
          [FreshFix /\ ~HasBare(doc) =>
             \A a \in links :
               LinkTarget(doc, a) \notin {{}, LinkTarget(pending', a)} =>
                 \/ last'.kind = "h1" /\ HasAnchor(last'.name, a)
                 \/ /\ last'.kind = "rename"
                    /\ LET h == WithId(doc, last'.about)
                       IN /\ HasAnchor(doc[h].name, a) \/ HasAnchor(last'.name, a)
                          /\ \A id \in LinkTarget(doc, a) : h < WithId(doc, id)]_vars
    BY <1>1 DEF MayMove
  <1> QED
    BY <1>2, InitOK, IInvStep, PTL DEF Spec, LinksMoveOnlyBelowTheirLike
=============================================================================
