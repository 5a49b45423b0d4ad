-------------------------- MODULE SymbolEditsProofs --------------------------
(***************************************************************************)
(* Proofs about SymbolEdits, for any files, declarations, scopes, requests *)
(* and number of changes by other programs: what an expected hash and an   *)
(* undisturbed operation guarantee of the lines that are cut, that cycle   *)
(* shows the edit it makes, and that proposed deletions do no harm.        *)
(***************************************************************************)
EXTENDS SymbolEdits, SequenceTheorems, FunctionTheorems, Minima

-----------------------------------------------------------------------------
(* The inductive invariant.                                                *)
Removal == [op : Op, cut : Seq(Line), file : File]

(* Where a client can be, and what it then has.                            *)
JobsAndPhases ==
  /\ applied \in Seq(Removal)
  /\ job = "read" => client = "reader"
  /\ job = "assess" => client = "cycle"
  /\ job # "edit" => applied = <<>>
  /\ "index" \in calm => job = "edit"
  /\ phase = "index" /\ job \in {"read", "edit"} => ops # <<>>
  /\ phase = "propose" => job \in {"assess", "suggest"}
  /\ phase = "fetch" => job = "read"
  /\ phase \in {"check", "expand", "splice", "validate", "diff"} => job = "edit"
  /\ \A s \in found : s.from <= s.to

(* The index holds texts that parse and, while nothing has changed since   *)
(* the operation began to read, the texts as they are.                     *)
IndexIsCurrent ==
  \A f \in IndexedFiles(indexed) :
    /\ Parses(indexed[f])
    /\ "index" \in calm /\ phase \in {"index", "check", "expand", "splice"} =>
         indexed[f] = View[f]

(* What an operation has found is a symbol of the index with its target's  *)
(* name.                                                                   *)
FoundIsIndexed ==
  phase \in {"check", "expand", "splice"} =>
    \A s \in found :
      /\ s.file \in IndexedFiles(indexed) /\ s \in SymbolsOf(s.file, indexed[s.file])
      /\ s.name = Current.target.name

(* After the check of the hash, while nothing changes, it matches.         *)
CheckHolds ==
  "check" \in calm =>
    /\ phase \in {"expand", "splice", "refused", "crashed"}
    /\ phase \in {"expand", "splice"} => \A s \in found : Cut(View[s.file], s) = Current.hash

NothingStaged == [f \in File |-> NoText]

(* Suggesting reads the disk, for nothing is staged yet; the index of an   *)
(* undisturbed disk is known, and so is the deletion proposed first.       *)
Indexed(unread_) ==
  [f \in File |-> IF f \in InScope(scope) \ unread_ /\ Parses(disk[f]) THEN disk[f] ELSE NoText]

FirstDeletion == Deletion(First(Unused(Indexed({}))))

FirstIsKnown ==
  /\ applied = <<>> => staged = NothingStaged
  /\ \A k \in 1..Len(proposals) : proposals[k].source = <<>>
  /\ job \in {"assess", "suggest"} => unread \subseteq InScope(scope)
  /\ "begin" \in calm /\ job \in {"assess", "suggest"} =>
       /\ phase = "index" => indexed = Indexed(unread)
       /\ phase = "propose" =>
            /\ indexed = Indexed({})
            /\ IF proposals = <<>> THEN todo = Unused(indexed)
               ELSE Head(proposals) = FirstDeletion
       /\ job = "suggest" /\ client = "cycle" => selected = <<FirstDeletion>>

(* cycle makes one edit, a deletion.                                       *)
CycleDeletesOne ==
  /\ client = "cycle" /\ job = "edit" /\ phase \in {"index", "check", "expand", "splice"} =>
       applied = <<>> /\ Len(ops) = 1 /\ ops[1].source = <<>>
  /\ phase \in {"validate", "diff"} => client = "cycle" /\ Len(applied) = 1

Without(t, i, n) == SubSeq(t, 1, i) \o SubSeq(t, i + n + 1, Len(t))

(* While nothing changes after it, the staged text is the disk's without   *)
(* what was cut, and the verdict is that of the result.                    *)
ReportIsCurrent ==
  "splice" \in calm /\ phase \in {"validate", "diff"} =>
    /\ LET f == applied[1].file
           cut == applied[1].cut
       IN  \E i \in 0..(Len(disk[f]) - Len(cut)) :
             /\ SubSeq(disk[f], i + 1, i + Len(cut)) = cut
             /\ staged[f] = Without(disk[f], i, Len(cut))
    /\ phase = "diff" => passed = Resolved(View, Validated)

IInv ==
  /\ TypeOK
  /\ JobsAndPhases
  /\ IndexIsCurrent
  /\ FoundIsIndexed
  /\ CheckHolds
  /\ FirstIsKnown
  /\ CycleDeletesOne
  /\ ReportIsCurrent

-----------------------------------------------------------------------------
(* Lemmas about texts.                                                     *)

LEMMA ViewIsText ==
  ASSUME TypeOK, NEW f \in File
  PROVE  View[f] \in Seq(Line) /\ (staged[f] = NoText => View[f] = disk[f])
  BY TextAssumption DEF TypeOK, View, Texts

(* A symbol's lines begin at a declaration of its name, a field's is one   *)
(* that follows its type's first.                                          *)
LEMMA SymbolsAreSymbols ==
  ASSUME NEW f \in File, NEW t \in Seq(Line), NEW s \in SymbolsOf(f, t)
  PROVE  /\ s \in Symbol /\ s.from <= s.to /\ s.file = f
         /\ s.kind # "field" =>
              /\ s.from \in Heads(t) /\ s.name \in t[s.from].decl.names
              /\ s.to = s.from + t[s.from].decl.size - 1
              /\ s.kind = KindOf(t[s.from].decl)
         /\ s.kind = "field" =>
              /\ s.from - 1 \in Heads(t) /\ s.to = s.from
              /\ t[s.from - 1].decl.size > 1
  <1>1. PICK i \in Heads(t) : s \in DeclaredIn(f, t, i) \cup FieldsIn(f, t, i)
    BY DEF SymbolsOf
  <1>2. i \in 1..Len(t) /\ t[i] \in Line
    BY <1>1 DEF Heads
  <1>3. t[i].decl \in Decl
    BY <1>2 DEF Line
  <1>4. /\ t[i].decl.names \subseteq Name /\ t[i].decl.size \in Nat \ {0}
        /\ t[i].decl.kind \in {"func", "type", "var", "init", "const", "iota"}
        /\ t[i].decl.fields \subseteq Name
        /\ t[i].decl.fields # {} => t[i].decl.size > 1
    BY <1>3 DEF Decl
  <1>5. KindOf(t[i].decl) \in Kind /\ KindOf(t[i].decl) # "field" /\ "field" \in Kind
    BY <1>4 DEF Kind, KindOf
  <1>6. CASE s \in DeclaredIn(f, t, i)
    <2>1. PICK n \in t[i].decl.names :
            s = [file |-> f, kind |-> KindOf(t[i].decl), name |-> n,
                 from |-> i, to |-> i + t[i].decl.size - 1]
      BY <1>6 DEF DeclaredIn
    <2>2. /\ s.file = f /\ s.kind = KindOf(t[i].decl) /\ s.name = n
          /\ s.from = i /\ s.to = i + t[i].decl.size - 1
      BY <2>1
    <2>3. s \in Symbol
      BY <2>1, <1>2, <1>4, <1>5 DEF Symbol
    <2> QED
      BY <2>2, <2>3, <1>1, <1>2, <1>4, <1>5
  <1>7. CASE s \in FieldsIn(f, t, i)
    <2>1. PICK n \in t[i].decl.fields :
            s = [file |-> f, kind |-> "field", name |-> n, from |-> i + 1, to |-> i + 1]
      BY <1>7 DEF FieldsIn
    <2>2. s.file = f /\ s.kind = "field" /\ s.name = n /\ s.from = i + 1 /\ s.to = i + 1
      BY <2>1
    <2>3. s \in Symbol
      BY <2>1, <1>2, <1>4, <1>5 DEF Symbol
    <2>4. s.from - 1 = i
      BY <2>2, <1>2
    <2>5. t[s.from - 1].decl.size > 1
      BY <2>1, <2>4, <1>4
    <2> QED
      BY <2>2, <2>3, <2>4, <2>5, <1>1, <1>2
  <1> QED
    BY <1>1, <1>6, <1>7

LEMMA SubSeqIsText ==
  ASSUME NEW t \in Seq(Line), NEW m \in Nat \ {0}, NEW n \in Nat, n <= Len(t)
  PROVE  /\ SubSeq(t, m, n) \in Seq(Line)
         /\ Len(SubSeq(t, m, n)) = IF m <= n THEN n - m + 1 ELSE 0
         /\ \A i \in 1..(n - m + 1) : SubSeq(t, m, n)[i] = t[m + i - 1]
  <1>1. \A i \in m..n : t[i] \in Line
    OBVIOUS
  <1> QED
    BY <1>1, SubSeqProperties

(* What is cut of a text, and what is left of it, are texts.               *)
LEMMA CutIsText ==
  ASSUME NEW t \in Seq(Line), NEW s \in Symbol, ~OutOfRange(t, s)
  PROVE  /\ Cut(t, s) \in Seq(Line)
         /\ s.from <= s.to => Len(Cut(t, s)) = s.to - s.from + 1
  <1>1. s.from \in Nat \ {0} /\ s.to \in Nat /\ s.to <= Len(t)
    BY DEF Symbol, OutOfRange
  <1> QED
    BY <1>1, SubSeqIsText DEF Cut

LEMMA SpliceIsText ==
  ASSUME NEW t \in Seq(Line), NEW s \in Symbol, ~OutOfRange(t, s), s.from <= s.to,
         NEW source \in Seq(Line)
  PROVE  Splice(t, s, source) \in Seq(Line)
  <1>1. s.from \in Nat \ {0} /\ s.to \in Nat /\ s.to <= Len(t)
    BY DEF Symbol, OutOfRange
  <1>2. SubSeq(t, 1, s.from - 1) \in Seq(Line)
    <2>1. s.from - 1 \in Nat /\ s.from - 1 <= Len(t)
      BY <1>1
    <2> QED
      BY <2>1, SubSeqIsText
  <1>3. SubSeq(t, s.to + 1, Len(t)) \in Seq(Line)
    <2>1. s.to + 1 \in Nat \ {0} /\ Len(t) \in Nat
      BY <1>1
    <2> QED
      BY <2>1, SubSeqIsText
  <1> QED
    BY <1>2, <1>3 DEF Splice

(* In a text that parses, the declaration that begins at a line goes on to *)
(* its end, line by line: the first line to break off would follow one that*)
(* has another after it.                                                   *)
LEMMA DeclarationIsWhole ==
  ASSUME NEW t \in Seq(Line), Parses(t), NEW i \in Heads(t)
  PROVE  LET d == t[i].decl IN
         \A k \in 1..d.size : i + k - 1 <= Len(t) /\ t[i + k - 1] = [decl |-> d, part |-> k]
  <1> DEFINE d == t[i].decl
             Goes(k) == i + k - 1 <= Len(t) /\ t[i + k - 1] = [decl |-> d, part |-> k]
             broken == {k \in 1..d.size : ~Goes(k)}
  <1>1. i \in 1..Len(t) /\ t[i].part = 1 /\ d.size \in Nat \ {0}
    <2>1. i \in 1..Len(t) /\ t[i].part = 1
      BY DEF Heads
    <2>2. t[i] \in Line
      BY <2>1
    <2>3. d \in Decl
      BY <2>2 DEF Line
    <2> QED
      BY <2>1, <2>3 DEF Decl
  <1>2. \A j \in 1..Len(t) : t[j] = [decl |-> t[j].decl, part |-> t[j].part]
    <2> TAKE j \in 1..Len(t)
    <2>1. t[j] \in Line
      OBVIOUS
    <2> QED
      BY <2>1 DEF Line
  <1>3. Goes(1)
    BY <1>1, <1>2
  <1>4. ASSUME NEW k \in Nat \ {0}, k < d.size, Goes(k)
        PROVE  Goes(k + 1)
    <2> DEFINE j == i + k - 1
    <2>1. j \in 1..Len(t) /\ t[j].decl = d /\ t[j].part = k
      BY <1>1, <1>4
    <2>2. j < Len(t) /\ t[j + 1].decl = d /\ t[j + 1].part = k + 1
      BY <2>1, <1>4 DEF Parses
    <2>3. j + 1 = i + (k + 1) - 1 /\ j + 1 \in 1..Len(t)
      BY <2>1, <2>2, <1>1, <1>4
    <2> HIDE DEF j
    <2> QED
      BY <2>2, <2>3, <1>2
  <1>5. ASSUME broken # {}
        PROVE  FALSE
    <2>1. broken \in SUBSET Nat
      OBVIOUS
    <2>2. PICK k \in broken : \A m \in broken : k <= m
      <3> HIDE DEF broken
      <3> QED
        BY <1>5, <2>1, HasLeast
    <2>3. k \in 1..d.size /\ ~Goes(k) /\ k # 1
      BY <2>2, <1>3
    <2> HIDE DEF Goes, d
    <2>4. k - 1 \in Nat \ {0} /\ k - 1 < d.size /\ k - 1 \in 1..d.size /\ ~(k <= k - 1)
      BY <2>3, <1>1
    <2>5. Goes(k - 1)
      BY <2>2, <2>4
    <2>6. Goes((k - 1) + 1)
      BY <2>4, <2>5, <1>4
    <2>7. (k - 1) + 1 = k
      BY <2>3, <1>1
    <2> QED
      BY <2>3, <2>6, <2>7
  <1> QED
    BY <1>5

(* So what is cut at the place of a symbol of a text that parses is a whole*)
(* declaration of its name.                                                *)
LEMMA CutOfSymbolIsWhole ==
  ASSUME NEW f \in File, NEW t \in Seq(Line), Parses(t),
         NEW s \in SymbolsOf(f, t), s.kind # "field"
  PROVE  ~OutOfRange(t, s) /\ WholeDeclaration(Cut(t, s), s.name)
  <1> DEFINE d == t[s.from].decl
  <1>1. /\ s \in Symbol /\ s.from <= s.to
        /\ s.from \in Heads(t) /\ s.name \in d.names /\ s.to = s.from + d.size - 1
    BY SymbolsAreSymbols
  <1>2. d.size \in Nat \ {0} /\ s.from \in Nat \ {0}
    <2>1. s.from \in 1..Len(t)
      BY <1>1 DEF Heads
    <2>2. t[s.from] \in Line
      BY <2>1
    <2>3. d \in Decl
      BY <2>2 DEF Line
    <2> QED
      BY <2>1, <2>3 DEF Decl
  <1>3. \A k \in 1..d.size :
          s.from + k - 1 <= Len(t) /\ t[s.from + k - 1] = [decl |-> d, part |-> k]
    BY <1>1, DeclarationIsWhole
  <1> HIDE DEF d
  <1>4. s.to \in Nat /\ s.to <= Len(t) /\ s.to - s.from + 1 = d.size
    <2>1. s.from + d.size - 1 <= Len(t)
      <3>1. d.size \in 1..d.size
        BY <1>2
      <3> QED
        BY <3>1, <1>3
    <2>2. s.to = s.from + d.size - 1
      BY <1>1
    <2> QED
      BY <2>1, <2>2, <1>2
  <1>5. /\ Cut(t, s) \in Seq(Line) /\ Len(Cut(t, s)) = d.size
        /\ \A k \in 1..d.size : Cut(t, s)[k] = t[s.from + k - 1]
    <2>1. s.from <= s.to
      BY <1>1
    <2>2. /\ SubSeq(t, s.from, s.to) \in Seq(Line)
          /\ Len(SubSeq(t, s.from, s.to)) = s.to - s.from + 1
          /\ \A k \in 1..(s.to - s.from + 1) : SubSeq(t, s.from, s.to)[k] = t[s.from + k - 1]
      BY <2>1, <1>2, <1>4, SubSeqIsText
    <2> QED
      BY <2>2, <1>4 DEF Cut
  <1>6. Cut(t, s) = Lines(d)
    <2>1. \A k \in 1..d.size : Cut(t, s)[k] = [decl |-> d, part |-> k]
      BY <1>3, <1>5
    <2>2. Cut(t, s) = [k \in 1..d.size |-> Cut(t, s)[k]]
      BY <1>5
    <2> QED
      BY <2>1, <2>2 DEF Lines
  <1>7. d \in {Cut(t, s)[i].decl : i \in 1..Len(Cut(t, s))}
    <2>1. 1 \in 1..d.size
      BY <1>2
    <2>2. 1 \in 1..Len(Cut(t, s)) /\ Cut(t, s)[1] = [decl |-> d, part |-> 1]
      BY <2>1, <1>5, <1>3
    <2> QED
      BY <2>2
  <1>8. ~OutOfRange(t, s)
    BY <1>4 DEF OutOfRange
  <1> QED
    BY <1>1, <1>6, <1>7, <1>8 DEF WholeDeclaration

(* What replaces a field is no part of its type: the text that is left does*)
(* not parse.                                                              *)
LEMMA FieldsAreNotCut ==
  ASSUME NEW f \in File, NEW t \in Seq(Line), Parses(t),
         NEW s \in SymbolsOf(f, t), s.kind = "field", NEW source \in Seq(Line),
         source # <<>> => source[1].part = 1
  PROVE  ~Parses(Splice(t, s, source))
  <1> DEFINE i == s.from - 1
             d == t[i].decl
             before == SubSeq(t, 1, i)
             after == SubSeq(t, s.to + 1, Len(t))
             next == Splice(t, s, source)
  <1>1. /\ i \in Heads(t) /\ d.size > 1 /\ s.to = i + 1 /\ s.from = i + 1
        /\ s \in Symbol /\ s.from \in Nat /\ s.to \in Nat
    <2>1. /\ i \in Heads(t) /\ d.size > 1 /\ s.to = s.from /\ s \in Symbol
      BY SymbolsAreSymbols
    <2> QED
      BY <2>1 DEF Symbol
  <1>2. i \in 1..Len(t) /\ t[i].part = 1 /\ d.size \in Nat
    <2>1. i \in 1..Len(t) /\ t[i].part = 1
      BY <1>1 DEF Heads
    <2>2. t[i] \in Line
      BY <2>1
    <2>3. d \in Decl
      BY <2>2 DEF Line
    <2> QED
      BY <2>1, <2>3 DEF Decl
  <1> HIDE DEF i
  <1>3. i < Len(t) /\ t[i + 1].decl = d /\ t[i + 1].part = 2
    <2>1. t[i].part < t[i].decl.size
      BY <1>1, <1>2
    <2>2. i < Len(t) /\ t[i + 1].decl = t[i].decl /\ t[i + 1].part = t[i].part + 1
      BY <1>2, <2>1 DEF Parses
    <2> QED
      BY <1>2, <2>2
  <1> HIDE DEF d
  <1>4. /\ before \in Seq(Line) /\ Len(before) = i /\ before[i] = t[i]
        /\ after \in Seq(Line) /\ Len(after) = Len(t) - i - 1
        /\ \A k \in 1..Len(after) : after[k] = t[i + 1 + k]
    <2>1. i \in Nat /\ i <= Len(t) /\ Len(t) \in Nat /\ s.to + 1 = i + 2 /\ i + 2 \in Nat \ {0}
      BY <1>1, <1>2
    <2>2. before \in Seq(Line) /\ Len(before) = i /\ \A k \in 1..i : before[k] = t[k]
      <3>1. /\ SubSeq(t, 1, i) \in Seq(Line)
            /\ Len(SubSeq(t, 1, i)) = IF 1 <= i THEN i - 1 + 1 ELSE 0
            /\ \A k \in 1..(i - 1 + 1) : SubSeq(t, 1, i)[k] = t[1 + k - 1]
        BY <2>1, SubSeqIsText
      <3>2. \A k \in 1..i : before[k] = t[k]
        <4> TAKE k \in 1..i
        <4>1. k \in 1..(i - 1 + 1) /\ 1 + k - 1 = k
          BY <1>2
        <4> QED
          BY <3>1, <4>1
      <3> QED
        BY <1>2, <3>1, <3>2
    <2>3. /\ SubSeq(t, i + 2, Len(t)) \in Seq(Line)
          /\ Len(SubSeq(t, i + 2, Len(t))) = IF i + 2 <= Len(t) THEN Len(t) - (i + 2) + 1 ELSE 0
          /\ \A k \in 1..(Len(t) - (i + 2) + 1) : SubSeq(t, i + 2, Len(t))[k] = t[(i + 2) + k - 1]
      BY <2>1, SubSeqIsText
    <2>4. after = SubSeq(t, i + 2, Len(t))
      BY <2>1
    <2>5. Len(after) = Len(t) - i - 1
      BY <2>1, <2>3, <2>4, <1>3
    <2>6. \A k \in 1..Len(after) : after[k] = t[i + 1 + k]
      <3> TAKE k \in 1..Len(after)
      <3>1. k \in 1..(Len(t) - (i + 2) + 1) /\ (i + 2) + k - 1 = i + 1 + k
        BY <2>1, <2>5
      <3> QED
        BY <2>3, <2>4, <3>1
    <2>7. before[i] = t[i]
      BY <1>2, <2>2
    <2>8. after \in Seq(Line)
      BY <2>3, <2>4
    <2> HIDE DEF before, after
    <2> QED
      BY <2>2, <2>5, <2>6, <2>7, <2>8
  <1>5. next = before \o source \o after
    BY <1>1 DEF Splice, i
  <1> HIDE DEF before, after, next
  <1>6. /\ next \in Seq(Line) /\ Len(next) = i + Len(source) + Len(after)
        /\ next[i] = t[i]
        /\ i < Len(next) =>
             next[i + 1] = IF source # <<>> THEN source[1] ELSE after[1]
    <2>1. /\ before \o source \in Seq(Line) /\ Len(before \o source) = i + Len(source)
          /\ (before \o source)[i] = t[i]
          /\ source # <<>> => (before \o source)[i + 1] = source[1]
      <3>1. Len(source) \in Nat /\ (source # <<>> => Len(source) > 0)
        OBVIOUS
      <3>2. /\ before \o source \in Seq(Line) /\ Len(before \o source) = i + Len(source)
            /\ \A k \in 1..(i + Len(source)) :
                 (before \o source)[k] = IF k <= i THEN before[k] ELSE source[k - i]
        BY <1>4, ConcatProperties
      <3>3. (before \o source)[i] = t[i]
        <4>1. i \in 1..(i + Len(source)) /\ i <= i
          BY <1>2, <3>1
        <4> QED
          BY <1>4, <3>2, <4>1
      <3>4. ASSUME source # <<>>
            PROVE  (before \o source)[i + 1] = source[1]
        <4>1. i + 1 \in 1..(i + Len(source)) /\ ~(i + 1 <= i) /\ (i + 1) - i = 1
          BY <1>2, <3>1, <3>4
        <4> QED
          BY <3>2, <4>1
      <3> QED
        BY <3>2, <3>3, <3>4
    <2>2. Len(source) \in Nat /\ (source # <<>> => Len(source) > 0) /\ Len(after) \in Nat
      BY <1>4
    <2> DEFINE head == before \o source
    <2> HIDE DEF head
    <2>9. /\ next = head \o after /\ head \in Seq(Line) /\ Len(head) = i + Len(source)
          /\ head[i] = t[i] /\ (source # <<>> => head[i + 1] = source[1])
      BY <1>5, <2>1 DEF head
    <2>10. /\ head \o after \in Seq(Line) /\ Len(head \o after) = Len(head) + Len(after)
           /\ \A k \in 1..(Len(head) + Len(after)) :
                (head \o after)[k] = IF k <= Len(head) THEN head[k] ELSE after[k - Len(head)]
      <3>1. head \in Seq(Line) /\ after \in Seq(Line)
        BY <1>4, <2>9
      <3> QED
        BY ONLY <3>1, ConcatProperties
    <2>3. /\ next \in Seq(Line) /\ Len(next) = i + Len(source) + Len(after)
          /\ next[i] = t[i]
      <3>1. i \in 1..(Len(head) + Len(after)) /\ i <= Len(head)
        BY <1>2, <2>2, <2>9
      <3> QED
        BY <2>9, <2>10, <3>1
    <2>4. ASSUME i < Len(next), source # <<>>
          PROVE  next[i + 1] = source[1]
      <3>1. i + 1 \in 1..(Len(head) + Len(after)) /\ i + 1 <= Len(head)
        BY <1>2, <2>2, <2>4, <2>9
      <3> QED
        BY <2>4, <2>9, <2>10, <3>1
    <2>5. ASSUME i < Len(next), source = <<>>
          PROVE  next[i + 1] = after[1]
      <3>1. Len(source) = 0
        BY <2>5
      <3>2. /\ i + 1 \in 1..(Len(head) + Len(after)) /\ ~(i + 1 <= Len(head))
            /\ (i + 1) - Len(head) = 1
        BY <1>2, <2>2, <2>3, <2>5, <2>9, <3>1
      <3> QED
        BY <2>9, <2>10, <3>2
    <2> QED
      BY <2>3, <2>4, <2>5
  <1>7. SUFFICES ASSUME Parses(next)
                 PROVE  FALSE
    BY DEF next
  <1>8. i < Len(next) /\ next[i + 1].decl = d /\ next[i + 1].part = 2
    <2>1. i \in 1..Len(next) /\ next[i].part = 1 /\ next[i].decl = d
      <3>1. Len(source) \in Nat /\ Len(after) \in Nat
        BY <1>4
      <3>2. i \in 1..Len(next)
        BY <1>2, <1>6, <3>1
      <3> QED
        BY <1>2, <1>6, <3>2 DEF d
    <2>2. next[i].part < next[i].decl.size
      BY <1>1, <2>1
    <2>3. /\ i < Len(next) /\ next[i + 1].decl = next[i].decl
          /\ next[i + 1].part = next[i].part + 1
      BY <1>7, <2>1, <2>2 DEF Parses
    <2> QED
      BY <2>1, <2>3
  <1>9. source = <<>> /\ next[i + 1] = after[1]
    BY <1>6, <1>8
  <1>10. 1 \in 1..Len(after) /\ after[1] = t[i + 2] /\ i + 2 \in 1..Len(t)
    <2>1. Len(source) = 0
      BY <1>9
    <2>2. Len(after) \in Nat /\ Len(after) > 0
      BY <1>2, <1>4, <1>6, <1>8, <2>1
    <2>3. 1 \in 1..Len(after)
      BY <2>2
    <2> QED
      BY <1>2, <1>4, <2>2, <2>3
  <1>11. t[i + 2].part = 2 /\ i + 2 > 1 /\ (i + 2) - 1 = i + 1
    BY <1>2, <1>8, <1>9, <1>10
  <1>12. t[i + 1] = [decl |-> t[i + 2].decl, part |-> t[i + 2].part - 1]
    BY <1>10, <1>11 DEF Parses
  <1> QED
    BY <1>3, <1>11, <1>12

(* Every symbol of an index is one of a file in it.                        *)
LEMMA SymbolsAreIndexed ==
  ASSUME NEW idx \in [File -> Texts], NEW s \in Symbols(idx)
  PROVE  /\ s \in Symbol /\ s.from <= s.to
         /\ s.file \in IndexedFiles(idx) /\ s \in SymbolsOf(s.file, idx[s.file])
  <1>1. PICK f \in IndexedFiles(idx) : s \in SymbolsOf(f, idx[f])
    BY DEF Symbols
  <1>2. f \in File /\ idx[f] \in Seq(Line)
    BY DEF IndexedFiles, Texts
  <1> QED
    BY <1>1, <1>2, SymbolsAreSymbols

(* A deletion that can be proposed is an operation.                        *)
LEMMA DeletionIsOp ==
  ASSUME TypeOK, NEW s \in Symbol, ~OutOfRange(View[s.file], s)
  PROVE  Deletion(s) \in Op /\ Deletion(s).source = <<>>
  <1>1. /\ s.file \in File /\ s.kind \in Kind /\ s.name \in Name
        /\ s.from \in Nat /\ s.to \in Nat
    BY DEF Symbol
  <1>2. IdOf(s) \in Target
    BY <1>1 DEF IdOf, Target
  <1>3. Cut(View[s.file], s) \in Seq(Line)
    BY <1>1, ViewIsText, CutIsText
  <1>4. <<>> \in Seq(Line)
    OBVIOUS
  <1> QED
    BY <1>2, <1>3, <1>4 DEF Deletion, Op

(* Where an operation reads, checks or cuts, it has found one symbol.      *)
LEMMA FoundIsOne ==
  ASSUME TypeOK, phase \in {"fetch", "check", "expand", "splice"}
  PROVE  /\ Found \in found /\ Found \in Symbol /\ Found.file \in File
         /\ \A s \in found : s = Found
         /\ ops # <<>> /\ Current \in Op
  <1>1. found # {} /\ ops # <<>> /\ found \subseteq Symbol /\ \A s, t \in found : s = t
    BY DEF TypeOK
  <1>2. Found \in found
    BY <1>1 DEF Found
  <1>3. Found \in Symbol /\ \A s \in found : s = Found
    BY <1>1, <1>2
  <1>4. Found.file \in File
    BY <1>3 DEF Symbol
  <1>5. Current \in Op
    BY <1>1, HeadTailProperties DEF TypeOK, Current
  <1> QED
    BY <1>1, <1>2, <1>3, <1>4, <1>5

(* The name of an operation under way.                                     *)
LEMMA LeastIsFile == Least(File) \in File
  <1>1. \E n \in File : \A m \in File : n <= m
    BY FileAssumption, HasLeast
  <1> QED
    BY <1>1 DEF Least

-----------------------------------------------------------------------------
LEMMA InitOK == Init => IInv
  <1> SUFFICES ASSUME Init
               PROVE  IInv
    OBVIOUS
  <1>1. /\ disk \in [File -> Seq(Line)] /\ origin = disk
        /\ staged = NothingStaged /\ indexed = NothingStaged
        /\ phase = "index" /\ unread = InScope(scope)
        /\ todo = {} /\ found = {} /\ proposals = <<>> /\ selected = <<>> /\ applied = <<>>
        /\ diff = <<>> /\ passed = FALSE /\ calm = {"begin"} /\ moved = 0
    BY TextAssumption DEF Init, NothingStaged
  <1>2. /\ client \in {"cycle", "bot", "reader"}
        /\ scope \in [tests : BOOLEAN, generated : BOOLEAN]
        /\ job \in {"assess", "suggest", "read"}
        /\ job = "read" <=> client = "reader"
        /\ job = "assess" <=> client = "cycle"
        /\ client # "reader" => ops = <<>>
    <2>1. SelectorScope \in [tests : BOOLEAN, generated : BOOLEAN]
      BY DEF SelectorScope
    <2>2. CASE client \in {"cycle", "bot"}
      BY <2>2 DEF Init
    <2>3. CASE client = "reader"
      BY <2>1, <2>3 DEF Init
    <2> QED
      BY <2>2, <2>3 DEF Init
  <1>3. ops \in Seq(Op) /\ (job = "read" => ops # <<>>)
    <2>1. CASE client \in {"cycle", "bot"}
      <3>1. ops = <<>>
        BY <2>1, <1>2
      <3> QED
        BY <2>1, <3>1, <1>2
    <2>2. CASE client = "reader"
      <3>1. PICK n \in Name, d \in Source :
              ops = <<[target |-> [file |-> Least(File), kind |-> "func", name |-> n, at |-> 0],
                       hash |-> <<>>, source |-> Lines(d)]>>
        BY <2>2 DEF Init
      <3>2. Lines(d) \in Seq(Line)
        <4>1. d \in Decl
          BY TextAssumption
        <4>2. d.size \in Nat
          BY <4>1 DEF Decl
        <4>3. \A i \in 1..d.size : [decl |-> d, part |-> i] \in Line
          BY <4>1, <4>2 DEF Line
        <4> QED
          BY <4>2, <4>3 DEF Lines
      <3>3. [file |-> Least(File), kind |-> "func", name |-> n, at |-> 0] \in Target
        BY LeastIsFile DEF Target, Kind
      <3>4. <<>> \in Seq(Line)
        OBVIOUS
      <3>5. [target |-> [file |-> Least(File), kind |-> "func", name |-> n, at |-> 0],
             hash |-> <<>>, source |-> Lines(d)] \in Op
        BY <3>2, <3>3, <3>4 DEF Op
      <3> QED
        BY <3>1, <3>5
    <2> QED
      BY <2>1, <2>2, <1>2
  <1>4. TypeOK
    <2>1. NothingStaged \in [File -> Texts] /\ InScope(scope) \subseteq File
      BY DEF NothingStaged, Texts, InScope
    <2>2. <<>> \in Seq(Op) /\ Len(<<>>) = 0
      OBVIOUS
    <2>3. moved \in 0..MaxChanges
      BY <1>1, BoundAssumption
    <2>4. /\ proposals \in Seq(Op) /\ selected \in Seq(Op)
          /\ Len(selected) <= 1 /\ Len(diff) <= 1
      BY <1>1, <2>2
    <2>5. /\ staged \in [File -> Texts] /\ indexed \in [File -> Texts] /\ unread \subseteq File
          /\ disk \in [File -> Seq(Line)] /\ origin \in [File -> Seq(Line)]
      BY <1>1, <2>1
    <2>6. /\ todo \subseteq Symbol /\ found \subseteq Symbol
          /\ \A s, t \in found : s = t
          /\ passed \in BOOLEAN /\ calm \subseteq {"begin", "index", "check", "splice"}
          /\ phase \notin {"fetch", "check", "expand", "splice"}
      BY <1>1
    <2> QED
      BY <1>1, <1>2, <1>3, <2>3, <2>4, <2>5, <2>6 DEF TypeOK
  <1>5. JobsAndPhases
    BY <1>1, <1>2, <1>3 DEF JobsAndPhases
  <1>6. IndexIsCurrent /\ FoundIsIndexed /\ CheckHolds
    BY <1>1 DEF IndexIsCurrent, FoundIsIndexed, CheckHolds, IndexedFiles, NothingStaged
  <1>7. FirstIsKnown
    <2>1. indexed = Indexed(unread)
      BY <1>1 DEF Indexed, NothingStaged
    <2>2. Len(proposals) = 0
      BY <1>1
    <2> QED
      BY <1>1, <1>2, <2>1, <2>2 DEF FirstIsKnown
  <1>8. CycleDeletesOne /\ ReportIsCurrent
    BY <1>1, <1>2 DEF CycleDeletesOne, ReportIsCurrent
  <1> QED
    BY <1>4, <1>5, <1>6, <1>7, <1>8 DEF IInv

(* While a client suggests, what it reads is the disk.                     *)
LEMMA SuggestingReadsDisk ==
  ASSUME IInv, job # "edit", NEW f \in File
  PROVE  View[f] = disk[f]
  BY DEF IInv, JobsAndPhases, FirstIsKnown, NothingStaged, View

LEMMA IndexFileKeeps ==
  ASSUME IInv, IndexFile
  PROVE  IInv'
  <1>1. PICK f \in unread :
          /\ unread' = unread \ {f}
          /\ indexed' = [indexed EXCEPT ![f] = IF Parses(View[f]) THEN View[f] ELSE NoText]
    BY DEF IndexFile
  <1>2. /\ phase = "index"
        /\ UNCHANGED <<disk, scope, client, job, phase, todo, proposals, selected, staged, ops,
                       found, applied, passed, diff, origin, calm, moved>>
    BY DEF IndexFile, requests, suggesting, editing, reporting
  <1>3. f \in File /\ View[f] \in Seq(Line) /\ indexed \in [File -> Texts]
    BY ViewIsText DEF IInv, TypeOK
  <1>4. View' = View
    BY <1>2 DEF View
  <1>5. TypeOK'
    <2>1. indexed' \in [File -> Texts]
      BY <1>1, <1>3 DEF Texts
    <2> QED
      BY <1>1, <1>2, <2>1 DEF IInv, TypeOK
  <1>6. JobsAndPhases'
    BY <1>2 DEF IInv, JobsAndPhases
  <1>7. IndexIsCurrent'
    <2>1. \A g \in File : g # f => indexed'[g] = indexed[g]
      BY <1>1, <1>3
    <2>2. indexed'[f] # NoText => Parses(View[f]) /\ indexed'[f] = View[f]
      BY <1>1, <1>3
    <2>3. ASSUME NEW g \in File, indexed'[g] # NoText
          PROVE  /\ Parses(indexed'[g])
                 /\ "index" \in calm => indexed'[g] = View[g]
      <3>1. CASE g = f
        BY <3>1, <2>2, <2>3
      <3>2. CASE g # f
        BY <3>2, <2>1, <2>3, <1>2 DEF IInv, IndexIsCurrent, IndexedFiles
      <3> QED
        BY <3>1, <3>2
    <2> QED
      BY <2>3, <1>2, <1>4 DEF IndexIsCurrent, IndexedFiles
  <1>8. FoundIsIndexed' /\ CheckHolds' /\ CycleDeletesOne' /\ ReportIsCurrent'
    BY <1>2 DEF IInv, FoundIsIndexed, CheckHolds, CycleDeletesOne, ReportIsCurrent
  <1>9. FirstIsKnown'
    <2>1. ASSUME "begin" \in calm, job \in {"assess", "suggest"}
          PROVE  indexed' = Indexed(unread')
      <3>1. indexed = Indexed(unread) /\ unread \subseteq InScope(scope)
        BY <2>1, <1>2 DEF IInv, FirstIsKnown
      <3>2. View[f] = disk[f]
        BY <2>1, <1>3, SuggestingReadsDisk
      <3> QED
        BY <3>1, <3>2, <1>1, <1>3 DEF Indexed
    <2>2. Indexed(unread)' = Indexed(unread')
      BY <1>2 DEF Indexed, InScope
    <2>3. FirstDeletion' = FirstDeletion
      BY <1>2, <1>4 DEF FirstDeletion, Deletion, Indexed
    <2>4. job \in {"assess", "suggest"} => unread' \subseteq InScope(scope')
      BY <1>1, <1>2 DEF IInv, FirstIsKnown
    <2> QED
      BY <2>1, <2>2, <2>3, <2>4, <1>2 DEF IInv, FirstIsKnown
  <1> QED
    BY <1>5, <1>6, <1>7, <1>8, <1>9 DEF IInv

LEMMA FindUnusedKeeps ==
  ASSUME IInv, FindUnused
  PROVE  IInv'
  <1>1. /\ phase = "index" /\ unread = {} /\ job \in {"assess", "suggest"}
        /\ todo' = Unused(indexed) /\ proposals' = <<>> /\ phase' = "propose"
        /\ UNCHANGED <<disk, scope, client, job, unread, indexed, selected, staged, ops,
                       found, applied, passed, diff, origin, calm, moved>>
    BY DEF FindUnused, requests, index, editing, reporting
  <1>2. View' = View
    BY <1>1 DEF View
  <1>3. TypeOK'
    <2>1. Unused(indexed) \subseteq Symbol
      BY SymbolsAreIndexed DEF IInv, TypeOK, Unused
    <2>2. <<>> \in Seq(Op)
      OBVIOUS
    <2> QED
      BY <1>1, <2>1, <2>2 DEF IInv, TypeOK
  <1>4. JobsAndPhases'
    BY <1>1 DEF IInv, JobsAndPhases
  <1>5. IndexIsCurrent'
    BY <1>1, <1>2 DEF IInv, IndexIsCurrent, IndexedFiles
  <1>6. FoundIsIndexed' /\ CheckHolds' /\ CycleDeletesOne' /\ ReportIsCurrent'
    BY <1>1 DEF IInv, FoundIsIndexed, CheckHolds, CycleDeletesOne, ReportIsCurrent
  <1>7. FirstIsKnown'
    <2>1. Indexed({})' = Indexed({}) /\ FirstDeletion' = FirstDeletion
      BY <1>1, <1>2 DEF Indexed, InScope, FirstDeletion, Deletion
    <2>2. "begin" \in calm => indexed = Indexed({})
      BY <1>1 DEF IInv, FirstIsKnown
    <2>3. Unused(indexed)' = Unused(indexed)
      BY <1>1 DEF Unused
    <2>4. Len(proposals') = 0
      BY <1>1
    <2>5. unread' \subseteq InScope(scope')
      BY <1>1
    <2> QED
      BY <1>1, <2>1, <2>2, <2>3, <2>4, <2>5 DEF IInv, FirstIsKnown
  <1> QED
    BY <1>3, <1>4, <1>5, <1>6, <1>7 DEF IInv

LEMMA ProposeKeeps ==
  ASSUME IInv, Propose
  PROVE  IInv'
  <1>1. PICK s \in todo :
          /\ s = First(todo)
          /\ IF OutOfRange(View[s.file], s)
             THEN phase' = "refused" /\ UNCHANGED <<todo, proposals>>
             ELSE /\ todo' = todo \ {s}
                  /\ proposals' = Append(proposals, Deletion(s))
                  /\ UNCHANGED phase
    BY DEF Propose
  <1>2. /\ phase = "propose"
        /\ UNCHANGED <<disk, scope, client, job, unread, indexed, selected, staged, ops,
                       found, applied, passed, diff, origin, calm, moved>>
    BY DEF Propose, requests, index, editing, reporting
  <1>3. View' = View /\ s \in Symbol /\ proposals \in Seq(Op) /\ phase' \in {"propose", "refused"}
    BY <1>1, <1>2 DEF View, IInv, TypeOK
  <1>4. ~OutOfRange(View[s.file], s) => Deletion(s) \in Op /\ Deletion(s).source = <<>>
    BY <1>3, DeletionIsOp DEF IInv
  <1>5. proposals' \in Seq(Op)
    BY <1>1, <1>3, <1>4
  <1>6. TypeOK'
    BY <1>1, <1>2, <1>3, <1>5 DEF IInv, TypeOK
  <1>7. JobsAndPhases'
    BY <1>2, <1>3 DEF IInv, JobsAndPhases
  <1>8. IndexIsCurrent'
    BY <1>2, <1>3 DEF IInv, IndexIsCurrent, IndexedFiles
  <1>9. FoundIsIndexed' /\ CheckHolds' /\ CycleDeletesOne' /\ ReportIsCurrent'
    BY <1>2, <1>3 DEF IInv, FoundIsIndexed, CheckHolds, CycleDeletesOne, ReportIsCurrent
  <1>10. FirstIsKnown'
    <2>1. Indexed({})' = Indexed({}) /\ FirstDeletion' = FirstDeletion
      BY <1>2, <1>3 DEF Indexed, InScope, FirstDeletion, Deletion
    <2>2. \A k \in 1..Len(proposals') : proposals'[k].source = <<>>
      <3>1. CASE OutOfRange(View[s.file], s)
        BY <3>1, <1>1 DEF IInv, FirstIsKnown
      <3>2. CASE ~OutOfRange(View[s.file], s)
        <4>1. /\ Len(proposals') = Len(proposals) + 1
              /\ \A k \in 1..Len(proposals) : proposals'[k] = proposals[k]
              /\ proposals'[Len(proposals) + 1] = Deletion(s)
          BY <3>2, <1>1, <1>3, <1>4, AppendProperties
        <4>2. \A k \in 1..Len(proposals') : k \in 1..Len(proposals) \/ k = Len(proposals) + 1
          BY <4>1, <1>3
        <4> QED
          BY <3>2, <4>1, <4>2, <1>4 DEF IInv, FirstIsKnown
      <3> QED
        BY <3>1, <3>2
    <2>3. ASSUME "begin" \in calm, phase' = "propose"
          PROVE  indexed = Indexed({}) /\ proposals' # <<>> /\ Head(proposals') = FirstDeletion
      <3>1. ~OutOfRange(View[s.file], s) /\ proposals' = Append(proposals, Deletion(s))
        BY <2>3, <1>1
      <3>2. /\ indexed = Indexed({})
            /\ IF proposals = <<>> THEN todo = Unused(indexed)
               ELSE Head(proposals) = FirstDeletion
        BY <2>3, <1>2 DEF IInv, FirstIsKnown, JobsAndPhases
      <3>3. Head(proposals') = IF proposals = <<>> THEN Deletion(s) ELSE Head(proposals)
        BY <3>1, <1>3, HeadTailAppend
      <3>4. proposals = <<>> => Deletion(s) = FirstDeletion
        BY <3>2, <1>1 DEF FirstDeletion
      <3>5. proposals' # <<>>
        BY <3>1, <1>3, <1>4, AppendProperties
      <3> QED
        BY <3>2, <3>3, <3>4, <3>5
    <2>4. InScope(scope)' = InScope(scope)
      BY <1>2 DEF InScope
    <2> QED
      BY <1>2, <1>3, <2>1, <2>2, <2>3, <2>4 DEF IInv, FirstIsKnown
  <1> QED
    BY <1>6, <1>7, <1>8, <1>9, <1>10 DEF IInv

(* An index begins anew: it holds nothing yet.                             *)
LEMMA StartIndexEffect ==
  ASSUME NEW s, StartIndex(s)
  PROVE  /\ phase' = "index" /\ unread' = InScope(s) /\ unread' \subseteq File
         /\ indexed' = NothingStaged /\ indexed' \in [File -> Texts] /\ IndexIsCurrent'
  BY DEF StartIndex, InScope, NothingStaged, Texts, IndexIsCurrent, IndexedFiles

LEMMA SelectKeeps ==
  ASSUME IInv, Select
  PROVE  IInv'
  <1>1. /\ phase = "propose" /\ todo = {} /\ job = "assess"
        /\ IF proposals = <<>>
           THEN phase' = "done" /\ UNCHANGED <<job, unread, indexed, selected>>
           ELSE selected' = <<Head(proposals)>> /\ job' = "suggest" /\ StartIndex(scope)
        /\ UNCHANGED <<disk, scope, client, todo, proposals, staged, ops,
                       found, applied, passed, diff, origin, calm, moved>>
    BY DEF Select, requests, index, editing, reporting
  <1>2. View' = View /\ InScope(scope)' = InScope(scope)
    BY <1>1 DEF View, InScope
  <1>3. CASE proposals = <<>>
    <2>1. /\ phase' = "done"
          /\ UNCHANGED <<disk, scope, client, todo, proposals, staged, ops, job, unread, indexed,
                         selected, found, applied, passed, diff, origin, calm, moved>>
      BY <1>1, <1>3
    <2>2. TypeOK' /\ JobsAndPhases'
      BY <2>1 DEF IInv, TypeOK, JobsAndPhases
    <2>3. IndexIsCurrent'
      BY <2>1, <1>2 DEF IInv, IndexIsCurrent, IndexedFiles
    <2>4. FoundIsIndexed' /\ CheckHolds' /\ CycleDeletesOne' /\ ReportIsCurrent'
      BY <2>1, <1>1 DEF IInv, FoundIsIndexed, CheckHolds, CycleDeletesOne, ReportIsCurrent
    <2>5. FirstIsKnown'
      BY <2>1, <1>1, <1>2 DEF IInv, FirstIsKnown
    <2> QED
      BY <2>2, <2>3, <2>4, <2>5 DEF IInv
  <1>4. CASE proposals # <<>>
    <2>1. /\ selected' = <<Head(proposals)>> /\ job' = "suggest"
          /\ phase' = "index" /\ unread' = InScope(scope) /\ unread' \subseteq File
          /\ indexed' = NothingStaged /\ indexed' \in [File -> Texts] /\ IndexIsCurrent'
      BY <1>1, <1>4, StartIndexEffect
    <2>2. selected' \in Seq(Op) /\ Len(selected') = 1
      BY <2>1, <1>4, HeadTailProperties DEF IInv, TypeOK
    <2>3. TypeOK'
      BY <1>1, <2>1, <2>2 DEF IInv, TypeOK
    <2>4. JobsAndPhases'
      BY <1>1, <2>1 DEF IInv, JobsAndPhases
    <2>5. FoundIsIndexed' /\ CheckHolds' /\ CycleDeletesOne' /\ ReportIsCurrent'
      BY <1>1, <2>1 DEF IInv, FoundIsIndexed, CheckHolds, CycleDeletesOne, ReportIsCurrent
    <2>6. FirstIsKnown'
      <3>1. FirstDeletion' = FirstDeletion
        BY <1>1, <1>2 DEF FirstDeletion, Deletion, Indexed
      <3>2. indexed' = Indexed(unread)'
        BY <2>1, <1>2 DEF Indexed, NothingStaged
      <3>3. "begin" \in calm => selected' = <<FirstDeletion>>
        BY <1>1, <1>4, <2>1 DEF IInv, FirstIsKnown
      <3> QED
        BY <1>1, <1>2, <2>1, <3>1, <3>2, <3>3 DEF IInv, FirstIsKnown
    <2> QED
      BY <2>1, <2>3, <2>4, <2>5, <2>6 DEF IInv
  <1> QED
    BY <1>3, <1>4

LEMMA PickKeeps ==
  ASSUME IInv, Pick
  PROVE  IInv'
  <1> DEFINE operations == IF client = "cycle" THEN <<Head(proposals)>> ELSE proposals
  <1>1. /\ phase = "propose" /\ todo = {} /\ job = "suggest"
        /\ IF proposals = <<>>
           THEN /\ phase' = IF client = "cycle" THEN "refused" ELSE "done"
                /\ UNCHANGED <<job, unread, indexed, ops, calm>>
           ELSE StartEdit(operations)
        /\ UNCHANGED <<disk, scope, client, todo, proposals, selected, staged,
                       found, applied, passed, diff, origin, moved>>
    BY DEF Pick, requests, index, suggesting, reporting
  <1>2. View' = View /\ InScope(scope)' = InScope(scope)
    BY <1>1 DEF View, InScope
  <1>3. CASE proposals = <<>>
    <2>1. /\ phase' \in {"refused", "done"}
          /\ UNCHANGED <<disk, scope, client, todo, proposals, staged, ops, job, unread, indexed,
                         selected, found, applied, passed, diff, origin, calm, moved>>
      BY <1>1, <1>3
    <2>2. TypeOK' /\ JobsAndPhases'
      BY <2>1 DEF IInv, TypeOK, JobsAndPhases
    <2>3. IndexIsCurrent'
      BY <2>1, <1>2 DEF IInv, IndexIsCurrent, IndexedFiles
    <2>4. FoundIsIndexed' /\ CheckHolds' /\ CycleDeletesOne' /\ ReportIsCurrent'
      BY <2>1, <1>1 DEF IInv, FoundIsIndexed, CheckHolds, CycleDeletesOne, ReportIsCurrent
    <2>5. FirstIsKnown'
      <3>1. FirstDeletion' = FirstDeletion
        BY <2>1, <1>2 DEF FirstDeletion, Deletion, Indexed
      <3> QED
        BY <2>1, <1>1, <1>2, <3>1 DEF IInv, FirstIsKnown
    <2> QED
      BY <2>2, <2>3, <2>4, <2>5 DEF IInv
  <1>4. CASE proposals # <<>>
    <2>1. StartEdit(operations)
      BY <1>1, <1>4
    <2>2. /\ ops' = operations /\ job' = "edit" /\ calm' = calm \cup {"index"}
          /\ phase' = "index" /\ unread' = InScope(SelectorScope) /\ unread' \subseteq File
          /\ indexed' \in [File -> Texts] /\ IndexIsCurrent'
      BY <2>1, StartIndexEffect DEF StartEdit
    <2>3. ops' \in Seq(Op) /\ ops' # <<>>
      BY <2>2, <1>4, HeadTailProperties DEF IInv, TypeOK
    <2>4. TypeOK'
      BY <1>1, <2>2, <2>3 DEF IInv, TypeOK
    <2>5. JobsAndPhases'
      BY <1>1, <2>2, <2>3 DEF IInv, JobsAndPhases
    <2>6. FoundIsIndexed' /\ CheckHolds' /\ ReportIsCurrent'
      BY <1>1, <2>2 DEF IInv, FoundIsIndexed, CheckHolds, ReportIsCurrent
    <2>7. FirstIsKnown'
      BY <1>1, <2>2 DEF IInv, FirstIsKnown, NothingStaged
    <2>8. CycleDeletesOne'
      <3>1. applied' = <<>>
        BY <1>1 DEF IInv, JobsAndPhases
      <3>2. client = "cycle" => Len(ops') = 1 /\ ops'[1].source = <<>>
        <4>1. Head(proposals) = proposals[1] /\ 1 \in 1..Len(proposals)
          BY <1>4 DEF IInv, TypeOK
        <4>2. proposals[1].source = <<>>
          BY <4>1 DEF IInv, FirstIsKnown
        <4> QED
          BY <2>2, <4>1, <4>2
      <3> QED
        BY <1>1, <2>2, <3>1, <3>2 DEF CycleDeletesOne
    <2> QED
      BY <2>2, <2>4, <2>5, <2>6, <2>7, <2>8 DEF IInv
  <1> QED
    BY <1>3, <1>4

LEMMA MatchKeeps ==
  ASSUME IInv, Match
  PROVE  IInv'
  <1> DEFINE matches == FilterSymbols(Symbols(indexed), Current.target)
  <1>1. /\ phase = "index" /\ unread = {} /\ job \in {"read", "edit"}
        /\ IF \E s \in matches : matches = {s}
           THEN /\ found' = matches
                /\ phase' = IF job = "read" THEN "fetch"
                            ELSE IF Current.hash # <<>> THEN "check"
                            ELSE IF Current.source = <<>> THEN "expand" ELSE "splice"
           ELSE phase' = "refused" /\ UNCHANGED found
        /\ UNCHANGED <<disk, scope, client, job, unread, indexed, todo, proposals, selected, staged,
                       ops, applied, passed, diff, origin, calm, moved>>
    BY DEF Match, requests, index, suggesting, reporting
  <1>2. View' = View /\ phase' \in {"fetch", "check", "expand", "splice", "refused"}
    BY <1>1 DEF View
  <1>3. \A s \in matches : /\ s \in Symbol /\ s.from <= s.to /\ s.name = Current.target.name
                           /\ s.file \in IndexedFiles(indexed)
                           /\ s \in SymbolsOf(s.file, indexed[s.file])
    <2> TAKE s \in matches
    <2>1. s \in Symbols(indexed) /\ indexed \in [File -> Texts]
      BY DEF FilterSymbols, IInv, TypeOK
    <2>2. s.name = Current.target.name
      BY DEF FilterSymbols, IdOf
    <2> QED
      BY <2>1, <2>2, SymbolsAreIndexed
  <1>4. ops # <<>>
    BY <1>1 DEF IInv, JobsAndPhases
  <1>5. /\ found' = found \/ found' = matches
        /\ phase' = "refused" => found' = found
        /\ phase' # "refused" => found' = matches /\ \E s \in matches : matches = {s}
    BY <1>1
  <1> HIDE DEF matches
  <1>6. TypeOK'
    BY <1>1, <1>2, <1>3, <1>4, <1>5 DEF IInv, TypeOK
  <1>7. JobsAndPhases'
    <2>1. \A s \in found' : s.from <= s.to
      BY <1>3, <1>5 DEF IInv, JobsAndPhases
    <2>2. /\ phase' = "fetch" => job = "read"
          /\ phase' \in {"check", "expand", "splice"} => job = "edit"
      BY <1>1
    <2> QED
      BY <1>1, <1>2, <2>1, <2>2 DEF IInv, JobsAndPhases
  <1>8. IndexIsCurrent'
    BY <1>1, <1>2 DEF IInv, IndexIsCurrent, IndexedFiles
  <1>9. FoundIsIndexed'
    BY <1>1, <1>3, <1>5 DEF FoundIsIndexed, IndexedFiles, Current
  <1>10. CheckHolds' /\ ReportIsCurrent' /\ CycleDeletesOne'
    BY <1>1, <1>2 DEF IInv, CheckHolds, ReportIsCurrent, CycleDeletesOne
  <1>11. FirstIsKnown'
    BY <1>1 DEF IInv, FirstIsKnown, NothingStaged
  <1> QED
    BY <1>6, <1>7, <1>8, <1>9, <1>10, <1>11 DEF IInv

LEMMA FetchKeeps ==
  ASSUME IInv, Fetch
  PROVE  IInv'
  <1>1. /\ phase = "fetch"
        /\ UNCHANGED <<disk, scope, client, todo, proposals, selected, staged,
                       found, applied, passed, diff, origin, moved>>
    BY DEF Fetch, requests, suggesting, reporting
  <1>2. job = "read" /\ client = "reader" /\ applied = <<>> /\ View' = View
    BY <1>1 DEF IInv, JobsAndPhases, View
  <1>3. CASE OutOfRange(View[Found.file], Found)
    <2>1. phase' = "refused" /\ UNCHANGED <<job, unread, indexed, ops, calm>>
      BY <1>3 DEF Fetch, index
    <2>2. TypeOK' /\ JobsAndPhases'
      BY <1>1, <2>1 DEF IInv, TypeOK, JobsAndPhases
    <2>3. IndexIsCurrent'
      BY <2>1, <1>2 DEF IInv, IndexIsCurrent, IndexedFiles
    <2>4. FoundIsIndexed' /\ CheckHolds' /\ CycleDeletesOne' /\ ReportIsCurrent'
      BY <1>1, <2>1 DEF IInv, FoundIsIndexed, CheckHolds, CycleDeletesOne, ReportIsCurrent
    <2>5. FirstIsKnown'
      BY <1>1, <1>2, <2>1 DEF IInv, FirstIsKnown, NothingStaged
    <2> QED
      BY <2>2, <2>3, <2>4, <2>5 DEF IInv
  <1>4. CASE ~OutOfRange(View[Found.file], Found)
    <2>1. PICK hash \in {<<>>, Cut(View[Found.file], Found)} :
            StartEdit(<<[Current EXCEPT !.hash = hash]>>)
      BY <1>4 DEF Fetch
    <2>2. /\ ops' = <<[Current EXCEPT !.hash = hash]>> /\ job' = "edit"
          /\ calm' = calm \cup {"index"}
          /\ phase' = "index" /\ unread' = InScope(SelectorScope) /\ unread' \subseteq File
          /\ indexed' \in [File -> Texts] /\ IndexIsCurrent'
      BY <2>1, StartIndexEffect DEF StartEdit
    <2>3. ops' \in Seq(Op) /\ ops' # <<>>
      <3>1. Found \in Symbol /\ Found.file \in File /\ Current \in Op
        BY <1>1, FoundIsOne DEF IInv
      <3>2. Cut(View[Found.file], Found) \in Seq(Line)
        BY <3>1, <1>4, ViewIsText, CutIsText DEF IInv
      <3>3. hash \in Seq(Line)
        <4>1. <<>> \in Seq(Line)
          OBVIOUS
        <4> QED
          BY <3>2, <4>1
      <3>4. [Current EXCEPT !.hash = hash] \in Op
        BY <3>1, <3>3 DEF Op
      <3> QED
        BY <2>2, <3>4
    <2>4. TypeOK'
      BY <1>1, <2>2, <2>3 DEF IInv, TypeOK
    <2>5. JobsAndPhases'
      BY <1>1, <2>2, <2>3 DEF IInv, JobsAndPhases
    <2>6. FoundIsIndexed' /\ CheckHolds' /\ ReportIsCurrent' /\ CycleDeletesOne'
      BY <1>1, <1>2, <2>2 DEF IInv, FoundIsIndexed, CheckHolds, ReportIsCurrent, CycleDeletesOne
    <2>7. FirstIsKnown'
      BY <1>1, <2>2 DEF IInv, FirstIsKnown, NothingStaged
    <2> QED
      BY <2>2, <2>4, <2>5, <2>6, <2>7 DEF IInv
  <1> QED
    BY <1>3, <1>4

(* The checks of an operation move its phase, and note that the hash fits. *)
LEMMA CheckExpectedHashKeeps ==
  ASSUME IInv, CheckExpectedHash
  PROVE  IInv'
  <1> DEFINE t == View[Found.file]
  <1>1. /\ phase = "check"
        /\ IF OutOfRange(t, Found) \/ Cut(t, Found) # Current.hash
           THEN phase' = "refused" /\ UNCHANGED calm
           ELSE /\ phase' = IF Current.source = <<>> THEN "expand" ELSE "splice"
                /\ calm' = calm \cup {"check"}
        /\ UNCHANGED <<disk, scope, client, job, unread, indexed, todo, proposals, selected, staged,
                       ops, found, applied, passed, diff, origin, moved>>
    BY DEF CheckExpectedHash, CheckAgainst, requests, index, suggesting, editing, reporting
  <1>2. /\ View' = View /\ job = "edit"
        /\ phase' \in {"refused", "expand", "splice"}
        /\ calm' \subseteq calm \cup {"check"}
    BY <1>1 DEF View, IInv, JobsAndPhases
  <1>3. \A s \in found : s = Found
    BY <1>1, FoundIsOne DEF IInv
  <1>4. TypeOK' /\ JobsAndPhases'
    BY <1>1, <1>2 DEF IInv, TypeOK, JobsAndPhases
  <1>5. IndexIsCurrent'
    BY <1>1, <1>2 DEF IInv, IndexIsCurrent, IndexedFiles
  <1>6. FoundIsIndexed'
    BY <1>1, <1>2 DEF IInv, FoundIsIndexed, IndexedFiles, Current
  <1>7. CheckHolds'
    <2>1. phase' # "refused" => Cut(t, Found) = Current.hash
      BY <1>1
    <2> QED
      BY <1>1, <1>2, <1>3, <2>1 DEF CheckHolds, Current
  <1>8. CycleDeletesOne' /\ ReportIsCurrent'
    BY <1>1, <1>2 DEF IInv, CycleDeletesOne, ReportIsCurrent
  <1>9. FirstIsKnown'
    BY <1>1, <1>2 DEF IInv, FirstIsKnown, NothingStaged
  <1> QED
    BY <1>4, <1>5, <1>6, <1>7, <1>8, <1>9 DEF IInv

LEMMA ExpandKeeps ==
  ASSUME IInv, Expand
  PROVE  IInv'
  <1>1. /\ phase = "expand" /\ phase' \in {"crashed", "splice"}
        /\ UNCHANGED <<disk, scope, client, job, unread, indexed, todo, proposals, selected, staged,
                       ops, found, applied, passed, diff, origin, calm, moved>>
    BY DEF Expand, requests, index, suggesting, editing, reporting
  <1>2. View' = View /\ job = "edit"
    BY <1>1 DEF View, IInv, JobsAndPhases
  <1>3. TypeOK' /\ JobsAndPhases'
    BY <1>1, <1>2 DEF IInv, TypeOK, JobsAndPhases
  <1>4. IndexIsCurrent'
    BY <1>1, <1>2 DEF IInv, IndexIsCurrent, IndexedFiles
  <1>5. FoundIsIndexed'
    BY <1>1, <1>2 DEF IInv, FoundIsIndexed, IndexedFiles, Current
  <1>6. CheckHolds'
    BY <1>1, <1>2 DEF IInv, CheckHolds, Current
  <1>7. CycleDeletesOne' /\ ReportIsCurrent'
    BY <1>1, <1>2 DEF IInv, CycleDeletesOne, ReportIsCurrent
  <1>8. FirstIsKnown'
    BY <1>1, <1>2 DEF IInv, FirstIsKnown, NothingStaged
  <1> QED
    BY <1>3, <1>4, <1>5, <1>6, <1>7, <1>8 DEF IInv

(* What an edit does: one file's staged text is what was read, with the    *)
(* lines of the symbol replaced.                                           *)
LEMMA EditEffect ==
  ASSUME IInv, ApplyFileEdit, applied' # applied
  PROVE  LET f == Found.file
             t == View[f]
         IN  /\ f \in File /\ Found \in found /\ Found \in Symbol /\ Found.from <= Found.to
             /\ \A s \in found : s = Found
             /\ t \in Seq(Line) /\ ~OutOfRange(t, Found) /\ Current \in Op /\ ops # <<>>
             /\ staged' = [staged EXCEPT ![f] = Splice(t, Found, Current.source)]
             /\ Splice(t, Found, Current.source) \in Seq(Line)
             /\ Cut(t, Found) \in Seq(Line)
             /\ applied' = Append(applied, [op |-> Current, cut |-> Cut(t, Found), file |-> f])
             /\ applied' \in Seq(Removal) /\ Len(applied') = Len(applied) + 1
             /\ applied'[Len(applied')] = [op |-> Current, cut |-> Cut(t, Found), file |-> f]
             /\ ops' = Tail(ops) /\ ops' \in Seq(Op) /\ Len(ops') = Len(ops) - 1
  <1> DEFINE f == Found.file
             t == View[f]
             removal == [op |-> Current, cut |-> Cut(t, Found), file |-> f]
  <1>1. phase = "splice"
    BY DEF ApplyFileEdit
  <1>2. /\ Found \in found /\ Found \in Symbol /\ f \in File
        /\ \A s \in found : s = Found
        /\ ops # <<>> /\ Current \in Op
    BY <1>1, FoundIsOne DEF IInv
  <1>3. Found.from <= Found.to
    BY <1>2 DEF IInv, JobsAndPhases
  <1>4. ~OutOfRange(t, Found) /\ Parses(Splice(t, Found, Current.source))
    BY DEF ApplyFileEdit, editing
  <1>5. t \in Seq(Line)
    BY <1>2, ViewIsText DEF IInv
  <1>6. /\ staged' = [staged EXCEPT ![f] = Splice(t, Found, Current.source)]
        /\ applied' = Append(applied, removal)
        /\ ops' = Tail(ops)
    BY <1>4 DEF ApplyFileEdit
  <1>7. Current.source \in Seq(Line)
    BY <1>2 DEF Op
  <1>8. Splice(t, Found, Current.source) \in Seq(Line)
    BY <1>2, <1>3, <1>4, <1>5, <1>7, SpliceIsText
  <1>9. Cut(t, Found) \in Seq(Line)
    BY <1>2, <1>4, <1>5, CutIsText
  <1>10. removal \in Removal /\ applied \in Seq(Removal)
    BY <1>2, <1>9 DEF Removal, IInv, JobsAndPhases
  <1> HIDE DEF f, t, removal
  <1>11. /\ applied' \in Seq(Removal) /\ Len(applied') = Len(applied) + 1
         /\ applied'[Len(applied) + 1] = removal
    BY <1>6, <1>10, AppendProperties
  <1>12. ops' \in Seq(Op) /\ Len(ops') = Len(ops) - 1
    BY <1>2, <1>6, HeadTailProperties DEF IInv, TypeOK
  <1> QED
    BY <1>2, <1>3, <1>4, <1>5, <1>6, <1>8, <1>9, <1>11, <1>12 DEF f, t, removal

(* A deletion leaves what comes before the lines and what comes after.     *)
LEMMA DeletionLeavesRest ==
  ASSUME NEW t \in Seq(Line), NEW s \in Symbol, ~OutOfRange(t, s), s.from <= s.to
  PROVE  LET cut == Cut(t, s) IN
         \E i \in 0..(Len(t) - Len(cut)) :
           /\ SubSeq(t, i + 1, i + Len(cut)) = cut
           /\ Splice(t, s, <<>>) = Without(t, i, Len(cut))
  <1> DEFINE i == s.from - 1
             n == Len(Cut(t, s))
  <1>1. s.from \in Nat \ {0} /\ s.to \in Nat /\ s.to <= Len(t) /\ Len(t) \in Nat
    BY DEF Symbol, OutOfRange
  <1>2. n = s.to - s.from + 1
    BY CutIsText
  <1> HIDE DEF n
  <1>3. i \in 0..(Len(t) - n) /\ i + 1 = s.from /\ i + n = s.to /\ i + n + 1 = s.to + 1
    BY <1>1, <1>2
  <1>4. SubSeq(t, i + 1, i + n) = Cut(t, s)
    BY <1>3 DEF Cut
  <1>5. Splice(t, s, <<>>) = Without(t, i, n)
    <2>1. SubSeq(t, 1, i) \in Seq(Line)
      <3>1. i \in Nat /\ i <= Len(t)
        BY <1>1
      <3> QED
        BY <3>1, SubSeqIsText
    <2>2. SubSeq(t, 1, i) \o <<>> = SubSeq(t, 1, i)
      BY <2>1, ConcatEmptySeq
    <2> QED
      BY <2>2, <1>3 DEF Splice, Without
  <1> HIDE DEF i
  <1> QED
    BY <1>3, <1>4, <1>5 DEF n

(* An edit that is refused changes nothing.                                *)
LEMMA RefusalChangesNothing ==
  ASSUME IInv, ApplyFileEdit, applied' = applied
  PROVE  phase' = "refused" /\ UNCHANGED <<unread, indexed, staged, ops, found, calm>>
  <1>1. OutOfRange(View[Found.file], Found) \/ ~Parses(Splice(View[Found.file], Found, Current.source))
    <2>1. applied \in Seq(Removal)
      BY DEF IInv, JobsAndPhases
    <2>2. \A e : applied # Append(applied, e)
      <3> TAKE e
      <3>1. Len(Append(applied, e)) = Len(applied) + 1
        BY <2>1
      <3>2. Len(applied) \in Nat
        BY <2>1
      <3> QED
        BY <3>1, <3>2
    <2> QED
      BY <2>2 DEF ApplyFileEdit
  <1> QED
    BY <1>1 DEF ApplyFileEdit, index, editing

LEMMA ApplyFileEditKeeps ==
  ASSUME IInv, ApplyFileEdit
  PROVE  IInv'
  <1> DEFINE f == Found.file
             t == View[f]
  <1>1. /\ phase = "splice"
        /\ UNCHANGED <<disk, scope, client, job, todo, proposals, selected, passed, diff,
                       origin, moved>>
    BY DEF ApplyFileEdit, requests, suggesting, reporting
  <1>2. job = "edit"
    BY <1>1 DEF IInv, JobsAndPhases
  <1>3. CASE applied' = applied
    <2>2. phase' = "refused" /\ UNCHANGED <<unread, indexed, staged, ops, found, applied, calm>>
      BY <1>3, RefusalChangesNothing
    <2>3. View' = View
      BY <1>1, <2>2 DEF View
    <2>4. TypeOK' /\ JobsAndPhases'
      BY <1>1, <2>2 DEF IInv, TypeOK, JobsAndPhases
    <2>5. IndexIsCurrent'
      BY <2>2, <2>3 DEF IInv, IndexIsCurrent, IndexedFiles
    <2>6. FoundIsIndexed' /\ CheckHolds' /\ CycleDeletesOne' /\ ReportIsCurrent'
      BY <1>1, <2>2 DEF IInv, FoundIsIndexed, CheckHolds, CycleDeletesOne, ReportIsCurrent
    <2>7. FirstIsKnown'
      BY <1>1, <1>2, <2>2 DEF IInv, FirstIsKnown, NothingStaged
    <2> QED
      BY <2>4, <2>5, <2>6, <2>7 DEF IInv
  <1>4. CASE applied' # applied
    <2>1. /\ f \in File /\ Found \in found /\ Found \in Symbol /\ Found.from <= Found.to
          /\ t \in Seq(Line) /\ ~OutOfRange(t, Found)
          /\ staged' = [staged EXCEPT ![f] = Splice(t, Found, Current.source)]
          /\ Splice(t, Found, Current.source) \in Seq(Line)
          /\ applied' = Append(applied, [op |-> Current, cut |-> Cut(t, Found), file |-> f])
          /\ applied' \in Seq(Removal) /\ Len(applied') = Len(applied) + 1
          /\ applied'[Len(applied')] = [op |-> Current, cut |-> Cut(t, Found), file |-> f]
          /\ ops \in Seq(Op) /\ ops # <<>>
          /\ ops' \in Seq(Op) /\ Len(ops') = Len(ops) - 1
      BY <1>4, EditEffect DEF IInv, TypeOK
    <2>2. applied' # <<>>
      <3>1. Len(applied) \in Nat /\ Len(applied') # 0
        BY <2>1 DEF IInv, JobsAndPhases
      <3> QED
        BY <3>1
    <2>3. staged' \in [File -> Texts]
      BY <2>1 DEF IInv, TypeOK, Texts
    <2>4. FirstIsKnown'
      BY <1>1, <1>2, <2>2 DEF IInv, FirstIsKnown
    <2>5. CASE ops' = <<>>
      <3>1. /\ phase' = IF client = "cycle" THEN "validate" ELSE "done"
            /\ calm' = (calm \ {"index", "check"}) \cup {"splice"}
            /\ UNCHANGED <<unread, indexed, found>>
        BY <1>4, <2>5 DEF ApplyFileEdit, editing, index
      <3>2. TypeOK' /\ JobsAndPhases'
        BY <1>1, <1>2, <2>1, <2>3, <3>1 DEF IInv, TypeOK, JobsAndPhases
      <3>3. IndexIsCurrent'
        BY <3>1 DEF IInv, IndexIsCurrent, IndexedFiles
      <3>4. FoundIsIndexed' /\ CheckHolds'
        BY <3>1 DEF FoundIsIndexed, CheckHolds
      <3>5. client = "cycle" => applied = <<>> /\ Current.source = <<>>
        <4>1. client = "cycle" => applied = <<>> /\ ops[1].source = <<>>
          BY <1>1, <1>2 DEF IInv, CycleDeletesOne
        <4>2. Current = ops[1]
          BY <2>1 DEF Current
        <4> QED
          BY <4>1, <4>2
      <3>6. client = "cycle" => Len(applied') = 1
        BY <2>1, <3>5
      <3>7. CycleDeletesOne'
        BY <1>1, <3>1, <3>6 DEF CycleDeletesOne
      <3>8. ReportIsCurrent'
        <4>1. CASE client = "cycle"
          <5>1. t = disk[f] /\ staged' = [staged EXCEPT ![f] = Splice(disk[f], Found, <<>>)]
            <6>1. staged = NothingStaged
              BY <4>1, <3>5 DEF IInv, FirstIsKnown
            <6>2. t = disk[f]
              BY <2>1, <6>1 DEF View, NothingStaged
            <6> QED
              BY <6>2, <2>1, <4>1, <3>5
          <5>2. staged'[f] = Splice(disk[f], Found, <<>>)
            BY <2>1, <5>1 DEF IInv, TypeOK
          <5>3. applied'[1].file = f /\ applied'[1].cut = Cut(disk[f], Found)
            BY <2>1, <3>6, <4>1, <5>1
          <5>4. disk[f] \in Seq(Line) /\ ~OutOfRange(disk[f], Found)
            BY <2>1, <5>1
          <5> HIDE DEF f, t
          <5>5. LET cut == Cut(disk[f], Found) IN
                \E i \in 0..(Len(disk[f]) - Len(cut)) :
                  /\ SubSeq(disk[f], i + 1, i + Len(cut)) = cut
                  /\ Splice(disk[f], Found, <<>>) = Without(disk[f], i, Len(cut))
            BY <2>1, <5>4, DeletionLeavesRest
          <5>6. phase' = "validate" /\ disk' = disk
            BY <1>1, <3>1, <4>1
          <5> QED
            BY <5>2, <5>3, <5>5, <5>6 DEF ReportIsCurrent
        <4>2. CASE client # "cycle"
          BY <4>2, <3>1 DEF ReportIsCurrent
        <4> QED
          BY <4>1, <4>2
      <3> QED
        BY <2>4, <3>2, <3>3, <3>4, <3>7, <3>8 DEF IInv
    <2>6. CASE ops' # <<>>
      <3>1. /\ StartIndex(SelectorScope) /\ found' = {}
            /\ calm' = (calm \ {"check"}) \cup {"index", "splice"}
        BY <1>4, <2>6 DEF ApplyFileEdit, editing
      <3>2. /\ phase' = "index" /\ unread' \subseteq File
            /\ indexed' \in [File -> Texts] /\ IndexIsCurrent'
        BY <3>1, StartIndexEffect
      <3>3. TypeOK'
        BY <1>1, <2>1, <2>3, <3>1, <3>2 DEF IInv, TypeOK
      <3>4. JobsAndPhases'
        BY <1>1, <1>2, <2>1, <2>6, <3>1, <3>2 DEF IInv, JobsAndPhases
      <3>5. FoundIsIndexed' /\ CheckHolds' /\ ReportIsCurrent'
        BY <3>1, <3>2 DEF FoundIsIndexed, CheckHolds, ReportIsCurrent
      <3>6. CycleDeletesOne'
        <4>1. client = "cycle" => Len(ops) = 1
          BY <1>1, <1>2 DEF IInv, CycleDeletesOne
        <4>2. client # "cycle"
          <5>1. Len(ops') # 0
            BY <2>1, <2>6, EmptySeq
          <5>2. Len(ops) # 1
            BY <2>1, <5>1
          <5> QED
            BY <4>1, <5>2
        <4> QED
          BY <4>2, <1>1, <3>2 DEF CycleDeletesOne
      <3> QED
        BY <2>4, <3>2, <3>3, <3>4, <3>5, <3>6 DEF IInv
    <2> QED
      BY <2>5, <2>6
  <1> QED
    BY <1>3, <1>4

LEMMA ReportKeeps ==
  ASSUME IInv, Validate \/ Diff
  PROVE  IInv'
  <1>1. /\ phase \in {"validate", "diff"} /\ phase' \in {"diff", "done"}
        /\ UNCHANGED <<disk, scope, client, job, unread, indexed, todo, proposals, selected, staged,
                       ops, found, applied, origin, calm, moved>>
    BY DEF Validate, Diff, requests, index, suggesting, editing
  <1>2. passed' \in BOOLEAN /\ Len(diff') <= 1
    <2>1. CASE Validate
      BY <2>1 DEF Validate, Resolved, IInv, TypeOK
    <2>2. CASE Diff
      <3>1. diff' = <<[before |-> disk[applied[1].file], after |-> staged[applied[1].file]]>>
            /\ passed' = passed
        BY <2>2 DEF Diff
      <3>2. Len(diff') = 1
        BY <3>1
      <3> QED
        BY <3>1, <3>2 DEF IInv, TypeOK
    <2> QED
      BY <2>1, <2>2
  <1>3. View' = View /\ Validated' = Validated /\ job = "edit"
    BY <1>1 DEF View, Validated, InScope, IInv, JobsAndPhases
  <1>4. TypeOK' /\ JobsAndPhases'
    BY <1>1, <1>2, <1>3 DEF IInv, TypeOK, JobsAndPhases
  <1>5. IndexIsCurrent'
    BY <1>1, <1>3 DEF IInv, IndexIsCurrent, IndexedFiles
  <1>6. FoundIsIndexed' /\ CheckHolds' /\ CycleDeletesOne'
    BY <1>1 DEF IInv, FoundIsIndexed, CheckHolds, CycleDeletesOne
  <1>7. FirstIsKnown'
    BY <1>1, <1>3 DEF IInv, FirstIsKnown, NothingStaged
  <1>8. ReportIsCurrent'
    <2>1. phase' = "diff" => passed' = Resolved(View', Validated')
      BY <1>3 DEF Validate, Diff
    <2> QED
      BY <1>1, <1>3, <2>1 DEF IInv, ReportIsCurrent
  <1> QED
    BY <1>4, <1>5, <1>6, <1>7, <1>8 DEF IInv

(* Another program's write ends every calm.                                *)
LEMMA OtherEditKeeps ==
  ASSUME IInv, NEW f \in File, Edit(f)
  PROVE  IInv'
  <1>1. /\ moved < MaxChanges /\ moved' = moved + 1 /\ calm' = {}
        /\ UNCHANGED <<scope, client, job, phase, unread, indexed, todo, proposals, selected, staged,
                       ops, found, applied, passed, diff, origin>>
    BY DEF Edit, requests, index, suggesting, editing, reporting
  <1>2. disk' \in [File -> Seq(Line)]
    <2>1. PICK t \in Changed[f] : disk' = [disk EXCEPT ![f] = t]
      BY DEF Edit
    <2>2. t \in Seq(Line)
      BY <2>1, TextAssumption
    <2> QED
      BY <2>1, <2>2 DEF IInv, TypeOK
  <1>3. TypeOK' /\ JobsAndPhases'
    BY <1>1, <1>2, BoundAssumption DEF IInv, TypeOK, JobsAndPhases
  <1>4. IndexIsCurrent' /\ FoundIsIndexed' /\ CheckHolds' /\ CycleDeletesOne' /\ ReportIsCurrent'
    BY <1>1 DEF IInv, IndexIsCurrent, IndexedFiles, FoundIsIndexed, CheckHolds, CycleDeletesOne,
                ReportIsCurrent, Current
  <1>5. FirstIsKnown'
    BY <1>1 DEF IInv, FirstIsKnown, NothingStaged, InScope
  <1> QED
    BY <1>3, <1>4, <1>5 DEF IInv

LEMMA StutterKeeps ==
  ASSUME IInv, UNCHANGED vars
  PROVE  IInv'
  <1>1. UNCHANGED <<disk, scope, client, job, phase, unread, indexed, todo, proposals, selected,
                    staged, ops, found, applied, passed, diff, origin, calm, moved>>
    BY DEF vars, requests, index, suggesting, editing, reporting
  <1>2. View' = View /\ Validated' = Validated /\ FirstDeletion' = FirstDeletion
    BY <1>1 DEF View, Validated, InScope, FirstDeletion, Deletion, Indexed
  <1>3. TypeOK' /\ JobsAndPhases'
    BY <1>1 DEF IInv, TypeOK, JobsAndPhases
  <1>4. IndexIsCurrent' /\ FoundIsIndexed' /\ CheckHolds' /\ CycleDeletesOne'
    BY <1>1, <1>2 DEF IInv, IndexIsCurrent, IndexedFiles, FoundIsIndexed, CheckHolds,
                      CycleDeletesOne, Current
  <1>5. FirstIsKnown'
    <2>1. Indexed(unread)' = Indexed(unread) /\ Indexed({})' = Indexed({})
      BY <1>1 DEF Indexed, InScope
    <2> QED
      BY <1>1, <1>2, <2>1 DEF IInv, FirstIsKnown, NothingStaged
  <1>6. ReportIsCurrent'
    BY <1>1, <1>2 DEF IInv, ReportIsCurrent
  <1> QED
    BY <1>3, <1>4, <1>5, <1>6 DEF IInv

LEMMA IInvStep == IInv /\ [Next]_vars => IInv'
  <1> SUFFICES ASSUME IInv, [Next]_vars
               PROVE  IInv'
    OBVIOUS
  <1>1. CASE IndexFile \/ FindUnused \/ Propose \/ Select \/ Pick
    BY <1>1, IndexFileKeeps, FindUnusedKeeps, ProposeKeeps, SelectKeeps, PickKeeps
  <1>2. CASE Match \/ Fetch \/ CheckExpectedHash \/ Expand \/ ApplyFileEdit
    BY <1>2, MatchKeeps, FetchKeeps, CheckExpectedHashKeeps, ExpandKeeps, ApplyFileEditKeeps
  <1>3. CASE Validate \/ Diff
    BY <1>3, ReportKeeps
  <1>4. CASE \E f \in File : Edit(f)
    BY <1>4, OtherEditKeeps
  <1>5. CASE UNCHANGED vars
    BY <1>5, StutterKeeps
  <1> QED
    BY <1>1, <1>2, <1>3, <1>4, <1>5 DEF Next

LEMMA Invariance == Spec => []IInv
  BY InitOK, IInvStep, PTL DEF Spec

-----------------------------------------------------------------------------
(* The theorems.                                                           *)

(* Every variable holds a value of its kind, and an operation has found the*)
(* one symbol it is about before it reads, checks, widens or cuts.         *)
THEOREM TypeCorrect == Spec => []TypeOK
  BY Invariance, PTL DEF IInv

(* Only applyFileEdits records an operation.                               *)
LEMMA OnlyEditsApply ==
  ASSUME [Next]_vars, applied' # applied
  PROVE  ApplyFileEdit
  BY DEF Next, vars, editing, IndexFile, FindUnused, Propose, Select, Pick, Match, Fetch,
         CheckExpectedHash, CheckAgainst, Expand, Validate, Diff, Edit

(* What a client writes in place of a symbol begins a declaration.         *)
Begins(source) == source # <<>> => source[1].part = 1

SourcesBegin == \A k \in 1..Len(ops) : Begins(ops[k].source)

LEMMA SourcesBeginInit == Init => SourcesBegin
  <1> SUFFICES ASSUME Init
               PROVE  SourcesBegin
    OBVIOUS
  <1>1. CASE ops = <<>>
    BY <1>1 DEF SourcesBegin
  <1>2. CASE ops # <<>>
    <2>1. PICK n \in Name, d \in Source :
            ops = <<[target |-> [file |-> Least(File), kind |-> "func", name |-> n, at |-> 0],
                     hash |-> <<>>, source |-> Lines(d)]>>
      BY <1>2 DEF Init
    <2>2. d.size \in Nat \ {0}
      <3>1. d \in Decl
        BY TextAssumption
      <3> QED
        BY <3>1 DEF Decl
    <2>3. Lines(d)[1].part = 1
      BY <2>2 DEF Lines
    <2>4. Len(ops) = 1 /\ ops[1].source = Lines(d)
      BY <2>1
    <2> QED
      BY <2>3, <2>4 DEF SourcesBegin, Begins
  <1> QED
    BY <1>1, <1>2

LEMMA SourcesBeginStep ==
  ASSUME IInv, SourcesBegin, [Next]_vars
  PROVE  SourcesBegin'
  <1>1. ops \in Seq(Op) /\ proposals \in Seq(Op)
        /\ \A k \in 1..Len(proposals) : proposals[k].source = <<>>
    BY DEF IInv, TypeOK, FirstIsKnown
  <1>2. CASE ops' = ops
    BY <1>2 DEF SourcesBegin
  <1>3. CASE Pick /\ ops' # ops
    <2>1. proposals # <<>> /\ (ops' = <<Head(proposals)>> \/ ops' = proposals)
      BY <1>3 DEF Pick, StartEdit
    <2>2. CASE ops' = <<Head(proposals)>>
      <3>1. 1 \in 1..Len(proposals) /\ Head(proposals) = proposals[1]
        BY <1>1, <2>1
      <3>2. Len(ops') = 1 /\ ops'[1].source = <<>>
        BY <1>1, <2>2, <3>1
      <3> QED
        BY <3>2 DEF SourcesBegin, Begins
    <2>3. CASE ops' = proposals
      BY <1>1, <2>3 DEF SourcesBegin, Begins
    <2> QED
      BY <2>1, <2>2, <2>3
  <1>4. CASE Fetch /\ ops' # ops
    <2>1. phase = "fetch" /\ \E hash : ops' = <<[Current EXCEPT !.hash = hash]>>
      BY <1>4 DEF Fetch, StartEdit
    <2>2. Current \in Op /\ ops # <<>>
      BY <2>1, FoundIsOne DEF IInv
    <2>3. Len(ops') = 1 /\ ops'[1].source = Current.source
      BY <2>1, <2>2 DEF Op
    <2>4. 1 \in 1..Len(ops) /\ Current = ops[1]
      BY <1>1, <2>2 DEF Current
    <2> QED
      BY <2>3, <2>4 DEF SourcesBegin, Begins
  <1>5. CASE ApplyFileEdit /\ ops' # ops
    <2>1. ops' = Tail(ops) /\ phase = "splice"
      BY <1>5 DEF ApplyFileEdit, editing
    <2>2. ops # <<>>
      BY <2>1, FoundIsOne DEF IInv
    <2>3. \A k \in 1..Len(ops') : k + 1 \in 1..Len(ops) /\ ops'[k] = ops[k + 1]
      BY <1>1, <2>1, <2>2
    <2> QED
      BY <2>3 DEF SourcesBegin
  <1>6. CASE Next /\ ~Pick /\ ~Fetch /\ ~ApplyFileEdit
    <2>1. ops' = ops
      BY <1>6 DEF Next, IndexFile, FindUnused, Propose, Select, Match, CheckExpectedHash,
                  CheckAgainst, Expand, Validate, Diff, Edit, editing
    <2> QED
      BY <1>2, <2>1
  <1>7. CASE UNCHANGED vars
    BY <1>2, <1>7 DEF vars, editing
  <1> QED
    BY <1>2, <1>3, <1>4, <1>5, <1>6, <1>7

(* What an edit cuts is not a field.                                       *)
LEMMA FoundIsNoField ==
  ASSUME IInv, SourcesBegin, ApplyFileEdit, applied' # applied, "index" \in calm
  PROVE  /\ Found.file \in IndexedFiles(indexed) /\ Parses(View[Found.file])
         /\ indexed[Found.file] = View[Found.file]
         /\ Found \in SymbolsOf(Found.file, View[Found.file]) /\ Found.kind # "field"
         /\ Found.name = Current.target.name
  <1> DEFINE f == Found.file
             t == View[f]
  <1>1. phase = "splice" /\ Parses(Splice(t, Found, Current.source))
    BY DEF ApplyFileEdit, editing
  <1>2. /\ f \in File /\ Found \in found /\ t \in Seq(Line)
        /\ Current \in Op /\ ops # <<>>
    BY EditEffect
  <1>3. /\ f \in IndexedFiles(indexed) /\ Found \in SymbolsOf(f, indexed[f])
        /\ Found.name = Current.target.name
    BY <1>1, <1>2 DEF IInv, FoundIsIndexed
  <1>4. Parses(indexed[f]) /\ indexed[f] = t
    BY <1>1, <1>3 DEF IInv, IndexIsCurrent
  <1>5. Begins(Current.source) /\ Current.source \in Seq(Line)
    <2>1. ops \in Seq(Op)
      BY DEF IInv, TypeOK
    <2>2. 1 \in 1..Len(ops) /\ Current = ops[1]
      BY <1>2, <2>1 DEF Current
    <2> QED
      BY <1>2, <2>2 DEF SourcesBegin, Op
  <1> HIDE DEF f, t
  <1>6. Found.kind # "field"
    BY <1>1, <1>2, <1>3, <1>4, <1>5, FieldsAreNotCut DEF Begins
  <1> QED
    BY <1>3, <1>4, <1>6 DEF f, t

(* An expected hash guards the cut, whatever other programs write before it*)
(* is checked: checkExpectedHash compares what applyFileEdits will cut. And*)
(* an operation no change falls into cuts a whole declaration of the name. *)
THEOREM HashesGuard == Spec => HashGuards
  <1>1. ASSUME IInv, SourcesBegin, [Next]_vars, applied' # applied
        PROVE  /\ "check" \in calm => applied'[Len(applied')].cut = Current.hash
               /\ "index" \in calm =>
                    WholeDeclaration(applied'[Len(applied')].cut, Current.target.name)
    <2> DEFINE f == Found.file
               t == View[f]
    <2>1. ApplyFileEdit /\ phase = "splice"
      <3>1. ApplyFileEdit
        BY <1>1, OnlyEditsApply
      <3> QED
        BY <3>1 DEF ApplyFileEdit
    <2>2. /\ f \in File /\ Found \in found /\ t \in Seq(Line)
          /\ applied'[Len(applied')].cut = Cut(t, Found)
      BY <1>1, <2>1, EditEffect
    <2>3. "check" \in calm => Cut(t, Found) = Current.hash
      BY <1>1, <2>1, <2>2 DEF IInv, CheckHolds
    <2>4. ASSUME "index" \in calm
          PROVE  WholeDeclaration(Cut(t, Found), Current.target.name)
      <3>1. /\ Parses(t) /\ Found \in SymbolsOf(f, t) /\ Found.kind # "field"
            /\ Found.name = Current.target.name
        BY <1>1, <2>1, <2>4, FoundIsNoField
      <3> HIDE DEF f, t
      <3>3. WholeDeclaration(Cut(t, Found), Found.name)
        BY <2>2, <3>1, CutOfSymbolIsWhole
      <3> QED
        BY <3>1, <3>3
    <2> QED
      BY <2>2, <2>3, <2>4
  <1>2. IInv /\ SourcesBegin /\ [Next]_vars =>
          [\A k \in 1..Len(applied') :
             (applied' # applied /\ k = Len(applied')) =>
               /\ "check" \in calm => applied'[k].cut = Current.hash
               /\ "index" \in calm => WholeDeclaration(applied'[k].cut, Current.target.name)]_vars
    BY <1>1
  <1>3. Init => SourcesBegin
    BY SourcesBeginInit
  <1>4. IInv /\ SourcesBegin /\ [Next]_vars => SourcesBegin'
    BY SourcesBeginStep
  <1> QED
    BY <1>2, <1>3, <1>4, Invariance, PTL DEF Spec, HashGuards

(* cycle applies the suggestion it has shown, counted twice, as long as no *)
(* file changes meanwhile; and its diff and its verdict are of the one edit*)
(* it made, as long as no file changes after that.                         *)
THEOREM CycleReportsTheEdit == Spec => CycleReportsOneEdit
  <1>1. ASSUME IInv, [Next]_vars, client = "cycle", job' = "edit", job # "edit", "begin" \in calm
        PROVE  ops' = selected
    <2>1. Pick \/ Fetch
      BY <1>1 DEF Next, vars, IndexFile, FindUnused, Propose, Select, Match,
             CheckExpectedHash, CheckAgainst, Expand, ApplyFileEdit, Validate, Diff, Edit
    <2>2. ~Fetch
      BY <1>1 DEF Fetch, IInv, JobsAndPhases
    <2>3. /\ phase = "propose" /\ job = "suggest" /\ proposals # <<>>
          /\ ops' = <<Head(proposals)>>
      BY <1>1, <2>1, <2>2 DEF Pick, StartEdit
    <2>4. Head(proposals) = FirstDeletion /\ selected = <<FirstDeletion>>
      BY <1>1, <2>3 DEF IInv, FirstIsKnown
    <2> QED
      BY <2>3, <2>4
  <1>2. ASSUME IInv, [Next]_vars, diff' # diff, "splice" \in calm
        PROVE  /\ LET old == diff'[1].before
                      cut == applied[1].cut
                  IN  \E i \in 0..(Len(old) - Len(cut)) :
                        /\ SubSeq(old, i + 1, i + Len(cut)) = cut
                        /\ diff'[1].after =
                             SubSeq(old, 1, i) \o SubSeq(old, i + Len(cut) + 1, Len(old))
               /\ passed = Resolved(View, Validated)
    <2>1. Diff
      BY <1>2 DEF Next, vars, reporting, IndexFile, FindUnused, Propose, Select, Pick, Match, Fetch,
             CheckExpectedHash, CheckAgainst, Expand, ApplyFileEdit, Validate, Edit
    <2> DEFINE f == applied[1].file
    <2>2. /\ phase = "diff"
          /\ diff'[1].before = disk[f] /\ diff'[1].after = staged[f]
      BY <2>1 DEF Diff
    <2>3. /\ LET cut == applied[1].cut IN
             \E i \in 0..(Len(disk[f]) - Len(cut)) :
               /\ SubSeq(disk[f], i + 1, i + Len(cut)) = cut
               /\ staged[f] = Without(disk[f], i, Len(cut))
          /\ passed = Resolved(View, Validated)
      BY <1>2, <2>2 DEF IInv, ReportIsCurrent
    <2> QED
      BY <2>2, <2>3 DEF Without
  <1>3. IInv /\ [Next]_vars =>
          [/\ (client = "cycle" /\ job' = "edit" /\ job # "edit" /\ "begin" \in calm) =>
                 ops' = selected
           /\ (diff' # diff /\ "splice" \in calm) =>
                /\ LET old == diff'[1].before
                       cut == applied[1].cut
                   IN  \E i \in 0..(Len(old) - Len(cut)) :
                         /\ SubSeq(old, i + 1, i + Len(cut)) = cut
                         /\ diff'[1].after =
                              SubSeq(old, 1, i) \o SubSeq(old, i + Len(cut) + 1, Len(old))
                /\ passed = Resolved(View, Validated)]_vars
    BY <1>1, <1>2
  <1> QED
    BY <1>3, Invariance, PTL DEF Spec, CycleReportsOneEdit

-----------------------------------------------------------------------------
(* Deletions of what is unused. Of a text that parses whole declarations   *)
(* are cut; what is left of it lies in it in the same order, and whatever  *)
(* continues a declaration or a constant group follows what it followed.   *)
Attached(line) == line.part > 1 \/ line.decl.kind = "const"

Embeds(e, t, o) ==
  /\ e \in [1..Len(t) -> 1..Len(o)]
  /\ \A i \in 1..Len(t) : t[i] = o[e[i]]
  /\ \A i, j \in 1..Len(t) : i < j => e[i] < e[j]
  /\ \A i \in 1..Len(t) : Attached(t[i]) => i > 1 /\ e[i - 1] = e[i] - 1

LeftOf(t, o) == \E e : Embeds(e, t, o)

(* While nothing changes, all that is proposed and applied is a deletion of*)
(* a name the index of the disk has no use of, and each operation reads the*)
(* texts that the one before it has left.                                  *)
UnusedNames == {s.name : s \in Unused(Indexed({}))}

OnlyUnusedGo ==
  "begin" \in calm /\ client # "reader" =>
    /\ disk = origin
    /\ job = "edit" /\ phase \in {"index", "check", "expand", "splice"} => "index" \in calm
    /\ phase = "propose" => \A s \in todo : s.name \in UnusedNames
    /\ \A k \in 1..Len(proposals) : proposals[k].target.name \in UnusedNames
    /\ \A k \in 1..Len(ops) : ops[k].target.name \in UnusedNames /\ ops[k].source = <<>>
    /\ \A k \in 1..Len(applied) : applied[k].op.target.name \in UnusedNames

(* Nothing else goes, as long as the index has seen all of what goes.      *)
AllSeen == \A k \in 1..Len(applied) : ~Unseen(origin, applied[k].op.target.name)

Gone == {applied[k].op.target.name : k \in 1..Len(applied)}

RestStays ==
  "begin" \in calm /\ client # "reader" /\ Resolved(origin, File) /\ AllSeen =>
    \A f \in File :
      /\ Parses(View[f])
      /\ LeftOf(View[f], origin[f])
      /\ \A n \in Name \ Gone : Declares(origin, f, n) => Declares(View, f, n)

(* A line is a declaration's, and what else a text is made of.             *)
LEMMA LinesAreParts ==
  ASSUME NEW t \in Seq(Line), NEW i \in 1..Len(t)
  PROVE  /\ t[i] \in Line /\ t[i].decl \in Decl /\ t[i].part \in Nat \ {0}
         /\ t[i].decl.size \in Nat \ {0}
         /\ t[i].decl.names \subseteq Name /\ t[i].decl.names # {}
         /\ t[i] = [decl |-> t[i].decl, part |-> t[i].part]
  <1>1. t[i] \in Line
    OBVIOUS
  <1>2. /\ t[i].decl \in Decl /\ t[i].part \in Nat \ {0}
        /\ t[i] = [decl |-> t[i].decl, part |-> t[i].part]
    BY <1>1 DEF Line
  <1>3. /\ t[i].decl.size \in Nat \ {0} /\ t[i].decl.names \in (SUBSET Name) \ {{}}
    BY <1>2 DEF Decl
  <1> QED
    BY <1>1, <1>2, <1>3

(* The m lines up to line i, as long as they lie side by side in both texts*)
(* continue something; and they do lie so, with the line before them.      *)
Tied(e, t, i, m) ==
  \A x \in 0..(m - 1) : (i - x >= 1 /\ e[i - x] = e[i] - x) => Attached(t[i - x])

Beside(e, i, m) == \A x \in 0..m : i - x >= 1 /\ e[i - x] = e[i] - x

(* Going back from a line as long as lines continue something, the text    *)
(* and what is left of it stay side by side: at the first line where they  *)
(* part, the one after it would continue nothing.                          *)
LEMMA SideBySide ==
  ASSUME NEW t \in Seq(Line), NEW o \in Seq(Line), NEW e, Embeds(e, t, o),
         NEW i \in 1..Len(t), NEW m \in Nat, Tied(e, t, i, m)
  PROVE  Beside(e, i, m)
  <1> DEFINE At(x) == i - x >= 1 /\ e[i - x] = e[i] - x
             apart == {x \in 0..m : ~At(x)}
  <1>1. Len(t) \in Nat /\ Len(o) \in Nat /\ i \in Int /\ e[i] \in Int
    BY DEF Embeds
  <1>2. At(0)
    <2>1. i - 0 = i /\ e[i] - 0 = e[i] /\ i >= 1
      BY <1>1
    <2> QED
      BY <2>1
  <1>3. ASSUME NEW x \in 0..(m - 1), At(x)
        PROVE  At(x + 1)
    <2> DEFINE j == i - x
    <2>1. j \in 1..Len(t) /\ Attached(t[j]) /\ e[j] = e[i] - x
      BY <1>1, <1>3 DEF Tied
    <2>2. j > 1 /\ e[j - 1] = e[j] - 1
      BY <2>1 DEF Embeds
    <2>3. i - (x + 1) = j - 1 /\ e[i] - (x + 1) = (e[i] - x) - 1 /\ j - 1 >= 1
      <3> DEFINE a == e[i]
      <3>1. i \in Int /\ a \in Int /\ x \in Int /\ j > 1
        BY <1>1, <2>2
      <3> HIDE DEF a
      <3>2. i - (x + 1) = i - x - 1 /\ a - (x + 1) = (a - x) - 1 /\ j - 1 >= 1
        BY <3>1
      <3> QED
        BY <3>2 DEF a
    <2> HIDE DEF j
    <2> QED
      BY <2>1, <2>2, <2>3
  <1>4. ASSUME apart # {}
        PROVE  FALSE
    <2>1. apart \in SUBSET Nat
      OBVIOUS
    <2>2. PICK x \in apart : \A y \in apart : x <= y
      <3> HIDE DEF apart
      <3> QED
        BY <1>4, <2>1, HasLeast
    <2>3. x \in 0..m /\ ~At(x) /\ x # 0
      BY <2>2, <1>2
    <2> HIDE DEF At
    <2>4. x - 1 \in 0..(m - 1) /\ x - 1 \in 0..m /\ ~(x <= x - 1) /\ (x - 1) + 1 = x
      BY <2>3
    <2>5. At(x - 1)
      BY <2>2, <2>4
    <2>6. At((x - 1) + 1)
      BY <2>4, <2>5, <1>3
    <2> QED
      BY <2>3, <2>4, <2>6
  <1> QED
    BY <1>4 DEF Beside

(* What is left of a text has whole declarations of it.                    *)
StaysWhole(t, o, e, h) ==
  /\ h \in 1..Len(t) /\ t[h].decl.size \in Nat \ {0}
  /\ h + t[h].decl.size - 1 \in 1..Len(t)
  /\ t[h + t[h].decl.size - 1] = [decl |-> t[h].decl, part |-> t[h].decl.size]
  /\ e[h] \in Heads(o) /\ o[e[h]].decl = t[h].decl
  /\ e[h + t[h].decl.size - 1] = e[h] + t[h].decl.size - 1

LEMMA DeclarationsStayWhole ==
  ASSUME NEW t \in Seq(Line), NEW o \in Seq(Line), Parses(t), NEW e, Embeds(e, t, o),
         NEW h \in Heads(t)
  PROVE  StaysWhole(t, o, e, h)
  <1> DEFINE d == t[h].decl
             n == d.size
             i == h + n - 1
             m == n - 1
  <1>1. h \in 1..Len(t) /\ t[h].part = 1 /\ n \in Nat \ {0} /\ Len(t) \in Nat
    <2>1. h \in 1..Len(t) /\ t[h].part = 1
      BY DEF Heads
    <2>2. n \in Nat \ {0}
      BY <2>1, LinesAreParts
    <2>3. Len(t) \in Nat
      OBVIOUS
    <2> HIDE DEF n
    <2> QED
      BY <2>1, <2>2, <2>3
  <1>2. \A k \in 1..n : h + k - 1 <= Len(t) /\ t[h + k - 1] = [decl |-> d, part |-> k]
    BY DeclarationIsWhole
  <1>3. \A y \in 1..Len(t) : t[y] = o[e[y]] /\ e[y] \in 1..Len(o)
    BY DEF Embeds
  <1> HIDE DEF n, d
  <1>4. i \in 1..Len(t) /\ t[i] = [decl |-> d, part |-> n]
    <2>1. n \in 1..n
      BY <1>1
    <2>2. i <= Len(t) /\ t[i] = [decl |-> d, part |-> n]
      BY <2>1, <1>2
    <2> QED
      BY <2>2, <1>1
  <1>5. m \in Nat
    BY <1>1
  <1>6. Tied(e, t, i, m)
    <2> SUFFICES ASSUME NEW x \in 0..(m - 1)
                 PROVE  Attached(t[i - x])
      BY DEF Tied
    <2>1. n - x \in 1..n /\ i - x = h + (n - x) - 1 /\ n - x > 1
      BY <1>1
    <2>2. t[i - x] = [decl |-> d, part |-> n - x]
      BY <2>1, <1>2
    <2> QED
      BY <2>1, <2>2 DEF Attached
  <1> HIDE DEF i, m
  <1>7. Beside(e, i, m)
    BY <1>4, <1>5, <1>6, SideBySide
  <1>8. e[h] = e[i] - m
    <2>1. m \in 0..m
      BY <1>5
    <2>2. i - m = h
      BY <1>1 DEF i, m
    <2> QED
      BY <2>1, <2>2, <1>7 DEF Beside
  <1>9. e[i] = e[h] + n - 1
    <2>1. e[i] \in Int /\ e[h] \in Int
      BY <1>1, <1>3, <1>4
    <2> QED
      BY <2>1, <1>1, <1>8 DEF m
  <1>10. e[h] \in Heads(o) /\ o[e[h]].decl = d
    BY <1>1, <1>3 DEF Heads, d
  <1>11. /\ h \in 1..Len(t) /\ t[h].decl.size \in Nat \ {0}
         /\ h + t[h].decl.size - 1 \in 1..Len(t)
         /\ t[h + t[h].decl.size - 1] = [decl |-> t[h].decl, part |-> t[h].decl.size]
         /\ e[h] \in Heads(o) /\ o[e[h]].decl = t[h].decl
         /\ e[h + t[h].decl.size - 1] = e[h] + t[h].decl.size - 1
    BY <1>1, <1>4, <1>9, <1>10 DEF d, n, i
  <1> QED
    BY <1>11 DEF StaysWhole

(* The constants that come before one in its group are all left with it,   *)
(* so it keeps its value.                                                  *)
LEMMA ValuesStay ==
  ASSUME NEW t \in Seq(Line), NEW o \in Seq(Line),
         NEW e, Embeds(e, t, o), NEW i \in Heads(t)
  PROVE  ValueOf(t, i) = ValueOf(o, e[i])
  <1> DEFINE S == {j \in Heads(t) : /\ j < i
                                    /\ \A k \in (j + 1)..i : t[k].decl.kind = "const"}
             T == {j \in Heads(o) : /\ j < e[i]
                                    /\ \A k \in (j + 1)..e[i] : o[k].decl.kind = "const"}
             b == [j \in S |-> e[j]]
  <1>1. i \in 1..Len(t) /\ Len(t) \in Nat /\ Len(o) \in Nat /\ e[i] \in 1..Len(o) /\ e[i] \in Int
    BY DEF Heads, Embeds
  <1>2. \A j \in 1..Len(t) : t[j] = o[e[j]] /\ e[j] \in 1..Len(o) /\ e[j] \in Int
    BY <1>1 DEF Embeds
  <1>3. ASSUME NEW j \in S
        PROVE  /\ \A x \in 0..(i - j) : i - x >= 1 /\ e[i - x] = e[i] - x
               /\ e[j] = e[i] - (i - j)
    <2>1. j \in 1..Len(t) /\ j < i /\ \A k \in (j + 1)..i : t[k].decl.kind = "const"
      BY DEF Heads
    <2> DEFINE m == i - j
    <2>2. m \in Nat
      BY <1>1, <2>1
    <2>3. Tied(e, t, i, m)
      <3> SUFFICES ASSUME NEW x \in 0..(m - 1)
                   PROVE  Attached(t[i - x])
        BY DEF Tied
      <3>1. i - x \in (j + 1)..i
        BY <1>1, <2>1
      <3> QED
        BY <2>1, <3>1 DEF Attached
    <2>4. m \in 0..m /\ i - m = j
      BY <1>1, <2>1
    <2> HIDE DEF S, m
    <2>5. Beside(e, i, m)
      BY <1>1, <2>2, <2>3, SideBySide
    <2> QED
      BY <2>4, <2>5 DEF Beside, m
  <1>4. ASSUME NEW j \in S
        PROVE  e[j] \in T
    <2>1. /\ j \in 1..Len(t) /\ t[j].part = 1 /\ j < i
          /\ \A k \in (j + 1)..i : t[k].decl.kind = "const"
      BY DEF Heads
    <2>2. e[j] \in Heads(o) /\ e[j] < e[i]
      BY <1>1, <1>2, <2>1 DEF Heads, Embeds
    <2>3. ASSUME NEW k \in (e[j] + 1)..e[i]
          PROVE  o[k].decl.kind = "const"
      <3> DEFINE x == e[i] - k
      <3>1. e[j] = e[i] - (i - j) /\ e[i] \in Int /\ e[j] \in Int
        <4>1. e[j] = e[i] - (i - j)
          BY <1>3
        <4>2. e[i] \in Int /\ e[j] \in Int
          BY <1>1, <1>2, <2>1
        <4> QED
          BY <4>1, <4>2
      <3>2. x \in 0..(i - j) /\ i - x \in (j + 1)..i /\ e[i] - x = k
        <4> DEFINE a == e[i]
                   c == e[j]
        <4>1. /\ a \in Int /\ c \in Int /\ i \in Int /\ j \in Int /\ k \in Int
              /\ c = a - (i - j) /\ j < i /\ c < k /\ k <= a
          BY <1>1, <2>1, <3>1
        <4> HIDE DEF S, T, a, c
        <4>2. a - k \in 0..(i - j) /\ i - (a - k) \in (j + 1)..i /\ a - (a - k) = k
          BY <4>1
        <4> QED
          BY <4>2 DEF a
      <3> HIDE DEF S, T, x
      <3>3. e[i - x] = k
        BY <1>3, <3>2
      <3>4. i - x \in 1..Len(t) /\ t[i - x].decl.kind = "const"
        <4>1. i - x \in 1..Len(t)
          BY <1>1, <2>1, <3>2
        <4> QED
          BY <2>1, <3>2, <4>1
      <3> QED
        BY <1>2, <3>3, <3>4
    <2> QED
      BY <2>2, <2>3
  <1>5. ASSUME NEW q \in T
        PROVE  \E j \in S : e[j] = q
    <2>1. /\ q \in 1..Len(o) /\ o[q].part = 1 /\ q < e[i]
          /\ \A k \in (q + 1)..e[i] : o[k].decl.kind = "const"
      BY DEF Heads
    <2> DEFINE m == e[i] - q
    <2>2. m \in Nat /\ m > 0
      BY <1>1, <2>1
    <2>3. ASSUME NEW x \in 0..(m - 1), i - x >= 1, e[i - x] = e[i] - x
          PROVE  t[i - x].decl.kind = "const"
      <3>1. e[i] - x \in (q + 1)..e[i] /\ i - x \in 1..Len(t)
        <4> DEFINE a == e[i]
                   all == Len(t)
        <4>1. /\ a \in Int /\ q \in Int /\ q < a /\ x \in 0..(a - q - 1)
              /\ i \in 1..all /\ all \in Int /\ i - x >= 1
          BY <1>1, <2>1, <2>3
        <4> HIDE DEF a, all
        <4>2. a - x \in (q + 1)..a /\ i - x \in 1..all
          BY <4>1
        <4> QED
          BY <4>2 DEF a, all
      <3> QED
        BY <1>2, <2>1, <2>3, <3>1
    <2>4. Beside(e, i, m)
      <3>1. Tied(e, t, i, m)
        BY <2>3 DEF Tied, Attached
      <3> HIDE DEF m, S, T
      <3> QED
        BY <1>1, <2>2, <3>1, SideBySide
    <2> DEFINE j == i - m
    <2>5. j >= 1 /\ e[j] = q /\ j < i /\ j \in 1..Len(t)
      <3>1. m \in 0..m /\ e[i] - m = q
        BY <1>1, <2>1, <2>2
      <3> QED
        BY <1>1, <2>2, <2>4, <3>1 DEF Beside
    <2>6. j \in Heads(t)
      BY <1>2, <2>1, <2>5 DEF Heads
    <2>7. ASSUME NEW k \in (j + 1)..i
          PROVE  t[k].decl.kind = "const"
      <3> DEFINE x == i - k
      <3>1. x \in 0..(m - 1) /\ x \in 0..m /\ i - x = k
        BY <1>1, <2>2
      <3>2. i - x >= 1 /\ e[i - x] = e[i] - x
        BY <2>4, <3>1 DEF Beside
      <3>3. t[i - x].decl.kind = "const"
        BY <2>3, <3>1, <3>2
      <3> QED
        BY <3>1, <3>3
    <2> QED
      BY <2>5, <2>6, <2>7
  <1>6. \A j, k \in S : e[j] = e[k] => j = k
    <2> TAKE j, k \in S
    <2>1. j \in 1..Len(t) /\ k \in 1..Len(t)
      BY DEF Heads
    <2>2. j < k => e[j] < e[k]
      BY <2>1 DEF Embeds
    <2>3. k < j => e[k] < e[j]
      BY <2>1 DEF Embeds
    <2>4. e[j] \in Int /\ e[k] \in Int
      BY <1>2, <2>1
    <2> QED
      BY <2>1, <2>2, <2>3, <2>4
  <1>7. b \in [S -> T]
    <2> HIDE DEF S, T
    <2> QED
      BY <1>4
  <1>8. b \in Bijection(S, T)
    <2>1. \A j, k \in S : b[j] = b[k] => j = k
      BY <1>6
    <2>2. \A q \in T : \E j \in S : b[j] = q
      BY <1>5
    <2> HIDE DEF S, T, b
    <2> QED
      BY <1>7, <2>1, <2>2, Fun_IsBij
  <1>9. IsFiniteSet(S)
    <2>1. IsFiniteSet(1..Len(t))
      BY FS_Interval
    <2>2. S \subseteq 1..Len(t)
      BY DEF Heads
    <2> QED
      BY <2>1, <2>2, FS_Subset
  <1>10. Cardinality(T) = Cardinality(S)
    <2> HIDE DEF S, T, b
    <2>1. ExistsBijection(S, T)
      BY <1>8, Fun_ExistsBij
    <2> QED
      BY <1>9, <2>1, FS_Bijection
  <1> QED
    BY <1>10 DEF ValueOf

(* Line by line, what a deletion leaves.                                   *)
LEMMA DeletionLeavesLines ==
  ASSUME NEW t \in Seq(Line), NEW s \in Symbol, ~OutOfRange(t, s), s.from <= s.to
  PROVE  LET next == Splice(t, s, <<>>)
             n == s.to - s.from + 1
         IN  /\ next \in Seq(Line) /\ Len(next) = Len(t) - n
             /\ n \in Nat \ {0} /\ s.from \in 1..Len(t) /\ s.to \in 1..Len(t)
             /\ \A k \in 1..Len(next) : next[k] = t[IF k < s.from THEN k ELSE k + n]
  <1> DEFINE n == s.to - s.from + 1
             next == Splice(t, s, <<>>)
             head == SubSeq(t, 1, s.from - 1)
             tail == SubSeq(t, s.to + 1, Len(t))
  <1>1. /\ s.from \in Nat \ {0} /\ s.to \in Nat /\ s.to <= Len(t) /\ Len(t) \in Nat
        /\ s.from <= s.to
    BY DEF Symbol, OutOfRange
  <1>2. /\ n \in Nat \ {0} /\ s.from \in 1..Len(t) /\ s.to \in 1..Len(t)
    BY <1>1
  <1>3. /\ head \in Seq(Line) /\ Len(head) = s.from - 1
        /\ \A k \in 1..(s.from - 1) : head[k] = t[k]
    <2>1. s.from - 1 \in Nat /\ s.from - 1 <= Len(t) /\ 1 \in Nat \ {0}
      BY <1>1
    <2>2. /\ head \in Seq(Line)
          /\ Len(head) = IF 1 <= s.from - 1 THEN s.from - 1 - 1 + 1 ELSE 0
          /\ \A k \in 1..(s.from - 1 - 1 + 1) : head[k] = t[1 + k - 1]
      BY <2>1, SubSeqIsText
    <2>3. s.from - 1 - 1 + 1 = s.from - 1 /\ \A k \in 1..(s.from - 1) : 1 + k - 1 = k
      BY <1>1
    <2> HIDE DEF head
    <2> QED
      BY <1>1, <2>2, <2>3
  <1>4. /\ tail \in Seq(Line) /\ Len(tail) = Len(t) - s.to
        /\ \A k \in 1..(Len(t) - s.to) : tail[k] = t[s.to + k]
    <2>1. s.to + 1 \in Nat \ {0} /\ Len(t) \in Nat
      BY <1>1
    <2>2. /\ tail \in Seq(Line)
          /\ Len(tail) = IF s.to + 1 <= Len(t) THEN Len(t) - (s.to + 1) + 1 ELSE 0
          /\ \A k \in 1..(Len(t) - (s.to + 1) + 1) : tail[k] = t[s.to + 1 + k - 1]
      BY <2>1, SubSeqIsText
    <2>3. /\ Len(t) - (s.to + 1) + 1 = Len(t) - s.to
          /\ \A k \in 1..(Len(t) - s.to) : s.to + 1 + k - 1 = s.to + k
      BY <1>1
    <2> HIDE DEF tail
    <2> QED
      BY <1>1, <2>2, <2>3
  <1>5. next = head \o tail
    <2>1. head \o <<>> = head
      BY <1>3, ConcatEmptySeq
    <2> HIDE DEF head, tail
    <2> QED
      BY <2>1 DEF Splice, head, tail
  <1> HIDE DEF head, tail, next
  <1>6. /\ next \in Seq(Line) /\ Len(next) = Len(head) + Len(tail)
        /\ \A k \in 1..(Len(head) + Len(tail)) :
             next[k] = IF k <= Len(head) THEN head[k] ELSE tail[k - Len(head)]
    BY <1>3, <1>4, <1>5, ConcatProperties
  <1>7. Len(next) = Len(t) - n
    <2> DEFINE from == s.from
               to == s.to
               all == Len(t)
    <2>1. /\ from \in Int /\ to \in Int /\ all \in Int
          /\ Len(next) = (from - 1) + (all - to)
      BY <1>1, <1>3, <1>4, <1>6
    <2> HIDE DEF from, to, all
    <2>2. Len(next) = all - (to - from + 1)
      BY <2>1
    <2> QED
      BY <2>2 DEF from, to, all
  <1>8. ASSUME NEW k \in 1..Len(next)
        PROVE  next[k] = t[IF k < s.from THEN k ELSE k + n]
    <2>1. CASE k < s.from
      <3>1. k \in 1..(s.from - 1) /\ k <= Len(head) /\ k \in 1..(Len(head) + Len(tail))
        BY <2>1, <1>1, <1>3, <1>6
      <3>2. next[k] = head[k]
        BY <3>1, <1>6
      <3> QED
        BY <2>1, <3>1, <3>2, <1>3
    <2>2. CASE k >= s.from
      <3> DEFINE x == k - Len(head)
      <3>1. /\ ~(k <= Len(head)) /\ k \in 1..(Len(head) + Len(tail)) /\ ~(k < s.from)
            /\ x \in 1..(Len(t) - s.to) /\ s.to + x = k + n
        <4> DEFINE from == s.from
                   to == s.to
                   all == Len(t)
                   before == Len(head)
                   after == Len(tail)
                   left == Len(next)
        <4>1. /\ from \in Nat /\ to \in Nat /\ all \in Nat /\ from <= to /\ to <= all
              /\ before = from - 1 /\ after = all - to /\ left = before + after
              /\ k \in 1..left /\ k >= from
          BY <2>2, <1>1, <1>3, <1>4, <1>6
        <4> HIDE DEF from, to, all, before, after, left
        <4>2. /\ ~(k <= before) /\ k \in 1..(before + after) /\ ~(k < from)
              /\ k - before \in 1..(all - to) /\ to + (k - before) = k + (to - from + 1)
          BY <4>1
        <4> QED
          BY <4>2 DEF from, to, all, before, after
      <3>2. next[k] = tail[x]
        BY <3>1, <1>6
      <3> HIDE DEF x
      <3>3. tail[x] = t[s.to + x]
        BY <3>1, <1>4
      <3> QED
        BY <3>1, <3>2, <3>3
    <2> QED
      BY <2>1, <2>2, <1>1
  <1> QED
    BY <1>2, <1>6, <1>7, <1>8 DEF next

(* After a declaration that gives no other constant its value comes nothing*)
(* that continues anything.                                                *)
GivesValue(o, i) ==
  LET d == o[i].decl IN
  d.kind \in {"iota", "const"} /\ i + d.size <= Len(o) /\ o[i + d.size].decl.kind = "const"

LEMMA NothingHangsOn ==
  ASSUME NEW t \in Seq(Line), NEW o \in Seq(Line), Parses(t), NEW e, Embeds(e, t, o),
         NEW h \in Heads(t), ~GivesValue(o, e[h]),
         h + t[h].decl.size \in 1..Len(t)
  PROVE  ~Attached(t[h + t[h].decl.size])
  <1> DEFINE d == t[h].decl
             n == d.size
             q == h + n
             last == h + n - 1
  <1>1. /\ h \in 1..Len(t) /\ n \in Nat \ {0}
        /\ t[last] = [decl |-> d, part |-> n]
        /\ e[h] \in Heads(o) /\ o[e[h]].decl = d
        /\ e[last] = e[h] + n - 1
    <2>1. StaysWhole(t, o, e, h)
      BY DeclarationsStayWhole
    <2> QED
      BY <2>1 DEF StaysWhole
  <1>2. q \in 1..Len(t) /\ t[q].decl.size \in Nat \ {0} /\ t[q].part \in Nat \ {0}
    BY LinesAreParts
  <1>3. /\ e[q] \in 1..Len(o) /\ t[q] = o[e[q]] /\ e[h] \in Int /\ e[q] \in Int
        /\ Len(t) \in Nat
    <2>1. \A y \in 1..Len(t) : t[y] = o[e[y]] /\ e[y] \in 1..Len(o)
      BY DEF Embeds
    <2> HIDE DEF q
    <2>2. h \in 1..Len(t) /\ q \in 1..Len(t)
      BY <1>1, <1>2
    <2>3. Len(t) \in Nat
      OBVIOUS
    <2> QED
      BY <2>1, <2>2, <2>3
  <1> SUFFICES ASSUME Attached(t[q])
               PROVE  FALSE
    OBVIOUS
  <1> HIDE DEF n, d
  <1>4. last = q - 1 /\ q > 1
    BY <1>1
  <1> HIDE DEF q, last
  <1>5. e[last] = e[q] - 1
    BY <1>2, <1>4 DEF Embeds
  <1>6. t[q].part = 1
    <2>1. SUFFICES ASSUME t[q].part # 1
                   PROVE  FALSE
      OBVIOUS
    <2>2. t[last] = [decl |-> t[q].decl, part |-> t[q].part - 1] /\ t[q].part <= t[q].decl.size
      BY <1>2, <1>4, <2>1 DEF Parses
    <2>3. t[q].decl = d /\ t[q].part - 1 = n
      BY <1>1, <2>2
    <2>4. t[q].decl.size = n
      BY <2>3 DEF n
    <2> QED
      BY <1>1, <1>2, <2>2, <2>3, <2>4
  <1>7. t[q].decl.kind = "const" /\ d.kind \in {"iota", "const"}
    <2>1. t[q].decl.kind = "const"
      BY <1>6 DEF Attached
    <2>2. t[last].decl.kind \in {"iota", "const"}
      BY <1>2, <1>4, <1>6, <2>1 DEF Parses
    <2> QED
      BY <1>1, <2>1, <2>2
  <1>8. e[q] = e[h] + n
    <2> DEFINE a == e[q]
               b == e[h]
               c == e[last]
    <2>1. a \in Int /\ b \in Int /\ n \in Nat /\ c = b + n - 1 /\ c = a - 1
      BY <1>1, <1>3, <1>5
    <2> HIDE DEF a, b, c
    <2>2. a = b + n
      BY <2>1
    <2> QED
      BY <2>2 DEF a, b
  <1>9. GivesValue(o, e[h])
    <2> DEFINE b == e[h]
    <2>1. o[b].decl = d /\ b + n = e[q]
      BY <1>1, <1>8
    <2>2. b + n <= Len(o) /\ o[b + n].decl.kind = "const" /\ d.kind \in {"iota", "const"}
      BY <1>3, <1>7, <2>1
    <2> HIDE DEF b
    <2>3. GivesValue(o, b)
      BY <2>1, <2>2 DEF GivesValue, n
    <2> QED
      BY <2>3 DEF b
  <1> QED
    BY <1>9

(* So after a deletion the rest of what was left is still left.            *)
LEMMA DeletionEmbeds ==
  ASSUME NEW t \in Seq(Line), NEW o \in Seq(Line), Parses(t),
         NEW e, Embeds(e, t, o),
         NEW s \in Symbol, s.from \in Heads(t), s.to = s.from + t[s.from].decl.size - 1,
         ~GivesValue(o, e[s.from])
  PROVE  LET next == Splice(t, s, <<>>) IN
         /\ LeftOf(next, o)
         /\ \A j \in Heads(t) \ {s.from} : \E k \in Heads(next) : next[k] = t[j]
  <1> DEFINE h == s.from
             d == t[h].decl
             n == s.to - s.from + 1
             next == Splice(t, s, <<>>)
             At(k) == IF k < h THEN k ELSE k + n
             e2 == [k \in 1..Len(next) |-> e[At(k)]]
  <1>1. /\ h \in 1..Len(t) /\ d.size \in Nat \ {0} /\ h + d.size - 1 \in 1..Len(t)
        /\ Len(t) \in Nat
    <2>1. StaysWhole(t, o, e, h)
      BY DeclarationsStayWhole
    <2>2. Len(t) \in Nat
      OBVIOUS
    <2> QED
      BY <2>1, <2>2 DEF StaysWhole
  <1>2. n = d.size /\ s.to = h + n - 1 /\ s.to \in 1..Len(t) /\ s.from <= s.to
    <2> DEFINE size == d.size
               to == s.to
    <2>1. h \in Int /\ size \in Nat \ {0} /\ to = h + size - 1 /\ to \in 1..Len(t)
      BY <1>1
    <2> HIDE DEF h, d, size, to
    <2>2. to - h + 1 = size /\ to = h + (to - h + 1) - 1 /\ h <= to
      BY <2>1
    <2> QED
      BY <2>1, <2>2 DEF h, size, to
  <1>3. ~OutOfRange(t, s)
    BY <1>2 DEF OutOfRange
  <1>4. /\ next \in Seq(Line) /\ Len(next) = Len(t) - n /\ n \in Nat \ {0}
        /\ \A k \in 1..Len(next) : next[k] = t[At(k)]
    BY <1>2, <1>3, DeletionLeavesLines
  <1>5. \A j \in (h + 1)..s.to : t[j].part # 1
    <2> TAKE j \in (h + 1)..s.to
    <2> DEFINE k == j - h + 1
    <2>1. k \in 1..d.size /\ h + k - 1 = j /\ k # 1
      <3> DEFINE size == d.size
                 to == s.to
      <3>1. h \in Int /\ size \in Nat /\ to \in Int /\ to = h + size - 1 /\ j \in (h + 1)..to
        <4>1. /\ h \in 1..Len(t) /\ size \in Nat \ {0} /\ n = size
              /\ to = h + n - 1 /\ to \in 1..Len(t)
          BY <1>1, <1>2
        <4> HIDE DEF h, d, n, size, to
        <4>2. h \in Int /\ size \in Nat /\ to \in Int /\ to = h + size - 1
          BY <4>1
        <4> QED
          BY <4>2 DEF to
      <3> HIDE DEF h, d, size, to
      <3>2. j - h + 1 \in 1..size /\ h + (j - h + 1) - 1 = j /\ j - h + 1 # 1
        BY <3>1
      <3> QED
        BY <3>2 DEF size
    <2>2. t[h + k - 1] = [decl |-> d, part |-> k]
      BY <2>1, DeclarationIsWhole
    <2> QED
      BY <2>1, <2>2
  <1>6. h + d.size \in 1..Len(t) => ~Attached(t[h + d.size])
    BY NothingHangsOn
  <1> HIDE DEF next, d, n, h
  <1>7. \A k \in 1..Len(next) : At(k) \in 1..Len(t) /\ next[k] = t[At(k)]
    BY <1>1, <1>4
  <1>8. e2 \in [1..Len(next) -> 1..Len(o)]
    <2>1. \A y \in 1..Len(t) : e[y] \in 1..Len(o)
      BY DEF Embeds
    <2> HIDE DEF At
    <2>2. \A k \in 1..Len(next) : e[At(k)] \in 1..Len(o)
      BY <1>7, <2>1
    <2> QED
      BY <2>2
  <1>9. ASSUME NEW k \in 1..Len(next), Attached(next[k])
        PROVE  k > 1 /\ e2[k - 1] = e2[k] - 1
    <2>1. At(k) > 1 /\ e[At(k) - 1] = e[At(k)] - 1
      BY <1>7, <1>9 DEF Embeds
    <2>2. CASE k < h
      <3>1. k > 1 /\ k - 1 \in 1..Len(next) /\ At(k) = k /\ At(k - 1) = k - 1
        BY <1>1, <1>4, <2>1, <2>2
      <3> QED
        BY <2>1, <3>1
    <2>3. CASE k > h
      <3>1. /\ k > 1 /\ k - 1 \in 1..Len(next) /\ At(k) = k + n /\ At(k - 1) = k - 1 + n
            /\ k - 1 + n = k + n - 1
        BY <1>1, <1>4, <2>3
      <3>2. e2[k] = e[k + n] /\ e2[k - 1] = e[k + n - 1]
        BY <3>1
      <3>3. e[k + n - 1] = e[k + n] - 1
        <4> DEFINE at == At(k)
        <4>1. at = k + n /\ at - 1 = k + n - 1
          <5>1. at = k + n
            BY <3>1
          <5>2. k \in Int /\ n \in Int
            BY <1>4
          <5> HIDE DEF at
          <5> QED
            BY <5>1, <5>2
        <4>2. e[at - 1] = e[at] - 1
          BY <2>1
        <4> HIDE DEF at
        <4> QED
          BY <4>1, <4>2
      <3> HIDE DEF e2
      <3> QED
        BY <3>1, <3>2, <3>3
    <2>4. k # h
      <3>1. SUFFICES ASSUME k = h
                     PROVE  FALSE
        OBVIOUS
      <3>2. At(k) = h + d.size
        BY <1>1, <1>2, <3>1
      <3> QED
        BY <1>6, <1>7, <1>9, <3>2
    <2> QED
      BY <1>1, <2>2, <2>3, <2>4
  <1>10. Embeds(e2, next, o)
    <2>1. \A i \in 1..Len(next) : next[i] = o[e2[i]]
      BY <1>7 DEF Embeds
    <2>2. ASSUME NEW i \in 1..Len(next), NEW j \in 1..Len(next), i < j
          PROVE  e2[i] < e2[j]
      <3>1. At(i) < At(j) /\ At(i) \in 1..Len(t) /\ At(j) \in 1..Len(t)
        BY <1>1, <1>4, <1>7, <2>2
      <3>2. e[At(i)] < e[At(j)]
        BY <3>1 DEF Embeds
      <3> QED
        BY <3>2
    <2> HIDE DEF e2
    <2> QED
      BY <1>8, <1>9, <2>1, <2>2 DEF Embeds
  <1>11. LeftOf(next, o)
    <2> HIDE DEF e2
    <2> QED
      BY <1>8, <1>10 DEF LeftOf
  <1>12. ASSUME NEW j \in Heads(t) \ {h}
         PROVE  \E k \in Heads(next) : next[k] = t[j]
    <2>1. j \in 1..Len(t) /\ t[j].part = 1 /\ j # h
      BY DEF Heads
    <2>2. j \notin (h + 1)..s.to
      BY <1>5, <2>1
    <2>3. s.to = h + n - 1 /\ n \in Nat /\ h \in Int
      BY <1>1, <1>2 DEF h, n, Symbol
    <2> DEFINE k == IF j < h THEN j ELSE j - n
    <2>4. k \in 1..Len(next) /\ At(k) = j
      <3> DEFINE to == s.to
                 all == Len(t)
                 left == Len(next)
      <3>a. /\ h \in Nat \ {0} /\ n \in Nat \ {0} /\ to = h + n - 1 /\ to <= all
            /\ all \in Nat /\ left = all - n /\ j \in 1..all
        BY <1>1, <1>2, <1>4, <2>1, <2>3
      <3> HIDE DEF to, all, left
      <3>1. CASE j < h
        <4>1. k = j /\ k \in 1..left /\ At(k) = j
          BY <3>1, <3>a
        <4> QED
          BY <4>1 DEF left
      <3>2. CASE j > to
        <4>1. k = j - n /\ k \in 1..left /\ ~(k < h) /\ k + n = j
          BY <3>2, <3>a
        <4> QED
          BY <4>1 DEF left
      <3>3. j < h \/ j > to
        BY <2>1, <2>2, <3>a DEF to
      <3> QED
        BY <3>1, <3>2, <3>3
    <2>5. next[k] = t[j]
      BY <1>7, <2>4
    <2>6. k \in Heads(next)
      BY <2>1, <2>4, <2>5 DEF Heads
    <2> QED
      BY <2>5, <2>6
  <1> QED
    BY <1>11, <1>12 DEF next, h

(* A text that parses is what is left of it before anything goes.          *)
LEMMA AllIsLeft ==
  ASSUME NEW t \in Seq(Line), Parses(t)
  PROVE  LeftOf(t, t)
  <1> DEFINE e == [i \in 1..Len(t) |-> i]
  <1>1. e \in [1..Len(t) -> 1..Len(t)]
    OBVIOUS
  <1>2. ASSUME NEW i \in 1..Len(t), Attached(t[i])
        PROVE  i > 1
    <2>1. t[i].part \in Nat \ {0}
      BY LinesAreParts
    <2>2. CASE t[i].part = 1
      <3>1. t[i].decl.kind = "const"
        BY <1>2, <2>2 DEF Attached
      <3> QED
        BY <2>2, <3>1 DEF Parses
    <2>3. CASE t[i].part # 1
      BY <2>3 DEF Parses
    <2> QED
      BY <2>2, <2>3
  <1>3. Embeds(e, t, t)
    <2>1. \A i \in 1..Len(t) : t[i] = t[e[i]]
      OBVIOUS
    <2>2. \A i, j \in 1..Len(t) : i < j => e[i] < e[j]
      OBVIOUS
    <2>3. \A i \in 1..Len(t) : Attached(t[i]) => i > 1 /\ e[i - 1] = e[i] - 1
      <3> TAKE i \in 1..Len(t)
      <3> HAVE Attached(t[i])
      <3>1. i > 1 /\ i - 1 \in 1..Len(t)
        BY <1>2
      <3> QED
        BY <3>1
    <2> HIDE DEF e
    <2> QED
      BY <1>1, <2>1, <2>2, <2>3 DEF Embeds
  <1> HIDE DEF e
  <1> QED
    BY <1>1, <1>3 DEF LeftOf

IsOfOrigin(s) ==
  s.file \in File /\ s.file \in InScope(scope) /\ s \in SymbolsOf(s.file, origin[s.file])

(* A symbol that is no field is declared where it is.                      *)
LEMMA DeclaredInOrigin ==
  ASSUME TypeOK, NEW s, IsOfOrigin(s)
  PROVE  /\ s \in Symbol /\ s.file \in File /\ s \in Symbols(origin)
         /\ s.kind # "field" =>
              /\ s.from \in Heads(origin[s.file])
              /\ s.name \in origin[s.file][s.from].decl.names
              /\ s.to = s.from + origin[s.file][s.from].decl.size - 1
              /\ s.kind = KindOf(origin[s.file][s.from].decl)
         /\ s.kind = "field" =>
              /\ s.from - 1 \in Heads(origin[s.file])
              /\ origin[s.file][s.from - 1].decl.size > 1
  <1>1. s.file \in File /\ origin[s.file] \in Seq(Line) /\ s \in SymbolsOf(s.file, origin[s.file])
    BY DEF IsOfOrigin, TypeOK
  <1>2. s.file \in IndexedFiles(origin)
    BY <1>1, TextAssumption DEF IndexedFiles
  <1>3. s \in Symbols(origin)
    BY <1>1, <1>2 DEF Symbols
  <1> QED
    BY <1>1, <1>3, SymbolsAreSymbols

(* Unless a field comes first, a name stands for its declaration.          *)
LEMMA FieldsComeAfter ==
  ASSUME TypeOK, Resolved(origin, File), NEW n, ~FieldComesFirst(origin, n),
         NEW u, IsOfOrigin(u), u.name = n, u.kind # "field",
         NEW w, IsOfOrigin(w), w.name = n, w # u
  PROVE  Before(u, w)
  <1>1. /\ u \in Symbol /\ u.file \in File /\ u \in Symbols(origin)
        /\ u.from \in Heads(origin[u.file]) /\ n \in origin[u.file][u.from].decl.names
        /\ u.to = u.from + origin[u.file][u.from].decl.size - 1
        /\ u.kind = KindOf(origin[u.file][u.from].decl)
    BY DeclaredInOrigin
  <1>2. /\ w \in Symbol /\ w.file \in File /\ w \in Symbols(origin)
    BY DeclaredInOrigin
  <1>3. w.kind = "field"
    <2> SUFFICES ASSUME w.kind # "field"
                 PROVE  FALSE
      OBVIOUS
    <2>1. /\ w.from \in Heads(origin[w.file]) /\ n \in origin[w.file][w.from].decl.names
          /\ w.to = w.from + origin[w.file][w.from].decl.size - 1
          /\ w.kind = KindOf(origin[w.file][w.from].decl)
      BY DeclaredInOrigin
    <2>2. w.file = u.file /\ w.from = u.from
      BY <1>1, <1>2, <2>1 DEF Resolved
    <2>3. w.kind = u.kind /\ w.to = u.to /\ w.name = u.name
      BY <1>1, <2>1, <2>2
    <2> QED
      BY <1>1, <1>2, <2>2, <2>3 DEF Symbol
  <1>4. ~Before(w, u)
    <2>1. w.file \in InScope(scope)
      BY DEF IsOfOrigin
    <2> QED
      BY <1>1, <1>2, <1>3, <2>1 DEF FieldComesFirst
  <1>5. ~(w.file = u.file /\ w.from = u.from)
    <2> SUFFICES ASSUME w.file = u.file, w.from = u.from
                 PROVE  FALSE
      OBVIOUS
    <2> DEFINE t == origin[u.file]
               i == u.from
    <2>1. i - 1 \in Heads(t) /\ t[i - 1].decl.size > 1
      BY <1>3, DeclaredInOrigin
    <2>2. i \in Heads(t) /\ Parses(t)
      BY <1>1 DEF Resolved
    <2>3. t[i].part = 1 /\ i - 1 \in 1..Len(t) /\ t[i - 1].part = 1 /\ i \in 1..Len(t)
      BY <2>1, <2>2 DEF Heads
    <2> HIDE DEF t, i
    <2>4. t[(i - 1) + 1].part = 2
      <3> DEFINE k == i - 1
      <3>1. k \in 1..Len(t) /\ t[k].part = 1 /\ t[k].part < t[k].decl.size
        BY <2>1, <2>3
      <3> HIDE DEF k
      <3>2. t[k + 1].part = t[k].part + 1
        BY <2>2, <3>1 DEF Parses
      <3>3. t[k + 1].part = 2
        BY <3>1, <3>2
      <3> QED
        BY <3>3 DEF k
    <2>5. (i - 1) + 1 = i
      BY <2>3
    <2> QED
      BY <2>3, <2>4, <2>5
  <1>6. /\ u.file \in Nat /\ w.file \in Nat /\ u.from \in Nat /\ w.from \in Nat
    BY <1>1, <1>2, FileAssumption DEF Symbol
  <1> QED
    BY <1>4, <1>5, <1>6 DEF Before

(* What the index does not use and Unseen does not name, nothing uses.     *)
LEMMA NobodyRefersTo ==
  ASSUME TypeOK, disk = origin, Resolved(origin, File),
         NEW n \in UnusedNames, ~Unseen(origin, n)
  PROVE  \A f \in File : \A i \in Heads(origin[f]) : \A r \in origin[f][i].decl.refs : r[1] # n
  <1> SUFFICES ASSUME NEW f \in File, NEW i \in Heads(origin[f]),
                      NEW r \in origin[f][i].decl.refs, r[1] = n
               PROVE  FALSE
    OBVIOUS
  <1> DEFINE d == origin[f][i].decl
             idx == Indexed({})
  <1>1. origin[f] \in Seq(Line) /\ i \in 1..Len(origin[f])
    BY DEF TypeOK, Heads
  <1>2. d \in Decl
    BY <1>1, LinesAreParts
  <1>3. PICK how \in How : r = <<n, how>>
    <2>1. r \in Name \X How
      BY <1>2 DEF Decl
    <2> QED
      BY <2>1
  <1>4. RefersTo(origin, n, how, f, i)
    BY <1>3 DEF RefersTo
  <1>5. f \in InScope(scope)
    BY <1>4 DEF Unseen, UsedOutOfScope
  <1>6. f \in IndexedFiles(idx) /\ idx[f] = origin[f]
    <2>1. Parses(disk[f])
      BY DEF Resolved
    <2>2. idx[f] = disk[f]
      BY <1>5, <2>1 DEF Indexed
    <2> QED
      BY <1>1, <2>2, TextAssumption DEF IndexedFiles
  <1>7. PICK u \in Unused(idx) : u.name = n
    BY DEF UnusedNames
  <1>8. /\ u \in Symbols(idx) /\ u \notin Used(idx) /\ u.kind # "field"
        /\ \A w \in Symbols(idx) : IsOfOrigin(w)
    <2>1. u \in Symbols(idx) /\ u \notin Used(idx) /\ u.kind # "field"
      BY <1>7 DEF Unused
    <2>2. ASSUME NEW w \in Symbols(idx)
          PROVE  IsOfOrigin(w)
      <3>1. PICK g \in IndexedFiles(idx) : w \in SymbolsOf(g, idx[g])
        BY <2>2 DEF Symbols
      <3>2. g \in File /\ g \in InScope(scope) /\ idx[g] = origin[g]
        BY <3>1 DEF IndexedFiles, Indexed
      <3>3. origin[g] \in Seq(Line)
        BY <3>2 DEF TypeOK
      <3>4. w.file = g
        BY <3>1, <3>2, <3>3, SymbolsAreSymbols
      <3> QED
        BY <3>1, <3>2, <3>4 DEF IsOfOrigin
    <2> QED
      BY <2>1, <2>2
  <1> HIDE DEF idx
  <1>10. how # "skipped" /\ (how = "call" => d.kind = "func" /\ u.kind = "func")
    <2>1. how # "skipped"
      BY <1>4 DEF Unseen, SkippedUse
    <2>2. ASSUME how = "call"
          PROVE  d.kind = "func" /\ IsFunction(origin, n)
      BY <1>4, <2>2 DEF Unseen, UnseenCall
    <2>3. ASSUME IsFunction(origin, n)
          PROVE  u.kind = "func"
      <3>1. PICK g \in File : \E j \in Heads(origin[g]) :
              n \in origin[g][j].decl.names /\ origin[g][j].decl.kind = "func"
        BY <2>3 DEF IsFunction
      <3>2. PICK j \in Heads(origin[g]) :
              n \in origin[g][j].decl.names /\ origin[g][j].decl.kind = "func"
        BY <3>1
      <3>3. /\ u.file \in File /\ u.from \in Heads(origin[u.file])
            /\ n \in origin[u.file][u.from].decl.names
            /\ u.kind = KindOf(origin[u.file][u.from].decl)
        BY <1>7, <1>8, DeclaredInOrigin
      <3>4. u.file = g /\ u.from = j
        BY <3>2, <3>3 DEF Resolved
      <3> QED
        BY <3>2, <3>3, <3>4 DEF KindOf
    <2> QED
      BY <2>1, <2>2, <2>3
  <1>11. IsUsage(d, n, how)
    BY <1>3, <1>10 DEF IsUsage, How
  <1>12. IsFirst(u, Standing(idx, n, how))
    <2>1. u \in Standing(idx, n, how)
      BY <1>7, <1>8, <1>10 DEF Standing
    <2>2. ASSUME NEW w \in Standing(idx, n, how), w # u
          PROVE  Before(u, w)
      <3>1. w \in Symbols(idx) /\ w.name = n
        BY <2>2 DEF Standing
      <3>2. IsOfOrigin(u) /\ IsOfOrigin(w)
        BY <1>8, <3>1
      <3>3. ~FieldComesFirst(origin, n)
        BY DEF Unseen
      <3> QED
        BY <1>7, <1>8, <2>2, <3>1, <3>2, <3>3, FieldsComeAfter
    <2> QED
      BY <2>1, <2>2 DEF IsFirst
  <1>13. u \in Used(idx)
    <2>1. i \in Heads(idx[f]) /\ idx[f][i].decl = d /\ f \in IndexedFiles(idx)
      BY <1>6
    <2>2. \E g \in IndexedFiles(idx), y \in How : \E k \in Heads(idx[g]) :
            IsUsage(idx[g][k].decl, u.name, y) /\ IsFirst(u, Standing(idx, u.name, y))
      BY <1>3, <1>7, <1>11, <1>12, <2>1
    <2> QED
      BY <1>8, <2>2 DEF Used
  <1> QED
    BY <1>8, <1>13

(* What the index sees of a program does not change as long as its texts   *)
(* and its scope do not.                                                   *)
LEMMA SeenStays ==
  ASSUME UNCHANGED <<origin, scope>>, NEW n
  PROVE  Unseen(origin, n)' = Unseen(origin, n)
  BY DEF Unseen, UsedOutOfScope, InScope, SkippedUse, UnseenCall, IsFunction, FieldComesFirst,
         Symbols, IndexedFiles, SharesItsSpec, GivesOthersTheirValue, RefersTo

(* Only an applied edit and another program change what is read.           *)
LEMMA ReadsStay ==
  ASSUME [Next]_vars
  PROVE  /\ UNCHANGED <<origin, client, scope>>
         /\ \/ ApplyFileEdit
            \/ \E f \in File : Edit(f)
            \/ /\ UNCHANGED <<disk, staged, applied>>
               /\ "begin" \in calm' => "begin" \in calm
  <1>1. CASE IndexFile \/ FindUnused \/ Propose \/ Select
    BY <1>1 DEF IndexFile, FindUnused, Propose, Select, requests, editing
  <1>2. CASE Pick \/ Match \/ Fetch \/ CheckExpectedHash \/ Expand
    BY <1>2 DEF Pick, Match, Fetch, StartEdit, CheckExpectedHash, CheckAgainst, Expand, requests,
                editing
  <1>3. CASE Validate \/ Diff
    BY <1>3 DEF Validate, Diff, requests, editing
  <1>4. CASE ApplyFileEdit
    BY <1>4 DEF ApplyFileEdit, requests
  <1>5. CASE \E f \in File : Edit(f)
    BY <1>5 DEF Edit, requests
  <1>6. CASE UNCHANGED vars
    BY <1>6 DEF vars, requests, editing
  <1> QED
    BY <1>1, <1>2, <1>3, <1>4, <1>5, <1>6 DEF Next

LEMMA UnusedNamesStay ==
  ASSUME UNCHANGED <<disk, scope>>
  PROVE  UnusedNames' = UnusedNames
  <1>1. Indexed({})' = Indexed({})
    BY DEF Indexed, InScope
  <1> QED
    BY <1>1 DEF UnusedNames

LEMMA OnlyUnusedGoInit == Init => OnlyUnusedGo
  <1> SUFFICES ASSUME Init
               PROVE  OnlyUnusedGo
    OBVIOUS
  <1>1. /\ disk = origin /\ phase = "index" /\ todo = {} /\ proposals = <<>> /\ applied = <<>>
        /\ client # "reader" => ops = <<>> /\ job # "edit"
    BY DEF Init
  <1> QED
    BY <1>1 DEF OnlyUnusedGo

(* The proposals are of unused names, and so are the operations.           *)
LEMMA OnlyUnusedGoStep ==
  ASSUME IInv, OnlyUnusedGo, [Next]_vars
  PROVE  OnlyUnusedGo'
  <1> SUFFICES ASSUME "begin" \in calm', client # "reader"
               PROVE  OnlyUnusedGo'
    BY ReadsStay DEF OnlyUnusedGo
  <1>1. ~(\E f \in File : Edit(f))
    BY DEF Edit
  <1>2. /\ UNCHANGED <<disk, origin, client, scope>> /\ "begin" \in calm
    <2>1. CASE ApplyFileEdit
      BY <2>1, ReadsStay DEF ApplyFileEdit
    <2> QED
      BY <1>1, <2>1, ReadsStay
  <1>3. UnusedNames' = UnusedNames
    BY <1>2, UnusedNamesStay
  <1>4. /\ disk = origin
        /\ job = "edit" /\ phase \in {"index", "check", "expand", "splice"} => "index" \in calm
        /\ phase = "propose" => \A s \in todo : s.name \in UnusedNames
        /\ \A k \in 1..Len(proposals) : proposals[k].target.name \in UnusedNames
        /\ \A k \in 1..Len(ops) : ops[k].target.name \in UnusedNames /\ ops[k].source = <<>>
        /\ \A k \in 1..Len(applied) : applied[k].op.target.name \in UnusedNames
    BY <1>2 DEF OnlyUnusedGo
  <1> HIDE DEF UnusedNames
  <1>5. CASE IndexFile \/ Expand \/ Validate \/ Diff \/ UNCHANGED vars
    <2>1. /\ UNCHANGED <<job, todo, proposals, ops, applied, calm>>
          /\ phase' = phase \/ phase \in {"expand", "validate", "diff"}
          /\ phase' # "propose" \/ phase = "propose"
          /\ phase' \in {"index", "check", "expand", "splice"} =>
               phase \in {"index", "check", "expand", "splice"}
      BY <1>5 DEF IndexFile, Expand, Validate, Diff, vars, suggesting, editing
    <2> QED
      BY <1>2, <1>3, <1>4, <2>1 DEF OnlyUnusedGo
  <1>6. CASE FindUnused
    <2>1. /\ phase = "index" /\ unread = {} /\ job \in {"assess", "suggest"}
          /\ todo' = Unused(indexed) /\ proposals' = <<>> /\ phase' = "propose"
          /\ UNCHANGED <<job, ops, applied, calm>>
      BY <1>6 DEF FindUnused, editing
    <2>2. indexed = Indexed({})
      BY <1>2, <2>1 DEF IInv, FirstIsKnown
    <2>3. \A s \in todo' : s.name \in UnusedNames
      BY <2>1, <2>2 DEF UnusedNames
    <2> QED
      BY <1>2, <1>3, <1>4, <2>1, <2>3 DEF OnlyUnusedGo
  <1>7. CASE Propose
    <2>1. phase = "propose" /\ UNCHANGED <<job, ops, applied, calm>>
      BY <1>7 DEF Propose, editing
    <2>2. PICK s \in todo :
            \/ phase' = "refused" /\ UNCHANGED <<todo, proposals>>
            \/ /\ ~OutOfRange(View[s.file], s)
               /\ todo' = todo \ {s} /\ proposals' = Append(proposals, Deletion(s))
               /\ phase' = phase
      BY <1>7 DEF Propose
    <2>3. CASE phase' = "refused" /\ UNCHANGED <<todo, proposals>>
      BY <1>2, <1>3, <1>4, <2>1, <2>3 DEF OnlyUnusedGo
    <2>4. CASE /\ ~OutOfRange(View[s.file], s)
               /\ todo' = todo \ {s} /\ proposals' = Append(proposals, Deletion(s))
               /\ phase' = phase
      <3>1. s \in Symbol /\ proposals \in Seq(Op) /\ Deletion(s) \in Op
        BY <2>4, DeletionIsOp DEF IInv, TypeOK
      <3>2. Deletion(s).target.name = s.name
        BY DEF Deletion, IdOf
      <3>3. s.name \in UnusedNames
        BY <1>4, <2>1
      <3>4. \A k \in 1..Len(proposals') : proposals'[k].target.name \in UnusedNames
        <4> TAKE k \in 1..Len(proposals')
        <4> DEFINE new == Deletion(s)
        <4> HIDE DEF new
        <4>1. /\ proposals' = Append(proposals, new) /\ new \in Op
              /\ new.target.name = s.name
          BY <2>4, <3>1, <3>2 DEF new
        <4>2. CASE k = Len(proposals) + 1
          <5>1. proposals'[k] = new
            BY <3>1, <4>1, <4>2, AppendProperties
          <5> QED
            BY <3>3, <4>1, <5>1
        <4>3. CASE k # Len(proposals) + 1
          <5>1. k \in 1..Len(proposals) /\ proposals'[k] = proposals[k]
            BY <3>1, <4>1, <4>3, AppendProperties
          <5> QED
            BY <1>4, <5>1
        <4> QED
          BY <4>2, <4>3
      <3> QED
        BY <1>2, <1>3, <1>4, <2>1, <2>4, <3>4 DEF OnlyUnusedGo
    <2> QED
      BY <2>2, <2>3, <2>4
  <1>8. CASE Select
    <2>1. /\ phase' \in {"done", "index"} /\ job = "assess" /\ job' \in {"assess", "suggest"}
          /\ UNCHANGED <<todo, proposals, ops, applied, calm>>
      BY <1>8 DEF Select, StartIndex, editing
    <2> QED
      BY <1>2, <1>3, <1>4, <2>1 DEF OnlyUnusedGo
  <1>9. CASE Pick
    <2>1. UNCHANGED <<todo, proposals, applied>> /\ job = "suggest"
      BY <1>9 DEF Pick, suggesting
    <2>2. CASE proposals = <<>>
      <3>1. phase' \in {"refused", "done"} /\ UNCHANGED <<job, ops, calm>>
        BY <1>9, <2>2 DEF Pick
      <3> QED
        BY <1>2, <1>3, <1>4, <2>1, <3>1 DEF OnlyUnusedGo
    <2>3. CASE proposals # <<>>
      <3>1. /\ ops' = <<Head(proposals)>> \/ ops' = proposals
            /\ phase' = "index" /\ calm' = calm \cup {"index"}
        BY <1>9, <2>3 DEF Pick, StartEdit, StartIndex
      <3>2. /\ proposals \in Seq(Op) /\ 1 \in 1..Len(proposals) /\ Head(proposals) = proposals[1]
        BY <2>3 DEF IInv, TypeOK
      <3>3. \A k \in 1..Len(proposals) : proposals[k].source = <<>>
        BY DEF IInv, FirstIsKnown
      <3>4. \A k \in 1..Len(ops') : ops'[k].target.name \in UnusedNames /\ ops'[k].source = <<>>
        <4>1. CASE ops' = proposals
          BY <1>4, <3>3, <4>1
        <4>2. CASE ops' = <<Head(proposals)>>
          BY <1>4, <3>2, <3>3, <4>2
        <4> QED
          BY <3>1, <4>1, <4>2
      <3> QED
        BY <1>2, <1>3, <1>4, <2>1, <3>1, <3>4 DEF OnlyUnusedGo
    <2> QED
      BY <2>2, <2>3
  <1>10. CASE Match
    <2>1. /\ phase = "index" /\ phase' # "propose"
          /\ UNCHANGED <<job, todo, proposals, ops, applied, calm>>
      BY <1>10 DEF Match, suggesting
    <2> QED
      BY <1>2, <1>3, <1>4, <2>1 DEF OnlyUnusedGo
  <1>11. CASE Fetch
    BY <1>2, <1>11 DEF Fetch, IInv, JobsAndPhases
  <1>12. CASE CheckExpectedHash
    <2>1. /\ phase = "check" /\ phase' # "propose" /\ calm \subseteq calm'
          /\ UNCHANGED <<job, todo, proposals, ops, applied>>
      BY <1>12 DEF CheckExpectedHash, CheckAgainst, suggesting, editing
    <2> QED
      BY <1>2, <1>3, <1>4, <2>1 DEF OnlyUnusedGo
  <1>13. CASE ApplyFileEdit
    <2>1. phase = "splice" /\ UNCHANGED <<job, todo, proposals>>
      BY <1>13 DEF ApplyFileEdit, suggesting
    <2>2. CASE applied' = applied
      <3>1. phase' = "refused" /\ UNCHANGED <<ops, calm>>
        BY <1>13, <2>2, RefusalChangesNothing
      <3> QED
        BY <1>2, <1>3, <1>4, <2>1, <2>2, <3>1 DEF OnlyUnusedGo
    <2>3. CASE applied' # applied
      <3> DEFINE removal == [op |-> Current, cut |-> Cut(View[Found.file], Found), file |-> Found.file]
      <3>1. /\ applied' = Append(applied, removal) /\ ops' = Tail(ops) /\ ops # <<>>
            /\ Cut(View[Found.file], Found) \in Seq(Line) /\ Found.file \in File /\ Current \in Op
        BY <1>13, <2>3, EditEffect
      <3>2. removal \in Removal /\ removal.op = Current
        BY <3>1 DEF Removal
      <3>3. ops \in Seq(Op) /\ applied \in Seq(Removal)
        BY DEF IInv, TypeOK, JobsAndPhases
      <3>4. Current.target.name \in UnusedNames
        <4>1. 1 \in 1..Len(ops) /\ Current = ops[1]
          BY <3>1, <3>3 DEF Current
        <4> QED
          BY <1>4, <4>1
      <3>5. \A k \in 1..Len(ops') : ops'[k].target.name \in UnusedNames /\ ops'[k].source = <<>>
        <4> TAKE k \in 1..Len(ops')
        <4>1. k + 1 \in 1..Len(ops) /\ ops'[k] = ops[k + 1]
          BY <3>1, <3>3
        <4> QED
          BY <1>4, <4>1
      <3> HIDE DEF removal
      <3>6. \A k \in 1..Len(applied') : applied'[k].op.target.name \in UnusedNames
        <4> TAKE k \in 1..Len(applied')
        <4>1. CASE k = Len(applied) + 1
          <5>1. applied'[k] = removal
            BY <3>1, <3>2, <3>3, <4>1, AppendProperties
          <5> QED
            BY <3>2, <3>4, <5>1
        <4>2. CASE k # Len(applied) + 1
          <5>1. k \in 1..Len(applied) /\ applied'[k] = applied[k]
            BY <3>1, <3>2, <3>3, <4>2, AppendProperties
          <5> QED
            BY <1>4, <5>1
        <4> QED
          BY <4>1, <4>2
      <3>7. /\ phase' # "propose"
            /\ phase' = "index" => "index" \in calm'
            /\ phase' \in {"validate", "done", "index"}
        BY <1>13, <2>3 DEF ApplyFileEdit, StartIndex, editing
      <3> QED
        BY <1>2, <1>3, <1>4, <2>1, <3>5, <3>6, <3>7 DEF OnlyUnusedGo
    <2> QED
      BY <2>2, <2>3
  <1> QED
    BY <1>1, <1>5, <1>6, <1>7, <1>8, <1>9, <1>10, <1>11, <1>12, <1>13 DEF Next

LEMMA RestStaysInit == Init => RestStays
  <1> SUFFICES ASSUME Init, Resolved(origin, File), NEW f \in File
               PROVE  /\ Parses(View[f])
                      /\ LeftOf(View[f], origin[f])
                      /\ \A n \in Name \ Gone : Declares(origin, f, n) => Declares(View, f, n)
    BY DEF RestStays
  <1>1. View[f] = origin[f] /\ origin[f] \in Seq(Line)
    BY TextAssumption DEF Init, View
  <1>2. Parses(origin[f])
    BY DEF Resolved
  <1> QED
    BY <1>1, <1>2, AllIsLeft DEF Declares

(* An applied operation deletes a whole declaration of one name, on which  *)
(* no constant hangs, and all other names stay declared.                   *)
LEMMA RestStaysOnEdit ==
  ASSUME IInv, SourcesBegin, OnlyUnusedGo, RestStays, ApplyFileEdit, applied' # applied
  PROVE  RestStays'
  <1> SUFFICES ASSUME "begin" \in calm', client' # "reader", Resolved(origin', File), AllSeen'
               PROVE  \A g \in File :
                        /\ Parses(View'[g])
                        /\ LeftOf(View'[g], origin'[g])
                        /\ \A n \in Name \ Gone' : Declares(origin', g, n) => Declares(View', g, n)
    BY DEF RestStays
  <1> DEFINE f == Found.file
             t == View[f]
             o == origin[f]
             removal == [op |-> Current, cut |-> Cut(t, Found), file |-> f]
             name == Current.target.name
             next == Splice(t, Found, <<>>)
  <1>1. /\ UNCHANGED <<disk, client, scope, origin>> /\ phase = "splice" /\ job = "edit"
        /\ "begin" \in calm /\ "index" \in calm
    <2>1. UNCHANGED <<disk, client, scope, origin>> /\ phase = "splice"
      BY DEF ApplyFileEdit, requests
    <2>2. "begin" \in calm
      BY DEF ApplyFileEdit, editing
    <2>3. job = "edit"
      BY <2>1 DEF IInv, JobsAndPhases
    <2> QED
      BY <2>1, <2>2, <2>3 DEF OnlyUnusedGo
  <1>2. /\ f \in File /\ Found \in found /\ Found \in Symbol /\ Found.from <= Found.to
        /\ t \in Seq(Line) /\ ~OutOfRange(t, Found) /\ Current \in Op /\ ops # <<>>
        /\ staged' = [staged EXCEPT ![f] = Splice(t, Found, Current.source)]
        /\ Splice(t, Found, Current.source) \in Seq(Line)
        /\ applied' = Append(applied, removal)
        /\ applied' \in Seq(Removal) /\ Len(applied') = Len(applied) + 1
        /\ applied'[Len(applied')] = removal
    BY EditEffect
  <1>3. Current.source = <<>> /\ name \in UnusedNames
    <2>1. ops \in Seq(Op)
      BY DEF IInv, TypeOK
    <2>2. 1 \in 1..Len(ops) /\ Current = ops[1]
      BY <1>2, <2>1 DEF Current
    <2> QED
      BY <1>1, <2>2 DEF OnlyUnusedGo
  <1>4. Parses(next)
    BY <1>2, <1>3 DEF ApplyFileEdit, editing, IInv, JobsAndPhases
  <1>5. Found \in SymbolsOf(f, t) /\ Found.name = name /\ Found.kind # "field"
    BY <1>1, FoundIsNoField
  <1> HIDE DEF f, t, removal, name, next
  <1>6. applied \in Seq(Removal) /\ removal.op.target.name = name /\ Len(applied) \in Nat
    BY DEF IInv, JobsAndPhases, removal, name
  <1>7. /\ \A k \in 1..Len(applied) : applied'[k] = applied[k]
        /\ 1..Len(applied') = 1..Len(applied) \cup {Len(applied')}
    <2>1. removal \in Removal
      BY <1>2, <1>6
    <2> QED
      BY <1>2, <1>6, <2>1, AppendProperties
  <1>8. AllSeen /\ ~Unseen(origin, name)
    <2>1. \A k \in 1..Len(applied') : ~Unseen(origin, applied'[k].op.target.name)
      BY <1>1, SeenStays DEF AllSeen
    <2>2. ~Unseen(origin, name)
      <3>1. Len(applied') \in 1..Len(applied')
        BY <1>2, <1>6
      <3>2. applied'[Len(applied')].op.target.name = name
        BY <1>2, <1>6
      <3> QED
        BY <2>1, <3>1, <3>2
    <2>3. \A k \in 1..Len(applied) : ~Unseen(origin, applied[k].op.target.name)
      BY <1>7, <2>1
    <2> QED
      BY <2>2, <2>3 DEF AllSeen
  <1>9. Gone' = Gone \cup {name}
    BY <1>2, <1>6, <1>7 DEF Gone
  <1>10. /\ \A g \in File : Parses(View[g]) /\ LeftOf(View[g], origin[g])
         /\ \A g \in File : \A n \in Name \ Gone : Declares(origin, g, n) => Declares(View, g, n)
    BY <1>1, <1>8 DEF RestStays
  <1>11. /\ View'[f] = next /\ next \in Seq(Line)
         /\ \A g \in File \ {f} : View'[g] = View[g]
    <2>1. staged' = [staged EXCEPT ![f] = next] /\ next \in Seq(Line)
      BY <1>2, <1>3 DEF next
    <2>2. next # NoText
      BY <2>1, TextAssumption
    <2>3. staged \in [File -> Texts]
      BY DEF IInv, TypeOK
    <2>4. staged'[f] = next /\ \A g \in File \ {f} : staged'[g] = staged[g]
      BY <1>2, <2>1, <2>3
    <2> QED
      BY <1>1, <1>2, <2>1, <2>2, <2>4 DEF View
  <1>12. Parses(t) /\ o \in Seq(Line) /\ LeftOf(t, o)
    BY <1>2, <1>10 DEF t, IInv, TypeOK
  <1>13. PICK e : Embeds(e, t, o)
    BY <1>12 DEF LeftOf
  <1> DEFINE h == Found.from
             d == t[h].decl
  <1>14. /\ h \in Heads(t) /\ name \in d.names /\ Found.to = h + d.size - 1
    BY <1>2, <1>5, SymbolsAreSymbols
  <1>15. e[h] \in Heads(o) /\ o[e[h]].decl = d
    <2>1. StaysWhole(t, o, e, h)
      BY <1>2, <1>12, <1>13, <1>14, DeclarationsStayWhole
    <2> QED
      BY <2>1 DEF StaysWhole
  <1>16. d.names = {name} /\ ~GivesValue(o, e[h])
    <2>1. ~SharesItsSpec(origin, name) /\ ~GivesOthersTheirValue(origin, name)
      BY <1>8 DEF Unseen
    <2>2. d.names = {name}
      BY <1>2, <1>14, <1>15, <2>1 DEF SharesItsSpec
    <2>3. ~GivesValue(o, e[h])
      BY <1>2, <1>14, <1>15, <2>1 DEF GivesOthersTheirValue, GivesValue
    <2> QED
      BY <2>2, <2>3
  <1>17. /\ LeftOf(next, o)
         /\ \A j \in Heads(t) \ {h} : \E k \in Heads(next) : next[k] = t[j]
    BY <1>2, <1>12, <1>13, <1>14, <1>16, DeletionEmbeds DEF next
  <1>18. ASSUME NEW n \in Name \ Gone', Declares(origin, f, n)
         PROVE  Declares(View', f, n)
    <2>1. Declares(View, f, n) /\ n # name
      BY <1>2, <1>9, <1>10, <1>18
    <2>2. PICK j \in Heads(t) : n \in t[j].decl.names
      BY <2>1 DEF Declares, t
    <2>3. j # h
      BY <1>16, <2>1, <2>2
    <2>4. PICK k \in Heads(next) : next[k] = t[j]
      BY <1>17, <2>2, <2>3
    <2> QED
      BY <1>11, <2>2, <2>4 DEF Declares
  <1>19. ASSUME NEW g \in File
         PROVE  /\ Parses(View'[g])
                /\ LeftOf(View'[g], origin'[g])
                /\ \A n \in Name \ Gone' : Declares(origin', g, n) => Declares(View', g, n)
    <2>1. CASE g = f
      BY <1>1, <1>4, <1>11, <1>17, <1>18, <2>1
    <2>2. CASE g # f
      <3>1. View'[g] = View[g] /\ origin' = origin
        BY <1>1, <1>11, <2>2
      <3>2. Parses(View[g]) /\ LeftOf(View[g], origin[g])
        BY <1>10
      <3>3. \A n \in Name \ Gone' : Declares(origin, g, n) => Declares(View, g, n)
        BY <1>9, <1>10
      <3>4. \A n \in Name \ Gone' : Declares(View, g, n) => Declares(View', g, n)
        BY <3>1 DEF Declares
      <3> QED
        BY <3>1, <3>2, <3>3, <3>4
    <2> QED
      BY <2>1, <2>2
  <1> QED
    BY <1>19

LEMMA RestStaysStep ==
  ASSUME IInv, SourcesBegin, OnlyUnusedGo, RestStays, [Next]_vars
  PROVE  RestStays'
  <1>1. CASE ApplyFileEdit /\ applied' # applied
    BY <1>1, RestStaysOnEdit
  <1>2. CASE \E f \in File : Edit(f)
    BY <1>2 DEF Edit, RestStays
  <1>3. CASE ~(\E f \in File : Edit(f)) /\ ~(ApplyFileEdit /\ applied' # applied)
    <2>1. /\ UNCHANGED <<origin, client, scope, disk, staged, applied>>
          /\ "begin" \in calm' => "begin" \in calm
      <3>1. CASE ApplyFileEdit
        <4>1. UNCHANGED <<applied, staged, calm>>
          BY <1>3, <3>1, RefusalChangesNothing
        <4> QED
          BY <3>1, <4>1 DEF ApplyFileEdit, requests
      <3> QED
        BY <1>3, <3>1, ReadsStay
    <2>2. View' = View /\ Gone' = Gone
      BY <2>1 DEF View, Gone
    <2>3. AllSeen' = AllSeen
      BY <2>1, SeenStays DEF AllSeen
    <2> SUFFICES ASSUME "begin" \in calm', client' # "reader", Resolved(origin', File), AllSeen',
                        NEW f \in File
                 PROVE  /\ Parses(View'[f])
                        /\ LeftOf(View'[f], origin'[f])
                        /\ \A n \in Name \ Gone' : Declares(origin', f, n) => Declares(View', f, n)
      BY DEF RestStays
    <2>4. /\ Parses(View[f])
          /\ LeftOf(View[f], origin[f])
          /\ \A n \in Name \ Gone : Declares(origin, f, n) => Declares(View, f, n)
      BY <2>1, <2>3 DEF RestStays
    <2> QED
      BY <2>1, <2>2, <2>4
  <1> QED
    BY <1>1, <1>2, <1>3

(* Together: what the rest refers to is still declared, for what has gone  *)
(* is referred to nowhere; and it is declared once, as it was.             *)
LEMMA RestIsHarmless ==
  ASSUME IInv, OnlyUnusedGo, RestStays
  PROVE  DeletesAreHarmless
  <1> SUFFICES ASSUME "begin" \in calm, client # "reader", Resolved(origin, File), AllSeen
               PROVE  Resolved(View, File) /\ SameValues(origin, View)
    BY DEF DeletesAreHarmless, AllSeen
  <1>1. /\ disk = origin
        /\ \A f \in File : /\ Parses(View[f]) /\ LeftOf(View[f], origin[f])
                           /\ View[f] \in Seq(Line) /\ origin[f] \in Seq(Line)
        /\ \A f \in File : \A n \in Name \ Gone : Declares(origin, f, n) => Declares(View, f, n)
    BY ViewIsText DEF OnlyUnusedGo, RestStays, IInv, TypeOK
  <1>2. ASSUME NEW f \in File
        PROVE  \E e :
                 /\ Embeds(e, View[f], origin[f])
                 /\ \A i \in Heads(View[f]) :
                      e[i] \in Heads(origin[f]) /\ origin[f][e[i]].decl = View[f][i].decl
    <2>1. PICK e : Embeds(e, View[f], origin[f])
      BY <1>1 DEF LeftOf
    <2>2. \A i \in Heads(View[f]) :
            e[i] \in Heads(origin[f]) /\ origin[f][e[i]].decl = View[f][i].decl
      <3> DEFINE t == View[f]
                 o == origin[f]
      <3> SUFFICES ASSUME NEW i \in Heads(t)
                   PROVE  e[i] \in Heads(o) /\ o[e[i]].decl = t[i].decl
        OBVIOUS
      <3>1. t \in Seq(Line) /\ o \in Seq(Line) /\ Parses(t) /\ Embeds(e, t, o)
        BY <1>1, <2>1
      <3> HIDE DEF t, o
      <3>2. StaysWhole(t, o, e, i)
        BY <3>1, DeclarationsStayWhole
      <3> QED
        BY <3>2 DEF StaysWhole
    <2> QED
      BY <2>1, <2>2
  <1>3. ASSUME NEW f \in File, NEW i \in Heads(View[f]), NEW r \in View[f][i].decl.refs
        PROVE  \E g \in File : Declares(View, g, r[1])
    <2>1. PICK k \in Heads(origin[f]) : origin[f][k].decl = View[f][i].decl
      BY <1>2
    <2>2. PICK g \in File : Declares(origin, g, r[1])
      BY <2>1 DEF Resolved
    <2>3. r[1] \in Name
      <3>1. PICK j \in Heads(origin[g]) : r[1] \in origin[g][j].decl.names
        BY <2>2 DEF Declares
      <3>2. origin[g] \in Seq(Line) /\ j \in 1..Len(origin[g])
        BY <1>1, <3>1 DEF Heads
      <3> QED
        BY <3>1, <3>2, LinesAreParts
    <2>4. r[1] \notin Gone
      <3>1. SUFFICES ASSUME NEW x \in 1..Len(applied), r[1] = applied[x].op.target.name
                     PROVE  FALSE
        BY DEF Gone
      <3>2. r[1] \in UnusedNames /\ ~Unseen(origin, r[1])
        BY <3>1 DEF OnlyUnusedGo, AllSeen
      <3> QED
        BY <1>1, <2>1, <3>2, NobodyRefersTo DEF IInv
    <2> QED
      BY <1>1, <2>2, <2>3, <2>4
  <1>4. ASSUME NEW f \in File, NEW g \in File, NEW i \in Heads(View[f]), NEW j \in Heads(View[g]),
               View[f][i].decl.names \cap View[g][j].decl.names # {}
        PROVE  <<f, i>> = <<g, j>>
    <2>1. PICK e :
            /\ Embeds(e, View[f], origin[f])
            /\ \A k \in Heads(View[f]) :
                 e[k] \in Heads(origin[f]) /\ origin[f][e[k]].decl = View[f][k].decl
      BY <1>2
    <2>2. PICK m \in Heads(origin[g]) :
            origin[g][m].decl = View[g][j].decl /\ (f = g => m = e[j])
      <3>1. CASE f = g
        BY <2>1, <3>1
      <3>2. CASE f # g
        BY <1>2, <3>2
      <3> QED
        BY <3>1, <3>2
    <2>3. <<f, e[i]>> = <<g, m>>
      <3>1. origin[f][e[i]].decl.names \cap origin[g][m].decl.names # {}
        BY <1>4, <2>1, <2>2
      <3>2. e[i] \in Heads(origin[f])
        BY <2>1
      <3> QED
        BY <3>1, <3>2, <2>2 DEF Resolved
    <2>4. f = g /\ e[i] = e[j]
      BY <2>2, <2>3
    <2>5. i = j
      <3>1. i \in 1..Len(View[f]) /\ j \in 1..Len(View[f]) /\ e[i] \in Int /\ e[j] \in Int
        <4>1. i \in 1..Len(View[f]) /\ j \in 1..Len(View[f])
          BY <2>4 DEF Heads
        <4>2. \A y \in 1..Len(View[f]) : e[y] \in Int
          BY <2>1 DEF Embeds
        <4> QED
          BY <4>1, <4>2
      <3>2. (i < j => e[i] < e[j]) /\ (j < i => e[j] < e[i])
        BY <2>1, <3>1 DEF Embeds
      <3> QED
        BY <2>4, <3>1, <3>2
    <2> QED
      BY <2>4, <2>5
  <1>5. Resolved(View, File)
    BY <1>1, <1>3, <1>4 DEF Resolved
  <1>6. ASSUME NEW f \in File, NEW i \in Heads(View[f]), NEW j \in Heads(origin[f]),
               View[f][i].decl = origin[f][j].decl
        PROVE  ValueOf(View[f], i) = ValueOf(origin[f], j)
    <2>1. PICK e :
            /\ Embeds(e, View[f], origin[f])
            /\ \A k \in Heads(View[f]) :
                 e[k] \in Heads(origin[f]) /\ origin[f][e[k]].decl = View[f][k].decl
      BY <1>2
    <2>2. e[i] \in Heads(origin[f]) /\ origin[f][e[i]].decl = origin[f][j].decl
      BY <1>6, <2>1
    <2>3. origin[f][j].decl.names # {}
      <3>1. origin[f] \in Seq(Line) /\ j \in 1..Len(origin[f])
        BY <1>1 DEF Heads
      <3> QED
        BY <3>1, LinesAreParts
    <2>4. <<f, e[i]>> = <<f, j>>
      <3>1. origin[f][e[i]].decl.names \cap origin[f][j].decl.names # {}
        BY <2>2, <2>3
      <3> QED
        BY <2>2, <3>1 DEF Resolved
    <2>5. ValueOf(View[f], i) = ValueOf(origin[f], e[i])
      BY <1>1, <2>1, ValuesStay
    <2> QED
      BY <2>4, <2>5
  <1>7. SameValues(origin, View)
    BY <1>6 DEF SameValues
  <1> QED
    BY <1>5, <1>7

(* However many deletions a client takes from Suggest, and however they    *)
(* are spread over files: of code that compiled, what the index saw all of *)
(* can be deleted without harm. There is no way to break the rest but those*)
(* that Unseen names.                                                      *)
THEOREM DeletesHarmNothing == Spec => []DeletesAreHarmless
  <1> DEFINE Inv == IInv /\ SourcesBegin /\ OnlyUnusedGo /\ RestStays
  <1>1. Init => Inv
    BY InitOK, SourcesBeginInit, OnlyUnusedGoInit, RestStaysInit
  <1>2. Inv /\ [Next]_vars => Inv'
    BY IInvStep, SourcesBeginStep, OnlyUnusedGoStep, RestStaysStep
  <1>3. Inv => DeletesAreHarmless
    BY RestIsHarmless
  <1> HIDE DEF Inv
  <1> QED
    BY <1>1, <1>2, <1>3, PTL DEF Spec
=============================================================================
