--------------------------- MODULE MarkdownFixes ----------------------------
(***************************************************************************)
(* The Markdown fix loop (internal/lang/markdown): Suggest parses a        *)
(* document and proposes structural fixes, each located by the byte offset *)
(* of its heading; Apply compiles a proposal against the document as it is *)
(* then; the result is published and the loop starts again.                *)
(*                                                                         *)
(* A document is a sequence of lines.  A heading text is a letter followed *)
(* by the numbers renames have appended; its anchor is the same sequence,  *)
(* joined by dashes.  Sizes are bytes, since offsets decide which heading  *)
(* an operation reaches.  The parser is goldmark: an ATX heading without   *)
(* text has no lines, a setext heading's lines leave out its underline.    *)
(***************************************************************************)
EXTENDS Integers, Sequences, FiniteSets

CONSTANTS
  PathTitle,      \* the title EnsureMarkdownH1 derives from the file name
  InitialLine,    \* lines of the documents the loop starts from
  InitialLink,    \* anchors their links may name
  MaxInitial,     \* their greatest number of lines
  MaxLines,       \* bounds the growth of a document
  MaxBatch,       \* proposals of one Suggest applied to one change set
  MaxOutside,     \* bounds the edits other programs make
  NoDoc, NoFix

VARIABLES
  doc,            \* the document in the Editor's view
  links,          \* anchors that in-document links name
  proposals,      \* what the last Suggest returned and is still to be applied
  pending,        \* the document in the change set, NoDoc before the first edit
  applied,        \* proposals applied to this change set
  outside         \* edits made by other programs, for the bound only

(* History of the run.                                                     *)
VARIABLES
  base,           \* the document the proposals were computed from
  last            \* the proposal applied last, NoFix outside a change set

vars == <<doc, links, proposals, pending, applied, outside, base, last>>

-----------------------------------------------------------------------------
(* Lines.  An id tells headings apart across edits; the code has none.     *)
Atx(level, name, id) == [kind |-> "atx", level |-> level, name |-> name, id |-> id]
Setext(level, name, id) == [Atx(level, name, id) EXCEPT !.kind = "setext"]
Bare(level, id) == [Atx(level, <<"empty heading">>, id) EXCEPT !.kind = "bare"]
Text == [kind |-> "text"]
Blank == [kind |-> "blank"]

HeadingKinds == {"atx", "setext", "bare"}

(* What goldmark can find: a level, and a text (the parts of it).          *)
IsHeading(l) ==
  /\ l.kind \in HeadingKinds /\ l.level \in 1..6 /\ l.id \in Nat
  /\ l = [kind |-> l.kind, level |-> l.level, name |-> l.name, id |-> l.id]
  /\ Len(l.name) \in Nat \ {0} /\ l.name = [i \in 1..Len(l.name) |-> l.name[i]]

ASSUME LineAssumption == \A l \in InitialLine : l \in {Text, Blank} \/ IsHeading(l)

ASSUME BoundsAssumption ==
  /\ MaxInitial \in Nat /\ MaxLines \in Nat /\ MaxInitial <= MaxLines
  /\ MaxBatch \in Nat /\ MaxOutside \in Nat

TextSize(name) == 1 + 2 * (Len(name) - 1)

Size(line) ==
  CASE line.kind = "atx" -> line.level + TextSize(line.name) + 2
    [] line.kind = "setext" -> TextSize(line.name) + 5
    [] line.kind = "bare" -> line.level + 1
    [] line.kind = "text" -> 5
    [] line.kind = "blank" -> 1

(* The part of a line its first physical line takes.                       *)
TitleSize(line) == IF line.kind = "setext" THEN TextSize(line.name) + 1 ELSE Size(line)

(* Offset(d)[i] is where line i of d starts, Offset(d)[Len(d) + 1] the     *)
(* size of d.                                                              *)
Offset(d) ==
  LET at[i \in 1..Len(d) + 1] == IF i = 1 THEN 0 ELSE at[i - 1] + Size(d[i - 1])
  IN at

Headings(d) == {i \in 1..Len(d) : d[i].kind \in HeadingKinds}
Least(S) == CHOOSE i \in S : \A j \in S : i <= j
HeadingIds(d) == {d[h].id : h \in Headings(d)}
NewId(d) == Least((0..Len(d)) \ HeadingIds(d))

(* The line a heading's location points at: without lines of its own, the  *)
(* heading is taken to be at offset 0.                                     *)
LineOf(d, h) == IF d[h].kind = "bare" THEN 1 ELSE h

(* Fault: the search for the line's start stops on the line break before.  *)
StartOnBreak(d, h) == Offset(d)[LineOf(d, h)] - 1

(* headingInfo.location.Range.                                             *)
Start(d, h) == Offset(d)[LineOf(d, h)]
End(d, h) == Offset(d)[LineOf(d, h)] + TitleSize(d[LineOf(d, h)])

(* headingInfo.sectionRange ends at the next heading of the same level or  *)
(* a higher one.                                                           *)
SectionEnd(d, h) ==
  LET closing == {j \in Headings(d) : j > h /\ d[j].level <= d[h].level}
  IN IF closing = {} THEN Offset(d)[Len(d) + 1] ELSE Start(d, Least(closing))

(* sectionText(heading) = "": no line but blank ones reaches into the      *)
(* section, or its end lies before its start.                              *)
EmptySection(d, h) ==
  LET at == Offset(d)
      from == End(d, h)
      to == SectionEnd(d, h)
  IN \A k \in 1..Len(d) :
       d[k].kind # "blank" => at[k] >= to \/ at[k + 1] <= from

Occurrence(d, h) == Cardinality({j \in Headings(d) : j <= h /\ d[j].name = d[h].name})

(* headingInfo.qualified: a repeated anchor is numbered from 1.            *)
Qualified(d, h) ==
  IF Occurrence(d, h) = 1 THEN d[h].name ELSE Append(d[h].name, Occurrence(d, h) - 1)

(* The id of the heading a link leads to; a set, empty for a broken link.  *)
LinkTarget(d, anchor) ==
  LET found == {h \in Headings(d) : Qualified(d, h) = anchor}
  IN IF found = {} THEN {} ELSE {d[Least(found)].id}

HasH1(d) == \E h \in Headings(d) : d[h].level = 1
Parent(d, h) == CHOOSE j \in Headings(d) : j < h /\ \A k \in Headings(d) : k < h => k <= j

Jumps(d) ==
  {h \in Headings(d) : (\E j \in Headings(d) : j < h) /\ d[h].level > d[Parent(d, h)].level + 1}

-----------------------------------------------------------------------------
Proposal(kind, offset, level, name, about) ==
  [kind |-> kind, offset |-> offset, level |-> level, name |-> name, about |-> about]

EnsureH1s(d) ==
  IF HasH1(d) THEN {} ELSE {Proposal("h1", 0, 1, <<PathTitle>>, NewId(d))}

(* Fault: the new level is one too deep.                                   *)
SetLevelsTooDeep(d) ==
  {Proposal("level", Start(d, h), d[Parent(d, h)].level + 2, <<>>, d[h].id) : h \in Jumps(d)}

SetLevels(d) ==
  {Proposal("level", Start(d, h), d[Parent(d, h)].level + 1, <<>>, d[h].id) : h \in Jumps(d)}

InsertBodies(d) ==
  {Proposal("body", Start(d, h), 0, <<>>, d[h].id) :
     h \in {j \in Headings(d) : EmptySection(d, j)}}

(* duplicateHeadingSuggestions: a heading linked to keeps its name.        *)
Renames(d) ==
  {Proposal("rename", Start(d, h), 0, Append(d[h].name, Occurrence(d, h)), d[h].id) :
     h \in {j \in Headings(d) : /\ Occurrence(d, j) > 1
                                /\ d[j].name \notin links
                                /\ Qualified(d, j) \notin links}}

(* markdownFileSuggestions, the executable ones.                           *)
Suggestions(d) == EnsureH1s(d) \cup SetLevels(d) \cup InsertBodies(d) \cup Renames(d)

-----------------------------------------------------------------------------
(* markdownHeadingAtOffset: the first heading located there, if any.       *)
HeadingAt(d, offset) ==
  LET found == {h \in Headings(d) : Start(d, h) = offset}
  IN IF found = {} THEN {} ELSE {Least(found)}

(* Each of these is the set of the documents the operation can make of d:  *)
(* empty when it does not compile.                                         *)
EnsuredH1(d, p) == IF HasH1(d) THEN {} ELSE {<<Atx(1, p.name, NewId(d)), Blank>> \o d}

(* Fault: the marker is written with the heading's level, not the new one. *)
LeveledAsBefore(d, p) ==
  {d : h \in {j \in HeadingAt(d, p.offset) : d[LineOf(d, j)].kind = "atx"}}

(* Only a line of number signs and a space has a marker to replace.        *)
LeveledLine(d, p) ==
  {[d EXCEPT ![LineOf(d, h)].level = p.level] :
     h \in {j \in HeadingAt(d, p.offset) : d[LineOf(d, j)].kind = "atx"}}

(* Fault: the first heading with the old text is renamed.                  *)
RenamedByText(d, p) ==
  {[d EXCEPT ![Least({k \in Headings(d) : d[k].name = d[h].name})].name = p.name] :
     h \in {j \in HeadingAt(d, p.offset) : d[LineOf(d, j)].kind = "atx"}}

RenamedLine(d, p) ==
  {[d EXCEPT ![LineOf(d, h)].name = p.name] :
     h \in {j \in HeadingAt(d, p.offset) : d[LineOf(d, j)].kind = "atx"}}

(* The placeholder goes in after the heading's line, behind a blank line   *)
(* unless one follows.  Within a setext heading that takes the underline   *)
(* away from its title.                                                    *)
FilledSection(d, p) ==
  {LET k == LineOf(d, h)
       next == IF k < Len(d) /\ d[k + 1].kind = "blank" THEN <<Text>> ELSE <<Blank, Text>>
       filled == IF d[k].kind = "setext"
                 THEN <<Text, Blank, Setext(d[k].level, <<"TBD">>, NewId(d))>>
                 ELSE <<d[k]>> \o next
   IN SubSeq(d, 1, k - 1) \o filled \o SubSeq(d, k + 1, Len(d)) : h \in HeadingAt(d, p.offset)}

(* compileMarkdownEdit and the splice of its one edit.                     *)
Compiled(d, p) ==
  CASE p.kind = "h1" -> EnsuredH1(d, p)
    [] p.kind = "level" -> LeveledLine(d, p)
    [] p.kind = "rename" -> RenamedLine(d, p)
    [] p.kind = "body" -> FilledSection(d, p)

-----------------------------------------------------------------------------
(* A paragraph just above a setext heading would be part of it.            *)
Parses(d) ==
  \A k \in 2..Len(d) : d[k].kind = "setext" => d[k - 1].kind = "blank"

WithIds(d) ==
  [k \in 1..Len(d) |-> IF d[k].kind \in HeadingKinds THEN [d[k] EXCEPT !.id = k] ELSE d[k]]

InitialDocs ==
  {WithIds(d) : d \in {e \in UNION {[1..n -> InitialLine] : n \in 1..MaxInitial} : Parses(e)}}

View == IF pending = NoDoc THEN doc ELSE pending

Init ==
  /\ doc \in InitialDocs
  /\ links \in {{}} \cup {{a} : a \in InitialLink}
  /\ proposals = {} /\ applied = 0 /\ outside = 0
  /\ pending = NoDoc /\ base = NoDoc /\ last = NoFix

(* Engine.Suggest, on the Editor's view, for the next change set.          *)
Suggest ==
  /\ pending = NoDoc /\ proposals = {}
  /\ proposals' = Suggestions(doc)
  /\ base' = doc
  /\ UNCHANGED <<doc, links, pending, applied, outside, last>>

(* ChangeSet.Apply of one proposal; a proposal that does not compile is an *)
(* error and leaves the change set as it was.  (MaxLines stops a loop that *)
(* would never end.)                                                       *)
Apply(p) ==
  /\ p \in proposals
  /\ applied < MaxBatch
  /\ proposals' = proposals \ {p}
  /\ IF Compiled(View, p) = {} \/ Len(View) >= MaxLines
     THEN UNCHANGED <<pending, applied, last>>
     ELSE /\ pending' \in Compiled(View, p)
          /\ applied' = applied + 1
          /\ last' = p
  /\ UNCHANGED <<doc, links, outside, base>>

(* Commit, or op run --write: the change set becomes the document.  The    *)
(* proposals left over are forgotten.                                      *)
Publish ==
  /\ pending # NoDoc
  /\ doc' = pending
  /\ pending' = NoDoc /\ proposals' = {} /\ applied' = 0
  /\ base' = NoDoc /\ last' = NoFix
  /\ UNCHANGED <<links, outside>>

(* Another program writes a paragraph at the top, or takes the first line  *)
(* away, while the change set has no copy of the document yet.             *)
OutsideEdit ==
  /\ outside < MaxOutside /\ Len(doc) < MaxLines
  /\ pending = NoDoc
  /\ \/ doc' = <<Text, Blank>> \o doc
     \/ Len(doc) > 1 /\ doc' = Tail(doc)
  /\ outside' = outside + 1
  /\ UNCHANGED <<links, proposals, pending, applied, base, last>>

Loop == Suggest \/ (\E p \in proposals : Apply(p)) \/ Publish

Next == Loop \/ OutsideEdit

(* The client keeps its loop going.                                        *)
Spec == Init /\ [][Next]_vars /\ WF_vars(Loop)

-----------------------------------------------------------------------------
IsLine(l) ==
  \/ l \in {Text, Blank}
  \/ /\ l.kind \in HeadingKinds /\ l.level \in 1..6 /\ l.id \in 0..MaxLines
     /\ Len(l.name) > 0

IsDoc(d) == Len(d) \in 0..(MaxLines + 2) /\ \A k \in 1..Len(d) : IsLine(d[k])

TypeOK ==
  /\ IsDoc(doc)
  /\ pending = NoDoc \/ IsDoc(pending)
  /\ base = NoDoc \/ IsDoc(base)
  /\ \A p \in proposals : p.offset \in Nat /\ p.level \in 0..6
  /\ applied \in 0..MaxBatch /\ outside \in 0..MaxOutside

HasBare(d) == \E h \in Headings(d) : d[h].kind = "bare"
WithId(d, id) == CHOOSE h \in Headings(d) : d[h].id = id

(* A proposal is applied to the very document it was computed from.        *)
FreshFix == /\ last' # NoFix /\ pending = NoDoc /\ pending' # NoDoc
            /\ base = doc

(* The finding behind proposal p is gone from d.                           *)
Fixed(d, p) ==
  CASE p.kind = "h1" -> HasH1(d)
    [] p.kind = "level" -> WithId(d, p.about) \notin Jumps(d)
    [] p.kind = "body" -> ~EmptySection(d, WithId(d, p.about))
    [] p.kind = "rename" -> d[WithId(d, p.about)].name = p.name

(* In a document without an empty heading, a fix changes its own heading,  *)
(* mends it, and keeps every other heading's level and text, although it   *)
(* finds its heading by byte offset only.                                  *)
FreshFixMendsItsHeading ==
  [][FreshFix /\ ~HasBare(doc) =>
       /\ Fixed(pending', last')
       /\ \A id \in HeadingIds(doc) \ {last'.about} :
            LET old == doc[WithId(doc, id)]
                new == pending'[WithId(pending', id)]
            IN id \in HeadingIds(pending') /\ new.level = old.level /\ new.name = old.name]_vars

(* A heading with this text may have this anchor.                          *)
HasAnchor(name, a) == a = name \/ (Len(a) > 0 /\ a = Append(name, a[Len(a)]))

(* Anchors are counted from the top, so a fix can take a link away from    *)
(* its heading without touching either.  It does so only to headings with  *)
(* the title it has added, or, below the heading it has renamed, to those  *)
(* with its old text or its new one.                                       *)
LinksMoveOnlyBelowTheirLike ==
  [][FreshFix /\ ~HasBare(doc) =>
       \A a \in links :
         LinkTarget(doc, a) \notin {{}, LinkTarget(pending', a)} =>
           \/ last'.kind = "h1" /\ HasAnchor(last'.name, a)
           \/ /\ last'.kind = "rename"
              /\ LET h == WithId(doc, last'.about)
                 IN /\ HasAnchor(doc[h].name, a) \/ HasAnchor(last'.name, a)
                    /\ \A id \in LinkTarget(doc, a) : h < WithId(doc, id)]_vars

(* The loop comes to rest: in the end no proposal compiles any more.       *)
LoopComesToRest ==
  <>[](HasBare(doc) \/ \A p \in Suggestions(doc) : Compiled(doc, p) = {})

(* README: "safe duplicate-heading cases".  A fix of an unchanged document *)
(* leaves every link leading where it led.                                 *)
LinksKeepTheirTarget ==
  [][FreshFix => \A a \in links :
       LinkTarget(doc, a) # {} => LinkTarget(pending', a) = LinkTarget(doc, a)]_vars

(* markdown_empty_section: "Heading has no body content before the next    *)
(* section."  A section that has a paragraph right under its heading gets  *)
(* no placeholder.                                                         *)
PlaceholdersGoIntoEmptySections ==
  \A p \in proposals :
    p.kind = "body" =>
      ~ \E h \in Headings(base) : /\ base[h].id = p.about
                                  /\ h < Len(base) /\ base[h + 1] = Text
=============================================================================
