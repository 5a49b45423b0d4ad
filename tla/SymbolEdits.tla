---------------------------- MODULE SymbolEdits ----------------------------
(***************************************************************************)
(* Edits of single Go symbols, from the reads they are based on to the text*)
(* they leave: ReadSymbol and ReplaceSymbol, Suggest's deletions of unused *)
(* private symbols and DeleteSymbol, and the command `cycle --apply-first`,*)
(* which assesses, asks a second engine for the suggestion it has selected,*)
(* applies it to a change set, validates and prints the diff. Every one of *)
(* them reads a file several times, and other programs may write between.  *)
(*                                                                         *)
(* A text is a sequence of lines, each a part of a top-level declaration,  *)
(* so a range computed from one text can be applied to another. A hash is  *)
(* the lines it was computed from. All files are of one package; which of  *)
(* them are tests and which are generated is fixed. The lines of a constant*)
(* group follow each other; the first, of kind "iota", gives the values. A *)
(* type's fields and interface methods are on its second line. Methods with*)
(* a receiver are left out.                                                *)
(***************************************************************************)
EXTENDS Naturals, Sequences, FiniteSets

CONSTANTS
  File,           \* file names, naturals in the order of the paths
  TestFile,       \* the files that are tests
  GeneratedFile,  \* the files that are generated
  Name,           \* names of symbols, naturals in alphabetical order
  Private,        \* the names Suggest may propose: private, not init or main
  Start,          \* the workspaces in which a client begins
  Changed,        \* Changed[f]: the texts another program may give to f
  Source,         \* declarations a client writes with ReplaceSymbol
  NoText,         \* marks a file without a text
  MaxChanges      \* bound: how often other programs write

Kind == {"func", "type", "var", "const", "field"}

\* skipped: the key of a composite literal, or an identifier at the offset at
\* which another file declares the name
How == {"read", "call", "skipped"}

\* init: a variable that is given a value
Decl == {d \in [names : (SUBSET Name) \ {{}}, size : Nat \ {0}, fields : SUBSET Name,
                kind : {"func", "type", "var", "init", "const", "iota"},
                refs : SUBSET (Name \X How)] :
           d.fields # {} => d.kind = "type" /\ d.size > 1}

Line == [decl : Decl, part : Nat \ {0}]

Lines(d) == [i \in 1..d.size |-> [decl |-> d, part |-> i]]

ASSUME FileAssumption ==
  /\ File \subseteq Nat /\ File # {} /\ IsFiniteSet(File)
  /\ TestFile \cup GeneratedFile \subseteq File
ASSUME NameAssumption == Name \subseteq Nat /\ Private \subseteq Name
ASSUME TextAssumption ==
  /\ NoText \notin Seq(Line)
  /\ Start \subseteq [File -> Seq(Line)]
  /\ Changed \in [File -> SUBSET Seq(Line)]
  /\ Source \subseteq Decl
ASSUME BoundAssumption == MaxChanges \in Nat

VARIABLES
  disk,       \* the files
  staged,     \* the texts of the client's change set, over the disk
  scope,      \* IncludeTests, IncludeGenerated
  client,     \* "cycle", "bot" (Suggest, then Apply of all), "reader"
  job,        \* what the client is about: "assess", "suggest", "read", "edit"
  phase,      \* where in the job it is
  unread,     \* files buildIndex has not read yet
  indexed,    \* the texts in the index
  todo,       \* symbols to propose, their hash not yet read
  proposals,  \* the deletions proposed, in the order of their IDs
  selected,   \* the proposals `cycle` selected: one or none
  ops,        \* operations to apply, the first one under way
  found,      \* the symbol the operation has found, as a set
  passed,     \* the verdict of Validate
  diff,       \* the texts Diff compares, [before, after], one or none
  applied,    \* history: the operations made, with the lines they removed
  origin,     \* history: the workspace the client began with
  calm,       \* history: the moments since which no file has changed
  moved       \* history: changes by other programs

requests == <<client, scope>>
index == <<unread, indexed>>
suggesting == <<todo, proposals, selected>>
editing == <<staged, ops, found, applied>>
reporting == <<passed, diff>>
vars == <<disk, requests, job, phase, index, suggesting, editing, reporting,
          origin, calm, moved>>

-----------------------------------------------------------------------------
(* readFileWithOverlay, of the change set.                                 *)
View == [f \in File |-> IF staged[f] # NoText THEN staged[f] ELSE disk[f]]

(* The parser: whole declarations, and constants that have values.         *)
Heads(t) == {i \in 1..Len(t) : t[i].part = 1}

Parses(t) ==
  \A i \in 1..Len(t) :
    LET d == t[i].decl IN
    /\ t[i].part <= d.size
    /\ IF t[i].part = 1
       THEN d.kind = "const" => i > 1 /\ t[i-1].decl.kind \in {"iota", "const"}
       ELSE i > 1 /\ t[i-1] = [decl |-> d, part |-> t[i].part - 1]
    /\ t[i].part < d.size => i < Len(t) /\ t[i+1].decl = d /\ t[i+1].part = t[i].part + 1

(* goFiles: the files a scope asks for.                                    *)
InScope(s) ==
  {f \in File : (f \in TestFile => s.tests) /\ (f \in GeneratedFile => s.generated)}

(* SelectorScope: an operation or a read asks for neither.                 *)
SelectorScope == [tests |-> FALSE, generated |-> FALSE]

Symbol == [file : File, kind : Kind, name : Name, from : Nat \ {0}, to : Nat]

KindOf(d) == CASE d.kind = "iota" -> "const" [] d.kind = "init" -> "var" [] OTHER -> d.kind

(* indexDecls: a symbol for each name; its location is that of the spec.   *)
DeclaredIn(f, t, i) ==
  {[file |-> f, kind |-> KindOf(t[i].decl), name |-> n,
    from |-> i, to |-> i + t[i].decl.size - 1] : n \in t[i].decl.names}

FieldsIn(f, t, i) ==
  {[file |-> f, kind |-> "field", name |-> n, from |-> i + 1, to |-> i + 1]
     : n \in t[i].decl.fields}

SymbolsOf(f, t) == UNION {DeclaredIn(f, t, i) \cup FieldsIn(f, t, i) : i \in Heads(t)}

IndexedFiles(idx) == {f \in File : idx[f] # NoText}

Symbols(idx) == UNION {SymbolsOf(f, idx[f]) : f \in IndexedFiles(idx)}

(* SortSymbols.                                                            *)
Before(s, t) ==
  \/ s.file < t.file
  \/ s.file = t.file /\ (s.from < t.from \/ (s.from = t.from /\ s.name < t.name))

IsFirst(s, S) == s \in S /\ \A t \in S \ {s} : Before(s, t)

First(S) == CHOOSE s \in S : IsFirst(s, S)

(* symbolForIdent and callTarget: an identifier counts for the first symbol*)
(* of its name, a field or not; the name of a call, for the first function.*)
Standing(idx, n, how) ==
  {s \in Symbols(idx) : s.name = n /\ (how = "call" => s.kind = "func")}

(* As if calls were not usages.                                            *)
IsUsageButCall(d, n, how) ==
  how = "read" /\ (<<n, how>> \in d.refs \/ (d.kind \in {"init", "iota"} /\ n \in d.names))

(* indexUses: calls are looked for in the bodies of functions only, and the*)
(* keys of composite literals are skipped. A spec with values writes to its*)
(* own names.                                                              *)
IsUsage(d, n, how) ==
  \/ <<n, how>> \in d.refs /\ (how = "read" \/ (how = "call" /\ d.kind = "func"))
  \/ how = "read" /\ d.kind \in {"init", "iota"} /\ n \in d.names

Used(idx) ==
  {s \in Symbols(idx) : \E f \in IndexedFiles(idx), how \in How : \E i \in Heads(idx[f]) :
     IsUsage(idx[f][i].decl, s.name, how) /\ IsFirst(s, Standing(idx, s.name, how))}

Least(S) == CHOOSE n \in S : \A m \in S : n <= m

Cut(t, s) == SubSeq(t, s.from, s.to)

OutOfRange(t, s) == s.to > Len(t)

(* A target is a symbol's ID, which ends in its offset, or a name.         *)
Target == [file : File, kind : Kind, name : Name, at : Nat]

IdOf(s) == [file |-> s.file, kind |-> s.kind, name |-> s.name, at |-> s.from]

FilterSymbols(S, target) ==
  {s \in S : IF target.at = 0 THEN s.name = target.name ELSE IdOf(s) = target}

(* An operation: replace the target's lines by source, or delete them. An  *)
(* empty hash is not checked.                                              *)
Op == [target : Target, hash : Seq(Line), source : Seq(Line)]

Current == Head(ops)
Found == CHOOSE s \in found : TRUE

Splice(t, s, source) ==
  SubSeq(t, 1, s.from - 1) \o source \o SubSeq(t, s.to + 1, Len(t))

(* The compiler's view: what is used is declared, and once.                *)
Declares(ws, f, n) == \E i \in Heads(ws[f]) : n \in ws[f][i].decl.names

Resolved(ws, files) ==
  /\ \A f \in files : Parses(ws[f])
  /\ \A f \in files : \A i \in Heads(ws[f]) : \A r \in ws[f][i].decl.refs :
       \E g \in files : Declares(ws, g, r[1])
  /\ \A f, g \in files : \A i \in Heads(ws[f]), j \in Heads(ws[g]) :
       ws[f][i].decl.names \cap ws[g][j].decl.names # {} => <<f, i>> = <<g, j>>

(* Validate reads the scope's files, and the generated ones as well.       *)
Validated == InScope([scope EXCEPT !.generated = TRUE])

-----------------------------------------------------------------------------
(* A client begins: a reader knows the name it will replace, and by what.  *)
Init ==
  /\ disk \in Start
  /\ origin = disk
  /\ staged = [f \in File |-> NoText]
  /\ \/ /\ client \in {"cycle", "bot"}
        /\ scope \in [tests : BOOLEAN, generated : BOOLEAN]
        /\ job = IF client = "cycle" THEN "assess" ELSE "suggest"
        /\ ops = <<>>
     \/ /\ client = "reader"
        /\ scope = SelectorScope
        /\ job = "read"
        /\ \E n \in Name, d \in Source :
             ops = <<[target |-> [file |-> Least(File), kind |-> "func", name |-> n, at |-> 0],
                      hash |-> <<>>, source |-> Lines(d)]>>
  /\ phase = "index"
  /\ unread = InScope(scope)
  /\ indexed = [f \in File |-> NoText]
  /\ todo = {} /\ proposals = <<>> /\ selected = <<>>
  /\ found = {} /\ applied = <<>>
  /\ passed = FALSE /\ diff = <<>>
  /\ calm = {"begin"} /\ moved = 0

(* buildIndex reads one file; one that does not parse is left out.         *)
IndexFile ==
  /\ phase = "index" /\ unread # {}
  /\ \E f \in unread :
     /\ f = Least(unread)
     /\ unread' = unread \ {f}
     /\ indexed' = [indexed EXCEPT ![f] = IF Parses(View[f]) THEN View[f] ELSE NoText]
  /\ UNCHANGED <<disk, requests, job, phase, suggesting, editing, reporting,
                 origin, calm, moved>>

StartIndex(s) ==
  /\ phase' = "index"
  /\ unread' = InScope(s)
  /\ indexed' = [f \in File |-> NoText]

(* suggestUnusedPrivate: what it will propose ...                          *)
Unused(idx) == {s \in Symbols(idx) \ Used(idx) : s.name \in Private /\ s.kind # "field"}

FindUnused ==
  /\ phase = "index" /\ unread = {} /\ job \in {"assess", "suggest"}
  /\ todo' = Unused(indexed)
  /\ proposals' = <<>>
  /\ phase' = "propose"
  /\ UNCHANGED <<disk, requests, job, index, selected, editing, reporting,
                 origin, calm, moved>>

Deletion(s) == [target |-> IdOf(s), hash |-> Cut(View[s.file], s), source |-> <<>>]

(* As if the symbols came from a map.                                      *)
ProposeAnyOrder ==
  /\ phase = "propose" /\ todo # {}
  /\ \E s \in todo :
     IF OutOfRange(View[s.file], s)
     THEN phase' = "refused" /\ UNCHANGED <<todo, proposals>>
     ELSE /\ todo' = todo \ {s}
          /\ proposals' = Append(proposals, Deletion(s))
          /\ UNCHANGED phase
  /\ UNCHANGED <<disk, requests, job, index, selected, editing, reporting,
                 origin, calm, moved>>

(* ... each with sourceHash, which reads the file again.                   *)
Propose ==
  /\ phase = "propose" /\ todo # {}
  /\ \E s \in todo :
     /\ s = First(todo)
     /\ IF OutOfRange(View[s.file], s)
        THEN phase' = "refused" /\ UNCHANGED <<todo, proposals>>
        ELSE /\ todo' = todo \ {s}
             /\ proposals' = Append(proposals, Deletion(s))
             /\ UNCHANGED phase
  /\ UNCHANGED <<disk, requests, job, index, selected, editing, reporting,
                 origin, calm, moved>>

(* cycle: the first suggestion with operations. Deletions are numbered     *)
(* before the suggestions without, so it is number one. A second engine is *)
(* asked for its suggestions ...                                           *)
Select ==
  /\ phase = "propose" /\ todo = {} /\ job = "assess"
  /\ IF proposals = <<>>
     THEN phase' = "done" /\ UNCHANGED <<job, index, selected>>
     ELSE /\ selected' = <<Head(proposals)>>
          /\ job' = "suggest"
          /\ StartIndex(scope)
  /\ UNCHANGED <<disk, requests, todo, proposals, editing, reporting, origin, calm, moved>>

StartEdit(operations) ==
  /\ ops' = operations
  /\ job' = "edit"
  /\ StartIndex(SelectorScope)
  /\ calm' = calm \cup {"index"}

(* ... and the one with the same number is applied; a bot applies them all.*)
Pick ==
  /\ phase = "propose" /\ todo = {} /\ job = "suggest"
  /\ IF proposals = <<>>
     THEN /\ phase' = IF client = "cycle" THEN "refused" ELSE "done"
          /\ UNCHANGED <<job, index, ops, calm>>
     ELSE StartEdit(IF client = "cycle" THEN <<Head(proposals)>> ELSE proposals)
  /\ UNCHANGED <<disk, requests, suggesting, staged, found, applied, reporting, origin, moved>>

(* As if the first match would do.                                         *)
MatchAny ==
  /\ phase = "index" /\ unread = {} /\ job \in {"read", "edit"}
  /\ found' = FilterSymbols(Symbols(indexed), Current.target)
  /\ phase' = IF found' = {} THEN "refused"
              ELSE IF job = "read" THEN "fetch"
              ELSE IF Current.hash # <<>> THEN "check"
              ELSE IF Current.source = <<>> THEN "expand" ELSE "splice"
  /\ UNCHANGED <<disk, requests, job, index, suggesting, staged, ops, applied, reporting,
                 origin, calm, moved>>

(* The one symbol a read or an operation is about.                         *)
Match ==
  /\ phase = "index" /\ unread = {} /\ job \in {"read", "edit"}
  /\ LET matches == FilterSymbols(Symbols(indexed), Current.target) IN
     IF \E s \in matches : matches = {s}
     THEN /\ found' = matches
          /\ phase' = IF job = "read" THEN "fetch"
                      ELSE IF Current.hash # <<>> THEN "check"
                      ELSE IF Current.source = <<>> THEN "expand" ELSE "splice"
     ELSE phase' = "refused" /\ UNCHANGED found
  /\ UNCHANGED <<disk, requests, job, index, suggesting, staged, ops, applied, reporting,
                 origin, calm, moved>>

(* readSymbol reads the file again; the reader passes the hash on, or not. *)
Fetch ==
  /\ phase = "fetch"
  /\ LET t == View[Found.file] IN
     IF OutOfRange(t, Found)
     THEN phase' = "refused" /\ UNCHANGED <<job, index, ops, calm>>
     ELSE \E hash \in {<<>>, Cut(t, Found)} : StartEdit(<<[Current EXCEPT !.hash = hash]>>)
  /\ UNCHANGED <<disk, requests, suggesting, staged, found, applied, reporting, origin, moved>>

CheckAgainst(t) ==
  /\ phase = "check"
  /\ IF OutOfRange(t, Found) \/ Cut(t, Found) # Current.hash
     THEN phase' = "refused" /\ UNCHANGED calm
     ELSE /\ phase' = IF Current.source = <<>> THEN "expand" ELSE "splice"
          /\ calm' = calm \cup {"check"}
  /\ UNCHANGED <<disk, requests, job, index, suggesting, editing, reporting, origin, moved>>

(* As if the text that was indexed were hashed.                            *)
CheckIndexed == CheckAgainst(indexed[Found.file])

(* checkExpectedHash reads the file once more.                             *)
CheckExpectedHash == CheckAgainst(View[Found.file])

(* compileDeleteSymbol reads it once more, to widen the range to whole     *)
(* lines. It looks at the byte before the range: there may be none by now. *)
Expand ==
  /\ phase = "expand"
  /\ phase' = IF Found.from - 1 > Len(View[Found.file]) THEN "crashed" ELSE "splice"
  /\ UNCHANGED <<disk, requests, job, index, suggesting, editing, reporting,
                 origin, calm, moved>>

(* applyFileEdits reads it, cuts and formats.                              *)
ApplyFileEdit ==
  /\ phase = "splice"
  /\ LET f == Found.file
         t == View[f]
         next == Splice(t, Found, Current.source)
     IN  IF OutOfRange(t, Found) \/ ~Parses(next)
         THEN phase' = "refused" /\ UNCHANGED <<index, editing, calm>>
         ELSE /\ staged' = [staged EXCEPT ![f] = next]
              /\ applied' = Append(applied, [op |-> Current, cut |-> Cut(t, Found), file |-> f])
              /\ ops' = Tail(ops)
              /\ IF ops' = <<>>
                 THEN /\ phase' = IF client = "cycle" THEN "validate" ELSE "done"
                      /\ calm' = (calm \ {"index", "check"}) \cup {"splice"}
                      /\ UNCHANGED <<index, found>>
                 ELSE /\ StartIndex(SelectorScope)
                      /\ found' = {}
                      /\ calm' = (calm \ {"check"}) \cup {"index", "splice"}
  /\ UNCHANGED <<disk, requests, job, suggesting, reporting, origin, moved>>

(* cycle validates its change set ...                                      *)
Validate ==
  /\ phase = "validate"
  /\ passed' = Resolved(View, Validated)
  /\ phase' = "diff"
  /\ UNCHANGED <<disk, requests, job, index, suggesting, editing, diff, origin, calm, moved>>

(* ... and compares it with the file as it is by now. Nothing is committed.*)
Diff ==
  /\ phase = "diff"
  /\ LET f == applied[1].file IN diff' = <<[before |-> disk[f], after |-> staged[f]]>>
  /\ phase' = "done"
  /\ UNCHANGED <<disk, requests, job, index, suggesting, editing, passed, origin, calm, moved>>

(* Another program writes a file.                                          *)
Edit(f) ==
  /\ moved < MaxChanges /\ phase \notin {"done", "refused", "crashed"}
  /\ \E t \in Changed[f] \ {disk[f]} : disk' = [disk EXCEPT ![f] = t]
  /\ moved' = moved + 1
  /\ calm' = {}
  /\ UNCHANGED <<requests, job, phase, index, suggesting, editing, reporting, origin>>

Next ==
  \/ IndexFile \/ FindUnused \/ Propose \/ Select \/ Pick
  \/ Match \/ Fetch \/ CheckExpectedHash \/ Expand \/ ApplyFileEdit
  \/ Validate \/ Diff
  \/ \E f \in File : Edit(f)

Spec == Init /\ [][Next]_vars

-----------------------------------------------------------------------------
Texts == Seq(Line) \cup {NoText}

(* Every variable holds a value of its kind; an operation has found at most*)
(* one symbol, and finds one before it reads, checks or cuts.              *)
TypeOK ==
  /\ disk \in [File -> Seq(Line)] /\ origin \in [File -> Seq(Line)]
  /\ staged \in [File -> Texts] /\ indexed \in [File -> Texts]
  /\ client \in {"cycle", "bot", "reader"}
  /\ scope \in [tests : BOOLEAN, generated : BOOLEAN]
  /\ job \in {"assess", "suggest", "read", "edit"}
  /\ phase \in {"index", "propose", "fetch", "check", "expand", "splice", "validate",
                "diff", "done", "refused", "crashed"}
  /\ unread \subseteq File /\ todo \subseteq Symbol /\ found \subseteq Symbol
  /\ proposals \in Seq(Op) /\ selected \in Seq(Op) /\ ops \in Seq(Op)
  /\ Len(selected) <= 1 /\ Len(diff) <= 1
  /\ \A s, t \in found : s = t
  /\ phase \in {"fetch", "check", "expand", "splice"} => found # {} /\ ops # <<>>
  /\ passed \in BOOLEAN
  /\ calm \subseteq {"begin", "index", "check", "splice"}
  /\ moved \in 0..MaxChanges

WholeDeclaration(lines, name) ==
  \E d \in {lines[i].decl : i \in 1..Len(lines)} : lines = Lines(d) /\ name \in d.names

(* What is cut is what the client has seen, hash or fragment, however often*)
(* the files changed since, unless one changes between the check of the    *)
(* hash and the cut. And if none changes during the operation itself, a    *)
(* whole declaration of the name in question is cut, even when the client's*)
(* hash is of a torn read (editor.go:617, edits.go:391).                   *)
HashGuards ==
  [][\A k \in 1..Len(applied') :
       (applied' # applied /\ k = Len(applied')) =>
         /\ "check" \in calm => applied'[k].cut = Current.hash
         /\ "index" \in calm => WholeDeclaration(applied'[k].cut, Current.target.name)]_vars

(* cycle reports one edit: the suggestion it shows as selected is the one  *)
(* it applies, although two engines count the suggestions, unless a file   *)
(* changes before the second has done so; and the diff is of that edit and *)
(* the verdict of its result, unless a file changes after it.              *)
CycleReportsOneEdit ==
  [][/\ (client = "cycle" /\ job' = "edit" /\ job # "edit" /\ "begin" \in calm) =>
           ops' = selected
     /\ (diff' # diff /\ "splice" \in calm) =>
           /\ LET old == diff'[1].before
                  cut == applied[1].cut
              IN  \E i \in 0..(Len(old) - Len(cut)) :
                    /\ SubSeq(old, i + 1, i + Len(cut)) = cut
                    /\ diff'[1].after =
                         SubSeq(old, 1, i) \o SubSeq(old, i + Len(cut) + 1, Len(old))
           /\ passed = Resolved(View, Validated)]_vars

-----------------------------------------------------------------------------
(* What suggestUnusedPrivate and DeleteSymbol do not see of a symbol.      *)
RefersTo(ws, n, how, f, i) == i \in Heads(ws[f]) /\ <<n, how>> \in ws[f][i].decl.refs

UsedOutOfScope(ws, n) ==
  \E f \in File \ InScope(scope), how \in How : \E i \in Heads(ws[f]) : RefersTo(ws, n, how, f, i)

SkippedUse(ws, n) == \E f \in File : \E i \in Heads(ws[f]) : RefersTo(ws, n, "skipped", f, i)

IsFunction(ws, n) ==
  \E f \in File : \E i \in Heads(ws[f]) : n \in ws[f][i].decl.names /\ ws[f][i].decl.kind = "func"

(* A call outside functions; one of a variable; a type's conversion.       *)
UnseenCall(ws, n) ==
  \E f \in File : \E i \in Heads(ws[f]) :
    /\ RefersTo(ws, n, "call", f, i)
    /\ ws[f][i].decl.kind # "func" \/ ~IsFunction(ws, n)

(* Its reads count for the field.                                          *)
FieldComesFirst(ws, n) ==
  \E s, t \in Symbols(ws) :
    /\ s.name = n /\ s.kind = "field" /\ s.file \in InScope(scope)
    /\ t.name = n /\ t.kind # "field" /\ Before(s, t)

SharesItsSpec(ws, n) ==
  \E f \in File : \E i \in Heads(ws[f]) :
    n \in ws[f][i].decl.names /\ ws[f][i].decl.names # {n}

GivesOthersTheirValue(ws, n) ==
  \E f \in File : \E i \in Heads(ws[f]) :
    /\ n \in ws[f][i].decl.names /\ ws[f][i].decl.kind \in {"iota", "const"}
    /\ i + ws[f][i].decl.size <= Len(ws[f])
    /\ ws[f][i + ws[f][i].decl.size].decl.kind = "const"

Unseen(ws, n) ==
  \/ UsedOutOfScope(ws, n) \/ SkippedUse(ws, n) \/ UnseenCall(ws, n) \/ FieldComesFirst(ws, n)
  \/ SharesItsSpec(ws, n) \/ GivesOthersTheirValue(ws, n)

(* The value of a constant: how many of its group come before it.          *)
ValueOf(t, i) ==
  Cardinality({j \in Heads(t) : /\ j < i
                                /\ \A k \in (j + 1)..i : t[k].decl.kind = "const"})

SameValues(old, new) ==
  \A f \in File : \A i \in Heads(new[f]), j \in Heads(old[f]) :
    (new[f][i].decl = old[f][j].decl /\ new[f][i].decl.kind \in {"iota", "const"}) =>
      ValueOf(new[f], i) = ValueOf(old[f], j)

(* Deleting what Suggest proposes as unused changes nothing else: code that*)
(* compiled still does and constants keep their values, as long as no file *)
(* changes and no deleted symbol is one of those the index does not see    *)
(* all of. (.agents/designs/language_agnostic_editor_design.md:673,        *)
(* "unused private symbol: suggest delete symbol", has no such conditions.)*)
DeletesAreHarmless ==
  ("begin" \in calm /\ client # "reader" /\ Resolved(origin, File)) =>
    \/ Resolved(View, File) /\ SameValues(origin, View)
    \/ \E k \in 1..Len(applied) : Unseen(origin, applied[k].op.target.name)

(* The same without conditions.                                            *)
UnusedIsUnused ==
  ("begin" \in calm /\ client # "reader") => Resolved(View, File) /\ SameValues(origin, View)
=============================================================================
