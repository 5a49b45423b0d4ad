---------------------------- MODULE GoValidation ----------------------------
(***************************************************************************)
(* Validate of the Go backend (internal/lang/goast/validate.go), called by *)
(* Editor.Validate or by ChangeSet.Validate: the files of the scope are    *)
(* listed and parsed, twice when generated files are outside the scope,    *)
(* and then type-checked, by the Go package loader when nothing is pending *)
(* in memory, else package by package in memory, by an importer that calls *)
(* the checker back, remembers what is checked and breaks import cycles.   *)
(* Meanwhile other programs write files and other callers commit changes.  *)
(*                                                                         *)
(* A text is what the checker can tell apart: whether it parses, whether   *)
(* it is generated, its package clause, its imports, the names it declares *)
(* and uses by a qualifier, and the other modules it relies on without one:*)
(* for a field or method of a type of theirs that a type of its package, or*)
(* of one it imports, embeds, for the methods that make such a type fit an *)
(* interface, for a name of a package imported into the file's scope.      *)
(* A package other than p_test is imported by its directory.               *)
(* External: the package loader and the lookup of installed packages.      *)
(***************************************************************************)
EXTENDS Naturals, Sequences, FiniteSets

CONSTANTS
  File,        \* file names, naturals in the order of the paths
  Dir,         \* directories, naturals in the order of the paths
  DirOf,       \* DirOf[f]: the directory of file f
  External,    \* import paths of other modules, naturals
  Name,        \* what packages declare
  NoText,      \* marks a file that a layer (disk, overlay) does not hold
  Start,       \* the disks a validation may find
  Pending,     \* the overlays of a change set: [File -> a text or NoText]
  Request,     \* validation kinds, IncludeGenerated, other modules installed
  Changed,     \* Changed[f]: the texts another program or a commit gives f
  MaxChanges,  \* bound: how often the texts change during all validations
  MaxRounds    \* bound: validations in a row

Package == {"p", "p_test"}
Unit == Dir \X Package
Path == Dir \cup External
Use == Path \X Name

Text == [ok : BOOLEAN, gen : BOOLEAN, pkg : Package, imports : SUBSET Path,
         blank : SUBSET Path, uses : SUBSET Use, decls : SUBSET Name,
         relies : SUBSET External]

Layer == [File -> Text \cup {NoText}]
Nowhere == [f \in File |-> NoText]

ASSUME FileAssumption == File \subseteq Nat /\ IsFiniteSet(File)
ASSUME DirAssumption == Dir \cup External \subseteq Nat /\ Dir \cap External = {}
ASSUME DirOfAssumption == DirOf \in [File -> Dir]
ASSUME LayerAssumption ==
  /\ NoText \notin Text
  /\ Start \subseteq Layer
  /\ Pending \subseteq Layer
  /\ Request \subseteq [kinds : SUBSET {"parse", "typecheck"}, generated : BOOLEAN,
                         installed : BOOLEAN]
  /\ Changed \in [File -> SUBSET Text]
ASSUME BoundAssumption == MaxChanges \in Nat /\ MaxRounds \in Nat

VARIABLES
  disk,       \* the files as the package loader sees them
  overlay,    \* texts committed to the Editor, over the disk
  pinned,     \* the overlay of the validated change set, over both
  kinds,      \* the validation kinds asked for
  generated,  \* Scope.IncludeGenerated
  installed,  \* whether the importer finds packages of other modules
  phase,      \* what Validate is doing
  pass,       \* 1: the files of the scope, 2: the generated files as well
  todo,       \* files (pass not over) still to look at
  chosen,     \* files the current pass has listed
  selected,   \* files of the scope: what a diagnostic may be about
  parsed,     \* the texts read by the current pass, files that parse
  broken,     \* files the current pass could not parse
  diags,      \* diagnostics so far: a file and what is wrong with it
  roots,      \* units the outer loop of typecheckDiagnostics has not reached
  checked,    \* units remembered as checked
  stack,      \* the calls of check that have not returned, innermost last
  moved,      \* history: changes of texts so far
  began,      \* history: moved when this validation began
  during,     \* history: the workspaces this validation could have read
  verdicts    \* history: diagnostics of validations since the last change

world == <<disk, overlay, pinned, kinds, generated, installed>>
reading == <<pass, todo, chosen, selected, parsed, broken>>
checking == <<roots, checked, stack>>
history == <<moved, began, during, verdicts>>
vars == <<world, phase, reading, diags, checking, history>>

-----------------------------------------------------------------------------
(* What a caller's snapshot reads: readFileWithOverlay.                    *)
View == [f \in File |->
           IF pinned[f] # NoText THEN pinned[f]
           ELSE IF overlay[f] # NoText THEN overlay[f] ELSE disk[f]]

(* As if WorkspaceRoot forgot the Editor's overlay, or the change set's.   *)
CommitsForgotten == pinned = Nowhere

PendingForgotten == overlay = Nowhere

(* WorkspaceRoot: the loader reads the disk, so it is asked only when the  *)
(* disk is all there is. (The command line's source always has a root.)    *)
NothingInMemory == pinned = Nowhere /\ overlay = Nowhere

Least(S) == CHOOSE n \in S : \A m \in S : n <= m

(***************************************************************************)
(* The units of the files that were parsed, and their declarations.        *)
(***************************************************************************)
Present(ws) == {f \in File : ws[f] # NoText}

UnitOf(ws, f) == <<DirOf[f], ws[f].pkg>>

Units(ws) == {UnitOf(ws, f) : f \in Present(ws)}

FilesOf(ws, u) == {f \in Present(ws) : UnitOf(ws, f) = u}

DeclsOf(ws, u) == UNION {ws[f].decls : f \in FilesOf(ws, u)}

(* The imports of a unit, in the order the checker meets them.             *)
ImportsOf(ws, u) ==
  {a \in File \X Path : a[1] \in FilesOf(ws, u) /\ a[2] \in ws[a[1]].imports}

Before(a, b) == a[1] < b[1] \/ (a[1] = b[1] /\ a[2] < b[2])

NextImport(S) == CHOOSE a \in S : \A b \in S \ {a} : Before(a, b)

(* Units are visited in the order of their names: dir, then dir#package.   *)
UnitBefore(u, v) ==
  u[1] < v[1] \/ (u[1] = v[1] /\ u[2] = "p" /\ v[2] = "p_test")

NextUnit(S) == CHOOSE u \in S : \A v \in S \ {u} : UnitBefore(u, v)

(* A qualifier, or a bare name: used from the package that declares it.    *)
Bare(ws, f, use) == use[1] = DirOf[f] /\ ws[f].pkg = "p"

Named(ws, f) == ws[f].imports \ ws[f].blank

Uses(ws, f, q) == \E n \in Name : <<q, n>> \in ws[f].uses

(* A file of f's package, or of a package f imports, has types of q.       *)
Supplies(ws, f, q) ==
  \E g \in Present(ws) :
    /\ q \in Named(ws, g)
    /\ UnitOf(ws, g) = UnitOf(ws, f) \/ (ws[g].pkg = "p" /\ DirOf[g] \in Named(ws, f))

-----------------------------------------------------------------------------
(***************************************************************************)
(* The reference: what the Go compiler objects to in a workspace.          *)
(***************************************************************************)
ImportsDir(ws) ==
  {r \in Dir \X Dir :
     \E f \in Present(ws) :
       DirOf[f] = r[1] /\ ws[f].ok /\ ws[f].pkg = "p" /\ r[2] \in ws[f].imports}

(* Import cycles: the smallest sets whose members all import a member.     *)
Circles(ws) ==
  LET R == ImportsDir(ws)
      Closed == {S \in (SUBSET Dir) \ {{}} : \A d \in S : \E e \in S : <<d, e>> \in R}
  IN  {S \in Closed : \A T \in Closed : T \subseteq S => T = S}

BadUse(ws, f, use) ==
  IF Bare(ws, f, use) THEN use[2] \notin DeclsOf(ws, UnitOf(ws, f))
  ELSE \/ use[1] \notin Named(ws, f)
       \/ use[1] \in Dir /\ use[2] \notin DeclsOf(ws, <<use[1], "p">>)

FileErrors(ws, f) ==
  IF ~ws[f].ok THEN {"parse"}
  ELSE {e \in {"import", "undefined", "unused"} :
          CASE e = "import"    -> \E q \in ws[f].imports \cap Dir : <<q, "p">> \notin Units(ws)
            [] e = "undefined" -> \/ \E use \in ws[f].uses : BadUse(ws, f, use)
                                  \/ \E q \in ws[f].relies : ~Supplies(ws, f, q)
            [] e = "unused"    -> \E q \in Named(ws, f) : ~Uses(ws, f, q)}

CycleErrors(ws) ==
  {d \in Present(ws) \X {"cycle"} :
     \E S \in Circles(ws) :
       DirOf[d[1]] \in S /\ ws[d[1]].ok /\ ws[d[1]].imports \cap S # {}}

Errors(ws) ==
  CycleErrors(ws) \cup UNION {{f} \X FileErrors(ws, f) : f \in Present(ws)}

Builds(ws) == Errors(ws) = {}

Cyclic(ws) == Circles(ws) # {}

(* A file imports a directory with external tests, which have its path too.*)
ImportsTested(ws) ==
  \E f \in Present(ws) : \E d \in ws[f].imports \cap Dir : <<d, "p_test">> \in Units(ws)

ImportsExternal(ws) == \E f \in Present(ws) : ws[f].imports \cap External # {}

(* A file relies on another module that the checker in memory knows by an  *)
(* empty package: it reports, and does not excuse, the fields and methods  *)
(* it misses, which the loader finds.                                      *)
ReliesOnAbsent(ws) ==
  ~installed /\ ~NothingInMemory /\ \E f \in Present(ws) : ws[f].relies # {}

(* A file was generated when its first lines were read, and did not parse  *)
(* when the rest was.                                                      *)
BrokenGenerated ==
  \E f \in File : \E ws, now \in during :
    ws[f] # NoText /\ ws[f].gen /\ now[f] # NoText /\ ~now[f].ok

-----------------------------------------------------------------------------
(* A call of check under way: its unit, the imports not yet resolved, the  *)
(* packages it was given, and those imports that gave an incomplete package*)
(* (the checker then ignores the import) or none at all.                   *)
Frame == [unit : Unit, todo : SUBSET (File \X Path),
          loaded : SUBSET (Path \X Unit),
          skipped : SUBSET (File \X Path), failed : SUBSET (File \X Path)]

Open(u) == [unit |-> u, todo |-> ImportsOf(parsed, u), loaded |-> {},
            skipped |-> {}, failed |-> {}]

Top == stack[Len(stack)]

OnStack == {stack[i].unit : i \in 1..Len(stack)}

(* Loaded packages are remembered for the whole unit, the others are asked *)
(* for again by the next file.                                             *)
Known(q) == \E v \in Unit : <<q, v>> \in Top.loaded

ImportPath(u) == u[1]

(* ignoredExternalTypeError: an undefined name is nobody's business when it*)
(* is the name of some external import, or when the file imports anything  *)
(* external and the name qualifies something in it, which a qualifier does.*)
Ignored(f, q) ==
  \/ \E g \in Present(parsed) : q \in parsed[g].imports \cap External
  \/ parsed[f].imports \cap External # {}

UndefinedUse(frame, f, use) ==
  IF Bare(parsed, f, use) THEN use[2] \notin DeclsOf(parsed, frame.unit)
  ELSE /\ ~Ignored(f, use[1])
       /\ \/ use[1] \notin Named(parsed, f)
          \/ <<f, use[1]>> \in frame.skipped
          \/ \E v \in Unit :
               <<use[1], v>> \in frame.loaded /\ use[2] \notin DeclsOf(parsed, v)

(* What f relies on of q, when q was found and its types are in sight. If  *)
(* not, "x.N undefined", "missing method N" or "undefined: N" is reported: *)
(* no message ignoredExternalTypeError knows.                              *)
Supplied(frame, f, q) ==
  installed /\ \E g \in Present(parsed) :
    /\ q \in Named(parsed, g)
    /\ \/ UnitOf(parsed, g) = frame.unit
       \/ \E p \in Named(parsed, f) : <<p, UnitOf(parsed, g)>> \in frame.loaded

UnusedImport(frame, f, q) ==
  /\ q \in Named(parsed, f) \ External
  /\ <<f, q>> \notin frame.skipped
  /\ ~Uses(parsed, f, q)

(* What cfg.Check reports of a unit, with its imports resolved as in frame.*)
UnitErrors(frame) ==
  {d \in FilesOf(parsed, frame.unit) \X {"import", "undefined", "unused"} :
     LET f == d[1]
     IN  CASE d[2] = "import"    -> \E q \in Path : <<f, q>> \in frame.failed
           [] d[2] = "undefined" ->
                \/ \E use \in parsed[f].uses : UndefinedUse(frame, f, use)
                \/ \E q \in parsed[f].relies : ~Supplied(frame, f, q)
           [] d[2] = "unused"    -> \E q \in Path : UnusedImport(frame, f, q)}

(* filterDiagnosticsByPaths, before a result is returned.                  *)
Selected(D) == {d \in D : d[1] \in selected}

-----------------------------------------------------------------------------
Init ==
  /\ disk \in Start
  /\ pinned \in {p \in Pending : \A f \in File : p[f] # NoText => disk[f] # NoText}
  /\ overlay = Nowhere
  /\ \E r \in Request :
       kinds = r.kinds /\ generated = r.generated /\ installed = r.installed
  /\ phase = "idle"
  /\ pass = 1 /\ todo = {} /\ chosen = {} /\ selected = {}
  /\ parsed = Nowhere /\ broken = {}
  /\ diags = {}
  /\ roots = {} /\ checked = {} /\ stack = <<>>
  /\ moved = 0 /\ began = 0 /\ during = {} /\ verdicts = <<>>

(* As if the importer and its memo outlived the call.                      *)
BeginRemembering ==
  /\ phase = "idle" \/ (phase = "done" /\ began = moved)
  /\ Len(verdicts) < MaxRounds
  /\ phase' = "list"
  /\ pass' = 1 /\ todo' = Present(View) /\ chosen' = {} /\ selected' = {}
  /\ parsed' = Nowhere /\ broken' = {}
  /\ diags' = {}
  /\ roots' = {} /\ stack' = <<>> /\ UNCHANGED checked
  /\ during' = {View} /\ began' = moved
  /\ UNCHANGED <<world, moved, verdicts>>

(* A call of Validate, with a new importer. (Bounds: MaxRounds validations,*)
(* the second only of a workspace that has not changed.)                   *)
Begin ==
  /\ phase = "idle" \/ (phase = "done" /\ began = moved)
  /\ Len(verdicts) < MaxRounds
  /\ phase' = "list"
  /\ pass' = 1 /\ todo' = Present(View) /\ chosen' = {} /\ selected' = {}
  /\ parsed' = Nowhere /\ broken' = {}
  /\ diags' = {}
  /\ roots' = {} /\ checked' = {} /\ stack' = <<>>
  /\ during' = {View} /\ began' = moved
  /\ UNCHANGED <<world, moved, verdicts>>

(* goFiles reads a file to see whether it is generated ...                 *)
List ==
  /\ phase = "list" /\ todo # {}
  /\ \E f \in todo :
     /\ f = Least(todo)
     /\ todo' = todo \ {f}
     /\ chosen' = IF View[f].gen /\ ~generated /\ pass = 1
                  THEN chosen ELSE chosen \cup {f}
  /\ UNCHANGED <<world, phase, pass, selected, parsed, broken, diags, checking, history>>

EndList ==
  /\ phase = "list" /\ todo = {}
  /\ phase' = "parse" /\ todo' = chosen
  /\ selected' = IF pass = 1 THEN chosen ELSE selected
  /\ UNCHANGED <<world, pass, chosen, parsed, broken, diags, checking, history>>

(* ... and parseValidationFiles reads it again.                            *)
Parse ==
  /\ phase = "parse" /\ todo # {}
  /\ \E f \in todo :
     /\ f = Least(todo)
     /\ todo' = todo \ {f}
     /\ IF View[f].ok
        THEN parsed' = [parsed EXCEPT ![f] = View[f]] /\ UNCHANGED broken
        ELSE broken' = broken \cup {f} /\ UNCHANGED parsed
  /\ UNCHANGED <<world, phase, pass, chosen, selected, diags, checking, history>>

ParseDiags == {<<f, "parse">> : f \in broken}

(* As if the second pass could ask for another.                            *)
EndAnyParse ==
  /\ phase = "parse" /\ todo = {}
  /\ diags' = IF pass = 1 /\ "parse" \in kinds THEN ParseDiags ELSE diags
  /\ IF "typecheck" \in kinds /\ ~generated
     THEN /\ phase' = "list" /\ pass' = pass + 1 /\ todo' = Present(View)
          /\ chosen' = {} /\ parsed' = Nowhere /\ broken' = {}
     ELSE /\ phase' = IF "typecheck" \in kinds THEN "choose" ELSE "end"
          /\ UNCHANGED <<pass, todo, chosen, parsed, broken>>
  /\ UNCHANGED <<world, selected, checking, history>>

(* The second pass has the generated files, for the type check only.       *)
EndParse ==
  /\ phase = "parse" /\ todo = {}
  /\ diags' = IF pass = 1 /\ "parse" \in kinds THEN ParseDiags ELSE diags
  /\ IF pass = 1 /\ "typecheck" \in kinds /\ ~generated
     THEN /\ phase' = "list" /\ pass' = 2 /\ todo' = Present(View)
          /\ chosen' = {} /\ parsed' = Nowhere /\ broken' = {}
     ELSE /\ phase' = IF "typecheck" \in kinds THEN "choose" ELSE "end"
          /\ UNCHANGED <<pass, todo, chosen, parsed, broken>>
  /\ UNCHANGED <<world, selected, checking, history>>

(* The choice of the type checker, after everything has been read. A file  *)
(* that does not parse is reported instead of any type error.              *)
Choose ==
  /\ phase = "choose"
  /\ IF NothingInMemory
     THEN phase' = "load" /\ UNCHANGED <<diags, roots>>
     ELSE IF broken # {}
     THEN phase' = "end" /\ diags' = diags \cup Selected(ParseDiags) /\ UNCHANGED roots
     ELSE phase' = "check" /\ roots' = Units(parsed) /\ UNCHANGED diags
  /\ UNCHANGED <<world, reading, checked, stack, history>>

(* packages.Load on the disk, with whatever is wrong there; of a cycle it  *)
(* may name any member. What the compiler rejects comes without a position,*)
(* and is then kept whatever the scope.                                    *)
Kept(D) == {d \in D : d[1] \in selected \/ d[2] \in {"undefined", "unused"}}

Load ==
  /\ phase = "load"
  /\ LET circle == CycleErrors(disk)
         other == Errors(disk) \ circle
     IN  \E C \in SUBSET circle :
           /\ C = {} => circle = {} \/ other # {}
           /\ diags' = diags \cup Kept(other \cup C)
  /\ phase' = "end"
  /\ UNCHANGED <<world, reading, checking, history>>

-----------------------------------------------------------------------------
(* The outer loop of typecheckDiagnostics.                                 *)
CheckNext ==
  /\ phase = "check" /\ stack = <<>> /\ roots # {}
  /\ \E u \in roots :
     /\ u = NextUnit(roots)
     /\ roots' = roots \ {u}
     /\ stack' = IF u \in checked THEN <<>> ELSE <<Open(u)>>
  /\ UNCHANGED <<world, phase, reading, diags, checked, history>>

Resolve(frame) == stack' = [stack EXCEPT ![Len(stack)] = frame]

(* A unit that answers an import of the innermost unit: any with that path,*)
(* for importer.packages is a Go map.                                      *)
Answers(u, q) == u \in Units(parsed) /\ ImportPath(u) = q

ImportAgain(a) ==
  /\ Known(a[2])
  /\ Resolve([Top EXCEPT !.todo = @ \ {a}])

ImportChecked(a, u) ==
  /\ ~Known(a[2]) /\ u \in checked
  /\ Resolve([Top EXCEPT !.todo = @ \ {a}, !.loaded = @ \cup {<<a[2], u>>}])

(* A unit that is being checked: an empty package breaks the cycle.        *)
ImportOpen(a, u) ==
  /\ ~Known(a[2]) /\ u \notin checked /\ u \in OnStack
  /\ Resolve([Top EXCEPT !.todo = @ \ {a}, !.skipped = @ \cup {a}])

(* As if the units under check were not marked.                            *)
ImportUnmarked(a, u) ==
  /\ ~Known(a[2]) /\ u \notin checked
  /\ stack' = Append(stack, Open(u))

(* A unit not seen yet: check calls itself.                                *)
ImportNew(a, u) ==
  /\ ~Known(a[2]) /\ u \notin checked \cup OnStack
  /\ stack' = Append(stack, Open(u))

(* No unit has the path: the standard importer finds a package of another  *)
(* module or gives an error, which is excused for paths with a dot.        *)
ImportOutside(a) ==
  /\ ~Known(a[2]) /\ \A u \in Units(parsed) : ~Answers(u, a[2])
  /\ Resolve([Top EXCEPT !.todo = @ \ {a},
                !.skipped = IF a[2] \in External /\ ~installed THEN @ \cup {a} ELSE @,
                !.failed = IF a[2] \notin External THEN @ \cup {a} ELSE @])

Import ==
  /\ phase = "check" /\ stack # <<>> /\ Top.todo # {}
  /\ \E a \in Top.todo :
     /\ a = NextImport(Top.todo)
     /\ \/ ImportAgain(a)
        \/ ImportOutside(a)
        \/ \E u \in Units(parsed) :
             /\ Answers(u, a[2])
             /\ ImportChecked(a, u) \/ ImportOpen(a, u) \/ ImportNew(a, u)
  /\ UNCHANGED <<world, phase, reading, diags, roots, checked, history>>

(* check returns: the unit is remembered and its importer gets the package.*)
CheckDone ==
  /\ phase = "check" /\ stack # <<>> /\ Top.todo = {}
  /\ diags' = diags \cup Selected(UnitErrors(Top))
  /\ checked' = checked \cup {Top.unit}
  /\ LET rest == SubSeq(stack, 1, Len(stack) - 1)
         caller == stack[Len(stack) - 1]
     IN  \/ Len(stack) = 1 /\ stack' = <<>>
         \/ /\ Len(stack) > 1
            /\ \E a \in caller.todo :
                 /\ a = NextImport(caller.todo)
                 /\ stack' = [rest EXCEPT ![Len(stack) - 1] =
                               [caller EXCEPT !.todo = @ \ {a},
                                              !.loaded = @ \cup {<<a[2], Top.unit>>}]]
  /\ UNCHANGED <<world, phase, reading, roots, history>>

EndCheck ==
  /\ phase = "check" /\ stack = <<>> /\ roots = {}
  /\ phase' = "end"
  /\ UNCHANGED <<world, reading, diags, checking, history>>

(* The result: it has passed when there are no diagnostics.                *)
Finish ==
  /\ phase = "end"
  /\ phase' = "done"
  /\ verdicts' = IF began = moved THEN Append(verdicts, diags) ELSE verdicts
  /\ UNCHANGED <<world, reading, diags, checking, moved, began, during>>

-----------------------------------------------------------------------------
(* The texts change before or in the course of the first validation, not   *)
(* between two (bounds).                                                   *)
Change ==
  /\ moved < MaxChanges /\ verdicts = <<>>
  /\ moved' = moved + 1
  /\ UNCHANGED <<verdicts, pinned, kinds, generated, installed, phase, reading, diags,
                 checking, began>>

(* Another program rewrites a file.                                        *)
Edit(f) ==
  /\ Change
  /\ disk[f] # NoText
  /\ \E t \in Changed[f] \ {disk[f]} : disk' = [disk EXCEPT ![f] = t]
  /\ UNCHANGED overlay
  /\ during' = during \cup {View'}

(* Another change set of the same Editor is committed.                     *)
Commit(f) ==
  /\ Change
  /\ disk[f] # NoText
  /\ \E t \in Changed[f] : overlay' = [overlay EXCEPT ![f] = t]
  /\ UNCHANGED disk
  /\ during' = during \cup {View'}

Read == List \/ EndList \/ Parse \/ EndParse \/ Choose \/ Load

Next ==
  \/ Begin \/ Read \/ Finish
  \/ CheckNext \/ Import \/ CheckDone \/ EndCheck
  \/ \E f \in File : Edit(f) \/ Commit(f)

Spec == Init /\ [][Next]_vars

-----------------------------------------------------------------------------
Diagnostic == File \X {"parse", "import", "undefined", "unused", "cycle"}

(* Every variable holds a value of its kind; a validation reads and reports*)
(* only about files that exist.                                            *)
TypeOK ==
  /\ disk \in Layer /\ overlay \in Layer /\ pinned \in Layer
  /\ kinds \subseteq {"parse", "typecheck"} /\ generated \in BOOLEAN
  /\ installed \in BOOLEAN
  /\ phase \in {"idle", "list", "parse", "choose", "load", "check", "end", "done"}
  /\ pass \in 1..2
  /\ todo \subseteq File /\ chosen \subseteq File /\ selected \subseteq File
  /\ parsed \in Layer /\ broken \subseteq File
  /\ diags \subseteq Diagnostic
  /\ roots \subseteq Unit /\ checked \subseteq Unit
  /\ stack \in Seq(Frame)
  /\ moved \in Nat /\ began \in Nat /\ during \subseteq Layer /\ verdicts \in Seq(SUBSET Diagnostic)

(* The checker, calling the importer that calls the checker, never enters a*)
(* unit it has not left and never one it has finished: import cycles end   *)
(* the recursion (validate.go 422-430), and each unit is reported once.    *)
StackIsSimple ==
  /\ \A i, j \in 1..Len(stack) : stack[i].unit = stack[j].unit => i = j
  /\ OnStack \cap checked = {}

(* A validation that fails has found something: of the workspaces it could *)
(* have read, one does not build. With one change of one file at the time, *)
(* whatever was read at which moment, and whether the loader or the memory *)
(* was asked. Not promised when a file imports a package with external     *)
(* tests, which may be taken for the package, nor, in memory, when a file  *)
(* relies on another module that is not found (CHANGELOG.md:143 admits     *)
(* "false typecheck diagnostics from unresolved external dependency        *)
(* aliases"); files that only name such a module are not failed for it.    *)
FailuresAreReal ==
  (phase = "done" /\ diags # {} /\ moved <= 1) =>
    \E ws \in during : ImportsTested(ws) \/ ReliesOnAbsent(ws) \/ ~Builds(ws)

(* A type check that passes has overlooked nothing in the files of the     *)
(* scope, unless a file imports another module or a package with external  *)
(* tests, packages import each other in a circle or a generated file does  *)
(* not parse: the conditions under which Validate is silent.               *)
PassesAreReal ==
  (phase = "done" /\ "typecheck" \in kinds /\ diags = {} /\ moved <= 1) =>
    \/ BrokenGenerated /\ ~generated
    \/ \E ws \in during :
         \/ ImportsExternal(ws) \/ ImportsTested(ws) \/ Cyclic(ws)
         \/ Selected(Errors(ws)) = {}

(* Two validations of an unchanged workspace say the same (README.md:18,   *)
(* repeatable reports), unless a package with external tests is imported.  *)
(* (The loader may describe a cycle in several ways.)                      *)
SameVerdictAgain ==
  \A i, j \in 1..Len(verdicts) :
    \/ verdicts[i] = verdicts[j]
    \/ \E ws \in during : ImportsTested(ws) \/ Cyclic(ws)

(* .agents/designs/go_refactor_tooling_design.md:553: "Validator proves the*)
(* result still builds."                                                   *)
PassedMeansItBuilds ==
  (phase = "done" /\ "typecheck" \in kinds /\ diags = {} /\ moved = 0) => Builds(View)
=============================================================================
