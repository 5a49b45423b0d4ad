# A verification project for codegate

TLA+ models of codegate (`github.com/fluxplane/codegate`), TLC runs that check
them on small instances, and TLAPS proofs of what matters most. Every
definition is translated from the Go source; paths below are relative to the
repository, and `PROJECT.json` maps every definition to its lines.

## 1. The system

codegate lets programs look at a code base, assess it, get suggestions, edit it
in memory, validate the edit, and publish it. The README's loop is
`lookup -> assess -> suggest -> apply -> validate -> reassess`.

```
 cmd/codegate  --->  Engine (engine.go)  --->  Editor (editor.go) ---> Source / fs.FS
  lookup, assess,     assess, suggest,          overlay, RWMutex        (files on disk)
  suggest, validate,  lookup, aggregate              |
  cycle, op run                                 ChangeSet (changeset.go)
      |                                         overlay, changed, closed
      v                                              |
  temporary files, renames                      Backend: Go (internal/lang/goast),
                                                         Markdown (internal/lang/markdown)
```

### Components, their state and operations

| Component | State | Operations | What makes it correct | Status |
|---|---|---|---|---|
| Editor and change sets (`editor.go`, `changeset.go`) | the Editor's committed overlay under an `RWMutex`; per change set a pending overlay, the set of changed paths, a closed flag | `NewChangeSet`, `Apply`, `Validate`, `Files`, `Diff`, `Commit`, `Discard` | nobody sees uncommitted edits of others; a commit is one step; committed work is not lost, edits hit the text they were computed from | modelled, proved |
| `op run` (`cmd/codegate/operation.go`) | the process's position, the change set's texts, a temporary file | read, apply, validate, gate, write the files one by one | only validated text reaches the disk, never half a text, the report is exact | modelled, proved |
| Markdown backend (`internal/lang/markdown`) | none; the document, and proposals held by the client | parse, suggest, compile four operations | a fix mends its heading and harms no other; links keep working; the loop ends | modelled in its structure and executable fixes, proved |
| Architecture rules (`goast/architecture.go`, `goast/assess.go`) | none; rules and imports | import rules, layers, dependencies, effects, unknown packages, coupling, exceptions | the most specific rule decides; exceptions only excuse | modelled and proved, details left out below |
| Assessment (`goast/assess.go`, `markdown/assess.go`, `engine.go`, `main.go`) | none; findings, violations, scores | scores per backend, aggregate, `--fail-on` | scores are bounded and monotone; the two views of a violation agree | modelled, proved |
| Go symbol edits (`goast/edits.go`) | none | some thirty compile functions, hash check, generated-file check | right declaration, right bytes, all uses; names keep their meaning | modelled; hashes and cuts proved |
| Go validation (`goast/validate.go`) | a memo and an in-progress set per validation | loader or in-memory type check | a pass and a failure mean what they say; repeatable | modelled, proved, `go/packages` and `go/types` external |
| Engine and Editor wiring (`engine.go`, `editor.go`) | the options | build, several backends and external adapters in one validation | one failing part fails the whole | the choice of the checker; merging of results is left out |
| `cycle` (`cmd/codegate/main.go`) | the suggestion selected | assess, select, suggest again, apply, validate, diff | applies what it has shown, reports one edit | modelled, proved |
| Go index and lookup (`goast/index.go`, `goast/files.go`, `navigation.go`) | none | symbols, occurrences, selection; navigation | uses are found | modelled where edits and suggestions rest on it |
| Go suggestions (`goast/suggest.go`) | none | deletions of unused private symbols; advice | what is called unused is | the executable ones |
| Go quality metrics (`goast/quality.go`, `metrics.go`) | none | counts over `go/ast` | - | inputs of `Assessment` |
| Rendering, adapters, wrappers, `gocheck` | none | printing, cleaning paths | - | not modelled |

### How they interact, and what is hard about it

* Editor and change sets share the committed overlay. The Editor is safe for
  concurrent use, a change set belongs to one goroutine; **one lookup in the
  overlay** or **one whole commit** is atomic. The read of a file is not: when the
  lookup misses, the lock is released and the disk is read afterwards; still less
  a whole `Apply`. A change set copies the overlay when it is opened, and follows
  the Editor and the disk for every file it has no copy of.
* `CompileEdit` reads files and returns byte offsets; `applyFileEdits` reads the
  files again and splices. Everything in between can change a file; and a move
  that reconciles imports edits each of its two files twice, so that the second
  edit meets a text the first one has changed and formatted.
* `op run` processes know nothing of each other. They share the disk with each
  other and with every other program, and can be killed anywhere.
* Clients hold proposals, symbol IDs and hashes that name places by byte offset
  and apply them later.
* The Go edits find uses by the text of names, in an index that leaves out tests,
  generated files and everything the parser does not see in a function body.
* The type checker calls an importer that calls the type checker, over files that
  were read one by one; the package loader reads the disk again by itself.
* The assessment and the command line sort the same violations into categories
  in two copies of the code; the engine merges the reports of several backends.

`PROJECT.json` lists the hazards at their lines, with the properties that cover
them; a hazard without a property says why.

## 2. The modules

| Module | Models | Checked by |
|---|---|---|
| `TransactionStore` | abstract: a store changed atomically by transactions, each closing once | as `ImplementsStore` |
| `ChangeSets` | Editor overlay and change sets, with other programs on the disk | `change_sets`, `commit_chain` |
| `ChangeSetsProofs` | the theorems about `ChangeSets` | TLAPS |
| `OpRun` | concurrent `op run` processes, failures, kills | `op_run` |
| `OpRunProofs` | the theorems about `OpRun` | TLAPS |
| `MarkdownFixes` | headings, sections, proposals and operations; the fix loop | `markdown_fix` |
| `MarkdownFixesProofs` | the theorems about `MarkdownFixes` | TLAPS |
| `ArchitectureRules` | violations of a rules file by imports and calls | `architecture` |
| `ArchitectureRulesProofs` | the theorems about `ArchitectureRules` | TLAPS |
| `Assessment` (extends `ArchitectureRules`) | Go and Markdown scores, aggregate, `--fail-on` | `assessment`, `aggregate_zero` |
| `AssessmentProofs` | the theorems about `Assessment` | TLAPS |
| `GoSource` | Go scoping (external), and the index of names that the backend builds | by `GoEdits` |
| `GoEdits` (extends `GoSource`) | every Go operation, as a step from one workspace to another | `go_edits`, `go_edits_build` |
| `GoValidation` | one validation: reads, both parses, loader or in-memory importer, with changes at any time | `validation`, `validation_builds` |
| `GoValidationProofs` | the theorems about `GoValidation` | TLAPS |
| `SymbolEdits` | the reads behind one symbol edit: `ReadSymbol`, suggestions, hashes, `DeleteSymbol`, `ReplaceSymbol`, `cycle` | `symbol_edits` |
| `SymbolEditsProofs` | the theorems about `SymbolEdits` | TLAPS |
| `Minima` | least elements of sets of naturals and of values: the proofs' substitute for induction | TLAPS |
| `MC...` | the small instances | |

Definitions named `...AsBefore`, `...Everything`, `...Leaky` and so on, under a
comment that begins with "Fault:" or "As if", are not part of any specification: each is
the code with a plausible bug, and shows that a property notices it.

### ChangeSets

| Model | Code |
|---|---|
| `source[p]` | the file behind `Source` or `fs.FS`; any program may save or remove it at any time |
| `overlay[p]` | `Editor.overlay` |
| `staged[c]`, `changed[c]`, `status[c]` | `ChangeSet.overlay`, `.changed`, `.closed` |
| `phase[c]`, `compiled[c]` | where `Apply` is, and the texts its pending `FileEdit`s were computed from |
| `imports[c]` | the second `FileEdit` that `moveImportEdits` makes of a file, and whether it was computed from the same text as the first |
| `seeking[x]` | the file whose lookup in the overlays missed, between the lock's release and the read of the disk |
| `EditorView`, `View` | what overlay and disk hold of a file, in the order `readFileWithOverlay` asks them, with a nil overlay and with the change set's |
| `NewChangeSet`, `Commit`, `Discard` | the functions of these names, each one step: they hold the lock, or touch only the change set |
| `ApplyOperation`, `LookupMisses`, `CompileEdit`, `CompileImports`, `CompileReturns`, `ApplyFileEdit`, `ApplyImportEdit`, `ApplyReturns`, `ApplyFails` | the steps of `Apply`: take an operation, read each file (in one step, or in two when the lookup misses), compute a move's edits of imports, return the edits, splice and format each file, then once more with its imports, finish, or stop with an error at any point |
| `EditorLookup`, `EditorReadSource` | the two steps of a read by a caller without a change set (`Reader`) |

A text is who has edited it, and whether an edit was spliced into another text
than the one it was computed from (`torn`). The second edit of a file meets a text
that `Format` has been over: it fits or it does not, as the file was formatted
before or not, which is left open. `missed` and `wrote` are history, and so is
`since` with the texts a reader `got`; no guard of the code reads them (a reader of
the model reads each file once).

What is checked: no dirty reads, by readers in two steps either (`NoDirtyRead`); a
reader misses no commit but those that fall into its gap (`ReadsMissOnlyTheGap`); a
changed path always has a text of the change set's own (`ChangedIsStaged`); an
open change set's view of a file changes for three reasons only
(`ViewChangesExplained`); an edit lands in the wrong text only in a file the change
set had no copy of, or as the second edit a move makes of one file
(`TornOnlyUnpinned`); a committed edit is lost only to a change set that was
already open at its commit (`LostOnlyToOverlap`); and all of it implements
`TransactionStore` (`ImplementsStore`): readers outside see whole commits, at
most one per change set, whatever `Discard` and failing `Apply`s do, and the
disk never shows through a published file.

### OpRun

`pc[r]` follows `operationRunCommand`: `apply` (each file read and edited),
`gate` (validated, files and diff computed; the patch file is written whether
or not validation passed), `write` (with `--write` after a passed validation:
`CreateTemp`, `FillTemp`, `Rename` per file, in the order `Files` sorts them),
and an end: `done`, `failed` or `killed`. Every step can fail (`FailEarly`,
`WriteFails`), and a kill runs no deferred call. A text is the set of its
editors, so a text carries along the edits of the runs it was computed from:
`WritesAreValidated` covers text that one run read from another. `raced` is
history: paths somebody else changed since the run read them. A run of `Mute`
cannot print: `--format` is only looked at when the result is printed, and output
may be closed. Then a run that has replaced everything returns an error without a
report, and one that failed half way drops the error of printing;
`ReportIsExact` says that no other run is silent about what it has replaced.
`CHECK_DEADLOCK FALSE`: the system stops when all runs have ended.

### MarkdownFixes

A document is a sequence of lines: ATX headings, setext headings, headings
without text, paragraphs, blank lines. Sizes are bytes, because operations find
their heading by the byte offset of its line and the model computes those
offsets as the code does, with the parser's positions: a setext heading's lines
leave out the underline, a heading without text has no lines and is located at
offset 0. Anchors are heading texts, numbered when they repeat. `Suggest` is the
executable part of `markdownFileSuggestions`; `Compiled` the four compile
functions and the splice; `Apply` takes any of the remaining proposals, up to
`MaxBatch` per change set; `Publish` commits. Heading ids exist only in the
model, to tell headings apart across edits. A paragraph directly above a setext
heading would be part of that heading; such documents are left out
(`Parses`). Duplicate setext headings get executable proposals that never
compile; `LoopComesToRest` counts a loop as resting when no proposal compiles.

Anchors are counted from the top of the document, so a fix moves links between
headings it does not touch. `LinksMoveOnlyBelowTheirLike` says which: links to the
added title, and links to headings *below* the renamed one that have its old text or
its new one. It looks at the document before and after, whatever the guard of
the proposal was.

### ArchitectureRules and Assessment

The workspace gains and loses imports and calls, the rules gain exceptions; in
every state the operators of `ArchitectureRules` say what the assessment would
report, with the code's matching of paths, first-match and most-specific-match
selection, severities and demotion. `Policy` is what a rules file may hold, its
length and patterns unbounded; the running best of `selectedArchitectureRule` is
the recursive function `Best`. `Assessment` adds gates, languages, sizes
and counters of the findings that the syntax tree analysis yields, and computes
all scores with the code's integer arithmetic.

`NothingBadHelps` compares two assessments of workspaces of one size: no issue,
import or call may raise any score, however minima, sums, caps and gates
interact. `FailOnAgreesWithScores` relates the exit code of `--fail-on` to the
scores, that is, `cmd/codegate/main.go`'s categories to those of
`goast/assess.go`. `ViolationsAlwaysShow` says that rounding never makes a
violation free, also in a large workspace.

### GoSource and GoEdits

A workspace is a sequence of files, each with its unit (its directory), the name in
its package clause, imports and declarations; a declaration has parameters, members
and a body of nodes in which names are written. `GoSource` has two readings of it. `Bound` and
`Meaning` are Go's: which declaration each written name refers to, by scopes.
`Symbols` and `Indexed` are codegate's: `index.go` takes a name for the first
symbol of that name in the unit, in the package clause and the names of imports
too, skips keys of literals, finds calls in function bodies only, and does not see
files out of scope. So a rename of a symbol called like its package rewrites the
package clauses of the files in scope (`HeadRewritten`). Every operation of
`goast/edits.go` is an operator that yields the workspaces it may leave, none
when the code returns an error, with the checks the code makes and its way of
counting parameters, cutting imports and collecting uses; `Perform` is
`CompileEdit` with the splice and the formatting, as one step. A file is `loose` when
its layout is not gofmt's. `MoveSymbol` with reconciled imports edits both files a
second time, at places computed before the first edit was formatted: when
formatting has moved them (`Misplaced`), the import may come out as meant, the text
may go elsewhere (`torn`), or nothing may parse any more and the operation fails
(`MoveMayFail`). The properties compare the two readings before and after: a refactoring is right when what Go makes of the
program has not changed, and it is found with what codegate knows of it.

The conditions in the properties are where the code is known to fall short, each
of them needed: without it TLC finds a counterexample. `RefactoringKeepsTheBuild`
is the design's promise without conditions.

### GoValidation

`phase` follows `Validate`: `list` and `parse`, one file at a time and twice if
generated files are out of scope (`pass`), `choose` between loader and memory
(`NothingInMemory` is `WorkspaceRoot`), then `load`, or `check` with `stack`, the
calls of `check` under way, and `checked`, the memo. A unit is a directory and a
package; `Answers` is the loop over the map in `Import`, hence a choice when a
package and its external tests share a path. `Change` lets another program or a
commit of another change set come in anywhere. `Errors` is the reference: what
the Go compiler would object to. The importer in memory may find other modules or
not (`installed`). When it does not, `ignoredExternalTypeError` excuses two messages
only, about names undefined and imports unused; a text that `relies` on such a
module in another way (a field or method that an embedded type of it gives, a
method set, a dot import) is reported although it builds (`Supplied`, against the
reference `Supplies`). `during` is history: the workspaces that existed
while the validation ran.

`FailuresAreReal` and `PassesAreReal` say what a verdict is worth although the
files were read at different moments and by two different readers: it is true of
one of the workspaces that existed. They are promised with one change at a time:
with two, no workspace need have been as it was read. `StackIsSimple` is the
argument why the recursion ends, `SameVerdictAgain` that results repeat. Their
conditions name workspaces, not moments: `ImportsTested` (a file imports a package
with external tests), `ReliesOnAbsent` (in memory, a file relies on a module that is
not found), `ImportsExternal`, `Cyclic`, and `BrokenGenerated` (a generated file was
broken when it was read whole).

### SymbolEdits

Three clients: a reader (`ReadSymbol`, then `ReplaceSymbol` with the hash or
without), a bot (`Suggest`, then all its deletions in one change set), and
`cycle --apply-first`. A text is a sequence of lines, each a part of a
declaration, so that a range of one text can be applied to another and cut
across declarations; a hash is the lines themselves. Every read of the code is a
step: the index, file by file; `sourceHash`, symbol by symbol; the fragment; the
hash check; the widening of the range; the splice; the validation; the diff.
`calm` is history: the moments since which no file has changed, by which the
properties say what they promise.

A declaration has names, a kind and fields (of interfaces: methods), and refers to
names, each reference a read, a call or one the index skips (`How`). `UsedNames` is
the index's view: a read counts for the *first* symbol of its name in the unit,
fields included, a call for a function. `Unseen` names what the index does not see
all of, one reason per operator: uses out of scope, skipped uses, calls the index has
no function for or finds outside functions, reads that count for a field declared
before (`FieldComesFirst`), names that share a spec, constants that give others
their value. Without any one of them TLC finds a deletion that breaks the build or
changes a value.

## 3. The runs

| Run | Bounds | Result |
|---|---|---|
| `change_sets` | 2 change sets, 1 operation each, 2 files, 1 other program; symmetric in files and change sets | passes, 251,410 states |
| `commit_chain` | 3 change sets, 2 operations each, 1 file, 1 reader, 1 other program | passes, 2,134,296 states |
| `op_run` | 2 runs, one of which cannot print, 2 files, 1 other program with 2 changes | passes, 456,630 states |
| `markdown_fix` | every document of up to 3 lines of 5 kinds, growing to 16, with a link to the first or the third of its headings or none; batches of 2; one edit by another program | passes, 288,433 states |
| `architecture` | a file and a test file, 4 targets, some 40 rule sets, 3 exceptions | passes, 56,592 states |
| `assessment` | 6 setups of rules, gates, languages and size, at most 2 issues at a time | passes, 30,600 states |
| `aggregate_zero` | as `assessment` | violated, as documented |
| `go_edits` | 17 workspaces of one module with up to three files, each with another thing to trip over; some 70 requests, 2 in a row | passes, 41,536 states |
| `go_edits_build` | the same, 1 request | violated, as documented |
| `validation` | some 170 workspaces of 4 files in 3 directories, 3 pending overlays, 4 requests; 1 change, 2 validations in a row | passes, 2,337,140 states |
| `validation_builds` | the same, nothing changes | violated, as documented |
| `symbol_edits` | 4 files (two plain, a test, a generated one), up to 4 lines in the first; 2 writes by other programs | passes, 4,972,448 states |

Why the bounds are enough to be interesting: two change sets with one operation
over two files contain every pair of overlapping commits, every commit that
falls between a compile and a splice, a move that edits both files twice, and one
file failing after another has succeeded; two operations on one file contain a
second one over the first one's text. Three change sets are
the least that make a chain of overlaps, where the loss of an edit is two
commits away from the commit of it, and with a reader two commits fit between its
lookup and its read of the disk. Two runs of `op run` with two files contain
a run that reads what another has half written. Three lines are the least with
a jump below a parent after which another heading follows, and three equal
headings; the third's anchor is renumbered by a rename of the second.
`MCMarkdownMoves.cfg` is a larger instance of `LinksMoveOnlyBelowTheirLike`, with four
lines and every anchor they can have (399,882 states), where each part of its
condition is needed. Two issues are the least that show two penalties interacting. Two Go
operations in a row meet a workspace that the first one has left. Three
directories are the least with a cycle that is entered from outside and a
package imported along two ways. Two writes between the reads of one symbol edit
are the least after which a torn read meets a text that fits it again.
`CHECK_DEADLOCK FALSE` is set where the system stops: all requests made, all
validations done, the client finished.

The project states sentences of the repository that the code does not follow.
Three have a run of the list above; the others are kept as properties with a
configuration of their own, which anyone can run:

1. *Buildability* (`go_edits_build`). The design of the refactoring tools wants
   operations to "preserve buildability and type correctness". Seven ways in which
   an accepted operation breaks the build are listed in `PROJECT.json`; among them,
   `AddGoParameter` counts groups (`a, b int` is one) where the calls count
   arguments, `MoveSymbol` edits a file twice, the second time with offsets of
   the text before formatting, and `RenameSymbol` takes a package clause of the
   symbol's name for a use of it.
2. *A pass means it builds* (`validation_builds`). It need not: names in a file
   that imports another module are not checked, a generated file that does not
   parse silently switches the type check off, import cycles are not reported.
3. *A score of zero* (`aggregate_zero`) is taken for a missing one by
   `minScoreSet` (`engine.go:437`), so the worst Go report is aggregated to 100,
   although the README says that overall follows the weakest gate.
4. *Lost updates* (`MCLostUpdate.cfg`). The design document says a change set
   should "validate conflicts"; `Commit` (changeset.go:106) looks for none.
   `LostOnlyToOverlap` says how far the damage goes.
5. *Stale ranges* (`MCStaleRanges.cfg`). The same document: "must detect
   overlapping edits and stale ranges". `applyTextEdits` detects overlaps only.
   `TornOnlyUnpinned` says which files are safe, `HashGuards` what a hash adds. A
   move's second edit of a file is not safe in any: its range is stale as soon as
   the first has been formatted.
6. *"Safe" duplicate headings* (`MCMarkdownLinks.cfg`). Renaming the second of
   three equal headings renumbers the anchor of the third
   (`markdown/edits.go:286`). `LinksMoveOnlyBelowTheirLike` says how far that goes.
7. *Empty headings* (`MCMarkdownBare.cfg`) are located at offset 0
   (`markdown/index.go:310`): the section above them counts as empty, and
   operations about them edit the first line. `FreshFixMendsItsHeading` and
   `LoopComesToRest` therefore speak of documents without such headings.
8. *Test boundaries* (`MCTestBoundary.cfg`). A layer violation in a test file is
   a warning, and warnings are demoted before they are counted
   (`architecture.go:258`), so neither the test-boundary score nor `--fail-on
   test-boundary` sees it, although the README calls it a hard signal.
9. *Unused symbols* (`MCSymbolEditsUnused.cfg`). Suggest proposes to delete what
   is used: functions called in package-level initialisers only, keys of
   composite literals, names whose reads count for a field declared before them,
   names that tests or generated files use; and with one name
   of a `var` spec goes the other, with one constant of an `iota` group the
   values of the rest. `cycle` validates and shows most of these, not the last.
10. *A panic.* `expandLineRange` (`edits.go:2287`) indexes a text that may have
   shrunk since the index was built. The model reaches it (`crashed`).

Two smaller ones are not stated as properties: `maintainability` is rounded to the nearest
integer, so one debt marker in a large code base still shows 100 (README: 100
means "no penalty"); and `overall` ignores `sideEffect` outside the
architecture-only gate.

### Fairness

Safety properties assume none, and most of the code has no other: an `op run` is a
bounded sequence of steps that waits for nobody and retries nothing. What need not
end is the loop of fixes. `LoopComesToRest` assumes that the client goes on with its loop; the
README tells clients to. Which proposals it takes, and in which order, is left
open. Nothing is assumed of other programs.

## 4. The proofs

`ChangeSetsProofs` proves, for any sets of paths, change sets and programs and
any number of operations (assuming only that change sets are neither other
programs nor readers, that "absent" is not a text, and `MaxOps \in Nat`):

* `TypeCorrect`: `TypeOK` is inductive by itself.
* `ChangedIsAlwaysStaged`: inductive together with `TypeOK` and `Lifecycle`
  (only an open change set is inside `Apply`; a new one has changed nothing).
* `NoDirtyReads`: `NoDirtyRead` speaks of views, and a view says too little of
  the places behind it: a dirty overlay entry can hide behind a staged one until
  that is discarded. The strengthening `CleanPlaces` bounds the edits in each of
  the three places a view reads from.
* `LostOnlyToOverlaps`: what a commit leaves in the overlay depends on what the
  change set has held all along. `HoldsEarlierCommits` says that an open change
  set holds the edits of every commit it has not missed, unless they were
  superseded; `NewChangeSet`'s copy establishes it, `Commit` uses it.
* `ReadsMissOnlyTheGaps`: `PublishedStays` says that a file once committed stays in
  the overlay, so a lookup misses only files that no commit before the read began
  has written (`LookupsAreSound`); what the disk then has can lack only edits of
  the gap.
* `TornOnlyWhenUnpinned`: an action property; `PinnedBase` says that the text an
  edit of a file was computed from is the staged one if there is one. The second
  edits that a move makes of its files are the excuse: they come after all first
  ones.
* `ViewsChangeForAReason`: an action property, from `TypeOK`.
* `StoreImplemented`: the refinement; `StoreStep` maps each action to one of
  `TransactionStore`'s or to a stutter.

`StepKinds` sorts the actions once into those that matter to the store and
those that only move `Apply` along, so that each proof has one step per action
that it is about.

`GoValidationProofs` proves, for any finite set of files, any directories, import
graphs, overlays, requests and number of changes (assuming `File`, `Dir` and
`External` are naturals, the last two disjoint, and `NoText` no text):

* `TypeCorrect` and `RecursionIsSimple`: `TypeOK` and `StackIsSimple` are
  inductive together. `ImportCases` and `DoneCases` reduce the importer's and the
  checker's steps to three things that can happen to a stack (a frame is replaced
  by one of the same unit, a frame of a new unit is pushed, the innermost is
  popped and its unit remembered), and a lemma about sequences says for each that
  the stack stays simple. The empty memo at `Begin` matters only for the next
  validation's verdict; what the recursion needs is that a unit enters `checked`
  only as its frame goes. With finitely many units, a stack without repetitions
  is no deeper than their number: import cycles end the recursion.
* `FailuresAreTrue` and `PassesAreTrue`, from the inductive invariant `VInv`, which
  was model-checked on the run first. Its parts say what the verdict rests on:
  files stay and one of them changes at most (`FilesStay`, `OneFileChanges`), so
  that what was parsed, file by file, is one of the workspaces that existed
  (`ParsedWasThere`); the two readings are true of `during` (`ReadingIsTrue`);
  each frame of the recursion was given what its files import (`FrameFits`) and
  each calls the next (`Chained`); every unit is to come, checked or under check
  (`UnitsCovered`) and what it would report is reported (`NothingOverlooked`).
  An import that comes back empty means that the unit is on the stack below:
  the calls in between close a circle, which the least set closed under imports
  contains (`OpenMeansCycle`). Without circles the checker finds what the
  reference `Errors` finds, no more and no less (`CheckErrorsAreReal`,
  `CheckErrorsAreAll`, `CheckErrorsAreExact`), but for what a file relies on of a
  module that is not found: what was found supplies it (`SuppliedWhenFound`), and a
  check in memory stays one to its end (`InMemoryStays`), which `ReliesOnAbsent`
  needs.
* `ReportsRepeat`: the verdict of a validation of an unchanged workspace is
  `Verdict`, a function of the workspace and the request alone, whatever was read
  and answered in which order. `ReadingIsExact` and `VerdictSoFar` carry this
  through the phases, `VerdictsAgree` across validations.

`OpRunProofs` proves, for any paths, processes, other programs and outside
changes (assuming that paths are naturals, ordered as `Files` sorts them, and
that a text is neither absent nor half of one):

* `TypeCorrect`, `FilesStayWhole`, `NoStrayTemps`, `ReportsAreExact`,
  `PartialWritesArePrefixes` and `OnlyValidatedWrites` from one inductive
  invariant. `WritesAreValidated` is about the disk, but a text reaches it through
  runs that read each other's results: `EditorsAreCleared` says that whoever has
  edited a text, on disk or read by a run, had passed validation with `--write`.
  `PhaseIsTold` ties `written` and `reported` to `pc`, `TempIsNext` the temporary
  file to the first file not yet replaced, and with it each rename extends the
  prefix. For `ReportIsExact` it says in particular that nothing is printed before
  the last rename, and that whoever ends without a report is killed, has replaced
  nothing, or is mute.
* `UnracedWritesOnlyAdd`: an action property; `UnracedIsCurrent` says that what a
  run will write over a file nobody else has touched is that file plus its edit.

`SymbolEditsProofs` proves, for any files, declarations, scopes, requests and
number of outside writes:

* `TypeCorrect` and `HashesGuard`. `HashGuards` speaks of the cut; what makes it
  true was read several steps before. `IndexIsCurrent`, `FoundIsIndexed` and
  `CheckHolds` carry it along: an index holds texts that parse, what is found is in
  it, and the check of the hash compares what lies there now. That a symbol's
  lines are a whole declaration (`DeclarationIsWhole`) needs induction on a text's
  lines; the first line that breaks off the declaration takes its place.
* `CycleReportsTheEdit`. The second engine must come to the suggestion the first
  one has shown: `FirstIsKnown` says that on a disk that stays as it is every index
  yields one list of deletions, with the same first one, though files are indexed
  and symbols hashed one by one. `CycleDeletesOne` and `ReportIsCurrent` bring that
  edit into the diff.
* `DeletesHarmNothing`, of code that compiled, for any number of deletions in any
  files. `OnlyUnusedGo` carries the index's verdict from the proposals to what is
  applied, and `NobodyRefersTo` adds that what `Unseen` does not name then has no use
  at all; where no field comes first, the first symbol of a name is its declaration
  (`FieldsComeAfter`), so a read the index has given to another symbol is none of it.
  `RestStays` says what is left of each text: it embeds into the original
  (`LeftOf`) such that a line which continues a declaration, or takes its value from
  the constant above, still stands right behind the line it stood behind. Deleting
  a whole declaration on which nothing hangs keeps that (`NothingHangsOn`,
  `DeletionEmbeds`), so all else stays declared, once, and a constant's place in
  its group, its value, is the same (`ValuesStay`: the constants before it
  in both texts are in bijection).

`MarkdownFixesProofs` proves, for any kinds of lines, lengths, links and numbers of
changes (assuming that an initial line is a paragraph, blank, or a heading with a
level from 1 to 6 and a text, `LineAssumption`, and that the bounds are naturals,
`BoundsAssumption`):

* `TypeCorrect`. Ids are the model's own, so that they stay distinct is shown, not
  assumed: a document of n lines has at most n of them, so `NewId` finds a free one
  among n + 1 (`NewIdIsNew`). Each operation says where every heading of its
  result came from (`ComesFrom`), which keeps ids apart (`DocumentsStay`).
* `LinksMoveBelowTheirLike`. A link leads to a heading by its text and the number of
  equal ones above. `NumbersAreCarried` compares two documents along a bijection of
  the headings with a text, and `TargetIsCarried` draws the conclusion for an
  anchor; each operation then has its bijection: nothing changes above a renamed
  heading (`TargetsAboveStay`), texts other than the old one and the new one keep
  their headings (`RenameMovesBelow`), a level or a body moves none, a title only
  its like. That the renamed heading itself is linked to by nobody is the guard's
  doing (`RenameIsUnlinked`).
* `FreshFixesMend`. An edit knows its heading only by a byte offset. `Offset`
  is a recursive sum; that it is defined for every line again takes a least
  counterexample, and then it grows strictly (`OffsetsGrow`), so without empty
  headings an offset belongs to one heading (`HeadingFound`). Then each operation by
  itself (`TitleMends`, `LevelMends`, `RenameMends`, `BodyMends`): the title lands on
  top, a new level stays next to an unchanged parent, a placeholder lies inside the
  section of its heading (`PlaceholderFills`). A setext heading is never given
  a body (`EmptyIsAtx`): its underline lies behind its `End`, and fills it.

`ArchitectureRulesProofs` proves, for any finite sets of files and targets and any
rules files of the shape `Policy`, with any exceptions added:

* `NarrowRulesWin`: `Best` is defined by recursion on the list. `BestIsDefined`
  and `BestIsBest` replace the induction by a least counterexample (`HasLeast`:
  naturals are well founded). The best of the first n rules is as specific as any
  of them and denies if one of the most specific does, so a list of any length in
  any order decides as the README says.
* `ExceptionsAreNarrow`: `OneMoreExcuses` describes what adding an exception does to
  `Excepted`; each of the three kinds of violations then loses only violations
  that the exception names.
* `RulesTypeCorrect`. The invariant is that the rules are a caller's, with
  exceptions (`RulesAreACallers`); without it a state's rules could be anything.

`AssessmentProofs` builds on these, for any sizes, gates, languages and numbers
of issues (assuming that sizes and `MaxIssues` are naturals):

* `ScoresAreBounded`, `ViolationsShow` and `NothingBadRaisesScores` rest on lemmas
  about the integer arithmetic: `CeilDiv(n, d)` is the least k with n <= k d, so it
  grows with n and is positive as soon as n is; `Penalty` is bounded by its cap,
  grows with the events and is positive when there is one (`PenaltyBounds`,
  `PenaltyGrows`, `PenaltyRises`). Scores are built from penalties by minima, sums
  and one special case, and each construction is shown to fall when its parts do
  (the `...Falls` lemmas). Violations are finitely many (`ViolationsAreFinite`) and
  grow with the uses (`ViolationsGrow`), which is what lets counts be compared.
* `FailOnFollowsScores`: `EffectKindsAgree` shows that the categories of the command
  line and of the backend are the same set, though they fall back to different
  kinds.

Only model-checked so far: the properties of `GoEdits`. For good: liveness (`LoopComesToRest`), which rests on fairness and `ENABLED`.

## 5. What is not modelled

* Parsing, formatting, wording, sorting and limits of reports: data and layout.
* Navigation, the index's edges and metrics, and the quality metrics: pure
  functions over `go/ast`; their counts are inputs of `Assessment`.
* In `GoEdits`: types beyond their names, comments, layout beyond whether it is
  gofmt's; generics; embedded fields; dot imports, external test packages. Selectors
  by ID are in `SymbolEdits`.
* In `GoValidation`: read errors and cancellation, which end a validation with an
  error; build constraints; a scope narrowed to a path; a loader that does not find
  the modules the build needs; the several backends and
  adapters of `Editor.validate`, whose results are concatenated.
* In `SymbolEdits`: commits of other change sets (`ChangeSets` has them), the
  parentheses of groups, advisory suggestions, which come after the deletions;
  methods with a receiver; package clauses, which count as uses of a symbol of that
  name (it is then not proposed) and are in `GoSource`.
* In `ArchitectureRules`: external test packages as units of their own, the root
  directory as a package, segments of paths of more than one character.
* In `Assessment`: the coverage finding of a workspace without Go files, and
  parse errors that hide a file's imports (a diagnostic here hides nothing).
* In `MarkdownFixes`: debt markers, broken links and long sections, whose
  suggestions are advisory.
* HTML reports, `gocheck`, the agent runtime adapter and the wrappers.

## 6. The plan

What is left, in the order of its worth:

1. `TextEdits`: `applyTextEdits` as an operator against a reference that edits
   characters one by one, over bounded texts.
2. The counters of `goast/quality.go` that the assessment reads, as functions of
   the workspaces of `GoSource`, so that an edit's effect on the scores can be
   stated (the README's reassess step).
