----------------------------- MODULE ChangeSets -----------------------------
(***************************************************************************)
(* The Editor's committed overlay (editor.go) and the ChangeSets opened on *)
(* it (changeset.go).  Every change set is driven by one goroutine of its  *)
(* own: the type has no mutex.  The Editor is shared: its overlay is       *)
(* guarded by an RWMutex, which one whole Commit holds.  The read of a     *)
(* file holds it for the lookup in the overlay only: when that misses, the *)
(* lock is released and the disk is read in a second step.  The            *)
(* workspace's files are changed by other programs at any time.            *)
(*                                                                         *)
(* A file's content is abstracted to who has edited it, and to whether     *)
(* some edit was spliced into a text other than the one it was computed    *)
(* from.                                                                   *)
(***************************************************************************)
EXTENDS Naturals

CONSTANTS
  Path,           \* the workspace's file paths, already cleaned
  ChangeSetId,    \* the change sets callers may open
  Outsider,       \* programs other than codegate that save files
  Reader,         \* calls that read through the Editor alone
  Absent,         \* "no such file", "no such key in the map"
  MaxOps          \* bounds the operations applied to one change set

ASSUME AuthorsAssumption ==
  ChangeSetId \cap Outsider = {} /\ ChangeSetId \cap Reader = {}

Author == ChangeSetId \cup Outsider

Content == [edits : SUBSET Author, torn : BOOLEAN]

ASSUME AbsentAssumption == Absent \notin Content

ASSUME MaxOpsAssumption == MaxOps \in Nat

VARIABLES
  source,     \* source[p]: the file on disk
  overlay,    \* overlay[p]: Editor.overlay
  status,     \* status[c]: "open" until ChangeSet.closed, then how it closed
  staged,     \* staged[c][p]: ChangeSet.overlay
  changed,    \* changed[c]: ChangeSet.changed
  phase,      \* phase[c]: where the goroutine is in Apply
  compiled,   \* compiled[c][p]: the text the pending FileEdit of p was computed from
  imports,    \* imports[c][p]: a move's second FileEdit of p, and its base
  seeking,    \* seeking[x]: the file whose lookup in the overlays has missed
  ops         \* ops[c]: operations begun, for the bound only

(* The Editor's readers.                                                   *)
VARIABLES
  got,        \* got[r][p]: the text reader r was given of p, if it has read it
  since       \* since[r][p]: the change sets committed when that read began

(* History of the run, read by no action's guard.                          *)
VARIABLES
  missed,     \* missed[c]: change sets committed while c was open
  wrote       \* wrote[c]: the paths c's Commit published

history == <<missed, wrote>>
readers == <<got, since>>
vars == <<source, overlay, status, staged, changed, phase, compiled, imports,
          seeking, ops, history, readers>>

NoImports == [p \in Path |-> "none"]
NoFiles == [p \in Path |-> Absent]
MaybeContent == Content \cup {Absent}

Open(c) == status[c] = "open"
Idle(c) == phase[c] = "idle"
Committed == {c \in ChangeSetId : status[c] = "committed"}

-----------------------------------------------------------------------------
(* What the overlay and the disk hold of a file, in the order              *)
(* Editor.readFileWithOverlay asks them when its overlay is nil.           *)
EditorView(p) == IF overlay[p] # Absent THEN overlay[p] ELSE source[p]

(* Fault: the change set's own overlay is looked up last.                  *)
ViewEditorFirst(c, p) ==
  IF overlay[p] # Absent THEN overlay[p]
  ELSE IF staged[c][p] # Absent THEN staged[c][p] ELSE source[p]

(* The same with a change set's overlay, which comes first.                *)
View(c, p) == IF staged[c][p] # Absent THEN staged[c][p] ELSE EditorView(p)

(* The lookup in the overlays, and the text a read of p returns: what the  *)
(* lookup found or, the lookup having missed earlier, what the disk has    *)
(* now.  Absent is a read error.                                           *)
Held(c, p) == IF staged[c][p] # Absent THEN staged[c][p] ELSE overlay[p]

TextRead(c, p) == IF p \in seeking[c] THEN source[p] ELSE Held(c, p)

ReadReturns(c, p) == seeking[c] \subseteq {p} /\ TextRead(c, p) # Absent

(* The reads of an Apply: of a file it will edit, of the two files of a    *)
(* MoveSymbol once more for their imports, and of a file to splice into.   *)
ReadsToCompile(c, p) ==
  phase[c] = "compile" /\ compiled[c][p] = Absent /\ imports[c] = NoImports

ReadsForImports(c, p) ==
  /\ phase[c] = "compile"
  /\ compiled[c][p] # Absent /\ imports[c][p] = "none"
  /\ \E q \in Path \ {p} : compiled[c][q] # Absent

ReadsToApply(c, p) == phase[c] = "edit" /\ compiled[c][p] # Absent

(* applyTextEdits then Format: c's edit is in the text, in the right place *)
(* only if its offsets fit this very text.                                 *)
Spliced(text, c, fits) ==
  [edits |-> text.edits \cup {c}, torn |-> text.torn \/ ~fits]

Init ==
  /\ source \in [Path -> {Absent, [edits |-> {}, torn |-> FALSE]}]
  /\ overlay = NoFiles
  /\ status = [c \in ChangeSetId |-> "new"]
  /\ staged = [c \in ChangeSetId |-> NoFiles]
  /\ changed = [c \in ChangeSetId |-> {}]
  /\ phase = [c \in ChangeSetId |-> "idle"]
  /\ compiled = [c \in ChangeSetId |-> NoFiles]
  /\ imports = [c \in ChangeSetId |-> NoImports]
  /\ seeking = [x \in ChangeSetId \cup Reader |-> {}]
  /\ got = [r \in Reader |-> [p \in Path |-> {}]]
  /\ since = [r \in Reader |-> [p \in Path |-> {}]]
  /\ ops = [c \in ChangeSetId |-> 0]
  /\ missed = [c \in ChangeSetId |-> {}]
  /\ wrote = [c \in ChangeSetId |-> {}]

(* Editor.NewChangeSet: a deep copy of the overlay, under the read lock.   *)
NewChangeSet(c) ==
  /\ status[c] = "new"
  /\ status' = [status EXCEPT ![c] = "open"]
  /\ staged' = [staged EXCEPT ![c] = overlay]
  /\ UNCHANGED <<source, overlay, changed, phase, compiled, imports, seeking, ops,
                 history, readers>>

(* ChangeSet.Apply takes its next operation, or is called with one.  A     *)
(* closed change set, a cancelled context and an operation without a       *)
(* backend return before anything has changed.                             *)
ApplyOperation(c) ==
  /\ Open(c) /\ Idle(c)
  /\ ops[c] < MaxOps
  /\ ops' = [ops EXCEPT ![c] = @ + 1]
  /\ phase' = [phase EXCEPT ![c] = "compile"]
  /\ UNCHANGED <<source, overlay, status, staged, changed, compiled, imports,
                 seeking, history, readers>>

(* readFileWithOverlay has found the file in neither overlay and has       *)
(* released the lock.                                                      *)
LookupMisses(c, p) ==
  /\ ReadsToCompile(c, p) \/ ReadsForImports(c, p) \/ ReadsToApply(c, p)
  /\ seeking[c] = {}
  /\ Held(c, p) = Absent
  /\ seeking' = [seeking EXCEPT ![c] = {p}]
  /\ UNCHANGED <<source, overlay, status, staged, changed, phase, compiled,
                 imports, ops, history, readers>>

(* Fault: a file counts as changed before its edit has succeeded.          *)
CompileEditMarksChanged(c, p) ==
  /\ ReadsToCompile(c, p)
  /\ ReadReturns(c, p)
  /\ compiled' = [compiled EXCEPT ![c][p] = TextRead(c, p)]
  /\ changed' = [changed EXCEPT ![c] = @ \cup {p}]
  /\ seeking' = [seeking EXCEPT ![c] = {}]
  /\ UNCHANGED <<source, overlay, status, staged, phase, imports, ops, history,
                 readers>>

(* Backend.CompileEdit reads one more file it will edit, through the       *)
(* snapshot: each file at its own moment.                                  *)
CompileEdit(c, p) ==
  /\ ReadsToCompile(c, p)
  /\ ReadReturns(c, p)
  /\ compiled' = [compiled EXCEPT ![c][p] = TextRead(c, p)]
  /\ seeking' = [seeking EXCEPT ![c] = {}]
  /\ UNCHANGED <<source, overlay, status, staged, changed, phase, imports, ops,
                 history, readers>>

(* moveImportEdits reads the file again and adds a second FileEdit of it,  *)
(* whose offsets are of the text read now.                                 *)
CompileImports(c, p) ==
  /\ ReadsForImports(c, p)
  /\ ReadReturns(c, p)
  /\ imports' = [imports EXCEPT ![c][p] =
                   IF TextRead(c, p) = compiled[c][p] THEN "same" ELSE "other"]
  /\ seeking' = [seeking EXCEPT ![c] = {}]
  /\ UNCHANGED <<source, overlay, status, staged, changed, phase, compiled, ops,
                 history, readers>>

(* CompileEdit returns its FileEdits, none when there is nothing to do.    *)
CompileReturns(c) ==
  /\ phase[c] = "compile"
  /\ seeking[c] = {}
  /\ phase' = [phase EXCEPT ![c] = "edit"]
  /\ UNCHANGED <<source, overlay, status, staged, changed, compiled, imports,
                 seeking, ops, history, readers>>

(* The text read for the pending FileEdit of p, with the edit.             *)
Edited(c, p) ==
  Spliced(TextRead(c, p), c, TextRead(c, p) = compiled[c][p])

(* Fault: NewChangeSet shared the editor's map instead of copying it, so   *)
(* the edit lands in both.                                                 *)
ApplyFileEditAliased(c, p) ==
  /\ ReadsToApply(c, p)
  /\ ReadReturns(c, p)
  /\ staged' = [staged EXCEPT ![c][p] = Edited(c, p)]
  /\ overlay' = [overlay EXCEPT ![p] = Edited(c, p)]
  /\ changed' = [changed EXCEPT ![c] = @ \cup {p}]
  /\ compiled' = [compiled EXCEPT ![c][p] = Absent]
  /\ seeking' = [seeking EXCEPT ![c] = {}]
  /\ UNCHANGED <<source, status, phase, imports, ops, history, readers>>

(* Fault: the edits of one file are not merged, and a second FileEdit of   *)
(* it with the same base follows.                                          *)
ApplyFileEditUnmerged(c, p) ==
  /\ ReadsToApply(c, p)
  /\ ReadReturns(c, p)
  /\ staged' = [staged EXCEPT ![c][p] = Edited(c, p)]
  /\ changed' = [changed EXCEPT ![c] = @ \cup {p}]
  /\ compiled' \in {compiled, [compiled EXCEPT ![c][p] = Absent]}
  /\ seeking' = [seeking EXCEPT ![c] = {}]
  /\ UNCHANGED <<source, overlay, status, phase, imports, ops, history, readers>>

(* One round of applyFileEdits: the file is read again, spliced, formatted *)
(* and put into the change set's overlay.                                  *)
ApplyFileEdit(c, p) ==
  /\ ReadsToApply(c, p)
  /\ ReadReturns(c, p)
  /\ staged' = [staged EXCEPT ![c][p] = Edited(c, p)]
  /\ changed' = [changed EXCEPT ![c] = @ \cup {p}]
  /\ compiled' = [compiled EXCEPT ![c][p] = Absent]
  /\ seeking' = [seeking EXCEPT ![c] = {}]
  /\ UNCHANGED <<source, overlay, status, phase, imports, ops, history, readers>>

(* A round for a move's second FileEdit of p, after those of the           *)
(* declaration: spliced into a text that already has the first edit and    *)
(* has been formatted.  Its offsets still fit if both reads of p gave one  *)
(* text, the offsets lie before the first edit and Format has moved        *)
(* nothing there; otherwise it lands in the wrong place.                   *)
ApplyImportEdit(c, p) ==
  /\ phase[c] = "edit"
  /\ compiled[c] = NoFiles
  /\ imports[c][p] # "none"
  /\ staged[c][p] # Absent
  /\ \E unmoved \in BOOLEAN :
       staged' = [staged EXCEPT ![c][p] =
                    Spliced(@, c, unmoved /\ imports[c][p] = "same")]
  /\ changed' = [changed EXCEPT ![c] = @ \cup {p}]
  /\ imports' = [imports EXCEPT ![c][p] = "none"]
  /\ UNCHANGED <<source, overlay, status, phase, compiled, seeking, ops, history,
                 readers>>

(* applyFileEdits has gone through all the FileEdits.                      *)
ApplyReturns(c) ==
  /\ phase[c] = "edit"
  /\ compiled[c] = NoFiles /\ imports[c] = NoImports
  /\ phase' = [phase EXCEPT ![c] = "idle"]
  /\ UNCHANGED <<source, overlay, status, staged, changed, compiled, imports,
                 seeking, ops, history, readers>>

(* A selector, hash, read, range, format or context error: Apply returns   *)
(* and keeps the file edits it has already made.                           *)
ApplyFails(c) ==
  /\ phase[c] # "idle"
  /\ phase' = [phase EXCEPT ![c] = "idle"]
  /\ compiled' = [compiled EXCEPT ![c] = NoFiles]
  /\ imports' = [imports EXCEPT ![c] = NoImports]
  /\ seeking' = [seeking EXCEPT ![c] = {}]
  /\ UNCHANGED <<source, overlay, status, staged, changed, ops, history, readers>>

(* Fault: Commit publishes the whole pending overlay, copies included.     *)
CommitEverything(c) ==
  /\ Open(c) /\ Idle(c)
  /\ overlay' = [p \in Path |->
                   IF staged[c][p] # Absent THEN staged[c][p] ELSE overlay[p]]
  /\ status' = [status EXCEPT ![c] = "committed"]
  /\ missed' = [d \in ChangeSetId |->
                  IF Open(d) /\ d # c THEN missed[d] \cup {c} ELSE missed[d]]
  /\ wrote' = [wrote EXCEPT ![c] = changed[c]]
  /\ UNCHANGED <<source, staged, changed, phase, compiled, imports, seeking, ops,
                 readers>>

(* Fault: Commit does not look at ChangeSet.closed.                        *)
CommitClosedToo(c) ==
  /\ status[c] \in {"open", "committed"} /\ Idle(c)
  /\ overlay' = [p \in Path |->
                   IF p \in changed[c] THEN staged[c][p] ELSE overlay[p]]
  /\ status' = [status EXCEPT ![c] = "committed"]
  /\ missed' = [d \in ChangeSetId |->
                  IF Open(d) /\ d # c THEN missed[d] \cup {c} ELSE missed[d]]
  /\ wrote' = [wrote EXCEPT ![c] = changed[c]]
  /\ UNCHANGED <<source, staged, changed, phase, compiled, imports, seeking, ops,
                 readers>>

(* ChangeSet.Commit: the changed files, under the write lock.              *)
Commit(c) ==
  /\ Open(c) /\ Idle(c)
  /\ overlay' = [p \in Path |->
                   IF p \in changed[c] THEN staged[c][p] ELSE overlay[p]]
  /\ status' = [status EXCEPT ![c] = "committed"]
  /\ missed' = [d \in ChangeSetId |->
                  IF Open(d) /\ d # c THEN missed[d] \cup {c} ELSE missed[d]]
  /\ wrote' = [wrote EXCEPT ![c] = changed[c]]
  /\ UNCHANGED <<source, staged, changed, phase, compiled, imports, seeking, ops,
                 readers>>

(* Fault: Discard gives every change set a closing mark of its own.        *)
DiscardLeavesNil(c) ==
  /\ status[c] # "new"
  /\ Idle(c)
  /\ status' = [status EXCEPT ![c] = "closed"]
  /\ staged' = [staged EXCEPT ![c] = NoFiles]
  /\ changed' = [changed EXCEPT ![c] = {}]
  /\ UNCHANGED <<source, overlay, phase, compiled, imports, seeking, ops,
                 history, readers>>

(* ChangeSet.Discard, which callers may also defer past a Commit.          *)
Discard(c) ==
  /\ status[c] # "new"
  /\ Idle(c)
  /\ status' = [status EXCEPT ![c] = IF @ = "open" THEN "discarded" ELSE @]
  /\ staged' = [staged EXCEPT ![c] = NoFiles]
  /\ changed' = [changed EXCEPT ![c] = {}]
  /\ UNCHANGED <<source, overlay, phase, compiled, imports, seeking, ops,
                 history, readers>>

(* Fault: the source is asked first.                                       *)
EditorLookupSourceFirst(r, p) ==
  /\ seeking[r] = {} /\ got[r][p] = {}
  /\ since' = [since EXCEPT ![r][p] = Committed]
  /\ IF source[p] = Absent /\ overlay[p] # Absent
       THEN got' = [got EXCEPT ![r][p] = {overlay[p]}] /\ UNCHANGED seeking
       ELSE seeking' = [seeking EXCEPT ![r] = {p}] /\ UNCHANGED got
  /\ UNCHANGED <<source, overlay, status, staged, changed, phase, compiled,
                 imports, ops, history>>

(* readFileWithOverlay for a caller without a change set (Editor.Read,     *)
(* Suggest, Validate): the file is in the overlay, or it is not and the    *)
(* disk is read later, whatever has been committed meanwhile.  A reader of *)
(* the model reads a file once.                                            *)
EditorLookup(r, p) ==
  /\ seeking[r] = {} /\ got[r][p] = {}
  /\ since' = [since EXCEPT ![r][p] = Committed]
  /\ IF overlay[p] # Absent
       THEN got' = [got EXCEPT ![r][p] = {overlay[p]}] /\ UNCHANGED seeking
       ELSE seeking' = [seeking EXCEPT ![r] = {p}] /\ UNCHANGED got
  /\ UNCHANGED <<source, overlay, status, staged, changed, phase, compiled,
                 imports, ops, history>>

EditorReadSource(r, p) ==
  /\ seeking[r] = {p}
  /\ got' = [got EXCEPT ![r][p] = {source[p]}]
  /\ seeking' = [seeking EXCEPT ![r] = {}]
  /\ UNCHANGED <<source, overlay, status, staged, changed, phase, compiled,
                 imports, ops, history, since>>

(* Another program saves a file, creating it if need be, or removes it.    *)
OutsideSave(p, o) ==
  /\ source' = [source EXCEPT ![p] =
                  [edits |-> (IF @ = Absent THEN {} ELSE @.edits) \cup {o},
                   torn |-> FALSE]]
  /\ UNCHANGED <<overlay, status, staged, changed, phase, compiled, imports,
                 seeking, ops, history, readers>>

OutsideRemove(p) ==
  /\ source' = [source EXCEPT ![p] = Absent]
  /\ UNCHANGED <<overlay, status, staged, changed, phase, compiled, imports,
                 seeking, ops, history, readers>>

ChangeSetStep(c) ==
  \/ NewChangeSet(c)
  \/ ApplyOperation(c)
  \/ \E p \in Path : LookupMisses(c, p)
  \/ \E p \in Path : CompileEdit(c, p)
  \/ \E p \in Path : CompileImports(c, p)
  \/ CompileReturns(c)
  \/ \E p \in Path : ApplyFileEdit(c, p)
  \/ \E p \in Path : ApplyImportEdit(c, p)
  \/ ApplyReturns(c)
  \/ ApplyFails(c)
  \/ Commit(c)
  \/ Discard(c)

Next ==
  \/ \E c \in ChangeSetId : ChangeSetStep(c)
  \/ \E r \in Reader, p \in Path : EditorLookup(r, p) \/ EditorReadSource(r, p)
  \/ \E p \in Path, o \in Outsider : OutsideSave(p, o)
  \/ \E p \in Path : OutsideRemove(p)

Spec == Init /\ [][Next]_vars

-----------------------------------------------------------------------------
(* The variables have the types the Go declarations give them.             *)
TypeOK ==
  /\ source \in [Path -> MaybeContent]
  /\ overlay \in [Path -> MaybeContent]
  /\ status \in [ChangeSetId -> {"new", "open", "committed", "discarded"}]
  /\ staged \in [ChangeSetId -> [Path -> MaybeContent]]
  /\ changed \in [ChangeSetId -> SUBSET Path]
  /\ phase \in [ChangeSetId -> {"idle", "compile", "edit"}]
  /\ compiled \in [ChangeSetId -> [Path -> MaybeContent]]
  /\ imports \in [ChangeSetId -> [Path -> {"none", "same", "other"}]]
  /\ seeking \in [ChangeSetId \cup Reader -> SUBSET Path]
  /\ got \in [Reader -> [Path -> SUBSET MaybeContent]]
  /\ since \in [Reader -> [Path -> SUBSET ChangeSetId]]
  /\ ops \in [ChangeSetId -> 0..MaxOps]
  /\ missed \in [ChangeSetId -> SUBSET ChangeSetId]
  /\ wrote \in [ChangeSetId -> SUBSET Path]

-----------------------------------------------------------------------------
Edits(text) == IF text = Absent THEN {} ELSE text.edits
Torn(text) == text # Absent /\ text.torn

(* No dirty reads: what the Editor shows or has given a reader, and what a *)
(* change set shows besides its own edits, was written by a committed      *)
(* change set or saved by another program.  NewChangeSet's deep copy, the  *)
(* copies Commit and readFileWithOverlay make, and Discard's reset have to *)
(* add up to this.                                                         *)
NoDirtyRead ==
  \A p \in Path :
    /\ Edits(EditorView(p)) \subseteq Outsider \cup Committed
    /\ \A r \in Reader : \A text \in got[r][p] :
         Edits(text) \subseteq Outsider \cup Committed
    /\ \A c \in ChangeSetId :
         Open(c) => Edits(View(c, p)) \subseteq Outsider \cup Committed \cup {c}

(* Whatever Apply managed before it returned or failed, each path of       *)
(* changed has a text of the change set's own, so Commit never publishes   *)
(* an empty copy of a missing map entry.                                   *)
ChangedIsStaged ==
  \A c \in ChangeSetId :
    Open(c) => \A p \in changed[c] :
                 staged[c][p] # Absent /\ c \in Edits(staged[c][p])

(* A committed edit disappears from the committed overlay in one way only: *)
(* a change set that was already open at that commit, and so may hold an   *)
(* older copy, has committed the same file since (Commit looks for no      *)
(* conflict).                                                              *)
Superseded(c, p) ==
  \E d \in Committed : c \in missed[d] /\ p \in wrote[d]

LostOnlyToOverlap ==
  \A c \in Committed : \A p \in wrote[c] :
    c \in Edits(overlay[p]) \/ Superseded(c, p)

(* Between a read's lookup in the overlay and its read of the disk no lock *)
(* is held, and commits and saves may come in between.  Even so a reader   *)
(* gets every edit that was committed to the file before its read began,   *)
(* unless a later commit has written over it: what it may miss are the     *)
(* commits of the gap.                                                     *)
ReadsMissOnlyTheGap ==
  \A r \in Reader, p \in Path :
    \A text \in got[r][p] : \A c \in since[r][p] :
      p \in wrote[c] => c \in Edits(text) \/ Superseded(c, p)

(* The text an open change set sees of a file changes under it for three   *)
(* reasons only: its own Apply; another change set's Commit of a file it   *)
(* has no copy of; another program saving a file nobody has committed.  A  *)
(* file it has a copy of is its own.                                       *)
ViewChangesExplained ==
  [][\A c \in ChangeSetId, p \in Path :
       Open(c) /\ Open(c)' /\ View(c, p)' # View(c, p) =>
         \/ phase[c] = "edit" /\ p \in changed'[c]
         \/ /\ staged[c][p] = Absent
            /\ \E d \in Committed' \ Committed : p \in changed[d]
         \/ /\ staged[c][p] = Absent /\ overlay[p] = Absent
            /\ source'[p] # source[p]]_vars

(* An edit is spliced into a text it was not computed from for two reasons *)
(* only: the change set had no copy of the file, or the edit is a move's   *)
(* second one of a file, applied after the first.  Otherwise CompileEdit   *)
(* and applyFileEdits read a file the change set holds from one place.     *)
TornOnlyUnpinned ==
  [][\A c \in ChangeSetId, p \in Path :
       Torn(staged'[c][p]) /\ ~Torn(View(c, p)) =>
         \/ staged[c][p] = Absent
         \/ compiled[c] = NoFiles /\ imports[c][p] # "none"]_vars

(* Editor and change sets implement the atomic store of TransactionStore:  *)
(* its store is the Editor's view, and a transaction's writes are the      *)
(* changed files of an open change set.                                    *)
Store == INSTANCE TransactionStore WITH
  Key <- Path, Txn <- ChangeSetId, Value <- MaybeContent, Unset <- Absent,
  store <- [p \in Path |-> EditorView(p)],
  writes <- [c \in ChangeSetId |-> [p \in Path |->
               IF Open(c) /\ p \in changed[c] THEN staged[c][p] ELSE Absent]],
  published <- {p \in Path : overlay[p] # Absent}

ImplementsStore == Store!Spec

-----------------------------------------------------------------------------
(* What the editor's design document says of change sets, which the code   *)
(* does not do.                                                            *)

(* "validate conflicts": a committed edit is still there after later       *)
(* commits.                                                                *)
CommitsAreKept ==
  \A c \in Committed : \A p \in wrote[c] : c \in Edits(overlay[p])

(* "must detect ... stale ranges": no text is committed that holds an edit *)
(* computed from another text.                                             *)
StaleRangesDetected == \A p \in Path : ~Torn(overlay[p])
=============================================================================
