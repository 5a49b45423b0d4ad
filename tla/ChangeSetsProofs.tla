-------------------------- MODULE ChangeSetsProofs --------------------------
(***************************************************************************)
(* Proofs about ChangeSets, for any number of files, change sets, other    *)
(* programs and operations.                                                *)
(***************************************************************************)
EXTENDS ChangeSets, TLAPS

LEMMA AbsentIsNoContent == \A x \in Content : x # Absent
  BY AbsentAssumption

(* A spliced text is a text, and holds the author's edit.                  *)
LEMMA SplicedIsContent ==
  ASSUME NEW text \in Content, NEW c \in ChangeSetId, NEW fits \in BOOLEAN
  PROVE  /\ Spliced(text, c, fits) \in Content
         /\ Spliced(text, c, fits) # Absent
         /\ Spliced(text, c, fits).edits = text.edits \cup {c}
         /\ Spliced(text, c, fits).torn = (text.torn \/ ~fits)
  <1>1. Spliced(text, c, fits) \in Content
    BY DEF Spliced, Content, Author
  <1>2. QED
    BY <1>1, AbsentIsNoContent DEF Spliced

(* Reading never invents a text.                                           *)
LEMMA ViewIsContent ==
  ASSUME TypeOK, NEW c \in ChangeSetId, NEW p \in Path
  PROVE  EditorView(p) \in MaybeContent /\ View(c, p) \in MaybeContent
  BY DEF TypeOK, EditorView, View

LEMMA ReadIsContent ==
  ASSUME TypeOK, NEW c \in ChangeSetId, NEW p \in Path, ReadReturns(c, p)
  PROVE  TextRead(c, p) \in Content
  BY DEF TypeOK, ReadReturns, TextRead, Held, MaybeContent

(* What a round of applyFileEdits makes of the text it has read.           *)
LEMMA EditedIsContent ==
  ASSUME TypeOK, NEW c \in ChangeSetId, NEW p \in Path, ReadReturns(c, p)
  PROVE  /\ Edited(c, p) \in Content /\ Edited(c, p) # Absent
         /\ Edited(c, p).edits = TextRead(c, p).edits \cup {c}
         /\ Edited(c, p).torn =
              (TextRead(c, p).torn \/ TextRead(c, p) # compiled[c][p])
  <1> DEFINE text == TextRead(c, p)
             fits == text = compiled[c][p]
  <1>1. text \in Content /\ fits \in BOOLEAN
    BY ReadIsContent
  <1>2. Edited(c, p) = Spliced(text, c, fits)
    BY DEF Edited
  <1>3. /\ Spliced(text, c, fits) \in Content
        /\ Spliced(text, c, fits) # Absent
        /\ Spliced(text, c, fits).edits = text.edits \cup {c}
        /\ Spliced(text, c, fits).torn = (text.torn \/ ~fits)
    <2> HIDE DEF text, fits
    <2> QED
      BY <1>1, SplicedIsContent
  <1> QED
    BY <1>2, <1>3

(* The text that a round of applyFileEdits has put into the overlay of c,  *)
(* for a first FileEdit of p or for a second.                              *)
StagesInto(c, p, text) ==
  /\ phase[c] = "edit"
  /\ text \in Content
  /\ c \in text.edits
  /\ staged' = [staged EXCEPT ![c][p] = text]
  /\ changed' = [changed EXCEPT ![c] = @ \cup {p}]
  /\ UNCHANGED <<source, overlay, status, phase, ops, history, readers>>

FirstEdit(c, p, text) ==
  /\ StagesInto(c, p, text)
  /\ ReadReturns(c, p)
  /\ text.edits = TextRead(c, p).edits \cup {c}
  /\ text.torn = (TextRead(c, p).torn \/ TextRead(c, p) # compiled[c][p])
  /\ compiled[c][p] # Absent

SecondEdit(c, p, text) ==
  /\ StagesInto(c, p, text)
  /\ staged[c][p] # Absent
  /\ text.edits = staged[c][p].edits \cup {c}
  /\ compiled[c] = NoFiles /\ imports[c][p] # "none"

LEMMA ApplyFileEditStages ==
  ASSUME TypeOK, NEW c \in ChangeSetId, NEW p \in Path, ApplyFileEdit(c, p)
  PROVE  FirstEdit(c, p, Edited(c, p))
  BY EditedIsContent, ReadIsContent
     DEF ApplyFileEdit, FirstEdit, StagesInto, ReadsToApply, Content

LEMMA ApplyImportEditStages ==
  ASSUME TypeOK, NEW c \in ChangeSetId, NEW p \in Path, ApplyImportEdit(c, p)
  PROVE  \E text \in Content : SecondEdit(c, p, text)
  <1>1. staged[c][p] \in Content
    BY DEF TypeOK, ApplyImportEdit, MaybeContent
  <1>2. PICK unmoved \in BOOLEAN :
          staged' = [staged EXCEPT ![c][p] =
                       Spliced(@, c, unmoved /\ imports[c][p] = "same")]
    BY DEF ApplyImportEdit
  <1> DEFINE fits == unmoved /\ imports[c][p] = "same"
             text == Spliced(staged[c][p], c, fits)
  <1>3. text \in Content /\ text.edits = staged[c][p].edits \cup {c}
    BY <1>1, SplicedIsContent
  <1>4. staged' = [staged EXCEPT ![c][p] = text]
    BY <1>2 DEF TypeOK
  <1> HIDE DEF text
  <1>5. SecondEdit(c, p, text)
    BY <1>3, <1>4 DEF ApplyImportEdit, SecondEdit, StagesInto
  <1> QED
    BY <1>3, <1>5

LEMMA TypeStep == TypeOK /\ [Next]_vars => TypeOK'
  <1> SUFFICES ASSUME TypeOK, [Next]_vars
               PROVE  TypeOK'
    OBVIOUS
  <1> USE DEF TypeOK, NoFiles, NoImports, MaybeContent, history, readers
  <1>1. ASSUME NEW c \in ChangeSetId, NewChangeSet(c)
        PROVE  TypeOK'
    BY <1>1 DEF NewChangeSet
  <1>2. ASSUME NEW c \in ChangeSetId, ApplyOperation(c)
        PROVE  TypeOK'
    BY <1>2, MaxOpsAssumption DEF ApplyOperation
  <1>3. ASSUME NEW c \in ChangeSetId, NEW p \in Path, CompileEdit(c, p)
        PROVE  TypeOK'
    BY <1>3, ReadIsContent DEF CompileEdit
  <1>4. ASSUME NEW c \in ChangeSetId, CompileReturns(c)
        PROVE  TypeOK'
    BY <1>4 DEF CompileReturns
  <1>5. ASSUME NEW c \in ChangeSetId, NEW p \in Path, ApplyFileEdit(c, p)
        PROVE  TypeOK'
    <2>1. Edited(c, p) \in Content
      BY <1>5, EditedIsContent DEF ApplyFileEdit
    <2> QED
      BY <1>5, <2>1 DEF ApplyFileEdit
  <1>6. ASSUME NEW c \in ChangeSetId, ApplyReturns(c)
        PROVE  TypeOK'
    BY <1>6 DEF ApplyReturns
  <1>7. ASSUME NEW c \in ChangeSetId, ApplyFails(c)
        PROVE  TypeOK'
    BY <1>7 DEF ApplyFails
  <1>8. ASSUME NEW c \in ChangeSetId, Commit(c)
        PROVE  TypeOK'
    BY <1>8 DEF Commit
  <1>9. ASSUME NEW c \in ChangeSetId, Discard(c)
        PROVE  TypeOK'
    BY <1>9 DEF Discard
  <1>10. ASSUME NEW p \in Path, NEW o \in Outsider, OutsideSave(p, o)
         PROVE  TypeOK'
    BY <1>10 DEF OutsideSave, Content, Author
  <1>11. ASSUME NEW p \in Path, OutsideRemove(p)
         PROVE  TypeOK'
    BY <1>11 DEF OutsideRemove
  <1>12. CASE UNCHANGED vars
    BY <1>12 DEF vars, readers
  <1>13. ASSUME NEW c \in ChangeSetId, NEW p \in Path, LookupMisses(c, p)
         PROVE  TypeOK'
    BY <1>13 DEF LookupMisses
  <1>14. ASSUME NEW c \in ChangeSetId, NEW p \in Path, CompileImports(c, p)
         PROVE  TypeOK'
    BY <1>14 DEF CompileImports
  <1>15. ASSUME NEW c \in ChangeSetId, NEW p \in Path, ApplyImportEdit(c, p)
         PROVE  TypeOK'
    <2>1. PICK text \in Content : SecondEdit(c, p, text)
      BY <1>15, ApplyImportEditStages
    <2> QED
      BY <1>15, <2>1 DEF ApplyImportEdit, SecondEdit, StagesInto
  <1>16. ASSUME NEW r \in Reader, NEW p \in Path, EditorLookup(r, p)
         PROVE  TypeOK'
    <2>1. since' \in [Reader -> [Path -> SUBSET ChangeSetId]]
      BY <1>16 DEF EditorLookup, Committed
    <2>2. /\ got' \in [Reader -> [Path -> SUBSET MaybeContent]]
          /\ seeking' \in [ChangeSetId \cup Reader -> SUBSET Path]
      <3>1. \/ got' = [got EXCEPT ![r][p] = {overlay[p]}] /\ seeking' = seeking
            \/ seeking' = [seeking EXCEPT ![r] = {p}] /\ got' = got
        BY <1>16 DEF EditorLookup
      <3>2. /\ got \in [Reader -> [Path -> SUBSET MaybeContent]]
            /\ seeking \in [ChangeSetId \cup Reader -> SUBSET Path]
            /\ {overlay[p]} \in SUBSET MaybeContent
        OBVIOUS
      <3>3. [seeking EXCEPT ![r] = {p}] \in [ChangeSetId \cup Reader -> SUBSET Path]
        BY <3>2
      <3>4. [got EXCEPT ![r][p] = {overlay[p]}] \in
              [Reader -> [Path -> SUBSET MaybeContent]]
        BY <3>2
      <3> QED
        BY <3>1, <3>2, <3>3, <3>4
    <2> QED
      BY <1>16, <2>1, <2>2 DEF EditorLookup
  <1>17. ASSUME NEW r \in Reader, NEW p \in Path, EditorReadSource(r, p)
         PROVE  TypeOK'
    BY <1>17 DEF EditorReadSource
  <1> QED
    BY <1>1, <1>2, <1>3, <1>4, <1>5, <1>6, <1>7, <1>8, <1>9, <1>10, <1>11,
       <1>12, <1>13, <1>14, <1>15, <1>16, <1>17 DEF Next, ChangeSetStep

LEMMA TypeInit == Init => TypeOK
  <1>1. [edits |-> {}, torn |-> FALSE] \in Content
    BY DEF Content
  <1>2. NoFiles \in [Path -> MaybeContent]
    BY DEF NoFiles, MaybeContent
  <1> HAVE Init
  <1>3. /\ source \in [Path -> MaybeContent]
        /\ overlay \in [Path -> MaybeContent]
    BY <1>1, <1>2 DEF Init, MaybeContent
  <1>4. /\ staged \in [ChangeSetId -> [Path -> MaybeContent]]
        /\ compiled \in [ChangeSetId -> [Path -> MaybeContent]]
    BY <1>2 DEF Init
  <1> QED
    BY <1>3, <1>4, MaxOpsAssumption DEF Init, TypeOK, NoImports

(* The variables keep their types in every behaviour of the Editor and its *)
(* change sets.                                                            *)
THEOREM TypeCorrect == Spec => []TypeOK
  BY TypeInit, TypeStep, PTL DEF Spec

-----------------------------------------------------------------------------
(* What each kind of step does to the state the safety properties speak of,*)
(* so that their proofs need not look at the actions that do not matter.   *)

Bookkeeping ==
  UNCHANGED <<source, overlay, status, staged, changed, history, readers>>

(* The same for the Editor's readers, who add to what they have read.      *)
Reading ==
  /\ UNCHANGED <<source, overlay, status, staged, changed, history>>
  /\ \E r \in Reader, p \in Path : EditorLookup(r, p) \/ EditorReadSource(r, p)

FileEditStep(c, p, text) == FirstEdit(c, p, text) \/ SecondEdit(c, p, text)

LEMMA StepKinds ==
  ASSUME TypeOK, [Next]_vars
  PROVE  \/ Bookkeeping \/ Reading
         \/ \E c \in ChangeSetId :
              \/ NewChangeSet(c)
              \/ \E p \in Path, text \in Content : FileEditStep(c, p, text)
              \/ Commit(c)
              \/ Discard(c)
         \/ \E p \in Path, o \in Outsider : OutsideSave(p, o)
         \/ \E p \in Path : OutsideRemove(p)
  <1>1. ASSUME NEW c \in ChangeSetId, NEW p \in Path,
               ApplyFileEdit(c, p) \/ ApplyImportEdit(c, p)
        PROVE  \E text \in Content : FileEditStep(c, p, text)
    <2>1. CASE ApplyFileEdit(c, p)
      BY <2>1, ApplyFileEditStages DEF FirstEdit, StagesInto, FileEditStep
    <2>2. CASE ApplyImportEdit(c, p)
      BY <2>2, ApplyImportEditStages DEF FileEditStep
    <2> QED
      BY <1>1, <2>1, <2>2
  <1>2. ASSUME NEW c \in ChangeSetId, NEW p \in Path,
               LookupMisses(c, p) \/ CompileEdit(c, p) \/ CompileImports(c, p)
        PROVE  Bookkeeping
    BY <1>2 DEF LookupMisses, CompileEdit, CompileImports, Bookkeeping
  <1>3. ASSUME NEW c \in ChangeSetId,
               \/ ApplyOperation(c) \/ CompileReturns(c)
               \/ ApplyReturns(c) \/ ApplyFails(c)
        PROVE  Bookkeeping
    BY <1>3 DEF ApplyOperation, CompileReturns, ApplyReturns, ApplyFails,
                Bookkeeping
  <1>4. ASSUME NEW r \in Reader, NEW p \in Path,
               EditorLookup(r, p) \/ EditorReadSource(r, p)
        PROVE  Reading
    BY <1>4 DEF EditorLookup, EditorReadSource, Reading, history
  <1>5. CASE UNCHANGED vars
    BY <1>5 DEF vars, Bookkeeping
  <1> QED
    BY <1>1, <1>2, <1>3, <1>4, <1>5 DEF Next, ChangeSetStep

-----------------------------------------------------------------------------
(* A change set starts with nothing changed and nothing missed, only an    *)
(* open one is ever inside Apply, and a lookup has missed only a file the  *)
(* change set has no copy of.                                              *)
Lifecycle ==
  \A c \in ChangeSetId :
    /\ status[c] = "new" =>
         staged[c] = NoFiles /\ changed[c] = {} /\ missed[c] = {}
    /\ phase[c] # "idle" => status[c] = "open"
    /\ \A p \in seeking[c] :
         staged[c][p] = Absent /\ (phase[c] = "compile" \/ ReadsToApply(c, p))

LEMMA LifecycleStep == TypeOK /\ Lifecycle /\ [Next]_vars => Lifecycle'
  <1> SUFFICES ASSUME TypeOK, Lifecycle, [Next]_vars
               PROVE  Lifecycle'
    OBVIOUS
  <1> USE DEF Lifecycle, Open, Idle
  <1>0. /\ status \in [ChangeSetId -> {"new", "open", "committed", "discarded"}]
        /\ staged \in [ChangeSetId -> [Path -> MaybeContent]]
        /\ changed \in [ChangeSetId -> SUBSET Path]
        /\ phase \in [ChangeSetId -> {"idle", "compile", "edit"}]
        /\ compiled \in [ChangeSetId -> [Path -> MaybeContent]]
        /\ seeking \in [ChangeSetId \cup Reader -> SUBSET Path]
    BY DEF TypeOK
  <1>1. ASSUME NEW c \in ChangeSetId, NewChangeSet(c) \/ Discard(c)
        PROVE  Lifecycle'
    <2>1. /\ UNCHANGED <<phase, compiled, seeking, missed>>
          /\ phase[c] = "idle"
          /\ \A d \in ChangeSetId \ {c} : staged'[d] = staged[d]
          /\ \A d \in ChangeSetId \ {c} : status'[d] = status[d]
          /\ \A d \in ChangeSetId \ {c} : changed'[d] = changed[d]
          /\ status'[c] # "new"
      BY <1>0, <1>1 DEF NewChangeSet, Discard, history
    <2>2. seeking[c] = {}
      BY <1>0, <2>1 DEF ReadsToApply
    <2> QED
      BY <1>0, <2>1, <2>2 DEF ReadsToApply
  <1>2. ASSUME NEW c \in ChangeSetId, ApplyOperation(c)
        PROVE  Lifecycle'
    BY <1>0, <1>2 DEF ApplyOperation, ReadsToApply, history
  <1>3. ASSUME NEW c \in ChangeSetId,
               CompileReturns(c) \/ ApplyReturns(c) \/ ApplyFails(c)
        PROVE  Lifecycle'
    BY <1>0, <1>3 DEF CompileReturns, ApplyReturns, ApplyFails, ReadsToApply,
                      NoFiles, history
  <1>4. ASSUME NEW c \in ChangeSetId, NEW p \in Path,
               LookupMisses(c, p) \/ CompileEdit(c, p) \/ CompileImports(c, p)
        PROVE  Lifecycle'
    <2>1. UNCHANGED <<status, staged, changed, phase, missed>>
      BY <1>4 DEF LookupMisses, CompileEdit, CompileImports, history
    <2>2. /\ \A d \in ChangeSetId \ {c} : compiled'[d] = compiled[d]
          /\ \A d \in ChangeSetId \ {c} : seeking'[d] = seeking[d]
      BY <1>0, <1>4 DEF LookupMisses, CompileEdit, CompileImports
    <2>3. \A q \in seeking'[c] : /\ staged[c][q] = Absent
                                 /\ phase[c] = "compile" \/ ReadsToApply(c, q)'
      <3>1. CASE LookupMisses(c, p)
        <4>1. seeking'[c] = {p} /\ staged[c][p] = Absent /\ compiled' = compiled
          BY <1>0, <3>1 DEF LookupMisses, Held
        <4>2. phase[c] = "compile" \/ ReadsToApply(c, p)
          BY <3>1 DEF LookupMisses, ReadsToCompile, ReadsForImports
        <4> QED
          BY <2>1, <4>1, <4>2 DEF ReadsToApply
      <3>2. CASE CompileEdit(c, p) \/ CompileImports(c, p)
        BY <1>0, <3>2 DEF CompileEdit, CompileImports
      <3> QED
        BY <1>4, <3>1, <3>2
    <2> QED
      BY <2>1, <2>2, <2>3 DEF ReadsToApply
  <1>5. ASSUME NEW c \in ChangeSetId, NEW p \in Path,
               ApplyFileEdit(c, p) \/ ApplyImportEdit(c, p)
        PROVE  Lifecycle'
    <2>1. /\ UNCHANGED <<status, phase, missed>>
          /\ phase[c] = "edit"
          /\ \A d \in ChangeSetId \ {c} : staged'[d] = staged[d]
          /\ \A d \in ChangeSetId \ {c} : changed'[d] = changed[d]
          /\ \A d \in ChangeSetId \ {c} : compiled'[d] = compiled[d]
          /\ \A d \in ChangeSetId \ {c} : seeking'[d] = seeking[d]
      BY <1>0, <1>5
         DEF ApplyFileEdit, ApplyImportEdit, ReadsToApply, history
    <2>2. seeking'[c] = {}
      BY <1>0, <1>5, <2>1 DEF ApplyFileEdit, ApplyImportEdit, ReadsToApply, NoFiles
    <2> QED
      BY <1>0, <2>1, <2>2 DEF ReadsToApply
  <1>6. ASSUME NEW c \in ChangeSetId, Commit(c)
        PROVE  Lifecycle'
    BY <1>0, <1>6 DEF Commit, ReadsToApply
  <1>7. ASSUME NEW p \in Path,
               OutsideRemove(p) \/ \E o \in Outsider : OutsideSave(p, o)
        PROVE  Lifecycle'
    BY <1>7 DEF OutsideSave, OutsideRemove, ReadsToApply, history
  <1>8. ASSUME NEW r \in Reader, NEW p \in Path,
               EditorLookup(r, p) \/ EditorReadSource(r, p)
        PROVE  Lifecycle'
    <2>1. /\ UNCHANGED <<status, staged, changed, phase, compiled, missed>>
          /\ \A c \in ChangeSetId : seeking'[c] = seeking[c]
      BY <1>0, <1>8, AuthorsAssumption
         DEF EditorLookup, EditorReadSource, history
    <2> QED
      BY <2>1 DEF ReadsToApply
  <1>9. CASE UNCHANGED vars
    BY <1>9 DEF vars, ReadsToApply, history
  <1> QED
    BY <1>1, <1>2, <1>3, <1>4, <1>5, <1>6, <1>7, <1>8, <1>9
       DEF Next, ChangeSetStep

-----------------------------------------------------------------------------
(* ChangedIsStaged, given that a new change set is blank.                  *)
LEMMA ChangedIsStagedStep ==
  TypeOK /\ Lifecycle /\ ChangedIsStaged /\ [Next]_vars => ChangedIsStaged'
  <1> SUFFICES ASSUME TypeOK, Lifecycle, ChangedIsStaged, [Next]_vars
               PROVE  ChangedIsStaged'
    OBVIOUS
  <1> USE DEF TypeOK, Lifecycle, ChangedIsStaged, Open, Edits
  <1>1. CASE Bookkeeping \/ Reading
    BY <1>1 DEF Bookkeeping, Reading
  <1>2. ASSUME NEW c \in ChangeSetId, NewChangeSet(c)
        PROVE  ChangedIsStaged'
    BY <1>2 DEF NewChangeSet
  <1>3. ASSUME NEW c \in ChangeSetId, NEW p \in Path, NEW text \in Content,
               FileEditStep(c, p, text)
        PROVE  ChangedIsStaged'
    <2>1. /\ staged' = [staged EXCEPT ![c][p] = text]
          /\ changed' = [changed EXCEPT ![c] = @ \cup {p}]
          /\ status' = status
          /\ c \in text.edits
      BY <1>3 DEF FileEditStep, FirstEdit, SecondEdit, StagesInto
    <2>2. text # Absent
      BY AbsentIsNoContent
    <2> QED
      BY <2>1, <2>2
  <1>4. ASSUME NEW c \in ChangeSetId, Commit(c)
        PROVE  ChangedIsStaged'
    BY <1>4 DEF Commit
  <1>5. ASSUME NEW c \in ChangeSetId, Discard(c)
        PROVE  ChangedIsStaged'
    BY <1>5 DEF Discard
  <1>6. ASSUME NEW p \in Path,
               OutsideRemove(p) \/ \E o \in Outsider : OutsideSave(p, o)
        PROVE  ChangedIsStaged'
    BY <1>6 DEF OutsideSave, OutsideRemove
  <1> QED
    BY <1>1, <1>2, <1>3, <1>4, <1>5, <1>6, StepKinds

(* Commit never publishes an empty copy: each path of a change set's       *)
(* changed files has a text with the change set's own edit, even after an  *)
(* Apply that failed half way.                                             *)
THEOREM ChangedIsAlwaysStaged == Spec => []ChangedIsStaged
  <1>1. Init => Lifecycle /\ ChangedIsStaged
    BY DEF Init, Lifecycle, ChangedIsStaged, Open
  <1>2. QED
    BY <1>1, LifecycleStep, ChangedIsStagedStep, TypeCorrect, PTL DEF Spec
-----------------------------------------------------------------------------
(* NoDirtyRead speaks of views; what is inductive is where edits may be in *)
(* each of the three places a view reads from.                             *)
CleanPlaces ==
  \A p \in Path :
    /\ Edits(source[p]) \subseteq Outsider
    /\ Edits(overlay[p]) \subseteq Outsider \cup Committed
    /\ \A c \in ChangeSetId :
         Open(c) => Edits(staged[c][p]) \subseteq Outsider \cup Committed \cup {c}

CleanReads ==
  \A r \in Reader, p \in Path : \A text \in got[r][p] :
    Edits(text) \subseteq Outsider \cup Committed

LEMMA CleanPlacesAreClean == TypeOK /\ CleanPlaces /\ CleanReads => NoDirtyRead
  BY DEF TypeOK, CleanPlaces, CleanReads, NoDirtyRead, EditorView, View, Edits

LEMMA CleanPlacesStep ==
  TypeOK /\ Lifecycle /\ ChangedIsStaged /\ CleanPlaces /\ [Next]_vars
    => CleanPlaces'
  <1> SUFFICES ASSUME TypeOK, Lifecycle, ChangedIsStaged, CleanPlaces,
                      [Next]_vars
               PROVE  CleanPlaces'
    OBVIOUS
  <1> USE DEF TypeOK, CleanPlaces, Open, Committed
  <1>1. CASE Bookkeeping \/ Reading
    BY <1>1 DEF Bookkeeping, Reading, Edits
  <1>2. ASSUME NEW c \in ChangeSetId, NewChangeSet(c)
        PROVE  CleanPlaces'
    BY <1>2 DEF NewChangeSet, Edits
  <1>3. ASSUME NEW c \in ChangeSetId, NEW p \in Path, NEW text \in Content,
               FileEditStep(c, p, text)
        PROVE  CleanPlaces'
    <2>1. Open(c)
      BY <1>3 DEF FileEditStep, FirstEdit, SecondEdit, StagesInto, Lifecycle
    <2>2. Edits(text) \subseteq Outsider \cup Committed \cup {c}
      <3>1. CASE FirstEdit(c, p, text)
        <4>1. /\ TextRead(c, p) \in {source[p], staged[c][p], overlay[p]}
              /\ TextRead(c, p) # Absent
          BY <3>1 DEF FirstEdit, ReadReturns, TextRead, Held
        <4>2. Edits(TextRead(c, p)) \subseteq Outsider \cup Committed \cup {c}
          BY <2>1, <4>1
        <4> QED
          BY <3>1, <4>1, <4>2, AbsentIsNoContent DEF FirstEdit, Edits
      <3>2. CASE SecondEdit(c, p, text)
        <4>1. Edits(staged[c][p]) \subseteq Outsider \cup Committed \cup {c}
          BY <2>1
        <4> QED
          BY <3>2, <4>1, AbsentIsNoContent DEF SecondEdit, Edits
      <3> QED
        BY <1>3, <3>1, <3>2 DEF FileEditStep
    <2>3. /\ UNCHANGED <<source, overlay, status>>
          /\ staged' = [staged EXCEPT ![c][p] = text]
      BY <1>3 DEF FileEditStep, FirstEdit, SecondEdit, StagesInto
    <2> QED
      BY <2>2, <2>3 DEF Edits
  <1>4. ASSUME NEW c \in ChangeSetId, Commit(c)
        PROVE  CleanPlaces'
    BY <1>4 DEF Commit, ChangedIsStaged, Edits
  <1>5. ASSUME NEW c \in ChangeSetId, Discard(c)
        PROVE  CleanPlaces'
    BY <1>5 DEF Discard, Edits
  <1>6. ASSUME NEW p \in Path, OutsideRemove(p)
        PROVE  CleanPlaces'
    BY <1>6 DEF OutsideRemove, Edits
  <1>7. ASSUME NEW p \in Path, NEW o \in Outsider, OutsideSave(p, o)
        PROVE  CleanPlaces'
    <2>1. Edits(source'[p]) = Edits(source[p]) \cup {o}
      <3> DEFINE before == Edits(source[p])
      <3>1. source'[p] = [edits |-> before \cup {o}, torn |-> FALSE]
        BY <1>7 DEF OutsideSave, Edits
      <3>2. before \in SUBSET Author
        BY DEF Content, Author, Edits, MaybeContent
      <3> HIDE DEF before
      <3>3. source'[p] \in Content /\ source'[p].edits = before \cup {o}
        BY <3>1, <3>2 DEF Content, Author
      <3>4. source'[p] # Absent
        BY <3>3, AbsentIsNoContent
      <3>5. Edits(source'[p]) = before \cup {o}
        BY <3>3, <3>4 DEF Edits
      <3> QED
        BY <3>5 DEF before
    <2> QED
      BY <1>7, <2>1 DEF OutsideSave, Edits
  <1> QED
    BY <1>1, <1>2, <1>3, <1>4, <1>5, <1>6, <1>7, StepKinds

(* What the readers have, and when they began to read it, changes only     *)
(* when they read; and what is committed stays committed.                  *)
LEMMA ReaderSteps ==
  ASSUME TypeOK, [Next]_vars
  PROVE  /\ Committed \subseteq Committed'
         /\ UNCHANGED readers \/ Reading
  <1> USE DEF TypeOK, Committed
  <1>1. CASE Bookkeeping \/ Reading
    BY <1>1 DEF Bookkeeping, Reading
  <1>2. ASSUME NEW c \in ChangeSetId,
               NewChangeSet(c) \/ Commit(c) \/ Discard(c)
        PROVE  Committed \subseteq Committed' /\ UNCHANGED readers
    BY <1>2 DEF NewChangeSet, Commit, Discard, Open
  <1>3. ASSUME NEW c \in ChangeSetId, NEW p \in Path, NEW text \in Content,
               FileEditStep(c, p, text)
        PROVE  Committed \subseteq Committed' /\ UNCHANGED readers
    BY <1>3 DEF FileEditStep, FirstEdit, SecondEdit, StagesInto
  <1>4. ASSUME NEW p \in Path,
               OutsideRemove(p) \/ \E o \in Outsider : OutsideSave(p, o)
        PROVE  Committed \subseteq Committed' /\ UNCHANGED readers
    BY <1>4 DEF OutsideSave, OutsideRemove
  <1> QED
    BY <1>1, <1>2, <1>3, <1>4, StepKinds

LEMMA CleanReadsStep ==
  TypeOK /\ CleanPlaces /\ CleanReads /\ [Next]_vars => CleanReads'
  <1> SUFFICES ASSUME TypeOK, CleanPlaces, CleanReads, [Next]_vars
               PROVE  CleanReads'
    OBVIOUS
  <1>1. Committed \subseteq Committed' /\ (UNCHANGED readers \/ Reading)
    BY ReaderSteps
  <1>2. CASE UNCHANGED readers
    BY <1>1, <1>2 DEF CleanReads, readers, Edits
  <1>3. CASE Reading
    <2>1. PICK r \in Reader, p \in Path :
            EditorLookup(r, p) \/ EditorReadSource(r, p)
      BY <1>3 DEF Reading
    <2>2. \/ got' = got
          \/ got' = [got EXCEPT ![r][p] = {overlay[p]}]
          \/ got' = [got EXCEPT ![r][p] = {source[p]}]
      BY <2>1 DEF EditorLookup, EditorReadSource
    <2>3. got \in [Reader -> [Path -> SUBSET MaybeContent]]
      BY DEF TypeOK
    <2>4. \A q \in Reader, o \in Path : \A text \in got'[q][o] :
            text \in got[q][o] \/ text \in {overlay[o], source[o]}
      BY <2>2, <2>3
    <2> QED
      BY <1>1, <2>4 DEF CleanReads, CleanPlaces, Edits
  <1> QED
    BY <1>1, <1>2, <1>3

(* No reader ever sees an edit of a change set that has not committed.     *)
THEOREM NoDirtyReads == Spec => []NoDirtyRead
  <1>1. Init => CleanPlaces /\ CleanReads
    <2>1. [edits |-> {}, torn |-> FALSE] \in Content
      BY DEF Content
    <2>2. [edits |-> {}, torn |-> FALSE] # Absent
      BY <2>1, AbsentIsNoContent
    <2>3. Edits(Absent) = {} /\ Edits([edits |-> {}, torn |-> FALSE]) = {}
      BY <2>2 DEF Edits
    <2> HAVE Init
    <2>4. \A p \in Path : Edits(source[p]) = {}
      BY <2>3 DEF Init
    <2> QED
      BY <2>3, <2>4 DEF Init, CleanPlaces, CleanReads, NoFiles, Open
  <1>2. Init => Lifecycle
    BY DEF Init, Lifecycle
  <1>3. QED
    BY <1>1, <1>2, CleanPlacesStep, CleanReadsStep, CleanPlacesAreClean,
       LifecycleStep, TypeCorrect, ChangedIsAlwaysStaged, PTL DEF Spec

-----------------------------------------------------------------------------
(* LostOnlyToOverlap needs to know what an open change set holds: of a     *)
(* file committed before it was opened it has a text with that commit's    *)
(* edit, so committing it loses nothing new.                               *)
HoldsEarlierCommits ==
  \A c \in Committed, d \in ChangeSetId :
    Open(d) /\ c \notin missed[d] =>
      \A p \in wrote[c] : c \in Edits(staged[d][p]) \/ Superseded(c, p)

LEMMA LostStep ==
  /\ TypeOK /\ Lifecycle /\ ChangedIsStaged
  /\ LostOnlyToOverlap /\ HoldsEarlierCommits
  /\ [Next]_vars
  => LostOnlyToOverlap' /\ HoldsEarlierCommits'
  <1> SUFFICES ASSUME TypeOK, Lifecycle, ChangedIsStaged, LostOnlyToOverlap,
                      HoldsEarlierCommits, [Next]_vars
               PROVE  LostOnlyToOverlap' /\ HoldsEarlierCommits'
    OBVIOUS
  <1> USE DEF TypeOK, Open, Committed, LostOnlyToOverlap, HoldsEarlierCommits,
              Superseded, history
  <1>1. CASE Bookkeeping \/ Reading
    BY <1>1 DEF Bookkeeping, Reading, Edits
  <1>2. ASSUME NEW c \in ChangeSetId, NewChangeSet(c)
        PROVE  LostOnlyToOverlap' /\ HoldsEarlierCommits'
    BY <1>2 DEF NewChangeSet, Edits
  <1>3. ASSUME NEW c \in ChangeSetId, NEW p \in Path, NEW text \in Content,
               FileEditStep(c, p, text)
        PROVE  LostOnlyToOverlap' /\ HoldsEarlierCommits'
    <2>1. Edits(staged[c][p]) \subseteq Edits(text)
      <3>1. staged[c][p] # Absent /\ FirstEdit(c, p, text) =>
              TextRead(c, p) = staged[c][p]
        BY DEF FirstEdit, TextRead, Held, Lifecycle
      <3> QED
        BY <1>3, <3>1, AbsentIsNoContent
           DEF FileEditStep, FirstEdit, SecondEdit, Edits
    <2>2. /\ UNCHANGED <<source, overlay, status, missed, wrote>>
          /\ staged' = [staged EXCEPT ![c][p] = text]
      BY <1>3 DEF FileEditStep, FirstEdit, SecondEdit, StagesInto
    <2>3. \A d \in ChangeSetId, q \in Path :
            Edits(staged[d][q]) \subseteq Edits(staged'[d][q])
      BY <2>1, <2>2 DEF Edits
    <2> QED
      BY <2>2, <2>3 DEF Edits
  <1>4. ASSUME NEW c \in ChangeSetId, Commit(c)
        PROVE  LostOnlyToOverlap' /\ HoldsEarlierCommits'
    <2>1. /\ overlay' = [p \in Path |->
                           IF p \in changed[c] THEN staged[c][p] ELSE overlay[p]]
          /\ Committed' = Committed \cup {c}
          /\ c \notin Committed
          /\ status' = [status EXCEPT ![c] = "committed"]
          /\ wrote' = [wrote EXCEPT ![c] = changed[c]]
          /\ missed'[c] = missed[c]
          /\ \A d \in ChangeSetId : Open(d) /\ d # c => missed'[d] = missed[d] \cup {c}
          /\ \A d \in ChangeSetId : missed[d] \subseteq missed'[d]
          /\ staged' = staged
      BY <1>4 DEF Commit
    <2>2. \A e \in Committed, p \in Path : Superseded(e, p) => Superseded(e, p)'
      BY <2>1
    <2>3. LostOnlyToOverlap'
      <3> SUFFICES ASSUME NEW e \in Committed', NEW p \in wrote'[e]
                   PROVE  e \in Edits(overlay'[p]) \/ Superseded(e, p)'
        BY DEF Edits
      <3>1. CASE e = c
        BY <2>1, <3>1, <1>4 DEF ChangedIsStaged, Commit
      <3>2. CASE e # c /\ p \notin changed[c]
        BY <2>1, <2>2, <3>2 DEF Edits
      <3>3. CASE e # c /\ p \in changed[c] /\ e \in missed[c]
        BY <2>1, <3>3
      <3>4. CASE e # c /\ p \in changed[c] /\ e \notin missed[c]
        BY <2>1, <2>2, <3>4, <1>4 DEF Commit, Edits
      <3> QED
        BY <3>1, <3>2, <3>3, <3>4
    <2>4. HoldsEarlierCommits'
      <3> SUFFICES ASSUME NEW e \in Committed', NEW d \in ChangeSetId,
                          Open(d)', e \notin missed'[d], NEW p \in wrote'[e]
                   PROVE  e \in Edits(staged'[d][p]) \/ Superseded(e, p)'
        BY DEF Edits
      <3>1. d # c /\ Open(d) /\ e \notin missed[d] /\ e # c
        BY <2>1
      <3> QED
        BY <2>1, <2>2, <3>1 DEF Edits
    <2> QED
      BY <2>3, <2>4
  <1>5. ASSUME NEW c \in ChangeSetId, Discard(c)
        PROVE  LostOnlyToOverlap' /\ HoldsEarlierCommits'
    BY <1>5 DEF Discard, Edits
  <1>6. ASSUME NEW p \in Path,
               OutsideRemove(p) \/ \E o \in Outsider : OutsideSave(p, o)
        PROVE  LostOnlyToOverlap' /\ HoldsEarlierCommits'
    BY <1>6 DEF OutsideSave, OutsideRemove, Edits
  <1> QED
    BY <1>1, <1>2, <1>3, <1>4, <1>5, <1>6, StepKinds

(* A committed edit is only ever lost to a change set that was open at     *)
(* that commit and has committed the same file since.                      *)
THEOREM LostOnlyToOverlaps == Spec => []LostOnlyToOverlap
  <1>1. Init => LostOnlyToOverlap /\ HoldsEarlierCommits
    BY DEF Init, LostOnlyToOverlap, HoldsEarlierCommits, Committed
  <1>2. Init => Lifecycle
    BY DEF Init, Lifecycle
  <1>3. QED
    BY <1>1, <1>2, LostStep, LifecycleStep, TypeCorrect, ChangedIsAlwaysStaged,
       PTL DEF Spec
-----------------------------------------------------------------------------
(* Why a read misses only commits of its gap: a lookup misses only when no *)
(* committed change set has written the file.                              *)
PublishedStays ==
  \A c \in Committed : \A p \in wrote[c] : overlay[p] # Absent

LookupsAreSound ==
  /\ \A r \in Reader, p \in Path : since[r][p] \subseteq Committed
  /\ \A r \in Reader : \A p \in seeking[r] : \A c \in since[r][p] : p \notin wrote[c]

(* What is committed is never taken back.                                  *)
LEMMA CommitsStand ==
  ASSUME TypeOK, ChangedIsStaged, PublishedStays, [Next]_vars
  PROVE  /\ PublishedStays'
         /\ Committed \subseteq Committed'
         /\ \A c \in Committed : wrote'[c] = wrote[c] /\ missed'[c] = missed[c]
  <1> USE DEF TypeOK, Open, Committed, PublishedStays, history
  <1>1. CASE Bookkeeping \/ Reading
    BY <1>1 DEF Bookkeeping, Reading
  <1>2. ASSUME NEW c \in ChangeSetId, NewChangeSet(c) \/ Discard(c)
        PROVE  /\ PublishedStays'
               /\ Committed \subseteq Committed'
               /\ \A d \in Committed : wrote'[d] = wrote[d] /\ missed'[d] = missed[d]
    <2>1. /\ UNCHANGED <<overlay, wrote, missed>>
          /\ Committed' = Committed
      BY <1>2 DEF NewChangeSet, Discard
    <2> QED
      BY <2>1
  <1>3. ASSUME NEW c \in ChangeSetId, NEW p \in Path, NEW text \in Content,
               FileEditStep(c, p, text)
        PROVE  /\ PublishedStays'
               /\ Committed \subseteq Committed'
               /\ \A d \in Committed : wrote'[d] = wrote[d] /\ missed'[d] = missed[d]
    <2>1. UNCHANGED <<overlay, status, history>>
      BY <1>3 DEF FileEditStep, FirstEdit, SecondEdit, StagesInto
    <2> QED
      BY <2>1
  <1>4. ASSUME NEW c \in ChangeSetId, Commit(c)
        PROVE  /\ PublishedStays'
               /\ Committed \subseteq Committed'
               /\ \A d \in Committed : wrote'[d] = wrote[d] /\ missed'[d] = missed[d]
    <2>1. /\ overlay' = [p \in Path |->
                           IF p \in changed[c] THEN staged[c][p] ELSE overlay[p]]
          /\ status' = [status EXCEPT ![c] = "committed"]
          /\ wrote' = [wrote EXCEPT ![c] = changed[c]]
          /\ c \notin Committed
          /\ \A d \in Committed : missed'[d] = missed[d]
      BY <1>4 DEF Commit
    <2>2. \A p \in changed[c] : staged[c][p] # Absent
      BY <1>4 DEF Commit, ChangedIsStaged
    <2> QED
      BY <2>1, <2>2
  <1>5. ASSUME NEW p \in Path,
               OutsideRemove(p) \/ \E o \in Outsider : OutsideSave(p, o)
        PROVE  /\ PublishedStays'
               /\ Committed \subseteq Committed'
               /\ \A d \in Committed : wrote'[d] = wrote[d] /\ missed'[d] = missed[d]
    BY <1>5 DEF OutsideSave, OutsideRemove
  <1> QED
    BY <1>1, <1>2, <1>3, <1>4, <1>5, StepKinds

(* Only readers move the lookups of readers.                               *)
LEMMA ReadersSeek ==
  ASSUME TypeOK, [Next]_vars, ~Reading, NEW r \in Reader
  PROVE  seeking'[r] = seeking[r]
  <1> USE AuthorsAssumption DEF TypeOK
  <1>1. ASSUME NEW c \in ChangeSetId, ChangeSetStep(c)
        PROVE  seeking'[r] = seeking[r]
    <2>1. \/ seeking' = seeking
          \/ \E new \in SUBSET Path : seeking' = [seeking EXCEPT ![c] = new]
      BY <1>1 DEF ChangeSetStep, NewChangeSet, ApplyOperation, LookupMisses,
                  CompileEdit, CompileImports, CompileReturns, ApplyFileEdit,
                  ApplyImportEdit, ApplyReturns, ApplyFails, Commit, Discard
    <2>2. c # r
      OBVIOUS
    <2> QED
      BY <2>1, <2>2
  <1>2. ASSUME NEW q \in Reader, NEW p \in Path,
               EditorLookup(q, p) \/ EditorReadSource(q, p)
        PROVE  FALSE
    BY <1>2 DEF Reading, EditorLookup, EditorReadSource, history
  <1>3. ASSUME NEW p \in Path,
               OutsideRemove(p) \/ \E o \in Outsider : OutsideSave(p, o)
        PROVE  seeking' = seeking
    BY <1>3 DEF OutsideSave, OutsideRemove
  <1>4. CASE UNCHANGED vars
    BY <1>4 DEF vars
  <1> QED
    BY <1>1, <1>2, <1>3, <1>4 DEF Next

LEMMA ReadsStep ==
  /\ TypeOK /\ ChangedIsStaged /\ LostOnlyToOverlap
  /\ PublishedStays /\ LookupsAreSound /\ ReadsMissOnlyTheGap
  /\ [Next]_vars
  => LookupsAreSound' /\ ReadsMissOnlyTheGap'
  <1> SUFFICES ASSUME TypeOK, ChangedIsStaged, LostOnlyToOverlap, PublishedStays,
                      LookupsAreSound, ReadsMissOnlyTheGap, [Next]_vars
               PROVE  LookupsAreSound' /\ ReadsMissOnlyTheGap'
    OBVIOUS
  <1>1. /\ Committed \subseteq Committed'
        /\ \A c \in Committed : wrote'[c] = wrote[c] /\ missed'[c] = missed[c]
    BY CommitsStand
  <1>2. \A c \in Committed, p \in Path : Superseded(c, p) => Superseded(c, p)'
    BY <1>1 DEF Superseded
  <1>3. CASE Reading
    <2>1. PICK r \in Reader, p \in Path :
            EditorLookup(r, p) \/ EditorReadSource(r, p)
      BY <1>3 DEF Reading
    <2>2. UNCHANGED <<source, overlay, status, missed, wrote>>
      BY <1>3 DEF Reading, history
    <2>3. /\ got \in [Reader -> [Path -> SUBSET MaybeContent]]
          /\ since \in [Reader -> [Path -> SUBSET ChangeSetId]]
          /\ seeking \in [ChangeSetId \cup Reader -> SUBSET Path]
          /\ seeking[r] \subseteq Path
      BY DEF TypeOK
    <2>4. Committed' = Committed
      BY <2>2 DEF Committed
    <2>5. CASE EditorLookup(r, p) /\ overlay[p] # Absent
      <3>1. /\ since' = [since EXCEPT ![r][p] = Committed]
            /\ got' = [got EXCEPT ![r][p] = {overlay[p]}]
            /\ seeking' = seeking /\ seeking[r] = {}
        BY <2>5 DEF EditorLookup
      <3>2. LookupsAreSound'
        BY <2>2, <2>3, <2>4, <3>1 DEF LookupsAreSound
      <3>3. \A c \in Committed :
              p \in wrote[c] => c \in Edits(overlay[p]) \/ Superseded(c, p)
        BY DEF LostOnlyToOverlap
      <3>4. ReadsMissOnlyTheGap'
        <4> SUFFICES ASSUME NEW q \in Reader, NEW o \in Path,
                            NEW text \in got'[q][o], NEW c \in since'[q][o],
                            o \in wrote'[c]
                     PROVE  c \in Edits(text) \/ Superseded(c, o)'
          BY DEF ReadsMissOnlyTheGap, Edits
        <4>1. CASE q = r /\ o = p
          BY <1>2, <2>2, <2>3, <3>1, <3>3, <4>1
        <4>2. CASE ~(q = r /\ o = p)
          <5>1. got'[q][o] = got[q][o] /\ since'[q][o] = since[q][o]
            BY <2>3, <3>1, <4>2
          <5> QED
            BY <1>2, <2>2, <5>1 DEF ReadsMissOnlyTheGap, LookupsAreSound
        <4> QED
          BY <4>1, <4>2
      <3> QED
        BY <3>2, <3>4
    <2>6. CASE EditorLookup(r, p) /\ overlay[p] = Absent
      <3>1. /\ since' = [since EXCEPT ![r][p] = Committed]
            /\ seeking' = [seeking EXCEPT ![r] = {p}]
            /\ got' = got /\ got[r][p] = {}
        BY <2>6 DEF EditorLookup
      <3>2. \A c \in Committed : p \notin wrote[c]
        BY <2>6 DEF PublishedStays
      <3>3. LookupsAreSound'
        BY <2>2, <2>3, <2>4, <3>1, <3>2 DEF LookupsAreSound
      <3>4. ReadsMissOnlyTheGap'
        <4> SUFFICES ASSUME NEW q \in Reader, NEW o \in Path,
                            NEW text \in got[q][o], NEW c \in since'[q][o],
                            o \in wrote[c]
                     PROVE  c \in Edits(text) \/ Superseded(c, o)'
          BY <2>2, <3>1 DEF ReadsMissOnlyTheGap, Edits
        <4>1. ~(q = r /\ o = p)
          BY <3>1
        <4>2. since'[q][o] = since[q][o]
          BY <2>3, <3>1, <4>1
        <4> QED
          BY <1>2, <4>2 DEF ReadsMissOnlyTheGap, LookupsAreSound
      <3> QED
        BY <3>3, <3>4
    <2>7. CASE EditorReadSource(r, p)
      <3>1. /\ since' = since
            /\ seeking' = [seeking EXCEPT ![r] = {}]
            /\ got' = [got EXCEPT ![r][p] = {source[p]}]
            /\ seeking[r] = {p}
        BY <2>7 DEF EditorReadSource
      <3>2. LookupsAreSound'
        BY <2>2, <2>3, <2>4, <3>1 DEF LookupsAreSound
      <3>3. \A c \in since[r][p] : p \notin wrote[c]
        BY <3>1 DEF LookupsAreSound
      <3>4. ReadsMissOnlyTheGap'
        <4> SUFFICES ASSUME NEW q \in Reader, NEW o \in Path,
                            NEW text \in got'[q][o], NEW c \in since[q][o],
                            o \in wrote[c]
                     PROVE  c \in Edits(text) \/ Superseded(c, o)'
          BY <2>2, <3>1 DEF ReadsMissOnlyTheGap, Edits
        <4>1. ~(q = r /\ o = p)
          BY <3>3
        <4>2. got'[q][o] = got[q][o]
          BY <2>3, <3>1, <4>1
        <4> QED
          BY <1>2, <4>2 DEF ReadsMissOnlyTheGap, LookupsAreSound
      <3> QED
        BY <3>2, <3>4
    <2> QED
      BY <2>1, <2>5, <2>6, <2>7
  <1>4. CASE ~Reading
    <2>1. got' = got /\ since' = since
      BY <1>4, ReaderSteps DEF readers
    <2>2. \A r \in Reader : seeking'[r] = seeking[r]
      BY <1>4, ReadersSeek
    <2>3. LookupsAreSound'
      BY <1>1, <2>1, <2>2 DEF LookupsAreSound, TypeOK
    <2>4. ReadsMissOnlyTheGap'
      BY <1>1, <1>2, <2>1 DEF ReadsMissOnlyTheGap, LookupsAreSound, Edits
    <2> QED
      BY <2>3, <2>4
  <1> QED
    BY <1>3, <1>4

(* A read of the Editor returns every edit committed to the file before    *)
(* the read began, unless a later commit has replaced it, although no lock *)
(* is held from its lookup to its read of the disk.                        *)
THEOREM ReadsMissOnlyTheGaps == Spec => []ReadsMissOnlyTheGap
  <1>1. Init => PublishedStays /\ LookupsAreSound /\ ReadsMissOnlyTheGap
    BY DEF Init, PublishedStays, LookupsAreSound, ReadsMissOnlyTheGap, Committed
  <1>2. TypeOK /\ ChangedIsStaged /\ PublishedStays /\ [Next]_vars
          => PublishedStays'
    BY CommitsStand
  <1>3. QED
    BY <1>1, <1>2, ReadsStep, LostOnlyToOverlaps, TypeCorrect,
       ChangedIsAlwaysStaged, PTL DEF Spec

-----------------------------------------------------------------------------
(* The pending FileEdit of a file the change set holds was computed from   *)
(* the text it still holds.                                                *)
PinnedBase ==
  \A c \in ChangeSetId, p \in Path :
    /\ phase[c] = "idle" => compiled[c][p] = Absent
    /\ compiled[c][p] # Absent /\ staged[c][p] # Absent
         => compiled[c][p] = staged[c][p]

LEMMA PinnedBaseStep == TypeOK /\ Lifecycle /\ PinnedBase /\ [Next]_vars => PinnedBase'
  <1> SUFFICES ASSUME TypeOK, Lifecycle, PinnedBase, [Next]_vars
               PROVE  PinnedBase'
    OBVIOUS
  <1> USE DEF TypeOK, Lifecycle, PinnedBase, history, Open, Idle, NoFiles
  <1>1. ASSUME NEW c \in ChangeSetId,
               NewChangeSet(c) \/ Discard(c) \/ Commit(c)
        PROVE  PinnedBase'
    <2>1. /\ phase[c] = "idle"
          /\ phase' = phase /\ compiled' = compiled
          /\ \A d \in ChangeSetId : d # c => staged'[d] = staged[d]
      BY <1>1 DEF NewChangeSet, Discard, Commit
    <2> SUFFICES ASSUME NEW d \in ChangeSetId, NEW p \in Path
                 PROVE  /\ phase'[d] = "idle" => compiled'[d][p] = Absent
                        /\ compiled'[d][p] # Absent /\ staged'[d][p] # Absent
                             => compiled'[d][p] = staged'[d][p]
      OBVIOUS
    <2>2. /\ phase[d] = "idle" => compiled[d][p] = Absent
          /\ compiled[d][p] # Absent /\ staged[d][p] # Absent
               => compiled[d][p] = staged[d][p]
      OBVIOUS
    <2>3. CASE d = c
      BY <2>1, <2>2, <2>3
    <2>4. CASE d # c
      BY <2>1, <2>2, <2>4
    <2> QED
      BY <2>3, <2>4
  <1>2. ASSUME NEW c \in ChangeSetId,
               \/ ApplyOperation(c) \/ CompileReturns(c)
               \/ ApplyReturns(c) \/ ApplyFails(c)
        PROVE  PinnedBase'
    BY <1>2 DEF ApplyOperation, CompileReturns, ApplyReturns, ApplyFails
  <1>3. ASSUME NEW c \in ChangeSetId, NEW p \in Path, CompileEdit(c, p)
        PROVE  PinnedBase'
    BY <1>3 DEF CompileEdit, ReadsToCompile, TextRead, Held
  <1>4. ASSUME NEW c \in ChangeSetId, NEW p \in Path, ApplyFileEdit(c, p)
        PROVE  PinnedBase'
    BY <1>4 DEF ApplyFileEdit, ReadsToApply
  <1>5. ASSUME NEW c \in ChangeSetId, NEW p \in Path, ApplyImportEdit(c, p)
        PROVE  PinnedBase'
    <2>1. PICK text \in Content : SecondEdit(c, p, text)
      BY <1>5, ApplyImportEditStages
    <2> QED
      BY <1>5, <2>1 DEF ApplyImportEdit, SecondEdit, StagesInto
  <1>6. ASSUME NEW c \in ChangeSetId, NEW p \in Path,
               LookupMisses(c, p) \/ CompileImports(c, p)
        PROVE  PinnedBase'
    BY <1>6 DEF LookupMisses, CompileImports
  <1>7. ASSUME NEW p \in Path,
               OutsideRemove(p) \/ \E o \in Outsider : OutsideSave(p, o)
        PROVE  PinnedBase'
    BY <1>7 DEF OutsideSave, OutsideRemove
  <1>8. ASSUME NEW r \in Reader, NEW p \in Path,
               EditorLookup(r, p) \/ EditorReadSource(r, p)
        PROVE  PinnedBase'
    BY <1>8 DEF EditorLookup, EditorReadSource
  <1>9. CASE UNCHANGED vars
    BY <1>9 DEF vars
  <1> QED
    BY <1>1, <1>2, <1>3, <1>4, <1>5, <1>6, <1>7, <1>8, <1>9
       DEF Next, ChangeSetStep

LEMMA InitPinned == Init => Lifecycle /\ PinnedBase
  BY DEF Init, Lifecycle, PinnedBase, NoFiles

TornForAReason(c, p) ==
  staged[c][p] = Absent \/ (compiled[c] = NoFiles /\ imports[c][p] # "none")

LEMMA TornStep ==
  ASSUME TypeOK, Lifecycle, PinnedBase, [Next]_vars,
         NEW c \in ChangeSetId, NEW p \in Path,
         Torn(staged'[c][p]), ~Torn(View(c, p))
  PROVE  TornForAReason(c, p)
  <1> USE DEF TypeOK, Lifecycle, Torn, NoFiles, TornForAReason
  <1>1. CASE Bookkeeping \/ Reading
    BY <1>1 DEF Bookkeeping, Reading, View
  <1>2. ASSUME NEW d \in ChangeSetId, NewChangeSet(d)
        PROVE  TornForAReason(c, p)
    BY <1>2 DEF NewChangeSet, View
  <1>3. ASSUME NEW d \in ChangeSetId, NEW q \in Path, NEW text \in Content,
               FileEditStep(d, q, text)
        PROVE  TornForAReason(c, p)
    <2>1. CASE ~(d = c /\ q = p)
      <3>1. staged'[c][p] = staged[c][p]
        BY <1>3, <2>1 DEF FileEditStep, FirstEdit, SecondEdit, StagesInto
      <3> QED
        BY <3>1 DEF View
    <2>2. CASE d = c /\ q = p /\ FirstEdit(c, p, text) /\ staged[c][p] # Absent
      <3>1. TextRead(c, p) = staged[c][p] /\ View(c, p) = staged[c][p]
        BY <2>2 DEF TextRead, Held, View
      <3>2. staged'[c][p] = text
        BY <2>2 DEF FirstEdit, StagesInto
      <3>3. text.torn /\ ~staged[c][p].torn
        BY <2>2, <3>1, <3>2
      <3>4. staged[c][p] # compiled[c][p]
        BY <2>2, <3>1, <3>3 DEF FirstEdit
      <3>5. compiled[c][p] = Absent
        BY <2>2, <3>4 DEF PinnedBase
      <3> QED
        BY <2>2, <3>1, <3>2, <3>3, <3>5 DEF FirstEdit
    <2>3. CASE d = c /\ q = p /\ SecondEdit(c, p, text)
      BY <2>3 DEF SecondEdit
    <2> QED
      BY <1>3, <2>1, <2>2, <2>3 DEF FileEditStep
  <1>4. ASSUME NEW d \in ChangeSetId, Commit(d) \/ Discard(d)
        PROVE  TornForAReason(c, p)
    <2>1. CASE Commit(d)
      <3>1. staged' = staged
        BY <2>1 DEF Commit
      <3> QED
        BY <3>1 DEF View
    <2>2. CASE Discard(d)
      <3>1. staged' = [staged EXCEPT ![d] = NoFiles]
        BY <2>2 DEF Discard
      <3>2. CASE c = d
        BY <3>1, <3>2
      <3>3. CASE c # d
        BY <3>1, <3>3 DEF View
      <3> QED
        BY <3>2, <3>3
    <2> QED
      BY <1>4, <2>1, <2>2
  <1>5. ASSUME NEW q \in Path,
               OutsideRemove(q) \/ \E o \in Outsider : OutsideSave(q, o)
        PROVE  TornForAReason(c, p)
    <2>1. staged'[c][p] = staged[c][p]
      BY <1>5 DEF OutsideSave, OutsideRemove
    <2> QED
      BY <2>1 DEF View
  <1> QED
    BY <1>1, <1>2, <1>3, <1>4, <1>5, StepKinds

(* Apart from the second FileEdit of a move, a change set never splices an *)
(* edit into the wrong text of a file it already holds, whatever the       *)
(* others do meanwhile.                                                    *)
THEOREM TornOnlyWhenUnpinned == Spec => TornOnlyUnpinned
  <1>1. TypeOK /\ Lifecycle /\ PinnedBase /\ [Next]_vars =>
          [\A c \in ChangeSetId, p \in Path :
             Torn(staged'[c][p]) /\ ~Torn(View(c, p)) =>
               \/ staged[c][p] = Absent
               \/ compiled[c] = NoFiles /\ imports[c][p] # "none"]_vars
    BY TornStep DEF TornForAReason
  <1>2. QED
    BY <1>1, InitPinned, LifecycleStep, PinnedBaseStep, TypeCorrect, PTL
       DEF Spec, TornOnlyUnpinned

-----------------------------------------------------------------------------
(* An open change set's view changes for the three reasons stated.         *)
THEOREM ViewsChangeForAReason == Spec => ViewChangesExplained
  <1> DEFINE Explained ==
        \A c \in ChangeSetId, p \in Path :
          Open(c) /\ Open(c)' /\ View(c, p)' # View(c, p) =>
            \/ phase[c] = "edit" /\ p \in changed'[c]
            \/ /\ staged[c][p] = Absent
               /\ \E d \in Committed' \ Committed : p \in changed[d]
            \/ /\ staged[c][p] = Absent /\ overlay[p] = Absent
               /\ source'[p] # source[p]
  <1>1. TypeOK /\ [Next]_vars => Explained
    <2> SUFFICES ASSUME TypeOK, [Next]_vars
                 PROVE  Explained
      OBVIOUS
    <2> USE DEF TypeOK, Open, View, EditorView
    <2>1. CASE Bookkeeping \/ Reading
      BY <2>1 DEF Bookkeeping, Reading
    <2>2. ASSUME NEW d \in ChangeSetId, NewChangeSet(d) \/ Discard(d)
          PROVE  Explained
      BY <2>2 DEF NewChangeSet, Discard
    <2>3. ASSUME NEW d \in ChangeSetId, NEW q \in Path, NEW text \in Content,
                 FileEditStep(d, q, text)
          PROVE  Explained
      <3>1. /\ phase[d] = "edit"
            /\ staged' = [staged EXCEPT ![d][q] = text]
            /\ changed' = [changed EXCEPT ![d] = @ \cup {q}]
            /\ UNCHANGED <<source, overlay, status>>
        BY <2>3 DEF FileEditStep, FirstEdit, SecondEdit, StagesInto
      <3> QED
        BY <3>1
    <2>4. ASSUME NEW d \in ChangeSetId, Commit(d)
          PROVE  Explained
      BY <2>4 DEF Commit, Committed
    <2>5. ASSUME NEW q \in Path,
                 OutsideRemove(q) \/ \E o \in Outsider : OutsideSave(q, o)
          PROVE  Explained
      BY <2>5 DEF OutsideSave, OutsideRemove
    <2> QED
      BY <2>1, <2>2, <2>3, <2>4, <2>5, StepKinds
  <1>2. TypeOK /\ [Next]_vars => [Explained]_vars
    BY <1>1
  <1>3. QED
    BY <1>2, TypeCorrect, PTL DEF Spec, ViewChangesExplained

-----------------------------------------------------------------------------
(* The refinement: every step of the Editor and its change sets is a step  *)
(* of the atomic store, or none.                                           *)
LEMMA StoreStep ==
  ASSUME TypeOK, Lifecycle, ChangedIsStaged, [Next]_vars
  PROVE  [Store!Next]_(Store!vars)
  <1> USE DEF TypeOK, Lifecycle, Open, Store!Next, Store!vars
  <1> DEFINE view == [p \in Path |-> EditorView(p)]
             mine == [c \in ChangeSetId |-> [p \in Path |->
                        IF Open(c) /\ p \in changed[c] THEN staged[c][p] ELSE Absent]]
             owned == {p \in Path : overlay[p] # Absent}
  <1>1. CASE Bookkeeping \/ Reading
    BY <1>1 DEF Bookkeeping, Reading, EditorView
  <1>2. ASSUME NEW c \in ChangeSetId, NewChangeSet(c)
        PROVE  Store!Next
    <2>1. mine' = mine
      BY <1>2 DEF NewChangeSet
    <2>2. Store!Begin(c)
      BY <1>2, <2>1 DEF NewChangeSet, Store!Begin, EditorView
    <2> QED
      BY <2>2
  <1>3. ASSUME NEW c \in ChangeSetId, NEW p \in Path, NEW text \in Content,
               FileEditStep(c, p, text)
        PROVE  Store!Next
    <2>1. text \in MaybeContent \ {Absent}
      BY AbsentIsNoContent DEF MaybeContent
    <2>2. /\ UNCHANGED <<source, overlay, status>>
          /\ staged' = [staged EXCEPT ![c][p] = text]
          /\ changed' = [changed EXCEPT ![c] = @ \cup {p}]
          /\ Open(c)
      BY <1>3 DEF FileEditStep, FirstEdit, SecondEdit, StagesInto
    <2>3. mine' = [mine EXCEPT ![c][p] = text]
      BY <2>2
    <2>4. Store!Stage(c, p)
      BY <2>1, <2>2, <2>3 DEF Store!Stage, EditorView
    <2> QED
      BY <2>4
  <1>4. ASSUME NEW c \in ChangeSetId, Commit(c)
        PROVE  Store!Next
    <2>1. \A p \in Path : mine[c][p] # Absent <=> p \in changed[c]
      BY <1>4 DEF Commit, ChangedIsStaged
    <2>2. view' = [p \in Path |-> IF mine[c][p] # Absent THEN mine[c][p] ELSE view[p]]
      BY <1>4, <2>1 DEF Commit, EditorView, ChangedIsStaged
    <2>3. mine' = [mine EXCEPT ![c] = Store!NoWrites]
      BY <1>4 DEF Commit, Store!NoWrites
    <2>4. owned' = owned \cup {p \in Path : mine[c][p] # Absent}
      BY <1>4, <2>1 DEF Commit, ChangedIsStaged
    <2>5. Store!Commit(c)
      BY <1>4, <2>2, <2>3, <2>4 DEF Commit, Store!Commit
    <2> QED
      BY <2>5
  <1>5. ASSUME NEW c \in ChangeSetId, Discard(c)
        PROVE  [Store!Next]_(Store!vars)
    <2>1. view' = view /\ owned' = owned
      BY <1>5 DEF Discard, EditorView
    <2>2. CASE Open(c)
      <3>1. mine' = [mine EXCEPT ![c] = Store!NoWrites]
        <4>1. /\ status' = [status EXCEPT ![c] = "discarded"]
              /\ staged' = [staged EXCEPT ![c] = NoFiles]
              /\ changed' = [changed EXCEPT ![c] = {}]
          BY <1>5, <2>2 DEF Discard
        <4>2. \A d \in ChangeSetId \ {c} :
                /\ Open(d)' = Open(d)
                /\ staged'[d] = staged[d] /\ changed'[d] = changed[d]
          BY <4>1
        <4>3. ~Open(c)'
          BY <4>1
        <4>4. mine'[c] = Store!NoWrites
          BY <4>3 DEF Store!NoWrites
        <4>5. \A d \in ChangeSetId \ {c} : mine'[d] = mine[d]
          BY <4>2
        <4>6. /\ mine = [d \in ChangeSetId |-> mine[d]]
              /\ mine' = [d \in ChangeSetId |-> mine'[d]]
          OBVIOUS
        <4> HIDE DEF mine
        <4> QED
          BY <4>4, <4>5, <4>6
      <3>2. Store!Discard(c)
        BY <1>5, <2>1, <2>2, <3>1 DEF Discard, Store!Discard
      <3> QED
        BY <3>2
    <2>3. CASE ~Open(c)
      <3>1. status' = status
        BY <1>5, <2>3 DEF Discard
      <3>2. mine' = mine
        BY <1>5, <2>3, <3>1 DEF Discard
      <3> QED
        BY <2>1, <3>1, <3>2
    <2> QED
      BY <2>2, <2>3
  <1>6. ASSUME NEW p \in Path,
               OutsideRemove(p) \/ \E o \in Outsider : OutsideSave(p, o)
        PROVE  [Store!Next]_(Store!vars)
    <2>1. /\ UNCHANGED <<overlay, status, staged, changed>>
          /\ \A q \in Path : q # p => source'[q] = source[q]
      BY <1>6 DEF OutsideSave, OutsideRemove
    <2>2. mine' = mine /\ owned' = owned
      BY <2>1
    <2>3. CASE overlay[p] # Absent
      <3>1. view' = view
        BY <2>1, <2>3 DEF EditorView
      <3> QED
        BY <2>1, <2>2, <3>1
    <2>4. CASE overlay[p] = Absent
      <3>1. source'[p] \in MaybeContent
        BY TypeStep
      <3>2. view' = [view EXCEPT ![p] = source'[p]]
        BY <2>1, <2>4 DEF EditorView
      <3>3. Store!Outside(p)
        BY <2>1, <2>2, <2>4, <3>1, <3>2 DEF Store!Outside
      <3> QED
        BY <3>3
    <2> QED
      BY <2>3, <2>4
  <1> QED
    BY <1>1, <1>2, <1>3, <1>4, <1>5, <1>6, StepKinds

(* Editor and change sets implement the atomic store.                      *)
THEOREM StoreImplemented == Spec => ImplementsStore
  <1>1. Init => Store!Init
    <2> HAVE Init
    <2>1. TypeOK
      BY TypeInit
    <2> QED
      BY <2>1 DEF Init, TypeOK, Store!Init, Store!NoWrites, EditorView, NoFiles, Open
  <1>2. Init => Lifecycle
    BY InitPinned
  <1>3. QED
    BY <1>1, <1>2, StoreStep, LifecycleStep, TypeCorrect, ChangedIsAlwaysStaged,
       PTL DEF Spec, ImplementsStore, Store!Spec
=============================================================================
