------------------------- MODULE GoValidationProofs -------------------------
(***************************************************************************)
(* Proofs about GoValidation, for any files, directories, import graphs,   *)
(* overlays and number of changes: the checker's recursion through the     *)
(* importer never enters a package it has not left, a verdict is true of a *)
(* workspace that could have been read, and validating again repeats it.   *)
(***************************************************************************)
EXTENDS GoValidation, SequenceTheorems, Minima

(* Reading never invents a text.                                           *)
LEMMA ViewIsLayer == TypeOK => View \in Layer
  BY DEF TypeOK, View, Layer

LEMMA NowhereIsLayer == Nowhere \in Layer
  BY DEF Nowhere, Layer

(* A file that is there has a text, and so a unit.                         *)
LEMMA UnitsAreUnits ==
  ASSUME NEW ws \in Layer
  PROVE  /\ Present(ws) \subseteq File
         /\ \A f \in Present(ws) : ws[f] \in Text
         /\ Units(ws) \subseteq Unit
         /\ \A u : ImportsOf(ws, u) \subseteq File \X Path
  <1>1. Present(ws) \subseteq File /\ \A f \in Present(ws) : ws[f] \in Text
    BY DEF Present, Layer
  <1>2. \A f \in Present(ws) : UnitOf(ws, f) \in Unit
    BY <1>1, DirOfAssumption DEF UnitOf, Text, Unit
  <1>3. \A u : ImportsOf(ws, u) \subseteq File \X Path
    BY DEF ImportsOf
  <1> QED
    BY <1>1, <1>2, <1>3 DEF Units

(* What the compiler objects to is a diagnostic of a file.                 *)
LEMMA ErrorsAreDiagnostics ==
  ASSUME NEW ws \in Layer
  PROVE  CycleErrors(ws) \subseteq Diagnostic /\ Errors(ws) \subseteq Diagnostic
  <1>1. CycleErrors(ws) \subseteq Diagnostic
    BY UnitsAreUnits DEF CycleErrors, Diagnostic
  <1>2. \A f : FileErrors(ws, f) \subseteq {"parse", "import", "undefined", "unused"}
    BY DEF FileErrors
  <1>3. \A f \in Present(ws) : {f} \X FileErrors(ws, f) \subseteq Diagnostic
    BY <1>2, UnitsAreUnits DEF Diagnostic
  <1> QED
    BY <1>1, <1>3 DEF Errors

(* A call of check starts with a well-formed frame of its unit.            *)
LEMMA OpenIsFrame ==
  ASSUME TypeOK, NEW u \in Unit
  PROVE  Open(u) \in Frame /\ Open(u).unit = u
  <1>1. ImportsOf(parsed, u) \subseteq File \X Path
    BY UnitsAreUnits DEF TypeOK
  <1> QED
    BY <1>1 DEF Open, Frame

LEMMA TopIsFrame ==
  ASSUME TypeOK, stack # <<>>
  PROVE  Len(stack) \in Nat \ {0} /\ Top \in Frame
  BY DEF TypeOK, Top

(* What an import may do to the innermost call: resolve one of its imports.*)
Resolved(frame) == frame \in Frame /\ frame.unit = Top.unit /\ Resolve(frame)

(* What an import does to the stack: it resolves in the innermost call, or *)
(* it enters a unit that is neither under check nor checked.               *)
LEMMA ImportCases ==
  ASSUME TypeOK, Import
  PROVE  \/ \E frame : Resolved(frame)
         \/ \E u \in Unit : u \notin checked \cup OnStack
                                      /\ stack' = Append(stack, Open(u))
  <1>1. Top \in Frame
    BY TopIsFrame DEF Import
  <1>2. PICK a \in Top.todo :
          \/ ImportAgain(a)
          \/ ImportOutside(a)
          \/ \E u \in Units(parsed) :
               /\ Answers(u, a[2])
               /\ ImportChecked(a, u) \/ ImportOpen(a, u) \/ ImportNew(a, u)
    BY DEF Import
  <1>3. a \in File \X Path /\ a[2] \in Path
    BY <1>1 DEF Frame
  <1>4. Units(parsed) \subseteq Unit
    BY UnitsAreUnits DEF TypeOK
  <1>5. CASE ImportAgain(a)
    <2> DEFINE frame == [Top EXCEPT !.todo = @ \ {a}]
    <2>1. frame \in Frame /\ frame.unit = Top.unit
      BY <1>1 DEF Frame
    <2> QED
      BY <1>5, <2>1 DEF ImportAgain, Resolved
  <1>6. CASE ImportOutside(a)
    <2> DEFINE frame ==
          [Top EXCEPT !.todo = @ \ {a},
             !.skipped = IF a[2] \in External /\ ~installed THEN @ \cup {a} ELSE @,
             !.failed = IF a[2] \notin External THEN @ \cup {a} ELSE @]
    <2>1. frame \in Frame /\ frame.unit = Top.unit
      BY <1>1, <1>3 DEF Frame
    <2> QED
      BY <1>6, <2>1 DEF ImportOutside, Resolved
  <1>7. ASSUME NEW u \in Units(parsed), Answers(u, a[2]),
               ImportChecked(a, u) \/ ImportOpen(a, u) \/ ImportNew(a, u)
        PROVE  \/ \E frame : Resolved(frame)
               \/ u \notin checked \cup OnStack /\ stack' = Append(stack, Open(u))
    <2>1. CASE ImportChecked(a, u)
      <3> DEFINE frame ==
            [Top EXCEPT !.todo = @ \ {a}, !.loaded = @ \cup {<<a[2], u>>}]
      <3>1. <<a[2], u>> \in Path \X Unit
        BY <1>3, <1>4
      <3>2. frame \in Frame /\ frame.unit = Top.unit
        BY <1>1, <3>1 DEF Frame
      <3> QED
        BY <2>1, <3>2 DEF ImportChecked, Resolved
    <2>2. CASE ImportOpen(a, u)
      <3> DEFINE frame ==
            [Top EXCEPT !.todo = @ \ {a}, !.skipped = @ \cup {a}]
      <3>1. frame \in Frame /\ frame.unit = Top.unit
        BY <1>1, <1>3 DEF Frame
      <3> QED
        BY <2>2, <3>1 DEF ImportOpen, Resolved
    <2>3. CASE ImportNew(a, u)
      BY <2>3 DEF ImportNew
    <2> QED
      BY <1>7, <2>1, <2>2, <2>3
  <1> QED
    BY <1>2, <1>4, <1>5, <1>6, <1>7

(* What the return of a call does: the call goes, the caller stays itself. *)
LEMMA DoneCases ==
  ASSUME TypeOK, CheckDone
  PROVE  \/ Len(stack) = 1 /\ stack' = <<>>
         \/ /\ Len(stack) > 1
            /\ \E frame \in Frame :
                 /\ frame.unit = stack[Len(stack) - 1].unit
                 /\ stack' = [SubSeq(stack, 1, Len(stack) - 1)
                                EXCEPT ![Len(stack) - 1] = frame]
  <1>1. Len(stack) \in Nat \ {0} /\ Top \in Frame
    BY TopIsFrame DEF CheckDone
  <1>2. ASSUME Len(stack) > 1
        PROVE  stack[Len(stack) - 1] \in Frame
    BY <1>1, <1>2 DEF TypeOK
  <1>3. ASSUME Len(stack) > 1, NEW a \in stack[Len(stack) - 1].todo
        PROVE  LET caller == stack[Len(stack) - 1]
                   frame == [caller EXCEPT !.todo = @ \ {a},
                                           !.loaded = @ \cup {<<a[2], Top.unit>>}]
               IN  frame \in Frame /\ frame.unit = caller.unit
    <2> DEFINE caller == stack[Len(stack) - 1]
               frame == [caller EXCEPT !.todo = @ \ {a},
                                       !.loaded = @ \cup {<<a[2], Top.unit>>}]
    <2>1. caller \in Frame
      BY <1>2, <1>3
    <2>2. <<a[2], Top.unit>> \in Path \X Unit
      BY <1>1, <1>3, <2>1 DEF Frame
    <2>3. frame \in Frame /\ frame.unit = caller.unit
      <3> HIDE DEF caller
      <3> QED
        BY <2>1, <2>2, <1>3 DEF Frame
    <2> QED
      BY <2>3
  <1> QED
    BY <1>3 DEF CheckDone

-----------------------------------------------------------------------------
(* What the steps do to the call stack, and what the property then is.     *)
Simple(s, done) ==
  /\ \A i, j \in 1..Len(s) : s[i].unit = s[j].unit => i = j
  /\ \A i \in 1..Len(s) : s[i].unit \notin done

LEMMA StackIsSimpleAlt == StackIsSimple <=> Simple(stack, checked)
  BY DEF StackIsSimple, Simple, OnStack

(* A frame that replaces one of the same unit leaves the stack simple.     *)
LEMMA ReplaceKeepsSimple ==
  ASSUME NEW s \in Seq(Frame), NEW done, Simple(s, done),
         NEW k \in 1..Len(s), NEW frame \in Frame, frame.unit = s[k].unit
  PROVE  LET t == [s EXCEPT ![k] = frame]
         IN  t \in Seq(Frame) /\ Simple(t, done)
  <1> DEFINE t == [s EXCEPT ![k] = frame]
  <1>1. t \in Seq(Frame) /\ Len(t) = Len(s)
    OBVIOUS
  <1>2. \A i \in 1..Len(s) : t[i].unit = s[i].unit
    OBVIOUS
  <1> QED
    BY <1>1, <1>2 DEF Simple

(* So does a frame of a unit that is neither on the stack nor done.        *)
LEMMA PushKeepsSimple ==
  ASSUME NEW s \in Seq(Frame), NEW done, Simple(s, done),
         NEW frame \in Frame, frame.unit \notin done,
         \A i \in 1..Len(s) : s[i].unit # frame.unit
  PROVE  Append(s, frame) \in Seq(Frame) /\ Simple(Append(s, frame), done)
  <1> DEFINE t == Append(s, frame)
  <1>1. t \in Seq(Frame) /\ Len(t) = Len(s) + 1 /\ Len(s) \in Nat
    OBVIOUS
  <1>2. /\ \A i \in 1..Len(s) : t[i] = s[i]
        /\ t[Len(s) + 1] = frame
    OBVIOUS
  <1>3. \A i \in 1..Len(t) : i \in 1..Len(s) \/ i = Len(s) + 1
    BY <1>1
  <1> HIDE DEF t
  <1> QED
    BY <1>1, <1>2, <1>3 DEF Simple, t

(* The innermost frame may go, and its unit be done, for no other frame is *)
(* of that unit.                                                           *)
LEMMA PopKeepsSimple ==
  ASSUME NEW s \in Seq(Frame), NEW done, Simple(s, done), Len(s) > 0
  PROVE  LET t == SubSeq(s, 1, Len(s) - 1)
         IN  /\ t \in Seq(Frame) /\ Len(t) = Len(s) - 1
             /\ \A i \in 1..Len(t) : t[i] = s[i]
             /\ Simple(t, done \cup {s[Len(s)].unit})
  <1> DEFINE t == SubSeq(s, 1, Len(s) - 1)
  <1>1. /\ t \in Seq(Frame) /\ Len(t) = Len(s) - 1
        /\ \A i \in 1..Len(t) : t[i] = s[i]
    <2> DEFINE n == Len(s) - 1
    <2>1. n \in Nat /\ \A i \in 1..n : s[i] \in Frame
      OBVIOUS
    <2> HIDE DEF n
    <2>2. /\ SubSeq(s, 1, n) \in Seq(Frame)
          /\ Len(SubSeq(s, 1, n)) = IF 1 <= n THEN n - 1 + 1 ELSE 0
          /\ \A i \in 1..(n - 1 + 1) : SubSeq(s, 1, n)[i] = s[1 + i - 1]
      BY <2>1, SubSeqProperties
    <2>3. /\ SubSeq(s, 1, n) \in Seq(Frame) /\ Len(SubSeq(s, 1, n)) = n
          /\ \A i \in 1..n : SubSeq(s, 1, n)[i] = s[i]
      <3>1. n - 1 + 1 = n /\ \A i \in 1..n : 1 + i - 1 = i
        BY <2>1
      <3> QED
        BY <2>1, <2>2, <3>1
    <2> QED
      BY <2>3 DEF n
  <1> HIDE DEF t
  <1>2. Len(s) \in 1..Len(s) /\ \A i \in 1..Len(t) : i \in 1..Len(s) /\ i # Len(s)
    BY <1>1
  <1>3. \A i, j \in 1..Len(t) : t[i].unit = t[j].unit => i = j
    BY <1>1, <1>2 DEF Simple
  <1>4. \A i \in 1..Len(t) : t[i].unit \notin done \cup {s[Len(s)].unit}
    BY <1>1, <1>2 DEF Simple
  <1>5. Simple(t, done \cup {s[Len(s)].unit})
    BY <1>3, <1>4 DEF Simple
  <1> QED
    BY <1>1, <1>5 DEF t

(* The stack's part of every step: it stays a simple stack of frames.      *)
StackOK == stack \in Seq(Frame) /\ Simple(stack, checked)

LEMMA EmptyStackOK == <<>> \in Seq(Frame) /\ \A done : Simple(<<>>, done)
  BY DEF Simple

LEMMA CheckNextKeepsStack ==
  ASSUME TypeOK, StackOK, CheckNext
  PROVE  StackOK'
  <1>1. PICK u \in roots : stack' = IF u \in checked THEN <<>> ELSE <<Open(u)>>
    BY DEF CheckNext
  <1>2. Open(u) \in Frame /\ Open(u).unit = u
    BY <1>1, OpenIsFrame DEF TypeOK
  <1>3. checked' = checked
    BY DEF CheckNext
  <1>4. u \notin checked => <<Open(u)>> \in Seq(Frame) /\ Simple(<<Open(u)>>, checked)
    BY <1>2 DEF Simple
  <1> QED
    BY <1>1, <1>3, <1>4, EmptyStackOK DEF StackOK

LEMMA ImportKeepsStack ==
  ASSUME TypeOK, StackOK, Import
  PROVE  StackOK'
  <1>1. checked' = checked /\ Len(stack) \in Nat \ {0}
    BY TopIsFrame DEF Import
  <1>2. CASE \E frame : Resolved(frame)
    <2>1. PICK frame : Resolved(frame)
      BY <1>2
    <2>2. frame \in Frame /\ frame.unit = stack[Len(stack)].unit
          /\ stack' = [stack EXCEPT ![Len(stack)] = frame]
      BY <2>1 DEF Resolved, Resolve, Top
    <2>3. Len(stack) \in 1..Len(stack)
      BY <1>1
    <2>4. stack' \in Seq(Frame) /\ Simple(stack', checked)
      BY <2>2, <2>3, ReplaceKeepsSimple DEF StackOK
    <2> QED
      BY <1>1, <2>4 DEF StackOK
  <1>3. CASE \E u \in Unit : u \notin checked \cup OnStack
                             /\ stack' = Append(stack, Open(u))
    <2>1. PICK u \in Unit : u \notin checked \cup OnStack
                            /\ stack' = Append(stack, Open(u))
      BY <1>3
    <2>2. Open(u) \in Frame /\ Open(u).unit = u
      BY OpenIsFrame
    <2>3. \A i \in 1..Len(stack) : stack[i].unit # u
      BY <2>1 DEF OnStack
    <2> QED
      BY <1>1, <2>1, <2>2, <2>3, PushKeepsSimple DEF StackOK
  <1> QED
    BY <1>2, <1>3, ImportCases

LEMMA CheckDoneKeepsStack ==
  ASSUME TypeOK, StackOK, CheckDone
  PROVE  StackOK'
  <1>1. checked' = checked \cup {stack[Len(stack)].unit} /\ Len(stack) \in Nat \ {0}
    BY TopIsFrame DEF CheckDone, Top
  <1>2. CASE Len(stack) = 1 /\ stack' = <<>>
    BY <1>2, EmptyStackOK DEF StackOK
  <1>3. ASSUME Len(stack) > 1, NEW frame \in Frame,
               frame.unit = stack[Len(stack) - 1].unit,
               stack' = [SubSeq(stack, 1, Len(stack) - 1) EXCEPT ![Len(stack) - 1] = frame]
        PROVE  StackOK'
    <2> DEFINE t == SubSeq(stack, 1, Len(stack) - 1)
    <2>1. /\ t \in Seq(Frame) /\ Len(t) = Len(stack) - 1
          /\ \A i \in 1..Len(t) : t[i] = stack[i]
          /\ Simple(t, checked')
      BY <1>1, PopKeepsSimple DEF StackOK
    <2> HIDE DEF t
    <2>2. Len(t) \in 1..Len(t) /\ frame.unit = t[Len(t)].unit
      BY <1>1, <1>3, <2>1
    <2>3. stack' = [t EXCEPT ![Len(t)] = frame]
      BY <1>3, <2>1 DEF t
    <2> QED
      BY <2>1, <2>2, <2>3, ReplaceKeepsSimple DEF StackOK
  <1> QED
    BY <1>2, <1>3, DoneCases

-----------------------------------------------------------------------------
(* The inductive invariant: the types and the stack.                       *)
IInv == TypeOK /\ StackIsSimple

LEMMA IInvStack == IInv => StackOK
  BY StackIsSimpleAlt DEF IInv, StackOK, TypeOK

(* Everything but the stack keeps its type.                                *)
DataOK ==
  /\ disk \in Layer /\ overlay \in Layer /\ pinned \in Layer
  /\ kinds \subseteq {"parse", "typecheck"} /\ generated \in BOOLEAN
  /\ installed \in BOOLEAN
  /\ phase \in {"idle", "list", "parse", "choose", "load", "check", "end", "done"}
  /\ pass \in 1..2
  /\ todo \subseteq File /\ chosen \subseteq File /\ selected \subseteq File
  /\ parsed \in Layer /\ broken \subseteq File
  /\ diags \subseteq Diagnostic
  /\ roots \subseteq Unit /\ checked \subseteq Unit
  /\ moved \in Nat /\ began \in Nat /\ during \subseteq Layer
  /\ verdicts \in Seq(SUBSET Diagnostic)

LEMMA DataAndStack == TypeOK <=> DataOK /\ stack \in Seq(Frame)
  BY DEF TypeOK, DataOK

(* A step that ends in well-typed data and a simple stack keeps both.      *)
LEMMA IInvParts == (DataOK' /\ StackOK') => IInv'
  BY DEF IInv, DataOK, StackOK, TypeOK, StackIsSimple, Simple, OnStack

LEMMA StackUnchanged == StackOK /\ UNCHANGED <<stack, checked>> => StackOK'
  BY DEF StackOK, Simple

LEMMA ListKeepsTypes == DataOK /\ List => DataOK'
  BY DEF DataOK, List, world, checking, history

LEMMA EndListKeepsTypes == DataOK /\ EndList => DataOK'
  BY DEF DataOK, EndList, world, checking, history

LEMMA ParseKeepsTypes == DataOK /\ stack \in Seq(Frame) /\ Parse => DataOK'
  <1> SUFFICES ASSUME DataOK, stack \in Seq(Frame), Parse
               PROVE  DataOK'
    OBVIOUS
  <1>1. PICK f \in todo :
          /\ todo' = todo \ {f}
          /\ IF View[f].ok
             THEN parsed' = [parsed EXCEPT ![f] = View[f]] /\ UNCHANGED broken
             ELSE broken' = broken \cup {f} /\ UNCHANGED parsed
    BY DEF Parse
  <1>2. f \in File /\ View[f] \in Text \cup {NoText}
    BY <1>1, ViewIsLayer, DataAndStack DEF DataOK, Layer
  <1>3. parsed' \in Layer /\ broken' \subseteq File /\ todo' \subseteq File
    BY <1>1, <1>2 DEF DataOK, Layer
  <1> QED
    BY <1>3 DEF DataOK, Parse, world, checking, history

LEMMA EndParseKeepsTypes == DataOK /\ stack \in Seq(Frame) /\ EndParse => DataOK'
  <1> SUFFICES ASSUME DataOK, stack \in Seq(Frame), EndParse
               PROVE  DataOK'
    OBVIOUS
  <1>1. ParseDiags \subseteq Diagnostic
    BY DEF ParseDiags, Diagnostic, DataOK
  <1>2. Present(View) \subseteq File
    BY ViewIsLayer, UnitsAreUnits, DataAndStack
  <1>3. diags' \subseteq Diagnostic
    BY <1>1 DEF EndParse, DataOK
  <1>4. /\ phase' \in {"list", "choose", "end"} /\ pass' \in 1..2
        /\ todo' \subseteq File /\ chosen' \subseteq File
        /\ parsed' \in Layer /\ broken' \subseteq File
    BY <1>2, NowhereIsLayer DEF EndParse, DataOK
  <1> QED
    BY <1>3, <1>4 DEF DataOK, EndParse, world, checking, history

LEMMA ChooseKeepsTypes == DataOK /\ Choose => DataOK'
  <1> SUFFICES ASSUME DataOK, Choose
               PROVE  DataOK'
    OBVIOUS
  <1>1. Selected(ParseDiags) \subseteq Diagnostic /\ Units(parsed) \subseteq Unit
    BY UnitsAreUnits DEF Selected, ParseDiags, Diagnostic, DataOK
  <1>2. diags' \subseteq Diagnostic /\ roots' \subseteq Unit
        /\ phase' \in {"load", "end", "check"}
    BY <1>1 DEF Choose, DataOK
  <1> QED
    BY <1>2 DEF DataOK, Choose, world, reading, history

LEMMA LoadKeepsTypes == DataOK /\ Load => DataOK'
  <1> SUFFICES ASSUME DataOK, Load
               PROVE  DataOK'
    OBVIOUS
  <1>1. CycleErrors(disk) \subseteq Diagnostic /\ Errors(disk) \subseteq Diagnostic
    BY ErrorsAreDiagnostics DEF DataOK
  <1>2. PICK C \in SUBSET CycleErrors(disk) :
          diags' = diags \cup Kept((Errors(disk) \ CycleErrors(disk)) \cup C)
    BY DEF Load
  <1>3. diags' \subseteq Diagnostic
    BY <1>1, <1>2 DEF Kept, DataOK
  <1> QED
    BY <1>3 DEF DataOK, Load, world, reading, checking, history

LEMMA CheckNextKeepsTypes == DataOK /\ CheckNext => DataOK'
  BY DEF DataOK, CheckNext, world, reading, history

LEMMA ImportKeepsTypes == DataOK /\ Import => DataOK'
  BY DEF DataOK, Import, world, reading, history

LEMMA CheckDoneKeepsTypes == DataOK /\ stack \in Seq(Frame) /\ CheckDone => DataOK'
  <1> SUFFICES ASSUME DataOK, stack \in Seq(Frame), CheckDone
               PROVE  DataOK'
    OBVIOUS
  <1>1. Top.unit \in Unit
    BY TopIsFrame, DataAndStack DEF CheckDone, Frame
  <1>2. Selected(UnitErrors(Top)) \subseteq Diagnostic
    <2>1. FilesOf(parsed, Top.unit) \subseteq File
      BY UnitsAreUnits DEF FilesOf, DataOK
    <2> QED
      BY <2>1 DEF Selected, UnitErrors, Diagnostic
  <1>3. diags' \subseteq Diagnostic /\ checked' \subseteq Unit
    BY <1>1, <1>2 DEF CheckDone, DataOK
  <1> QED
    BY <1>3 DEF DataOK, CheckDone, world, reading, history

LEMMA BeginKeepsTypes == DataOK /\ stack \in Seq(Frame) /\ Begin => DataOK'
  <1> SUFFICES ASSUME DataOK, stack \in Seq(Frame), Begin
               PROVE  DataOK'
    OBVIOUS
  <1>1. View \in Layer /\ Present(View) \subseteq File
    BY ViewIsLayer, UnitsAreUnits, DataAndStack
  <1> QED
    BY <1>1, NowhereIsLayer DEF DataOK, Begin, world, Diagnostic

LEMMA FinishKeepsTypes == DataOK /\ Finish => DataOK'
  BY DEF DataOK, Finish, world, reading, checking

(* The texts that others write are texts.                                  *)
LEMMA ChangeKeepsTypes ==
  ASSUME DataOK, stack \in Seq(Frame), NEW f \in File, Edit(f) \/ Commit(f)
  PROVE  DataOK'
  <1>1. Changed[f] \subseteq Text
    BY LayerAssumption
  <1>2. disk' \in Layer /\ overlay' \in Layer /\ pinned' = pinned
    BY <1>1 DEF DataOK, Edit, Commit, Change, Layer
  <1>3. View' \in Layer
    BY <1>2 DEF View, Layer, DataOK
  <1>4. during' \subseteq Layer
    BY <1>3 DEF DataOK, Edit, Commit
  <1>5. /\ moved' \in Nat
        /\ UNCHANGED <<verdicts, kinds, generated, installed, phase, reading, diags,
                       checking, began>>
    BY DEF DataOK, Edit, Commit, Change
  <1> QED
    BY <1>2, <1>4, <1>5 DEF DataOK, reading, checking

LEMMA InitOK == Init => IInv
  <1> SUFFICES ASSUME Init
               PROVE  IInv
    OBVIOUS
  <1>1. disk \in Layer /\ overlay \in Layer /\ pinned \in Layer /\ parsed \in Layer
    BY LayerAssumption, NowhereIsLayer DEF Init
  <1>2. PICK r \in Request :
          kinds = r.kinds /\ generated = r.generated /\ installed = r.installed
    BY DEF Init
  <1>3. kinds \subseteq {"parse", "typecheck"} /\ generated \in BOOLEAN
        /\ installed \in BOOLEAN
    BY <1>2, LayerAssumption
  <1>4. DataOK
    BY <1>1, <1>3 DEF Init, DataOK, Diagnostic
  <1>5. stack = <<>> /\ StackOK
    BY EmptyStackOK DEF Init, StackOK
  <1> QED
    BY <1>4, <1>5, DataAndStack, StackIsSimpleAlt DEF IInv, StackOK

LEMMA IInvStep == IInv /\ [Next]_vars => IInv'
  <1> SUFFICES ASSUME IInv, [Next]_vars
               PROVE  IInv'
    OBVIOUS
  <1>1. TypeOK /\ DataOK /\ stack \in Seq(Frame) /\ StackOK
    BY IInvStack, DataAndStack DEF IInv
  <1>2. CASE Begin
    <2>1. StackOK'
      BY <1>2, EmptyStackOK DEF Begin, StackOK
    <2> QED
      BY <1>1, <1>2, <2>1, BeginKeepsTypes, IInvParts
  <1>3. CASE Read
    <2>1. UNCHANGED <<stack, checked>>
      BY <1>3 DEF Read, List, EndList, Parse, EndParse, Choose, Load, checking
    <2>2. DataOK'
      BY <1>1, <1>3, ListKeepsTypes, EndListKeepsTypes, ParseKeepsTypes,
         EndParseKeepsTypes, ChooseKeepsTypes, LoadKeepsTypes DEF Read
    <2> QED
      BY <1>1, <2>1, <2>2, StackUnchanged, IInvParts
  <1>4. CASE Finish
    <2>1. UNCHANGED <<stack, checked>>
      BY <1>4 DEF Finish, checking
    <2> QED
      BY <1>1, <1>4, <2>1, FinishKeepsTypes, StackUnchanged, IInvParts
  <1>5. CASE CheckNext
    BY <1>1, <1>5, CheckNextKeepsTypes, CheckNextKeepsStack, IInvParts
  <1>6. CASE Import
    BY <1>1, <1>6, ImportKeepsTypes, ImportKeepsStack, IInvParts
  <1>7. CASE CheckDone
    BY <1>1, <1>7, CheckDoneKeepsTypes, CheckDoneKeepsStack, IInvParts
  <1>8. CASE EndCheck
    <2>1. DataOK' /\ UNCHANGED <<stack, checked>>
      BY <1>1, <1>8 DEF DataOK, EndCheck, world, reading, checking, history
    <2> QED
      BY <1>1, <2>1, StackUnchanged, IInvParts
  <1>9. ASSUME NEW f \in File, Edit(f) \/ Commit(f)
        PROVE  IInv'
    <2>1. UNCHANGED <<stack, checked>>
      BY <1>9 DEF Edit, Commit, Change, checking
    <2>2. DataOK'
      BY <1>1, <1>9, ChangeKeepsTypes
    <2> QED
      BY <1>1, <2>1, <2>2, StackUnchanged, IInvParts
  <1>10. CASE UNCHANGED vars
    <2>1. DataOK' /\ UNCHANGED <<stack, checked>>
      BY <1>1, <1>10 DEF DataOK, vars, world, reading, checking, history
    <2> QED
      BY <1>1, <2>1, StackUnchanged, IInvParts
  <1> QED
    BY <1>2, <1>3, <1>4, <1>5, <1>6, <1>7, <1>8, <1>9, <1>10 DEF Next

(* Whatever is asked, read and changed meanwhile, the variables hold values*)
(* of their kinds: validation reads and reports of files that exist.       *)
THEOREM TypeCorrect == Spec => []TypeOK
  <1>1. IInv => TypeOK
    BY DEF IInv
  <1> QED
    BY <1>1, InitOK, IInvStep, PTL DEF Spec

(* For any import graph, with every cycle in it, and any order in which the*)
(* importer's map answers: the checker never enters a unit that is under   *)
(* check or checked. The recursion is no deeper than there are units.      *)
THEOREM RecursionIsSimple == Spec => []StackIsSimple
  <1>1. IInv => StackIsSimple
    BY DEF IInv
  <1> QED
    BY <1>1, InitOK, IInvStep, PTL DEF Spec
-----------------------------------------------------------------------------
(* The verdicts: what they are worth rests on what was read when, and on   *)
(* what the checker made of it.                                            *)

(* No file comes or goes: texts in memory are of files on disk.            *)
FilesStay ==
  /\ \A f \in File : pinned[f] # NoText \/ overlay[f] # NoText => disk[f] # NoText
  /\ \A ws \in during : Present(ws) = Present(View)
  /\ todo \subseteq Present(View) /\ chosen \subseteq Present(View)
  /\ broken \subseteq Present(View) /\ Present(parsed) \subseteq Present(View)
  /\ \A f \in Present(parsed) : parsed[f].ok

(* With one change, the workspaces a validation could have read differ in  *)
(* one file; until it comes, there is one.                                 *)
Changes(f) == \E ws, now \in during : ws[f] # now[f]

OneFileChanges ==
  /\ began <= moved
  /\ moved = began => during \subseteq {View}
  /\ phase \notin {"idle", "end", "done"} => View \in during
  /\ moved <= 1 => \A f, g \in File : Changes(f) /\ Changes(g) => f = g

(* Somewhere in this validation file f was generated, or did not parse.    *)
WasGenerated(f) == \E ws \in during : ws[f].gen
WasBroken(f) == \E ws \in during : ~ws[f].ok

(* All files are read for the type check: in the second pass, or in the    *)
(* first when generated files are in the scope.                            *)
Everything == pass = 2 \/ generated

(* What has been read lay there at the time; what has been left out was a  *)
(* generated file.                                                         *)
ReadingIsTrue ==
  /\ \A f \in Present(parsed) : \E ws \in during : parsed[f] = ws[f]
  /\ \A f \in broken : WasBroken(f)
  /\ phase = "list" =>
       /\ parsed = Nowhere /\ broken = {}
       /\ Everything => chosen \cup todo = Present(View)
       /\ pass = 1 => /\ generated => chosen \cup todo = Present(View)
                      /\ \A f \in Present(View) \ (chosen \cup todo) : WasGenerated(f)
  /\ phase = "parse" => /\ chosen = Present(parsed) \cup broken \cup todo
                        /\ Everything => chosen = Present(View)
  /\ phase \in {"choose", "load", "check"} =>
       "typecheck" \in kinds /\ Present(parsed) \cup broken = Present(View)
  /\ phase = "check" => broken = {}
  /\ phase = "load" => /\ moved <= 1 => disk \in during
                       /\ moved = began => NothingInMemory
  /\ phase \notin {"idle", "list"} \/ pass = 2 =>
       \A f \in Present(View) \ selected : ~generated /\ WasGenerated(f)

Entangled == Cyclic(parsed) \/ ImportsTested(parsed)

(* A call of check is about the files as they were read: what it was given *)
(* answers the imports, what failed has no answer, and an import of a      *)
(* package of the workspace is skipped only in a cycle.                    *)
FrameFits(frame) ==
  LET imports == ImportsOf(parsed, frame.unit) IN
  /\ frame.unit \in Units(parsed)
  /\ frame.todo \subseteq imports
  /\ \A p \in frame.loaded : Answers(p[2], p[1])
  /\ \A a \in frame.failed :
       a \in imports /\ a[2] \notin External /\ \A u \in Units(parsed) : ~Answers(u, a[2])
  /\ \A a \in frame.skipped : a \in imports /\ (a[2] \in External \/ Entangled)
  /\ \A a \in imports \ frame.todo :
       \/ a \in frame.skipped \cup frame.failed \/ a[2] \in External
       \/ \E v \in Unit : <<a[2], v>> \in frame.loaded

(* Each call was made for an import of the call below it.                  *)
Chained(s) ==
  \A j \in 1..(Len(s) - 1) :
    LET a == NextImport(s[j].todo) IN a \in s[j].todo /\ Answers(s[j + 1].unit, a[2])

CallsFit(s) == (\A j \in 1..Len(s) : FrameFits(s[j])) /\ Chained(s)

(* Every unit is still to come, under check or checked.                    *)
UnitsCovered ==
  /\ roots \subseteq Units(parsed) /\ checked \subseteq Units(parsed)
  /\ Units(parsed) \subseteq roots \cup checked \cup OnStack

(* Of what is checked no file with an error in it has been passed over.    *)
NothingOverlooked ==
  \A u \in checked :
    \/ ImportsExternal(parsed) \/ Entangled
    \/ \A f \in FilesOf(parsed, u) \cap selected :
         FileErrors(parsed, f) # {} => diags # {}

CheckerIsThorough ==
  /\ phase \in {"list", "parse", "choose"} => stack = <<>> /\ checked = {}
  /\ phase = "check" => UnitsCovered /\ CallsFit(stack) /\ NothingOverlooked

FailuresSoFar ==
  diags # {} /\ moved <= 1 =>
    \E ws \in during : ImportsTested(ws) \/ ReliesOnAbsent(ws) \/ ~Builds(ws)

(* The checker in memory is chosen when something is in memory, and nothing*)
(* leaves it.                                                              *)
CheckedInMemory == phase = "check" => ~NothingInMemory

PassesSoFar ==
  phase \in {"end", "done"} /\ "typecheck" \in kinds /\ diags = {} /\ moved <= 1 =>
    \/ BrokenGenerated /\ ~generated
    \/ \E ws \in during :
         \/ ImportsExternal(ws) \/ ImportsTested(ws) \/ Cyclic(ws)
         \/ Selected(Errors(ws)) = {}

-----------------------------------------------------------------------------
(* Import cycles.                                                          *)

(* Only packages with external tests share their path with another.        *)
LEMMA ImportAnswer ==
  ASSUME parsed \in Layer, ~ImportsTested(parsed),
         NEW v, NEW a \in ImportsOf(parsed, v), NEW w, Answers(w, a[2])
  PROVE  w = <<a[2], "p">> /\ a[2] \in Dir
  <1>1. w \in Units(parsed) /\ w \in Unit /\ w[1] = a[2]
    BY UnitsAreUnits DEF Answers, ImportPath
  <1>2. a[2] \in Dir /\ w[2] \in Package /\ w = <<w[1], w[2]>>
    BY <1>1 DEF Unit
  <1>3. a[1] \in Present(parsed) /\ a[2] \in parsed[a[1]].imports
    BY DEF ImportsOf, FilesOf
  <1>4. w[2] # "p_test"
    BY <1>1, <1>2, <1>3 DEF ImportsTested
  <1> QED
    BY <1>1, <1>2, <1>4 DEF Package

(* Directories that all import one of them hold a cycle.                   *)
LEMMA CirclesExist ==
  ASSUME NEW ws, NEW S \in SUBSET Dir, IsFiniteSet(S), S # {},
         \A d \in S : \E e \in S : <<d, e>> \in ImportsDir(ws)
  PROVE  Cyclic(ws)
  <1> DEFINE Closed(T) == T # {} /\ \A d \in T : \E e \in T : <<d, e>> \in ImportsDir(ws)
             Within == {T \in SUBSET S : Closed(T)}
  <1>1. Within \in SUBSET SUBSET S /\ S \in Within
    OBVIOUS
  <1>2. PICK T \in Within : \A U \in Within : U \subseteq T => U = T
    <2> HIDE DEF Within
    <2> QED
      BY <1>1, HasSmallest
  <1>3. T \in (SUBSET Dir) \ {{}} /\ Closed(T)
    OBVIOUS
  <1>4. ASSUME NEW U \in (SUBSET Dir) \ {{}},
               \A d \in U : \E e \in U : <<d, e>> \in ImportsDir(ws), U \subseteq T
        PROVE  U = T
    BY <1>2, <1>4
  <1>5. T \in Circles(ws)
    BY <1>3, <1>4 DEF Circles
  <1> QED
    BY <1>5 DEF Cyclic

(* A cycle is an error, and an error of the compiler's about cycles is of  *)
(* a cycle.                                                                *)
LEMMA CyclicIsError == \A ws : Cyclic(ws) <=> CycleErrors(ws) # {}
  <1>1. ASSUME NEW ws, Cyclic(ws)
        PROVE  CycleErrors(ws) # {}
    <2>1. PICK S \in Circles(ws) : TRUE
      BY <1>1 DEF Cyclic
    <2>2. S # {} /\ \A d \in S : \E e \in S : <<d, e>> \in ImportsDir(ws)
      BY <2>1 DEF Circles
    <2>3. PICK d \in S, e \in S : <<d, e>> \in ImportsDir(ws)
      BY <2>2
    <2>4. PICK f \in Present(ws) : DirOf[f] = d /\ ws[f].ok /\ e \in ws[f].imports
      BY <2>3 DEF ImportsDir
    <2>5. <<f, "cycle">> \in CycleErrors(ws)
      BY <2>1, <2>3, <2>4 DEF CycleErrors
    <2> QED
      BY <2>5
  <1>2. ASSUME NEW ws, CycleErrors(ws) # {}
        PROVE  Cyclic(ws)
    BY <1>2 DEF CycleErrors, Cyclic
  <1> QED
    BY <1>1, <1>2

(* The files that were read for the type check.                            *)
AllParse == parsed \in Layer /\ \A f \in Present(parsed) : parsed[f].ok

(* An import that the checker resolves to a directory is an import of it.  *)
LEMMA ImportIsEdge ==
  ASSUME AllParse, NEW u \in Unit, u[2] = "p", NEW a \in ImportsOf(parsed, u), a[2] \in Dir
  PROVE  <<u[1], a[2]>> \in ImportsDir(parsed)
  <1>1. a[1] \in Present(parsed) /\ UnitOf(parsed, a[1]) = u /\ a[2] \in parsed[a[1]].imports
    BY DEF ImportsOf, FilesOf
  <1>2. DirOf[a[1]] = u[1] /\ parsed[a[1]].pkg = "p" /\ parsed[a[1]].ok
    BY <1>1 DEF UnitOf, AllParse
  <1>3. u[1] \in Dir
    BY DEF Unit
  <1> QED
    BY <1>1, <1>2, <1>3 DEF ImportsDir

(* When the checker meets a unit that is under check, the calls since then *)
(* import each other in a circle.                                          *)
LEMMA OpenMeansCycle ==
  ASSUME AllParse, stack \in Seq(Frame), stack # <<>>, Chained(stack),
         \A i \in 1..Len(stack) : FrameFits(stack[i]),
         NEW a \in Top.todo, NEW u \in OnStack, Answers(u, a[2])
  PROVE  Entangled
  <1> SUFFICES ASSUME ~ImportsTested(parsed)
               PROVE  Cyclic(parsed)
    BY DEF Entangled
  <1> DEFINE n == Len(stack)
  <1>1. n \in Nat \ {0} /\ \A i \in 1..n : stack[i] \in Frame /\ FrameFits(stack[i])
    OBVIOUS
  <1>2. PICK i \in 1..n : stack[i].unit = u
    BY DEF OnStack
  <1>3. Top = stack[n] /\ a \in stack[n].todo
    BY DEF Top
  <1> DEFINE dir == [j \in i..n |-> stack[j].unit[1]]
             S == {dir[j] : j \in i..n}
  <1>4. \A j \in i..n : j \in 1..n /\ stack[j].unit \in Unit
    BY <1>1 DEF Frame
  <1>5. \A j \in i..n : stack[j].todo \subseteq ImportsOf(parsed, stack[j].unit)
    BY <1>1, <1>4 DEF FrameFits
  <1>6. u = <<a[2], "p">> /\ a[2] \in Dir
    BY <1>1, <1>3, <1>5, ImportAnswer DEF AllParse
  <1>7. ASSUME NEW j \in i..n, j # n
        PROVE  \E b \in stack[j].todo :
                 b[2] \in Dir /\ stack[j + 1].unit = <<b[2], "p">>
    <2> DEFINE b == NextImport(stack[j].todo)
    <2>1. j \in 1..(n - 1)
      BY <1>1, <1>7
    <2>2. b \in stack[j].todo /\ Answers(stack[j + 1].unit, b[2])
      BY <2>1 DEF Chained
    <2>3. b \in ImportsOf(parsed, stack[j].unit)
      BY <1>5, <2>2
    <2> HIDE DEF b
    <2>4. b[2] \in Dir /\ stack[j + 1].unit = <<b[2], "p">>
      BY <2>2, <2>3, ImportAnswer DEF AllParse
    <2> QED
      BY <2>2, <2>4
  <1>8. \A j \in i..n : stack[j].unit[2] = "p"
    <2> TAKE j \in i..n
    <2>1. CASE j = i
      BY <2>1, <1>2, <1>6
    <2>2. CASE j # i
      <3>1. PICK k \in i..n : k # n /\ k + 1 = j
        <4>1. j - 1 \in i..n /\ j - 1 # n /\ j - 1 + 1 = j
          BY <2>2, <1>1
        <4> QED
          BY <4>1
      <3>2. PICK b \in stack[k].todo : stack[k + 1].unit = <<b[2], "p">>
        BY <3>1, <1>7
      <3> QED
        BY <3>1, <3>2
    <2> QED
      BY <2>1, <2>2
  <1>9. ASSUME NEW j \in i..n
        PROVE  \E k \in i..n : <<dir[j], dir[k]>> \in ImportsDir(parsed)
    <2>1. \A b \in stack[j].todo :
            b[2] \in Dir => <<dir[j], b[2]>> \in ImportsDir(parsed)
      BY <1>4, <1>5, <1>8, ImportIsEdge
    <2>2. CASE j = n
      <3>1. dir[i] = a[2] /\ i \in i..n
        BY <1>1, <1>2, <1>6
      <3> QED
        BY <2>1, <2>2, <3>1, <1>3, <1>6
    <2>3. CASE j # n
      <3>1. PICK b \in stack[j].todo : b[2] \in Dir /\ stack[j + 1].unit = <<b[2], "p">>
        BY <1>7, <2>3
      <3>2. j + 1 \in i..n /\ dir[j + 1] = b[2]
        BY <1>1, <2>3, <3>1
      <3> QED
        BY <2>1, <3>1, <3>2
    <2> QED
      BY <2>2, <2>3
  <1>10. S \in SUBSET Dir /\ S # {} /\ IsFiniteSet(S)
    <2>1. \A j \in i..n : dir[j] \in Dir
      BY <1>4 DEF Unit
    <2>2. i \in i..n /\ IsFiniteSet(i..n)
      BY <1>1, FS_Interval
    <2> HIDE DEF dir
    <2> QED
      BY <2>1, <2>2, FiniteImage
  <1>11. \A d \in S : \E e \in S : <<d, e>> \in ImportsDir(parsed)
    <2> HIDE DEF dir
    <2> QED
      BY <1>9
  <1> QED
    BY <1>10, <1>11, CirclesExist

-----------------------------------------------------------------------------
(* What the checker reports of a unit.                                     *)

(* A directory is nobody else's import path.                               *)
LEMMA DirsAreInside == \A d \in Dir : d \notin External
  BY DirAssumption

LEMMA FileErrorCases ==
  ASSUME NEW ws, NEW f, ws[f].ok
  PROVE  /\ FileErrors(ws, f) \subseteq {"import", "undefined", "unused"}
         /\ "import" \in FileErrors(ws, f) <=>
              \E q \in ws[f].imports \cap Dir : <<q, "p">> \notin Units(ws)
         /\ "undefined" \in FileErrors(ws, f) <=>
              \/ \E use \in ws[f].uses : BadUse(ws, f, use)
              \/ \E q \in ws[f].relies : ~Supplies(ws, f, q)
         /\ "unused" \in FileErrors(ws, f) <=> \E q \in Named(ws, f) : ~Uses(ws, f, q)
  <1> DEFINE Import_ == \E q \in ws[f].imports \cap Dir : <<q, "p">> \notin Units(ws)
             Undefined_ == \/ \E use \in ws[f].uses : BadUse(ws, f, use)
                           \/ \E q \in ws[f].relies : ~Supplies(ws, f, q)
             Unused_ == \E q \in Named(ws, f) : ~Uses(ws, f, q)
  <1>1. FileErrors(ws, f) =
          {e \in {"import", "undefined", "unused"} :
             CASE e = "import" -> Import_ [] e = "undefined" -> Undefined_
               [] e = "unused" -> Unused_}
    BY Zenon DEF FileErrors
  <1> HIDE DEF Import_, Undefined_, Unused_
  <1>2. /\ FileErrors(ws, f) \subseteq {"import", "undefined", "unused"}
        /\ "import" \in FileErrors(ws, f) <=> Import_
        /\ "undefined" \in FileErrors(ws, f) <=> Undefined_
        /\ "unused" \in FileErrors(ws, f) <=> Unused_
    BY <1>1
  <1> QED
    BY <1>2 DEF Import_, Undefined_, Unused_

LEMMA UnitErrorCases ==
  ASSUME NEW frame, NEW f \in FilesOf(parsed, frame.unit)
  PROVE  /\ <<f, "import">> \in UnitErrors(frame) <=> \E q \in Path : <<f, q>> \in frame.failed
         /\ <<f, "undefined">> \in UnitErrors(frame) <=>
              \/ \E use \in parsed[f].uses : UndefinedUse(frame, f, use)
              \/ \E q \in parsed[f].relies : ~Supplied(frame, f, q)
         /\ <<f, "unused">> \in UnitErrors(frame) <=> \E q \in Path : UnusedImport(frame, f, q)
  <1> DEFINE Import_(g) == \E q \in Path : <<g, q>> \in frame.failed
             Undefined_(g) == \/ \E use \in parsed[g].uses : UndefinedUse(frame, g, use)
                              \/ \E q \in parsed[g].relies : ~Supplied(frame, g, q)
             Unused_(g) == \E q \in Path : UnusedImport(frame, g, q)
  <1>1. UnitErrors(frame) =
          {d \in FilesOf(parsed, frame.unit) \X {"import", "undefined", "unused"} :
             CASE d[2] = "import" -> Import_(d[1]) [] d[2] = "undefined" -> Undefined_(d[1])
               [] d[2] = "unused" -> Unused_(d[1])}
    BY Zenon DEF UnitErrors
  <1> HIDE DEF Import_, Undefined_, Unused_
  <1>2. /\ <<f, "import">> \in UnitErrors(frame) <=> Import_(f)
        /\ <<f, "undefined">> \in UnitErrors(frame) <=> Undefined_(f)
        /\ <<f, "unused">> \in UnitErrors(frame) <=> Unused_(f)
    BY <1>1
  <1> QED
    BY <1>2 DEF Import_, Undefined_, Unused_

(* An error of a file is an error of the workspace.                        *)
LEMMA FileErrorBreaks ==
  ASSUME NEW ws, NEW f \in Present(ws), FileErrors(ws, f) # {}
  PROVE  ~Builds(ws)
  <1>1. PICK e : e \in FileErrors(ws, f)
    OBVIOUS
  <1>2. <<f, e>> \in Errors(ws)
    BY <1>1 DEF Errors
  <1> QED
    BY <1>2 DEF Builds

LEMMA CycleBreaks == \A ws : Cyclic(ws) => ~Builds(ws)
  BY CyclicIsError DEF Builds, Errors

(* An import of a package of the workspace has been answered by it, unless *)
(* nothing is there.                                                       *)
LEMMA ImportLoaded ==
  ASSUME AllParse, NEW frame, FrameFits(frame), frame.todo = {}, ~Entangled,
         NEW a \in ImportsOf(parsed, frame.unit), a[2] \in Dir, <<a[2], "p">> \in Units(parsed)
  PROVE  <<a[2], <<a[2], "p">>>> \in frame.loaded
  <1>1. a[2] \notin External /\ ~ImportsTested(parsed)
    BY DirsAreInside DEF Entangled
  <1>2. Answers(<<a[2], "p">>, a[2])
    BY DEF Answers, ImportPath
  <1>3. PICK v \in Unit : <<a[2], v>> \in frame.loaded
    BY <1>1, <1>2 DEF FrameFits
  <1>4. Answers(v, a[2])
    BY <1>3 DEF FrameFits
  <1> QED
    BY <1>1, <1>3, <1>4, ImportAnswer DEF AllParse

(* What has types of another module in the workspace has them in sight of  *)
(* the checker, which may still not have found the module.                 *)
LEMMA SuppliedWhenFound ==
  ASSUME AllParse, NEW frame, FrameFits(frame), frame.todo = {}, ~Entangled,
         NEW f \in FilesOf(parsed, frame.unit), NEW q
  PROVE  installed /\ Supplies(parsed, f, q) => Supplied(frame, f, q)
  <1> SUFFICES ASSUME installed, Supplies(parsed, f, q)
               PROVE  Supplied(frame, f, q)
    OBVIOUS
  <1>1. f \in Present(parsed) /\ UnitOf(parsed, f) = frame.unit /\ parsed[f] \in Text
    BY UnitsAreUnits DEF FilesOf, AllParse
  <1>2. PICK g \in Present(parsed) :
          /\ q \in Named(parsed, g)
          /\ \/ UnitOf(parsed, g) = UnitOf(parsed, f)
             \/ parsed[g].pkg = "p" /\ DirOf[g] \in Named(parsed, f)
    BY DEF Supplies
  <1>3. CASE UnitOf(parsed, g) = UnitOf(parsed, f)
    BY <1>1, <1>2, <1>3 DEF Supplied
  <1>4. CASE parsed[g].pkg = "p" /\ DirOf[g] \in Named(parsed, f)
    <2>1. UnitOf(parsed, g) = <<DirOf[g], "p">> /\ UnitOf(parsed, g) \in Units(parsed)
      BY <1>2, <1>4 DEF UnitOf, Units
    <2>2. g \in File /\ f \in File
      BY <1>1, <1>2, UnitsAreUnits DEF AllParse
    <2>3. DirOf[g] \in Dir /\ DirOf[g] \in Path
      BY <2>2, DirOfAssumption DEF Path
    <2>4. <<f, DirOf[g]>> \in ImportsOf(parsed, frame.unit)
      BY <1>4, <2>2, <2>3 DEF ImportsOf, Named
    <2>5. <<DirOf[g], <<DirOf[g], "p">>>> \in frame.loaded
      BY <2>1, <2>3, <2>4, ImportLoaded
    <2> QED
      BY <1>2, <1>4, <2>1, <2>5 DEF Supplied
  <1> QED
    BY <1>2, <1>3, <1>4

(* And nothing else has.                                                   *)
LEMMA SuppliedIsSupply ==
  ASSUME AllParse, NEW frame, FrameFits(frame), ~Entangled,
         NEW f \in FilesOf(parsed, frame.unit), NEW q
  PROVE  Supplied(frame, f, q) => installed /\ Supplies(parsed, f, q)
  <1> SUFFICES ASSUME Supplied(frame, f, q)
               PROVE  installed /\ Supplies(parsed, f, q)
    OBVIOUS
  <1>1. f \in Present(parsed) /\ UnitOf(parsed, f) = frame.unit /\ parsed[f] \in Text
        /\ f \in File /\ ~ImportsTested(parsed)
    BY UnitsAreUnits DEF FilesOf, AllParse, Entangled
  <1>2. installed
    BY DEF Supplied
  <1>3. PICK g \in Present(parsed) :
          /\ q \in Named(parsed, g)
          /\ \/ UnitOf(parsed, g) = frame.unit
             \/ \E p \in Named(parsed, f) : <<p, UnitOf(parsed, g)>> \in frame.loaded
    BY DEF Supplied
  <1>4. CASE UnitOf(parsed, g) = frame.unit
    BY <1>1, <1>2, <1>3, <1>4 DEF Supplies
  <1>5. CASE \E p \in Named(parsed, f) : <<p, UnitOf(parsed, g)>> \in frame.loaded
    <2>1. PICK p \in Named(parsed, f) : <<p, UnitOf(parsed, g)>> \in frame.loaded
      BY <1>5
    <2>2. p \in parsed[f].imports /\ p \in Path
      BY <1>1 DEF Named, Text
    <2>3. <<f, p>> \in ImportsOf(parsed, frame.unit)
      BY <1>1, <2>2 DEF ImportsOf
    <2>4. Answers(UnitOf(parsed, g), p)
      BY <2>1 DEF FrameFits
    <2>5. UnitOf(parsed, g) = <<p, "p">>
      BY <1>1, <2>3, <2>4, ImportAnswer DEF AllParse
    <2>6. DirOf[g] = p /\ parsed[g].pkg = "p"
      BY <2>5 DEF UnitOf
    <2> QED
      BY <1>2, <1>3, <2>1, <2>6 DEF Supplies
  <1> QED
    BY <1>3, <1>4, <1>5

(* What the checker objects to, given the packages it was given, is wrong  *)
(* with the files as they were read, unless a file relies on a module that *)
(* the importer does not find.                                             *)
LEMMA CheckErrorsAreReal ==
  ASSUME AllParse, NEW frame, FrameFits(frame), frame.todo = {}, UnitErrors(frame) # {}
  PROVE  \/ ImportsTested(parsed) \/ ~Builds(parsed)
         \/ ~installed /\ \E f \in Present(parsed) : parsed[f].relies # {}
  <1> SUFFICES ASSUME ~ImportsTested(parsed), Builds(parsed)
               PROVE  ~installed /\ \E f \in Present(parsed) : parsed[f].relies # {}
    OBVIOUS
  <1>1. ~Entangled
    BY CycleBreaks DEF Entangled
  <1>2. PICK f \in FilesOf(parsed, frame.unit) :
          \E e \in {"import", "undefined", "unused"} : <<f, e>> \in UnitErrors(frame)
    <2>1. PICK d \in FilesOf(parsed, frame.unit) \X {"import", "undefined", "unused"} :
            d \in UnitErrors(frame)
      BY Zenon DEF UnitErrors
    <2>2. d = <<d[1], d[2]>>
      OBVIOUS
    <2> QED
      BY <2>1, <2>2
  <1>3. f \in Present(parsed) /\ UnitOf(parsed, f) = frame.unit /\ parsed[f].ok
        /\ parsed[f] \in Text
    BY <1>2, UnitsAreUnits DEF FilesOf, AllParse
  <1>4. FileErrors(parsed, f) = {}
    BY <1>3, FileErrorBreaks
  <1>5. CASE <<f, "import">> \in UnitErrors(frame)
    <2>1. PICK q \in Path : <<f, q>> \in frame.failed
      BY <1>5, UnitErrorCases
    <2>2. /\ <<f, q>> \in ImportsOf(parsed, frame.unit) /\ q \notin External
          /\ \A u \in Units(parsed) : ~Answers(u, q)
      BY <2>1 DEF FrameFits
    <2>3. q \in parsed[f].imports \cap Dir
      BY <2>2 DEF ImportsOf, Path
    <2>4. <<q, "p">> \notin Units(parsed)
      BY <2>2 DEF Answers, ImportPath
    <2> QED
      BY <1>3, <1>4, <2>3, <2>4, FileErrorCases
  <1>6. CASE \E use \in parsed[f].uses : UndefinedUse(frame, f, use)
    <2>1. PICK use \in parsed[f].uses : UndefinedUse(frame, f, use)
      BY <1>6
    <2>2. ~BadUse(parsed, f, use)
      BY <1>3, <1>4, FileErrorCases
    <2>3. ~Bare(parsed, f, use)
      BY <1>3, <2>1, <2>2 DEF UndefinedUse, BadUse
    <2>4. /\ ~Ignored(f, use[1]) /\ use[1] \in Named(parsed, f)
          /\ use[1] \in Dir => use[2] \in DeclsOf(parsed, <<use[1], "p">>)
      BY <2>1, <2>2, <2>3 DEF UndefinedUse, BadUse
    <2>5. use[1] \in parsed[f].imports /\ use[1] \notin External
      BY <1>3, <2>4 DEF Ignored, Named
    <2>6. <<f, use[1]>> \notin frame.skipped
      BY <1>1, <2>5 DEF FrameFits
    <2>7. PICK v \in Unit :
            <<use[1], v>> \in frame.loaded /\ use[2] \notin DeclsOf(parsed, v)
      BY <2>1, <2>3, <2>4, <2>6 DEF UndefinedUse
    <2>8. Answers(v, use[1])
      BY <2>7 DEF FrameFits
    <2>9. <<f, use[1]>> \in ImportsOf(parsed, frame.unit)
      <3>1. use[1] \in Path
        BY <1>3, <2>5 DEF Text
      <3> QED
        BY <1>2, <1>3, <2>5, <3>1, UnitsAreUnits DEF ImportsOf, AllParse
    <2>10. v = <<use[1], "p">> /\ use[1] \in Dir
      BY <2>8, <2>9, ImportAnswer DEF AllParse
    <2> QED
      BY <2>4, <2>7, <2>10
  <1>7. CASE <<f, "unused">> \in UnitErrors(frame)
    <2>1. PICK q \in Path : UnusedImport(frame, f, q)
      BY <1>7, UnitErrorCases
    <2>2. q \in Named(parsed, f) /\ ~Uses(parsed, f, q)
      BY <2>1 DEF UnusedImport
    <2> QED
      BY <1>3, <1>4, <2>2, FileErrorCases
  <1>8. CASE \E q \in parsed[f].relies : ~Supplied(frame, f, q)
    <2>1. PICK q \in parsed[f].relies : ~Supplied(frame, f, q)
      BY <1>8
    <2>2. Supplies(parsed, f, q)
      BY <1>3, <1>4, <2>1, FileErrorCases
    <2>3. ~installed
      BY <1>1, <2>1, <2>2, SuppliedWhenFound
    <2> QED
      BY <1>3, <2>1, <2>3
  <1> QED
    BY <1>2, <1>5, <1>6, <1>7, <1>8, UnitErrorCases

(* What is wrong with a file, the checker objects to, unless it was given  *)
(* too little: another module, a circle, a package taken for another.      *)
LEMMA CheckErrorsAreAll ==
  ASSUME AllParse, NEW frame, FrameFits(frame), frame.todo = {},
         ~ImportsExternal(parsed), ~Entangled,
         NEW f \in FilesOf(parsed, frame.unit), FileErrors(parsed, f) # {}
  PROVE  \E e : <<f, e>> \in UnitErrors(frame)
  <1>1. f \in Present(parsed) /\ UnitOf(parsed, f) = frame.unit /\ parsed[f].ok
        /\ parsed[f] \in Text /\ f \in File
    BY UnitsAreUnits DEF FilesOf, AllParse
  <1>2. parsed[f].imports \subseteq Dir
    <2>1. parsed[f].imports \subseteq Path
      BY <1>1 DEF Text
    <2> QED
      BY <1>1, <2>1 DEF ImportsExternal, Path
  <1>3. ~ImportsTested(parsed) /\ \A q : ~Ignored(f, q)
    BY <1>1 DEF Entangled, Ignored, ImportsExternal
  <1>4. ASSUME NEW q \in parsed[f].imports
        PROVE  /\ <<f, q>> \notin frame.skipped
               /\ \/ <<f, q>> \in frame.failed
                  \/ <<q, <<q, "p">>>> \in frame.loaded /\ <<q, "p">> \in Units(parsed)
    <2>1. <<f, q>> \in ImportsOf(parsed, frame.unit) /\ q \notin External
      BY <1>1, <1>2, DirsAreInside DEF ImportsOf, Path
    <2>2. <<f, q>> \notin frame.skipped
      BY <2>1 DEF FrameFits
    <2>3. CASE \E v \in Unit : <<q, v>> \in frame.loaded
      <3>1. PICK v \in Unit : <<q, v>> \in frame.loaded
        BY <2>3
      <3>2. Answers(v, q)
        BY <3>1 DEF FrameFits
      <3>3. v = <<q, "p">> /\ v \in Units(parsed)
        BY <1>3, <2>1, <3>2, ImportAnswer DEF AllParse, Answers
      <3> QED
        BY <2>2, <3>1, <3>3
    <2> QED
      BY <2>1, <2>2, <2>3 DEF FrameFits
  <1>5. CASE \E q \in parsed[f].imports : <<f, q>> \in frame.failed
    <2>1. PICK q \in Path : <<f, q>> \in frame.failed
      BY <1>2, <1>5 DEF Path
    <2> QED
      BY <2>1, UnitErrorCases
  <1>6. CASE \A q \in parsed[f].imports : <<f, q>> \notin frame.failed
    <2>1. "import" \notin FileErrors(parsed, f)
      BY <1>1, <1>4, <1>6, FileErrorCases
    <2>2. CASE \E use \in parsed[f].uses : BadUse(parsed, f, use)
      <3>1. PICK use \in parsed[f].uses : BadUse(parsed, f, use)
        BY <2>2
      <3>2. CASE Bare(parsed, f, use)
        <4>1. UndefinedUse(frame, f, use)
          BY <1>1, <3>1, <3>2 DEF BadUse, UndefinedUse
        <4> QED
          BY <3>1, <4>1, UnitErrorCases
      <3>3. CASE ~Bare(parsed, f, use) /\ use[1] \notin Named(parsed, f)
        <4>1. UndefinedUse(frame, f, use)
          BY <1>3, <3>3 DEF UndefinedUse
        <4> QED
          BY <3>1, <4>1, UnitErrorCases
      <3>4. CASE ~Bare(parsed, f, use) /\ use[1] \in Named(parsed, f)
        <4>1. use[1] \in parsed[f].imports /\ use[1] \in Dir
          BY <1>2, <3>4 DEF Named
        <4>2. use[2] \notin DeclsOf(parsed, <<use[1], "p">>)
          BY <3>1, <3>4 DEF BadUse
        <4>3. <<use[1], <<use[1], "p">>>> \in frame.loaded /\ <<use[1], "p">> \in Unit
          BY <1>4, <1>6, <4>1 DEF Unit, Package
        <4>4. UndefinedUse(frame, f, use)
          BY <1>3, <3>4, <4>2, <4>3 DEF UndefinedUse
        <4> QED
          BY <3>1, <4>4, UnitErrorCases
      <3> QED
        BY <3>2, <3>3, <3>4
    <2>3. CASE "unused" \in FileErrors(parsed, f)
      <3>1. PICK q \in Named(parsed, f) : ~Uses(parsed, f, q)
        BY <1>1, <2>3, FileErrorCases
      <3>2. q \in parsed[f].imports /\ q \in Path /\ q \notin External
        BY <1>2, DirsAreInside DEF Named, Path
      <3>3. UnusedImport(frame, f, q)
        BY <1>4, <3>1, <3>2 DEF UnusedImport
      <3> QED
        BY <3>2, <3>3, UnitErrorCases
    <2>4. CASE \E q \in parsed[f].relies : ~Supplies(parsed, f, q)
      <3>1. PICK q \in parsed[f].relies : ~Supplies(parsed, f, q)
        BY <2>4
      <3>2. ~Supplied(frame, f, q)
        BY <3>1, SuppliedIsSupply
      <3> QED
        BY <3>1, <3>2, UnitErrorCases
    <2> QED
      BY <1>1, <2>1, <2>2, <2>3, <2>4, FileErrorCases
  <1> QED
    BY <1>5, <1>6

-----------------------------------------------------------------------------
(* The calls of check: CheckerIsThorough is kept.                          *)
LEMMA OpenFits ==
  ASSUME NEW u \in Units(parsed)
  PROVE  FrameFits(Open(u))
  BY DEF FrameFits, Open

LEMMA ReplaceKeepsCalls ==
  ASSUME NEW s \in Seq(Frame), s # <<>>, CallsFit(s),
         NEW frame \in Frame, FrameFits(frame), frame.unit = s[Len(s)].unit
  PROVE  CallsFit([s EXCEPT ![Len(s)] = frame])
  <1> DEFINE t == [s EXCEPT ![Len(s)] = frame]
  <1>1. /\ Len(t) = Len(s) /\ Len(s) \in Nat \ {0} /\ t[Len(s)] = frame
        /\ \A j \in 1..Len(s) : t[j].unit = s[j].unit
        /\ \A j \in 1..(Len(s) - 1) : j \in 1..Len(s) /\ t[j] = s[j] /\ j + 1 \in 1..Len(s)
    OBVIOUS
  <1> HIDE DEF t
  <1>2. \A j \in 1..Len(s) : j = Len(s) \/ j \in 1..(Len(s) - 1)
    <2>1. Len(s) \in Nat
      OBVIOUS
    <2> QED
      BY <2>1
  <1>3. \A j \in 1..Len(t) : FrameFits(t[j])
    BY <1>1, <1>2 DEF CallsFit
  <1>4. Chained(t)
    BY <1>1 DEF CallsFit, Chained
  <1> QED
    BY <1>3, <1>4 DEF CallsFit, t

LEMMA PushKeepsCalls ==
  ASSUME NEW s \in Seq(Frame), s # <<>>, CallsFit(s),
         NEW a \in s[Len(s)].todo, a = NextImport(s[Len(s)].todo),
         NEW frame \in Frame, FrameFits(frame), Answers(frame.unit, a[2])
  PROVE  CallsFit(Append(s, frame))
  <1> DEFINE t == Append(s, frame)
  <1>1. Len(t) = Len(s) + 1 /\ Len(s) \in Nat \ {0} /\ t[Len(s) + 1] = frame
        /\ \A j \in 1..Len(s) : t[j] = s[j]
    OBVIOUS
  <1>2. /\ \A j \in 1..Len(t) : j = Len(s) + 1 \/ j \in 1..Len(s)
        /\ \A j \in 1..(Len(t) - 1) :
             /\ j \in 1..Len(s)
             /\ j = Len(s) \/ (j \in 1..(Len(s) - 1) /\ j + 1 \in 1..Len(s))
    BY <1>1
  <1> HIDE DEF t
  <1>3. \A j \in 1..Len(t) : FrameFits(t[j])
    BY <1>1, <1>2 DEF CallsFit
  <1>4. Chained(t)
    BY <1>1, <1>2 DEF CallsFit, Chained
  <1> QED
    BY <1>3, <1>4 DEF CallsFit, t

LEMMA PopKeepsCalls ==
  ASSUME NEW s \in Seq(Frame), Len(s) > 1, CallsFit(s)
  PROVE  /\ SubSeq(s, 1, Len(s) - 1) \in Seq(Frame)
         /\ Len(SubSeq(s, 1, Len(s) - 1)) = Len(s) - 1
         /\ \A j \in 1..(Len(s) - 1) : SubSeq(s, 1, Len(s) - 1)[j] = s[j]
         /\ CallsFit(SubSeq(s, 1, Len(s) - 1))
  <1> DEFINE n == Len(s) - 1
             t == SubSeq(s, 1, n)
  <1>1. n \in Nat \ {0} /\ \A j \in 1..n : s[j] \in Frame
    <2>1. Len(s) \in Nat
      OBVIOUS
    <2>2. n \in Nat
      BY <2>1
    <2>3. n # 0
      <3>1. \A m \in Nat : m > 1 => m - 1 # 0
        OBVIOUS
      <3> QED
        BY <2>1, <3>1
    <2>4. \A j \in 1..n : j \in 1..Len(s)
      BY <2>1
    <2> QED
      BY <2>2, <2>3, <2>4
  <1>2. t \in Seq(Frame) /\ Len(t) = n /\ \A j \in 1..n : t[j] = s[j]
    <2> HIDE DEF n
    <2>1. /\ t \in Seq(Frame)
          /\ Len(t) = IF 1 <= n THEN n - 1 + 1 ELSE 0
          /\ \A j \in 1..(n - 1 + 1) : t[j] = s[1 + j - 1]
      BY <1>1, SubSeqProperties
    <2>2. n - 1 + 1 = n /\ \A j \in 1..n : 1 + j - 1 = j
      BY <1>1
    <2> QED
      BY <1>1, <2>1, <2>2
  <1>3. /\ \A j \in 1..n : j \in 1..Len(s)
        /\ \A j \in 1..(n - 1) : j \in 1..n /\ j + 1 \in 1..n /\ j \in 1..(Len(s) - 1)
    BY <1>1
  <1>4. \A j \in 1..n : FrameFits(t[j])
    <2> HIDE DEF t
    <2> QED
      BY <1>2, <1>3 DEF CallsFit
  <1>5. Chained(t)
    <2> HIDE DEF t, n
    <2> QED
      BY <1>2, <1>3 DEF CallsFit, Chained
  <1>6. CallsFit(t)
    <2> HIDE DEF t
    <2> QED
      BY <1>2, <1>4, <1>5 DEF CallsFit
  <1> QED
    BY <1>2, <1>6 DEF n, t

(* The texts that were read do not change under the checker.               *)
LEMMA CallsPrime ==
  ASSUME parsed' = parsed, CallsFit(stack')
  PROVE  CallsFit(stack)'
  BY DEF CallsFit, FrameFits, Chained, Answers, ImportPath, Entangled

(* An import that is resolved fits what it was resolved to.                *)
LEMMA ImportFits ==
  ASSUME TypeOK, AllParse, CallsFit(stack), Import
  PROVE  CallsFit(stack)'
  <1>1. stack \in Seq(Frame) /\ stack # <<>> /\ parsed' = parsed
        /\ Top \in Frame /\ FrameFits(Top) /\ Len(stack) \in Nat \ {0}
    <2>1. stack \in Seq(Frame) /\ stack # <<>> /\ parsed' = parsed
      BY DEF TypeOK, Import, reading
    <2> QED
      BY <2>1, TopIsFrame DEF CallsFit, Top
  <1>2. PICK a \in Top.todo :
          /\ a = NextImport(Top.todo)
          /\ \/ ImportAgain(a)
             \/ ImportOutside(a)
             \/ \E u \in Units(parsed) :
                  /\ Answers(u, a[2])
                  /\ ImportChecked(a, u) \/ ImportOpen(a, u) \/ ImportNew(a, u)
    BY DEF Import
  <1>3. a \in File \X Path /\ a[2] \in Path /\ a \in ImportsOf(parsed, Top.unit)
    BY <1>1 DEF Frame, FrameFits
  <1>4. Units(parsed) \subseteq Unit
    BY UnitsAreUnits DEF TypeOK
  <1>5. ASSUME NEW frame \in Frame, frame.unit = Top.unit, FrameFits(frame), Resolve(frame)
        PROVE  CallsFit(stack)'
    BY <1>1, <1>5, ReplaceKeepsCalls, CallsPrime DEF Resolve, Top
  <1>6. CASE ImportAgain(a)
    <2> DEFINE frame == [Top EXCEPT !.todo = @ \ {a}]
    <2>1. frame \in Frame /\ frame.unit = Top.unit
      BY <1>1 DEF Frame
    <2>2. FrameFits(frame)
      BY <1>1, <1>6 DEF ImportAgain, Known, FrameFits, Frame
    <2> QED
      BY <1>5, <1>6, <2>1, <2>2 DEF ImportAgain
  <1>7. CASE ImportOutside(a)
    <2> DEFINE frame ==
          [Top EXCEPT !.todo = @ \ {a},
             !.skipped = IF a[2] \in External /\ ~installed THEN @ \cup {a} ELSE @,
             !.failed = IF a[2] \notin External THEN @ \cup {a} ELSE @]
    <2>1. frame \in Frame /\ frame.unit = Top.unit
      BY <1>1, <1>3 DEF Frame
    <2>2. \A u \in Units(parsed) : ~Answers(u, a[2])
      BY <1>7 DEF ImportOutside
    <2>3. FrameFits(frame)
      BY <1>1, <1>3, <2>2 DEF FrameFits, Frame
    <2> QED
      BY <1>5, <1>7, <2>1, <2>3 DEF ImportOutside
  <1>8. ASSUME NEW u \in Units(parsed), Answers(u, a[2]),
               ImportChecked(a, u) \/ ImportOpen(a, u) \/ ImportNew(a, u)
        PROVE  CallsFit(stack)'
    <2>1. CASE ImportChecked(a, u)
      <3> DEFINE frame == [Top EXCEPT !.todo = @ \ {a}, !.loaded = @ \cup {<<a[2], u>>}]
      <3>1. <<a[2], u>> \in Path \X Unit
        BY <1>3, <1>4
      <3>2. frame \in Frame /\ frame.unit = Top.unit
        BY <1>1, <3>1 DEF Frame
      <3>3. /\ frame.todo = Top.todo \ {a} /\ frame.loaded = Top.loaded \cup {<<a[2], u>>}
            /\ frame.skipped = Top.skipped /\ frame.failed = Top.failed
        BY <1>1 DEF Frame
      <3>4. \A p \in frame.loaded : Answers(p[2], p[1])
        BY <1>1, <1>8, <3>3 DEF FrameFits
      <3>5. /\ \A v : <<a[2], v>> \in Top.loaded => <<a[2], v>> \in frame.loaded
            /\ \A q \in Path, v \in Unit : <<q, v>> \in Top.loaded => <<q, v>> \in frame.loaded
            /\ u \in Unit /\ <<a[2], u>> \in frame.loaded
        BY <1>4, <3>3
      <3> HIDE DEF frame
      <3>6. FrameFits(frame)
        BY <1>1, <1>3, <3>2, <3>3, <3>4, <3>5 DEF FrameFits
      <3> QED
        BY <1>5, <2>1, <3>2, <3>6 DEF ImportChecked, frame
    <2>2. CASE ImportOpen(a, u)
      <3> DEFINE frame == [Top EXCEPT !.todo = @ \ {a}, !.skipped = @ \cup {a}]
      <3>1. frame \in Frame /\ frame.unit = Top.unit
        BY <1>1, <1>3 DEF Frame
      <3>2. Entangled
        BY <1>1, <1>8, <2>2, OpenMeansCycle DEF ImportOpen, CallsFit
      <3>3. FrameFits(frame)
        BY <1>1, <1>3, <3>2 DEF FrameFits, Frame
      <3> QED
        BY <1>5, <2>2, <3>1, <3>3 DEF ImportOpen
    <2>3. CASE ImportNew(a, u)
      <3>1. Open(u) \in Frame /\ Open(u).unit = u /\ FrameFits(Open(u))
        BY <1>4, <1>8, OpenIsFrame, OpenFits
      <3>2. CallsFit(Append(stack, Open(u)))
        BY <1>1, <1>2, <1>8, <3>1, PushKeepsCalls DEF Top
      <3> QED
        BY <1>1, <2>3, <3>2, CallsPrime DEF ImportNew
    <2> QED
      BY <1>8, <2>1, <2>2, <2>3
  <1> QED
    BY <1>2, <1>6, <1>7, <1>8

-----------------------------------------------------------------------------
(* What steps do to the workspace.                                         *)
LEMMA ViewUnchanged ==
  UNCHANGED world => View' = View /\ NothingInMemory' = NothingInMemory
  BY DEF View, NothingInMemory, world

LEMMA ViewFits == TypeOK => View \in Layer /\ Present(View) \subseteq File
  BY ViewIsLayer, UnitsAreUnits

(* Somebody rewrites one file; no file comes or goes, and the validation   *)
(* goes on with what it has.                                               *)
LEMMA ChangeCases ==
  ASSUME TypeOK, FilesStay, NEW f \in File, Edit(f) \/ Commit(f)
  PROVE  /\ moved' = moved + 1 /\ during' = during \cup {View'}
         /\ UNCHANGED <<verdicts, pinned, kinds, generated, installed, phase, reading,
                        diags, checking, began>>
         /\ \A g \in File : pinned'[g] # NoText \/ overlay'[g] # NoText => disk'[g] # NoText
         /\ \A g \in File : g # f => View'[g] = View[g]
         /\ Present(View') = Present(View)
  <1>1. /\ moved' = moved + 1 /\ during' = during \cup {View'}
        /\ UNCHANGED <<verdicts, pinned, kinds, generated, installed, phase, reading,
                       diags, checking, began>>
    BY DEF Edit, Commit, Change
  <1>2. PICK t \in Changed[f] :
          /\ disk[f] # NoText
          /\ \/ disk' = [disk EXCEPT ![f] = t] /\ overlay' = overlay
             \/ overlay' = [overlay EXCEPT ![f] = t] /\ disk' = disk
    BY DEF Edit, Commit
  <1>3. t # NoText
    BY LayerAssumption
  <1>4. /\ disk'[f] # NoText
        /\ \A g \in File : g # f => disk'[g] = disk[g] /\ overlay'[g] = overlay[g]
    BY <1>2, <1>3 DEF TypeOK, Layer
  <1>5. pinned' = pinned
    BY <1>1
  <1>6. \A g \in File : pinned'[g] # NoText \/ overlay'[g] # NoText => disk'[g] # NoText
    BY <1>4, <1>5 DEF FilesStay
  <1>7. \A g \in File : g # f => View'[g] = View[g]
    BY <1>4, <1>5 DEF View
  <1>8. View[f] # NoText /\ View'[f] # NoText
    BY <1>2, <1>4 DEF View
  <1>9. Present(View') = Present(View)
    BY <1>7, <1>8 DEF Present
  <1> QED
    BY <1>1, <1>6, <1>7, <1>9

LEMMA FilesStayInit == Init => FilesStay
  BY DEF Init, FilesStay, Nowhere, Present

LEMMA FilesStayStep ==
  ASSUME IInv, FilesStay, [Next]_vars
  PROVE  FilesStay'
  <1>1. TypeOK /\ View \in Layer /\ Present(View) \subseteq File /\ parsed \in Layer
    BY ViewFits DEF IInv, TypeOK
  <1>2. Present(Nowhere) = {}
    BY DEF Present, Nowhere
  <1>3. CASE Begin
    <2>1. View' = View /\ UNCHANGED world
      BY <1>3, ViewUnchanged DEF Begin
    <2> QED
      BY <1>2, <1>3, <2>1 DEF Begin, FilesStay, world
  <1>4. CASE List \/ EndList
    <2>1. View' = View /\ UNCHANGED world
      BY <1>4, ViewUnchanged DEF List, EndList
    <2>2. UNCHANGED <<during, broken, parsed>> /\ todo' \subseteq Present(View)
          /\ chosen' \subseteq Present(View)
      BY <1>4 DEF List, EndList, FilesStay, history
    <2> QED
      BY <2>1, <2>2 DEF FilesStay, world
  <1>5. CASE Parse
    <2>1. View' = View /\ UNCHANGED world /\ UNCHANGED <<during, chosen>>
      BY <1>5, ViewUnchanged DEF Parse, history
    <2>2. PICK f \in todo :
            /\ todo' = todo \ {f}
            /\ IF View[f].ok
               THEN parsed' = [parsed EXCEPT ![f] = View[f]] /\ UNCHANGED broken
               ELSE broken' = broken \cup {f} /\ UNCHANGED parsed
      BY <1>5 DEF Parse
    <2>3. f \in Present(View) /\ f \in File
      BY <1>1 DEF FilesStay
    <2>4. CASE View[f].ok
      <3>1. /\ Present(parsed') \subseteq Present(parsed) \cup {f}
            /\ \A g \in File : g # f => parsed'[g] = parsed[g]
            /\ parsed'[f] = View[f]
        BY <1>1, <2>2, <2>3, <2>4 DEF Present, Layer
      <3>2. \A g \in Present(parsed') : parsed'[g].ok
        <4> TAKE g \in Present(parsed')
        <4>1. CASE g = f
          BY <2>4, <3>1, <4>1
        <4>2. CASE g # f
          <5>1. g \in Present(parsed) /\ g \in File
            BY <3>1, <4>2 DEF Present
          <5> QED
            BY <3>1, <4>2, <5>1 DEF FilesStay
        <4> QED
          BY <4>1, <4>2
      <3>3. UNCHANGED broken /\ todo' \subseteq Present(View)
            /\ Present(parsed') \subseteq Present(View)
        BY <2>2, <2>3, <2>4, <3>1 DEF FilesStay
      <3> QED
        BY <2>1, <3>2, <3>3 DEF FilesStay, world
    <2>5. CASE ~View[f].ok
      BY <2>1, <2>2, <2>3, <2>5 DEF FilesStay, world
    <2> QED
      BY <2>4, <2>5
  <1>6. CASE EndParse
    <2>1. View' = View /\ UNCHANGED world /\ UNCHANGED during
      BY <1>6, ViewUnchanged DEF EndParse, history
    <2>2. \/ todo' = Present(View) /\ chosen' = {} /\ parsed' = Nowhere /\ broken' = {}
          \/ UNCHANGED <<todo, chosen, parsed, broken>>
      BY <1>6 DEF EndParse
    <2> QED
      BY <1>2, <2>1, <2>2 DEF FilesStay, world
  <1>7. CASE UNCHANGED <<world, todo, chosen, broken, parsed, during>>
    BY <1>7, ViewUnchanged DEF FilesStay, world
  <1>8. CASE Choose \/ Load \/ CheckNext \/ Import \/ CheckDone \/ EndCheck \/ Finish
    BY <1>7, <1>8 DEF Choose, Load, CheckNext, Import, CheckDone, EndCheck, Finish, reading,
      history
  <1>9. ASSUME NEW f \in File, Edit(f) \/ Commit(f)
        PROVE  FilesStay'
    BY <1>1, <1>9, ChangeCases DEF FilesStay, reading
  <1>10. CASE UNCHANGED vars
    BY <1>7, <1>10 DEF vars, reading, history
  <1> QED
    BY <1>3, <1>4, <1>5, <1>6, <1>8, <1>9, <1>10 DEF Next, Read

(* Whatever has been read parses, so the checker can check it.             *)
LEMMA ReadParses == TypeOK /\ FilesStay => AllParse
  BY DEF TypeOK, FilesStay, AllParse

-----------------------------------------------------------------------------
(* What could have been read, and what was read.                           *)
LEMMA OneFileChangesInit == Init => OneFileChanges
  BY DEF Init, OneFileChanges, Changes

LEMMA OneFileChangesStep ==
  ASSUME IInv, FilesStay, OneFileChanges, [Next]_vars
  PROVE  OneFileChanges'
  <1>1. TypeOK /\ moved \in Nat /\ began \in Nat
    BY DEF IInv, TypeOK
  <1>2. CASE Begin
    <2>1. View' = View /\ moved' = moved /\ began' = moved /\ during' = {View}
      BY <1>2, ViewUnchanged DEF Begin
    <2> QED
      BY <1>1, <2>1 DEF OneFileChanges, Changes
  <1>3. ASSUME UNCHANGED <<world, moved, began, during>>,
               phase' \in {"end", "done"} \/ phase \notin {"idle", "end", "done"} \/ phase' = phase
        PROVE  OneFileChanges'
    BY <1>3, ViewUnchanged DEF OneFileChanges, Changes
  <1>4. CASE Read
    BY <1>3, <1>4 DEF Read, List, EndList, Parse, EndParse, Choose, Load, history
  <1>5. CASE Finish \/ EndCheck
    BY <1>3, <1>5 DEF Finish, EndCheck, history
  <1>6. CASE CheckNext \/ Import \/ CheckDone
    BY <1>3, <1>6 DEF CheckNext, Import, CheckDone, history
  <1>7. ASSUME NEW f \in File, Edit(f) \/ Commit(f)
        PROVE  OneFileChanges'
    <2>1. /\ moved' = moved + 1 /\ began' = began /\ during' = during \cup {View'}
          /\ \A g \in File : g # f => View'[g] = View[g]
      BY <1>1, <1>7, ChangeCases
    <2>2. began' <= moved' /\ moved' # began'
      BY <1>1, <2>1 DEF OneFileChanges
    <2>3. ASSUME moved' <= 1, NEW g \in File, Changes(g)'
          PROVE  g = f
      <3>1. during \subseteq {View}
        BY <1>1, <2>1, <2>3 DEF OneFileChanges
      <3>2. PICK ws \in during', now \in during' : ws[g] # now[g]
        BY <2>3 DEF Changes
      <3> QED
        BY <2>1, <3>1, <3>2
    <2>4. \A g, h \in File : moved' <= 1 /\ Changes(g)' /\ Changes(h)' => g = h
      BY <2>3
    <2> QED
      BY <2>1, <2>2, <2>4 DEF OneFileChanges
  <1>8. CASE UNCHANGED vars
    BY <1>3, <1>8 DEF vars, history
  <1> QED
    BY <1>2, <1>4, <1>5, <1>6, <1>7, <1>8 DEF Next

LEMMA ReadingIsTrueInit == Init => ReadingIsTrue
  BY DEF Init, ReadingIsTrue, Nowhere, Present

(* The parts of ReadingIsTrue that only the phase and the workspace decide.*)
LEMMA ReadingKept ==
  ASSUME ReadingIsTrue, FilesStay,
         UNCHANGED <<world, reading, moved, began, during>>,
         phase' = phase \/ (phase' \in {"end", "done"} /\ phase \notin {"idle", "list"})
  PROVE  ReadingIsTrue'
  BY ViewUnchanged DEF ReadingIsTrue, WasBroken, WasGenerated, Everything, world, reading

LEMMA ListReadsTrue ==
  ASSUME IInv, FilesStay, OneFileChanges, ReadingIsTrue, List
  PROVE  ReadingIsTrue'
  <1>1. /\ View' = View /\ phase = "list" /\ phase' = "list" /\ View \in during
        /\ UNCHANGED <<generated, kinds, pass, selected, parsed, broken, during>>
    BY ViewUnchanged DEF List, OneFileChanges, history, world
  <1>2. PICK f \in todo :
          /\ todo' = todo \ {f}
          /\ chosen' = IF View[f].gen /\ ~generated /\ pass = 1
                       THEN chosen ELSE chosen \cup {f}
    BY DEF List
  <1>3. Everything' => chosen' \cup todo' = Present(View)
    BY <1>1, <1>2 DEF ReadingIsTrue, Everything
  <1>4. pass = 1 /\ generated => chosen' \cup todo' = Present(View)
    BY <1>1, <1>2 DEF ReadingIsTrue
  <1>5. pass = 1 => \A g \in Present(View) \ (chosen' \cup todo') : WasGenerated(g)
    BY <1>1, <1>2 DEF ReadingIsTrue, WasGenerated
  <1>6. \A g : WasGenerated(g)' <=> WasGenerated(g)
    BY <1>1 DEF WasGenerated
  <1>7. \A g \in broken : WasBroken(g)'
    BY <1>1 DEF ReadingIsTrue, WasBroken
  <1> QED
    BY <1>1, <1>3, <1>4, <1>5, <1>6, <1>7 DEF ReadingIsTrue, WasGenerated

LEMMA EndListReadsTrue ==
  ASSUME IInv, FilesStay, ReadingIsTrue, EndList
  PROVE  ReadingIsTrue'
  <1>1. /\ View' = View /\ phase = "list" /\ phase' = "parse" /\ todo = {} /\ todo' = chosen
        /\ selected' = IF pass = 1 THEN chosen ELSE selected
        /\ UNCHANGED <<generated, kinds, pass, chosen, parsed, broken, during>>
    BY ViewUnchanged DEF EndList, history, world
  <1>2. parsed = Nowhere /\ broken = {} /\ Present(parsed) = {}
    BY <1>1 DEF ReadingIsTrue, Present, Nowhere
  <1>3. pass \in 1..2
    BY DEF IInv, TypeOK
  <1>4. \A f \in Present(View) \ selected' : ~generated /\ WasGenerated(f)
    BY <1>1, <1>3 DEF ReadingIsTrue
  <1>5. \A f : WasGenerated(f)' <=> WasGenerated(f)
    BY <1>1 DEF WasGenerated
  <1>6. Everything' => chosen' = Present(View)
    BY <1>1 DEF ReadingIsTrue, Everything
  <1> QED
    BY <1>1, <1>2, <1>4, <1>5, <1>6 DEF ReadingIsTrue, WasGenerated

LEMMA ParseReadsTrue ==
  ASSUME IInv, FilesStay, OneFileChanges, ReadingIsTrue, Parse
  PROVE  ReadingIsTrue'
  <1>1. /\ View' = View /\ phase = "parse" /\ phase' = "parse" /\ View \in during
        /\ UNCHANGED <<generated, kinds, pass, selected, chosen, during>>
    BY ViewUnchanged DEF Parse, OneFileChanges, history, world
  <1>2. PICK f \in todo :
          /\ todo' = todo \ {f}
          /\ IF View[f].ok
             THEN parsed' = [parsed EXCEPT ![f] = View[f]] /\ UNCHANGED broken
             ELSE broken' = broken \cup {f} /\ UNCHANGED parsed
    BY DEF Parse
  <1>3. f \in File /\ View[f] # NoText /\ parsed \in Layer
    BY DEF FilesStay, Present, IInv, TypeOK
  <1>4. /\ Present(parsed') \cup broken' = Present(parsed) \cup broken \cup {f}
        /\ \A g \in Present(parsed') :
             \/ g = f /\ parsed'[g] = View[g]
             \/ g \in Present(parsed) /\ parsed'[g] = parsed[g]
        /\ \A g \in broken' : g \in broken \/ (g = f /\ ~View[f].ok)
    <2>1. CASE View[f].ok
      <3>1. /\ \A g \in File : g # f => parsed'[g] = parsed[g]
            /\ parsed'[f] = View[f] /\ broken' = broken
        BY <1>2, <1>3, <2>1 DEF Layer
      <3> QED
        BY <1>3, <3>1 DEF Present
    <2>2. CASE ~View[f].ok
      BY <1>2, <2>2
    <2> QED
      BY <2>1, <2>2
  <1>5. \A g \in Present(parsed') : \E ws \in during : parsed'[g] = ws[g]
    BY <1>1, <1>4 DEF ReadingIsTrue
  <1>6. \A g \in broken' : WasBroken(g)'
    BY <1>1, <1>4 DEF ReadingIsTrue, WasBroken
  <1>7. /\ chosen = Present(parsed') \cup broken' \cup todo'
        /\ Everything' => chosen = Present(View)
    BY <1>1, <1>2, <1>4 DEF ReadingIsTrue, Everything
  <1>8. \A g \in Present(View) \ selected : ~generated /\ WasGenerated(g)'
    BY <1>1 DEF ReadingIsTrue, WasGenerated
  <1> QED
    BY <1>1, <1>5, <1>6, <1>7, <1>8 DEF ReadingIsTrue

LEMMA EndParseReadsTrue ==
  ASSUME IInv, FilesStay, ReadingIsTrue, EndParse
  PROVE  ReadingIsTrue'
  <1>1. /\ View' = View /\ phase = "parse" /\ todo = {}
        /\ UNCHANGED <<generated, kinds, selected, during>>
    BY ViewUnchanged DEF EndParse, history, world
  <1>2. \A g \in Present(View) \ selected : ~generated /\ WasGenerated(g)'
    BY <1>1 DEF ReadingIsTrue, WasGenerated
  <1>3. pass \in 1..2
    BY DEF IInv, TypeOK
  <1>4. CASE /\ phase' = "list" /\ pass' = 2 /\ todo' = Present(View)
             /\ chosen' = {} /\ parsed' = Nowhere /\ broken' = {}
    <2>1. Present(parsed') = {}
      BY <1>4 DEF Present, Nowhere
    <2> QED
      BY <1>1, <1>2, <1>4, <2>1 DEF ReadingIsTrue
  <1>5. CASE /\ ~(pass = 1 /\ "typecheck" \in kinds /\ ~generated)
             /\ phase' = (IF "typecheck" \in kinds THEN "choose" ELSE "end")
             /\ UNCHANGED <<pass, todo, chosen, parsed, broken>>
    <2>1. \A g \in broken : WasBroken(g)'
      BY <1>1 DEF ReadingIsTrue, WasBroken
    <2>2. phase' = "choose" =>
            "typecheck" \in kinds /\ Present(parsed) \cup broken = Present(View)
      BY <1>1, <1>3, <1>5 DEF ReadingIsTrue, Everything
    <2>3. phase' \in {"choose", "end"}
      BY <1>5
    <2> QED
      BY <1>1, <1>2, <1>5, <2>1, <2>2, <2>3 DEF ReadingIsTrue
  <1> QED
    BY <1>4, <1>5 DEF EndParse

LEMMA ChooseReadsTrue ==
  ASSUME IInv, FilesStay, OneFileChanges, ReadingIsTrue, Choose
  PROVE  ReadingIsTrue'
  <1>1. /\ View' = View /\ phase = "choose" /\ View \in during
        /\ UNCHANGED <<world, reading, during, moved, began>>
    BY ViewUnchanged DEF Choose, OneFileChanges, history
  <1>2. CASE NothingInMemory /\ phase' = "load"
    <2>1. View = disk
      BY <1>2 DEF NothingInMemory, View, Nowhere, IInv, TypeOK, Layer
    <2>2. disk' \in during' /\ NothingInMemory'
      BY <1>1, <1>2, <2>1, ViewUnchanged DEF world
    <2> QED
      BY <1>1, <1>2, <2>2 DEF ReadingIsTrue, WasBroken, WasGenerated, Everything, world,
        reading
  <1>3. CASE phase' = "end"
    BY <1>1, <1>3, ReadingKept
  <1>4. CASE broken = {} /\ phase' = "check"
    BY <1>1, <1>4 DEF ReadingIsTrue, WasBroken, WasGenerated, Everything, world, reading
  <1> QED
    BY <1>2, <1>3, <1>4 DEF Choose

LEMMA ChangeReadsTrue ==
  ASSUME IInv, FilesStay, OneFileChanges, ReadingIsTrue,
         NEW f \in File, Edit(f) \/ Commit(f)
  PROVE  ReadingIsTrue'
  <1>1. TypeOK /\ moved \in Nat /\ began \in Nat
    BY DEF IInv, TypeOK
  <1>2. /\ moved' = moved + 1 /\ during' = during \cup {View'}
        /\ UNCHANGED <<pinned, kinds, generated, phase, reading, began>>
        /\ Present(View') = Present(View)
    BY <1>1, ChangeCases
  <1>3. /\ \A g : WasGenerated(g) => WasGenerated(g)'
        /\ \A g : WasBroken(g) => WasBroken(g)'
    BY <1>2 DEF WasGenerated, WasBroken
  <1>4. moved' # began'
    BY <1>1, <1>2 DEF OneFileChanges
  <1>5. ASSUME phase = "load", moved' <= 1
        PROVE  disk' \in during'
    <2>1. disk \in during /\ NothingInMemory
      BY <1>1, <1>2, <1>5 DEF ReadingIsTrue, OneFileChanges
    <2>2. CASE Edit(f)
      <3>1. overlay' = Nowhere /\ pinned' = Nowhere
        BY <1>2, <2>1, <2>2 DEF Edit, NothingInMemory
      <3>2. disk' \in Layer
        BY <2>2, LayerAssumption, <1>1 DEF Edit, TypeOK, Layer
      <3>3. View' = disk'
        BY <3>1, <3>2 DEF View, Nowhere, Layer
      <3> QED
        BY <1>2, <3>3
    <2>3. CASE Commit(f)
      BY <1>2, <2>1, <2>3 DEF Commit
    <2> QED
      BY <2>2, <2>3
  <1> QED
    BY <1>2, <1>3, <1>4, <1>5 DEF ReadingIsTrue, reading, Everything

LEMMA ReadingIsTrueStep ==
  ASSUME IInv, FilesStay, OneFileChanges, ReadingIsTrue, [Next]_vars
  PROVE  ReadingIsTrue'
  <1>1. CASE Begin
    <2>1. View' = View /\ Present(Nowhere) = {}
      BY <1>1, ViewUnchanged DEF Begin, Present, Nowhere
    <2> QED
      BY <1>1, <2>1 DEF Begin, ReadingIsTrue
  <1>2. CASE List \/ EndList \/ Parse \/ EndParse \/ Choose
    BY <1>2, ListReadsTrue, EndListReadsTrue, ParseReadsTrue, EndParseReadsTrue,
       ChooseReadsTrue
  <1>3. CASE Load \/ Finish \/ EndCheck \/ CheckNext \/ Import \/ CheckDone
    BY <1>3, ReadingKept DEF Load, Finish, EndCheck, CheckNext, Import, CheckDone, history
  <1>4. ASSUME NEW f \in File, Edit(f) \/ Commit(f)
        PROVE  ReadingIsTrue'
    BY <1>4, ChangeReadsTrue
  <1>5. CASE UNCHANGED vars
    <2>1. UNCHANGED <<world, reading, moved, began, during>> /\ phase' = phase
      BY <1>5 DEF vars, history
    <2> QED
      BY <2>1, ReadingKept
  <1> QED
    BY <1>1, <1>2, <1>3, <1>4, <1>5 DEF Next, Read

-----------------------------------------------------------------------------
(* The checker misses nothing.                                             *)
LEMMA CheckerIsThoroughInit == Init => CheckerIsThorough
  BY DEF Init, CheckerIsThorough

(* What has been checked stays checked while the checker goes on.          *)
LEMMA OverlookedKept ==
  ASSUME NothingOverlooked, parsed' = parsed, selected' = selected, checked' = checked,
         diags' = diags
  PROVE  NothingOverlooked'
  BY DEF NothingOverlooked, Entangled

LEMMA CoveredCases ==
  ASSUME parsed' = parsed, roots' \subseteq Units(parsed), checked' \subseteq Units(parsed),
         Units(parsed) \subseteq roots' \cup checked' \cup OnStack'
  PROVE  UnitsCovered'
  BY DEF UnitsCovered

LEMMA CheckNextIsThorough ==
  ASSUME IInv, FilesStay, CheckerIsThorough, CheckNext
  PROVE  CheckerIsThorough'
  <1>1. PICK u \in roots :
          /\ roots' = roots \ {u}
          /\ stack' = IF u \in checked THEN <<>> ELSE <<Open(u)>>
    BY DEF CheckNext
  <1>2. /\ phase = "check" /\ phase' = "check" /\ stack = <<>>
        /\ UNCHANGED <<parsed, selected, checked, diags>>
        /\ UnitsCovered /\ NothingOverlooked
    BY DEF CheckNext, reading, CheckerIsThorough
  <1>3. u \in Units(parsed) /\ FrameFits(Open(u)) /\ Open(u).unit = u
    BY <1>1, <1>2, OpenFits DEF UnitsCovered, Open
  <1>4. CallsFit(stack') /\ (u \in checked \/ u \in OnStack')
    <2>1. CASE u \in checked
      BY <1>1, <2>1 DEF CallsFit, Chained
    <2>2. CASE u \notin checked
      <3>1. stack' = <<Open(u)>>
        BY <1>1, <2>2
      <3> QED
        BY <1>3, <3>1 DEF CallsFit, Chained, OnStack
    <2> QED
      BY <2>1, <2>2
  <1>5. OnStack = {}
    BY <1>2 DEF OnStack
  <1>6. UnitsCovered'
    BY <1>1, <1>2, <1>4, <1>5, CoveredCases DEF UnitsCovered
  <1>7. CallsFit(stack)'
    BY <1>2, <1>4, CallsPrime
  <1> QED
    BY <1>2, <1>6, <1>7, OverlookedKept DEF CheckerIsThorough

LEMMA ImportIsThorough ==
  ASSUME IInv, FilesStay, CheckerIsThorough, Import
  PROVE  CheckerIsThorough'
  <1>1. /\ phase = "check" /\ phase' = "check" /\ stack # <<>>
        /\ UNCHANGED <<parsed, selected, checked, diags, roots>>
        /\ UnitsCovered /\ NothingOverlooked /\ CallsFit(stack)
    BY DEF Import, reading, CheckerIsThorough
  <1>2. TypeOK /\ AllParse /\ stack \in Seq(Frame) /\ Len(stack) \in Nat \ {0}
    BY <1>1, ReadParses, TopIsFrame DEF IInv, TypeOK
  <1>3. OnStack \subseteq OnStack'
    <2>1. CASE \E frame : Resolved(frame)
      <3>1. PICK frame \in Frame :
              frame.unit = stack[Len(stack)].unit /\ stack' = [stack EXCEPT ![Len(stack)] = frame]
        BY <2>1 DEF Resolved, Resolve, Top
      <3>2. Len(stack') = Len(stack) /\ \A i \in 1..Len(stack) : stack'[i].unit = stack[i].unit
        BY <1>2, <3>1
      <3> QED
        BY <3>2 DEF OnStack
    <2>2. CASE \E u \in Unit : u \notin checked \cup OnStack
                               /\ stack' = Append(stack, Open(u))
      <3>1. PICK u \in Unit : stack' = Append(stack, Open(u))
        BY <2>2
      <3>2. Len(stack') = Len(stack) + 1 /\ \A i \in 1..Len(stack) : stack'[i] = stack[i]
        BY <1>2, <3>1, OpenIsFrame
      <3>3. \A i \in 1..Len(stack) : i \in 1..Len(stack')
        BY <1>2, <3>2
      <3> QED
        BY <3>2, <3>3 DEF OnStack
    <2> QED
      BY <1>2, <2>1, <2>2, ImportCases
  <1>4. UnitsCovered'
    BY <1>1, <1>3, CoveredCases DEF UnitsCovered
  <1>5. CallsFit(stack)'
    BY <1>1, <1>2, ImportFits
  <1> QED
    BY <1>1, <1>4, <1>5, OverlookedKept DEF CheckerIsThorough

LEMMA CheckDoneIsThorough ==
  ASSUME IInv, FilesStay, CheckerIsThorough, CheckDone
  PROVE  CheckerIsThorough'
  <1>1. /\ phase = "check" /\ phase' = "check" /\ stack # <<>> /\ Top.todo = {}
        /\ UNCHANGED <<parsed, selected, roots>>
        /\ diags' = diags \cup Selected(UnitErrors(Top))
        /\ checked' = checked \cup {Top.unit}
        /\ UnitsCovered /\ NothingOverlooked /\ CallsFit(stack)
    BY DEF CheckDone, reading, CheckerIsThorough
  <1>2. TypeOK /\ AllParse /\ stack \in Seq(Frame) /\ Len(stack) \in Nat \ {0}
    BY <1>1, ReadParses, TopIsFrame DEF IInv, TypeOK
  <1>3. FrameFits(Top) /\ Top.unit \in Units(parsed) /\ Top = stack[Len(stack)]
    BY <1>1, <1>2 DEF CallsFit, FrameFits, Top
  <1>4. NothingOverlooked'
    <2> SUFFICES ASSUME NEW u \in checked', ~ImportsExternal(parsed), ~Entangled,
                        NEW f \in FilesOf(parsed, u) \cap selected, FileErrors(parsed, f) # {}
                 PROVE  diags' # {}
      BY <1>1 DEF NothingOverlooked, Entangled
    <2>1. CASE u \in checked
      BY <1>1, <2>1 DEF NothingOverlooked
    <2>2. CASE u = Top.unit
      <3>1. PICK e : <<f, e>> \in UnitErrors(Top)
        BY <1>1, <1>2, <1>3, <2>2, CheckErrorsAreAll
      <3>2. <<f, e>> \in Selected(UnitErrors(Top))
        BY <3>1 DEF Selected
      <3> QED
        BY <1>1, <3>2
    <2> QED
      BY <1>1, <2>1, <2>2
  <1>5. CallsFit(stack') /\ OnStack \subseteq OnStack' \cup {Top.unit}
    <2>1. CASE Len(stack) = 1 /\ stack' = <<>>
      BY <1>3, <2>1 DEF CallsFit, Chained, OnStack
    <2>2. CASE Len(stack) > 1
      <3> DEFINE n == Len(stack) - 1
                 t == SubSeq(stack, 1, n)
      <3>1. /\ t \in Seq(Frame) /\ Len(t) = n /\ CallsFit(t)
            /\ \A j \in 1..n : t[j] = stack[j]
        BY <1>1, <1>2, <2>2, PopKeepsCalls
      <3>2. n \in Nat /\ n # 0 /\ n \in 1..n /\ n \in 1..Len(stack)
            /\ \A j \in 1..Len(stack) : j \in 1..n \/ j = Len(stack)
        <4>1. \A m \in Nat : m > 1 => /\ m - 1 \in Nat /\ m - 1 # 0
                                      /\ m - 1 \in 1..(m - 1) /\ m - 1 \in 1..m
                                      /\ \A j \in 1..m : j \in 1..(m - 1) \/ j = m
          OBVIOUS
        <4> QED
          BY <1>2, <2>2, <4>1
      <3> DEFINE caller == stack[n]
      <3>3. PICK a \in caller.todo :
              /\ a = NextImport(caller.todo)
              /\ stack' = [t EXCEPT ![n] = [caller EXCEPT !.todo = @ \ {a},
                                               !.loaded = @ \cup {<<a[2], Top.unit>>}]]
        <4>1. Len(stack) # 1
          <5>1. \A m \in Nat : m > 1 => m # 1
            OBVIOUS
          <5> QED
            BY <1>2, <2>2, <5>1
        <4> QED
          BY <4>1, Zenon DEF CheckDone
      <3> DEFINE frame == [caller EXCEPT !.todo = @ \ {a},
                                         !.loaded = @ \cup {<<a[2], Top.unit>>}]
      <3>4. caller \in Frame /\ FrameFits(caller) /\ t[n] = caller
        BY <1>1, <1>2, <3>1, <3>2 DEF CallsFit
      <3>5. Answers(Top.unit, a[2])
        <4>1. n + 1 = Len(stack) /\ n \in 1..(Len(stack) - 1)
          BY <1>2, <3>2
        <4> QED
          BY <1>1, <1>3, <3>3, <4>1 DEF CallsFit, Chained
      <3>6. a[2] \in Path /\ Top.unit \in Unit
        BY <1>2, <1>3, <3>3, <3>4, UnitsAreUnits DEF AllParse, Frame
      <3>7. /\ frame.todo = caller.todo \ {a}
            /\ frame.loaded = caller.loaded \cup {<<a[2], Top.unit>>}
            /\ frame.skipped = caller.skipped /\ frame.failed = caller.failed
            /\ frame.unit = caller.unit
        <4> HIDE DEF caller
        <4> QED
          BY <3>4 DEF Frame
      <3>8. frame \in Frame
        <4>1. <<a[2], Top.unit>> \in Path \X Unit
          BY <3>6
        <4> HIDE DEF caller
        <4> QED
          BY <3>4, <4>1 DEF Frame
      <3>9. FrameFits(frame)
        <4>1. \A p \in frame.loaded : Answers(p[2], p[1])
          <5> HIDE DEF caller, frame
          <5> QED
            BY <3>4, <3>5, <3>7 DEF FrameFits
        <4>2. /\ \A q \in Path, v \in Unit : <<q, v>> \in caller.loaded => <<q, v>> \in frame.loaded
              /\ <<a[2], Top.unit>> \in frame.loaded
              /\ \A b \in ImportsOf(parsed, caller.unit) : b[2] \in Path
          <5> HIDE DEF caller, frame
          <5> QED
            BY <3>7 DEF ImportsOf
        <4> HIDE DEF caller, frame
        <4> QED
          BY <3>4, <3>6, <3>7, <4>1, <4>2 DEF FrameFits
      <3>10. CallsFit(stack')
        <4> HIDE DEF t, caller, n
        <4>1. t # <<>>
          BY <3>1, <3>2
        <4>2. frame.unit = t[Len(t)].unit
          BY <3>1, <3>4, <3>7
        <4> HIDE DEF frame
        <4>3. CallsFit([t EXCEPT ![Len(t)] = frame])
          BY <3>1, <3>8, <3>9, <4>1, <4>2, ReplaceKeepsCalls
        <4> QED
          BY <3>1, <3>3, <4>3 DEF frame
      <3>11. Len(stack') = n /\ \A j \in 1..n : stack'[j].unit = stack[j].unit
        <4> HIDE DEF t, caller, n
        <4>1. frame.unit = t[n].unit /\ stack' = [t EXCEPT ![n] = frame]
          BY <3>3, <3>4, <3>7
        <4> HIDE DEF frame
        <4> QED
          BY <3>1, <4>1
      <3>12. OnStack \subseteq OnStack' \cup {Top.unit}
        <4> SUFFICES ASSUME NEW i \in 1..Len(stack)
                     PROVE  stack[i].unit \in OnStack' \cup {Top.unit}
          BY DEF OnStack
        <4>1. CASE i \in 1..n
          BY <3>11, <4>1 DEF OnStack
        <4>2. CASE i = Len(stack)
          BY <1>3, <4>2
        <4> QED
          BY <3>2, <4>1, <4>2
      <3> QED
        BY <3>10, <3>12
    <2> QED
      BY <2>1, <2>2 DEF CheckDone
  <1>6. UnitsCovered'
    BY <1>1, <1>3, <1>5, CoveredCases DEF UnitsCovered
  <1>7. CallsFit(stack)'
    BY <1>1, <1>5, CallsPrime
  <1> QED
    BY <1>1, <1>4, <1>6, <1>7 DEF CheckerIsThorough

LEMMA CheckerIsThoroughStep ==
  ASSUME IInv, FilesStay, CheckerIsThorough, [Next]_vars
  PROVE  CheckerIsThorough'
  <1>1. CASE Begin
    BY <1>1 DEF Begin, CheckerIsThorough
  <1>2. CASE List \/ EndList \/ Parse \/ EndParse
    <2>1. /\ phase \in {"list", "parse"} /\ phase' \in {"list", "parse", "choose", "end"}
          /\ UNCHANGED <<stack, checked>>
      BY <1>2 DEF List, EndList, Parse, EndParse, checking
    <2> QED
      BY <2>1 DEF CheckerIsThorough
  <1>3. CASE Choose
    <2>1. /\ phase = "choose" /\ stack = <<>> /\ checked = {}
          /\ UNCHANGED <<stack, checked, parsed>>
          /\ \/ phase' \in {"load", "end"}
             \/ phase' = "check" /\ roots' = Units(parsed)
      BY <1>3 DEF Choose, reading, CheckerIsThorough
    <2>2. CASE phase' \in {"load", "end"}
      BY <2>2 DEF CheckerIsThorough
    <2>3. CASE phase' = "check" /\ roots' = Units(parsed)
      <3>1. UnitsCovered'
        BY <2>1, <2>3, CoveredCases
      <3>2. CallsFit(stack')
        BY <2>1 DEF CallsFit, Chained
      <3>3. CallsFit(stack)' /\ NothingOverlooked'
        BY <2>1, <3>2, CallsPrime DEF NothingOverlooked
      <3> QED
        BY <2>3, <3>1, <3>3 DEF CheckerIsThorough
    <2> QED
      BY <2>1, <2>2, <2>3
  <1>4. CASE Load \/ EndCheck \/ Finish
    BY <1>4 DEF Load, EndCheck, Finish, CheckerIsThorough
  <1>5. CASE CheckNext \/ Import \/ CheckDone
    BY <1>5, CheckNextIsThorough, ImportIsThorough, CheckDoneIsThorough
  <1>6. ASSUME UNCHANGED <<phase, parsed, selected, diags, roots, checked, stack>>
        PROVE  CheckerIsThorough'
    <2>1. UnitsCovered => UnitsCovered'
      BY <1>6 DEF UnitsCovered, OnStack
    <2>2. CallsFit(stack) => CallsFit(stack)'
      BY <1>6, CallsPrime
    <2> QED
      BY <1>6, <2>1, <2>2, OverlookedKept DEF CheckerIsThorough
  <1>7. ASSUME NEW f \in File, Edit(f) \/ Commit(f)
        PROVE  CheckerIsThorough'
    BY <1>6, <1>7 DEF Edit, Commit, Change, reading, checking
  <1>8. CASE UNCHANGED vars
    BY <1>6, <1>8 DEF vars, reading, checking
  <1> QED
    BY <1>1, <1>2, <1>3, <1>4, <1>5, <1>7, <1>8 DEF Next, Read

-----------------------------------------------------------------------------
(* The verdicts.                                                           *)

(* With one change of one file, what the checker has read from one moment  *)
(* to another is what lay there at some moment.                            *)
LEMMA ParsedWasThere ==
  ASSUME TypeOK, FilesStay, OneFileChanges, ReadingIsTrue, phase = "check", moved <= 1
  PROVE  parsed \in during
  <1>1. /\ View \in during /\ during \subseteq Layer /\ parsed \in Layer
        /\ Present(parsed) = Present(View)
        /\ \A ws \in during : Present(ws) = Present(View)
        /\ \A f \in Present(parsed) : \E ws \in during : parsed[f] = ws[f]
        /\ \A f, g \in File : Changes(f) /\ Changes(g) => f = g
    BY DEF TypeOK, FilesStay, OneFileChanges, ReadingIsTrue
  <1>2. ASSUME NEW now \in during, NEW f \in File, ~Changes(f)
        PROVE  parsed[f] = now[f]
    <2>1. CASE f \in Present(parsed)
      BY <1>1, <1>2, <2>1 DEF Changes
    <2>2. CASE f \notin Present(parsed)
      BY <1>1, <1>2, <2>2 DEF Present
    <2> QED
      BY <2>1, <2>2
  <1>3. CASE \A f \in File : ~Changes(f)
    <2>1. parsed = View
      BY <1>1, <1>2, <1>3 DEF Layer
    <2> QED
      BY <1>1, <2>1
  <1>4. ASSUME NEW f \in File, Changes(f)
        PROVE  parsed \in during
    <2>1. f \in Present(View)
      BY <1>1, <1>4 DEF Changes, Present
    <2>2. PICK ws \in during : parsed[f] = ws[f]
      BY <1>1, <2>1
    <2>3. \A g \in File : parsed[g] = ws[g]
      BY <1>1, <1>2, <1>4, <2>2
    <2>4. parsed = ws
      BY <1>1, <2>3 DEF Layer
    <2> QED
      BY <2>4
  <1> QED
    BY <1>3, <1>4

(* What is pending or committed stays.                                     *)
LEMMA InMemoryStays ==
  ASSUME TypeOK, ~NothingInMemory, [Next]_vars
  PROVE  ~NothingInMemory'
  <1>1. CASE UNCHANGED world
    BY <1>1, ViewUnchanged
  <1>2. ASSUME NEW f \in File, Edit(f)
        PROVE  ~NothingInMemory'
    BY <1>2 DEF Edit, Change, NothingInMemory, Nowhere
  <1>3. ASSUME NEW f \in File, Commit(f)
        PROVE  ~NothingInMemory'
    <2>1. PICK t \in Changed[f] : overlay' = [overlay EXCEPT ![f] = t]
      BY <1>3 DEF Commit
    <2>2. t # NoText
      BY LayerAssumption
    <2>3. overlay'[f] = t
      BY <2>1 DEF TypeOK, Layer
    <2>4. Nowhere[f] = NoText
      BY DEF Nowhere
    <2> HIDE DEF Nowhere
    <2>5. overlay' # Nowhere
      BY <2>2, <2>3, <2>4
    <2>6. Nowhere' = Nowhere
      BY DEF Nowhere
    <2> QED
      BY <2>5, <2>6 DEF NothingInMemory
  <1> QED
    BY <1>1, <1>2, <1>3 DEF Next, Read, vars, Begin, List, EndList, Parse, EndParse, Choose,
       Load, Finish, CheckNext, Import, CheckDone, EndCheck

LEMMA CheckedInMemoryStep ==
  ASSUME TypeOK, CheckedInMemory, [Next]_vars
  PROVE  CheckedInMemory'
  <1>1. CASE phase = "check"
    BY <1>1, InMemoryStays DEF CheckedInMemory
  <1>2. CASE phase # "check" /\ phase' = "check"
    <2>1. Choose
      BY <1>2 DEF Next, Read, vars, Begin, List, EndList, Parse, EndParse, Load, Finish,
         CheckNext, Import, CheckDone, EndCheck, Edit, Commit, Change
    <2>2. ~NothingInMemory /\ UNCHANGED world
      BY <1>2, <2>1 DEF Choose
    <2> QED
      BY <2>2, ViewUnchanged DEF CheckedInMemory
  <1> QED
    BY <1>1, <1>2 DEF CheckedInMemory

(* A file that could not be parsed lay there.                              *)
LEMMA BrokenIsReal ==
  ASSUME TypeOK, FilesStay, ReadingIsTrue, broken # {}
  PROVE  \E ws \in during : ~Builds(ws)
  <1>1. PICK f \in broken : WasBroken(f) /\ f \in Present(View)
    BY DEF ReadingIsTrue, FilesStay
  <1>2. PICK ws \in during : ~ws[f].ok
    BY <1>1 DEF WasBroken
  <1>3. f \in Present(ws) /\ FileErrors(ws, f) # {}
    BY <1>1, <1>2 DEF FilesStay, FileErrors
  <1> QED
    BY <1>3, FileErrorBreaks

LEMMA FailuresSoFarStep ==
  ASSUME IInv, FilesStay, OneFileChanges, ReadingIsTrue, CheckerIsThorough, FailuresSoFar,
         CheckedInMemory, [Next]_vars
  PROVE  FailuresSoFar'
  <1>1. TypeOK /\ moved \in Nat
    BY DEF IInv, TypeOK
  <1>2. CASE Begin
    BY <1>2 DEF Begin, FailuresSoFar
  <1>11. UNCHANGED installed
    BY DEF Next, Read, vars, Begin, List, EndList, Parse, EndParse, Choose, Load, Finish,
       CheckNext, Import, CheckDone, EndCheck, Edit, Commit, Change, world
  <1>12. \A ws : ReliesOnAbsent(ws) => ReliesOnAbsent(ws)'
    BY <1>1, <1>11, InMemoryStays DEF ReliesOnAbsent, Present
  <1>3. ASSUME UNCHANGED <<moved, during>>, diags' \subseteq diags
        PROVE  FailuresSoFar'
    BY <1>3, <1>12 DEF FailuresSoFar
  <1>4. ASSUME UNCHANGED <<moved, during>>,
               moved <= 1 =>
                 \E ws \in during : ImportsTested(ws) \/ ReliesOnAbsent(ws) \/ ~Builds(ws)
        PROVE  FailuresSoFar'
    BY <1>4, <1>12 DEF FailuresSoFar
  <1>5. CASE List \/ EndList \/ Parse \/ CheckNext \/ Import \/ EndCheck \/ Finish
    BY <1>3, <1>5 DEF List, EndList, Parse, CheckNext, Import, EndCheck, Finish, history
  <1>6. CASE EndParse \/ Choose
    <2>1. UNCHANGED <<moved, during>>
      BY <1>6 DEF EndParse, Choose, history
    <2>2. CASE broken = {}
      <3>1. ParseDiags = {} /\ Selected(ParseDiags) = {}
        BY <2>2 DEF ParseDiags, Selected
      <3> QED
        BY <1>3, <1>6, <2>1, <3>1 DEF EndParse, Choose
    <2>3. CASE broken # {}
      BY <1>1, <1>4, <2>1, <2>3, BrokenIsReal
    <2> QED
      BY <2>2, <2>3
  <1>7. CASE Load
    <2>1. /\ UNCHANGED <<moved, during>>
          /\ moved <= 1 => disk \in during
      BY <1>7 DEF Load, history, ReadingIsTrue
    <2>2. CASE Builds(disk)
      <3>1. Errors(disk) = {} /\ CycleErrors(disk) = {}
        BY <2>2 DEF Builds, Errors
      <3>2. diags' = diags
        BY <1>7, <3>1 DEF Load, Kept
      <3> QED
        BY <1>3, <2>1, <3>2
    <2>3. CASE ~Builds(disk)
      BY <1>4, <2>1, <2>3
    <2> QED
      BY <2>2, <2>3
  <1>8. CASE CheckDone
    <2>1. /\ UNCHANGED <<moved, during>> /\ phase = "check" /\ stack # <<>>
          /\ diags' = diags \cup Selected(UnitErrors(Top))
      BY <1>8 DEF CheckDone, history
    <2>2. AllParse /\ FrameFits(Top) /\ Top.todo = {}
      <3>1. Top.todo = {}
        BY <1>8 DEF CheckDone
      <3>2. AllParse /\ FrameFits(Top)
        BY <1>1, <2>1, ReadParses, TopIsFrame DEF CheckerIsThorough, CallsFit, Top
      <3> QED
        BY <3>1, <3>2
    <2>3. CASE UnitErrors(Top) = {}
      BY <1>3, <2>1, <2>3 DEF Selected
    <2>4. CASE UnitErrors(Top) # {}
      <3>1. moved <= 1 => parsed \in during
        BY <1>1, <2>1, ParsedWasThere
      <3>2. ImportsTested(parsed) \/ ReliesOnAbsent(parsed) \/ ~Builds(parsed)
        BY <2>1, <2>2, <2>4, CheckErrorsAreReal DEF ReliesOnAbsent, CheckedInMemory
      <3> QED
        BY <1>4, <2>1, <3>1, <3>2
    <2> QED
      BY <2>3, <2>4
  <1>9. ASSUME NEW f \in File, Edit(f) \/ Commit(f)
        PROVE  FailuresSoFar'
    <2>1. moved' = moved + 1 /\ diags' = diags /\ during \subseteq during'
      BY <1>1, <1>9, ChangeCases
    <2> QED
      BY <1>1, <1>12, <2>1 DEF FailuresSoFar
  <1>10. CASE UNCHANGED vars
    BY <1>3, <1>10 DEF vars, history
  <1> QED
    BY <1>2, <1>5, <1>6, <1>7, <1>8, <1>9, <1>10 DEF Next, Read

(* The silence of a validation that is over is a workspace without errors, *)
(* or one of the excuses.                                                  *)
Excused ==
  \/ BrokenGenerated /\ ~generated
  \/ \E ws \in during :
       \/ ImportsExternal(ws) \/ ImportsTested(ws) \/ Cyclic(ws)
       \/ Selected(Errors(ws)) = {}

LEMMA ExcuseStays ==
  ASSUME Excused, during \subseteq during', UNCHANGED <<generated, selected>>
  PROVE  Excused'
  BY DEF Excused, BrokenGenerated, Selected

(* No error of a file in the scope means none in the scope but cycles.     *)
LEMMA NoFileErrors ==
  ASSUME NEW ws, ~Cyclic(ws),
         \A f \in Present(ws) \cap selected : FileErrors(ws, f) = {}
  PROVE  Selected(Errors(ws)) = {}
  <1>1. CycleErrors(ws) = {}
    BY CyclicIsError
  <1> QED
    BY <1>1 DEF Selected, Errors

LEMMA PassesSoFarStep ==
  ASSUME IInv, FilesStay, OneFileChanges, ReadingIsTrue, CheckerIsThorough, PassesSoFar,
         [Next]_vars
  PROVE  PassesSoFar'
  <1>1. TypeOK /\ moved \in Nat
    BY DEF IInv, TypeOK
  <1>2. PassesSoFar <=>
          (phase \in {"end", "done"} /\ "typecheck" \in kinds /\ diags = {} /\ moved <= 1
             => Excused)
    BY DEF PassesSoFar, Excused
  <1>3. PassesSoFar' <=>
          (phase' \in {"end", "done"} /\ "typecheck" \in kinds' /\ diags' = {} /\ moved' <= 1
             => Excused')
    BY DEF PassesSoFar, Excused
  <1>4. CASE phase' \notin {"end", "done"} \/ "typecheck" \notin kinds'
    BY <1>3, <1>4
  <1>5. CASE Choose /\ phase' = "end" /\ moved' <= 1 /\ diags' = {}
    <2>1. /\ UNCHANGED <<during, generated, selected>> /\ phase = "choose"
          /\ broken # {} /\ Selected(ParseDiags) = {} /\ View \in during
      BY <1>5 DEF Choose, history, world, reading, OneFileChanges
    <2>2. PICK f \in broken : TRUE
      BY <2>1
    <2>3. f \in Present(View) /\ WasBroken(f) /\ f \notin selected
      <3>1. f \in Present(View)
        BY <2>2 DEF FilesStay
      <3>2. WasBroken(f)
        BY <2>2 DEF ReadingIsTrue
      <3>3. <<f, "parse">> \in ParseDiags /\ <<f, "parse">> \notin Selected(ParseDiags)
        BY <2>1, <2>2 DEF ParseDiags
      <3>4. f \notin selected
        BY <3>3 DEF Selected
      <3> QED
        BY <3>1, <3>2, <3>4
    <2>4. ~generated /\ WasGenerated(f)
      BY <2>1, <2>3 DEF ReadingIsTrue
    <2>5. f \in File /\ \A ws \in during : ws[f] # NoText
      BY <2>3 DEF FilesStay, Present
    <2>6. BrokenGenerated
      BY <2>3, <2>4, <2>5 DEF BrokenGenerated, WasBroken, WasGenerated
    <2>7. Excused
      BY <2>4, <2>6 DEF Excused
    <2> QED
      BY <1>3, <2>1, <2>7, ExcuseStays
  <1>6. CASE Load /\ moved' <= 1 /\ diags' = {}
    <2>1. /\ UNCHANGED <<during, generated, selected>> /\ disk \in during
      BY <1>6 DEF Load, history, world, reading, ReadingIsTrue
    <2>2. PICK C \in SUBSET CycleErrors(disk) :
            diags' = diags \cup Kept((Errors(disk) \ CycleErrors(disk)) \cup C)
      BY <1>6 DEF Load
    <2>3. CASE Cyclic(disk)
      BY <1>3, <2>1, <2>3, ExcuseStays DEF Excused
    <2>4. CASE ~Cyclic(disk)
      <3>1. CycleErrors(disk) = {}
        BY <2>4, CyclicIsError
      <3>2. Kept(Errors(disk)) = {}
        BY <1>6, <2>2, <3>1
      <3>3. Selected(Errors(disk)) = {}
        BY <3>2 DEF Kept, Selected
      <3> QED
        BY <1>3, <2>1, <3>3, ExcuseStays DEF Excused
    <2> QED
      BY <2>3, <2>4
  <1>7. CASE EndCheck /\ moved' <= 1 /\ diags' = {}
    <2>1. /\ UNCHANGED <<during, generated, selected>> /\ phase = "check" /\ diags = {}
          /\ moved <= 1 /\ stack = <<>> /\ roots = {}
      BY <1>7 DEF EndCheck, history, world, reading
    <2>2. parsed \in during
      BY <1>1, <2>1, ParsedWasThere
    <2>3. Units(parsed) \subseteq checked
      BY <2>1 DEF CheckerIsThorough, UnitsCovered, OnStack
    <2>4. CASE ImportsExternal(parsed) \/ Entangled
      <3>1. Excused
        BY <2>2, <2>4 DEF Excused, Entangled
      <3> QED
        BY <1>3, <2>1, <3>1, ExcuseStays
    <2>5. CASE ~ImportsExternal(parsed) /\ ~Entangled
      <3>1. \A f \in Present(parsed) \cap selected : FileErrors(parsed, f) = {}
        <4> TAKE f \in Present(parsed) \cap selected
        <4>1. UnitOf(parsed, f) \in checked /\ f \in FilesOf(parsed, UnitOf(parsed, f))
          BY <2>3 DEF Units, FilesOf
        <4> QED
          BY <2>1, <2>5, <4>1 DEF CheckerIsThorough, NothingOverlooked
      <3>2. Selected(Errors(parsed)) = {}
        BY <2>5, <3>1, NoFileErrors DEF Entangled
      <3>3. Excused
        BY <2>2, <3>2 DEF Excused
      <3> QED
        BY <1>3, <2>1, <3>3, ExcuseStays
    <2> QED
      BY <2>4, <2>5
  <1>8. ASSUME phase \in {"end", "done"}, phase' \in {"end", "done"}, moved' <= 1 => moved <= 1,
               during \subseteq during', UNCHANGED <<kinds, generated, selected, diags>>
        PROVE  PassesSoFar'
    BY <1>2, <1>3, <1>8, ExcuseStays
  <1>9. CASE Begin \/ List \/ EndList \/ Parse \/ CheckNext \/ Import \/ CheckDone
    <2>1. phase' \notin {"end", "done"}
      BY <1>9 DEF Begin, List, EndList, Parse, CheckNext, Import, CheckDone
    <2> QED
      BY <1>4, <2>1
  <1>10. CASE EndParse
    <2>1. phase' = "end" => "typecheck" \notin kinds'
      BY <1>10 DEF EndParse, world
    <2>2. phase' # "done"
      BY <1>10 DEF EndParse
    <2> QED
      BY <1>4, <2>1, <2>2
  <1>11. CASE Choose \/ Load \/ EndCheck
    <2>1. Choose => phase' \in {"load", "end", "check"}
      BY DEF Choose
    <2> QED
      BY <1>3, <1>4, <1>5, <1>6, <1>7, <1>11, <2>1
  <1>12. CASE Finish
    BY <1>8, <1>12 DEF Finish, world, reading
  <1>13. ASSUME NEW f \in File, Edit(f) \/ Commit(f)
         PROVE  PassesSoFar'
    <2>1. /\ moved' = moved + 1 /\ during \subseteq during'
          /\ UNCHANGED <<phase, kinds, generated, selected, diags>>
      BY <1>1, <1>13, ChangeCases DEF reading
    <2>2. moved' <= 1 => moved <= 1
      BY <1>1, <2>1
    <2> QED
      BY <1>4, <1>8, <2>1, <2>2
  <1>14. CASE UNCHANGED vars
    <2>1. UNCHANGED <<phase, kinds, generated, selected, diags, moved, during>>
      BY <1>14 DEF vars, world, reading, history
    <2> QED
      BY <1>4, <1>8, <2>1
  <1> QED
    BY <1>9, <1>10, <1>11, <1>12, <1>13, <1>14 DEF Next, Read

(* The inductive invariant of the verdicts.                                *)
VInv ==
  /\ IInv /\ FilesStay /\ OneFileChanges /\ ReadingIsTrue /\ CheckerIsThorough
  /\ CheckedInMemory /\ FailuresSoFar /\ PassesSoFar

LEMMA VInvInit == Init => VInv
  <1>1. Init => CheckedInMemory /\ FailuresSoFar /\ PassesSoFar
    BY DEF Init, CheckedInMemory, FailuresSoFar, PassesSoFar
  <1> QED
    BY <1>1, InitOK, FilesStayInit, OneFileChangesInit, ReadingIsTrueInit,
       CheckerIsThoroughInit DEF VInv

LEMMA VInvStep == VInv /\ [Next]_vars => VInv'
  BY IInvStep, FilesStayStep, OneFileChangesStep, ReadingIsTrueStep, CheckerIsThoroughStep,
     CheckedInMemoryStep, FailuresSoFarStep, PassesSoFarStep DEF VInv, IInv

(* Whatever the workspace, the scope, the overlays and the import graph,   *)
(* and whichever file is rewritten at whichever moment of its two readings:*)
(* a validation that fails has found something. What it reports was wrong  *)
(* in a workspace it could have read, unless a package with external tests *)
(* is imported or a file checked in memory relies on a module that is not  *)
(* found.                                                                  *)
THEOREM FailuresAreTrue == Spec => []FailuresAreReal
  <1>1. VInv => FailuresAreReal
    BY DEF VInv, FailuresSoFar, FailuresAreReal
  <1> QED
    BY <1>1, VInvInit, VInvStep, PTL DEF Spec

(* And a type check that passes has overlooked nothing in the scope, but   *)
(* for the excuses that PassesAreReal names: there are no others.          *)
THEOREM PassesAreTrue == Spec => []PassesAreReal
  <1>1. VInv => PassesAreReal
    BY DEF VInv, PassesSoFar, PassesAreReal
  <1> QED
    BY <1>1, VInvInit, VInvStep, PTL DEF Spec

-----------------------------------------------------------------------------
(* One workspace, one verdict: what a validation says when nothing changes *)
(* and no import has two answers or none that is whole, as a function of   *)
(* the workspace and the request alone.                                    *)
Settled == ~ImportsTested(View) /\ ~Cyclic(View)

Scope == {f \in Present(View) : ~View[f].gen \/ generated}
Unparsed == {f \in Present(View) : ~View[f].ok}

UndefinedIn(ws, f, use) ==
  IF Bare(ws, f, use) THEN use[2] \notin DeclsOf(ws, UnitOf(ws, f))
  ELSE /\ ws[f].imports \cap External = {}
       /\ \A g \in Present(ws) : use[1] \notin ws[g].imports \cap External
       /\ \/ use[1] \notin Named(ws, f)
          \/ use[2] \notin DeclsOf(ws, <<use[1], "p">>) /\ <<use[1], "p">> \in Units(ws)

Reports(found, ws, u) ==
  {d \in FilesOf(ws, u) \X {"import", "undefined", "unused"} :
     LET f == d[1]
     IN  CASE d[2] = "import"    -> \E q \in ws[f].imports \cap Dir : <<q, "p">> \notin Units(ws)
           [] d[2] = "undefined" ->
                \/ \E use \in ws[f].uses : UndefinedIn(ws, f, use)
                \/ \E q \in ws[f].relies : ~(found /\ Supplies(ws, f, q))
           [] d[2] = "unused"    -> \E q \in Named(ws, f) \ External : ~Uses(ws, f, q)}

InScope(D) == {d \in D : d[1] \in Scope}

ReportsOf(units) == InScope(UNION {Reports(installed, View, u) : u \in units})

ParseReport == IF "parse" \in kinds THEN {<<f, "parse">> : f \in Unparsed \cap Scope} ELSE {}

TypeReport ==
  IF NothingInMemory
  THEN {d \in Errors(View) : d[1] \in Scope \/ d[2] \in {"undefined", "unused"}}
  ELSE IF Unparsed # {} THEN {<<f, "parse">> : f \in Unparsed \cap Scope}
  ELSE ReportsOf(Units(View))

Verdict == ParseReport \cup (IF "typecheck" \in kinds THEN TypeReport ELSE {})

(* What has been read so far is all there is to read so far.               *)
Listed == IF pass = 1 THEN Scope ELSE Present(View)

TextsOf(files) ==
  [f \in File |-> IF f \in files /\ View[f].ok THEN View[f] ELSE NoText]

ReadingIsExact ==
  /\ phase = "list" => chosen = Listed \ todo
  /\ phase = "parse" => /\ chosen = Listed /\ todo \subseteq Listed
                        /\ broken = Unparsed \cap (Listed \ todo)
                        /\ parsed = TextsOf(Listed \ todo)
  /\ phase = "choose" => broken = Unparsed /\ parsed = TextsOf(Present(View))
  /\ phase = "check" => parsed = View /\ Unparsed = {} /\ ~NothingInMemory
  /\ phase \notin {"idle", "list"} \/ pass = 2 => selected = Scope

VerdictSoFar ==
  /\ phase \in {"list", "parse"} /\ pass = 1 => diags = {}
  /\ phase \in {"list", "parse"} /\ pass = 2 => diags = ParseReport
  /\ phase \in {"choose", "load"} => diags = ParseReport
  /\ phase = "check" => diags = ParseReport \cup ReportsOf(checked)
  /\ phase \in {"end", "done"} => diags = Verdict

VerdictsAgree ==
  /\ phase # "idle" => during # {}
  /\ verdicts # <<>> => moved = began /\ phase # "idle"
  /\ moved = began => ReadingIsExact
  /\ moved = began /\ Settled => VerdictSoFar
  /\ Settled => \A i \in 1..Len(verdicts) : verdicts[i] = Verdict

(* With the imports resolved and no cycle among them, a unit's diagnostics *)
(* are those of its files, in whatever order its imports were resolved.    *)
LEMMA ReportCases ==
  ASSUME NEW found, NEW ws, NEW u, NEW f \in FilesOf(ws, u)
  PROVE  /\ <<f, "import">> \in Reports(found, ws, u) <=>
              \E q \in ws[f].imports \cap Dir : <<q, "p">> \notin Units(ws)
         /\ <<f, "undefined">> \in Reports(found, ws, u) <=>
              \/ \E use \in ws[f].uses : UndefinedIn(ws, f, use)
              \/ \E q \in ws[f].relies : ~(found /\ Supplies(ws, f, q))
         /\ <<f, "unused">> \in Reports(found, ws, u) <=>
              \E q \in Named(ws, f) \ External : ~Uses(ws, f, q)
  <1> DEFINE Import_(g) == \E q \in ws[g].imports \cap Dir : <<q, "p">> \notin Units(ws)
             Undefined_(g) == \/ \E use \in ws[g].uses : UndefinedIn(ws, g, use)
                              \/ \E q \in ws[g].relies : ~(found /\ Supplies(ws, g, q))
             Unused_(g) == \E q \in Named(ws, g) \ External : ~Uses(ws, g, q)
  <1>1. Reports(found, ws, u) =
          {d \in FilesOf(ws, u) \X {"import", "undefined", "unused"} :
             CASE d[2] = "import" -> Import_(d[1]) [] d[2] = "undefined" -> Undefined_(d[1])
               [] d[2] = "unused" -> Unused_(d[1])}
    BY Zenon DEF Reports
  <1> HIDE DEF Import_, Undefined_, Unused_
  <1>2. /\ <<f, "import">> \in Reports(found, ws, u) <=> Import_(f)
        /\ <<f, "undefined">> \in Reports(found, ws, u) <=> Undefined_(f)
        /\ <<f, "unused">> \in Reports(found, ws, u) <=> Unused_(f)
    BY <1>1
  <1> QED
    BY <1>2 DEF Import_, Undefined_, Unused_

LEMMA CheckErrorsAreExact ==
  ASSUME AllParse, NEW frame, FrameFits(frame), frame.todo = {}, ~Entangled
  PROVE  UnitErrors(frame) = Reports(installed, parsed, frame.unit)
  <1>1. ~ImportsTested(parsed)
    BY DEF Entangled
  <1>2. ASSUME NEW f \in FilesOf(parsed, frame.unit)
        PROVE  \A e \in {"import", "undefined", "unused"} :
                 <<f, e>> \in UnitErrors(frame)
                   <=> <<f, e>> \in Reports(installed, parsed, frame.unit)
    <2>1. f \in Present(parsed) /\ UnitOf(parsed, f) = frame.unit
          /\ parsed[f] \in Text /\ f \in File
      BY UnitsAreUnits DEF FilesOf, AllParse
    <2>2. \A q \in parsed[f].imports : q \in Path /\ (q \notin External <=> q \in Dir)
      <3>1. parsed[f].imports \subseteq Path
        BY <2>1 DEF Text
      <3> QED
        BY <3>1, DirsAreInside DEF Path
    <2>3. ASSUME NEW q \in parsed[f].imports, q \in Dir
          PROVE  /\ <<f, q>> \notin frame.skipped
                 /\ <<f, q>> \in frame.failed <=> <<q, "p">> \notin Units(parsed)
                 /\ \A v \in Unit : <<q, v>> \in frame.loaded
                                      <=> v = <<q, "p">> /\ v \in Units(parsed)
      <3>1. <<f, q>> \in ImportsOf(parsed, frame.unit) /\ q \notin External
        BY <1>2, <2>1, <2>2, <2>3 DEF ImportsOf
      <3>2. <<f, q>> \notin frame.skipped
        BY <3>1 DEF FrameFits
      <3>3. \A v \in Unit : <<q, v>> \in frame.loaded => v = <<q, "p">> /\ v \in Units(parsed)
        <4> SUFFICES ASSUME NEW v \in Unit, <<q, v>> \in frame.loaded
                     PROVE  v = <<q, "p">> /\ v \in Units(parsed)
          OBVIOUS
        <4>1. Answers(v, q)
          BY DEF FrameFits
        <4> QED
          BY <1>1, <3>1, <4>1, ImportAnswer DEF AllParse, Answers
      <3>4. <<f, q>> \in frame.failed => <<q, "p">> \notin Units(parsed)
        BY DEF FrameFits, Answers, ImportPath
      <3>5. <<f, q>> \in frame.failed \/ \E v \in Unit : <<q, v>> \in frame.loaded
        BY <3>1, <3>2 DEF FrameFits
      <3>6. <<q, "p">> \in Units(parsed) => <<q, <<q, "p">>>> \in frame.loaded
        BY <3>3, <3>4, <3>5
      <3>7. <<q, "p">> \notin Units(parsed) => <<f, q>> \in frame.failed
        BY <3>3, <3>5
      <3> QED
        BY <3>2, <3>3, <3>4, <3>6, <3>7
    <2>4. <<f, "import">> \in Reports(installed, parsed, frame.unit)
            <=> \E q \in parsed[f].imports \cap Dir : <<q, "p">> \notin Units(parsed)
      BY <1>2, ReportCases
    <2>5. <<f, "undefined">> \in Reports(installed, parsed, frame.unit)
            <=> \/ \E use \in parsed[f].uses : UndefinedIn(parsed, f, use)
                \/ \E q \in parsed[f].relies : ~Supplied(frame, f, q)
      BY <1>2, ReportCases, SuppliedWhenFound, SuppliedIsSupply
    <2>6. <<f, "unused">> \in Reports(installed, parsed, frame.unit)
            <=> \E q \in Named(parsed, f) \ External : ~Uses(parsed, f, q)
      BY <1>2, ReportCases
    <2>7. <<f, "import">> \in UnitErrors(frame)
            <=> <<f, "import">> \in Reports(installed, parsed, frame.unit)
      <3>1. ASSUME NEW q \in Path, <<f, q>> \in frame.failed
            PROVE  q \in parsed[f].imports \cap Dir
        BY <2>2, <3>1 DEF FrameFits, ImportsOf
      <3> QED
        BY <1>2, <2>2, <2>3, <2>4, <3>1, UnitErrorCases
    <2>8. ASSUME NEW use \in parsed[f].uses
          PROVE  UndefinedUse(frame, f, use) <=> UndefinedIn(parsed, f, use)
      <3>1. CASE Bare(parsed, f, use)
        BY <2>1, <3>1 DEF UndefinedUse, UndefinedIn
      <3>2. CASE ~Bare(parsed, f, use) /\ Ignored(f, use[1])
        BY <3>2 DEF UndefinedUse, UndefinedIn, Ignored
      <3>3. CASE ~Bare(parsed, f, use) /\ ~Ignored(f, use[1]) /\ use[1] \notin Named(parsed, f)
        BY <3>3 DEF UndefinedUse, UndefinedIn, Ignored
      <3>4. CASE ~Bare(parsed, f, use) /\ ~Ignored(f, use[1]) /\ use[1] \in Named(parsed, f)
        <4>1. use[1] \in parsed[f].imports /\ use[1] \in Dir
          BY <2>1, <2>2, <3>4 DEF Named, Ignored
        <4>2. <<use[1], "p">> \in Unit
          BY <4>1 DEF Unit, Package
        <4>3. UndefinedUse(frame, f, use)
                <=> <<use[1], "p">> \in Units(parsed)
                    /\ use[2] \notin DeclsOf(parsed, <<use[1], "p">>)
          BY <2>3, <3>4, <4>1, <4>2 DEF UndefinedUse
        <4>4. UndefinedIn(parsed, f, use)
                <=> <<use[1], "p">> \in Units(parsed)
                    /\ use[2] \notin DeclsOf(parsed, <<use[1], "p">>)
          BY <3>4 DEF UndefinedIn, Ignored
        <4> QED
          BY <4>3, <4>4
      <3> QED
        BY <3>1, <3>2, <3>3, <3>4
    <2>9. \A q : (q \in Path /\ UnusedImport(frame, f, q))
                   <=> q \in Named(parsed, f) \ External /\ ~Uses(parsed, f, q)
      BY <2>2, <2>3 DEF UnusedImport, Named
    <2>10. /\ <<f, "undefined">> \in UnitErrors(frame)
                <=> <<f, "undefined">> \in Reports(installed, parsed, frame.unit)
           /\ <<f, "unused">> \in UnitErrors(frame)
                <=> <<f, "unused">> \in Reports(installed, parsed, frame.unit)
      BY <1>2, <2>5, <2>6, <2>8, <2>9, UnitErrorCases
    <2> QED
      BY <2>7, <2>10
  <1>3. /\ UnitErrors(frame)
             \subseteq FilesOf(parsed, frame.unit) \X {"import", "undefined", "unused"}
        /\ Reports(installed, parsed, frame.unit)
             \subseteq FilesOf(parsed, frame.unit) \X {"import", "undefined", "unused"}
    BY DEF UnitErrors, Reports
  <1>4. \A d \in FilesOf(parsed, frame.unit) \X {"import", "undefined", "unused"} :
          d \in UnitErrors(frame) <=> d \in Reports(installed, parsed, frame.unit)
    <2> TAKE d \in FilesOf(parsed, frame.unit) \X {"import", "undefined", "unused"}
    <2>1. d = <<d[1], d[2]>> /\ d[1] \in FilesOf(parsed, frame.unit)
          /\ d[2] \in {"import", "undefined", "unused"}
      OBVIOUS
    <2> QED
      BY <1>2, <2>1
  <1> QED
    BY <1>3, <1>4

(* The workspace as such decides the verdict.                              *)
LEMMA VerdictKept ==
  ASSUME UNCHANGED world
  PROVE  /\ View' = View /\ Scope' = Scope /\ Unparsed' = Unparsed
         /\ Settled' <=> Settled
         /\ ParseReport' = ParseReport /\ Verdict' = Verdict
  <1>1. View' = View /\ NothingInMemory' = NothingInMemory /\ generated' = generated
        /\ kinds' = kinds
    BY ViewUnchanged DEF world
  <1>2. Scope' = Scope /\ Unparsed' = Unparsed /\ (Settled' <=> Settled)
    BY <1>1 DEF Scope, Unparsed, Settled
  <1>3. ParseReport' = ParseReport
    BY <1>1, <1>2 DEF ParseReport
  <1>4. TypeReport' = TypeReport
    <2>1. installed' = installed
      BY DEF world
    <2> QED
      BY <1>1, <1>2, <2>1 DEF TypeReport, ReportsOf, InScope
  <1> QED
    BY <1>1, <1>2, <1>3, <1>4 DEF Verdict

LEMMA ReadingIsExactStep ==
  ASSUME IInv, FilesStay, ReadingIsTrue, ReadingIsExact, UNCHANGED world,
         List \/ EndList \/ Parse \/ EndParse \/ Choose
  PROVE  ReadingIsExact'
  <1>1. /\ View' = View /\ Scope' = Scope /\ Unparsed' = Unparsed /\ generated' = generated
        /\ pass \in 1..2 /\ View \in Layer /\ Present(View) \subseteq File
    BY VerdictKept, ViewFits DEF IInv, TypeOK, world
  <1>2. Scope \subseteq Present(View) /\ Listed \subseteq Present(View)
        /\ Unparsed \subseteq Present(View)
    BY DEF Scope, Listed, Unparsed
  <1>3. CASE List
    <2>1. PICK f \in todo :
            /\ todo' = todo \ {f}
            /\ chosen' = IF View[f].gen /\ ~generated /\ pass = 1
                         THEN chosen ELSE chosen \cup {f}
      BY <1>3 DEF List
    <2>2. /\ phase = "list" /\ phase' = "list" /\ UNCHANGED <<pass, selected>>
          /\ chosen = Listed \ todo
      BY <1>3 DEF List, ReadingIsExact
    <2>3. f \in Present(View) /\ Listed' = Listed
      BY <1>1, <2>1, <2>2 DEF FilesStay, Listed
    <2>4. f \in Listed <=> ~(View[f].gen /\ ~generated /\ pass = 1)
      BY <1>1, <2>3 DEF Listed, Scope
    <2>5. chosen' = Listed' \ todo'
      BY <2>1, <2>2, <2>3, <2>4
    <2> QED
      BY <1>1, <2>2, <2>5 DEF ReadingIsExact
  <1>4. CASE EndList
    <2>1. /\ phase = "list" /\ phase' = "parse" /\ UNCHANGED <<pass, chosen, parsed, broken>>
          /\ todo = {} /\ todo' = chosen
          /\ selected' = IF pass = 1 THEN chosen ELSE selected
      BY <1>4 DEF EndList
    <2>2. chosen = Listed /\ Listed' = Listed /\ parsed = Nowhere /\ broken = {}
      BY <1>1, <2>1 DEF ReadingIsExact, ReadingIsTrue, Listed
    <2>3. selected' = Scope
      BY <1>1, <2>1, <2>2 DEF Listed, ReadingIsExact
    <2>4. parsed' = TextsOf(Listed \ todo)' /\ broken' = Unparsed' \cap (Listed' \ todo')
      BY <2>1, <2>2 DEF TextsOf, Nowhere
    <2> QED
      BY <1>1, <2>1, <2>2, <2>3, <2>4 DEF ReadingIsExact
  <1>5. CASE Parse
    <2>1. PICK f \in todo :
            /\ todo' = todo \ {f}
            /\ IF View[f].ok
               THEN parsed' = [parsed EXCEPT ![f] = View[f]] /\ UNCHANGED broken
               ELSE broken' = broken \cup {f} /\ UNCHANGED parsed
      BY <1>5 DEF Parse
    <2>2. /\ phase = "parse" /\ phase' = "parse" /\ UNCHANGED <<pass, chosen, selected>>
          /\ chosen = Listed /\ todo \subseteq Listed
          /\ broken = Unparsed \cap (Listed \ todo) /\ parsed = TextsOf(Listed \ todo)
          /\ selected = Scope
      BY <1>5 DEF Parse, ReadingIsExact
    <2>3. f \in Present(View) /\ f \in File /\ f \in Listed /\ Listed' = Listed
      BY <1>1, <1>2, <2>1, <2>2 DEF Listed
    <2>4. Listed' \ todo' = (Listed \ todo) \cup {f}
      BY <2>1, <2>2, <2>3
    <2>5. broken' = Unparsed \cap ((Listed \ todo) \cup {f})
      BY <2>1, <2>2, <2>3 DEF Unparsed
    <2>6. parsed' = TextsOf((Listed \ todo) \cup {f})
      BY <2>1, <2>2, <2>3 DEF TextsOf
    <2>7. parsed' = TextsOf(Listed \ todo)' /\ broken' = Unparsed' \cap (Listed' \ todo')
      BY <1>1, <2>4, <2>5, <2>6 DEF TextsOf
    <2>8. chosen' = Listed' /\ todo' \subseteq Listed' /\ selected' = Scope'
      BY <1>1, <2>1, <2>2, <2>3
    <2> QED
      BY <2>2, <2>7, <2>8 DEF ReadingIsExact
  <1>6. CASE EndParse
    <2>1. /\ phase = "parse" /\ todo = {} /\ selected' = selected /\ selected = Scope
          /\ chosen = Listed /\ broken = Unparsed \cap Listed /\ parsed = TextsOf(Listed)
      <3>1. phase = "parse" /\ todo = {} /\ selected' = selected /\ Listed \ {} = Listed
        BY <1>6 DEF EndParse
      <3> QED
        BY <3>1 DEF ReadingIsExact
    <2>2. CASE phase' = "list" /\ pass' = 2 /\ todo' = Present(View) /\ chosen' = {}
      <3>1. Listed' = Present(View)
        BY <1>1, <2>2 DEF Listed
      <3> QED
        BY <1>1, <2>1, <2>2, <3>1 DEF ReadingIsExact
    <2>3. CASE /\ ~(pass = 1 /\ "typecheck" \in kinds /\ ~generated)
               /\ phase' = (IF "typecheck" \in kinds THEN "choose" ELSE "end")
               /\ UNCHANGED <<pass, todo, chosen, parsed, broken>>
      <3>1. "typecheck" \in kinds => Listed = Present(View)
        BY <1>1, <2>3 DEF Listed, Scope
      <3>2. phase' = "choose" => broken' = Unparsed' /\ parsed' = TextsOf(Present(View))'
        BY <1>1, <1>2, <2>1, <2>3, <3>1 DEF TextsOf
      <3>3. phase' \in {"choose", "end"}
        BY <2>3
      <3> QED
        BY <1>1, <2>1, <3>2, <3>3 DEF ReadingIsExact
    <2> QED
      BY <1>6, <2>2, <2>3 DEF EndParse
  <1>7. CASE Choose
    <2>1. /\ phase = "choose" /\ UNCHANGED <<selected, parsed, broken>> /\ selected = Scope
          /\ broken = Unparsed /\ parsed = TextsOf(Present(View))
          /\ \/ phase' \in {"load", "end"}
             \/ phase' = "check" /\ broken = {} /\ ~NothingInMemory
      BY <1>7 DEF Choose, reading, ReadingIsExact
    <2>2. CASE phase' \in {"load", "end"}
      BY <1>1, <2>1, <2>2 DEF ReadingIsExact
    <2>3. CASE phase' = "check" /\ broken = {} /\ ~NothingInMemory
      <3>1. \A f \in Present(View) : View[f].ok
        BY <2>1, <2>3 DEF Unparsed
      <3>2. \A f \in File \ Present(View) : View[f] = NoText
        BY DEF Present
      <3>3. TextsOf(Present(View)) = [f \in File |-> View[f]]
        BY <3>1, <3>2 DEF TextsOf
      <3>4. View = [f \in File |-> View[f]]
        BY <1>1 DEF Layer
      <3>5. parsed' = View' /\ ~NothingInMemory'
        BY <1>1, <2>1, <2>3, <3>3, <3>4, ViewUnchanged
      <3> QED
        BY <1>1, <2>1, <2>3, <3>5 DEF ReadingIsExact
    <2> QED
      BY <2>1, <2>2, <2>3
  <1> QED
    BY <1>3, <1>4, <1>5, <1>6, <1>7

LEMMA VerdictSoFarStep ==
  ASSUME IInv, FilesStay, ReadingIsTrue, CheckerIsThorough, ReadingIsExact, VerdictSoFar,
         Settled, moved = began, UNCHANGED world,
         Read \/ CheckNext \/ Import \/ CheckDone \/ EndCheck \/ Finish
  PROVE  VerdictSoFar'
  <1>1. /\ View' = View /\ Scope' = Scope /\ Unparsed' = Unparsed /\ kinds' = kinds
        /\ ParseReport' = ParseReport /\ Verdict' = Verdict
        /\ pass \in 1..2 /\ Scope \subseteq Present(View) /\ Unparsed \subseteq Present(View)
    BY VerdictKept DEF IInv, TypeOK, world, Scope, Unparsed
  <1>2. CASE List \/ EndList \/ Parse
    <2>1. phase \in {"list", "parse"} /\ phase' \in {"list", "parse"}
          /\ UNCHANGED <<pass, diags>>
      BY <1>2 DEF List, EndList, Parse
    <2> QED
      BY <1>1, <2>1 DEF VerdictSoFar
  <1>3. CASE EndParse
    <2>1. phase = "parse" /\ todo = {} /\ Listed \ {} = Listed
          /\ diags' = IF pass = 1 /\ "parse" \in kinds THEN ParseDiags ELSE diags
      BY <1>3 DEF EndParse
    <2>2. diags' = ParseReport
      <3>1. CASE pass = 1
        <4>1. diags = {} /\ broken = Unparsed \cap Scope
          BY <2>1, <3>1 DEF VerdictSoFar, ReadingIsExact, Listed
        <4> QED
          BY <2>1, <3>1, <4>1 DEF ParseReport, ParseDiags
      <3>2. CASE pass = 2
        BY <2>1, <3>2 DEF VerdictSoFar
      <3> QED
        BY <1>1, <3>1, <3>2
    <2>3. CASE phase' = "list" /\ pass' = 2
      BY <1>1, <2>2, <2>3 DEF VerdictSoFar
    <2>4. CASE phase' = (IF "typecheck" \in kinds THEN "choose" ELSE "end")
      BY <1>1, <2>2, <2>4 DEF VerdictSoFar, Verdict
    <2> QED
      BY <1>3, <2>3, <2>4 DEF EndParse
  <1>4. CASE Choose
    <2>1. /\ phase = "choose" /\ diags = ParseReport /\ broken = Unparsed /\ selected = Scope
          /\ "typecheck" \in kinds /\ checked = {} /\ checked' = checked
      BY <1>4 DEF Choose, VerdictSoFar, ReadingIsExact, ReadingIsTrue, CheckerIsThorough
    <2>2. CASE NothingInMemory /\ phase' = "load" /\ diags' = diags
      BY <1>1, <2>1, <2>2 DEF VerdictSoFar
    <2>3. CASE /\ ~NothingInMemory /\ broken # {} /\ phase' = "end"
               /\ diags' = diags \cup Selected(ParseDiags)
      <3>1. Selected(ParseDiags) = {<<f, "parse">> : f \in Unparsed \cap Scope}
        BY <2>1 DEF Selected, ParseDiags
      <3>2. Verdict = ParseReport \cup {<<f, "parse">> : f \in Unparsed \cap Scope}
        BY <2>1, <2>3 DEF Verdict, TypeReport
      <3>3. diags' = Verdict
        BY <2>1, <2>3, <3>1, <3>2
      <3> QED
        BY <1>1, <2>3, <3>3 DEF VerdictSoFar
    <2>4. CASE phase' = "check" /\ diags' = diags
      <3>1. ReportsOf(checked)' = {}
        BY <2>1 DEF ReportsOf, InScope
      <3> QED
        BY <1>1, <2>1, <2>4, <3>1 DEF VerdictSoFar
    <2> QED
      BY <1>4, <2>2, <2>3, <2>4 DEF Choose
  <1>5. CASE Load
    <2>1. /\ phase = "load" /\ phase' = "end" /\ diags = ParseReport /\ selected = Scope
          /\ NothingInMemory /\ "typecheck" \in kinds
      BY <1>5 DEF Load, VerdictSoFar, ReadingIsExact, ReadingIsTrue
    <2>2. View = disk
      BY <2>1 DEF NothingInMemory, View, Nowhere, IInv, TypeOK, Layer
    <2>3. CycleErrors(disk) = {}
      BY <2>2, CyclicIsError DEF Settled
    <2>4. diags' = diags \cup Kept(Errors(disk))
      BY <1>5, <2>3 DEF Load
    <2>5. Kept(Errors(disk)) = TypeReport
      BY <2>1, <2>2 DEF Kept, TypeReport
    <2>6. diags' = Verdict
      BY <2>1, <2>4, <2>5 DEF Verdict
    <2> QED
      BY <1>1, <2>1, <2>6 DEF VerdictSoFar
  <1>10. installed' = installed
    BY DEF world
  <1>6. CASE CheckNext \/ Import
    <2>1. phase = "check" /\ phase' = "check" /\ UNCHANGED <<checked, diags>>
      BY <1>6 DEF CheckNext, Import
    <2>2. ReportsOf(checked)' = ReportsOf(checked)
      BY <1>1, <1>10, <2>1 DEF ReportsOf, InScope
    <2> QED
      BY <1>1, <2>1, <2>2 DEF VerdictSoFar
  <1>7. CASE CheckDone
    <2>1. /\ phase = "check" /\ phase' = "check" /\ stack # <<>> /\ Top.todo = {}
          /\ diags' = diags \cup Selected(UnitErrors(Top))
          /\ checked' = checked \cup {Top.unit}
          /\ diags = ParseReport \cup ReportsOf(checked) /\ parsed = View /\ selected = Scope
      BY <1>7 DEF CheckDone, VerdictSoFar, ReadingIsExact
    <2>2. AllParse /\ FrameFits(Top) /\ ~Entangled
      BY <2>1, ReadParses, TopIsFrame
      DEF IInv, CheckerIsThorough, CallsFit, Top, Entangled, Settled
    <2>3. UnitErrors(Top) = Reports(installed, View, Top.unit)
      BY <2>1, <2>2, CheckErrorsAreExact
    <2>4. ReportsOf(checked)' = ReportsOf(checked) \cup InScope(Reports(installed, View, Top.unit))
      BY <1>1, <1>10, <2>1 DEF ReportsOf, InScope
    <2>5. Selected(UnitErrors(Top)) = InScope(Reports(installed, View, Top.unit))
      BY <2>1, <2>3 DEF Selected, InScope
    <2>6. diags' = ParseReport \cup ReportsOf(checked)'
      BY <2>1, <2>4, <2>5
    <2> QED
      BY <1>1, <2>1, <2>6 DEF VerdictSoFar
  <1>8. CASE EndCheck
    <2>1. /\ phase = "check" /\ phase' = "end" /\ diags' = diags /\ stack = <<>> /\ roots = {}
          /\ diags = ParseReport \cup ReportsOf(checked) /\ parsed = View
          /\ Unparsed = {} /\ ~NothingInMemory /\ "typecheck" \in kinds
      BY <1>8 DEF EndCheck, VerdictSoFar, ReadingIsExact, ReadingIsTrue
    <2>2. checked = Units(View)
      <3>1. OnStack = {}
        BY <2>1 DEF OnStack
      <3>2. checked \subseteq Units(View) /\ Units(View) \subseteq roots \cup checked \cup OnStack
        BY <2>1 DEF CheckerIsThorough, UnitsCovered
      <3> QED
        BY <2>1, <3>1, <3>2
    <2>3. diags' = Verdict
      BY <2>1, <2>2 DEF Verdict, TypeReport
    <2> QED
      BY <1>1, <2>1, <2>3 DEF VerdictSoFar
  <1>9. CASE Finish
    BY <1>1, <1>9 DEF Finish, VerdictSoFar
  <1> QED
    BY <1>2, <1>3, <1>4, <1>5, <1>6, <1>7, <1>8, <1>9 DEF Read

(* A verdict that is recorded is the verdict of the workspace, which does  *)
(* not change any more.                                                    *)
LEMMA VerdictsAgreeStep ==
  ASSUME VInv, VerdictsAgree, [Next]_vars
  PROVE  VerdictsAgree'
  <1>1. /\ IInv /\ FilesStay /\ OneFileChanges /\ ReadingIsTrue /\ CheckerIsThorough /\ TypeOK
        /\ verdicts \in Seq(SUBSET Diagnostic)
    BY DEF VInv, IInv, TypeOK
  <1>2. CASE Begin
    <2>1. /\ UNCHANGED world /\ View' = View /\ Scope' = Scope /\ (Settled' <=> Settled)
          /\ Verdict' = Verdict
      BY <1>2, VerdictKept DEF Begin
    <2>2. /\ phase' = "list" /\ pass' = 1 /\ chosen' = {} /\ todo' = Present(View)
          /\ diags' = {} /\ during' = {View} /\ moved' = began' /\ verdicts' = verdicts
      BY <1>2 DEF Begin
    <2>3. ReadingIsExact'
      BY <2>1, <2>2 DEF ReadingIsExact, Listed, Scope
    <2>4. VerdictSoFar'
      BY <2>2 DEF VerdictSoFar
    <2> QED
      BY <2>1, <2>2, <2>3, <2>4 DEF VerdictsAgree
  <1>3. ASSUME UNCHANGED <<world, moved, began, during>>, phase # "idle", phase' # "idle",
               moved = began => ReadingIsExact', moved = began /\ Settled => VerdictSoFar',
               \/ verdicts' = verdicts
               \/ moved = began /\ verdicts' = Append(verdicts, diags)
                  /\ (Settled => diags = Verdict)
        PROVE  VerdictsAgree'
    <2>1. (Settled' <=> Settled) /\ Verdict' = Verdict
      BY <1>3, VerdictKept
    <2>2. during' # {} /\ (verdicts' # <<>> => moved' = began')
      BY <1>3 DEF VerdictsAgree
    <2>3. Settled => \A i \in 1..Len(verdicts') : verdicts'[i] = Verdict
      <3>1. CASE verdicts' = verdicts
        BY <3>1 DEF VerdictsAgree
      <3>2. CASE verdicts' = Append(verdicts, diags) /\ (Settled => diags = Verdict)
        <4>1. /\ Len(verdicts') = Len(verdicts) + 1 /\ Len(verdicts) \in Nat
              /\ verdicts'[Len(verdicts) + 1] = diags
              /\ \A i \in 1..Len(verdicts) : verdicts'[i] = verdicts[i]
          BY <1>1, <3>2 DEF IInv, TypeOK
        <4>2. \A i \in 1..Len(verdicts') : i = Len(verdicts) + 1 \/ i \in 1..Len(verdicts)
          BY <4>1
        <4> QED
          BY <3>2, <4>1, <4>2 DEF VerdictsAgree
      <3> QED
        BY <1>3, <3>1, <3>2
    <2> QED
      BY <1>3, <2>1, <2>2, <2>3 DEF VerdictsAgree
  <1>4. CASE Read \/ CheckNext \/ Import \/ CheckDone \/ EndCheck
    <2>1. /\ UNCHANGED <<world, moved, began, during, verdicts>>
          /\ phase # "idle" /\ phase' # "idle"
      BY <1>4 DEF Read, List, EndList, Parse, EndParse, Choose, Load, CheckNext, Import,
        CheckDone, EndCheck, history
    <2>2. ASSUME moved = began
          PROVE  ReadingIsExact'
      <3>1. ReadingIsExact
        BY <2>2 DEF VerdictsAgree
      <3>2. CASE List \/ EndList \/ Parse \/ EndParse \/ Choose
        BY <1>1, <2>1, <3>1, <3>2, ReadingIsExactStep
      <3>3. CASE Load \/ CheckNext \/ Import \/ CheckDone \/ EndCheck
        <4>1. /\ phase \in {"load", "check"} /\ phase' \in {phase, "end"}
              /\ UNCHANGED <<selected, parsed>>
          BY <3>3 DEF Load, CheckNext, Import, CheckDone, EndCheck, reading
        <4> QED
          BY <2>1, <3>1, <4>1, VerdictKept, ViewUnchanged DEF ReadingIsExact
      <3> QED
        BY <1>4, <3>2, <3>3 DEF Read
    <2>3. ASSUME moved = began, Settled
          PROVE  VerdictSoFar'
      BY <1>1, <1>4, <2>1, <2>3, VerdictSoFarStep DEF VerdictsAgree
    <2> QED
      BY <1>3, <2>1, <2>2, <2>3
  <1>5. CASE Finish
    <2>1. /\ UNCHANGED <<world, moved, began, during, selected>>
          /\ phase = "end" /\ phase' = "done"
          /\ verdicts' = IF began = moved THEN Append(verdicts, diags) ELSE verdicts
      BY <1>5 DEF Finish, reading
    <2>2. moved = began => ReadingIsExact'
      BY <2>1, VerdictKept DEF VerdictsAgree, ReadingIsExact
    <2>3. moved = began /\ Settled => VerdictSoFar' /\ diags = Verdict
      BY <1>1, <1>5, <2>1, VerdictSoFarStep DEF VerdictsAgree, VerdictSoFar
    <2> QED
      BY <1>3, <2>1, <2>2, <2>3
  <1>6. ASSUME NEW f \in File, Edit(f) \/ Commit(f)
        PROVE  VerdictsAgree'
    <2>1. /\ moved' = moved + 1 /\ began' = began /\ during' # {}
          /\ verdicts = <<>> /\ verdicts' = <<>>
      BY <1>1, <1>6, ChangeCases DEF Edit, Commit, Change
    <2>2. moved' # began'
      BY <1>1, <2>1 DEF OneFileChanges, TypeOK
    <2> QED
      BY <2>1, <2>2 DEF VerdictsAgree
  <1>7. CASE UNCHANGED vars
    <2>1. UNCHANGED <<world, moved, began, during, verdicts, phase, pass, todo, chosen, selected,
                      parsed, broken, diags, checked>>
      BY <1>7 DEF vars, reading, checking, history
    <2>2. /\ View' = View /\ Scope' = Scope /\ Unparsed' = Unparsed /\ (Settled' <=> Settled)
          /\ ParseReport' = ParseReport /\ Verdict' = Verdict
          /\ NothingInMemory' = NothingInMemory
      BY <2>1, VerdictKept, ViewUnchanged
    <2>3. ReadingIsExact => ReadingIsExact'
      <3>1. Listed' = Listed /\ TextsOf(Listed \ todo)' = TextsOf(Listed \ todo)
            /\ TextsOf(Present(View))' = TextsOf(Present(View))
        BY <2>1, <2>2 DEF Listed, TextsOf
      <3> QED
        BY <2>1, <2>2, <3>1 DEF ReadingIsExact
    <2>4. VerdictSoFar => VerdictSoFar'
      <3>1. ReportsOf(checked)' = ReportsOf(checked)
        <4>1. installed' = installed
          BY <2>1 DEF world
        <4> QED
          BY <2>1, <2>2, <4>1 DEF ReportsOf, InScope
      <3> QED
        BY <2>1, <2>2, <3>1 DEF VerdictSoFar
    <2> QED
      BY <2>1, <2>2, <2>3, <2>4 DEF VerdictsAgree
  <1> QED
    BY <1>2, <1>4, <1>5, <1>6, <1>7 DEF Next, Read

LEMMA VerdictsAgreeInit == Init => VerdictsAgree
  BY DEF Init, VerdictsAgree, ReadingIsExact, VerdictSoFar

(* Validating again says the same, for any workspace and any order in which*)
(* the importer's map answers: the verdict is a function of the workspace  *)
(* and the request, unless imports are circular or of a package with       *)
(* external tests.                                                         *)
THEOREM ReportsRepeat == Spec => []SameVerdictAgain
  <1>1. VInv /\ VerdictsAgree => SameVerdictAgain
    <2> SUFFICES ASSUME VInv, VerdictsAgree, NEW i \in 1..Len(verdicts),
                        NEW j \in 1..Len(verdicts)
                 PROVE  \/ verdicts[i] = verdicts[j]
                        \/ \E ws \in during : ImportsTested(ws) \/ Cyclic(ws)
      BY DEF SameVerdictAgain
    <2>1. CASE Settled
      BY <2>1 DEF VerdictsAgree
    <2>2. CASE ~Settled
      <3>1. verdicts # <<>>
        BY DEF VInv, IInv, TypeOK
      <3>2. during = {View}
        BY <3>1 DEF VInv, OneFileChanges, VerdictsAgree
      <3> QED
        BY <2>2, <3>2 DEF Settled
    <2> QED
      BY <2>1, <2>2
  <1>2. VInv /\ VerdictsAgree /\ [Next]_vars => (VInv /\ VerdictsAgree)'
    BY VInvStep, VerdictsAgreeStep
  <1> QED
    BY <1>1, <1>2, VInvInit, VerdictsAgreeInit, PTL DEF Spec
=============================================================================
