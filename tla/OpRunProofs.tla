----------------------------- MODULE OpRunProofs -----------------------------
(***************************************************************************)
(* Proofs about OpRun, for any number of files, of op run processes and of *)
(* other programs, with any number of outside changes: what a run puts on  *)
(* disk, what it says it has put there, and what it leaves behind.         *)
(***************************************************************************)
EXTENDS OpRun, TLAPS

-----------------------------------------------------------------------------
(* The inductive invariant.                                                *)

(* The run was asked to write, its validation passed, and neither can      *)
(* change any more.                                                        *)
Cleared(r) == write[r] /\ passed[r] /\ pc[r] \notin {"apply", "gate"}

(* Whoever has edited a text on disk is cleared, and so is whoever has     *)
(* edited the text a run started from.                                     *)
EditorsAreCleared ==
  \A r \in Run, p \in Path :
    /\ disk[p] \notin {NoFile, Half} /\ r \in disk[p] => Cleared(r)
    /\ \A s \in Run : after[s][p] # NoFile /\ r \in after[s][p] => r = s \/ Cleared(r)

(* What a run has written and said in each phase.                          *)
PhaseIsTold ==
  \A r \in Run :
    /\ pc[r] = "write" => write[r] /\ passed[r]
    /\ pc[r] \in {"apply", "gate"} => written[r] = {}
    /\ pc[r] \in {"apply", "gate", "write"} => reported[r] = {}
    /\ written[r] \subseteq Changed(r)

(* A temporary file is that of the first file still to be written, and a   *)
(* filled one holds that file's new text.                                  *)
TempIsNext ==
  \A r \in Run : temp[r] # NoFile =>
    /\ \A q \in Unwritten(r) : target[r] <= q
    /\ temp[r] # Half => temp[r] = after[r][target[r]]

(* Unless somebody else has changed a file since the run read it, the file *)
(* is still what the run's new text was made from.                         *)
UnracedIsCurrent ==
  \A r \in Run : \A p \in Unwritten(r) \ raced[r] :
    disk[p] # NoFile /\ after[r][p] = disk[p] \cup {r}

IInv ==
  /\ TypeOK
  /\ EditorsAreCleared
  /\ PhaseIsTold
  /\ NoHalfText
  /\ TempIsOwned
  /\ TempIsNext
  /\ ReportIsExact
  /\ WrittenIsPrefix
  /\ UnracedIsCurrent

-----------------------------------------------------------------------------
LEMMA InitOK == Init => IInv
  <1> SUFFICES ASSUME Init
               PROVE  IInv
    OBVIOUS
  <1>1. TypeOK
    BY OpRunAssumption DEF Init, TypeOK, Path, Text, Author
  <1>2. EditorsAreCleared
    BY OpRunAssumption DEF Init, EditorsAreCleared
  <1>3. \A r \in Run : Changed(r) = {} /\ written[r] = {} /\ reported[r] = {}
    BY DEF Init, Changed
  <1>4. PhaseIsTold /\ TempIsOwned /\ TempIsNext /\ ReportIsExact /\ WrittenIsPrefix
    BY <1>3 DEF Init, PhaseIsTold, TempIsOwned, TempIsNext, ReportIsExact, WrittenIsPrefix
  <1>5. NoHalfText
    BY OpRunAssumption DEF Init, NoHalfText, Text
  <1>6. UnracedIsCurrent
    BY <1>3 DEF UnracedIsCurrent, Unwritten
  <1> QED
    BY <1>1, <1>2, <1>4, <1>5, <1>6 DEF IInv

(* A run reads a file: it is whole, so the run's new text is a text whose  *)
(* other editors are cleared.                                              *)
LEMMA ApplyKeeps ==
  ASSUME IInv, NEW r \in Run, NEW p \in Path, Apply(r, p)
  PROVE  IInv'
  <1> DEFINE new == disk[p] \cup {r}
  <1>1. disk[p] \in Text /\ new \in Text /\ new # NoFile
    <2>1. disk[p] \in Text
      BY DEF IInv, TypeOK, NoHalfText, Apply
    <2>2. new \in Text
      BY <2>1 DEF Text, Author
    <2> QED
      BY <2>1, <2>2, OpRunAssumption
  <1>2. /\ after[r][p] = NoFile /\ after' = [after EXCEPT ![r][p] = new]
        /\ after'[r][p] = new
        /\ \A s \in Run, q \in Path : s # r \/ q # p => after'[s][q] = after[s][q]
    BY DEF IInv, TypeOK, Apply, Changed
  <1> HIDE DEF new
  <1>3. TypeOK'
    <2>1. after' \in [Run -> [Path -> Text \cup {NoFile}]]
      BY <1>1, <1>2 DEF IInv, TypeOK
    <2> QED
      BY <2>1 DEF IInv, TypeOK, Apply
  <1>4. EditorsAreCleared'
    <2>1. \A s \in Run : Cleared(s)' <=> Cleared(s)
      BY DEF Apply, Cleared
    <2>2. \A s \in Run : s \in new => s = r \/ Cleared(s)
      BY <1>1, OpRunAssumption DEF IInv, EditorsAreCleared, new
    <2>3. ASSUME NEW s \in Run, NEW t \in Run, NEW q \in Path,
                 after'[t][q] # NoFile, s \in after'[t][q]
          PROVE  s = t \/ Cleared(s)
      <3>1. CASE t = r /\ q = p
        BY <3>1, <2>2, <2>3, <1>2
      <3>2. CASE t # r \/ q # p
        BY <3>2, <2>3, <1>2 DEF IInv, EditorsAreCleared
      <3> QED
        BY <3>1, <3>2
    <2>4. disk' = disk
      BY DEF Apply
    <2> QED
      BY <2>1, <2>3, <2>4 DEF IInv, EditorsAreCleared
  <1>5. PhaseIsTold'
    BY <1>1, <1>2 DEF IInv, TypeOK, PhaseIsTold, Apply, Changed
  <1>6. NoHalfText'
    BY DEF IInv, NoHalfText, Apply
  <1>7. \A s \in Run : temp'[s] # NoFile => s # r /\ \A q \in Path : after'[s][q] = after[s][q]
    BY <1>2 DEF IInv, TempIsOwned, Apply
  <1>8. TempIsOwned' /\ TempIsNext'
    BY <1>7 DEF IInv, TypeOK, TempIsOwned, TempIsNext, Apply, Changed, Unwritten
  <1>9. ReportIsExact'
    BY <1>2 DEF IInv, TypeOK, ReportIsExact, Apply, Changed
  <1>10. WrittenIsPrefix'
    <2>1. written'[r] = {} /\ \A s \in Run : written'[s] = written[s]
      BY DEF IInv, PhaseIsTold, Apply
    <2>2. \A s \in Run : s # r => Changed(s)' = Changed(s)
      BY <1>2 DEF Changed
    <2> QED
      BY <2>1, <2>2 DEF IInv, WrittenIsPrefix
  <1>11. UnracedIsCurrent'
    BY <1>1, <1>2 DEF IInv, TypeOK, UnracedIsCurrent, Apply, Changed, Unwritten, new
  <1> QED
    BY <1>3, <1>4, <1>5, <1>6, <1>8, <1>9, <1>10, <1>11 DEF IInv

(* The steps between reading and writing, and an end before any writing,   *)
(* move nothing but the phase, the verdict and the report of no files.     *)
LEMMA DecisionKeeps ==
  ASSUME IInv, NEW r \in Run, Validate(r) \/ FailEarly(r) \/ Gate(r)
  PROVE  IInv'
  <1>1. /\ UNCHANGED <<disk, write, after, target, temp, written, outside, raced>>
        /\ pc[r] \in {"apply", "gate"}
        /\ passed' = passed \/ \E ok \in BOOLEAN : passed' = [passed EXCEPT ![r] = ok]
        /\ \E e \in {"gate", "write", "failed", "done"} :
             /\ pc' = [pc EXCEPT ![r] = e]
             /\ e = "gate" => reported' = reported
             /\ e = "write" => reported' = reported /\ passed' = passed /\ write[r] /\ passed[r]
             /\ e = "failed" => reported' = reported \/ reported' = [reported EXCEPT ![r] = {}]
             /\ e = "done" => ~write[r] /\ reported' = [reported EXCEPT ![r] = {written[r]}]
    BY DEF Validate, FailEarly, Gate, Report, local
  <1>2. PICK e \in {"gate", "write", "failed", "done"} :
          /\ pc' = [pc EXCEPT ![r] = e]
          /\ e = "gate" => reported' = reported
          /\ e = "write" => reported' = reported /\ passed' = passed /\ write[r] /\ passed[r]
          /\ e = "failed" => reported' = reported \/ reported' = [reported EXCEPT ![r] = {}]
          /\ e = "done" => ~write[r] /\ reported' = [reported EXCEPT ![r] = {written[r]}]
    BY <1>1
  <1>3. /\ pc'[r] = e /\ \A s \in Run : s # r =>
             pc'[s] = pc[s] /\ reported'[s] = reported[s] /\ passed'[s] = passed[s]
        /\ written[r] = {} /\ reported[r] = {}
        /\ reported'[r] = IF e = "done" THEN {{}} ELSE {}
    BY <1>1, <1>2 DEF IInv, TypeOK, PhaseIsTold
  <1>4. TypeOK'
    <2>1. passed' \in [Run -> BOOLEAN]
      BY <1>1 DEF IInv, TypeOK
    <2>2. pc' \in [Run -> {"apply", "gate", "write"} \cup Ended]
      BY <1>2 DEF IInv, TypeOK, Ended
    <2>3. reported' \in [Run -> SUBSET SUBSET Path]
      <3>1. reported \in [Run -> SUBSET SUBSET Path]
        BY DEF IInv, TypeOK
      <3>2. reported' = reported \/ reported' = [reported EXCEPT ![r] = {}]
              \/ reported' = [reported EXCEPT ![r] = {{}}]
        BY <1>2, <1>3
      <3> QED
        BY <3>1, <3>2
    <2> QED
      BY <1>1, <2>1, <2>2, <2>3 DEF IInv, TypeOK
  <1>5. \A s \in Run : Cleared(s) => Cleared(s)'
    BY <1>1, <1>3 DEF Cleared
  <1>6. EditorsAreCleared'
    BY <1>1, <1>5 DEF IInv, EditorsAreCleared
  <1>7. \A s \in Run : Changed(s)' = Changed(s) /\ Unwritten(s)' = Unwritten(s)
    BY <1>1 DEF Changed, Unwritten
  <1>8. PhaseIsTold'
    BY <1>1, <1>2, <1>3, <1>7 DEF IInv, PhaseIsTold
  <1>9. NoHalfText' /\ WrittenIsPrefix' /\ UnracedIsCurrent'
    BY <1>1, <1>7 DEF IInv, NoHalfText, WrittenIsPrefix, UnracedIsCurrent
  <1>10. TempIsOwned' /\ TempIsNext'
    <2>1. temp[r] = NoFile
      BY <1>1 DEF IInv, TempIsOwned
    <2> QED
      BY <2>1, <1>1, <1>3, <1>7 DEF IInv, TempIsOwned, TempIsNext
  <1>11. ReportIsExact'
    BY <1>1, <1>2, <1>3, <1>7 DEF IInv, ReportIsExact
  <1> QED
    BY <1>4, <1>6, <1>8, <1>9, <1>10, <1>11 DEF IInv

(* A temporary file appears: for the first of the unwritten files.         *)
LEMMA CreateTempKeeps ==
  ASSUME IInv, NEW r \in Run, CreateTemp(r)
  PROVE  IInv'
  <1>1. PICK p \in Unwritten(r) :
          (\A q \in Unwritten(r) : p <= q) /\ target' = [target EXCEPT ![r] = p]
    BY DEF CreateTemp
  <1>2. p \in Path
    BY <1>1 DEF Unwritten, Changed
  <1>3. TypeOK'
    BY <1>1, <1>2 DEF IInv, TypeOK, CreateTemp
  <1>4. TempIsOwned' /\ TempIsNext'
    BY <1>1 DEF IInv, TypeOK, TempIsOwned, TempIsNext, CreateTemp, Changed, Unwritten
  <1>5. EditorsAreCleared' /\ PhaseIsTold' /\ NoHalfText' /\ ReportIsExact'
    BY DEF IInv, EditorsAreCleared, Cleared, PhaseIsTold, NoHalfText, ReportIsExact,
           CreateTemp, Changed
  <1>6. WrittenIsPrefix' /\ UnracedIsCurrent'
    BY DEF IInv, WrittenIsPrefix, UnracedIsCurrent, CreateTemp, Changed, Unwritten
  <1> QED
    BY <1>3, <1>4, <1>5, <1>6 DEF IInv

LEMMA FillTempKeeps ==
  ASSUME IInv, NEW r \in Run, FillTemp(r)
  PROVE  IInv'
  <1>1. target[r] \in Path /\ after[r][target[r]] \in Text
    <2>1. temp[r] # NoFile
      BY OpRunAssumption DEF FillTemp
    <2>2. target[r] \in Changed(r)
      BY <2>1 DEF IInv, TempIsOwned, Unwritten
    <2> QED
      BY <2>2 DEF IInv, TypeOK, Changed
  <1>2. TypeOK'
    BY <1>1 DEF IInv, TypeOK, FillTemp
  <1>3. TempIsOwned' /\ TempIsNext'
    BY <1>1, OpRunAssumption DEF IInv, TypeOK, TempIsOwned, TempIsNext, FillTemp, Changed, Unwritten
  <1>4. EditorsAreCleared' /\ PhaseIsTold' /\ NoHalfText' /\ ReportIsExact'
    BY DEF IInv, EditorsAreCleared, Cleared, PhaseIsTold, NoHalfText, ReportIsExact,
           FillTemp, Changed
  <1>5. WrittenIsPrefix' /\ UnracedIsCurrent'
    BY DEF IInv, WrittenIsPrefix, UnracedIsCurrent, FillTemp, Changed, Unwritten
  <1> QED
    BY <1>2, <1>3, <1>4, <1>5 DEF IInv

(* What a rename does: the first unwritten file gets its whole new text.   *)
LEMMA RenameEffect ==
  ASSUME IInv, NEW r \in Run, Rename(r)
  PROVE  LET p == target[r] IN
         /\ p \in Unwritten(r) /\ p \in Path
         /\ \A q \in Unwritten(r) : p <= q
         /\ after[r][p] \in Text /\ Cleared(r)
         /\ disk' = [disk EXCEPT ![p] = after[r][p]]
         /\ written' = [written EXCEPT ![r] = @ \cup {p}]
  <1>1. target[r] \in Unwritten(r) /\ target[r] \in Path
    BY DEF IInv, TypeOK, TempIsOwned, Rename
  <1>2. (\A q \in Unwritten(r) : target[r] <= q) /\ temp[r] = after[r][target[r]]
    BY DEF IInv, TempIsNext, Rename
  <1>3. after[r][target[r]] \in Text
    BY <1>1 DEF IInv, TypeOK, Unwritten, Changed
  <1>4. Cleared(r)
    BY DEF IInv, PhaseIsTold, Rename, Cleared
  <1> QED
    BY <1>1, <1>2, <1>3, <1>4 DEF Rename

LEMMA RenameKeeps ==
  ASSUME IInv, NEW r \in Run, Rename(r)
  PROVE  IInv'
  <1> DEFINE p == target[r]
  <1>1. /\ p \in Unwritten(r) /\ p \in Path
        /\ \A q \in Unwritten(r) : p <= q
        /\ after[r][p] \in Text /\ Cleared(r)
        /\ disk' = [disk EXCEPT ![p] = after[r][p]]
        /\ written' = [written EXCEPT ![r] = @ \cup {p}]
    BY RenameEffect
  <1>2. temp' = [temp EXCEPT ![r] = NoFile] /\ UNCHANGED <<pc, write, after, passed, target, reported>>
    BY DEF Rename
  <1>3. raced' = [s \in Run |->
          IF s # r /\ p \in Changed(s) THEN raced[s] \cup {p} ELSE raced[s]]
    BY DEF Rename, Race
  <1> HIDE DEF p
  <1>4. \A s \in Run : Changed(s)' = Changed(s) /\ (Cleared(s)' <=> Cleared(s))
    BY <1>2 DEF Changed, Cleared
  <1>5. /\ written'[r] = written[r] \cup {p}
        /\ \A s \in Run : s # r => written'[s] = written[s]
        /\ disk'[p] = after[r][p] /\ \A q \in Path : q # p => disk'[q] = disk[q]
    BY <1>1 DEF IInv, TypeOK
  <1>6. TypeOK'
    <2>1. disk' \in [Path -> Text \cup {NoFile, Half}] /\ written' \in [Run -> SUBSET Path]
      BY <1>1 DEF IInv, TypeOK
    <2>2. raced' \in [Run -> SUBSET Path]
      BY <1>1, <1>3 DEF IInv, TypeOK
    <2> QED
      BY <1>2, <2>1, <2>2 DEF IInv, TypeOK, Rename
  <1>7. EditorsAreCleared'
    <2>1. ASSUME NEW s \in Run, NEW q \in Path, disk'[q] \notin {NoFile, Half}, s \in disk'[q]
          PROVE  Cleared(s)
      <3>1. CASE q = p
        <4>1. s \in after[r][p] /\ after[r][p] # NoFile
          BY <3>1, <2>1, <1>5
        <4> QED
          BY <4>1, <1>1 DEF IInv, EditorsAreCleared
      <3>2. CASE q # p
        BY <3>2, <2>1, <1>5 DEF IInv, EditorsAreCleared
      <3> QED
        BY <3>1, <3>2
    <2> QED
      BY <2>1, <1>2, <1>4 DEF IInv, EditorsAreCleared
  <1>8. PhaseIsTold'
    <2>1. written'[r] \subseteq Changed(r)
      BY <1>1, <1>5 DEF IInv, PhaseIsTold, Unwritten
    <2>2. pc[r] \notin {"apply", "gate"}
      BY DEF Rename
    <2> QED
      BY <2>1, <2>2, <1>2, <1>4, <1>5 DEF IInv, PhaseIsTold
  <1>9. NoHalfText'
    BY <1>1, <1>5, OpRunAssumption DEF IInv, NoHalfText
  <1>10. \A s \in Run : temp'[s] # NoFile => s # r /\ Unwritten(s)' = Unwritten(s)
    BY <1>2, <1>4, <1>5 DEF IInv, TypeOK, Unwritten
  <1>11. TempIsOwned' /\ TempIsNext'
    BY <1>2, <1>10 DEF IInv, TypeOK, TempIsOwned, TempIsNext
  <1>12. ReportIsExact'
    <2>1. pc[r] = "write" /\ reported[r] = {}
      BY DEF IInv, PhaseIsTold, Rename
    <2>2. \A s \in Run : s # r => written'[s] = written[s]
      BY <1>5
    <2> QED
      BY <2>1, <2>2, <1>2, <1>4 DEF IInv, ReportIsExact
  <1>13. WrittenIsPrefix'
    <2>1. ASSUME NEW s \in Run, NEW a \in written'[s], NEW q \in Changed(s), q < a
          PROVE  q \in written'[s]
      <3>1. CASE s = r /\ a = p
        <4>1. q \in Unwritten(r) => p <= q
          BY <1>1
        <4>2. p \in Nat /\ q \in Nat
          BY <1>1 DEF Path, Changed
        <4> QED
          BY <3>1, <2>1, <4>1, <4>2, <1>5 DEF Unwritten
      <3>2. CASE s # r \/ a # p
        BY <3>2, <2>1, <1>5 DEF IInv, WrittenIsPrefix
      <3> QED
        BY <3>1, <3>2
    <2> QED
      BY <2>1, <1>4 DEF WrittenIsPrefix
  <1>14. UnracedIsCurrent'
    <2>1. ASSUME NEW s \in Run, NEW q \in Unwritten(s)', q \notin raced'[s]
          PROVE  disk'[q] = disk[q] /\ q \in Unwritten(s) \ raced[s]
      <3>1. q \in Changed(s) /\ q \in Path
        BY <1>4 DEF Unwritten, Changed
      <3>2. q # p
        BY <2>1, <3>1, <1>3, <1>5 DEF Unwritten
      <3> QED
        BY <2>1, <3>1, <3>2, <1>1, <1>3, <1>4, <1>5 DEF Unwritten
    <2> QED
      BY <2>1, <1>2 DEF IInv, UnracedIsCurrent
  <1> QED
    BY <1>6, <1>7, <1>8, <1>9, <1>11, <1>12, <1>13, <1>14 DEF IInv

(* The ends of a run, orderly or not.                                      *)
LEMMA EndKeeps ==
  ASSUME IInv, NEW r \in Run, WriteFails(r) \/ WriteDone(r) \/ Kill(r)
  PROVE  IInv'
  <1>1. /\ UNCHANGED <<disk, write, after, passed, target, written, outside, raced>>
        /\ pc[r] \notin Ended
        /\ \E e \in Ended : pc' = [pc EXCEPT ![r] = e]
        /\ temp' = temp \/ temp' = [temp EXCEPT ![r] = NoFile]
        /\ \E said \in {reported[r], {written[r]}, {}} : reported' = [reported EXCEPT ![r] = said]
    <2>1. reported = [reported EXCEPT ![r] = reported[r]]
      BY DEF IInv, TypeOK
    <2> QED
      BY <2>1 DEF WriteFails, WriteDone, Report, Kill, local, Ended
  <1>2. /\ pc'[r] \in Ended /\ temp'[r] \in {temp[r], NoFile}
        /\ \A s \in Run : s # r =>
             pc'[s] = pc[s] /\ temp'[s] = temp[s] /\ reported'[s] = reported[s]
    BY <1>1 DEF IInv, TypeOK
  <1>3. \A s \in Run : Changed(s)' = Changed(s) /\ Unwritten(s)' = Unwritten(s)
    BY <1>1 DEF Changed, Unwritten
  <1>4. TypeOK'
    <2>1. pc' \in [Run -> {"apply", "gate", "write"} \cup Ended]
      BY <1>1 DEF IInv, TypeOK
    <2>2. temp' \in [Run -> Text \cup {NoFile, Half}]
      BY <1>1 DEF IInv, TypeOK
    <2>3. reported' \in [Run -> SUBSET SUBSET Path]
      BY <1>1 DEF IInv, TypeOK
    <2> QED
      BY <1>1, <2>1, <2>2, <2>3 DEF IInv, TypeOK
  <1>5. EditorsAreCleared'
    <2>1. \A s \in Run : Cleared(s) => Cleared(s)'
      BY <1>1, <1>2 DEF Cleared, Ended
    <2> QED
      BY <1>1, <2>1 DEF IInv, EditorsAreCleared
  <1>6. PhaseIsTold'
    BY <1>1, <1>2, <1>3 DEF IInv, PhaseIsTold, Ended
  <1>7. NoHalfText' /\ WrittenIsPrefix' /\ UnracedIsCurrent'
    BY <1>1, <1>3 DEF IInv, NoHalfText, WrittenIsPrefix, UnracedIsCurrent
  <1>8. temp'[r] # NoFile => pc'[r] = "killed"
    BY DEF IInv, TypeOK, TempIsOwned, WriteFails, WriteDone, Report, Kill
  <1>9. TempIsOwned' /\ TempIsNext'
    BY <1>1, <1>2, <1>3, <1>8 DEF IInv, TempIsOwned, TempIsNext
  <1>10. ReportIsExact'
    <2>1. CASE WriteDone(r)
      <3>1. written[r] = Changed(r) /\ write[r]
        BY <2>1 DEF IInv, WriteDone, PhaseIsTold, Unwritten
      <3>2. IF r \in Mute THEN pc'[r] = "failed" /\ reported'[r] = {}
                           ELSE pc'[r] = "done" /\ reported'[r] = {written[r]}
        BY <2>1 DEF IInv, TypeOK, WriteDone, Report
      <3> QED
        BY <3>1, <3>2, <1>1, <1>2, <1>3 DEF IInv, ReportIsExact
    <2>2. CASE WriteFails(r)
      <3>1. /\ pc'[r] = "failed"
            /\ reported'[r] = IF written[r] # {} /\ r \notin Mute THEN {written[r]} ELSE {}
        BY <2>2 DEF IInv, TypeOK, WriteFails
      <3> QED
        BY <3>1, <1>1, <1>2, <1>3 DEF IInv, ReportIsExact
    <2>3. CASE Kill(r)
      <3>1. pc'[r] = "killed" /\ reported'[r] = reported[r]
        BY <2>3 DEF IInv, TypeOK, Kill, local
      <3> QED
        BY <3>1, <1>1, <1>2, <1>3 DEF IInv, ReportIsExact
    <2> QED
      BY <2>1, <2>2, <2>3
  <1> QED
    BY <1>4, <1>5, <1>6, <1>7, <1>9, <1>10 DEF IInv

(* Other programs leave whole texts without anybody's uncleared edit, and  *)
(* whoever has read the file is behind.                                    *)
LEMMA OutsideKeeps ==
  ASSUME IInv, NEW p \in Path,
         (\E o \in Outsider : OutsideSave(p, o)) \/ OutsideRemove(p)
  PROVE  IInv'
  <1>1. /\ UNCHANGED <<pc, write, after, passed, target, temp, written, reported>>
        /\ outside < MaxOutside /\ outside' = outside + 1
    BY DEF OutsideSave, OutsideRemove, local
  <1>2. \A s \in Run : /\ Changed(s)' = Changed(s) /\ Unwritten(s)' = Unwritten(s)
                       /\ (Cleared(s)' <=> Cleared(s))
    BY <1>1 DEF Changed, Unwritten, Cleared
  <1>3. PICK new \in Text \cup {NoFile} :
          /\ disk' = [disk EXCEPT ![p] = new]
          /\ new # NoFile => \A s \in Run : s \in new => disk[p] # NoFile /\ s \in disk[p]
    <2>1. ASSUME NEW o \in Outsider, OutsideSave(p, o)
          PROVE  \E new \in Text : /\ disk' = [disk EXCEPT ![p] = new]
                                   /\ \A s \in Run : s \in new => disk[p] # NoFile /\ s \in disk[p]
      <3> DEFINE old == IF disk[p] = NoFile THEN {} ELSE disk[p]
      <3>1. old \in Text
        BY DEF IInv, TypeOK, NoHalfText, Text
      <3>2. disk' = [disk EXCEPT ![p] = old \cup {o}]
        BY <2>1 DEF OutsideSave
      <3>3. old \cup {o} \in Text
        BY <3>1 DEF Text, Author
      <3>4. \A s \in Run : s \in old \cup {o} => disk[p] # NoFile /\ s \in disk[p]
        BY OpRunAssumption
      <3> QED
        BY <3>2, <3>3, <3>4
    <2>2. CASE OutsideRemove(p)
      BY <2>2 DEF OutsideRemove
    <2> QED
      BY <2>1, <2>2
  <1>4. raced' = [s \in Run |-> IF p \in Changed(s) THEN raced[s] \cup {p} ELSE raced[s]]
    <2>1. \A s \in Run : s \notin Outsider /\ s # NoFile
      BY OpRunAssumption DEF Author
    <2> QED
      BY <2>1 DEF OutsideSave, OutsideRemove, Race
  <1>5. disk'[p] = new /\ \A q \in Path : q # p => disk'[q] = disk[q]
    BY <1>3 DEF IInv, TypeOK
  <1>6. TypeOK'
    <2>1. disk' \in [Path -> Text \cup {NoFile, Half}] /\ raced' \in [Run -> SUBSET Path]
      BY <1>3, <1>4 DEF IInv, TypeOK
    <2>2. outside' \in 0..MaxOutside
      BY <1>1, OpRunAssumption DEF IInv, TypeOK
    <2> QED
      BY <1>1, <2>1, <2>2 DEF IInv, TypeOK
  <1>7. EditorsAreCleared'
    <2>1. ASSUME NEW s \in Run, NEW q \in Path, disk'[q] \notin {NoFile, Half}, s \in disk'[q]
          PROVE  Cleared(s)
      <3>1. disk[q] \notin {NoFile, Half} /\ s \in disk[q]
        BY <2>1, <1>3, <1>5 DEF IInv, NoHalfText
      <3> QED
        BY <3>1 DEF IInv, EditorsAreCleared
    <2> QED
      BY <2>1, <1>1, <1>2 DEF IInv, EditorsAreCleared
  <1>8. PhaseIsTold' /\ TempIsOwned' /\ TempIsNext' /\ ReportIsExact' /\ WrittenIsPrefix'
    BY <1>1, <1>2 DEF IInv, PhaseIsTold, TempIsOwned, TempIsNext, ReportIsExact, WrittenIsPrefix
  <1>9. NoHalfText'
    BY <1>5, OpRunAssumption DEF IInv, NoHalfText
  <1>10. UnracedIsCurrent'
    <2>1. ASSUME NEW s \in Run, NEW q \in Unwritten(s), q \notin raced'[s]
          PROVE  disk'[q] = disk[q] /\ q \notin raced[s]
      <3>1. q \in Changed(s) /\ q \in Path
        BY DEF Unwritten, Changed
      <3> QED
        BY <2>1, <3>1, <1>4, <1>5
    <2> QED
      BY <2>1, <1>1, <1>2 DEF IInv, UnracedIsCurrent
  <1> QED
    BY <1>6, <1>7, <1>8, <1>9, <1>10 DEF IInv

LEMMA StutterKeeps ==
  ASSUME IInv, UNCHANGED vars
  PROVE  IInv'
  <1>1. UNCHANGED <<disk, pc, write, after, passed, target, temp, written, reported,
                    outside, raced>>
    BY DEF vars, local
  <1>2. TypeOK' /\ EditorsAreCleared' /\ NoHalfText'
    BY <1>1 DEF IInv, TypeOK, EditorsAreCleared, Cleared, NoHalfText
  <1>3. PhaseIsTold' /\ TempIsOwned' /\ TempIsNext'
    BY <1>1 DEF IInv, PhaseIsTold, TempIsOwned, TempIsNext, Changed, Unwritten
  <1>4. ReportIsExact' /\ WrittenIsPrefix' /\ UnracedIsCurrent'
    BY <1>1 DEF IInv, ReportIsExact, WrittenIsPrefix, UnracedIsCurrent, Changed, Unwritten
  <1> QED
    BY <1>2, <1>3, <1>4 DEF IInv

LEMMA IInvStep == IInv /\ [Next]_vars => IInv'
  <1> SUFFICES ASSUME IInv, [Next]_vars
               PROVE  IInv'
    OBVIOUS
  <1>1. ASSUME NEW r \in Run, Advance(r) \/ Kill(r)
        PROVE  IInv'
    BY <1>1, ApplyKeeps, DecisionKeeps, CreateTempKeeps, FillTempKeeps, RenameKeeps,
       EndKeeps DEF Advance
  <1>2. ASSUME NEW p \in Path, (\E o \in Outsider : OutsideSave(p, o)) \/ OutsideRemove(p)
        PROVE  IInv'
    BY <1>2, OutsideKeeps
  <1>3. CASE UNCHANGED vars
    BY <1>3, StutterKeeps
  <1> QED
    BY <1>1, <1>2, <1>3 DEF Next

LEMMA Invariance == Spec => []IInv
  BY InitOK, IInvStep, PTL DEF Spec

-----------------------------------------------------------------------------
(* The variables hold values of their kinds: texts, phases, files.         *)
THEOREM TypeCorrect == Spec => []TypeOK
  <1>1. IInv => TypeOK
    BY DEF IInv
  <1> QED
    BY <1>1, Invariance, PTL

(* Nothing that a run computed reaches the disk, however many runs it went *)
(* through, unless that run was asked to write and had passed validation.  *)
THEOREM OnlyValidatedWrites == Spec => []WritesAreValidated
  <1>1. IInv => WritesAreValidated
    BY DEF IInv, EditorsAreCleared, Cleared, WritesAreValidated
  <1> QED
    BY <1>1, Invariance, PTL

(* No reader ever sees half a file, not even after a run was killed.       *)
THEOREM FilesStayWhole == Spec => []NoHalfText
  <1>1. IInv => NoHalfText
    BY DEF IInv
  <1> QED
    BY <1>1, Invariance, PTL

(* What a run reports is exactly what it has replaced; a run that is not   *)
(* killed and replaces files without a report is one that cannot print.    *)
THEOREM ReportsAreExact == Spec => []ReportIsExact
  <1>1. IInv => ReportIsExact
    BY DEF IInv
  <1> QED
    BY <1>1, Invariance, PTL

(* Whatever ends a run, it has replaced a prefix of its changed files.     *)
THEOREM PartialWritesArePrefixes == Spec => []WrittenIsPrefix
  <1>1. IInv => WrittenIsPrefix
    BY DEF IInv
  <1> QED
    BY <1>1, Invariance, PTL

(* Only a run that is writing or was killed has a temporary file.          *)
THEOREM NoStrayTemps == Spec => []TempIsOwned
  <1>1. IInv => TempIsOwned
    BY DEF IInv
  <1> QED
    BY <1>1, Invariance, PTL

(* A rename over a file nobody has touched since the run read it loses     *)
(* nothing: it adds the run's edit to what was there.                      *)
THEOREM UnracedWritesOnlyAdd == Spec => UnracedWriteOnlyAdds
  <1> DEFINE Adds == \A r \in Run : \A p \in written'[r] \ written[r] :
                       p \notin raced[r] => disk'[p] = disk[p] \cup {r}
  <1>1. ASSUME IInv, [Next]_vars
        PROVE  Adds \/ UNCHANGED vars
    <2>1. ASSUME NEW r \in Run, Rename(r)
          PROVE  Adds
      <3> DEFINE p == target[r]
      <3>1. /\ p \in Unwritten(r) /\ p \in Path
            /\ disk' = [disk EXCEPT ![p] = after[r][p]]
            /\ written' = [written EXCEPT ![r] = @ \cup {p}]
        BY <1>1, <2>1, RenameEffect
      <3>2. p \notin raced[r] => disk'[p] = disk[p] \cup {r}
        BY <1>1, <3>1 DEF IInv, TypeOK, UnracedIsCurrent
      <3>3. \A s \in Run : s # r => written'[s] = written[s]
        BY <1>1, <3>1 DEF IInv, TypeOK
      <3>4. written'[r] \ written[r] \subseteq {p}
        BY <1>1, <3>1 DEF IInv, TypeOK
      <3> HIDE DEF p
      <3> QED
        BY <3>2, <3>3, <3>4
    <2>2. ASSUME ~ \E r \in Run : Rename(r)
          PROVE  UNCHANGED written
      BY <1>1, <2>2 DEF Next, Advance, Apply, Validate, FailEarly, Gate, CreateTemp, FillTemp,
         Report, WriteFails, WriteDone, Kill, OutsideSave, OutsideRemove, vars, local
    <2> QED
      BY <2>1, <2>2
  <1> QED
    BY <1>1, Invariance, PTL DEF Spec, UnracedWriteOnlyAdds
=============================================================================
