------------------------------- MODULE OpRun --------------------------------
(***************************************************************************)
(* `codegate op run` (cmd/codegate/operation.go): a process reads files,   *)
(* edits them in a change set, validates it, writes the patch file and,    *)
(* with --write and a passed validation, puts the changed files on disk    *)
(* one by one, each through a temporary file and a rename.  Several such   *)
(* processes and other programs share the disk; a process may be killed    *)
(* between any two steps.                                                  *)
(*                                                                         *)
(* Paths are numbered in the order Files sorts them.  A text is the set of *)
(* those who have edited it; half of one is what a reader must never see.  *)
(***************************************************************************)
EXTENDS Naturals

CONSTANTS
  NumPaths,    \* the workspace's files are 1..NumPaths
  Run,         \* op run processes
  Mute,        \* those that cannot print: --format is not json, output is closed
  Outsider,    \* other programs that save files
  MaxOutside,  \* bounds what they do to the disk
  NoFile,      \* no file there; no text of one's own
  Half         \* what a reader sees of a file that is being overwritten

Path == 1..NumPaths
Author == Run \cup Outsider
Text == SUBSET Author

ASSUME OpRunAssumption ==
  /\ NumPaths \in Nat \ {0}
  /\ Run \cap Outsider = {} /\ Mute \subseteq Run
  /\ MaxOutside \in Nat
  /\ NoFile \notin Author /\ NoFile # Half
  /\ \A t \in Text : t # NoFile /\ t # Half

VARIABLES
  disk,        \* disk[p]: the set of p's editors, NoFile, or Half
  pc,          \* pc[r]: where the process is
  write,       \* write[r]: --write was given
  after,       \* after[r][p]: the change set's text of p, NoFile when unchanged
  passed,      \* passed[r]: ValidationResult.Passed
  target,      \* target[r]: the path being written
  temp,        \* temp[r]: its temporary file's text, NoFile without one
  written,     \* written[r]: the paths renamed into place
  reported     \* reported[r]: {} or {written_files as printed}

VARIABLES
  outside,     \* changes made by other programs, for the bound only
  raced        \* history: paths somebody else has changed since r read them

local == <<write, after, passed, target, temp, written, reported>>
vars == <<disk, pc, local, outside, raced>>

Ended == {"done", "failed", "killed"}
Changed(r) == {p \in Path : after[r][p] # NoFile}
Unwritten(r) == Changed(r) \ written[r]

(* Whoever changes p on disk leaves the runs that have read p behind.      *)
Race(p, by) ==
  raced' = [r \in Run |->
    IF r # by /\ p \in Changed(r) THEN raced[r] \cup {p} ELSE raced[r]]

Init ==
  /\ disk = [p \in Path |-> {}]
  /\ pc = [r \in Run |-> "apply"]
  /\ write \in [Run -> BOOLEAN]
  /\ after = [r \in Run |-> [p \in Path |-> NoFile]]
  /\ passed = [r \in Run |-> FALSE]
  /\ target = [r \in Run |-> 1]
  /\ temp = [r \in Run |-> NoFile]
  /\ written = [r \in Run |-> {}]
  /\ reported = [r \in Run |-> {}]
  /\ outside = 0
  /\ raced = [r \in Run |-> {}]

(* Fault: the edit starts from an empty text instead of the file's.        *)
ApplyToNothing(r, p) ==
  /\ pc[r] = "apply"
  /\ p \notin Changed(r)
  /\ disk[p] # NoFile
  /\ after' = [after EXCEPT ![r][p] = {r}]
  /\ UNCHANGED <<disk, pc, write, passed, target, temp, written,
                 reported, outside, raced>>

(* changes.Apply edits one more file.                                      *)
Apply(r, p) ==
  /\ pc[r] = "apply"
  /\ p \notin Changed(r)
  /\ disk[p] # NoFile
  /\ after' = [after EXCEPT ![r][p] = disk[p] \cup {r}]
  /\ UNCHANGED <<disk, pc, write, passed, target, temp, written,
                 reported, outside, raced>>

(* changes.Validate, Files and Diff; then --patch writes the diff, whether *)
(* or not validation passed, to a file nothing reads back.                 *)
Validate(r) ==
  /\ pc[r] = "apply"
  /\ \E ok \in BOOLEAN : passed' = [passed EXCEPT ![r] = ok]
  /\ pc' = [pc EXCEPT ![r] = "gate"]
  /\ UNCHANGED <<disk, write, after, target, temp, written, reported,
                 outside, raced>>

(* Reading the operations, building the engine, Apply, Validate, Files,    *)
(* Diff or writing the patch file fails: RunE returns the error.           *)
FailEarly(r) ==
  /\ pc[r] \in {"apply", "gate"}
  /\ pc' = [pc EXCEPT ![r] = "failed"]
  /\ UNCHANGED <<disk, local, outside, raced>>

(* print, the last thing a run does.  --format is not looked at before.    *)
Report(r) ==
  /\ reported' = [reported EXCEPT ![r] = IF r \in Mute THEN {} ELSE {written[r]}]
  /\ pc' = [pc EXCEPT ![r] = IF r \in Mute THEN "failed" ELSE "done"]

(* Fault: --write does not look at the validation.                         *)
GateOpen(r) ==
  /\ pc[r] = "gate"
  /\ IF write[r]
       THEN pc' = [pc EXCEPT ![r] = "write"] /\ UNCHANGED reported
       ELSE Report(r)
  /\ UNCHANGED <<disk, write, after, passed, target, temp, written,
                 outside, raced>>

(* Fault: a refused run ends in a state nobody looks for.                  *)
GateRefuses(r) ==
  /\ pc[r] = "gate"
  /\ IF write[r]
       THEN /\ pc' = [pc EXCEPT ![r] = IF passed[r] THEN "write" ELSE "refused"]
            /\ UNCHANGED reported
       ELSE Report(r)
  /\ UNCHANGED <<disk, write, after, passed, target, temp, written,
                 outside, raced>>

(* A dry run prints its result; --write is refused after a failed          *)
(* validation.                                                             *)
Gate(r) ==
  /\ pc[r] = "gate"
  /\ IF write[r]
       THEN /\ pc' = [pc EXCEPT ![r] = IF passed[r] THEN "write" ELSE "failed"]
            /\ UNCHANGED reported
       ELSE Report(r)
  /\ UNCHANGED <<disk, write, after, passed, target, temp, written,
                 outside, raced>>

(* Fault: files are written in map order.                                  *)
CreateTempAnyOrder(r) ==
  /\ pc[r] = "write" /\ temp[r] = NoFile
  /\ \E p \in Unwritten(r) :
       /\ disk[p] # NoFile
       /\ target' = [target EXCEPT ![r] = p]
  /\ temp' = [temp EXCEPT ![r] = Half]
  /\ UNCHANGED <<disk, pc, write, after, passed, written, reported,
                 outside, raced>>

(* atomicWriteFile: the next path must exist; a temporary file appears in  *)
(* its directory.                                                          *)
CreateTemp(r) ==
  /\ pc[r] = "write" /\ temp[r] = NoFile
  /\ \E p \in Unwritten(r) :
       /\ \A q \in Unwritten(r) : p <= q
       /\ disk[p] # NoFile
       /\ target' = [target EXCEPT ![r] = p]
  /\ temp' = [temp EXCEPT ![r] = Half]
  /\ UNCHANGED <<disk, pc, write, after, passed, written, reported,
                 outside, raced>>

(* Write, Chmod, Sync and Close of the temporary file.                     *)
FillTemp(r) ==
  /\ temp[r] = Half /\ pc[r] = "write"
  /\ temp' = [temp EXCEPT ![r] = after[r][target[r]]]
  /\ UNCHANGED <<disk, pc, write, after, passed, target, written,
                 reported, outside, raced>>

(* Fault: the file is renamed before it is written and closed.             *)
RenameEarly(r) ==
  /\ temp[r] # NoFile /\ pc[r] = "write"
  /\ disk' = [disk EXCEPT ![target[r]] = temp[r]]
  /\ temp' = [temp EXCEPT ![r] = NoFile]
  /\ written' = [written EXCEPT ![r] = @ \cup {target[r]}]
  /\ Race(target[r], r)
  /\ UNCHANGED <<pc, write, after, passed, target, reported, outside>>

(* The rename: the temporary file takes the place of whatever was there.   *)
Rename(r) ==
  /\ temp[r] \notin {NoFile, Half} /\ pc[r] = "write"
  /\ disk' = [disk EXCEPT ![target[r]] = temp[r]]
  /\ temp' = [temp EXCEPT ![r] = NoFile]
  /\ written' = [written EXCEPT ![r] = @ \cup {target[r]}]
  /\ Race(target[r], r)
  /\ UNCHANGED <<pc, write, after, passed, target, reported, outside>>

(* Fault: an error drops the list of the files already written.            *)
WriteFailsSilently(r) ==
  /\ pc[r] = "write"
  /\ Unwritten(r) # {}
  /\ temp' = [temp EXCEPT ![r] = NoFile]
  /\ pc' = [pc EXCEPT ![r] = "failed"]
  /\ UNCHANGED <<disk, write, after, passed, target, written,
                 reported, outside, raced>>

(* Fault: a failed write leaves its temporary file.                        *)
WriteFailsLeaky(r) ==
  /\ pc[r] = "write"
  /\ Unwritten(r) # {}
  /\ pc' = [pc EXCEPT ![r] = "failed"]
  /\ reported' = [reported EXCEPT ![r] =
                    IF written[r] # {} /\ r \notin Mute THEN {written[r]} ELSE {}]
  /\ UNCHANGED <<disk, write, after, passed, target, temp, written,
                 outside, raced>>

(* The context is cancelled or a step of atomicWriteFile fails: the        *)
(* deferred Remove takes the temporary file away.  The files already       *)
(* written are reported, if there are any and the report can be printed:   *)
(* its own error is dropped.                                               *)
WriteFails(r) ==
  /\ pc[r] = "write"
  /\ Unwritten(r) # {} \/ written[r] = {}
  /\ temp' = [temp EXCEPT ![r] = NoFile]
  /\ pc' = [pc EXCEPT ![r] = "failed"]
  /\ reported' = [reported EXCEPT ![r] =
                    IF written[r] # {} /\ r \notin Mute THEN {written[r]} ELSE {}]
  /\ UNCHANGED <<disk, write, after, passed, target, written, outside,
                 raced>>

(* Every changed file is in place; a report that cannot be printed is the  *)
(* error the run ends with.                                                *)
WriteDone(r) ==
  /\ pc[r] = "write"
  /\ Unwritten(r) = {}
  /\ Report(r)
  /\ UNCHANGED <<disk, write, after, passed, target, temp, written,
                 outside, raced>>

(* The process is killed: nothing deferred runs.                           *)
Kill(r) ==
  /\ pc[r] \notin Ended
  /\ pc' = [pc EXCEPT ![r] = "killed"]
  /\ UNCHANGED <<disk, local, outside, raced>>

OutsideSave(p, o) ==
  /\ outside < MaxOutside
  /\ disk' = [disk EXCEPT ![p] = (IF @ = NoFile THEN {} ELSE @) \cup {o}]
  /\ Race(p, o)
  /\ outside' = outside + 1
  /\ UNCHANGED <<pc, local>>

OutsideRemove(p) ==
  /\ outside < MaxOutside
  /\ disk[p] # NoFile
  /\ disk' = [disk EXCEPT ![p] = NoFile]
  /\ Race(p, NoFile)
  /\ outside' = outside + 1
  /\ UNCHANGED <<pc, local>>

(* What the process itself does next.                                      *)
Advance(r) ==
  \/ \E p \in Path : Apply(r, p)
  \/ Validate(r)
  \/ FailEarly(r)
  \/ Gate(r)
  \/ CreateTemp(r)
  \/ FillTemp(r)
  \/ Rename(r)
  \/ WriteFails(r)
  \/ WriteDone(r)

Next ==
  \/ \E r \in Run : Advance(r) \/ Kill(r)
  \/ \E p \in Path, o \in Outsider : OutsideSave(p, o)
  \/ \E p \in Path : OutsideRemove(p)

Spec == Init /\ [][Next]_vars

-----------------------------------------------------------------------------
TypeOK ==
  /\ disk \in [Path -> Text \cup {NoFile, Half}]
  /\ pc \in [Run -> {"apply", "gate", "write"} \cup Ended]
  /\ write \in [Run -> BOOLEAN]
  /\ after \in [Run -> [Path -> Text \cup {NoFile}]]
  /\ passed \in [Run -> BOOLEAN]
  /\ target \in [Run -> Path]
  /\ temp \in [Run -> Text \cup {NoFile, Half}]
  /\ written \in [Run -> SUBSET Path]
  /\ reported \in [Run -> SUBSET SUBSET Path]
  /\ outside \in 0..MaxOutside
  /\ raced \in [Run -> SUBSET Path]

(* Nothing a run computed reaches the disk, directly or through another    *)
(* run that read it, unless that run was asked to write and its validation *)
(* had passed.                                                             *)
WritesAreValidated ==
  \A r \in Run, p \in Path :
    disk[p] \notin {NoFile, Half} /\ r \in disk[p] => write[r] /\ passed[r]

(* A file is always one whole text: whoever reads it while a run writes it *)
(* or after the run was killed sees the old text or the new one.           *)
NoHalfText == \A p \in Path : disk[p] # Half

(* What a run reports is exactly what it has replaced, also when it failed *)
(* half way, and success means that everything was replaced and reported.  *)
(* A run that was not killed and has replaced files without a word is one  *)
(* that could not print: then even a run that has replaced everything ends *)
(* in an error and no report.                                              *)
ReportIsExact ==
  \A r \in Run :
    /\ \A files \in reported[r] : files = written[r]
    /\ pc[r] = "done" =>
         /\ reported[r] # {}
         /\ written[r] = IF write[r] THEN Changed(r) ELSE {}
    /\ pc[r] = "failed" /\ written[r] # {} => (reported[r] = {} <=> r \in Mute)

(* However a run ends, the files it has replaced are the first ones of its *)
(* changed files in path order, so a partial write can be told from the    *)
(* diff.                                                                   *)
WrittenIsPrefix ==
  \A r \in Run : \A p \in written[r], q \in Changed(r) :
    q < p => q \in written[r]

(* A temporary file is there only while its run is writing that file, or   *)
(* because the run was killed then.                                        *)
TempIsOwned ==
  \A r \in Run :
    temp[r] # NoFile => pc[r] \in {"write", "killed"} /\ target[r] \in Unwritten(r)

(* Only a race loses anything: a rename over a file that nobody has        *)
(* touched since the run read it adds the run's edit to what was there.    *)
UnracedWriteOnlyAdds ==
  [][\A r \in Run : \A p \in written'[r] \ written[r] :
       p \notin raced[r] => disk'[p] = disk[p] \cup {r}]_vars
=============================================================================
