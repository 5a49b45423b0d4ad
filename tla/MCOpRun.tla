------------------------------ MODULE MCOpRun -------------------------------
(* Two runs on the same two files and one other program.  The system comes *)
(* to a stop once every run has ended: deadlock is not an error here.      *)
EXTENDS OpRun
=============================================================================
