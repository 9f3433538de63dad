---------------------------- MODULE MCProcesses ----------------------------
(* Processes for TLC.  The table has fewer slots than the 16 of the code:    *)
(* cmd_run keeps at most one program alive, so the third slot is there to    *)
(* show that the search skips a dead one.                                    *)
EXTENDS Processes

ThreeSlots == 3
AllPrograms == ProgramKinds
Exiting == {"exit"}
Returning == {"return"}
=============================================================================
