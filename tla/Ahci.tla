-------------------------------- MODULE Ahci --------------------------------
(***************************************************************************)
(* The driver of ahci.c and one port of its controller, with one command   *)
(* slot.  The waits have no limit; a task file error ends them, and is     *)
(* never cleared after ahci_init.                                          *)
(***************************************************************************)
EXTENDS Naturals

VARIABLES
  pc,        \* what the driver does next
  running,   \* CR and FR: the port's engines
  ci,        \* the command issue bit of slot 0
  busy,      \* BSY and DRQ of the task file
  tfe,       \* the task file error in the port's interrupt status
  slot,      \* the sector call the slot was filled for
  req, outcome, moved   \* as in Emmc

port == <<running, ci, busy, tfe, slot>>
call == <<req, outcome, moved>>
vars == <<pc, port, call>>

\* Firmware may have used the port, and left anything in its status.
Init ==
  /\ pc = "off"
  /\ running = TRUE /\ ci = FALSE /\ busy = FALSE /\ tfe = TRUE
  /\ slot = 0

\* find_free_port, which may find none.
ahci_init ==
  /\ pc = "off"
  /\ pc' \in {"stop", "failed"}
  /\ UNCHANGED <<port, call>>

\* Stopped: the wait of port_stop is over; the status is cleared and the port
\* started.
PortStart ==
  /\ pc = "stop"
  /\ ~running
  /\ tfe' = FALSE
  /\ running' = TRUE
  /\ pc' = "idle"
  /\ UNCHANGED <<ci, busy, slot, call>>

Sector ==
  /\ pc = "idle"
  /\ req' = req + 1
  /\ outcome' = "none"
  /\ pc' = "busy"
  /\ UNCHANGED <<port, moved>>

Issue ==
  /\ pc = "busy"
  /\ ~busy
  /\ slot' = req
  /\ ci' = TRUE
  /\ pc' = "poll"
  /\ UNCHANGED <<running, busy, tfe, call>>

Done == ~ci

Polled ==
  /\ pc = "poll"
  /\ Done
  /\ outcome' = "quiet"
  /\ pc' = "idle"
  /\ UNCHANGED <<port, req, moved>>

Failed ==
  /\ pc = "poll"
  /\ ~Done
  /\ tfe
  /\ outcome' = "message"
  /\ pc' = "idle"
  /\ UNCHANGED <<port, req, moved>>

-----------------------------------------------------------------------------
(* The port.  After an error it is halted until it is started again, and   *)
(* keeps the command.                                                      *)

Stop ==
  /\ pc = "stop"
  /\ running
  /\ running' = FALSE
  /\ UNCHANGED <<pc, ci, busy, tfe, slot, call>>

Move ==
  /\ ci /\ running
  /\ ci' = FALSE
  /\ moved' = moved \cup {slot}
  /\ UNCHANGED <<pc, running, busy, tfe, slot, req, outcome>>

MoveError ==
  /\ ci /\ running
  /\ tfe' = TRUE
  /\ running' = FALSE
  /\ busy' \in BOOLEAN
  /\ UNCHANGED <<pc, ci, slot, call>>

Setup    == ahci_init \/ PortStart
Sectors  == Sector \/ Issue \/ Polled \/ Failed
Hardware == Move \/ MoveError
=============================================================================
