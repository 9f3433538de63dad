-------------------------------- MODULE Emmc --------------------------------
(***************************************************************************)
(* The driver of emmc.c and its host controller.  Every wait of the driver *)
(* is a loop with a limit, so that it may give a command up and issue      *)
(* another while the card still answers the first; what the two know of    *)
(* each other are two inhibit bits and two status registers.               *)
(***************************************************************************)
EXTENDS Naturals

CONSTANTS MaxTries,     \* how often CMD1 is sent: 100
          MaxFailures   \* how often it may fail: 20

VARIABLES
  pc,        \* what the driver does next
  cmd,       \* the command being sent
  tries,     \* CMD1s sent, and how many of them failed
  inhibit,   \* "cmd", "dat": the inhibit bits of the present state
  status,    \* "complete", "transfer": the normal interrupt status
  error,     \* the error interrupt status; bit 15 of the other one shows it
  answering, \* the command the card has not answered, and for which call
  moving,    \* the sector call whose data are on their way, 0 for none
  loaded,    \* the sector call whose buffer and count the controller has been
             \* given, 0 when they are what a transfer has left of them
  req,       \* the number of the sector call
  outcome,   \* how it ended: "quiet" or with a "message"
  moved,     \* history: the calls whose sectors were transferred
  finished,  \* history: the calls whose transfers the controller has ended,
             \* from or to whatever buffer it had
  hurried    \* history: the call gave it its buffer while the data line was taken

driver     == <<pc, cmd, tries>>
controller == <<inhibit, status, error, answering, moving, loaded>>
history    == <<moved, finished, hurried>>
call       == <<req, outcome, history>>
vars       == <<driver, controller, call>>

NoCmd == <<"none", 0>>

Init ==
  /\ pc = "off" /\ cmd = "none" /\ tries = [sent |-> 0, failed |-> 0]
  /\ inhibit = {} /\ status = {} /\ error = FALSE
  /\ answering = NoCmd /\ moving = 0 /\ loaded = 0
  /\ finished = {} /\ hurried = FALSE

-----------------------------------------------------------------------------
(* emmc_init.                                                              *)

\* On a controller of its own, which a reset leaves idle.
Start ==
  /\ pc \in {"off", "failed"}
  /\ pc' = "reset" /\ cmd' = "none" /\ tries' = [sent |-> 0, failed |-> 0]
  /\ inhibit' = {} /\ status' = {} /\ error' = FALSE
  /\ answering' = NoCmd /\ moving' = 0 /\ loaded' = 0
  /\ UNCHANGED call

Send(command) == pc' = "inhibit" /\ cmd' = command

\* The reset, the power at either voltage, the internal clock and the card's
\* clock: each comes up, after some retries, or the driver gives up.
Stages == <<"reset", "power", "clock", "card clock">>

BringUp ==
  /\ \E i \in DOMAIN Stages :
       /\ pc = Stages[i]
       /\ \/ pc' = "failed" /\ UNCHANGED cmd
          \/ IF i < 4 THEN pc' = Stages[i + 1] /\ UNCHANGED cmd ELSE Send("CMD0")
  /\ UNCHANGED <<tries, controller, call>>

Retry(failed) ==
  /\ tries' = [sent |-> tries.sent + 1, failed |-> tries.failed + failed]
  /\ IF tries'.failed > MaxFailures \/ tries'.sent = MaxTries
       THEN pc' = "failed" /\ UNCHANGED cmd
       ELSE Send("CMD1")

\* What emmc_send_cmd's return value leads to; an answer to CMD1 may say that
\* the card is still busy.
Returned(ok) ==
  CASE cmd = "CMD1"   -> IF ok THEN \/ Send("CMD2") /\ UNCHANGED tries
                                    \/ Retry(0)
                         ELSE Retry(1)
    [] cmd = "sector" -> /\ pc' = IF ok THEN "data" ELSE "idle"
                         /\ UNCHANGED <<cmd, tries>>
    [] OTHER          -> /\ IF ~ok THEN pc' = "failed" /\ UNCHANGED cmd
                            ELSE IF cmd = "CMD7" THEN pc' = "idle" /\ UNCHANGED cmd
                            ELSE Send([CMD0 |-> "CMD1", CMD2 |-> "CMD3",
                                       CMD3 |-> "CMD7"][cmd])
                         /\ UNCHANGED tries

\* A sector call that fails in emmc_send_cmd has had its message there.
Ends(ok) == outcome' = IF cmd = "sector" /\ ~ok THEN "message" ELSE outcome

-----------------------------------------------------------------------------
(* emmc_send_cmd.                                                          *)

Needed == IF cmd = "sector" THEN {"cmd", "dat"} ELSE {"cmd"}

\* Mutant: the data line is not waited for.
Idle_CmdOnly == "cmd" \notin inhibit

Idle == Needed \cap inhibit = {}

Issue ==
  /\ pc = "inhibit"
  /\ Idle
  /\ status' = {}
  /\ inhibit' = inhibit \cup Needed
  /\ answering' = <<cmd, req>>
  /\ pc' = "poll"
  /\ UNCHANGED <<cmd, tries, error, moving, loaded, call>>

Complete == "complete" \in status \/ error

\* Either wait may end without what it is for.
GiveUp ==
  /\ \/ pc = "inhibit" /\ ~Idle
     \/ pc = "poll" /\ ~Complete
  /\ Returned(FALSE) /\ Ends(FALSE)
  /\ UNCHANGED <<controller, req, history>>

Polled ==
  /\ pc = "poll"
  /\ Complete
  /\ pc' = "answer"
  /\ UNCHANGED <<cmd, tries, controller, call>>

\* The status is read again, for errors.
Answer ==
  /\ pc = "answer"
  /\ status' = IF error THEN {} ELSE status \ {"complete"}
  /\ error' = FALSE
  /\ Returned(~error) /\ Ends(~error)
  /\ UNCHANGED <<inhibit, answering, moving, loaded, req, history>>

-----------------------------------------------------------------------------
(* emmc_read_sector and emmc_write_sector, which differ in a direction.    *)

\* The address of the buffer, the size and the count are written before
\* emmc_send_cmd waits for the lines: a controller that is still moving the data
\* of a call that was given up may take them or not.
Sector ==
  /\ pc = "idle"
  /\ req' = req + 1
  /\ outcome' = "none"
  /\ hurried' = ("dat" \in inhibit)
  /\ loaded' \in {req'} \cup (IF hurried' THEN {loaded} ELSE {})
  /\ Send("sector")
  /\ UNCHANGED <<tries, inhibit, status, error, answering, moving, moved, finished>>

Transfer == "transfer" \in status \/ error

DataGiveUp ==
  /\ pc = "data"
  /\ ~Transfer
  /\ pc' = "idle" /\ outcome' = "message"
  /\ UNCHANGED <<cmd, tries, controller, req, history>>

DataPolled ==
  /\ pc = "data"
  /\ Transfer
  /\ pc' = "result"
  /\ UNCHANGED <<cmd, tries, controller, call>>

\* The error status keeps an error, and the next command will find it there.
Result ==
  /\ pc = "result"
  /\ outcome' = IF error THEN "message" ELSE "quiet"
  /\ status' = {}
  /\ pc' = "idle"
  /\ UNCHANGED <<cmd, tries, inhibit, error, answering, moving, loaded, req, history>>

-----------------------------------------------------------------------------
(* The controller and the card.  After an error the inhibit bits may stay. *)

Respond ==
  /\ answering # NoCmd
  /\ answering' = NoCmd
  /\ inhibit' = inhibit \ {"cmd"}
  /\ status' = status \cup {"complete"}
  /\ moving' = IF answering[1] = "sector" THEN answering[2] ELSE moving
  /\ UNCHANGED <<driver, error, loaded, call>>

\* A card whose answer was spoilt may go on to the data all the same.
RespondError ==
  /\ answering # NoCmd
  /\ answering' = NoCmd
  /\ error' = TRUE
  /\ \/ inhibit' \in SUBSET inhibit /\ UNCHANGED moving
     \/ /\ answering[1] = "sector"
        /\ moving' = answering[2]
        /\ inhibit' = inhibit \ {"cmd"}
  /\ UNCHANGED <<driver, status, loaded, call>>

\* The data go where the registers say at that time, and leave an address and a
\* count that are no call's, unless these have been written again.
Move ==
  /\ moving # 0
  /\ moving' = 0
  /\ finished' = finished \cup {moving}
  /\ moved' = moved \cup ({moving} \cap {loaded})
  /\ loaded' \in {loaded, 0}
  /\ inhibit' = inhibit \ {"dat"}
  /\ status' = status \cup {"transfer"}
  /\ UNCHANGED <<driver, error, answering, req, outcome, hurried>>

MoveError ==
  /\ moving # 0
  /\ moving' = 0
  /\ loaded' \in {loaded, 0}
  /\ inhibit' \in SUBSET inhibit
  /\ error' = TRUE
  /\ UNCHANGED <<driver, status, answering, call>>

emmc_init  == Start \/ BringUp
SendCmd    == Issue \/ GiveUp \/ Polled \/ Answer
Sectors    == Sector \/ DataGiveUp \/ DataPolled \/ Result
Hardware   == Respond \/ RespondError \/ Move \/ MoveError
=============================================================================
