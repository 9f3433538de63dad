------------------------------ MODULE Dispatch ------------------------------
(***************************************************************************)
(* What the process table of process.c promises to the rest of the kernel, *)
(* with the table, the stacks, the interrupt flag and the interrupts gone: *)
(* a set of live processes, one of which owns the CPU.  A process becomes  *)
(* live by being spawned, the CPU moves between live processes, and the    *)
(* only way to stop being live is to be destroyed by another process.      *)
(* Process 0, the kernel's own thread of control, is never destroyed.      *)
(***************************************************************************)
CONSTANT Pid

VARIABLES live,     \* the processes the scheduler may pick or has picked
          running   \* the one that owns the CPU

dispatchVars == <<live, running>>

Init == live = {0} /\ running = 0

Create(p) == /\ p \notin live
             /\ live' = live \cup {p}
             /\ UNCHANGED running

Switch(p) == /\ p \in live \ {running}
             /\ running' = p
             /\ UNCHANGED live

Destroy(p) == /\ p \in live \ {running, 0}
              /\ live' = live \ {p}
              /\ UNCHANGED running

Next == \E p \in Pid : Create(p) \/ Switch(p) \/ Destroy(p)

Spec == Init /\ [][Next]_dispatchVars
=============================================================================
