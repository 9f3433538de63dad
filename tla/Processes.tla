----------------------------- MODULE Processes -----------------------------
(***************************************************************************)
(* The process table and round-robin scheduler (process.c, scheduler.asm), *)
(* the timer interrupt that preempts (timer.c), the system calls           *)
(* (syscall.c) and the one client of all three: the shell's "run" command  *)
(* (shell.c, elf.c), which spawns a program and then polls for its death   *)
(* or for Ctrl-C.                                                          *)
(*                                                                         *)
(* One CPU.  An interrupt can arrive between any two steps taken with IF   *)
(* set; all IDT entries are interrupt gates, so IF is clear in a handler   *)
(* until its iret.  The kernel is built with -O0: a C statement is a step  *)
(* and statements take effect in program order.                            *)
(***************************************************************************)
EXTENDS Integers, FiniteSets

CONSTANTS MaxProcesses,  \* MAX_PROCESSES, 16 in the code
          Programs       \* which of the three behaviours below a program has

ASSUME MaxProcessesAssumption == MaxProcesses \in Nat \ {0}

\* How a user program's entry ends: never, by returning, or by sys_exit.
ProgramKinds == {"spin", "return", "exit"}

ASSUME ProgramsAssumption == Programs \subseteq ProgramKinds

VARIABLES
  state,            \* processes[p].state
  current_process,
  process_count,
  stack,            \* processes[p].stack is a kmalloc'd block
  entry,            \* processes[p].entry: the behaviour of its program
  frame,            \* what the stack saved in regs.esp returns into
  interrupts,       \* EFLAGS.IF
  pc,               \* where each process is, or will be when resumed
  pid,              \* cmd_run's local: the process it waits for
  c,                \* cmd_run's local: the key it read
  last_char         \* keyboard.c's one-key buffer

vars == <<state, current_process, process_count, stack, entry, frame,
          interrupts, pc, pid, c, last_char>>

Pid == 0 .. MaxProcesses - 1

ShellAt == {"prompt", "stack", "frame", "publish", "count",
            "wait", "read", "kill", "free", "uncount"}
UserAt  == {"none", "boot", "user", "write", "retired", "dead", "exiting",
            "halt"}
Keys    == {"none", "ctrl_c", "other"}
Frames  == {"none", "boot", "isr", "exit"}

Alive(st)    == {p \in Pid : st[p] # "dead"}
Runnable(st) == {p \in Pid : st[p] \in {"ready", "running"}}

Init ==
  /\ state = [p \in Pid |-> IF p = 0 THEN "running" ELSE "dead"]
  /\ current_process = 0
  /\ process_count = 1
  /\ stack = [p \in Pid |-> FALSE]
  /\ entry = [p \in Pid |-> "none"]
  /\ frame = [p \in Pid |-> "none"]
  /\ interrupts = TRUE
  /\ pc = [p \in Pid |-> IF p = 0 THEN "prompt" ELSE "none"]
  /\ pid = 0
  /\ c = "none"
  /\ last_char = "none"

-----------------------------------------------------------------------------
(***************************************************************************)
(* process_schedule and context_switch                                     *)
(***************************************************************************)

\* Mutants: the slot's state is not looked at; the search restarts at slot 0.
NextProcess_AnyState(from, st) == (from + 1) % MaxProcesses
NextProcess_Priority(from, st) ==
  CHOOSE p \in Runnable(st) : \A q \in Runnable(st) : p <= q

\* The search of process_schedule: the first runnable slot after "from",
\* cyclically; "from" itself when the loop finds no other.
NextProcess(from, st) ==
  LET Slot(i) == (from + i) % MaxProcesses
      hits    == {i \in 1 .. MaxProcesses : Slot(i) \in Runnable(st)}
  IN  IF hits = {} THEN from
      ELSE Slot(CHOOSE i \in hits : \A j \in hits : i <= j)

\* Mutant: the stack pointer of the loser of the CPU is not saved.
Schedule_FrameNotSaved(how) ==
  LET next == NextProcess(current_process, state)
  IN  /\ state' = [state EXCEPT ![current_process] = "ready",
                                ![next] = "running"]
      /\ current_process' = next
      /\ interrupts' = (frame[next] = "isr")
      /\ UNCHANGED frame

\* process_schedule with its context_switch, called with IF clear.  The process
\* that loses the CPU is put back to READY whatever its state was, and saves
\* "how" as the frame to return through.  The one that gets it unwinds its own
\* frame: only an interrupt frame ends in an iret that sets IF again.
Schedule(how) ==
  LET next == NextProcess(current_process, state)
  IN  IF next = current_process
        THEN /\ interrupts' = (how = "isr")
             /\ UNCHANGED <<state, current_process, frame>>
        ELSE /\ state' = [state EXCEPT ![current_process] = "ready",
                                       ![next] = "running"]
             /\ frame' = [frame EXCEPT ![current_process] = how]
             /\ current_process' = next
             /\ interrupts' = (frame[next] = "isr")

-----------------------------------------------------------------------------
(***************************************************************************)
(* Interrupts                                                              *)
(***************************************************************************)

\* timer_isr and timer_handler: the whole handler runs with IF clear.
TimerTick ==
  /\ interrupts
  /\ Schedule("isr")
  /\ UNCHANGED <<process_count, stack, entry, pc, pid, c, last_char>>

\* keyboard_isr: a decoded key overwrites the one-key buffer.
KeyIrq(k) ==
  /\ interrupts
  /\ last_char' = k
  /\ UNCHANGED <<state, current_process, process_count, stack, entry, frame,
                 interrupts, pc, pid, c>>

-----------------------------------------------------------------------------
(***************************************************************************)
(* Process 0: the shell's main loop, cmd_run, process_spawn, process_kill  *)
(***************************************************************************)

Shell(from) == current_process = 0 /\ interrupts /\ pc[0] = from
ShellGoto(to) == pc' = [pc EXCEPT ![0] = to]

\* The line editor polls the keyboard.
PromptGetchar ==
  /\ Shell("prompt")
  /\ last_char' = "none"
  /\ UNCHANGED <<state, current_process, process_count, stack, entry, frame,
                 interrupts, pc, pid, c>>

\* cmd_run: elf_exec has loaded a program, and process_spawn takes the first
\* dead slot.  Without a dead slot, or if the load fails, nothing changes.
Run(program) ==
  /\ Shell("prompt")
  /\ \E p \in Pid :
       /\ state[p] = "dead"
       /\ \A q \in Pid : q < p => state[q] # "dead"
       /\ pid' = p
       /\ entry' = [entry EXCEPT ![p] = program]
  /\ ShellGoto("stack")
  /\ UNCHANGED <<state, current_process, process_count, stack, frame,
                 interrupts, c, last_char>>

SpawnStack ==
  /\ Shell("stack")
  /\ stack' = [stack EXCEPT ![pid] = TRUE]
  /\ ShellGoto("frame")
  /\ UNCHANGED <<state, current_process, process_count, entry, frame,
                 interrupts, pid, c, last_char>>

\* The synthetic frame: the ret of context_switch lands in process_bootstrap.
SpawnFrame ==
  /\ Shell("frame")
  /\ frame' = [frame EXCEPT ![pid] = "boot"]
  /\ pc' = [pc EXCEPT ![0] = "publish", ![pid] = "boot"]
  /\ UNCHANGED <<state, current_process, process_count, stack, entry,
                 interrupts, pid, c, last_char>>

SpawnPublish ==
  /\ Shell("publish")
  /\ state' = [state EXCEPT ![pid] = "ready"]
  /\ ShellGoto("count")
  /\ UNCHANGED <<current_process, process_count, stack, entry, frame,
                 interrupts, pid, c, last_char>>

\* Mutant: the new process is not counted.
SpawnCount_Missing ==
  /\ Shell("count")
  /\ ShellGoto("wait")
  /\ UNCHANGED <<state, current_process, process_count, stack, entry, frame,
                 interrupts, pid, c, last_char>>

SpawnCount ==
  /\ Shell("count")
  /\ process_count' = process_count + 1
  /\ ShellGoto("wait")
  /\ UNCHANGED <<state, current_process, stack, entry, frame, interrupts, pid,
                 c, last_char>>

\* The loop test of cmd_run and the first half of keyboard_getchar.
WaitRead ==
  /\ Shell("wait")
  /\ IF state[pid] = "dead" THEN ShellGoto("prompt") /\ UNCHANGED c
                            ELSE ShellGoto("read") /\ c' = last_char
  /\ UNCHANGED <<state, current_process, process_count, stack, entry, frame,
                 interrupts, pid, last_char>>

\* The second half of keyboard_getchar, and cmd_run's test of the key.
WaitClear ==
  /\ Shell("read")
  /\ last_char' = "none"
  /\ ShellGoto(IF c = "ctrl_c" THEN "kill" ELSE "wait")
  /\ UNCHANGED <<state, current_process, process_count, stack, entry, frame,
                 interrupts, pid, c>>

\* Mutant: the stack is freed while the slot can still be picked.
KillMark_NotMarked ==
  /\ Shell("kill")
  /\ ShellGoto("free")
  /\ UNCHANGED <<state, current_process, process_count, stack, entry, frame,
                 interrupts, pid, c, last_char>>

\* process_kill: mark the slot dead, so that no tick picks it any more ...
KillMark ==
  /\ Shell("kill")
  /\ IF pid = current_process \/ state[pid] = "dead"
       THEN ShellGoto("prompt") /\ UNCHANGED state
       ELSE ShellGoto("free") /\ state' = [state EXCEPT ![pid] = "dead"]
  /\ UNCHANGED <<current_process, process_count, stack, entry, frame,
                 interrupts, pid, c, last_char>>

\* Mutant: the stack leaks.
KillFree_Leaks ==
  /\ Shell("free")
  /\ ShellGoto("uncount")
  /\ UNCHANGED <<state, current_process, process_count, stack, entry, frame,
                 interrupts, pid, c, last_char>>

\* ... then free its stack ...
KillFree ==
  /\ Shell("free")
  /\ stack' = [stack EXCEPT ![pid] = FALSE]
  /\ ShellGoto("uncount")
  /\ UNCHANGED <<state, current_process, process_count, entry, frame,
                 interrupts, pid, c, last_char>>

\* ... then count it out; cmd_run prints ^C and returns to the prompt.
KillCount ==
  /\ Shell("uncount")
  /\ process_count' = process_count - 1
  /\ ShellGoto("prompt")
  /\ UNCHANGED <<state, current_process, stack, entry, frame, interrupts, pid,
                 c, last_char>>

ShellStep ==
  \/ PromptGetchar \/ \E program \in Programs : Run(program)
  \/ SpawnStack \/ SpawnFrame \/ SpawnPublish \/ SpawnCount
  \/ WaitRead \/ WaitClear
  \/ KillMark \/ KillFree \/ KillCount

\* The shell's steps that cmd_run has no choice but to take.
ShellObliged ==
  \/ SpawnStack \/ SpawnFrame \/ SpawnPublish \/ SpawnCount
  \/ WaitRead \/ WaitClear
  \/ KillMark \/ KillFree \/ KillCount

-----------------------------------------------------------------------------
(***************************************************************************)
(* User processes                                                          *)
(***************************************************************************)

User(p, from) == current_process = p /\ p # 0 /\ pc[p] = from
UserGoto(p, to) == pc' = [pc EXCEPT ![p] = to]

\* Mutant: no sti.
Bootstrap_NoSti(p) ==
  /\ User(p, "boot")
  /\ UserGoto(p, "user")
  /\ UNCHANGED <<state, current_process, process_count, stack, entry, frame,
                 interrupts, pid, c, last_char>>

\* process_bootstrap's sti: a first switch does not pass through an iret.
Bootstrap(p) ==
  /\ User(p, "boot")
  /\ interrupts' = TRUE
  /\ UserGoto(p, "user")
  /\ UNCHANGED <<state, current_process, process_count, stack, entry, frame,
                 pid, c, last_char>>

\* int 0x80 with SYS_WRITE, SYS_READ or an unknown number: print or do nothing,
\* with IF clear from the gate to the iret.
SysEnter(p) ==
  /\ User(p, "user") /\ interrupts
  /\ interrupts' = FALSE
  /\ UserGoto(p, "write")
  /\ UNCHANGED <<state, current_process, process_count, stack, entry, frame,
                 pid, c, last_char>>

\* Mutant: the system call ends in a ret, not an iret.
SysReturn_NoIret(p) ==
  /\ User(p, "write")
  /\ UserGoto(p, "user")
  /\ UNCHANGED <<state, current_process, process_count, stack, entry, frame,
                 interrupts, pid, c, last_char>>

SysReturn(p) ==
  /\ User(p, "write")
  /\ interrupts' = TRUE
  /\ UserGoto(p, "user")
  /\ UNCHANGED <<state, current_process, process_count, stack, entry, frame,
                 pid, c, last_char>>

\* entry() returned into process_bootstrap ...
Return(p) ==
  /\ User(p, "user") /\ interrupts /\ entry[p] = "return"
  /\ UserGoto(p, "retired")
  /\ UNCHANGED <<state, current_process, process_count, stack, entry, frame,
                 interrupts, pid, c, last_char>>

\* Mutant: the count is lowered where the process retires, and in the kill.
Retire_Uncounts(p) ==
  /\ User(p, "retired") /\ interrupts
  /\ state' = [state EXCEPT ![p] = "dead"]
  /\ process_count' = process_count - 1
  /\ UserGoto(p, "dead")
  /\ UNCHANGED <<current_process, stack, entry, frame, interrupts, pid, c,
                 last_char>>

\* ... which marks the process dead and halts with IF set, for ever.
Retire(p) ==
  /\ User(p, "retired") /\ interrupts
  /\ state' = [state EXCEPT ![p] = "dead"]
  /\ UserGoto(p, "dead")
  /\ UNCHANGED <<current_process, process_count, stack, entry, frame,
                 interrupts, pid, c, last_char>>

\* int 0x80 with SYS_EXIT: sys_exit marks the caller dead ...
SysExit(p) ==
  /\ User(p, "user") /\ interrupts /\ entry[p] = "exit"
  /\ interrupts' = FALSE
  /\ state' = [state EXCEPT ![p] = "dead"]
  /\ UserGoto(p, "exiting")
  /\ UNCHANGED <<current_process, process_count, stack, entry, frame, pid, c,
                 last_char>>

\* ... and hands the CPU on.  If it is ever switched back to, process_schedule
\* returns into sys_exit's hlt loop, inside the gate, with IF clear.
SysExitSchedule(p) ==
  /\ User(p, "exiting")
  /\ Schedule("exit")
  /\ UserGoto(p, "halt")
  /\ UNCHANGED <<process_count, stack, entry, pid, c, last_char>>

UserStep(p) ==
  \/ Bootstrap(p) \/ SysEnter(p) \/ SysReturn(p)
  \/ Return(p) \/ Retire(p) \/ SysExit(p) \/ SysExitSchedule(p)

-----------------------------------------------------------------------------
Next ==
  \/ TimerTick
  \/ \E k \in Keys \ {"none"} : KeyIrq(k)
  \/ ShellStep
  \/ \E p \in Pid : UserStep(p)

Spec == Init /\ [][Next]_vars

(***************************************************************************)
(* The timer keeps ticking, and the PIC holds a tick that arrives with IF  *)
(* clear until IF is set, so a CPU that sets IF again and again cannot     *)
(* avoid it: strong fairness.  A time slice of 10 ms is long enough for    *)
(* the code that has the CPU to make progress, however often it loses it.  *)
(* Nothing is assumed of the user: keys need never come, and the shell     *)
(* need not start anything.                                                *)
(***************************************************************************)
Fairness ==
  /\ SF_vars(TimerTick)
  /\ SF_vars(ShellObliged)
  /\ \A p \in Pid : SF_vars(UserStep(p))

FairSpec == Spec /\ Fairness
-----------------------------------------------------------------------------
(***************************************************************************)
(* Properties                                                              *)
(***************************************************************************)

\* Every variable has its type.
TypeOK ==
  /\ state \in [Pid -> {"dead", "ready", "running"}]
  /\ current_process \in Pid
  /\ process_count \in Nat
  /\ stack \in [Pid -> BOOLEAN]
  /\ entry \in [Pid -> ProgramKinds \cup {"none"}]
  /\ frame \in [Pid -> Frames]
  /\ interrupts \in BOOLEAN
  /\ pc \in [Pid -> ShellAt \cup UserAt]
  /\ pid \in Pid
  /\ c \in Keys
  /\ last_char \in Keys

\* A RUNNING slot is the current one, the current one is RUNNING or has just
\* marked itself dead, and process 0 is never dead: process_schedule can always
\* hand the CPU back to the shell.  The shell then runs with interrupts on: every
\* switch back to it unwinds a timer frame through its iret.
OneRunning ==
  /\ \A p \in Pid : state[p] = "running" => p = current_process
  /\ state[current_process] # "ready"
  /\ state[0] # "dead"
  /\ current_process = 0 => interrupts

\* Whatever the interleaving of ticks with process_spawn and process_kill, a
\* process that is on the CPU or that a tick could pick has its stack and a
\* frame to resume from: no tick ever switches to a half-built process or to a
\* stack already given back to the heap.
SchedulableHasStack ==
  \A p \in Pid \ {0} :
     p \in Runnable(state) \cup {current_process}
       => stack[p] /\ frame[p] # "none"

\* The slots that are not free: a process that marked itself dead still has one
\* until a tick puts it back to READY.
InUse == Alive(state) \cup {current_process}

\* process_count is the number of slots in use, except between the
\* two statements of process_spawn and of process_kill that change one before
\* the other.
CountMatches ==
  process_count = Cardinality(InUse)
                    + (CASE pc[0] = "count" -> -1
                         [] pc[0] \in {"free", "uncount"} -> 1
                         [] OTHER -> 0)

\* Back at the prompt, cmd_run has left nothing behind: no process but the
\* shell, no stack on the heap.
NothingLeftBehind ==
  pc[0] = "prompt" => /\ process_count = 1
                      /\ \A p \in Pid \ {0} : state[p] = "dead" /\ ~stack[p]

\* The table implements an abstract dispatcher in which a process leaves only by
\* being killed: neither returning from its entry nor sys_exit ends it.
Dispatcher == INSTANCE Dispatch WITH live <- InUse, running <- current_process
ImplementsDispatch == Dispatcher!Spec

\* Interrupts are never off for ever (process.c:18-21: a resumed process
\* unwinds through its interrupt frame and IF is restored by its iret; a new
\* one does its own sti).
MaskEnds == ~interrupts ~> interrupts

\* The table is well formed: its variables keep their types and its count is that
\* of the slots in use.
TableWellFormed == TypeOK /\ CountMatches

\* No program that calls sys_exit is started: after one the machine may stop
\* (MaskEnds fails), so nothing has to happen any more.
NoSysExit == [](\A p \in Pid : entry[p] # "exit")

\* No process that is ready waits for ever for the CPU, unless it is killed.
ReadyRuns ==
  NoSysExit =>
    \A p \in Pid : state[p] = "ready" ~> current_process = p \/ state[p] = "dead"

\* The machine is always given back: once cmd_run has seen Ctrl-C, the prompt
\* comes back, and interrupts that a gate turned off come on again, whatever the
\* programs do that return or run for ever.
ControlReturns ==
  NoSysExit => /\ pc[0] = "kill" ~> pc[0] = "prompt"
               /\ MaskEnds

\* A process that retired itself stays dead until its slot is spawned again
\* (process.c:30-32, hello.c:30-31).
RetiredStaysDead ==
  [][\A p \in Pid : state[p] = "dead" /\ state'[p] # "dead"
                       => pc[0] = "publish" /\ p = pid]_vars
=============================================================================
