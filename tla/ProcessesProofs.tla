--------------------------- MODULE ProcessesProofs ---------------------------
(***************************************************************************)
(* Proofs about Processes, for a table of any size: type correctness, the  *)
(* safety properties the runs check, and that the table implements the     *)
(* abstract dispatcher of module Dispatch.                                 *)
(***************************************************************************)
EXTENDS Processes, FiniteSetTheorems, WellFoundedInduction, TLAPS

-----------------------------------------------------------------------------
(***************************************************************************)
(* The inductive invariant.  The shell's position tells whether the slot   *)
(* it spawned may be picked (LivePhases) and whether that slot owns a      *)
(* stack (StackPhases); every other slot but 0 is free.                    *)
(***************************************************************************)
LivePhases  == {"count", "wait", "read", "kill"}
StackPhases == LivePhases \cup {"frame", "publish", "free"}
OnePhases   == {"prompt", "stack", "frame", "publish", "count"}

CpuInv ==
  /\ state[0] = IF current_process = 0 THEN "running" ELSE "ready"
  /\ current_process = 0 => interrupts
  /\ current_process # 0 => /\ frame[0] = "isr"
                            /\ current_process = pid
                            /\ state[pid] # "ready"

SlotInv ==
  /\ \A p \in Pid \ {0} : p # pid => state[p] = "dead" /\ ~stack[p]
  /\ pid # 0 => (stack[pid] <=> pc[0] \in StackPhases)
  /\ pid # 0 /\ pc[0] \notin LivePhases => state[pid] = "dead"
  /\ pid # 0 /\ state[pid] \in {"running", "dead"} /\ pc[0] \in LivePhases
       => current_process = pid

PhaseInv ==
  /\ pc[0] \in ShellAt
  /\ pc[0] # "prompt" => pid # 0
  /\ pc[0] \notin LivePhases => current_process = 0
  /\ pc[0] \in LivePhases \cup {"publish"} => frame[pid] # "none"
  /\ process_count = IF pc[0] \in OnePhases THEN 1 ELSE 2

IInv == TypeOK /\ CpuInv /\ SlotInv /\ PhaseInv

-----------------------------------------------------------------------------
LEMMA ZeroIsPid == 0 \in Pid
BY MaxProcessesAssumption DEF Pid

\* Every non-empty set of naturals has a least element.
LEMMA LeastNat ==
  ASSUME NEW S, S \subseteq Nat, S # {}
  PROVE  \E i \in S : \A j \in S : i <= j
<1>1. \E i \in S : \A j \in S : ~(<<j, i>> \in OpToRel(<, Nat))
  BY WFMin, NatLessThanWellFounded
<1>2. PICK i \in S : \A j \in S : ~(<<j, i>> \in OpToRel(<, Nat))
  BY <1>1
<1>3. ASSUME NEW j \in S PROVE i <= j
  <2>1. <<j, i>> \notin {ss \in Nat \X Nat : ss[1] < ss[2]}
    BY <1>2, <1>3, Zenon DEF OpToRel
  <2>2. QED
    BY <2>1
<1>4. QED
  BY <1>2, <1>3

\* The search returns the process it started from or one that may run: it never
\* picks a dead slot (process.c:91-97).
LEMMA NextProcessRunnable ==
  ASSUME NEW from \in Pid, NEW st
  PROVE  /\ NextProcess(from, st) \in Pid
         /\ NextProcess(from, st) = from \/ NextProcess(from, st) \in Runnable(st)
<1> DEFINE Slot(i) == (from + i) % MaxProcesses
           hits    == {i \in 1 .. MaxProcesses : Slot(i) \in Runnable(st)}
           first   == CHOOSE i \in hits : \A j \in hits : i <= j
<1>1. NextProcess(from, st) = IF hits = {} THEN from ELSE Slot(first)
  BY DEF NextProcess
<1>2. CASE hits = {}
  BY <1>1, <1>2
<1>3. CASE hits # {}
  <2>1. hits \subseteq Nat
    OBVIOUS
  <2>2. \E i \in hits : \A j \in hits : i <= j
    <3> HIDE DEF hits
    <3> QED BY <2>1, <1>3, LeastNat
  <2>3. first \in hits
    <3> HIDE DEF hits
    <3> QED BY <2>2
  <2>4. Slot(first) \in Runnable(st)
    BY <2>3
  <2>5. QED
    BY <1>1, <1>3, <2>4 DEF Runnable
<1>4. QED
  BY <1>2, <1>3

-----------------------------------------------------------------------------
LEMMA InitInv == Init => IInv
BY MaxProcessesAssumption
   DEF Init, IInv, TypeOK, CpuInv, SlotInv, PhaseInv, Pid, Frames, Keys, ShellAt,
       UserAt, LivePhases, StackPhases, OnePhases

\* What a call of process_schedule does to the invariant, whoever calls it: the
\* shell from its timer frame, the spawned process from its own timer frame or
\* from sys_exit.
LEMMA ScheduleInv ==
  ASSUME IInv, NEW how \in {"isr", "exit"}, Schedule(how),
         current_process = 0 => how = "isr",
         UNCHANGED <<process_count, stack, entry, pid, c, last_char>>,
         pc' \in [Pid -> ShellAt \cup UserAt], pc'[0] = pc[0]
  PROVE  IInv'
<1> DEFINE next == NextProcess(current_process, state)
<1> USE ZeroIsPid
<1>1. /\ next \in Pid
      /\ next = current_process \/ next \in Runnable(state)
  BY NextProcessRunnable DEF IInv, TypeOK
<1>2. CASE next = current_process
  <2>1. /\ UNCHANGED <<state, current_process, frame>>
        /\ interrupts' = (how = "isr")
    BY <1>2 DEF Schedule
  <2>2. TypeOK'
    BY <2>1 DEF IInv, TypeOK
  <2>3. CpuInv' /\ SlotInv' /\ PhaseInv'
    BY <2>1 DEF IInv, CpuInv, SlotInv, PhaseInv
  <2>4. QED
    BY <2>2, <2>3 DEF IInv
<1>3. CASE next # current_process
  <2>1. /\ state' = [state EXCEPT ![current_process] = "ready",
                                 ![next] = "running"]
        /\ frame' = [frame EXCEPT ![current_process] = how]
        /\ current_process' = next
        /\ interrupts' = (frame[next] = "isr")
    BY <1>3 DEF Schedule
  <2>2. TypeOK'
    BY <1>1, <2>1 DEF IInv, TypeOK, Frames
  <2>3. next \in Runnable(state)
    BY <1>1, <1>3
  <2>4. CASE current_process = 0
    <3>1. /\ next = pid /\ pid # 0
          /\ pc[0] \in LivePhases
      BY <1>1, <1>3, <2>3, <2>4 DEF IInv, SlotInv, Runnable, TypeOK
    <3>2. CpuInv'
      BY <2>1, <2>4, <3>1 DEF IInv, CpuInv, TypeOK
    <3>3. SlotInv'
      BY <2>1, <2>4, <3>1 DEF IInv, SlotInv, TypeOK
    <3>4. PhaseInv'
      BY <2>1, <2>4, <3>1 DEF IInv, PhaseInv, TypeOK
    <3>5. QED
      BY <2>2, <3>2, <3>3, <3>4 DEF IInv
  <2>5. CASE current_process # 0
    <3>1. /\ current_process = pid /\ pid # 0 /\ pc[0] \in LivePhases
          /\ next = 0
      BY <1>1, <1>3, <2>3, <2>5 DEF IInv, CpuInv, SlotInv, PhaseInv, Runnable, TypeOK
    <3>2. CpuInv'
      BY <2>1, <2>5, <3>1 DEF IInv, CpuInv, TypeOK
    <3>3. SlotInv'
      BY <2>1, <2>5, <3>1 DEF IInv, SlotInv, TypeOK
    <3>4. PhaseInv'
      BY <2>1, <2>5, <3>1 DEF IInv, PhaseInv, TypeOK
    <3>5. QED
      BY <2>2, <3>2, <3>3, <3>4 DEF IInv
  <2>6. QED
    BY <2>4, <2>5
<1>4. QED
  BY <1>2, <1>3

\* Every step of the shell keeps the invariant.
LEMMA ShellInv == IInv /\ ShellStep => IInv'
<1> SUFFICES ASSUME IInv, ShellStep PROVE IInv'
  OBVIOUS
<1> USE ZeroIsPid
<1>0. /\ current_process = 0 /\ interrupts
      /\ TypeOK /\ CpuInv /\ SlotInv /\ PhaseInv
  BY DEF IInv, ShellStep, PromptGetchar, Run, SpawnStack, SpawnFrame, SpawnPublish,
         SpawnCount, WaitRead, WaitClear, KillMark, KillFree, KillCount, Shell
<1> USE DEF Shell, ShellGoto, LivePhases, StackPhases, OnePhases
<1>1. CASE PromptGetchar
  <2>1. TypeOK'
    BY <1>0, <1>1 DEF PromptGetchar, TypeOK, Keys
  <2>2. CpuInv' /\ SlotInv' /\ PhaseInv'
    BY <1>0, <1>1 DEF PromptGetchar, CpuInv, SlotInv, PhaseInv
  <2>3. QED
    BY <2>1, <2>2 DEF IInv
<1>2. ASSUME NEW program \in Programs, Run(program) PROVE IInv'
  <2>1. program \in ProgramKinds
    BY ProgramsAssumption
  <2>2. PICK p \in Pid : /\ state[p] = "dead"
                         /\ pid' = p
                         /\ entry' = [entry EXCEPT ![p] = program]
    BY <1>2 DEF Run
  <2>3. p # 0
    BY <1>0, <2>2 DEF CpuInv
  <2>4. TypeOK'
    BY <1>0, <1>2, <2>1, <2>2 DEF Run, TypeOK, ShellAt
  <2>5. CpuInv'
    BY <1>0, <1>2, <2>2 DEF Run, CpuInv
  <2>6. SlotInv'
    BY <1>0, <1>2, <2>2, <2>3 DEF Run, SlotInv, TypeOK
  <2>7. PhaseInv'
    BY <1>0, <1>2, <2>2, <2>3 DEF Run, PhaseInv, TypeOK, ShellAt
  <2>8. QED
    BY <2>4, <2>5, <2>6, <2>7 DEF IInv
<1>3. CASE SpawnStack
  <2>1. TypeOK'
    BY <1>0, <1>3 DEF SpawnStack, TypeOK, ShellAt
  <2>2. CpuInv' /\ SlotInv'
    BY <1>0, <1>3 DEF SpawnStack, CpuInv, SlotInv, PhaseInv, TypeOK
  <2>3. PhaseInv'
    BY <1>0, <1>3 DEF SpawnStack, PhaseInv, TypeOK, ShellAt
  <2>4. QED
    BY <2>1, <2>2, <2>3 DEF IInv
<1>4. CASE SpawnFrame
  <2>1. TypeOK'
    BY <1>0, <1>4 DEF SpawnFrame, TypeOK, ShellAt, UserAt, Frames
  <2>2. pc'[0] = "publish" /\ pid # 0
    BY <1>0, <1>4 DEF SpawnFrame, TypeOK, PhaseInv
  <2>3. CpuInv' /\ SlotInv'
    BY <1>0, <1>4, <2>2 DEF SpawnFrame, CpuInv, SlotInv, TypeOK
  <2>4. PhaseInv'
    BY <1>0, <1>4, <2>2 DEF SpawnFrame, PhaseInv, TypeOK, ShellAt
  <2>5. QED
    BY <2>1, <2>3, <2>4 DEF IInv
<1>5. CASE SpawnPublish
  <2>1. TypeOK'
    BY <1>0, <1>5 DEF SpawnPublish, TypeOK, ShellAt
  <2>2. CpuInv' /\ SlotInv'
    BY <1>0, <1>5 DEF SpawnPublish, CpuInv, SlotInv, PhaseInv, TypeOK
  <2>3. PhaseInv'
    BY <1>0, <1>5 DEF SpawnPublish, PhaseInv, TypeOK, ShellAt
  <2>4. QED
    BY <2>1, <2>2, <2>3 DEF IInv
<1>6. CASE SpawnCount
  <2>1. TypeOK'
    BY <1>0, <1>6 DEF SpawnCount, TypeOK, ShellAt
  <2>2. CpuInv' /\ SlotInv'
    BY <1>0, <1>6 DEF SpawnCount, CpuInv, SlotInv, PhaseInv, TypeOK
  <2>3. PhaseInv'
    BY <1>0, <1>6 DEF SpawnCount, PhaseInv, TypeOK, ShellAt
  <2>4. QED
    BY <2>1, <2>2, <2>3 DEF IInv
<1>7. CASE WaitRead
  <2>0. state[pid] # "dead"
    BY <1>0, <1>7 DEF WaitRead, SlotInv, PhaseInv
  <2>1. TypeOK'
    BY <1>0, <1>7 DEF WaitRead, TypeOK, ShellAt, Keys
  <2>2. CpuInv' /\ SlotInv'
    BY <1>0, <1>7, <2>0 DEF WaitRead, CpuInv, SlotInv, PhaseInv, TypeOK
  <2>3. PhaseInv'
    BY <1>0, <1>7, <2>0 DEF WaitRead, PhaseInv, TypeOK, ShellAt
  <2>4. QED
    BY <2>1, <2>2, <2>3 DEF IInv
<1>8. CASE WaitClear
  <2>1. TypeOK'
    BY <1>0, <1>8 DEF WaitClear, TypeOK, ShellAt, Keys
  <2>2. CpuInv' /\ SlotInv'
    BY <1>0, <1>8 DEF WaitClear, CpuInv, SlotInv, PhaseInv, TypeOK
  <2>3. PhaseInv'
    BY <1>0, <1>8 DEF WaitClear, PhaseInv, TypeOK, ShellAt
  <2>4. QED
    BY <2>1, <2>2, <2>3 DEF IInv
<1>9. CASE KillMark
  <2>0. /\ pid # current_process /\ state[pid] # "dead"
        /\ pc' = [pc EXCEPT ![0] = "free"]
        /\ state' = [state EXCEPT ![pid] = "dead"]
    BY <1>0, <1>9 DEF KillMark, SlotInv, PhaseInv
  <2>1. TypeOK'
    BY <1>0, <1>9, <2>0 DEF KillMark, TypeOK, ShellAt
  <2>2. CpuInv' /\ SlotInv'
    BY <1>0, <1>9, <2>0 DEF KillMark, CpuInv, SlotInv, PhaseInv, TypeOK
  <2>3. PhaseInv'
    BY <1>0, <1>9, <2>0 DEF KillMark, PhaseInv, TypeOK, ShellAt
  <2>4. QED
    BY <2>1, <2>2, <2>3 DEF IInv
<1>10. CASE KillFree
  <2>1. TypeOK'
    BY <1>0, <1>10 DEF KillFree, TypeOK, ShellAt
  <2>2. CpuInv' /\ SlotInv'
    BY <1>0, <1>10 DEF KillFree, CpuInv, SlotInv, PhaseInv, TypeOK
  <2>3. PhaseInv'
    BY <1>0, <1>10 DEF KillFree, PhaseInv, TypeOK, ShellAt
  <2>4. QED
    BY <2>1, <2>2, <2>3 DEF IInv
<1>11. CASE KillCount
  <2>1. TypeOK'
    BY <1>0, <1>11 DEF KillCount, TypeOK, PhaseInv, ShellAt
  <2>2. CpuInv' /\ SlotInv'
    BY <1>0, <1>11 DEF KillCount, CpuInv, SlotInv, PhaseInv, TypeOK
  <2>3. PhaseInv'
    BY <1>0, <1>11 DEF KillCount, PhaseInv, TypeOK, ShellAt
  <2>4. QED
    BY <2>1, <2>2, <2>3 DEF IInv
<1>12. QED
  BY <1>1, <1>2, <1>3, <1>4, <1>5, <1>6, <1>7, <1>8, <1>9, <1>10, <1>11
     DEF ShellStep

\* Every step of a user process keeps the invariant.
LEMMA UserInv == ASSUME IInv, NEW p \in Pid, UserStep(p) PROVE IInv'
<1> USE ZeroIsPid
<1>0. /\ current_process = p /\ p # 0 /\ pid = p
      /\ TypeOK /\ CpuInv /\ SlotInv /\ PhaseInv
      /\ pc[0] \in LivePhases
  BY DEF IInv, CpuInv, PhaseInv, UserStep, Bootstrap, SysEnter, SysReturn, Return,
         Retire, SysExit, SysExitSchedule, User
<1>1. CASE \/ Bootstrap(p) \/ SysEnter(p) \/ SysReturn(p)
           \/ Return(p) \/ Retire(p) \/ SysExit(p)
  <2>1. /\ pc' \in [Pid -> ShellAt \cup UserAt]
        /\ pc'[0] = pc[0]
    BY <1>0, <1>1
       DEF Bootstrap, SysEnter, SysReturn, Return, Retire, SysExit, UserGoto,
           TypeOK, UserAt
  <2>2. /\ UNCHANGED <<current_process, process_count, stack, entry, frame, pid, c,
                       last_char>>
        /\ interrupts' \in BOOLEAN
        /\ state' = state \/ state' = [state EXCEPT ![p] = "dead"]
    BY <1>0, <1>1
       DEF Bootstrap, SysEnter, SysReturn, Return, Retire, SysExit, TypeOK
  <2>3. TypeOK'
    BY <1>0, <2>1, <2>2 DEF TypeOK
  <2>4. CpuInv' /\ SlotInv' /\ PhaseInv'
    BY <1>0, <2>1, <2>2 DEF CpuInv, SlotInv, PhaseInv, TypeOK
  <2>5. QED
    BY <2>3, <2>4 DEF IInv
<1>2. CASE SysExitSchedule(p)
  <2>1. /\ pc' \in [Pid -> ShellAt \cup UserAt]
        /\ pc'[0] = pc[0]
    BY <1>0, <1>2 DEF SysExitSchedule, UserGoto, TypeOK, UserAt
  <2>2. QED
    BY <1>0, <1>2, <2>1, ScheduleInv DEF SysExitSchedule
<1>3. QED
  BY <1>1, <1>2 DEF UserStep

LEMMA NextInv == IInv /\ [Next]_vars => IInv'
<1> SUFFICES ASSUME IInv, [Next]_vars PROVE IInv'
  OBVIOUS
<1>1. CASE TimerTick
  <2>1. pc' \in [Pid -> ShellAt \cup UserAt] /\ pc'[0] = pc[0]
    BY <1>1 DEF TimerTick, IInv, TypeOK
  <2>2. QED
    BY <1>1, <2>1, ScheduleInv DEF TimerTick
<1>2. ASSUME NEW k \in Keys \ {"none"}, KeyIrq(k) PROVE IInv'
  <2>1. TypeOK'
    BY <1>2 DEF KeyIrq, IInv, TypeOK
  <2>2. CpuInv' /\ SlotInv' /\ PhaseInv'
    BY <1>2 DEF KeyIrq, IInv, CpuInv, SlotInv, PhaseInv
  <2>3. QED
    BY <2>1, <2>2 DEF IInv
<1>3. CASE ShellStep
  BY <1>3, ShellInv
<1>4. ASSUME NEW p \in Pid, UserStep(p) PROVE IInv'
  BY <1>4, UserInv
<1>5. CASE UNCHANGED vars
  BY <1>5 DEF vars, IInv, TypeOK, CpuInv, SlotInv, PhaseInv
<1>6. QED
  BY <1>1, <1>2, <1>3, <1>4, <1>5 DEF Next

LEMMA Invariance == Spec => []IInv
BY InitInv, NextInv, PTL DEF Spec

-----------------------------------------------------------------------------
(***************************************************************************)
(* The properties of the runs, for every table size.                       *)
(***************************************************************************)

\* Every variable of the table keeps its type.
THEOREM TypeCorrect == Spec => []TypeOK
<1>1. IInv => TypeOK
  BY DEF IInv
<1>2. QED
  BY <1>1, Invariance, PTL

\* At most one slot is RUNNING, process 0 is never dead (process.c:87-107), and
\* every switch back to it restores IF (scheduler.asm, timer_isr's iret).
THEOREM OneRunningHolds == Spec => []OneRunning
<1>1. IInv => OneRunning
  BY ZeroIsPid DEF IInv, TypeOK, CpuInv, SlotInv, PhaseInv, OneRunning
<1>2. QED
  BY <1>1, Invariance, PTL

\* No tick can switch to a half-built process or to a freed stack, wherever in
\* process_spawn or process_kill it arrives.
THEOREM StacksSafe == Spec => []SchedulableHasStack
<1>1. IInv => SchedulableHasStack
  <2> SUFFICES ASSUME IInv, NEW p \in Pid \ {0},
                      p \in Runnable(state) \cup {current_process}
               PROVE  stack[p] /\ frame[p] # "none"
    BY DEF SchedulableHasStack
  <2>1. p = pid
    BY DEF IInv, CpuInv, SlotInv, Runnable
  <2>2. pc[0] \in LivePhases
    BY <2>1 DEF IInv, SlotInv, PhaseInv, Runnable
  <2>3. QED
    BY <2>1, <2>2 DEF IInv, SlotInv, PhaseInv, StackPhases
<1>2. QED
  BY <1>1, Invariance, PTL

\* cmd_run leaves no process and no stack behind.
THEOREM PromptIsClean == Spec => []NothingLeftBehind
<1>1. IInv => NothingLeftBehind
  BY ZeroIsPid DEF IInv, SlotInv, PhaseInv, NothingLeftBehind, LivePhases, StackPhases,
     OnePhases
<1>2. QED
  BY <1>1, Invariance, PTL

\* process_count counts the slots in use.
THEOREM CountIsRight == Spec => []CountMatches
<1>1. IInv => CountMatches
  <2> SUFFICES ASSUME IInv PROVE CountMatches
    OBVIOUS
  <2> USE ZeroIsPid DEF IInv
  <2>1. CASE pc[0] \in LivePhases
    <3>1. InUse = {0} \cup {pid} /\ pid # 0
      BY <2>1 DEF InUse, Alive, TypeOK, CpuInv, SlotInv, PhaseInv, LivePhases
    <3>2. /\ IsFiniteSet({0}) /\ Cardinality({0}) = 1
          /\ Cardinality({0} \cup {pid}) = Cardinality({0}) + 1
      BY <3>1, FS_Singleton, FS_AddElement
    <3>3. Cardinality(InUse) = 2
      BY <3>1, <3>2
    <3>4. QED
      BY <2>1, <3>3 DEF CountMatches, PhaseInv, LivePhases, OnePhases
  <2>2. CASE pc[0] \notin LivePhases
    <3>1. InUse = {0}
      BY <2>2 DEF InUse, Alive, CpuInv, SlotInv, PhaseInv
    <3>2. Cardinality(InUse) = 1
      BY <3>1, FS_Singleton
    <3>3. QED
      BY <2>2, <3>2 DEF CountMatches, PhaseInv, LivePhases, OnePhases, ShellAt
  <2>3. QED
    BY <2>1, <2>2
<1>2. QED
  BY <1>1, Invariance, PTL

\* The table is well formed, its count included, at every statement of
\* process_spawn and process_kill.
THEOREM TableStaysWellFormed == Spec => []TableWellFormed
BY TypeCorrect, CountIsRight, PTL DEF TableWellFormed

-----------------------------------------------------------------------------
(***************************************************************************)
(* Refinement.  A step of process_schedule is a Switch or a stutter, the   *)
(* publication of a spawned process a Create, the mark of process_kill a   *)
(* Destroy; every other step, a process's marking itself dead included, is *)
(* a stutter.                                                              *)
(***************************************************************************)
LEMMA ScheduleRefines ==
  ASSUME IInv, NEW how, Schedule(how)
  PROVE  Dispatcher!Next \/ UNCHANGED <<InUse, current_process>>
<1> DEFINE next == NextProcess(current_process, state)
<1>1. /\ next \in Pid
      /\ next = current_process \/ next \in Runnable(state)
  BY NextProcessRunnable DEF IInv, TypeOK
<1>2. CASE next = current_process
  BY <1>2 DEF Schedule, InUse, Alive
<1>3. CASE next # current_process
  <2>1. /\ state' = [state EXCEPT ![current_process] = "ready",
                                 ![next] = "running"]
        /\ current_process' = next
    BY <1>3 DEF Schedule
  <2>2. state[next] # "dead"
    BY <1>1, <1>3 DEF Runnable
  <2>3. InUse' = InUse
    BY <1>1, <2>1, <2>2 DEF IInv, TypeOK, InUse, Alive
  <2>4. Dispatcher!Switch(next)
    BY <1>1, <1>3, <2>1, <2>2, <2>3 DEF Dispatcher!Switch, InUse, Alive
  <2>5. QED
    BY <1>1, <2>4 DEF Dispatcher!Next
<1>4. QED
  BY <1>2, <1>3

\* The table implements the abstract dispatcher, which a process leaves only by
\* being destroyed: process_bootstrap's and sys_exit's marking a process dead
\* does not take it out (process.c:102).
THEOREM TableImplementsDispatch == Spec => ImplementsDispatch
<1>1. Init => Dispatcher!Init
  BY ZeroIsPid DEF Init, Dispatcher!Init, InUse, Alive
<1>2. IInv /\ [Next]_vars => [Dispatcher!Next]_(Dispatcher!dispatchVars)
  <2> SUFFICES ASSUME IInv, [Next]_vars
               PROVE  Dispatcher!Next \/ UNCHANGED <<InUse, current_process>>
    BY DEF Dispatcher!dispatchVars
  <2> USE ZeroIsPid
  <2>1. CASE TimerTick
    BY <2>1, ScheduleRefines DEF TimerTick
  <2>2. CASE SpawnPublish
    <3>1. /\ current_process = 0 /\ pid \in Pid \ {0} /\ state[pid] = "dead"
          /\ state' = [state EXCEPT ![pid] = "ready"]
          /\ UNCHANGED current_process
      BY <2>2 DEF SpawnPublish, Shell, IInv, TypeOK, SlotInv, PhaseInv, LivePhases
    <3>2. pid \notin InUse /\ InUse' = InUse \cup {pid}
      BY <3>1 DEF InUse, Alive, IInv, TypeOK
    <3>3. Dispatcher!Create(pid)
      BY <3>1, <3>2 DEF Dispatcher!Create
    <3>4. QED
      BY <3>1, <3>3 DEF Dispatcher!Next
  <2>3. CASE KillMark
    <3>1. /\ current_process = 0 /\ pid \in Pid \ {0} /\ state[pid] # "dead"
          /\ state' = [state EXCEPT ![pid] = "dead"]
          /\ UNCHANGED current_process
      BY <2>3 DEF KillMark, Shell, IInv, TypeOK, SlotInv, PhaseInv, LivePhases
    <3>2. pid \in InUse \ {current_process, 0} /\ InUse' = InUse \ {pid}
      BY <3>1 DEF InUse, Alive, IInv, TypeOK
    <3>3. Dispatcher!Destroy(pid)
      BY <3>1, <3>2 DEF Dispatcher!Destroy
    <3>4. QED
      BY <3>1, <3>3 DEF Dispatcher!Next
  <2>4. ASSUME NEW p \in Pid, SysExitSchedule(p)
        PROVE  Dispatcher!Next \/ UNCHANGED <<InUse, current_process>>
    BY <2>4, ScheduleRefines DEF SysExitSchedule
  <2>5. ASSUME NEW p \in Pid, Retire(p) \/ SysExit(p)
        PROVE  UNCHANGED <<InUse, current_process>>
    <3>1. /\ current_process = p /\ UNCHANGED current_process
          /\ state' = [state EXCEPT ![p] = "dead"]
      BY <2>5 DEF Retire, SysExit, User
    <3>2. QED
      BY <3>1 DEF InUse, Alive, IInv, TypeOK
  <2>6. ASSUME UNCHANGED <<state, current_process>>
        PROVE  UNCHANGED <<InUse, current_process>>
    BY <2>6 DEF InUse, Alive
  <2>7. ASSUME NEW k, KeyIrq(k) PROVE UNCHANGED <<state, current_process>>
    BY <2>7 DEF KeyIrq
  <2>8. ASSUME NEW program, Run(program) PROVE UNCHANGED <<state, current_process>>
    BY <2>8 DEF Run
  <2>9. ASSUME \/ PromptGetchar \/ SpawnStack \/ SpawnFrame \/ SpawnCount
               \/ WaitRead \/ WaitClear \/ KillFree \/ KillCount
        PROVE  UNCHANGED <<state, current_process>>
    BY <2>9 DEF PromptGetchar, SpawnStack, SpawnFrame, SpawnCount, WaitRead,
                WaitClear, KillFree, KillCount
  <2>10. ASSUME NEW p \in Pid,
                Bootstrap(p) \/ SysEnter(p) \/ SysReturn(p) \/ Return(p)
         PROVE  UNCHANGED <<state, current_process>>
    BY <2>10 DEF Bootstrap, SysEnter, SysReturn, Return
  <2>11. CASE UNCHANGED vars
    BY <2>11, <2>6 DEF vars
  <2>12. QED
    BY <2>1, <2>2, <2>3, <2>4, <2>5, <2>6, <2>7, <2>8, <2>9, <2>10, <2>11
       DEF Next, ShellStep, UserStep
<1>3. QED
  BY <1>1, <1>2, Invariance, PTL DEF Spec, ImplementsDispatch, Dispatcher!Spec
=============================================================================
