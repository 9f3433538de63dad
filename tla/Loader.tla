------------------------------- MODULE Loader -------------------------------
(***************************************************************************)
(* elf.c: running a program.  elf_exec reads the file into a buffer of the *)
(* heap, elf_load checks its headers and copies one segment after the      *)
(* other to the address it is linked for, and a process starts there.      *)
(*                                                                         *)
(* There is no paging: memory is one array, and the programs that ran      *)
(* before have left in it what they have left.  Addresses, and the sums of *)
(* the code, are words of a few bits.  A file is what a linker makes of a  *)
(* program, or something that is no program, or a part of one, as a full   *)
(* disk leaves it; its bytes are named by their place in it.               *)
(***************************************************************************)
EXTENDS Integers, Sequences

CONSTANTS
  WORD,                  \* the words are 0 .. WORD - 1
  ELF_USER_MIN_ADDR, ELF_USER_MAX_ADDR,
  ELF_MAX_FILE_SIZE,     \* the buffer, in the units of addresses
  EHDR, PHDR,            \* the sizes of the two headers
  ClusterSize,
  BufferPlaces,               \* where kmalloc may find room for the buffer
  ElfFiles                  \* the files of the disk

Addr == 0 .. WORD - 1
Null == 0

Plus(a, b) == (a + b) % WORD
At(base, length) == {Plus(base, k) : k \in 0 .. length - 1}

ProgramHeaders ==
  [type : STRING, offset : Addr, vaddr : Addr, filesz : Addr, memsz : Addr]

Skipped(ph) == ph.type # "PT_LOAD" \/ ph.memsz = 0

\* A linker gives each segment memory and bytes of the file of its own; a file
\* that is shorter than that ends with a cluster, where the disk was full.
Segments(f) ==
  /\ f.segments \in Seq(ProgramHeaders)
  /\ \A i \in DOMAIN f.segments :
       LET ph == f.segments[i]
       IN  /\ ph.offset + ph.filesz < WORD
           /\ f.size % ClusterSize = 0 \/ ph.offset + ph.filesz <= f.size
  /\ \A i, j \in DOMAIN f.segments :
       LET p == f.segments[i]  q == f.segments[j]
       IN  i # j /\ ~Skipped(p) /\ ~Skipped(q)
             => At(p.vaddr, p.memsz) \cap At(q.vaddr, q.memsz) = {}

ASSUME LoaderAssumption ==
  /\ WORD \in Nat \ {0} /\ ClusterSize \in Nat \ {0} /\ ELF_MAX_FILE_SIZE \in Nat
  /\ ELF_USER_MIN_ADDR \in Nat /\ ELF_USER_MAX_ADDR \in Nat
  /\ \A b \in BufferPlaces :
       b \in Nat /\ b # Null /\ b + ELF_MAX_FILE_SIZE <= WORD
  /\ \A f \in ElfFiles : f.size \in Nat /\ Segments(f)

VARIABLES mem, buffer, file, size, seg, loading

loaderVars == <<mem, buffer, file, size, seg, loading>>

User == ELF_USER_MIN_ADDR .. ELF_USER_MAX_ADDR - 1
NoFile == [name |-> "none"]

\* What a cell of memory holds, but for the bytes of a file.
Old   == <<"old", 0>>    \* what the machine came up with, or another part's data
Slack == <<"slack", 0>>  \* the rest of a file's last cluster
Zero  == <<"zero", 0>>
Used  == <<"used", 0>>   \* what a program or a freed buffer has left

BufferAt(b) == At(b, ELF_MAX_FILE_SIZE)

LoaderInit ==
  /\ mem = [a \in Addr |-> Old]
  /\ buffer = Null
  /\ file = NoFile
  /\ size = 0
  /\ seg = 1
  /\ loading = "idle"

-----------------------------------------------------------------------------
(* elf_exec, up to elf_load.                                               *)

\* The buffer is allocated; without one the call has failed.
Alloc ==
  /\ loading = "idle"
  /\ buffer' \in BufferPlaces
  /\ loading' = "read"
  /\ UNCHANGED <<mem, file, size, seg>>

\* fat32_read_file copies whole clusters, as many as the buffer holds.
BytesRead(f) ==
  LET whole == ((f.size + ClusterSize - 1) \div ClusterSize) * ClusterSize
  IN  IF whole > ELF_MAX_FILE_SIZE THEN ELF_MAX_FILE_SIZE ELSE whole
Byte(f, k) == IF k < f.size THEN <<f.name, k>> ELSE Slack

Read ==
  /\ loading = "read"
  /\ \E f \in ElfFiles :
       /\ file' = f
       /\ size' = BytesRead(f)
       /\ mem' = [a \in Addr |-> IF a \in At(buffer, BytesRead(f))
                                 THEN Byte(f, (a - buffer) % WORD) ELSE mem[a]]
  /\ loading' = "check"
  /\ UNCHANGED <<buffer, seg>>

\* kfree, and what is forgotten with the call.  The bytes stay where they are,
\* and nobody asks whose they were.
Return(to) ==
  /\ mem' = [a \in Addr |-> IF a \in BufferAt(buffer) /\ mem[a] # Old THEN Used
                            ELSE mem[a]]
  /\ buffer' = Null
  /\ size' = 0 /\ seg' = 1
  /\ loading' = to

Missing == loading = "read" /\ Return("idle") /\ UNCHANGED file

-----------------------------------------------------------------------------
(* elf_load.                                                               *)

\* elf_validate and the checks of the header table.
HeadersHold ==
  /\ size >= EHDR
  /\ file.kind = "program"
  /\ Len(file.segments) > 0
  /\ Plus(EHDR, Len(file.segments) * PHDR) <= size

Check ==
  /\ loading = "check"
  /\ IF HeadersHold THEN loading' = "segment" /\ UNCHANGED <<mem, buffer, file, size, seg>>
     ELSE Return("idle") /\ file' = NoFile

\* Mutant: a sum that has wrapped around is taken for an end in the window.
Accepted_NoWrap(ph) ==
  /\ Plus(ph.offset, ph.filesz) <= size
  /\ ph.filesz <= ph.memsz
  /\ ph.vaddr >= ELF_USER_MIN_ADDR
  /\ Plus(ph.vaddr, ph.memsz) <= ELF_USER_MAX_ADDR

Accepted(ph) ==
  LET seg_end == Plus(ph.vaddr, ph.memsz)
  IN  /\ Plus(ph.offset, ph.filesz) <= size
      /\ ph.filesz <= ph.memsz
      /\ ph.vaddr >= ELF_USER_MIN_ADDR
      /\ seg_end <= ELF_USER_MAX_ADDR
      /\ seg_end >= ph.vaddr

\* Mutant: the .bss keeps what an earlier program left there.
Copied_NoBss(ph) ==
  [a \in Addr |-> IF a \in At(ph.vaddr, ph.filesz)
                  THEN mem[Plus(buffer, ph.offset + a - ph.vaddr)] ELSE mem[a]]

\* The two loops that copy the data and clear the .bss.
Copied(ph) ==
  [a \in Addr |->
    CASE a \in At(ph.vaddr, ph.filesz) -> mem[Plus(buffer, ph.offset + a - ph.vaddr)]
      [] a \in At(ph.vaddr, ph.memsz) \ At(ph.vaddr, ph.filesz) -> Zero
      [] OTHER -> mem[a]]

\* One turn of the loop over the segments.
Segment ==
  /\ loading = "segment" /\ seg <= Len(file.segments)
  /\ LET ph == file.segments[seg]
     IN  \/ /\ Skipped(ph)
            /\ seg' = seg + 1
            /\ UNCHANGED <<mem, buffer, file, size, loading>>
         \/ /\ ~Skipped(ph) /\ ~Accepted(ph)
            /\ Return("idle") /\ file' = NoFile
         \/ /\ ~Skipped(ph) /\ Accepted(ph)
            /\ At(ph.vaddr, ph.memsz) \cap BufferAt(buffer) = {}
            /\ mem' = Copied(ph)
            /\ seg' = seg + 1
            /\ UNCHANGED <<buffer, file, size, loading>>
         \/ \* The buffer lies where the segment goes: its headers and data are
            \* overwritten while they are read, and what follows may be anything.
            /\ ~Skipped(ph) /\ Accepted(ph)
            /\ At(ph.vaddr, ph.memsz) \cap BufferAt(buffer) # {}
            /\ loading' = "garbled"
            /\ UNCHANGED <<mem, buffer, file, size, seg>>

-----------------------------------------------------------------------------
(* elf_exec, after elf_load.                                               *)

\* The buffer is given back; an entry point of 0 is a failure, and so is a
\* full process table.
Finish ==
  /\ loading = "segment" /\ seg > Len(file.segments)
  /\ \/ file.entry # 0 /\ Return("running") /\ UNCHANGED file
     \/ Return("idle") /\ file' = NoFile

\* cmd_run's wait ends with process_kill.  The program has written to its
\* memory, and nobody clears it.
Kill ==
  /\ loading = "running"
  /\ mem' = [a \in Addr |->
               IF \E k \in DOMAIN file.segments :
                    /\ ~Skipped(file.segments[k])
                    /\ a \in At(file.segments[k].vaddr, file.segments[k].memsz)
               THEN Used ELSE mem[a]]
  /\ loading' = "idle"
  /\ file' = NoFile
  /\ UNCHANGED <<buffer, size, seg>>

LoaderNext == Alloc \/ Read \/ Missing \/ Check \/ Segment \/ Finish \/ Kill

LoaderSpec == LoaderInit /\ [][LoaderNext]_loaderVars

-----------------------------------------------------------------------------
(* Properties                                                              *)

\* The variables stay in their types.
LoaderTypeOK ==
  /\ buffer \in BufferPlaces \cup {Null}
  /\ file \in ElfFiles \cup {NoFile}
  /\ size \in 0 .. ELF_MAX_FILE_SIZE
  /\ seg \in 1 .. 4
  /\ loading \in {"idle", "read", "check", "segment", "running", "garbled"}

\* Segment ph is in memory, from the file and cleared behind it.
InMemory(ph) ==
  \A k \in 0 .. ph.memsz - 1 :
    mem[Plus(ph.vaddr, k)] = IF k < ph.filesz THEN <<file.name, ph.offset + k>>
                             ELSE Zero

\* A program that runs is all there, each segment with the data of its file and
\* a .bss of zeros, whatever ran there before and however much of its file was
\* on the disk; the buffer it was read into has been given back.  Nothing but
\* the user window and the buffer has been written to, by loads that were
\* refused half-way as little as by the others.
ProgramIsWhole ==
  /\ loading = "running" =>
       \A k \in DOMAIN file.segments :
         Skipped(file.segments[k]) \/ InMemory(file.segments[k])
  /\ loading \in {"idle", "running"} => buffer = Null
  /\ \A a \in Addr : mem[a] # Old => a \in User \cup UNION {BufferAt(b) : b \in BufferPlaces}
=============================================================================
