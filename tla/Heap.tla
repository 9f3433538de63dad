-------------------------------- MODULE Heap --------------------------------
(***************************************************************************)
(* The kernel heap (heap.c): a first-fit allocator over a linked list of   *)
(* blocks that tile a fixed region, each behind a header {size, free,      *)
(* next}.  kmalloc walks the list and splits the block it takes; kfree     *)
(* marks a block and walks the list merging free neighbours.  Every        *)
(* iteration of the two loops is a step, so the list is seen in every      *)
(* state in which a timer tick can find it.  Only process 0 calls the heap *)
(* (module Processes), so calls do not overlap.                            *)
(***************************************************************************)
EXTENDS Integers

CONSTANTS HeapStart,          \* HEAP_START
          HeapSize,           \* HEAP_SIZE
          Header,             \* sizeof(block_header_t), 12
          Slack,              \* a split leaves more than this, 4
          Sizes,              \* the sizes the callers ask for
          UserMin, UserMax    \* ELF_USER_MIN_ADDR and ELF_USER_MAX_ADDR

ASSUME HeapAssumption ==
  /\ HeapStart \in Nat \ {0} /\ HeapSize \in Nat /\ Header \in Nat \ {0}
  /\ Slack \in Nat /\ Header <= HeapSize /\ Sizes \subseteq Nat
  /\ UserMin \in Nat /\ UserMax \in Nat

VARIABLES
  block,    \* the headers on the list: address |-> [size, free, next]
  held,     \* the pointers the callers hold: pointer |-> size asked for
  op,       \* the call in progress: "idle", "search" (kmalloc), "merge" (kfree)
  req,      \* kmalloc's size
  cur       \* the loop's "current", 0 for a null pointer

vars == <<block, held, op, req, cur>>

HeapEnd == HeapStart + HeapSize
Headers == DOMAIN block
Bytes(a) == a + Header     \* the caller's pointer to the block at a

\* heap_init: one free block.
Init ==
  /\ block = [a \in {HeapStart} |->
                [size |-> HeapSize - Header, free |-> TRUE, next |-> 0]]
  /\ held = [p \in {} |-> 0]
  /\ op = "idle"
  /\ req = 0
  /\ cur = 0

-----------------------------------------------------------------------------
(***************************************************************************)
(* kmalloc                                                                 *)
(***************************************************************************)
Kmalloc(n) ==
  /\ op = "idle"
  /\ op' = "search" /\ req' = n /\ cur' = HeapStart
  /\ UNCHANGED <<block, held>>

\* Mutant: a block of exactly the size asked for is passed over.
Fits_Strict == block[cur].free /\ block[cur].size > req
Fits == block[cur].free /\ block[cur].size >= req

SearchNext ==
  /\ op = "search" /\ cur # 0 /\ ~Fits
  /\ cur' = block[cur].next
  /\ UNCHANGED <<block, held, op, req>>

\* Mutants: the new block keeps the header's bytes; it starts inside the old one.
Split_HeaderForgotten ==
  LET rest == Bytes(cur) + req
  IN  block' = [a \in Headers \cup {rest} |->
                  IF a = cur THEN [size |-> req, free |-> FALSE, next |-> rest]
                  ELSE IF a = rest
                    THEN [size |-> block[cur].size - req, free |-> TRUE,
                          next |-> block[cur].next]
                  ELSE block[a]]
Split_Overlaps ==
  LET rest == cur + req
  IN  block' = [a \in Headers \cup {rest} |->
                  IF a = cur THEN [size |-> req, free |-> FALSE, next |-> rest]
                  ELSE IF a = rest
                    THEN [size |-> block[cur].size - req - Header, free |-> TRUE,
                          next |-> block[cur].next]
                  ELSE block[a]]

\* Cut the tail off the block at cur, behind a header of its own.
Split ==
  LET rest == Bytes(cur) + req
  IN  block' = [a \in Headers \cup {rest} |->
                  IF a = cur THEN [size |-> req, free |-> FALSE, next |-> rest]
                  ELSE IF a = rest
                    THEN [size |-> block[cur].size - req - Header, free |-> TRUE,
                          next |-> block[cur].next]
                  ELSE block[a]]

SearchTake ==
  /\ op = "search" /\ cur # 0 /\ Fits
  /\ IF block[cur].size > req + Header + Slack
       THEN Split
       ELSE block' = [block EXCEPT ![cur].free = FALSE]
  /\ held' = [p \in DOMAIN held \cup {Bytes(cur)} |->
                IF p = Bytes(cur) THEN req ELSE held[p]]
  /\ op' = "idle" /\ req' = 0 /\ cur' = 0

\* Out of memory: kmalloc returns 0.
SearchFail ==
  /\ op = "search" /\ cur = 0
  /\ op' = "idle" /\ req' = 0
  /\ UNCHANGED <<block, held, cur>>

-----------------------------------------------------------------------------
(***************************************************************************)
(* kfree                                                                   *)
(***************************************************************************)
\* Mutant: merging starts at the freed block and misses the one before it.
Kfree_MergesForward(p) ==
  /\ op = "idle"
  /\ p \in DOMAIN held
  /\ block' = [block EXCEPT ![p - Header].free = TRUE]
  /\ held' = [q \in DOMAIN held \ {p} |-> held[q]]
  /\ op' = "merge" /\ cur' = p - Header
  /\ UNCHANGED req

Kfree(p) ==
  /\ op = "idle"
  /\ p \in DOMAIN held
  /\ block' = [block EXCEPT ![p - Header].free = TRUE]
  /\ held' = [q \in DOMAIN held \ {p} |-> held[q]]
  /\ op' = "merge" /\ cur' = HeapStart
  /\ UNCHANGED req

BothFree(a) == /\ block[a].next # 0
               /\ block[a].free
               /\ block[block[a].next].free

\* Mutant: move on after absorbing one block.
MergeAbsorb_Advances ==
  /\ op = "merge" /\ BothFree(cur)
  /\ LET next == block[cur].next
     IN  /\ block' = [a \in Headers \ {next} |->
                        IF a = cur
                          THEN [size |-> block[cur].size + Header + block[next].size,
                                free |-> TRUE, next |-> block[next].next]
                          ELSE block[a]]
         /\ cur' = IF block[next].next = 0 THEN cur ELSE block[next].next
  /\ UNCHANGED <<held, op, req>>

\* Absorb the next block and stay, for it may have a free neighbour too.
MergeAbsorb ==
  /\ op = "merge" /\ BothFree(cur)
  /\ LET next == block[cur].next
     IN  block' = [a \in Headers \ {next} |->
                     IF a = cur
                       THEN [size |-> block[cur].size + Header + block[next].size,
                             free |-> TRUE, next |-> block[next].next]
                       ELSE block[a]]
  /\ UNCHANGED <<held, op, req, cur>>

\* Mutant: the loop does not move past a block in use.
MergeAdvance_Stays ==
  /\ op = "merge" /\ block[cur].next # 0 /\ ~BothFree(cur)
  /\ UNCHANGED vars

MergeAdvance ==
  /\ op = "merge" /\ block[cur].next # 0 /\ ~BothFree(cur)
  /\ cur' = block[cur].next
  /\ UNCHANGED <<block, held, op, req>>

MergeDone ==
  /\ op = "merge" /\ block[cur].next = 0
  /\ op' = "idle" /\ cur' = 0
  /\ UNCHANGED <<block, held, req>>

-----------------------------------------------------------------------------
Loop == SearchNext \/ SearchTake \/ SearchFail
          \/ MergeAbsorb \/ MergeAdvance \/ MergeDone

Next == \/ \E n \in Sizes : Kmalloc(n)
        \/ \E p \in DOMAIN held : Kfree(p)
        \/ Loop

Spec == Init /\ [][Next]_vars

\* The loops are straight code of process 0, which does not starve (ReadyRuns).
FairSpec == Spec /\ WF_vars(Loop)

-----------------------------------------------------------------------------
(***************************************************************************)
(* Properties                                                              *)
(***************************************************************************)

BlockType == [size : Nat, free : BOOLEAN, next : Nat]

\* The list is made of headers with fields in range.
TypeOK ==
  /\ Headers \subseteq HeapStart .. HeapEnd - Header
  /\ block \in [Headers -> BlockType]
  /\ held \in [DOMAIN held -> Nat] /\ DOMAIN held \subseteq Nat
  /\ op \in {"idle", "search", "merge"}
  /\ req \in Nat
  /\ cur \in Headers \cup {0}

\* In every state, a half-merged one included, the blocks tile the region: the
\* list starts at the heap's first byte, each block ends where the next one
\* begins, and the last one ends at the heap's last byte.
Tiling ==
  /\ HeapStart \in Headers
  /\ \A a \in Headers :
       LET end == Bytes(a) + block[a].size
       IN  IF block[a].next = 0 THEN end = HeapEnd
                                ELSE block[a].next = end /\ end \in Headers
  /\ \A a, b \in Headers : a < b => Bytes(a) + block[a].size <= b

\* What both calls may rely on and keep, at every iteration of their loops: the
\* headers are headers, and the blocks tile the region.
WellFormed == TypeOK /\ Tiling

\* Between calls no two neighbours are both free, so that a request fails only
\* when no run of free bytes can hold it.
Coalesced == op # "merge" => \A a \in Headers : ~BothFree(a)

\* kmalloc returns 0 only when no free block is large enough.
NullMeansFull ==
  op = "search" /\ cur = 0
    => \A a \in Headers : block[a].free => block[a].size < req

\* However the calls were interleaved, freeing everything restores the single
\* block of heap_init: no byte is lost to headers or to fragmentation.
AllFreed ==
  op = "idle" /\ DOMAIN held = {}
    => block = [a \in {HeapStart} |->
                  [size |-> HeapSize - Header, free |-> TRUE, next |-> 0]]

\* What the merging pass of kfree is for: fragmentation does not outlast the call
\* that could end it.
FreeSpaceIsWhole == Coalesced /\ AllFreed

\* The heap implements the abstract allocator.
Promise == INSTANCE Allocator WITH First <- HeapStart, Beyond <- HeapEnd,
                                   allocated <- held
ImplementsAllocator == Promise!Spec

\* Every call returns.
CallsReturn == op # "idle" ~> op = "idle"

\* elf.h:66-69: user images, loaded by elf_load at UserMin .. UserMax - 1, are
\* kept well clear of the kernel heap.
HeapClearOfUserImages ==
  \A p \in DOMAIN held : p + held[p] <= UserMin \/ UserMax <= p
=============================================================================
