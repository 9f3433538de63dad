------------------------------- MODULE Memory -------------------------------
(***************************************************************************)
(* Physical memory: the page bitmap of pmm.c as kernel_main sets it up and *)
(* as heap_init draws on it.  The heap does not live in the pages it is    *)
(* given: it counts on having been given all that lie where it does live.  *)
(*                                                                         *)
(* Nothing else runs yet, so a call is a step.  Addresses are in bytes.    *)
(***************************************************************************)
EXTENDS Naturals, Sequences, FiniteSetsExt

CONSTANTS
  PAGE_SIZE,
  KernelEnd,                \* kernel_end, behind the kernel's image
  UserMin, UserMax,         \* ELF_USER_MIN_ADDR, ELF_USER_MAX_ADDR
  HEAP_START, HEAP_SIZE,
  Edges,                    \* where the regions of a memory map begin and end
  MaxRegions                \* bound: how many regions it has

\* The heap asks for at least as many pages as can be free below its end: with
\* pages of 4 KB, the kernel from 1 MB on, the user window from 4 to 8 MB and
\* the heap from 2 to 10 MB these are fewer than 1280, and it asks for 2048.
ASSUME MemoryAssumption ==
  /\ PAGE_SIZE \in Nat \ {0} /\ Edges \subseteq Nat /\ MaxRegions \in Nat
  /\ KernelEnd \in Nat /\ UserMin \in Nat /\ UserMax \in Nat
  /\ HEAP_START \in Nat /\ HEAP_SIZE \in Nat
  /\ LET Page(address) == address \div PAGE_SIZE
         Above(address) == (address + PAGE_SIZE - 1) \div PAGE_SIZE
     IN  Cardinality({p \in 0 .. Above(HEAP_START + HEAP_SIZE) - 1 :
                        /\ p > Page(KernelEnd)
                        /\ ~(Page(UserMin) <= p /\ p < Above(UserMax))})
           <= HEAP_SIZE \div PAGE_SIZE

VARIABLES
  boot,             \* the call of kernel_main that is next
  total_pages,
  free,             \* the bitmap: the pages whose bits are clear
  free_page_count,
  left              \* pages heap_init has still to ask for

memoryVars == <<boot, total_pages, free, free_page_count, left>>

-----------------------------------------------------------------------------
(* pmm_init.  The memory map lists what is usable below 4 GB, in disjoint  *)
(* regions that need not begin or end with a page, in any order.           *)

Region == {r \in Edges \X Edges : r[1] < r[2]}

\* Mutant: a region has every page that it touches.
Pages_RoundedOut(r) == r[1] \div PAGE_SIZE
                       .. (r[2] + PAGE_SIZE - 1) \div PAGE_SIZE - 1

\* The pages a region is taken to have.
Pages(r) == LET start == r[1] \div PAGE_SIZE
                count == (r[2] - r[1]) \div PAGE_SIZE
            IN  start .. start + count - 1

Total(map) == Max({map[i][2] : i \in DOMAIN map}) \div PAGE_SIZE

Below(pages, n) == {p \in pages : p < n}

\* The bitmap follows the kernel; a word of four bytes has 32 pages.
bitmap_size(total) == (total \div 32 + 1) * 4

\* The last page of the bitmap, and the first MB, the kernel, which begins
\* there, and the bitmap.
bitmap_end(total) == (KernelEnd + bitmap_size(total)) \div PAGE_SIZE + 1
Taken(total) == 0 .. bitmap_end(total)

\* The boot loader has put the kernel into memory that is listed, and there is
\* room for the bitmap behind it.
Maps ==
  {map \in UNION {[1 .. n -> Region] : n \in 1 .. MaxRegions} :
     /\ \A i, j \in DOMAIN map :
          i # j => map[i][2] <= map[j][1] \/ map[j][2] <= map[i][1]
     /\ bitmap_end(Total(map)) < Total(map)}

\* The pages of a region that are marked as free, and how many free pages have
\* been counted after so many regions.
Usable(map, i) == Below(Pages(map[i]), Total(map))
Counted(map) ==
  LET count[i \in 0 .. Len(map)] ==
        IF i = 0 THEN 0 ELSE count[i-1] + Cardinality(Usable(map, i))
  IN  count

pmm_init(map) ==
  LET cleared == UNION {Usable(map, i) : i \in DOMAIN map}
      taken == Taken(Total(map))
  IN  /\ boot = "pmm_init"
      /\ boot' = "pmm_reserve_region"
      /\ total_pages' = Total(map)
      /\ free' = cleared \ taken
      /\ free_page_count' = Counted(map)[Len(map)] - Cardinality(cleared \cap taken)
      /\ UNCHANGED left

MemoryInit ==
  /\ boot = "pmm_init"
  /\ total_pages = 0 /\ free = {} /\ free_page_count = 0
  /\ left = HEAP_SIZE \div PAGE_SIZE

-----------------------------------------------------------------------------

Window(from, to) == from \div PAGE_SIZE .. (to + PAGE_SIZE - 1) \div PAGE_SIZE - 1

pmm_reserve_region ==
  /\ boot = "pmm_reserve_region"
  /\ LET pages == Below(Window(UserMin, UserMax), total_pages)
     IN  /\ free' = free \ pages
         /\ free_page_count' = free_page_count - Cardinality(free \cap pages)
  /\ boot' = "heap_init"
  /\ UNCHANGED <<total_pages, left>>

\* pmm_alloc_page: the lowest page; heap_init does not look at its failure.
pmm_alloc_page ==
  IF free = {} THEN UNCHANGED <<free, free_page_count>>
  ELSE /\ free' = free \ {Min(free)}
       /\ free_page_count' = free_page_count - 1

heap_init ==
  /\ boot = "heap_init"
  /\ left > 0
  /\ left' = left - 1
  /\ boot' = IF left = 1 THEN "up" ELSE boot
  /\ pmm_alloc_page
  /\ UNCHANGED total_pages

MemoryNext == (\E map \in Maps : pmm_init(map)) \/ pmm_reserve_region \/ heap_init

MemorySpec == MemoryInit /\ [][MemoryNext]_memoryVars

-----------------------------------------------------------------------------
(* Properties                                                              *)

\* The variables stay in their types.
MemoryTypeOK ==
  /\ boot \in {"pmm_init", "pmm_reserve_region", "heap_init", "up"}
  /\ total_pages \in Nat
  /\ free \subseteq 0 .. total_pages - 1
  /\ free_page_count \in Nat
  /\ left \in 0 .. HEAP_SIZE \div PAGE_SIZE

\* What "meminfo" shows is the number of free pages, however the regions of
\* the map meet within a page; and once the heap is set up no page of the
\* kernel, of the user window or of the heap is free, although the heap has
\* asked for pages without saying which.
PagesKept ==
  /\ free_page_count = Cardinality(free)
  /\ boot = "up" =>
       free \cap (0 .. KernelEnd \div PAGE_SIZE
                  \cup Window(UserMin, UserMax)
                  \cup Window(HEAP_START, HEAP_START + HEAP_SIZE)) = {}
=============================================================================
