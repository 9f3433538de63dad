------------------------------ MODULE Allocator ------------------------------
(***************************************************************************)
(* What kmalloc and kfree promise: a region of addresses in which live     *)
(* allocations never overlap, stay where they are and go away only when    *)
(* they are freed.                                                         *)
(***************************************************************************)
EXTENDS Integers

CONSTANTS First, Beyond    \* the region is First .. Beyond - 1

VARIABLE allocated         \* the live allocations: start |-> requested size

Inside(p, n) == First <= p /\ p + n <= Beyond
Apart(p, n)  == \A q \in DOMAIN allocated : \/ p + n <= q
                                            \/ q + allocated[q] <= p

Init == allocated = [p \in {} |-> 0]

Alloc(p, n) ==
  /\ p \notin DOMAIN allocated
  /\ Inside(p, n) /\ Apart(p, n)
  /\ allocated' = [q \in DOMAIN allocated \cup {p} |->
                     IF q = p THEN n ELSE allocated[q]]

Free(p) ==
  /\ p \in DOMAIN allocated
  /\ allocated' = [q \in DOMAIN allocated \ {p} |-> allocated[q]]

Next == \E p \in First .. Beyond :
          \/ \E n \in 0 .. Beyond - First : Alloc(p, n)
          \/ Free(p)

Spec == Init /\ [][Next]_allocated
=============================================================================
