------------------------------- MODULE MCHeap -------------------------------
(* Heap for TLC: 16 units from unit 4, so that the heap and the window for   *)
(* user images lie as 2 MB .. 10 MB and 4 MB .. 8 MB do.  A header is one    *)
(* unit and a split leaves more than one.                                    *)
EXTENDS Heap

SmallSizes == {1, 3, 6}
=============================================================================
