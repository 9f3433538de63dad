------------------------------ MODULE MCFat32 ------------------------------
(* Fat32 for TLC: a volume of three or four clusters whose directories hold   *)
(* two entries to a cluster, so that every new directory starts full.        *)
EXTENDS Fat32

A == [stem |-> "a", tail |-> "", ext |-> ""]
B == [stem |-> "b", tail |-> "", ext |-> ""]
Long == [stem |-> "shopping", tail |-> "lst", ext |-> ""]

ShortNames == {A, B}
LongNames == {A, Long}
SmallSizes == {0, 1, 3}
OneSize == {1}
=============================================================================
