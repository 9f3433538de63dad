---------------------------- MODULE WindowStack ----------------------------
(***************************************************************************)
(* What the desktop's window list promises to its user, with the slots,    *)
(* the indices and the event loop of window.c gone: a stack of             *)
(* applications, back to front, each of them in it at most once.  Opening  *)
(* an application that is already there only brings it to the front, and   *)
(* closing one leaves the order of the others alone.                       *)
(***************************************************************************)
EXTENDS Naturals, Sequences

CONSTANTS Kinds,   \* the applications a window can host
          First,   \* the one a new session starts with
          Opener   \* a pair: the first, clicked, may open the second

VARIABLE stack

Place(s, a)   == CHOOSE p \in DOMAIN s : s[p] = a
Without(s, a) ==
  IF \E p \in DOMAIN s : s[p] = a
  THEN SubSeq(s, 1, Place(s, a) - 1) \o SubSeq(s, Place(s, a) + 1, Len(s))
  ELSE s
ToTop(s, a)   == Append(Without(s, a), a)

Init == stack = << >>

Restart     == stack' = <<First>>
Open(a)     == stack' = ToTop(stack, a)
Launch      ==
  /\ \E p \in DOMAIN stack : stack[p] = Opener[1]
  /\ stack' = ToTop(ToTop(stack, Opener[1]), Opener[2])
Close(a)    == stack' = Without(stack, a)

Next == \/ Restart
        \/ \E a \in Kinds : Open(a) \/ Close(a)
        \/ Launch

Spec == Init /\ [][Next]_stack
=============================================================================
