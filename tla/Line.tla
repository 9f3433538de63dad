-------------------------------- MODULE Line --------------------------------
(***************************************************************************)
(* What the shell's line editor promises: a line of text with a cursor in  *)
(* it, the last lines entered, and a walk through them that gives back the *)
(* line it started from.                                                   *)
(***************************************************************************)
EXTENDS Naturals, Sequences

CONSTANTS Printable, MaxLine, MaxPast

VARIABLES
  text,    \* the line
  cursor,  \* how many of its characters are left of the cursor
  past,    \* the lines entered, the latest last
  at,      \* which of them is shown, 0 for none
  draft    \* the line the walk started from

vars == <<text, cursor, past, at, draft>>

Init == text = << >> /\ cursor = 0 /\ past = << >> /\ at = 0 /\ draft = << >>

Show(line) == text' = line /\ cursor' = Len(line)

Insert(char) ==
  /\ Len(text) < MaxLine
  /\ text' = SubSeq(text, 1, cursor) \o <<char>> \o SubSeq(text, cursor + 1, Len(text))
  /\ cursor' = cursor + 1
  /\ UNCHANGED <<past, at, draft>>

Delete ==
  /\ cursor > 0
  /\ text' = SubSeq(text, 1, cursor - 1) \o SubSeq(text, cursor + 1, Len(text))
  /\ cursor' = cursor - 1
  /\ UNCHANGED <<past, at, draft>>

Move ==
  /\ cursor' \in {cursor - 1, cursor + 1} \cap (0 .. Len(text))
  /\ UNCHANGED <<text, past, at, draft>>

\* Only the last lines are kept.
Kept(lines) ==
  SubSeq(lines, IF Len(lines) > MaxPast THEN 2 ELSE 1, Len(lines))

Enter ==
  /\ past' = IF text = << >> THEN past ELSE Kept(Append(past, text))
  /\ Show(<< >>)
  /\ at' = 0 /\ draft' = << >>

Cancel ==
  /\ Show(<< >>)
  /\ at' = 0 /\ draft' = << >>
  /\ UNCHANGED past

Older ==
  /\ past # << >>
  /\ at # 1
  /\ at' = IF at = 0 THEN Len(past) ELSE at - 1
  /\ draft' = IF at = 0 THEN text ELSE draft
  /\ Show(past[at'])
  /\ UNCHANGED past

Newer ==
  /\ at # 0
  /\ IF at < Len(past)
       THEN at' = at + 1 /\ Show(past[at + 1]) /\ UNCHANGED draft
       ELSE at' = 0 /\ Show(draft) /\ draft' = << >>
  /\ UNCHANGED past

Next ==
  \/ \E char \in Printable : Insert(char)
  \/ Delete \/ Move \/ Enter \/ Cancel \/ Older \/ Newer

Spec == Init /\ [][Next]_vars
=============================================================================
