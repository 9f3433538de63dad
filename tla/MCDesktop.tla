----------------------------- MODULE MCDesktop -----------------------------
(* Desktop for TLC: the applications that keep state and one file.           *)
EXTENDS Desktop

AllApps == {"Terminal", "Files", "TextEdit"}
TwoApps == {"Terminal", "TextEdit"}
OneFile == {"notes"}

\* Bound: a desktop that is entered again is followed while its documents and
\* lines are new, its file is empty, no window lists files and two have blocks at most.
Reentered ==
  sessions > 1 =>
    /\ \A o \in Object : /\ object[o] = Blank(object[o].kind)
                        /\ object[o].kind # "Files"
    /\ \A n \in Names : files[n] = 0
    /\ Cardinality({o \in Object : object[o].kind \in Stateful}) <= 2
=============================================================================
