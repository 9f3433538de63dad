----------------------------- MODULE MCTerminal -----------------------------
(* Terminal for TLC: commands that print nothing, a line, more than the      *)
(* capture buffer holds, and a character that they take back.                *)
EXTENDS Terminal

SmallOutputs == {<< >>, <<"o">>, <<"o", "p", "q", "r">>, <<NL, "p", BS, "q">>}
=============================================================================
