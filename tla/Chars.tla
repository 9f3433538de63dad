------------------------------- MODULE Chars -------------------------------
(* What the text screen, the shell's prompt and the terminal window share:   *)
(* the two characters that move the cursor, and the room for a line.         *)
CONSTANT MAX_CMD_LEN

NL == "newline"
BS == "backspace"
=============================================================================
