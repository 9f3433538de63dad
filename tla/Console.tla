------------------------------ MODULE Console ------------------------------
(***************************************************************************)
(* The shell's prompt: the line editor of shell.c with its history and its *)
(* echo on the text screen of vga.c.  An action is what shell_run does     *)
(* with one key; no interrupt handler looks at any of this.                *)
(*                                                                         *)
(* A buffer is an array of cells with a terminator and whatever an earlier *)
(* line left behind it.  An operation's echo is the sequence of characters *)
(* it gives to vga_putchar.                                                *)
(***************************************************************************)
EXTENDS Integers, Sequences, Chars

CONSTANTS Printable,    \* the characters a line is made of, with " "
          MAX_HISTORY,  \* buffers of the history, of MAX_CMD_LEN cells each
          Cols,         \* cols: the width of the screen
          Prompts       \* the lengths a prompt may have

\* The sizes of arrays and screen are not 0, and the marks of the model are no
\* characters that a line has.
ASSUME ConsoleAssumption ==
  /\ {MAX_CMD_LEN, MAX_HISTORY, Cols} \subseteq Nat \ {0}
  /\ Prompts \subseteq Nat /\ 1 \in Prompts
  /\ Printable \cap {"nul", "newline", "backspace"} = {}

VARIABLES
  cmd_buffer, cmd_len, cursor_pos,
  history, history_count, history_nav, saved_line,
  screen,       \* the row the screen's cursor is in
  prompt        \* the length of the prompt, which is the current directory

line  == <<cmd_buffer, cmd_len, cursor_pos>>
lines == <<history, history_count, history_nav, saved_line>>
consoleVars == <<line, lines, screen, prompt>>

NUL == "nul"
Blank == " "

Cells == 0 .. MAX_CMD_LEN - 1
Zeros == [i \in Cells |-> NUL]

-----------------------------------------------------------------------------
(* The screen.  Nothing is drawn in a row the cursor has left, except by   *)
(* scrolling, so one row is kept, Bare where the cursor found it.          *)

Bare  == "old"
Fresh == [i \in 0 .. Cols - 1 |-> Bare]

\* vga_putchar.  "wrapped" is a history variable: the line has gone on to
\* another row, out of which a backspace does not come back.
Put(scr, char) ==
  CASE char = NL -> [scr EXCEPT !.row = Fresh, !.x = 0]
    [] char = BS -> IF scr.x = 0 THEN scr
                    ELSE [scr EXCEPT !.x = @ - 1, !.row[scr.x - 1] = Blank]
    [] OTHER     -> IF scr.x + 1 < Cols
                      THEN [scr EXCEPT !.x = @ + 1, !.row[scr.x] = char]
                      ELSE [row |-> Fresh, x |-> 0, wrapped |-> TRUE]

\* vga_print, a character after the other.
Echo(scr, chars) ==
  LET drawn[n \in 0 .. Len(chars)] ==
        IF n = 0 THEN scr ELSE Put(drawn[n-1], chars[n])
  IN  drawn[Len(chars)]

Repeat(n, char) == [i \in 1 .. n |-> char]

\* shell_prompt, in a directory whose name may be another one than before.
shell_prompt(scr) ==
  /\ prompt' \in Prompts
  /\ screen' = Echo([scr EXCEPT !.wrapped = FALSE], Repeat(prompt', "prompt"))

ConsoleInit ==
  /\ cmd_buffer = Zeros /\ cmd_len = 0 /\ cursor_pos = 0
  /\ history = [i \in 0 .. MAX_HISTORY - 1 |-> Zeros]
  /\ history_count = 0 /\ history_nav = -1 /\ saved_line = Zeros
  /\ prompt = 1
  /\ screen = Put([row |-> Fresh, x |-> 0, wrapped |-> FALSE], "prompt")

-----------------------------------------------------------------------------
(* Editing.                                                                *)

\* The buffer's cells from one to the next but one.
Part(buffer, from, to) == [i \in 1 .. to - from |-> buffer[from + i - 1]]

cursor_left ==
  /\ cursor_pos > 0
  /\ screen' = Put(screen, BS)
  /\ cursor_pos' = cursor_pos - 1
  /\ UNCHANGED <<cmd_buffer, cmd_len, lines, prompt>>

cursor_right ==
  /\ cursor_pos < cmd_len
  /\ screen' = Put(screen, cmd_buffer[cursor_pos])
  /\ cursor_pos' = cursor_pos + 1
  /\ UNCHANGED <<cmd_buffer, cmd_len, lines, prompt>>

insert_char(c) ==
  /\ cmd_len < MAX_CMD_LEN - 1
  /\ cmd_buffer' = [i \in Cells |-> IF i = cursor_pos THEN c
                                    ELSE IF i \in cursor_pos + 1 .. cmd_len
                                      THEN cmd_buffer[i - 1] ELSE cmd_buffer[i]]
  /\ cmd_len' = cmd_len + 1
  /\ cursor_pos' = cursor_pos + 1
  /\ screen' = Echo(screen, Part(cmd_buffer', cursor_pos, cmd_len')
                            \o Repeat(cmd_len - cursor_pos, BS))
  /\ UNCHANGED <<lines, prompt>>

\* Mutant: the way back is a cell too short.
Closing_ShortBack(buffer, from, len) ==
  <<BS>> \o Part(buffer, from, len) \o <<Blank>> \o Repeat(len - from, BS)

\* What a deletion draws: the rest of the line a cell to the left, a blank
\* over its last character, and the way back.
Closing(buffer, from, len) ==
  <<BS>> \o Part(buffer, from, len) \o <<Blank>> \o Repeat(len - from + 1, BS)

delete_char_before_cursor ==
  /\ cursor_pos > 0
  /\ cmd_buffer' = [i \in Cells |-> IF i \in cursor_pos - 1 .. cmd_len - 2
                                      THEN cmd_buffer[i + 1] ELSE cmd_buffer[i]]
  /\ cmd_len' = cmd_len - 1
  /\ cursor_pos' = cursor_pos - 1
  /\ screen' = Echo(screen, Closing(cmd_buffer', cursor_pos', cmd_len'))
  /\ UNCHANGED <<lines, prompt>>

\* clear_line_display: to the end of the line, and back over all of it.
Clearing == Part(cmd_buffer, cursor_pos, cmd_len)
            \o [i \in 1 .. 3 * cmd_len |-> IF i % 3 = 2 THEN Blank ELSE BS]

-----------------------------------------------------------------------------
(* The history.                                                            *)

\* The length of a string: where its terminator is, or as far as it is read.
StrLen(buffer) ==
  CHOOSE n \in Cells : /\ \A i \in 0 .. n - 1 : buffer[i] # NUL
                       /\ n = MAX_CMD_LEN - 1 \/ buffer[n] = NUL

\* A copy of a string in a buffer, without and with its terminator.
StrCopy(buffer, s) ==
  [i \in Cells |-> IF i < StrLen(s) THEN s[i] ELSE buffer[i]]
Ended(buffer, s) == [StrCopy(buffer, s) EXCEPT ![StrLen(s)] = NUL]

load_line(s) ==
  /\ cmd_buffer' = StrCopy(cmd_buffer, s)
  /\ cmd_len' = StrLen(s)
  /\ cursor_pos' = StrLen(s)
  /\ screen' = Echo(screen, Clearing \o Part(s, 0, StrLen(s)))

\* Mutant: the oldest line is overwritten in its place.
HistoryAdd_NoShift(s) ==
  IF s[0] = NUL THEN UNCHANGED <<history, history_count>>
  ELSE /\ history' = [history EXCEPT
              ![IF history_count = MAX_HISTORY THEN 0 ELSE history_count] = Ended(@, s)]
       /\ history_count' = IF history_count = MAX_HISTORY THEN MAX_HISTORY ELSE history_count + 1

\* history_add: a full history moves down by a line, whole.
HistoryAdd(s) ==
  IF s[0] = NUL THEN UNCHANGED <<history, history_count>>
  ELSE LET full == history_count = MAX_HISTORY
           moved == [i \in 0 .. MAX_HISTORY - 1 |->
                       history[IF full /\ i < MAX_HISTORY - 1 THEN i + 1 ELSE i]]
           last == IF full THEN MAX_HISTORY - 1 ELSE history_count
       IN  /\ history' = [moved EXCEPT ![last] = Ended(@, s)]
           /\ history_count' = last + 1

KeyUp ==
  /\ history_count > 0
  /\ history_nav # 0
  /\ history_nav' = (IF history_nav = -1 THEN history_count ELSE history_nav) - 1
  /\ saved_line' = IF history_nav # -1 THEN saved_line
                   ELSE [i \in Cells |-> IF i < cmd_len THEN cmd_buffer[i]
                                         ELSE IF i = cmd_len THEN NUL
                                         ELSE saved_line[i]]
  /\ load_line(history[history_nav'])
  /\ UNCHANGED <<history, history_count, prompt>>

KeyDown ==
  /\ history_nav # -1
  /\ IF history_nav + 1 >= history_count
       THEN history_nav' = -1 /\ load_line(saved_line)
       ELSE history_nav' = history_nav + 1 /\ load_line(history[history_nav + 1])
  /\ UNCHANGED <<history, history_count, saved_line, prompt>>

-----------------------------------------------------------------------------
(* Entering a line.                                                        *)

\* tokenize writes a terminator over the space behind each word.
Tokenized(buffer) ==
  [i \in Cells |-> IF i > 0 /\ buffer[i] = Blank /\ buffer[i - 1] \notin {Blank, NUL}
                      /\ i < StrLen(buffer)
                     THEN NUL ELSE buffer[i]]

\* shell_execute comes back to a prompt whatever the command did; a line
\* without a word in it only gets the prompt.
EnterKey ==
  LET entered == [cmd_buffer EXCEPT ![cmd_len] = NUL]
  IN  /\ HistoryAdd(entered)
      /\ history_nav' = -1
      /\ cmd_buffer' = Tokenized(entered)
      /\ cmd_len' = 0 /\ cursor_pos' = 0
      /\ shell_prompt(Put(screen, NL))
      /\ UNCHANGED saved_line

CtrlC ==
  /\ cmd_len' = 0 /\ cursor_pos' = 0 /\ history_nav' = -1
  /\ shell_prompt(Echo(screen, <<"^", "C", NL>>))
  /\ UNCHANGED <<cmd_buffer, history, history_count, saved_line>>

ConsoleNext ==
  \/ cursor_left \/ cursor_right
  \/ \E c \in Printable : insert_char(c)
  \/ delete_char_before_cursor
  \/ KeyUp \/ KeyDown \/ EnterKey \/ CtrlC

ConsoleSpec == ConsoleInit /\ [][ConsoleNext]_consoleVars

-----------------------------------------------------------------------------
(* Properties                                                              *)

Buffers == [Cells -> Printable \cup {NUL}]

\* The variables stay in their types: no cell is written past a buffer's end.
ConsoleTypeOK ==
  /\ cmd_buffer \in Buffers /\ cmd_len \in Cells /\ cursor_pos \in 0 .. cmd_len
  /\ history \in [0 .. MAX_HISTORY - 1 -> Buffers]
  /\ history_count \in 0 .. MAX_HISTORY
  /\ history_nav \in -1 .. history_count - 1
  /\ saved_line \in Buffers
  /\ screen.x \in 0 .. Cols - 1 /\ screen.wrapped \in BOOLEAN
  /\ screen.row \in [0 .. Cols - 1 -> Printable \cup {Bare, Blank, "prompt", "^", "C"}]
  /\ prompt \in Prompts

\* A line that fits its row is on the screen as far as the cursor, behind the
\* prompt, and the cursor is where the next character goes; of what was typed
\* nothing else is there, not of an earlier line from the history either.
ScreenInStep ==
  ~screen.wrapped =>
    /\ screen.x = prompt + cursor_pos
    /\ \A i \in 0 .. Cols - 1 :
         CASE i < prompt   -> screen.row[i] = "prompt"
           [] i \in prompt .. screen.x - 1 -> screen.row[i] = cmd_buffer[i - prompt]
           [] OTHER        -> screen.row[i] \in {Blank, Bare}

Str(buffer) == Part(buffer, 0, StrLen(buffer))

\* The buffers, their lengths and their terminators amount to a line and the
\* last lines entered: what an earlier line left behind is never seen, and the
\* way down from the history ends at the line that was begun.
Editor == INSTANCE Line WITH
  MaxLine <- MAX_CMD_LEN - 1,
  MaxPast <- MAX_HISTORY,
  text    <- Part(cmd_buffer, 0, cmd_len),
  cursor  <- cursor_pos,
  past    <- [i \in 1 .. history_count |-> Str(history[i - 1])],
  at      <- history_nav + 1,
  draft   <- IF history_nav = -1 THEN << >> ELSE Str(saved_line)

ImplementsLine == Editor!Spec
=============================================================================
