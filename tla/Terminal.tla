------------------------------ MODULE Terminal ------------------------------
(***************************************************************************)
(* The terminal window of app.c: a scrollback that keeps the last bytes of *)
(* what was printed and typed, a line that is edited at its end and handed *)
(* to shell_exec_line, the capture buffer of vga.c that catches what the   *)
(* command prints, and the view with its scrollbar.                        *)
(*                                                                         *)
(* An action is one call of the window loop into the application.  A text  *)
(* is a sequence of characters; columns are characters, the scrollbar is   *)
(* in pixels.                                                              *)
(***************************************************************************)
EXTENDS Integers, Sequences, Chars

CONSTANTS
  TERMINAL_BUF_MAX, TERMINAL_LINE_MAX, TERMINAL_CAP_MAX,
  APP_TEXT_MAX_LINES,   \* lines the view divides a text into, at most
  TermCols, TermRows,   \* the text area, in characters
  TrackHeight, MinThumb,  \* track_h, and the smallest thumb_h
  Typable,              \* the characters a user types
  Outputs,              \* what a command may give to vga_putchar
  MaxEntered            \* bound: lines entered

\* What texts are made of.
Character == {"t", "/", "d", ">", NL, BS} \cup Typable
             \cup UNION {{out[i] : i \in DOMAIN out} : out \in Outputs}

\* A buffer has room for its terminator, and the shell's copy for all of the
\* terminal's line.  The view has a row, and the thumb leaves a pixel at least of
\* its track for every line out of view: in the one size that a terminal is
\* opened with (window.c:327) 126 pixels stand against 64 lines and a thumb of 10.
ASSUME TerminalAssumption ==
  /\ {TERMINAL_BUF_MAX, TERMINAL_LINE_MAX, TERMINAL_CAP_MAX, TermCols, TermRows,
      MinThumb} \subseteq Nat \ {0}
  /\ {MAX_CMD_LEN, APP_TEXT_MAX_LINES, TrackHeight, MaxEntered} \subseteq Nat
  /\ TERMINAL_LINE_MAX <= MAX_CMD_LEN
  /\ APP_TEXT_MAX_LINES <= TrackHeight
  /\ APP_TEXT_MAX_LINES - TermRows <= TrackHeight - MinThumb
  /\ Outputs \subseteq Seq(Character)

VARIABLES
  buf, input_start,
  scroll_offset,
  transcript,   \* history: all that was printed and typed since the window opened
  line_typed,   \* history: what was typed since the prompt
  ran,          \* history: the last line entered, and what the shell was given
  entered

terminalVars == <<buf, input_start, scroll_offset, transcript, line_typed, ran, entered>>

MinOf(a, b) == IF a < b THEN a ELSE b
MaxOf(a, b) == IF a > b THEN a ELSE b
FirstOf(s, n) == SubSeq(s, 1, MinOf(n, Len(s)))
LastOf(s, n) == SubSeq(s, MaxOf(0, Len(s) - n) + 1, Len(s))

-----------------------------------------------------------------------------
(* The scrollback.  st is the terminal_state_t under construction.         *)

Drop(st, text) == MaxOf(0, Len(st.buf) + Len(text) - (TERMINAL_BUF_MAX - 1))

\* terminal_append
Appended(st, whole) ==
  LET text == LastOf(whole, TERMINAL_BUF_MAX - 1)
  IN  [buf |-> SubSeq(st.buf, Drop(st, text) + 1, Len(st.buf)) \o text,
       input_start |-> MaxOf(0, st.input_start - Drop(st, text))]

\* terminal_print_prompt: the current directory and "> ".
Prompted(st, prompt) ==
  LET printed == Appended(st, prompt)
  IN  [printed EXCEPT !.input_start = Len(printed.buf)]

\* Directories with names of two lengths.
PromptTexts == {<<"/", ">">>, <<"/", "d", ">">>}

\* terminal_on_open
Banner == <<"t", NL>>
Opened(prompt) == Prompted(Appended([buf |-> << >>, input_start |-> 0], Banner),
                           prompt)

\* The first terminal, opened in the root directory.
TerminalInit ==
  LET prompt == <<"/", ">">>
  IN  /\ buf = Opened(prompt).buf /\ input_start = Opened(prompt).input_start
      /\ scroll_offset = 0
      /\ transcript = Banner \o prompt
      /\ line_typed = << >>
      /\ ran = [asked |-> << >>, line |-> << >>]
      /\ entered = 0

-----------------------------------------------------------------------------
(* The shell's side.                                                       *)

\* vga_putchar while it captures: a backspace takes the last character back,
\* what does not fit is dropped.
Caught(cap, char) ==
  CASE char = BS -> SubSeq(cap, 1, Len(cap) - 1)
    [] char # BS /\ Len(cap) < TERMINAL_CAP_MAX - 1 -> Append(cap, char)
    [] OTHER -> cap

Captured(chars) ==
  LET cap[n \in 0 .. Len(chars)] ==
        IF n = 0 THEN << >> ELSE Caught(cap[n-1], chars[n])
  IN  cap[Len(chars)]

\* The line shell_exec_line tokenizes; a blank one runs nothing.
CommandLine(text) == FirstOf(FirstOf(text, TERMINAL_LINE_MAX - 1), MAX_CMD_LEN - 1)
Answers(line) == IF \A i \in DOMAIN line : line[i] = " " THEN {<< >>} ELSE Outputs

-----------------------------------------------------------------------------
(* terminal_on_key.                                                        *)

\* What is appended when a line has been entered: the end of its row and what
\* the command printed, if anything.
Reply(out) == IF out = << >> THEN <<NL>> ELSE <<NL>> \o out \o <<NL>>
Replied(st, out) ==
  IF out = << >> THEN Appended(st, <<NL>>)
  ELSE Appended(Appended(Appended(st, <<NL>>), out), <<NL>>)

EnterCommand ==
  /\ entered < MaxEntered
  /\ \E prompt \in PromptTexts :
       LET line == CommandLine(SubSeq(buf, input_start + 1, Len(buf)))
       IN  \E answer \in Answers(line) :
             LET out == Captured(answer)
                 st  == Prompted(Replied([buf |-> buf, input_start |-> input_start],
                                         out), prompt)
             IN  /\ buf' = st.buf
                 /\ input_start' = st.input_start
                 /\ transcript' = transcript \o Reply(out) \o prompt
                 /\ ran' = [asked |-> line_typed, line |-> line]
  /\ scroll_offset' = 0
  /\ line_typed' = << >>
  /\ entered' = entered + 1

EraseLast ==
  /\ scroll_offset' = 0
  /\ IF Len(buf) > input_start
     THEN /\ buf' = SubSeq(buf, 1, Len(buf) - 1)
          /\ transcript' = SubSeq(transcript, 1, Len(transcript) - 1)
          /\ line_typed' = SubSeq(line_typed, 1, Len(line_typed) - 1)
     ELSE UNCHANGED <<buf, transcript, line_typed>>
  /\ UNCHANGED <<input_start, ran, entered>>

\* Whether a typed character still goes into the buffer.
HasRoom == Len(buf) < TERMINAL_BUF_MAX - 1

TypeChar(char) ==
  /\ scroll_offset' = 0
  /\ IF HasRoom
     THEN /\ buf' = Append(buf, char)
          /\ transcript' = Append(transcript, char)
          /\ line_typed' = Append(line_typed, char)
     ELSE UNCHANGED <<buf, transcript, line_typed>>
  /\ UNCHANGED <<input_start, ran, entered>>

\* Closing the window and opening another.
OpenAgain ==
  \E prompt \in PromptTexts :
    /\ buf' = Opened(prompt).buf /\ input_start' = Opened(prompt).input_start
    /\ scroll_offset' = 0
    /\ transcript' = Banner \o prompt
    /\ line_typed' = << >>
    /\ ran' = [asked |-> << >>, line |-> << >>]
    /\ entered' = 0

-----------------------------------------------------------------------------
(* The view.                                                               *)

\* The position behind the line that begins at position i: a newline, the
\* character that does not fit, or the end of the text.
LineEnd(text, i) ==
  LET ends == {j \in i .. MinOf(i + TermCols, Len(text)) :
                 text[j] = NL \/ j = i + TermCols}
  IN  IF ends = {} THEN Len(text) + 1
      ELSE CHOOSE j \in ends : \A k \in ends : j <= k

NextLine(text, i) ==
  LET end == LineEnd(text, i)
  IN  IF end <= Len(text) /\ text[end] = NL THEN end + 1 ELSE end

AllLines(text) ==
  LET from[i \in 1 .. Len(text) + 1] ==
        IF i > Len(text) THEN << >>
        ELSE <<SubSeq(text, i, LineEnd(text, i) - 1)>> \o from[NextLine(text, i)]
  IN  from[1]

\* wrap_text_lines
Lines == FirstOf(AllLines(buf), APP_TEXT_MAX_LINES)

\* terminal_layout
max_offset == MaxOf(0, Len(Lines) - TermRows)
thumb_h == IF max_offset = 0 THEN TrackHeight
           ELSE MaxOf(MinThumb, (TrackHeight * TermRows) \div Len(Lines))

\* Mutant: the thumb lies at the top when the view is at the newest line.
ThumbTop_Upside(off) ==
  IF max_offset = 0 THEN 0
  ELSE ((TrackHeight - thumb_h) * off) \div max_offset

\* thumb_y, from the top of the track.
ThumbTop(off) ==
  IF max_offset = 0 THEN 0
  ELSE ((TrackHeight - thumb_h) * (max_offset - off)) \div max_offset

\* draw_wrapped_text: the lines of the window.
Shown(off) == LET last == Len(Lines) - off
              IN  SubSeq(Lines, MaxOf(0, last - TermRows) + 1, last)

\* terminal_on_click, at a height of the scrollbar's track.
ClickTrack(y) ==
  /\ max_offset > 0
  /\ scroll_offset' =
       IF y < ThumbTop(scroll_offset)
         THEN MinOf(scroll_offset + TermRows - 1, max_offset)
       ELSE IF y >= ThumbTop(scroll_offset) + thumb_h
         THEN MaxOf(scroll_offset - (TermRows - 1), 0)
       ELSE scroll_offset
  /\ UNCHANGED <<buf, input_start, transcript, line_typed, ran, entered>>

TerminalNext ==
  \/ EnterCommand \/ EraseLast \/ OpenAgain
  \/ \E char \in Typable : TypeChar(char)
  \/ \E y \in 0 .. TrackHeight - 1 : ClickTrack(y)

TerminalSpec == TerminalInit /\ [][TerminalNext]_terminalVars

-----------------------------------------------------------------------------
(* Properties                                                              *)

\* The variables stay in their types: the buffer keeps room for a terminator.
TerminalTypeOK ==
  /\ buf \in Seq(Character) /\ Len(buf) < TERMINAL_BUF_MAX
  /\ input_start \in 0 .. Len(buf)
  /\ scroll_offset \in 0 .. max_offset
  /\ entered \in 0 .. MaxEntered

\* However often the scrollback has overflowed in the middle of an output, it is
\* the end of what was printed and typed, and all of it as long as that fits;
\* what stands behind the prompt is what was typed there, no more of it can be
\* erased, and what the shell was given is the line that was entered, as far as
\* it fits in the shell's buffer.
ScrollbackIsTail ==
  /\ buf = LastOf(transcript, TERMINAL_BUF_MAX - 1)
  /\ SubSeq(buf, input_start + 1, Len(buf)) = line_typed
  /\ ran.line = FirstOf(ran.asked, TERMINAL_LINE_MAX - 1)

\* While lines are hidden above or below the view there is a place on the
\* scrollbar's track that pages towards them; and of a text that is divided
\* into its lines completely the newest line is shown when the view is not
\* scrolled, the oldest when it is scrolled as far as it goes.
EveryLineInReach ==
  /\ scroll_offset < max_offset => ThumbTop(scroll_offset) > 0
  /\ scroll_offset > 0 => ThumbTop(scroll_offset) + thumb_h < TrackHeight
  /\ Lines = AllLines(buf) =>
       /\ Shown(0) = LastOf(AllLines(buf), TermRows)
       /\ Shown(max_offset) = FirstOf(AllLines(buf), TermRows)

\* What was printed and typed last is kept, and what is kept can be seen.
NothingOutOfReach == ScrollbackIsTail /\ EveryLineInReach

\* At an empty line a typed character is taken, however much the terminal has
\* printed (app.c:132-135: the scrollback is "a rolling window instead of just
\* refusing to append once full (which would make a long-running terminal go
\* silent)").
TypingIsHeard == line_typed = << >> => HasRoom
=============================================================================
