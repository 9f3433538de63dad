------------------------------- MODULE Cursor -------------------------------
(***************************************************************************)
(* The mouse pointer over the text shell: cursor.c draws it into the frame *)
(* buffer after saving what is there, vga.c draws text into the same frame *)
(* buffer and scrolls it, and main.c's loop alternates between the two.    *)
(*                                                                         *)
(* The frame buffer is divided into character cells.  The pointer's shape  *)
(* covers two cells of a row, of which it fills the first; the second one  *)
(* stands for the corner that it saves but leaves as it is.                *)
(***************************************************************************)
EXTENDS Integers, FiniteSets

CONSTANTS
  TextCols, TextRows,      \* cols, rows
  Glyphs, BlankCell            \* what a cell of text shows

\* vga_init sees to it that there is a row and a column at least.
ASSUME ScreenAssumption == TextCols \in Nat \ {0} /\ TextRows \in Nat \ {0}

VARIABLES
  fb,                      \* the frame buffer, cell by cell
  text,                    \* history: what text has drawn there
  cursor_x, cursor_y,      \* where the next character goes
  saved, saved_valid,
  last_pos                 \* last_x, last_y, or Nowhere

cursorVars == <<fb, text, cursor_x, cursor_y, saved, saved_valid, last_pos>>

Cell == (0 .. TextCols - 1) \X (0 .. TextRows - 1)
Sprite == "sprite"
Nowhere == <<-1000, -1000>>
Blanks == [c \in Cell |-> BlankCell]

\* After shell_init.
CursorInit ==
  /\ fb = Blanks /\ text = Blanks
  /\ cursor_x = 0 /\ cursor_y = 0
  /\ saved = <<BlankCell, BlankCell>> /\ saved_valid = FALSE
  /\ last_pos = Nowhere

-----------------------------------------------------------------------------
(* vga.c.                                                                  *)

Draw(cells, c, g) == [cells EXCEPT ![c] = g]

\* vga_scroll: the pointer's picture moves with the text.
Scrolled(cells) ==
  [c \in Cell |-> IF c[2] = TextRows - 1 THEN BlankCell ELSE cells[<<c[1], c[2] + 1>>]]

\* The end of vga_putchar, with the text cursor at x, y: a row that is full or
\* ended goes on in the next, the screen scrolls at its end.
Placed(x, y, cells, drawn) ==
  /\ cursor_x' = x
  /\ cursor_y' = IF y >= TextRows THEN TextRows - 1 ELSE y
  /\ fb' = IF y >= TextRows THEN Scrolled(cells) ELSE cells
  /\ text' = IF y >= TextRows THEN Scrolled(drawn) ELSE drawn
  /\ UNCHANGED last_pos

\* Mutant: text is drawn and the pointer is not told.
cursor_invalidate_Missing == saved_valid' = saved_valid /\ UNCHANGED saved

cursor_invalidate == saved_valid' = FALSE /\ UNCHANGED saved

PutGlyph(g) ==
  LET here == <<cursor_x, cursor_y>>
      full == cursor_x + 1 >= TextCols
  IN  /\ Placed(IF full THEN 0 ELSE cursor_x + 1,
                IF full THEN cursor_y + 1 ELSE cursor_y,
                Draw(fb, here, g), Draw(text, here, g))
      /\ cursor_invalidate

Newline == Placed(0, cursor_y + 1, fb, text) /\ cursor_invalidate

Backspace ==
  /\ LET here == <<cursor_x - 1, cursor_y>>
     IN  IF cursor_x > 0
         THEN Placed(cursor_x - 1, cursor_y, Draw(fb, here, BlankCell), Draw(text, here, BlankCell))
         ELSE Placed(cursor_x, cursor_y, fb, text)
  /\ cursor_invalidate

\* cmd_clear, down to the first character of the banner that it prints.
Clear ==
  \E g \in Glyphs :
    /\ Placed(1, 0, Draw(Blanks, <<0, 0>>, g), Draw(Blanks, <<0, 0>>, g))
    /\ cursor_invalidate

-----------------------------------------------------------------------------
(* cursor.c.                                                               *)

Second(pos) == <<pos[1] + 1, pos[2]>>
Pixel(cells, c) == IF c \in Cell THEN cells[c] ELSE BlankCell

Restored ==
  [c \in Cell |-> CASE c = last_pos -> saved[1]
                    [] c = Second(last_pos) -> saved[2]
                    [] OTHER -> fb[c]]

cursor_update(pos) ==
  /\ pos # last_pos
  /\ LET clean == IF saved_valid THEN Restored ELSE fb
     IN  /\ saved' = <<clean[pos], Pixel(clean, Second(pos))>>
         /\ fb' = Draw(clean, pos, Sprite)
  /\ saved_valid' = TRUE
  /\ last_pos' = pos
  /\ UNCHANGED <<text, cursor_x, cursor_y>>

CursorNext ==
  \/ \E g \in Glyphs : PutGlyph(g)
  \/ Newline \/ Backspace \/ Clear
  \/ \E pos \in Cell : cursor_update(pos)

CursorSpec == CursorInit /\ [][CursorNext]_cursorVars

-----------------------------------------------------------------------------
(* Properties                                                              *)

\* The variables stay in their types.
CursorTypeOK ==
  /\ fb \in [Cell -> Glyphs \cup {BlankCell, Sprite}]
  /\ text \in [Cell -> Glyphs \cup {BlankCell}]
  /\ <<cursor_x, cursor_y>> \in Cell
  /\ saved_valid \in BOOLEAN
  /\ last_pos \in Cell \cup {Nowhere}

\* Moving the pointer never brings back text that has been overwritten, scrolled
\* away or erased since it was saved, nor takes away text that is there: a cell
\* shows what text has drawn there last, or a picture of the pointer; and while
\* a snapshot is valid, it is of what the pointer hides.
NoStaleText ==
  /\ \A c \in Cell : fb[c] \in {text[c], Sprite}
  /\ saved_valid => saved[1] \in {text[last_pos], Sprite}
=============================================================================
