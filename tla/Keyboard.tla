----------------------------- MODULE Keyboard -----------------------------
(***************************************************************************)
(* The keyboard driver of keyboard.c: scan codes arrive a byte at a time,  *)
(* keyboard_handler turns them into characters with three flags and one    *)
(* buffered character, and the program takes that one in two statements.   *)
(*                                                                         *)
(* The keys are one of each sort the handler tells apart.  A key's byte is *)
(* named for its value; the keys of the newer keyboards send 0xE0 and then *)
(* the byte of an older one.                                               *)
(***************************************************************************)
EXTENDS Naturals, Sequences

CONSTANTS MaxWire,   \* bound: bytes the controller holds back
          MaxTyped   \* bound: keys pressed

ASSUME KeyboardAssumption == MaxWire \in Nat /\ MaxTyped \in Nat

VARIABLES
  down,       \* the keys that are held
  typed,      \* how many times a key has gone down
  wire,       \* the bytes on their way
  shift,      \* shift_pressed
  ctrl,       \* ctrl_pressed
  extended,   \* extended
  last,       \* last_char
  taken,      \* keyboard_getchar's c, between its two statements
  delivered   \* history: the presses whose characters the program has had

flags == <<shift, ctrl, extended>>
keyboardVars == <<down, typed, wire, shift, ctrl, extended, last, taken, delivered>>

Shifts == {"LShift", "RShift"}
Ctrls  == {"LCtrl", "RCtrl"}
Keys   == Shifts \cup Ctrls \cup {"C", "Up", "Keypad8"}

Newer == {"RCtrl", "Up"}
Code(key) == CASE key = "LShift"            -> "2A"
               [] key = "RShift"            -> "36"
               [] key \in Ctrls             -> "1D"
               [] key = "C"                 -> "2E"
               [] key \in {"Up", "Keypad8"} -> "48"

\* What a key makes the program see.
Chars == {"c", "C", "KEY_CTRL_C", "KEY_UP"}
None  == [char |-> "none"]

KeyboardInit ==
  /\ down = {}
  /\ typed = 0
  /\ wire = << >>
  /\ shift = FALSE /\ ctrl = FALSE /\ extended = FALSE
  /\ last = None
  /\ taken = None
  /\ delivered = << >>

-----------------------------------------------------------------------------
(* The keyboard and its user.                                              *)

\* A byte: its code, whether it is that of a release, and of which press.
KeyBytes(key, up) ==
  LET press == [key |-> key, held |-> down, number |-> typed']
      byte  == [code |-> Code(key), up |-> up, press |-> press]
  IN  IF key \in Newer THEN <<[byte EXCEPT !.code = "E0"], byte>> ELSE <<byte>>

\* A key that is held down is sent again and again.
Press(key) ==
  /\ typed < MaxTyped
  /\ Len(wire) <= MaxWire - 2
  /\ typed' = typed + 1
  /\ down' = down \cup {key}
  /\ wire' = wire \o KeyBytes(key, FALSE)
  /\ UNCHANGED <<flags, last, taken, delivered>>

Release(key) ==
  /\ key \in down
  /\ Len(wire) <= MaxWire - 2
  /\ down' = down \ {key}
  /\ UNCHANGED typed
  /\ wire' = wire \o KeyBytes(key, TRUE)
  /\ UNCHANGED <<flags, last, taken, delivered>>

-----------------------------------------------------------------------------
(* keyboard_handler: one byte.                                             *)

Prefix(byte) == byte.code = "E0"

\* Mutant: the release of the right shift key is forgotten.
ShiftAfter_OneKey(byte) ==
  IF byte.code = "2A" THEN ~byte.up
  ELSE IF byte.code = "36" /\ ~byte.up THEN TRUE ELSE shift

\* One flag for both shift keys, and below one for both control keys.
ShiftAfter(byte) == IF byte.code \in {"2A", "36"} THEN ~byte.up ELSE shift
CtrlAfter(byte)  == IF byte.code = "1D" THEN ~byte.up ELSE ctrl

Modifier(byte) == byte.code \in {"1D", "2A", "36"}

\* The branches for the modifiers return before "extended" is looked at.
ExtendedAfter(byte) ==
  CASE Prefix(byte)   -> TRUE
    [] Modifier(byte) -> extended
    [] OTHER          -> FALSE

\* What a byte may store: a character, or nothing.  0x48 lies outside the maps
\* of 58 characters, so without its prefix it stores any byte that lies there.
Decoded(byte) ==
  IF Prefix(byte) \/ Modifier(byte) \/ byte.up THEN {}
  ELSE IF extended THEN IF byte.code = "48" THEN {"KEY_UP"} ELSE {}
  ELSE IF byte.code = "48" THEN Chars
  ELSE IF ctrl THEN {"KEY_CTRL_C"}
  ELSE IF shift THEN {"C"} ELSE {"c"}

Store(byte, chars) ==
  \/ \E char \in chars : last' = [char |-> char, press |-> byte.press]
  \/ /\ chars = {} \/ chars = Chars
     /\ UNCHANGED last

keyboard_handler ==
  /\ wire # << >>
  /\ LET byte == Head(wire)
     IN  /\ shift' = ShiftAfter(byte)
         /\ ctrl' = CtrlAfter(byte)
         /\ extended' = ExtendedAfter(byte)
         /\ Store(byte, Decoded(byte))
  /\ wire' = Tail(wire)
  /\ UNCHANGED <<down, typed, taken, delivered>>

-----------------------------------------------------------------------------
(* keyboard_getchar: the read and the clear, with interrupts between them. *)

GetChar ==
  /\ taken = None
  /\ last # None
  /\ taken' = last
  /\ UNCHANGED <<down, typed, wire, flags, last, delivered>>

\* Mutant: the buffer keeps its character.
Cleared_Not == last

\* last_char after the second statement: a character that came in between is
\* lost.
Cleared == None

ClearChar ==
  /\ taken # None
  /\ last' = Cleared
  /\ delivered' = Append(delivered, taken.press.number)
  /\ taken' = None
  /\ UNCHANGED <<down, typed, wire, flags>>

KeyboardNext ==
  \/ \E key \in Keys : Press(key) \/ Release(key)
  \/ keyboard_handler
  \/ GetChar \/ ClearChar

KeyboardSpec == KeyboardInit /\ [][KeyboardNext]_keyboardVars

-----------------------------------------------------------------------------
(* Properties                                                              *)

KeyPress == [key : Keys, held : SUBSET Keys, number : 1 .. MaxTyped]
Stored == {None} \cup [char : Chars, press : KeyPress]

\* The variables stay in their types.
KeyboardTypeOK ==
  /\ down \subseteq Keys
  /\ typed \in 0 .. MaxTyped
  /\ wire \in Seq([code : {"E0", "1D", "2A", "2E", "36", "48"}, up : BOOLEAN,
                   press : [key : Keys, held : SUBSET Keys,
                            number : 0 .. MaxTyped]])
  /\ shift \in BOOLEAN /\ ctrl \in BOOLEAN /\ extended \in BOOLEAN
  /\ last \in Stored /\ taken \in Stored
  /\ delivered \in Seq(1 .. MaxTyped)

\* However late the bytes come, a buffered character is one the user typed:
\* a capital only if a shift key was held, a Ctrl-C only if a control key was,
\* when the key went down.  (A key outside the maps may give anything.)
StoredIsTyped ==
  last # None =>
    LET key == last.press.key  held == last.press.held
    IN  \/ key = "Keypad8"
        \/ key = "Up" /\ last.char = "KEY_UP"
        \/ key = "C" /\ \/ last.char = "c"
                        \/ last.char = "C" /\ held \cap Shifts # {}
                        \/ last.char = "KEY_CTRL_C" /\ held \cap Ctrls # {}

\* A character reaches the program at most once, and in the order typed.
KeysInOrderOnce ==
  \A i, j \in DOMAIN delivered : i < j => delivered[i] < delivered[j]

\* What keyboard_getchar gives is what was typed, once and in order.
KeysAsTyped == StoredIsTyped /\ KeysInOrderOnce
=============================================================================
