------------------------------- MODULE Mouse -------------------------------
(***************************************************************************)
(* The mouse driver of mouse.c: packets of three bytes arrive a byte at a  *)
(* time, bytes may be lost, and mouse_handler finds the start of a packet  *)
(* again by bit 3 of its first byte.  Interrupts without a byte of the     *)
(* mouse, which the handler answers by doing nothing, are left out.        *)
(***************************************************************************)
EXTENDS Integers, Sequences

CONSTANTS Width, Height,   \* screen_w and screen_h
          Steps,           \* how far a packet may move, in each direction
          MaxSent,         \* bound: packets sent
          MaxLost          \* bound: bytes lost

\* A movement has nine bits.
ASSUME MouseAssumption ==
  /\ Width \in Nat \ {0} /\ Height \in Nat \ {0}
  /\ Steps \subseteq -256 .. 255
  /\ MaxSent \in Nat /\ MaxLost \in Nat

VARIABLES
  stream,   \* the bytes on their way
  packet,   \* packet[], as far as packet_index
  pointer,  \* mouse_x, mouse_y and left_btn
  hand,     \* history: where the counted movements lead, and the button
  sent,     \* how many packets there have been
  lost,     \* how many bytes have been lost
  clean     \* history: the last packet is whole, and bit 3 tells its start

mouseVars == <<stream, packet, pointer, hand, sent, lost, clean>>

\* One of the flags of a packet's first byte, by its mask.
Bit(mask, byte) == (byte \div mask) % 2

\* Mutants: the end of the screen is a place; down is up.
Clamped_AtWidth(v, size) == IF v < 0 THEN 0 ELSE IF v > size THEN size ELSE v
Moved_Down(p, dx, dy) == [p EXCEPT !.x = @ + dx, !.y = @ + dy]

Clamped(v, size) == IF v < 0 THEN 0 ELSE IF v >= size THEN size - 1 ELSE v

\* mouse_x and mouse_y after a movement; the screen counts from its top.
Moved(p, dx, dy) == [p EXCEPT !.x = @ + dx, !.y = @ - dy]
OnScreen(p) == [p EXCEPT !.x = Clamped(@, Width), !.y = Clamped(@, Height)]

MouseInit ==
  /\ stream = << >>
  /\ packet = << >>
  /\ pointer = [x |-> Width \div 2, y |-> Height \div 2, left |-> 0]
  /\ hand = pointer
  /\ sent = 0
  /\ lost = 0
  /\ clean = TRUE

-----------------------------------------------------------------------------
(* The mouse and its user.                                                 *)

\* Bit 0 is the button, bit 3 is set, 4 and 5 are the signs of the movement
\* and 6 and 7 say that it was too fast to be counted.
PacketBytes(left, dx, dy, fast) ==
  << left + 8 + (IF dx < 0 THEN 16 ELSE 0) + (IF dy < 0 THEN 32 ELSE 0)
       + (IF fast THEN 192 ELSE 0),
     dx % 256, dy % 256 >>

\* A hand that moves up by dy leaves the pointer that much nearer to the top.
Distance(u, v) == IF u > v THEN u - v ELSE v - u
Nearest(v, size) ==
  CHOOSE w \in 0 .. size - 1 : \A u \in 0 .. size - 1 : Distance(w, v) <= Distance(u, v)
Reach(p, left, dx, dy) ==
  [x |-> Nearest(p.x + dx, Width), y |-> Nearest(p.y - dy, Height), left |-> left]

Send ==
  /\ sent < MaxSent
  /\ Len(stream) <= 3
  /\ \E left \in {0, 1}, dx, dy \in Steps, fast \in BOOLEAN :
       LET bytes == PacketBytes(left, dx, dy, fast)
       IN  /\ stream' = stream \o bytes
           /\ hand' = IF fast THEN [hand EXCEPT !.left = left]
                      ELSE Reach(hand, left, dx, dy)
           /\ clean' = (Bit(8, bytes[2]) = 0 /\ Bit(8, bytes[3]) = 0)
  /\ sent' = sent + 1
  /\ UNCHANGED <<packet, pointer, lost>>

Lose ==
  /\ stream # << >>
  /\ lost < MaxLost
  /\ stream' = Tail(stream)
  /\ lost' = lost + 1
  /\ clean' = (clean /\ Len(stream) > 3)
  /\ UNCHANGED <<packet, pointer, hand, sent>>

-----------------------------------------------------------------------------
(* mouse_handler: one byte.                                                *)

\* Mutant: any byte starts a packet.
OutOfSync_Never(byte) == FALSE

OutOfSync(byte) == packet = << >> /\ Bit(8, byte) = 0

\* Where a packet takes the pointer: the button first, then the movement.
Applied(at, p) ==
  LET pressed == [at EXCEPT !.left = Bit(1, p[1])]
      dx == p[2] - 256 * Bit(16, p[1])
      dy == p[3] - 256 * Bit(32, p[1])
  IN  IF Bit(64, p[1]) = 0 /\ Bit(128, p[1]) = 0
      THEN OnScreen(Moved(pressed, dx, dy)) ELSE pressed

mouse_handler ==
  /\ stream # << >>
  /\ stream' = Tail(stream)
  /\ LET byte == Head(stream)
     IN  IF OutOfSync(byte) THEN UNCHANGED <<packet, pointer>>
         ELSE IF Len(packet) < 2
         THEN packet' = Append(packet, byte) /\ UNCHANGED pointer
         ELSE packet' = << >> /\ pointer' = Applied(pointer, Append(packet, byte))
  /\ UNCHANGED <<hand, sent, lost, clean>>

MouseNext == Send \/ Lose \/ mouse_handler

MouseSpec == MouseInit /\ [][MouseNext]_mouseVars

-----------------------------------------------------------------------------
(* Properties                                                              *)

Place == [x : 0 .. Width - 1, y : 0 .. Height - 1, left : {0, 1}]

\* The variables stay in their types: whatever bytes are taken for a packet,
\* the pointer is on the screen and packet[] has room for the next byte.
MouseTypeOK ==
  /\ stream \in Seq(0 .. 255)
  /\ packet \in Seq(0 .. 255) /\ Len(packet) < 3
  /\ pointer \in Place /\ hand \in Place
  /\ sent \in 0 .. MaxSent /\ lost \in 0 .. MaxLost
  /\ clean \in BOOLEAN

\* While no byte is lost the pointer is where the hand has moved it.
PointerFollowsHand == lost = 0 /\ stream = << >> => pointer = hand

\* However many bytes were lost before, one whole packet in which only the
\* first byte has bit 3 ends with the driver waiting for the start of a packet
\* (mouse.c: "Out of sync packet, discard safely").
PointerResyncs == clean /\ stream = << >> => packet = << >>

\* The pointer goes with the hand, and after a loss packets are found again.
PointerTracks == PointerFollowsHand /\ PointerResyncs
=============================================================================
