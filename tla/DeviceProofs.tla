---------------------------- MODULE DeviceProofs ----------------------------
(***************************************************************************)
(* Proofs about the parts that meet the user: Clock, for days, hours and   *)
(* minutes of any length, Mouse, for a screen of any size, Keyboard, for   *)
(* any number of keys and of bytes held back, Cursor, for a screen of any  *)
(* size, Files, for every number of rows, whatever the directories hold    *)
(* and however the terminal changes them, Console, for buffers, a history  *)
(* and a screen of any size, whatever is typed, and Terminal, for buffers  *)
(* and a window of any size, whatever is typed and printed.                *)
(***************************************************************************)
EXTENDS Clock, Mouse, Keyboard, Cursor, Files, Console, Terminal,
        SequenceTheorems, WellFoundedInduction, TLAPS

-----------------------------------------------------------------------------
(***************************************************************************)
(* A copy that is half done is not a time, so the invariant speaks of the  *)
(* fields that are copied already: read as a number from the left, they    *)
(* are not after the clock's.                                              *)
(***************************************************************************)
Leading(n, t, u) ==
  /\ n >= 1 => t.h <= u.h
  /\ n >= 2 => t.h < u.h \/ t.m <= u.m
  /\ n >= 3 => t.h < u.h \/ t.m < u.m \/ t.s <= u.s

CopiedFields == IF call[1] = "got" THEN 3 ELSE call[2] - 1

CopyInv == call[1] \in {"get", "got"} /\ ~midnight => Leading(CopiedFields, copy, time)

ClockInv == ClockTypeOK /\ CopyInv

LEMMA ClockInitInv == ClockInit => ClockInv
<1> SUFFICES ASSUME ClockInit PROVE ClockInv
  OBVIOUS
<1>1. [h |-> 0, m |-> 0, s |-> 0] \in Times
  BY DayAssumption DEF Times
<1>2. ClockTypeOK
  <2>1. call \in {"none", "got"} \X {0}
    BY DEF ClockInit
  <2>2. 0 \in 0 .. Ticks - 1
    BY DayAssumption
  <2>3. QED
    BY <1>1, <2>1, <2>2 DEF ClockInit, ClockTypeOK
<1>3. QED
  BY <1>2 DEF ClockInit, ClockInv, CopyInv

\* A second takes the clock forward, or past midnight.
LEMMA AdvancedLater ==
  ASSUME time \in Times
  PROVE  /\ Advanced \in Times
         /\ Advanced.h < time.h \/ (NotAfter(time, Advanced))
<1>1. /\ time.h \in 0 .. Hours - 1 /\ time.m \in 0 .. Minutes - 1
      /\ time.s \in 0 .. Seconds - 1
  BY DEF Times
<1> DEFINE s == time.s + 1
           m == IF s >= Seconds THEN time.m + 1 ELSE time.m
           h == IF m >= Minutes THEN time.h + 1 ELSE time.h
           h1 == IF h >= Hours THEN 0 ELSE h
           m1 == IF m >= Minutes THEN 0 ELSE m
           s1 == IF s >= Seconds THEN 0 ELSE s
<1>2. Advanced = [h |-> h1, m |-> m1, s |-> s1]
  BY DEF Advanced
<1>3. h1 \in 0 .. Hours - 1 /\ m1 \in 0 .. Minutes - 1 /\ s1 \in 0 .. Seconds - 1
  BY <1>1, DayAssumption
<1>4. \/ h1 < time.h
      \/ time.h < h1
      \/ time.h = h1 /\ time.m < m1
      \/ time.h = h1 /\ time.m = m1 /\ time.s <= s1
  BY <1>1, DayAssumption
<1> HIDE DEF s, m, h, h1, m1, s1
<1>5. QED
  BY <1>2, <1>3, <1>4 DEF Times, NotAfter

\* What is not after a time is not after a later one.
LEMMA LeadingLater ==
  ASSUME NEW n \in 0 .. 3, NEW t \in Times, NEW u \in Times, NEW v \in Times,
         Leading(n, t, u), NotAfter(u, v)
  PROVE  Leading(n, t, v)
<1>1. /\ t.h \in Nat /\ t.m \in Nat /\ t.s \in Nat
      /\ u.h \in Nat /\ u.m \in Nat /\ u.s \in Nat
      /\ v.h \in Nat /\ v.m \in Nat /\ v.s \in Nat
  BY DayAssumption DEF Times
<1>2. QED
  BY <1>1 DEF Leading, NotAfter

LEMMA TickInv == ASSUME ClockInv, clock_tick PROVE ClockInv'
<1>1. CASE ticks + 1 < Ticks
  BY <1>1, DayAssumption DEF clock_tick, ClockInv, ClockTypeOK, CopyInv, CopiedFields
<1>2. CASE ~(ticks + 1 < Ticks)
  <2>1. /\ ticks' = 0 /\ time' = Advanced /\ UNCHANGED <<call, copy>>
        /\ midnight' = (midnight \/ Advanced.h < time.h)
    BY <1>2 DEF clock_tick
  <2>2. time \in Times /\ copy \in Times /\ midnight \in BOOLEAN
    BY DEF ClockInv, ClockTypeOK
  <2>3. Advanced \in Times /\ (Advanced.h < time.h \/ NotAfter(time, Advanced))
    BY <2>2, AdvancedLater
  <2>4. ClockTypeOK'
    BY <2>1, <2>2, <2>3, DayAssumption DEF ClockInv, ClockTypeOK
  <2>5. CopyInv'
    <3> SUFFICES ASSUME call[1] \in {"get", "got"}, ~midnight'
                 PROVE  Leading(CopiedFields, copy, Advanced)
      BY <2>1 DEF CopyInv, CopiedFields
    <3>1. ~midnight /\ NotAfter(time, Advanced)
      BY <2>1, <2>3
    <3>2. Leading(CopiedFields, copy, time)
      BY <3>1 DEF ClockInv, CopyInv
    <3>3. CopiedFields \in 0 .. 3
      BY DEF ClockInv, ClockTypeOK, CopiedFields
    <3>4. QED
      BY <2>2, <2>3, <3>1, <3>2, <3>3, LeadingLater
  <2>6. QED
    BY <2>4, <2>5 DEF ClockInv
<1>3. QED
  BY <1>1, <1>2

LEMMA GetInv ==
  ASSUME ClockInv, NEW i \in 1 .. 3, clock_get(i) PROVE ClockInv'
<1>1. /\ time \in Times /\ copy \in Times /\ call = <<"get", i>>
      /\ UNCHANGED <<time, ticks, midnight>>
      /\ copy' = [copy EXCEPT ![Field(i)] = time[Field(i)]]
      /\ call' = IF i = 3 THEN <<"got", 0>> ELSE <<"get", i + 1>>
  BY DEF ClockInv, ClockTypeOK, clock_get
<1>2. /\ time.h \in 0 .. Hours - 1 /\ time.m \in 0 .. Minutes - 1
      /\ time.s \in 0 .. Seconds - 1
      /\ copy.h \in 0 .. Hours - 1 /\ copy.m \in 0 .. Minutes - 1
      /\ copy.s \in 0 .. Seconds - 1
  BY <1>1 DEF Times
<1>3. /\ copy' \in Times
      /\ copy'.h = IF i = 1 THEN time.h ELSE copy.h
      /\ copy'.m = IF i = 2 THEN time.m ELSE copy.m
      /\ copy'.s = IF i = 3 THEN time.s ELSE copy.s
  <2>1. CASE i = 1
    <3>1. copy' = [copy EXCEPT !["h"] = time["h"]]
      BY <1>1, <2>1 DEF Field
    <3>2. QED
      BY <1>1, <2>1, <3>1 DEF Times
  <2>2. CASE i = 2
    <3>1. copy' = [copy EXCEPT !["m"] = time["m"]]
      BY <1>1, <2>2 DEF Field
    <3>2. QED
      BY <1>1, <2>2, <3>1 DEF Times
  <2>3. CASE i = 3
    <3>1. copy' = [copy EXCEPT !["s"] = time["s"]]
      BY <1>1, <2>3 DEF Field
    <3>2. QED
      BY <1>1, <2>3, <3>1 DEF Times
  <2>4. QED
    BY <2>1, <2>2, <2>3
<1>4. ClockTypeOK'
  <2>1. call' \in {<<"got", 0>>} \cup ({"get"} \X (1 .. 3))
    BY <1>1
  <2>2. QED
    BY <1>1, <1>3, <2>1 DEF ClockInv, ClockTypeOK
<1>5. CopyInv'
  <2> SUFFICES ASSUME ~midnight PROVE Leading(i, copy', time)
    BY <1>1 DEF CopyInv, CopiedFields
  <2>1. Leading(i - 1, copy, time)
    BY <1>1 DEF ClockInv, CopyInv, CopiedFields
  <2>2. QED
    BY <1>2, <1>3, <2>1, i \in {1, 2, 3}, DayAssumption DEF Leading
<1>6. QED
  BY <1>4, <1>5 DEF ClockInv

LEMMA SetInv ==
  ASSUME ClockInv, NEW i \in 1 .. 3, clock_set(i) PROVE ClockInv'
<1>1. /\ time \in Times /\ copy \in Times /\ call = <<"set", i>>
      /\ UNCHANGED <<ticks, copy, midnight>>
      /\ time' = [time EXCEPT ![Field(i)] = copy[Field(i)]]
      /\ call' = IF i = 3 THEN <<"none", 0>> ELSE <<"set", i + 1>>
  BY DEF ClockInv, ClockTypeOK, clock_set
<1>2. time' \in Times
  BY <1>1 DEF Field, Times
<1>3. ClockTypeOK'
  BY <1>1, <1>2 DEF ClockInv, ClockTypeOK
<1>4. CopyInv'
  BY <1>1 DEF CopyInv
<1>5. QED
  BY <1>3, <1>4 DEF ClockInv

LEMMA ClockCallInv == ASSUME ClockInv, Call PROVE ClockInv'
<1>1. /\ call' \in {"get", "set"} \X {1} /\ midnight' = FALSE
      /\ copy' \in Times /\ UNCHANGED <<time, ticks>>
  BY DEF Call, ClockInv, ClockTypeOK
<1>0. call' \in {"get", "set"} \X (1 .. 3)
  <2>1. PICK c \in {"get", "set"} : call' = <<c, 1>>
    BY <1>1
  <2>2. QED
    BY <2>1
<1>2. ClockTypeOK'
  BY <1>0, <1>1 DEF ClockInv, ClockTypeOK
<1>3. CopyInv'
  BY <1>1 DEF CopyInv, CopiedFields, Leading
<1>4. QED
  BY <1>2, <1>3 DEF ClockInv

THEOREM ClockInvariance == ClockSpec => []ClockInv
<1>1. ClockInit => ClockInv
  BY ClockInitInv
<1>2. ClockInv /\ [ClockNext]_clockVars => ClockInv'
  <2> SUFFICES ASSUME ClockInv, [ClockNext]_clockVars PROVE ClockInv'
    OBVIOUS
  <2>1. CASE UNCHANGED clockVars
    BY <2>1 DEF clockVars, ClockInv, ClockTypeOK, CopyInv, CopiedFields
  <2>2. QED
    BY <2>1, TickInv, ClockCallInv, GetInv, SetInv DEF ClockNext
<1>3. QED
  BY <1>1, <1>2, PTL DEF ClockSpec

\* A time that clock_get returns is never still to come (clock.c's clock_get
\* against clock_tick), however long a day, an hour and a minute are and
\* wherever the interrupts fall; across midnight it may be the day before's.
THEOREM NoTimeFromTheFuture == ClockSpec => []TimeNeverAhead
<1>1. ASSUME ClockInv PROVE TimeNeverAhead
  <2> SUFFICES ASSUME call[1] = "got", ~midnight PROVE NotAfter(copy, time)
    BY DEF TimeNeverAhead
  <2>1. Leading(3, copy, time)
    BY <1>1 DEF ClockInv, CopyInv, CopiedFields
  <2>2. /\ copy.h \in Nat /\ copy.m \in Nat /\ copy.s \in Nat
        /\ time.h \in Nat /\ time.m \in Nat /\ time.s \in Nat
    BY <1>1, DayAssumption DEF ClockInv, ClockTypeOK, Times
  <2>3. QED
    BY <2>1, <2>2 DEF Leading, NotAfter
<1>2. QED
  BY <1>1, ClockInvariance, PTL

-----------------------------------------------------------------------------
(* Mouse, for a screen of any size and any movements of nine bits.         *)

LEMMA ClampedIsNearest ==
  ASSUME NEW v \in Int, NEW size \in Nat \ {0}
  PROVE  Nearest(v, size) = Clamped(v, size) /\ Clamped(v, size) \in 0 .. size - 1
<1> DEFINE c == Clamped(v, size)
<1>1. c \in 0 .. size - 1
  BY DEF Clamped
<1>2. \A u \in 0 .. size - 1 : Distance(c, v) <= Distance(u, v)
  BY DEF Clamped, Distance
<1>3. ASSUME NEW w \in 0 .. size - 1, \A u \in 0 .. size - 1 : Distance(w, v) <= Distance(u, v)
      PROVE  w = c
  <2>1. Distance(w, v) <= Distance(c, v)
    BY <1>1, <1>3
  <2>2. QED
    BY <2>1 DEF Clamped, Distance
<1> HIDE DEF c
<1>4. Nearest(v, size) = c
  BY <1>1, <1>2, <1>3 DEF Nearest
<1>5. QED
  BY <1>1, <1>4 DEF c

\* The flags of a packet's first byte are those it was made of.
LEMMA FirstByte ==
  ASSUME NEW left \in {0, 1}, NEW dx \in Int, NEW dy \in Int, NEW fast \in BOOLEAN
  PROVE  LET b == PacketBytes(left, dx, dy, fast)[1]
         IN  /\ b \in 0 .. 255
             /\ Bit(1, b) = left /\ Bit(8, b) = 1
             /\ Bit(16, b) = (IF dx < 0 THEN 1 ELSE 0)
             /\ Bit(32, b) = (IF dy < 0 THEN 1 ELSE 0)
             /\ Bit(64, b) = (IF fast THEN 1 ELSE 0)
             /\ Bit(128, b) = (IF fast THEN 1 ELSE 0)
<1> DEFINE b == PacketBytes(left, dx, dy, fast)[1]
<1>1. b = left + 8 + (IF dx < 0 THEN 16 ELSE 0) + (IF dy < 0 THEN 32 ELSE 0)
            + (IF fast THEN 192 ELSE 0)
  BY DEF PacketBytes
<1>2. b \in {8, 9, 24, 25, 40, 41, 56, 57, 200, 201, 216, 217, 232, 233, 248, 249}
  BY <1>1
<1> HIDE DEF b
<1>3. b \in 0 .. 255
  BY <1>2
<1>4. Bit(1, b) = left
  BY <1>1 DEF Bit
<1>5. Bit(8, b) = 1
  BY <1>1 DEF Bit
<1>6. Bit(16, b) = IF dx < 0 THEN 1 ELSE 0
  BY <1>1 DEF Bit
<1>7. Bit(32, b) = IF dy < 0 THEN 1 ELSE 0
  BY <1>1 DEF Bit
<1>8. Bit(64, b) = IF fast THEN 1 ELSE 0
  BY <1>1 DEF Bit
<1>9. Bit(128, b) = IF fast THEN 1 ELSE 0
  BY <1>1 DEF Bit
<1>10. QED
  BY <1>3, <1>4, <1>5, <1>6, <1>7, <1>8, <1>9 DEF b

Packets == {PacketBytes(left, dx, dy, fast) :
              left \in {0, 1}, dx \in Steps, dy \in Steps, fast \in BOOLEAN}

Moves(at, left, dx, dy, fast) ==
  IF fast THEN [at EXCEPT !.left = left] ELSE Reach(at, left, dx, dy)

\* The same without EXCEPT.
LEMMA AppliedIs ==
  ASSUME NEW at \in Place, NEW p
  PROVE  Applied(at, p) =
           IF Bit(64, p[1]) = 0 /\ Bit(128, p[1]) = 0
             THEN [x |-> Clamped(at.x + (p[2] - 256 * Bit(16, p[1])), Width),
                   y |-> Clamped(at.y - (p[3] - 256 * Bit(32, p[1])), Height),
                   left |-> Bit(1, p[1])]
             ELSE [x |-> at.x, y |-> at.y, left |-> Bit(1, p[1])]
<1> DEFINE l == Bit(1, p[1])
           dx == p[2] - 256 * Bit(16, p[1])
           dy == p[3] - 256 * Bit(32, p[1])
           pressed == [at EXCEPT !.left = l]
           move == [pressed EXCEPT !.x = @ + dx, !.y = @ - dy]
<1>1. Applied(at, p) = IF Bit(64, p[1]) = 0 /\ Bit(128, p[1]) = 0
                         THEN OnScreen(move) ELSE pressed
  BY DEF Applied, Moved
<1> HIDE DEF l, dx, dy
<1>2. pressed = [x |-> at.x, y |-> at.y, left |-> l]
  BY DEF Place
<1> HIDE DEF pressed
<1>3. move = [x |-> at.x + dx, y |-> at.y - dy, left |-> l]
  <2>1. pressed.x = at.x /\ pressed.y = at.y /\ pressed.left = l
    BY <1>2
  <2> DEFINE X == at.x + dx
             Y == at.y - dy
  <2>2. move = [pressed EXCEPT !.x = X, !.y = Y]
    BY <2>1
  <2> HIDE DEF X, Y, move
  <2>3. move = [x |-> X, y |-> Y, left |-> l]
    BY <1>2, <2>2
  <2>4. QED
    BY <2>3 DEF X, Y, move
<1> HIDE DEF move
<1>4. OnScreen(move) = [x |-> Clamped(at.x + dx, Width), y |-> Clamped(at.y - dy, Height),
                        left |-> l]
  <2>1. OnScreen(move) = [move EXCEPT !.x = Clamped(@, Width), !.y = Clamped(@, Height)]
    BY DEF OnScreen
  <2>2. QED
    BY <1>3, <2>1
<1>5. QED
  BY <1>1, <1>2, <1>4 DEF l, dx, dy

\* A byte pattern that is taken for a packet leaves the pointer on the screen.
LEMMA AppliedOnScreen ==
  ASSUME NEW at \in Place, NEW p, p[1] \in 0 .. 255, p[2] \in 0 .. 255, p[3] \in 0 .. 255
  PROVE  Applied(at, p) \in Place
<1>1. \A n \in {1, 16, 32} : Bit(n, p[1]) \in {0, 1}
  BY DEF Bit
<1> DEFINE x == at.x + (p[2] - 256 * Bit(16, p[1]))
           y == at.y - (p[3] - 256 * Bit(32, p[1]))
<1>2. x \in Int /\ y \in Int
  BY <1>1 DEF Place
<1>3. Clamped(x, Width) \in 0 .. Width - 1 /\ Clamped(y, Height) \in 0 .. Height - 1
  BY <1>2, ClampedIsNearest, MouseAssumption
<1>4. Applied(at, p) \in {[x |-> at.x, y |-> at.y, left |-> Bit(1, p[1])],
                          [x |-> Clamped(x, Width), y |-> Clamped(y, Height),
                           left |-> Bit(1, p[1])]}
  BY AppliedIs
<1> HIDE DEF x, y
<1>5. QED
  BY <1>1, <1>3, <1>4 DEF Place

\* The driver reads out of a packet the movement that was put into it.
LEMMA AppliedIsReached ==
  ASSUME NEW at \in Place, NEW left \in {0, 1}, NEW dx \in Steps, NEW dy \in Steps,
         NEW fast \in BOOLEAN
  PROVE  Applied(at, PacketBytes(left, dx, dy, fast)) = Moves(at, left, dx, dy, fast)
<1> DEFINE p == PacketBytes(left, dx, dy, fast)
<1>1. dx \in -256 .. 255 /\ dy \in -256 .. 255
  BY MouseAssumption
<1>2. /\ Bit(1, p[1]) = left
      /\ Bit(16, p[1]) = (IF dx < 0 THEN 1 ELSE 0)
      /\ Bit(32, p[1]) = (IF dy < 0 THEN 1 ELSE 0)
      /\ Bit(64, p[1]) = (IF fast THEN 1 ELSE 0)
      /\ Bit(128, p[1]) = (IF fast THEN 1 ELSE 0)
  BY <1>1, FirstByte
<1>3. p[2] = dx % 256 /\ p[3] = dy % 256
  BY DEF PacketBytes
<1> HIDE DEF p
<1>4. p[2] - 256 * Bit(16, p[1]) = dx
  BY <1>1, <1>2, <1>3
<1>5. p[3] - 256 * Bit(32, p[1]) = dy
  BY <1>1, <1>2, <1>3
<1>6. CASE fast
  <2>1. Applied(at, p) = [x |-> at.x, y |-> at.y, left |-> left]
    BY <1>2, <1>6, AppliedIs
  <2>2. [at EXCEPT !.left = left] = [x |-> at.x, y |-> at.y, left |-> left]
    BY DEF Place
  <2>3. QED
    BY <1>6, <2>1, <2>2 DEF Moves, p
<1>7. CASE ~fast
  <2>1. at.x + dx \in Int /\ at.y - dy \in Int
    BY <1>1 DEF Place
  <2>2. /\ Nearest(at.x + dx, Width) = Clamped(at.x + dx, Width)
        /\ Nearest(at.y - dy, Height) = Clamped(at.y - dy, Height)
    BY <2>1, ClampedIsNearest, MouseAssumption
  <2>3. Moves(at, left, dx, dy, fast) =
          [x |-> Clamped(at.x + dx, Width), y |-> Clamped(at.y - dy, Height), left |-> left]
    BY <1>7, <2>2 DEF Moves, Reach
  <2>4. Applied(at, p) =
          [x |-> Clamped(at.x + dx, Width), y |-> Clamped(at.y - dy, Height), left |-> left]
    BY <1>2, <1>4, <1>5, <1>7, AppliedIs
  <2>5. QED
    BY <2>3, <2>4 DEF p
<1>8. QED
  BY <1>6, <1>7

LEMMA PacketFacts ==
  ASSUME NEW p \in Packets
  PROVE  /\ p \in Seq(0 .. 255) /\ Len(p) = 3
         /\ p[1] \in 0 .. 255 /\ p[2] \in 0 .. 255 /\ p[3] \in 0 .. 255
         /\ Bit(8, p[1]) = 1
<1>1. PICK left \in {0, 1}, dx \in Steps, dy \in Steps, fast \in BOOLEAN :
        p = PacketBytes(left, dx, dy, fast)
  BY DEF Packets
<1>2. dx \in Int /\ dy \in Int
  BY MouseAssumption
<1>3. p[1] \in 0 .. 255 /\ Bit(8, p[1]) = 1
  BY <1>1, <1>2, FirstByte
<1> DEFINE a == p[1]
           b == dx % 256
           c == dy % 256
<1>4. p = <<a, b, c>>
  BY <1>1 DEF PacketBytes
<1>5. a \in 0 .. 255 /\ b \in 0 .. 255 /\ c \in 0 .. 255
  BY <1>2, <1>3
<1> HIDE DEF a, b, c
<1>6. p \in Seq(0 .. 255) /\ Len(p) = 3
  BY <1>4, <1>5
<1>7. p[2] \in 0 .. 255 /\ p[3] \in 0 .. 255
  BY <1>4, <1>5
<1>8. QED
  BY <1>3, <1>6, <1>7

-----------------------------------------------------------------------------
(***************************************************************************)
(* While nothing is lost, the bytes that packet[] and the wire hold        *)
(* together are none, one or two whole packets, and the hand is where      *)
(* these will have taken the pointer.                                      *)
(***************************************************************************)
Pending == packet \o stream

TrackInv ==
  lost = 0 =>
    \/ Pending = << >> /\ hand = pointer
    \/ \E p \in Packets : Pending = p /\ hand = Applied(pointer, p)
    \/ \E p, q \in Packets :
         Pending = p \o q /\ hand = Applied(Applied(pointer, p), q)

(***************************************************************************)
(* However packet[] was filled when the last packet began to arrive, its   *)
(* second and third byte are no starts, so that with the third one either  *)
(* a packet ends or there was none.                                        *)
(***************************************************************************)
ResyncInv ==
  clean =>
    /\ \A i \in 1 .. Len(stream) : i >= Len(stream) - 1 => Bit(8, stream[i]) = 0
    /\ Len(stream) = 1 => Len(packet) # 1
    /\ Len(stream) = 0 => packet = << >>

MouseInv == MouseTypeOK /\ TrackInv /\ ResyncInv

LEMMA PacketsApplied ==
  ASSUME NEW at \in Place, NEW p \in Packets PROVE Applied(at, p) \in Place
BY PacketFacts, AppliedOnScreen

LEMMA SendInv ==
  ASSUME MouseInv, Send PROVE MouseInv'
<1>1. PICK left \in {0, 1}, dx \in Steps, dy \in Steps, fast \in BOOLEAN :
        LET bytes == PacketBytes(left, dx, dy, fast)
        IN  /\ stream' = stream \o bytes
            /\ hand' = IF fast THEN [hand EXCEPT !.left = left]
                       ELSE Reach(hand, left, dx, dy)
            /\ clean' = (Bit(8, bytes[2]) = 0 /\ Bit(8, bytes[3]) = 0)
  BY DEF Send
<1> DEFINE q == PacketBytes(left, dx, dy, fast)
<1>2. q \in Packets
  BY DEF Packets
<1>3. /\ packet' = packet /\ pointer' = pointer /\ lost' = lost
      /\ sent < MaxSent /\ sent' = sent + 1 /\ Len(stream) <= 3
  BY DEF Send
<1>4. MouseTypeOK
  BY DEF MouseInv
<1>5. hand' = Applied(hand, q)
  BY <1>1, <1>4, AppliedIsReached DEF MouseTypeOK, Moves
<1>6. stream' = stream \o q /\ clean' = (Bit(8, q[2]) = 0 /\ Bit(8, q[3]) = 0)
  BY <1>1
<1> HIDE DEF q
<1>7. q \in Seq(0 .. 255) /\ Len(q) = 3
  BY <1>2, PacketFacts
<1>8. /\ stream \in Seq(0 .. 255) /\ packet \in Seq(0 .. 255) /\ Len(packet) < 3
      /\ pointer \in Place /\ hand \in Place
      /\ sent \in 0 .. MaxSent /\ lost \in 0 .. MaxLost
  BY <1>4 DEF MouseTypeOK
<1>9. /\ stream' \in Seq(0 .. 255) /\ Len(stream') = Len(stream) + 3
      /\ \A i \in 1 .. Len(stream') :
           stream'[i] = IF i <= Len(stream) THEN stream[i] ELSE q[i - Len(stream)]
  <2> DEFINE s == stream \o q
  <2>1. /\ s \in Seq(0 .. 255) /\ Len(s) = Len(stream) + Len(q)
        /\ \A i \in 1 .. Len(stream) + Len(q) :
             s[i] = IF i <= Len(stream) THEN stream[i] ELSE q[i - Len(stream)]
    BY <1>7, <1>8, ConcatProperties
  <2> HIDE DEF s
  <2>2. stream' = s
    BY <1>6 DEF s
  <2>3. QED
    BY <1>7, <2>1, <2>2
<1>10. MouseTypeOK'
  <2>1. hand' \in Place
    BY <1>2, <1>5, <1>8, PacketsApplied
  <2>2. clean' \in BOOLEAN
    BY <1>6
  <2>3. sent' \in 0 .. MaxSent
    BY <1>3, <1>8, MouseAssumption
  <2>4. QED
    BY <1>3, <1>8, <1>9, <2>1, <2>2, <2>3 DEF MouseTypeOK
<1>11. TrackInv'
  <2>1. SUFFICES ASSUME lost = 0
                 PROVE  \/ Pending' = q /\ hand' = Applied(pointer', q)
                        \/ \E p \in Packets : /\ Pending' = p \o q
                                             /\ hand' = Applied(Applied(pointer', p), q)
    BY <1>2, <1>3 DEF TrackInv
  <2>2. Pending' = Pending \o q
    <3>1. packet \o (stream \o q) = (packet \o stream) \o q
      <4>1. packet \in Seq(0 .. 255) /\ stream \in Seq(0 .. 255) /\ q \in Seq(0 .. 255)
        BY <1>7, <1>8
      <4>2. QED
        BY <4>1, ConcatAssociative
    <3>2. QED
      BY <1>3, <1>6, <3>1 DEF Pending
  <2>3. Pending \in Seq(0 .. 255) /\ Len(Pending) = Len(packet) + Len(stream)
    BY <1>8, ConcatProperties DEF Pending
  <2>4. TrackInv
    BY DEF MouseInv
  <2>5. CASE Pending = << >> /\ hand = pointer
    <3>1. << >> \o q = q
      BY <1>7, ConcatEmptySeq
    <3>2. QED
      BY <1>3, <1>5, <2>2, <2>5, <3>1
  <2>6. CASE \E p \in Packets : Pending = p /\ hand = Applied(pointer, p)
    BY <1>3, <1>5, <2>2, <2>6
  <2>7. CASE \E p, r \in Packets : Pending = p \o r
    <3>1. PICK p \in Packets, r \in Packets : Pending = p \o r
      BY <2>7
    <3>2. Len(p) = 3 /\ p \in Seq(0 .. 255) /\ Len(r) = 3 /\ r \in Seq(0 .. 255)
      BY PacketFacts
    <3>3. Len(Pending) = 6
      <4>1. Len(p \o r) = Len(p) + Len(r)
        BY <3>2, ConcatProperties
      <4>2. QED
        BY <3>1, <3>2, <4>1
    <3>4. Len(packet) \in Nat /\ Len(stream) \in Nat
      BY <1>8
    <3>5. Len(packet) < 3 /\ Len(stream) <= 3
      BY <1>3, <1>8
    <3>6. Len(packet) + Len(stream) = 6
      BY <2>3, <3>3
    <3>7. FALSE
      BY <3>4, <3>5, <3>6
    <3>8. QED
      BY <3>7
  <2>8. QED
    BY <2>1, <2>4, <2>5, <2>6, <2>7 DEF TrackInv
<1>12. ResyncInv'
  <2>1. SUFFICES ASSUME clean'
                 PROVE  \A i \in 1 .. Len(stream') :
                          i >= Len(stream') - 1 => Bit(8, stream'[i]) = 0
    BY <1>8, <1>9 DEF ResyncInv
  <2>2. ASSUME NEW i \in 1 .. Len(stream'), i >= Len(stream') - 1
        PROVE  Bit(8, stream'[i]) = 0
    <3>1. Len(stream) \in Nat
      BY <1>8
    <3>2. stream'[i] = q[i - Len(stream)] /\ i - Len(stream) \in {2, 3}
      BY <1>9, <2>2, <3>1
    <3>3. QED
      BY <1>6, <2>1, <3>2
  <2>3. QED
    BY <2>2
<1>13. QED
  BY <1>10, <1>11, <1>12 DEF MouseInv

LEMMA LoseInv ==
  ASSUME MouseInv, Lose PROVE MouseInv'
<1>1. /\ stream # << >> /\ lost < MaxLost /\ stream' = Tail(stream) /\ lost' = lost + 1
      /\ clean' = (clean /\ Len(stream) > 3)
      /\ packet' = packet /\ pointer' = pointer /\ hand' = hand /\ sent' = sent
  BY DEF Lose
<1>2. MouseTypeOK
  BY DEF MouseInv
<1>3. /\ stream' \in Seq(0 .. 255) /\ Len(stream') = Len(stream) - 1
      /\ \A i \in 1 .. Len(stream') : stream'[i] = stream[i+1]
      /\ Len(stream) \in Nat
  BY <1>1, <1>2 DEF MouseTypeOK
<1>4. MouseTypeOK'
  <2>1. lost' \in 0 .. MaxLost /\ clean' \in BOOLEAN
    BY <1>1, <1>2, MouseAssumption DEF MouseTypeOK
  <2>2. QED
    BY <1>1, <1>2, <1>3, <2>1 DEF MouseTypeOK
<1>5. TrackInv'
  BY <1>1, <1>2 DEF TrackInv, MouseTypeOK
<1>6. ResyncInv'
  <2>1. SUFFICES ASSUME clean'
                 PROVE  \A i \in 1 .. Len(stream') :
                          i >= Len(stream') - 1 => Bit(8, stream'[i]) = 0
    <3>1. clean' => Len(stream) > 3
      BY <1>1, Zenon
    <3>2. Len(stream) > 3 => Len(stream') # 0 /\ Len(stream') # 1
      BY <1>3
    <3>3. QED
      BY <3>1, <3>2 DEF ResyncInv
  <2>2. ASSUME NEW i \in 1 .. Len(stream'), i >= Len(stream') - 1
        PROVE  Bit(8, stream'[i]) = 0
    <3>1. i + 1 \in 1 .. Len(stream) /\ i + 1 >= Len(stream) - 1
      BY <1>3, <2>2
    <3>2. clean
      BY <1>1, <2>1, Zenon
    <3>3. Bit(8, stream[i+1]) = 0
      BY <3>1, <3>2 DEF MouseInv, ResyncInv
    <3>4. QED
      BY <1>3, <3>3
  <2>3. QED
    BY <2>2
<1>7. QED
  BY <1>4, <1>5, <1>6 DEF MouseInv

\* A byte moves from the wire to the packet,
LEMMA AppendHead ==
  ASSUME NEW S, NEW s \in Seq(S), NEW t \in Seq(S), t # << >>
  PROVE  /\ Append(s, Head(t)) \in Seq(S) /\ Len(Append(s, Head(t))) = Len(s) + 1
         /\ Append(s, Head(t)) \o Tail(t) = s \o t
<1> DEFINE a == Append(s, Head(t))
           u == Tail(t)
<1>1. /\ Len(s) \in Nat /\ Len(t) \in Nat /\ Len(t) > 0
      /\ a \in Seq(S) /\ Len(a) = Len(s) + 1
      /\ \A i \in 1 .. Len(s) : a[i] = s[i]
      /\ a[Len(s) + 1] = t[1]
  BY DEF a
<1>2. u \in Seq(S) /\ Len(u) = Len(t) - 1 /\ \A i \in 1 .. Len(u) : u[i] = t[i+1]
  BY DEF u
<1> HIDE DEF a, u
<1> DEFINE l == a \o u
           r == s \o t
<1>3. /\ l \in Seq(S) /\ Len(l) = Len(a) + Len(u)
      /\ \A i \in 1 .. Len(a) + Len(u) : l[i] = IF i <= Len(a) THEN a[i] ELSE u[i - Len(a)]
  BY <1>1, <1>2, ConcatProperties
<1>4. /\ r \in Seq(S) /\ Len(r) = Len(s) + Len(t)
      /\ \A i \in 1 .. Len(s) + Len(t) : r[i] = IF i <= Len(s) THEN s[i] ELSE t[i - Len(s)]
  BY ConcatProperties
<1> HIDE DEF l, r
<1>5. Len(l) = Len(r)
  BY <1>1, <1>2, <1>3, <1>4
<1>6. ASSUME NEW i \in 1 .. Len(l) PROVE l[i] = r[i]
  <2>1. i \in Nat /\ i >= 1 /\ i <= Len(s) + Len(t)
    BY <1>1, <1>4, <1>5, <1>6
  <2>2. CASE i <= Len(s)
    <3>1. i \in 1 .. Len(s) /\ i \in 1 .. Len(a) + Len(u) /\ i <= Len(a)
          /\ i \in 1 .. Len(s) + Len(t)
      BY <1>1, <1>2, <2>1, <2>2
    <3>2. l[i] = a[i] /\ a[i] = s[i] /\ r[i] = s[i]
      BY <1>1, <1>3, <1>4, <2>2, <3>1
    <3>3. QED
      BY <3>2
  <2>3. CASE i = Len(s) + 1
    <3>1. /\ i \in 1 .. Len(a) + Len(u) /\ i <= Len(a)
          /\ i \in 1 .. Len(s) + Len(t) /\ ~(i <= Len(s)) /\ i - Len(s) = 1
      BY <1>1, <1>2, <2>1, <2>3
    <3>2. l[i] = a[i] /\ a[i] = t[1] /\ r[i] = t[1]
      BY <1>1, <1>3, <1>4, <2>3, <3>1
    <3>3. QED
      BY <3>2
  <2>4. CASE i > Len(s) + 1
    <3>1. l[i] = u[i - Len(a)] /\ i - Len(a) \in 1 .. Len(u)
      <4>1. /\ i - Len(a) \in 1 .. Len(u) /\ i \in 1 .. Len(a) + Len(u) /\ ~(i <= Len(a))
        BY <1>1, <1>2, <2>1, <2>4
      <4>2. QED
        BY <1>3, <4>1
    <3>2. r[i] = t[i - Len(s)]
      BY <1>1, <1>4, <2>1, <2>4
    <3>3. u[i - Len(a)] = t[i - Len(a) + 1] /\ i - Len(a) + 1 = i - Len(s)
      BY <1>1, <1>2, <2>1, <3>1
    <3>4. QED
      BY <3>1, <3>2, <3>3
  <2>5. QED
    BY <1>1, <2>1, <2>2, <2>3, <2>4
<1>7. l = r
  BY <1>3, <1>4, <1>5, <1>6, SeqEqual
<1>8. QED
  BY <1>1, <1>7 DEF a, u, l, r

\* and what is as long as a packet is the first packet.
LEMMA SamePrefix ==
  ASSUME NEW S, NEW s \in Seq(S), NEW t \in Seq(S), NEW u \in Seq(S), NEW v \in Seq(S),
         s \o t = u \o v, Len(s) = Len(u)
  PROVE  s = u /\ t = v
<1> DEFINE l == s \o t
           r == u \o v
<1>1. /\ Len(l) = Len(s) + Len(t)
      /\ \A i \in 1 .. Len(s) + Len(t) : l[i] = IF i <= Len(s) THEN s[i] ELSE t[i - Len(s)]
  BY ConcatProperties
<1>2. /\ Len(r) = Len(u) + Len(v)
      /\ \A i \in 1 .. Len(u) + Len(v) : r[i] = IF i <= Len(u) THEN u[i] ELSE v[i - Len(u)]
  BY ConcatProperties
<1>3. l = r
  OBVIOUS
<1>4. Len(s) \in Nat /\ Len(t) \in Nat /\ Len(u) \in Nat /\ Len(v) \in Nat
  OBVIOUS
<1> HIDE DEF l, r
<1>5. Len(t) = Len(v)
  BY <1>1, <1>2, <1>3, <1>4
<1>6. ASSUME NEW i \in 1 .. Len(s) PROVE s[i] = u[i]
  <2>1. i \in 1 .. Len(s) + Len(t) /\ i <= Len(s)
    BY <1>4
  <2>2. l[i] = s[i] /\ r[i] = u[i]
    BY <1>1, <1>2, <1>5, <2>1
  <2>3. QED
    BY <1>3, <2>2
<1>7. ASSUME NEW i \in 1 .. Len(t) PROVE t[i] = v[i]
  <2> DEFINE j == Len(s) + i
  <2>1. j \in 1 .. Len(s) + Len(t) /\ ~(j <= Len(s)) /\ j - Len(s) = i
    BY <1>4
  <2> HIDE DEF j
  <2>2. l[j] = t[i] /\ r[j] = v[i]
    BY <1>1, <1>2, <1>5, <2>1
  <2>3. QED
    BY <1>3, <2>2
<1>8. QED
  BY <1>5, <1>6, <1>7, SeqEqual

LEMMA ByteInv ==
  ASSUME MouseInv, mouse_handler PROVE MouseInv'
<1> DEFINE byte == Head(stream)
           whole == Append(packet, byte)
<1>1. /\ stream # << >> /\ stream' = Tail(stream)
      /\ hand' = hand /\ sent' = sent /\ lost' = lost /\ clean' = clean
  BY DEF mouse_handler
<1>2. \/ OutOfSync(byte) /\ packet' = packet /\ pointer' = pointer
      \/ ~OutOfSync(byte) /\ Len(packet) < 2 /\ packet' = whole /\ pointer' = pointer
      \/ /\ ~OutOfSync(byte) /\ ~(Len(packet) < 2)
         /\ packet' = << >> /\ pointer' = Applied(pointer, whole)
  BY DEF mouse_handler
<1>3. /\ stream \in Seq(0 .. 255) /\ packet \in Seq(0 .. 255) /\ Len(packet) < 3
      /\ pointer \in Place /\ hand \in Place /\ MouseTypeOK /\ TrackInv /\ ResyncInv
  BY DEF MouseInv, MouseTypeOK
<1>4. /\ Len(stream) \in Nat /\ Len(stream) > 0 /\ Len(packet) \in Nat
      /\ stream' \in Seq(0 .. 255) /\ Len(stream') = Len(stream) - 1
      /\ \A i \in 1 .. Len(stream') : stream'[i] = stream[i+1]
      /\ byte = stream[1]
  BY <1>1, <1>3
<1>5. whole \in Seq(0 .. 255) /\ Len(whole) = Len(packet) + 1 /\ whole \o stream' = Pending
  BY <1>1, <1>3, AppendHead DEF Pending
<1> HIDE DEF byte, whole
<1>6. MouseTypeOK'
  <2>1. packet' \in Seq(0 .. 255) /\ Len(packet') < 3
    <3>1. << >> \in Seq(0 .. 255) /\ Len(<< >>) = 0
      BY EmptySeq
    <3>2. Len(packet) < 2 => Len(whole) < 3
      BY <1>4, <1>5
    <3>3. CASE packet' = packet
      BY <1>3, <3>3
    <3>4. CASE packet' = << >>
      BY <3>1, <3>4
    <3>5. CASE packet' = whole /\ Len(packet) < 2
      BY <1>5, <3>2, <3>5
    <3>6. QED
      BY <1>2, <3>3, <3>4, <3>5
  <2>2. pointer' \in Place
    <3>1. CASE pointer' = pointer
      BY <1>3, <3>1
    <3>2. CASE ~(Len(packet) < 2) /\ pointer' = Applied(pointer, whole)
      <4>1. 1 \in 1 .. Len(whole) /\ 2 \in 1 .. Len(whole) /\ 3 \in 1 .. Len(whole)
        BY <1>4, <1>5, <3>2
      <4>2. whole[1] \in 0 .. 255 /\ whole[2] \in 0 .. 255 /\ whole[3] \in 0 .. 255
        BY <1>5, <4>1, ElementOfSeq
      <4>3. QED
        BY <1>3, <3>2, <4>2, AppliedOnScreen
    <3>3. QED
      BY <1>2, <3>1, <3>2
  <2>3. QED
    BY <1>1, <1>3, <1>4, <2>1, <2>2 DEF MouseTypeOK
<1>7. TrackInv'
  <2>1. SUFFICES ASSUME lost = 0 PROVE TrackInv'
    BY <1>1 DEF TrackInv
  <2>2. Pending \in Seq(0 .. 255) /\ Len(Pending) = Len(packet) + Len(stream)
    BY <1>3, ConcatProperties DEF Pending
  <2>3. Pending # << >>
    BY <1>4, <2>2
  <2>4. CASE OutOfSync(byte)
    <3>1. Pending = stream
      BY <1>3, <2>4, ConcatEmptySeq DEF OutOfSync, Pending
    <3>2. ASSUME NEW p \in Packets, NEW r \in Seq(0 .. 255), Pending = p \o r PROVE FALSE
      <4>1. p \in Seq(0 .. 255) /\ Len(p) = 3 /\ Bit(8, p[1]) = 1
        BY PacketFacts
      <4>2. (p \o r)[1] = p[1]
        <5>1. 1 \in 1 .. Len(p) + Len(r) /\ 1 <= Len(p)
          BY <4>1
        <5>2. QED
          BY <4>1, <5>1, ConcatProperties
      <4>3. QED
        BY <1>4, <2>4, <3>1, <3>2, <4>1, <4>2 DEF OutOfSync
    <3>3. ASSUME NEW p \in Packets PROVE p \in Seq(0 .. 255) /\ p = p \o << >>
      BY PacketFacts, ConcatEmptySeq
    <3>4. << >> \in Seq(0 .. 255)
      OBVIOUS
    <3>5. \A p \in Packets : Pending # p
      BY <3>2, <3>3, <3>4
    <3>6. \A p, q \in Packets : Pending # p \o q
      BY <3>2, <3>3
    <3>7. QED
      BY <1>3, <2>1, <2>3, <3>5, <3>6 DEF TrackInv
  <2>5. CASE ~OutOfSync(byte) /\ Len(packet) < 2
    <3>1. Pending' = Pending /\ pointer' = pointer
      BY <1>2, <1>5, <2>5 DEF Pending
    <3>2. QED
      BY <1>1, <1>3, <3>1 DEF TrackInv
  <2>6. CASE ~OutOfSync(byte) /\ ~(Len(packet) < 2)
    <3>1. Len(whole) = 3 /\ pointer' = Applied(pointer, whole) /\ packet' = << >>
      BY <1>2, <1>3, <1>4, <1>5, <2>6
    <3>2. Pending' = stream'
      BY <1>4, <3>1, ConcatEmptySeq DEF Pending
    <3>3. CASE \E p \in Packets : Pending = p /\ hand = Applied(pointer, p)
      <4>1. PICK p \in Packets : Pending = p /\ hand = Applied(pointer, p)
        BY <3>3
      <4>2. p \in Seq(0 .. 255) /\ Len(p) = 3 /\ p = p \o << >> /\ << >> \in Seq(0 .. 255)
        BY PacketFacts, ConcatEmptySeq
      <4>3. whole \o stream' = p \o << >>
        BY <1>5, <4>1, <4>2
      <4>4. whole = p /\ stream' = << >>
        <5>1. Len(whole) = Len(p)
          BY <3>1, <4>2
        <5>2. whole \in Seq(0 .. 255) /\ stream' \in Seq(0 .. 255)
          BY <1>4, <1>5
        <5>3. PICK rest : rest = stream'
          OBVIOUS
        <5>4. rest \in Seq(0 .. 255) /\ whole \o rest = p \o << >> /\ << >> \in Seq(0 .. 255)
          BY <4>2, <4>3, <5>2, <5>3
        <5>5. whole = p /\ rest = << >>
          BY <4>2, <5>1, <5>2, <5>4, SamePrefix, ZenonT(60)
        <5>6. QED
          BY <5>3, <5>5
      <4>5. QED
        BY <1>1, <3>1, <3>2, <4>1, <4>4 DEF TrackInv
    <3>4. CASE \E p, q \in Packets :
                 Pending = p \o q /\ hand = Applied(Applied(pointer, p), q)
      <4>1. PICK p \in Packets, q \in Packets :
                   Pending = p \o q /\ hand = Applied(Applied(pointer, p), q)
        BY <3>4
      <4>2. /\ p \in Seq(0 .. 255) /\ Len(p) = 3
            /\ q \in Seq(0 .. 255) /\ Len(q) = 3
        BY PacketFacts
      <4>3. whole \o stream' = p \o q
        BY <1>5, <4>1
      <4>4. whole = p /\ stream' = q
        <5>1. Len(whole) = Len(p)
          BY <3>1, <4>2
        <5>2. whole \in Seq(0 .. 255) /\ stream' \in Seq(0 .. 255)
          BY <1>4, <1>5
        <5>3. PICK rest : rest = stream'
          OBVIOUS
        <5>4. rest \in Seq(0 .. 255) /\ whole \o rest = p \o q /\ q \in Seq(0 .. 255)
          BY <4>2, <4>3, <5>2, <5>3
        <5>5. whole = p /\ rest = q
          BY <4>2, <5>1, <5>2, <5>4, SamePrefix, ZenonT(60)
        <5>6. QED
          BY <5>3, <5>5
      <4>5. hand' = Applied(pointer', q) /\ Pending' = q
        BY <1>1, <3>1, <3>2, <4>1, <4>4
      <4>6. QED
        BY <4>5 DEF TrackInv
    <3>5. QED
      BY <1>3, <2>1, <2>3, <3>3, <3>4 DEF TrackInv
  <2>7. QED
    BY <2>4, <2>5, <2>6
<1>8. ResyncInv'
  <2>1. SUFFICES ASSUME clean PROVE ResyncInv'
    BY <1>1 DEF ResyncInv
  <2>2. /\ \A i \in 1 .. Len(stream) : i >= Len(stream) - 1 => Bit(8, stream[i]) = 0
        /\ Len(stream) = 1 => Len(packet) # 1
    BY <1>3, <2>1 DEF ResyncInv
  <2>3. ASSUME NEW i \in 1 .. Len(stream'), i >= Len(stream') - 1
        PROVE  Bit(8, stream'[i]) = 0
    <3>1. i + 1 \in 1 .. Len(stream) /\ i + 1 >= Len(stream) - 1
      BY <1>4, <2>3
    <3>2. Bit(8, stream[i+1]) = 0
      BY <2>2, <3>1
    <3>3. QED
      BY <1>4, <3>2
  <2>4. Len(stream) \in {1, 2} => Bit(8, byte) = 0
    <3>1. Len(stream) \in {1, 2} => 1 \in 1 .. Len(stream) /\ 1 >= Len(stream) - 1
      BY <1>4
    <3>2. QED
      BY <1>4, <2>2, <3>1
  <2>5. packet = << >> <=> Len(packet) = 0
    BY <1>3
  <2>6. packet' = << >> => Len(packet') = 0
    OBVIOUS
  <2>7. Len(stream') = 1 => Len(packet') # 1
    <3>1. Len(stream') = 1 => Bit(8, byte) = 0
      <4>1. \A m \in Nat, n \in Int : n = m - 1 /\ n = 1 => m = 2
        OBVIOUS
      <4>2. Len(stream') = 1 => Len(stream) = 2
        <5> DEFINE m == Len(stream)
                   n == Len(stream')
        <5>1. m \in Nat /\ n = m - 1 /\ n \in Int
          BY <1>4
        <5> HIDE DEF m, n
        <5>2. n = 1 => m = 2
          BY <4>1, <5>1
        <5>3. QED
          BY <5>2 DEF m, n
      <4>3. QED
        BY <2>4, <4>2
    <3>2. ASSUME Bit(8, byte) = 0 PROVE Len(packet') # 1
      <4>1. CASE packet = << >>
        BY <1>2, <2>5, <3>2, <4>1 DEF OutOfSync
      <4>2. CASE packet # << >>
        <5>1. ~OutOfSync(byte) /\ Len(packet) # 0
          BY <2>5, <4>2 DEF OutOfSync
        <5>2. packet' = whole \/ packet' = << >>
          BY <1>2, <5>1
        <5>3. Len(whole) # 1
          BY <1>4, <1>5, <5>1
        <5>4. QED
          BY <2>6, <5>2, <5>3
      <4>3. QED
        BY <4>1, <4>2
    <3>3. QED
      BY <3>1, <3>2
  <2>8. Len(stream') = 0 => packet' = << >>
    BY <1>2, <1>3, <1>4, <1>5, <2>2, <2>4, <2>5, <2>6 DEF OutOfSync
  <2>9. QED
    BY <2>3, <2>7, <2>8 DEF ResyncInv
<1>9. QED
  BY <1>6, <1>7, <1>8 DEF MouseInv

THEOREM MouseInvariance == MouseSpec => []MouseInv
<1>1. MouseInit => MouseInv
  <2>1. SUFFICES ASSUME MouseInit PROVE MouseInv
    OBVIOUS
  <2>2. Width \div 2 \in 0 .. Width - 1 /\ Height \div 2 \in 0 .. Height - 1
    BY MouseAssumption
  <2>3. MouseTypeOK
    BY <2>1, <2>2, MouseAssumption DEF MouseInit, MouseTypeOK, Place
  <2>4. stream = << >> /\ packet = << >> /\ hand = pointer
    BY <2>1 DEF MouseInit
  <2>5. Pending = << >>
    <3>1. << >> \in Seq(0 .. 255)
      OBVIOUS
    <3>2. QED
      BY <2>4, <3>1, ConcatEmptySeq DEF Pending
  <2>6. QED
    BY <2>3, <2>4, <2>5 DEF MouseInv, TrackInv, ResyncInv
<1>2. MouseInv /\ [MouseNext]_mouseVars => MouseInv'
  <2>1. SUFFICES ASSUME MouseInv, [MouseNext]_mouseVars PROVE MouseInv'
    OBVIOUS
  <2>2. CASE MouseNext
    BY <2>1, <2>2, SendInv, LoseInv, ByteInv DEF MouseNext
  <2>3. CASE UNCHANGED mouseVars
    BY <2>1, <2>3 DEF mouseVars, MouseInv, MouseTypeOK, TrackInv, ResyncInv, Pending
  <2>4. QED
    BY <2>1, <2>2, <2>3
<1>3. QED
  BY <1>1, <1>2, PTL DEF MouseSpec

(***************************************************************************)
(* While no byte is lost the pointer is where the hand has moved it, on a  *)
(* screen of any size; and however many were lost before, the end of a     *)
(* whole packet in which only the first byte has bit 3 finds mouse_handler *)
(* waiting for the start of the next one.                                  *)
(***************************************************************************)
THEOREM PointerStaysOnTrack == MouseSpec => []PointerTracks
<1>1. MouseInv => PointerTracks
  <2>1. SUFFICES ASSUME MouseInv PROVE PointerTracks
    OBVIOUS
  <2>2. stream \in Seq(0 .. 255) /\ packet \in Seq(0 .. 255) /\ Len(packet) < 3
    BY <2>1 DEF MouseInv, MouseTypeOK
  <2>3. ASSUME lost = 0, stream = << >> PROVE pointer = hand
    <3>1. Pending = packet
      BY <2>2, <2>3, ConcatEmptySeq DEF Pending
    <3>2. ASSUME NEW p \in Packets PROVE Pending # p
      <4>1. Len(p) = 3
        BY PacketFacts
      <4>2. Len(packet) # 3
        <5>1. Len(packet) \in Nat /\ Len(packet) < 3
          BY <2>2
        <5>2. QED
          BY <5>1
      <4>3. QED
        BY <3>1, <4>1, <4>2
    <3>3. ASSUME NEW p \in Packets, NEW q \in Packets PROVE Pending # p \o q
      <4>1. /\ p \in Seq(0 .. 255) /\ Len(p) = 3
            /\ q \in Seq(0 .. 255) /\ Len(q) = 3
        BY PacketFacts
      <4>2. Len(p \o q) = Len(p) + Len(q)
        BY <4>1, ConcatProperties
      <4>3. QED
        BY <2>2, <3>1, <4>1, <4>2
    <3>4. QED
      BY <2>1, <2>3, <3>2, <3>3 DEF MouseInv, TrackInv
  <2>4. ASSUME clean, stream = << >> PROVE packet = << >>
    BY <2>1, <2>4 DEF MouseInv, ResyncInv
  <2>5. QED
    BY <2>3, <2>4 DEF PointerTracks, PointerFollowsHand, PointerResyncs
<1>2. QED
  BY <1>1, MouseInvariance, PTL

-----------------------------------------------------------------------------
(***************************************************************************)
(* Keyboard.  The bytes on their way are a part of the past that the       *)
(* driver does not know of yet.  The invariant says what its flags will be *)
(* when each of them is its turn: if the last byte of a shift key before   *)
(* it is that of a press, or there is none and the flag is set, then a     *)
(* shift key was held when its key went down.                              *)
(***************************************************************************)
KeyByte == [code : {"E0", "1D", "2A", "2E", "36", "48"}, up : BOOLEAN,
            press : [key : Keys, held : SUBSET Keys, number : 0 .. MaxTyped]]

\* The keys that were held when the key of byte i of w went down, or are held now.
Held(w, now, i) == IF i <= Len(w) THEN w[i].press.held ELSE now

NoneOf(w, codes, i, j) == \A k \in i .. j : w[k].code \notin codes

AfterPress(w, now, codes, keys) ==
  \A i \in 1 .. Len(w) + 1 : \A k \in 1 .. i - 1 :
    w[k].code \in codes /\ ~w[k].up /\ NoneOf(w, codes, k + 1, i - 1)
      => Held(w, now, i) \cap keys # {}

FromNow(w, now, codes, keys) ==
  \A i \in 1 .. Len(w) + 1 : NoneOf(w, codes, 1, i - 1) => Held(w, now, i) \cap keys # {}

ShiftCodes == {"2A", "36"}
CtrlCodes  == {"1D"}

FlagsInv ==
  /\ AfterPress(wire, down, ShiftCodes, Shifts)
  /\ shift => FromNow(wire, down, ShiftCodes, Shifts)
  /\ AfterPress(wire, down, CtrlCodes, Ctrls)
  /\ ctrl => FromNow(wire, down, CtrlCodes, Ctrls)

\* The codes are those of the keys, and the arrow's comes after its prefix.
CodesInv ==
  \A i \in 1 .. Len(wire) :
    LET byte == wire[i]
    IN  /\ byte.code \in {"E0", Code(byte.press.key)}
        /\ byte.code # "E0" /\ byte.press.key = "Up" =>
             IF i = 1 THEN extended ELSE wire[i-1].code = "E0"

\* A byte that may store a character.
Storing(byte) == ~byte.up /\ byte.code \in {"2E", "48"}

NumbersInv ==
  /\ \A i \in 1 .. Len(wire) : Storing(wire[i]) =>
       LET n == wire[i].press.number
       IN  /\ n \in 1 .. typed
           /\ \A j \in 1 .. i - 1 : Storing(wire[j]) => wire[j].press.number < n
           /\ last # None => last.press.number < n
           /\ taken # None => taken.press.number < n
           /\ \A j \in DOMAIN delivered : delivered[j] < n
  /\ last # None =>
       /\ last.press.number <= typed
       /\ \A j \in DOMAIN delivered : delivered[j] < last.press.number
  /\ taken # None =>
       /\ taken.press.number <= typed
       /\ \A j \in DOMAIN delivered : delivered[j] < taken.press.number
  /\ \A j \in DOMAIN delivered : delivered[j] <= typed

KeyboardInv == KeyboardTypeOK /\ FlagsInv /\ CodesInv /\ NumbersInv /\ KeysAsTyped

\* What a key that goes down or up puts behind the other bytes.
NewByte(key, is_up) ==
  [code |-> Code(key), up |-> is_up, press |-> [key |-> key, held |-> down, number |-> typed']]

Added(key, is_up) == IF key \in Newer THEN 2 ELSE 1

Sent(key, is_up) ==
  /\ wire' \in Seq(KeyByte) /\ NewByte(key, is_up) \in KeyByte
  /\ Len(wire) \in Nat /\ Len(wire') = Len(wire) + Added(key, is_up)
  /\ \A i \in 1 .. Len(wire) : wire'[i] = wire[i]
  /\ wire'[Len(wire')] = NewByte(key, is_up)
  /\ Len(wire') = Len(wire) + 2 =>
       wire'[Len(wire) + 1] = [NewByte(key, is_up) EXCEPT !.code = "E0"]

LEMMA CodeIs ==
  ASSUME NEW key \in Keys
  PROVE  /\ Code(key) \in {"1D", "2A", "2E", "36", "48"}
         /\ Code(key) \in ShiftCodes <=> key \in Shifts
         /\ Code(key) \in CtrlCodes <=> key \in Ctrls
         /\ Code(key) = "2E" <=> key = "C"
         /\ Code(key) = "48" <=> key \in {"Up", "Keypad8"}
BY DEF Code, Keys, Shifts, Ctrls, ShiftCodes, CtrlCodes

LEMMA WireGrows ==
  ASSUME NEW key \in Keys, NEW is_up \in BOOLEAN, KeyboardTypeOK, typed' \in 0 .. MaxTyped,
         wire' = wire \o KeyBytes(key, is_up)
  PROVE  Sent(key, is_up)
<1> DEFINE b == NewByte(key, is_up)
           e == [b EXCEPT !.code = "E0"]
           added == KeyBytes(key, is_up)
<1>1. b \in KeyByte
  <2>1. down \in SUBSET Keys
    BY DEF KeyboardTypeOK
  <2> DEFINE p == [key |-> key, held |-> down, number |-> typed']
  <2>2. p \in [key : Keys, held : SUBSET Keys, number : 0 .. MaxTyped]
    BY <2>1
  <2>3. b = [code |-> Code(key), up |-> is_up, press |-> p]
    BY DEF NewByte
  <2>4. Code(key) \in {"E0", "1D", "2A", "2E", "36", "48"}
    BY CodeIs
  <2> HIDE DEF p, b
  <2>5. QED
    BY <2>2, <2>3, <2>4 DEF KeyByte
<1>2. e \in KeyByte
  BY <1>1 DEF KeyByte
<1>3. added = IF key \in Newer THEN <<e, b>> ELSE <<b>>
  BY DEF KeyBytes, NewByte
<1>4. wire \in Seq(KeyByte)
  BY DEF KeyboardTypeOK, KeyByte
<1> HIDE DEF b, e, added
<1>5. added \in Seq(KeyByte) /\ Len(added) = Added(key, is_up)
  BY <1>1, <1>2, <1>3 DEF Added
<1>6. /\ wire' \in Seq(KeyByte) /\ Len(wire') = Len(wire) + Len(added)
      /\ \A i \in 1 .. Len(wire) + Len(added) :
           wire'[i] = IF i <= Len(wire) THEN wire[i] ELSE added[i - Len(wire)]
  <2>1. wire' = wire \o added
    BY DEF added
  <2> DEFINE w == wire \o added
  <2>2. /\ w \in Seq(KeyByte) /\ Len(w) = Len(wire) + Len(added)
        /\ \A i \in 1 .. Len(wire) + Len(added) :
             w[i] = IF i <= Len(wire) THEN wire[i] ELSE added[i - Len(wire)]
    BY <1>4, <1>5, ConcatProperties
  <2> HIDE DEF w
  <2>3. wire' = w
    BY <2>1 DEF w
  <2>4. QED
    BY <2>2, <2>3
<1>7. Len(wire) \in Nat
  BY <1>4
<1>8. wire'[Len(wire')] = b
  BY <1>3, <1>5, <1>6, <1>7 DEF Added
<1>9. Len(wire') = Len(wire) + 2 => wire'[Len(wire) + 1] = e
  <2>1. ASSUME Len(wire') = Len(wire) + 2 PROVE wire'[Len(wire) + 1] = e
    <3>1. Len(added) = 2 /\ key \in Newer
      BY <1>5, <1>6, <1>7, <2>1 DEF Added
    <3>2. added[1] = e
      BY <1>3, <3>1
    <3>3. /\ Len(wire) + 1 \in 1 .. Len(wire) + Len(added)
          /\ ~(Len(wire) + 1 <= Len(wire)) /\ (Len(wire) + 1) - Len(wire) = 1
      BY <1>7, <3>1
    <3>4. QED
      BY <1>6, <3>2, <3>3
  <2>2. QED
    BY <2>1
<1>10. QED
  BY <1>1, <1>5, <1>6, <1>7, <1>8, <1>9 DEF b, e, Sent

\* v is w with one or two bytes more: those of a key that is up or down then.
WithKey(w, v, now, then, codes, keys, key) ==
  /\ Len(w) \in Nat /\ Len(v) \in {Len(w) + 1, Len(w) + 2}
  /\ \A i \in 1 .. Len(w) : v[i] = w[i]
  /\ \A i \in Len(w) + 1 .. Len(v) : v[i].press.held = now
  /\ Len(v) = Len(w) + 2 => v[Len(w) + 1].code \notin codes
  /\ v[Len(v)].code \in codes <=> key \in keys
  /\ then = IF v[Len(v)].up THEN now \ {key} ELSE now \cup {key}

LEMMA FlagsSent ==
  ASSUME NEW w, NEW v, NEW now, NEW then, NEW codes, NEW keys, NEW key,
         WithKey(w, v, now, then, codes, keys, key)
  PROVE  /\ AfterPress(w, now, codes, keys) => AfterPress(v, then, codes, keys)
         /\ FromNow(w, now, codes, keys) => FromNow(v, then, codes, keys)
<1> DEFINE n == Len(w)
           m == Len(v)
<1>1. n \in Nat /\ m \in {n + 1, n + 2} /\ \A i \in 1 .. n : v[i] = w[i]
  BY DEF WithKey
<1>2. /\ \A i \in n + 1 .. m : v[i].press.held = now
      /\ m = n + 2 => v[n + 1].code \notin codes
  BY DEF WithKey
<1>3. /\ \A i \in 1 .. n + 1 : Held(v, then, i) = Held(w, now, i)
      /\ Held(w, now, n + 1) = now /\ Held(v, then, m) = now /\ Held(v, then, m + 1) = then
  BY <1>1, <1>2 DEF Held
<1>4. v[m].code \notin codes => then \cap keys = now \cap keys
  BY DEF WithKey
<1>5. v[m].code \in codes /\ ~v[m].up => then \cap keys # {}
  BY DEF WithKey
<1> HIDE DEF n, m
\* A position behind w counts as the first one there.
<1>6. ASSUME NEW k \in Nat, k >= 1, NEW i \in 1 .. m + 1, k <= i,
             NoneOf(v, codes, k, i - 1),
             \A j \in 1 .. n + 1 : k <= j /\ NoneOf(w, codes, k, j - 1) => Held(w, now, j) \cap keys # {},
             k <= n + 1
      PROVE  Held(v, then, i) \cap keys # {}
  <2>1. CASE i <= n + 1
    <3>1. i \in 1 .. n + 1
      BY <1>1, <2>1
    <3>2. NoneOf(w, codes, k, i - 1)
      BY <1>1, <1>6, <3>1 DEF NoneOf
    <3>3. QED
      BY <1>3, <1>6, <3>1, <3>2
  <2>2. CASE i > n + 1
    <3>1. i \in {m, m + 1} /\ n + 1 \in 1 .. n + 1 /\ n < i - 1 + 1
      BY <1>1, <2>2
    <3>2. NoneOf(w, codes, k, (n + 1) - 1)
      BY <1>1, <1>6, <2>2 DEF NoneOf
    <3>3. now \cap keys # {}
      BY <1>3, <1>6, <3>1, <3>2
    <3>4. CASE i = m
      BY <1>3, <3>3, <3>4
    <3>5. CASE i = m + 1
      <4>1. m \in k .. i - 1
        BY <1>1, <1>6, <3>5
      <4>2. v[m].code \notin codes
        BY <1>6, <4>1 DEF NoneOf
      <4>3. QED
        BY <1>3, <1>4, <3>3, <3>5, <4>2
    <3>6. QED
      BY <3>1, <3>4, <3>5
  <2>3. i <= n + 1 \/ i > n + 1
    BY <1>1
  <2>4. QED
    BY <2>1, <2>2, <2>3
<1>7. ASSUME FromNow(w, now, codes, keys) PROVE FromNow(v, then, codes, keys)
  <2>1. \A j \in 1 .. n + 1 : 1 <= j /\ NoneOf(w, codes, 1, j - 1) => Held(w, now, j) \cap keys # {}
    BY <1>7 DEF FromNow, n
  <2>2. SUFFICES ASSUME NEW i \in 1 .. m + 1, NoneOf(v, codes, 1, i - 1)
                 PROVE  Held(v, then, i) \cap keys # {}
    BY DEF FromNow, m
  <2>3. 1 <= i /\ 1 <= n + 1 /\ 1 \in Nat /\ 1 >= 1
    BY <1>1, <2>2
  <2>4. QED
    BY <1>6, <2>1, <2>2, <2>3
<1>8. ASSUME AfterPress(w, now, codes, keys) PROVE AfterPress(v, then, codes, keys)
  <2>1. SUFFICES ASSUME NEW i \in 1 .. m + 1, NEW k \in 1 .. i - 1,
                        v[k].code \in codes, ~v[k].up, NoneOf(v, codes, k + 1, i - 1)
                 PROVE  Held(v, then, i) \cap keys # {}
    BY DEF AfterPress, m
  <2>2. \A j \in 1 .. n + 1 : \A l \in 1 .. j - 1 :
          w[l].code \in codes /\ ~w[l].up /\ NoneOf(w, codes, l + 1, j - 1)
            => Held(w, now, j) \cap keys # {}
    BY <1>8 DEF AfterPress, n
  <2>3. CASE k <= n
    <3>1. v[k] = w[k] /\ k + 1 \in Nat /\ k + 1 >= 1 /\ k + 1 <= i /\ k + 1 <= n + 1
      BY <1>1, <2>1, <2>3
    <3>2. ASSUME NEW j \in 1 .. n + 1, k + 1 <= j, NoneOf(w, codes, k + 1, j - 1)
          PROVE  Held(w, now, j) \cap keys # {}
      <4>1. k \in 1 .. j - 1
        BY <1>1, <2>1, <3>2
      <4>2. QED
        BY <2>1, <2>2, <3>1, <3>2, <4>1
    <3>3. QED
      BY <1>6, <2>1, <3>1, <3>2
  <2>4. CASE k > n
    <3>1. k \in {n + 1, m} /\ (k # m => m = n + 2 /\ k = n + 1)
      BY <1>1, <2>1, <2>4
    <3>2. k = m
      BY <1>2, <2>1, <3>1
    <3>3. i = m + 1
      BY <1>1, <2>1, <3>2
    <3>4. QED
      BY <1>3, <1>5, <2>1, <3>2, <3>3
  <2>5. k <= n \/ k > n
    BY <1>1, <2>1
  <2>6. QED
    BY <2>3, <2>4, <2>5
<1>9. QED
  BY <1>7, <1>8

\* w without its first byte.
LEMMA FlagsTaken ==
  ASSUME NEW w, NEW v, Len(w) \in Nat, Len(w) > 0, Len(v) = Len(w) - 1,
         NEW codes, NEW keys, NEW now, \A i \in 1 .. Len(v) : v[i] = w[i+1],
         AfterPress(w, now, codes, keys)
  PROVE  /\ AfterPress(v, now, codes, keys)
         /\ w[1].code \in codes /\ ~w[1].up => FromNow(v, now, codes, keys)
         /\ w[1].code \notin codes /\ FromNow(w, now, codes, keys)
              => FromNow(v, now, codes, keys)
<1> DEFINE n == Len(v)
<1>1. n \in Nat /\ Len(w) = n + 1 /\ \A i \in 1 .. n : v[i] = w[i+1]
  OBVIOUS
<1> HIDE DEF n
<1>2. \A i \in 1 .. n + 1 : Held(v, now, i) = Held(w, now, i + 1)
  BY <1>1 DEF Held, n
<1>3. ASSUME NEW i \in 1 .. n + 1, NEW k \in 1 .. i, NoneOf(v, codes, k, i - 1)
      PROVE  NoneOf(w, codes, k + 1, (i + 1) - 1)
  <2>1. SUFFICES ASSUME NEW j \in k + 1 .. (i + 1) - 1 PROVE w[j].code \notin codes
    BY DEF NoneOf
  <2>2. j - 1 \in k .. i - 1 /\ j - 1 \in 1 .. n /\ (j - 1) + 1 = j
    BY <1>1, <1>3, <2>1
  <2>3. v[j-1].code \notin codes /\ v[j-1] = w[(j-1)+1]
    BY <1>1, <1>3, <2>2 DEF NoneOf
  <2>4. QED
    BY <2>2, <2>3
<1>4. \A i \in 1 .. n + 2 : \A k \in 1 .. i - 1 :
        w[k].code \in codes /\ ~w[k].up /\ NoneOf(w, codes, k + 1, i - 1)
          => Held(w, now, i) \cap keys # {}
  <2>1. Len(w) + 1 = n + 2
    BY <1>1
  <2>2. QED
    BY <2>1 DEF AfterPress
<1>5. AfterPress(v, now, codes, keys)
  <2>1. SUFFICES ASSUME NEW i \in 1 .. n + 1, NEW k \in 1 .. i - 1,
                        v[k].code \in codes, ~v[k].up, NoneOf(v, codes, k + 1, i - 1)
                 PROVE  Held(v, now, i) \cap keys # {}
    BY DEF AfterPress, n
  <2>2. /\ i + 1 \in 1 .. n + 2 /\ k + 1 \in 1 .. (i + 1) - 1 /\ k + 1 \in 1 .. i
        /\ v[k] = w[k+1]
    BY <1>1, <2>1
  <2>3. NoneOf(w, codes, (k + 1) + 1, (i + 1) - 1)
    BY <1>3, <2>1, <2>2
  <2>4. QED
    BY <1>2, <1>4, <2>1, <2>2, <2>3
<1>6. ASSUME w[1].code \in codes, ~w[1].up PROVE FromNow(v, now, codes, keys)
  <2>1. SUFFICES ASSUME NEW i \in 1 .. n + 1, NoneOf(v, codes, 1, i - 1)
                 PROVE  Held(v, now, i) \cap keys # {}
    BY DEF FromNow, n
  <2>2. i + 1 \in 1 .. n + 2 /\ 1 \in 1 .. (i + 1) - 1 /\ 1 \in 1 .. i
    BY <1>1, <2>1
  <2>3. NoneOf(w, codes, 1 + 1, (i + 1) - 1)
    BY <1>3, <2>1, <2>2
  <2>4. QED
    BY <1>2, <1>4, <1>6, <2>2, <2>3
<1>7. ASSUME w[1].code \notin codes, FromNow(w, now, codes, keys)
      PROVE  FromNow(v, now, codes, keys)
  <2>1. SUFFICES ASSUME NEW i \in 1 .. n + 1, NoneOf(v, codes, 1, i - 1)
                 PROVE  Held(v, now, i) \cap keys # {}
    BY DEF FromNow, n
  <2>2. i + 1 \in 1 .. Len(w) + 1 /\ 1 \in 1 .. i
    BY <1>1, <2>1
  <2>3. NoneOf(w, codes, 1 + 1, (i + 1) - 1)
    BY <1>3, <2>1, <2>2
  <2>4. NoneOf(w, codes, 1, (i + 1) - 1)
    BY <1>7, <2>3, <2>2 DEF NoneOf
  <2>5. QED
    BY <1>2, <1>7, <2>1, <2>2, <2>4 DEF FromNow
<1>8. QED
  BY <1>5, <1>6, <1>7

LEMMA KeyInv ==
  ASSUME KeyboardInv, NEW key \in Keys, Press(key) \/ Release(key) PROVE KeyboardInv'
<1> DEFINE n == Len(wire)
           m == Len(wire')
<1>1. PICK is_up \in BOOLEAN :
        /\ wire' = wire \o KeyBytes(key, is_up)
        /\ typed' = IF is_up THEN typed ELSE typed + 1
        /\ down' = IF is_up THEN down \ {key} ELSE down \cup {key}
        /\ ~is_up => typed < MaxTyped
        /\ UNCHANGED <<shift, ctrl, extended, last, taken, delivered>>
  <2>1. CASE Press(key)
    BY <2>1 DEF Press, flags
  <2>2. CASE Release(key)
    BY <2>2 DEF Release, flags
  <2>3. QED
    BY <2>1, <2>2
<1>2. KeyboardTypeOK /\ FlagsInv /\ CodesInv /\ NumbersInv /\ KeysAsTyped
  BY DEF KeyboardInv
<1>3. typed \in 0 .. MaxTyped /\ typed' \in 0 .. MaxTyped /\ down' \subseteq Keys
  BY <1>1, <1>2, KeyboardAssumption DEF KeyboardTypeOK
<1>4. Sent(key, is_up)
  BY <1>1, <1>2, <1>3, WireGrows
<1>5. KeyboardTypeOK'
  BY <1>1, <1>2, <1>3, <1>4 DEF KeyboardTypeOK, Sent, KeyByte
<1>6. /\ n \in Nat /\ m = n + Added(key, is_up) /\ m \in {n + 1, n + 2}
      /\ \A i \in 1 .. n : wire'[i] = wire[i]
      /\ \A i \in n + 1 .. m : wire'[i].press.held = down
      /\ m = n + 2 => wire'[n+1].code = "E0"
      /\ wire'[m].code = Code(key) /\ wire'[m].up = is_up
      /\ wire'[m].press.key = key /\ wire'[m].press.number = typed'
  <2> DEFINE b == NewByte(key, is_up)
  <2>1. /\ b.press.held = down /\ b.code = Code(key) /\ b.up = is_up
        /\ b.press.key = key /\ b.press.number = typed'
        /\ [b EXCEPT !.code = "E0"].press.held = down
        /\ [b EXCEPT !.code = "E0"].code = "E0"
    BY DEF NewByte
  <2>2. /\ n \in Nat /\ m = n + Added(key, is_up) /\ \A i \in 1 .. n : wire'[i] = wire[i]
        /\ wire'[m] = b /\ (m = n + 2 => wire'[n+1] = [b EXCEPT !.code = "E0"])
    BY <1>4 DEF Sent
  <2> HIDE DEF b, n, m
  <2>3. m \in {n + 1, n + 2}
    BY <2>2 DEF Added
  <2>4. \A i \in n + 1 .. m : i = m \/ (i = n + 1 /\ m = n + 2)
    BY <2>2, <2>3
  <2>5. \A i \in n + 1 .. m : wire'[i].press.held = down
    BY <2>1, <2>2, <2>4
  <2>6. QED
    BY <2>1, <2>2, <2>3, <2>5
<1>7. FlagsInv'
  <2>1. ASSUME NEW codes, NEW keys, "E0" \notin codes, Code(key) \in codes <=> key \in keys
        PROVE  /\ AfterPress(wire, down, codes, keys) => AfterPress(wire', down', codes, keys)
               /\ FromNow(wire, down, codes, keys) => FromNow(wire', down', codes, keys)
    <3>1. m = n + 2 => wire'[n+1].code \notin codes
      BY <1>6, <2>1
    <3>2. wire'[m].code \in codes <=> key \in keys
      BY <1>6, <2>1
    <3>3. down' = IF wire'[m].up THEN down \ {key} ELSE down \cup {key}
      BY <1>1, <1>6
    <3>4. WithKey(wire, wire', down, down', codes, keys, key)
      BY <1>6, <3>1, <3>2, <3>3 DEF WithKey
    <3>5. QED
      BY <3>4, FlagsSent
  <2>2. "E0" \notin ShiftCodes /\ (Code(key) \in ShiftCodes <=> key \in Shifts)
    BY CodeIs DEF ShiftCodes
  <2>3. "E0" \notin CtrlCodes /\ (Code(key) \in CtrlCodes <=> key \in Ctrls)
    BY CodeIs DEF CtrlCodes
  <2>4. /\ AfterPress(wire', down', ShiftCodes, Shifts)
        /\ shift => FromNow(wire', down', ShiftCodes, Shifts)
    BY <1>2, <2>1, <2>2 DEF FlagsInv
  <2>5. /\ AfterPress(wire', down', CtrlCodes, Ctrls)
        /\ ctrl => FromNow(wire', down', CtrlCodes, Ctrls)
    BY <1>2, <2>1, <2>3 DEF FlagsInv
  <2>6. QED
    BY <1>1, <2>4, <2>5 DEF FlagsInv
<1> HIDE DEF n, m
<1>8. CodesInv'
  <2>1. SUFFICES ASSUME NEW i \in 1 .. m
                 PROVE  /\ wire'[i].code \in {"E0", Code(wire'[i].press.key)}
                        /\ wire'[i].code # "E0" /\ wire'[i].press.key = "Up" =>
                             IF i = 1 THEN extended' ELSE wire'[i-1].code = "E0"
    BY DEF CodesInv, m
  <2>2. CASE i <= n
    <3>1. i \in 1 .. n /\ wire'[i] = wire[i] /\ (i # 1 => wire'[i-1] = wire[i-1])
      BY <1>6, <2>1, <2>2
    <3>2. QED
      BY <1>1, <1>2, <3>1 DEF CodesInv, n
  <2>3. CASE i = m
    <3>1. key = "Up" => m = n + 2
      BY <1>6 DEF Added, Newer
    <3>2. key = "Up" => m # 1 /\ wire'[m-1].code = "E0"
      <4>1. m = n + 2 => m # 1 /\ m - 1 = n + 1
        BY <1>6
      <4>2. QED
        BY <1>6, <3>1, <4>1
    <3>3. QED
      BY <1>6, <2>3, <3>2
  <2>4. CASE i > n /\ i # m
    <3>1. i = n + 1 /\ m = n + 2
      BY <1>6, <2>1, <2>4
    <3>2. QED
      BY <1>6, <3>1
  <2>5. i <= n \/ i = m \/ (i > n /\ i # m)
    BY <1>6, <2>1
  <2>6. QED
    BY <2>2, <2>3, <2>4, <2>5
<1>9. NumbersInv'
  <2>1. typed' \in Nat /\ typed \in Nat /\ typed <= typed' /\ (~is_up => typed' = typed + 1)
    BY <1>1, <1>3
  <2>2. ASSUME NEW i \in 1 .. n, Storing(wire[i])
        PROVE  LET k == wire[i].press.number
               IN  /\ k \in 1 .. typed
                   /\ \A j \in 1 .. i - 1 : Storing(wire[j]) => wire[j].press.number < k
                   /\ last # None => last.press.number < k
                   /\ taken # None => taken.press.number < k
                   /\ \A j \in DOMAIN delivered : delivered[j] < k
    BY <1>2, <2>2 DEF NumbersInv, n
  <2>3. /\ last # None => last.press.number <= typed
        /\ taken # None => taken.press.number <= typed
        /\ \A j \in DOMAIN delivered : delivered[j] <= typed
    BY <1>2 DEF NumbersInv
  <2>4. /\ last # None => last.press.number \in Nat
        /\ taken # None => taken.press.number \in Nat
        /\ \A j \in DOMAIN delivered : delivered[j] \in Nat
    <3>1. last \in Stored /\ taken \in Stored /\ delivered \in Seq(1 .. MaxTyped)
      BY <1>2 DEF KeyboardTypeOK
    <3>2. \A x \in Stored : x # None => x.press.number \in Nat
      BY KeyboardAssumption DEF Stored, KeyPress
    <3>3. \A j \in DOMAIN delivered : delivered[j] \in Nat
      BY <3>1, KeyboardAssumption
    <3>4. QED
      BY <3>1, <3>2, <3>3
  <2>5. ASSUME NEW i \in 1 .. m, Storing(wire'[i])
        PROVE  LET k == wire'[i].press.number
               IN  /\ k \in 1 .. typed'
                   /\ \A j \in 1 .. i - 1 : Storing(wire'[j]) => wire'[j].press.number < k
                   /\ last # None => last.press.number < k
                   /\ taken # None => taken.press.number < k
                   /\ \A j \in DOMAIN delivered : delivered[j] < k
    <3>1. CASE i <= n
      <4>1. i \in 1 .. n /\ wire'[i] = wire[i] /\ \A j \in 1 .. i - 1 : wire'[j] = wire[j]
        BY <1>6, <2>5, <3>1
      <4>2. QED
        BY <2>1, <2>2, <2>5, <4>1
    <3>2. CASE i = m
      <4>1. ~is_up /\ wire'[i].press.number = typed + 1 /\ typed' = typed + 1
        BY <1>6, <2>1, <2>5, <3>2 DEF Storing
      <4>2. ASSUME NEW j \in 1 .. i - 1, Storing(wire'[j]) PROVE wire'[j].press.number < typed + 1
        <5>1. j <= n \/ (j = n + 1 /\ m = n + 2)
          BY <1>6, <3>2, <4>2
        <5>2. j <= n
          BY <1>6, <4>2, <5>1 DEF Storing
        <5>3. j \in 1 .. n /\ wire'[j] = wire[j]
          BY <1>6, <4>2, <5>2
        <5>4. wire[j].press.number \in 1 .. typed
          BY <2>2, <4>2, <5>3
        <5>5. QED
          BY <2>1, <5>3, <5>4
      <4>3. typed + 1 \in 1 .. typed' /\ \A k \in Nat : k <= typed => k < typed + 1
        BY <2>1, <4>1
      <4>4. QED
        BY <2>3, <2>4, <4>1, <4>2, <4>3
    <3>3. CASE i > n /\ i # m
      <4>1. i = n + 1 /\ m = n + 2
        BY <1>6, <2>5, <3>3
      <4>2. QED
        BY <1>6, <2>5, <4>1 DEF Storing
    <3>4. i <= n \/ i = m \/ (i > n /\ i # m)
      BY <1>6, <2>5
    <3>5. QED
      BY <3>1, <3>2, <3>3, <3>4
  <2>6. /\ last # None => last.press.number <= typed'
        /\ taken # None => taken.press.number <= typed'
        /\ \A j \in DOMAIN delivered : delivered[j] <= typed'
    BY <2>1, <2>3, <2>4
  <2>7. QED
    BY <1>1, <1>2, <2>5, <2>6 DEF NumbersInv, m
<1>10. KeysAsTyped'
  BY <1>1, <1>2 DEF KeysAsTyped, StoredIsTyped, KeysInOrderOnce, None
<1>11. QED
  BY <1>5, <1>7, <1>8, <1>9, <1>10 DEF KeyboardInv

\* A flag that is set when a byte is its turn tells what was held.
LEMMA HeldNow ==
  ASSUME NEW w, NEW now, NEW codes, NEW keys, Len(w) \in Nat, Len(w) > 0,
         FromNow(w, now, codes, keys)
  PROVE  w[1].press.held \cap keys # {}
<1>1. 1 \in 1 .. Len(w) + 1 /\ NoneOf(w, codes, 1, 1 - 1)
  BY DEF NoneOf
<1>2. Held(w, now, 1) = w[1].press.held
  BY DEF Held
<1>3. QED
  BY <1>1, <1>2 DEF FromNow

\* What keyboard_handler stores is the character of a key that was typed.
LEMMA DecodedIsTyped ==
  ASSUME KeyboardInv, wire # << >>, NEW char \in Decoded(wire[1])
  PROVE  LET key == wire[1].press.key  held == wire[1].press.held
         IN  /\ Storing(wire[1]) /\ char \in Chars
             /\ \/ key = "Keypad8"
                \/ key = "Up" /\ char = "KEY_UP"
                \/ key = "C" /\ \/ char = "c"
                                \/ char = "C" /\ held \cap Shifts # {}
                                \/ char = "KEY_CTRL_C" /\ held \cap Ctrls # {}
<1> DEFINE h == wire[1]
<1>1. wire \in Seq(KeyByte) /\ Len(wire) \in Nat /\ Len(wire) > 0
  BY DEF KeyboardInv, KeyboardTypeOK, KeyByte
<1>2. h \in KeyByte /\ 1 \in 1 .. Len(wire)
  BY <1>1, ElementOfSeq
<1>3. /\ h.code \in {"E0", Code(h.press.key)}
      /\ h.code # "E0" /\ h.press.key = "Up" => extended
  BY <1>2 DEF KeyboardInv, CodesInv
<1>4. /\ ctrl => h.press.held \cap Ctrls # {}
      /\ shift => h.press.held \cap Shifts # {}
  BY <1>1, HeldNow DEF KeyboardInv, FlagsInv
<1>5. h.press.key \in Keys /\ h.code \in {"E0", "1D", "2A", "2E", "36", "48"}
  BY <1>2 DEF KeyByte
<1> HIDE DEF h
<1>6. ~Prefix(h) /\ ~Modifier(h) /\ ~h.up /\ h.code \in {"2E", "48"}
  BY <1>5 DEF Decoded, Prefix, Modifier, h
<1>7. h.code = Code(h.press.key)
  BY <1>3, <1>6
<1>8. char \in IF extended THEN IF h.code = "48" THEN {"KEY_UP"} ELSE {}
               ELSE IF h.code = "48" THEN Chars
               ELSE IF ctrl THEN {"KEY_CTRL_C"}
               ELSE IF shift THEN {"C"} ELSE {"c"}
  BY <1>6 DEF Decoded, h
<1>9. h.code = "2E" => h.press.key = "C"
  BY <1>5, <1>7, CodeIs
<1>10. h.code = "48" => h.press.key \in {"Up", "Keypad8"}
  BY <1>5, <1>7, CodeIs
<1>11. char \in Chars
  BY <1>8 DEF Chars
<1>12. CASE h.code = "2E"
  BY <1>4, <1>6, <1>8, <1>9, <1>11, <1>12 DEF Storing, h
<1>13. CASE h.code = "48"
  BY <1>3, <1>6, <1>8, <1>10, <1>11, <1>13 DEF Storing, h
<1>14. QED
  BY <1>6, <1>12, <1>13

LEMMA ScancodeInv == ASSUME KeyboardInv, keyboard_handler PROVE KeyboardInv'
<1> DEFINE h == wire[1]
           n == Len(wire')
<1>1. KeyboardTypeOK /\ FlagsInv /\ CodesInv /\ NumbersInv /\ KeysAsTyped
  BY DEF KeyboardInv
<1>2. wire # << >> /\ wire' = Tail(wire) /\ UNCHANGED <<down, typed, taken, delivered>>
  BY DEF keyboard_handler
<1>3. wire \in Seq(KeyByte) /\ Len(wire) \in Nat /\ Len(wire) > 0 /\ Head(wire) = h
  BY <1>1, <1>2 DEF KeyboardTypeOK, KeyByte
<1>4. /\ shift' = ShiftAfter(h) /\ ctrl' = CtrlAfter(h) /\ extended' = ExtendedAfter(h)
      /\ \/ last' = last
         \/ \E char \in Decoded(h) : last' = [char |-> char, press |-> h.press]
  BY <1>3 DEF keyboard_handler, Store
<1>5. /\ wire' \in Seq(KeyByte) /\ n = Len(wire) - 1 /\ n \in Nat
      /\ \A i \in 1 .. n : wire'[i] = wire[i+1]
  BY <1>2, <1>3
<1>6. h \in KeyByte /\ h.up \in BOOLEAN
  <2>1. 1 \in 1 .. Len(wire)
    BY <1>3
  <2>2. h \in KeyByte
    BY <1>3, <2>1, ElementOfSeq
  <2>3. QED
    BY <2>2 DEF KeyByte
<1>7. Len(wire) = n + 1
  BY <1>3, <1>5
<1>8. FlagsInv'
  <2>1. /\ AfterPress(wire', down, ShiftCodes, Shifts)
        /\ h.code \in ShiftCodes /\ ~h.up => FromNow(wire', down, ShiftCodes, Shifts)
        /\ h.code \notin ShiftCodes /\ shift => FromNow(wire', down, ShiftCodes, Shifts)
    BY <1>1, <1>3, <1>5, FlagsTaken DEF FlagsInv
  <2>2. /\ AfterPress(wire', down, CtrlCodes, Ctrls)
        /\ h.code \in CtrlCodes /\ ~h.up => FromNow(wire', down, CtrlCodes, Ctrls)
        /\ h.code \notin CtrlCodes /\ ctrl => FromNow(wire', down, CtrlCodes, Ctrls)
    BY <1>1, <1>3, <1>5, FlagsTaken DEF FlagsInv
  <2>3. shift' = (IF h.code \in ShiftCodes THEN ~h.up ELSE shift)
    BY <1>4 DEF ShiftAfter, ShiftCodes
  <2>4. ctrl' = (IF h.code \in CtrlCodes THEN ~h.up ELSE ctrl)
    BY <1>4 DEF CtrlAfter, CtrlCodes
  <2>5. shift' => (h.code \in ShiftCodes /\ ~h.up) \/ (h.code \notin ShiftCodes /\ shift)
    BY <2>3, Zenon
  <2>6. ctrl' => (h.code \in CtrlCodes /\ ~h.up) \/ (h.code \notin CtrlCodes /\ ctrl)
    BY <2>4, Zenon
  <2>7. QED
    BY <1>2, <2>1, <2>2, <2>5, <2>6 DEF FlagsInv
<1> HIDE DEF h, n
<1>9. CodesInv'
  <2>1. SUFFICES ASSUME NEW i \in 1 .. n
                 PROVE  /\ wire'[i].code \in {"E0", Code(wire'[i].press.key)}
                        /\ wire'[i].code # "E0" /\ wire'[i].press.key = "Up" =>
                             IF i = 1 THEN extended' ELSE wire'[i-1].code = "E0"
    BY DEF CodesInv, n
  <2>2. i + 1 \in 1 .. Len(wire) /\ i + 1 # 1 /\ (i + 1) - 1 = i
    BY <1>7, <2>1, <1>5
  <2>3. wire'[i] = wire[i+1] /\ (i # 1 => wire'[i-1] = wire[i])
    BY <1>5, <2>1
  <2>4. /\ wire[i+1].code \in {"E0", Code(wire[i+1].press.key)}
        /\ wire[i+1].code # "E0" /\ wire[i+1].press.key = "Up" => wire[i].code = "E0"
    BY <1>1, <2>2 DEF CodesInv
  <2>5. i = 1 /\ wire[i].code = "E0" => extended'
    BY <1>4 DEF ExtendedAfter, Prefix, Modifier, h
  <2>6. QED
    BY <2>3, <2>4, <2>5
<1>10. CASE last' = last
  <2>1. KeyboardTypeOK'
    <3>1. shift' \in BOOLEAN /\ ctrl' \in BOOLEAN
      BY <1>1, <1>4, <1>6 DEF ShiftAfter, CtrlAfter, KeyboardTypeOK
    <3>2. extended' \in BOOLEAN
      BY <1>1, <1>4 DEF ExtendedAfter, KeyboardTypeOK
    <3>3. QED
      BY <1>1, <1>2, <1>5, <1>10, <3>1, <3>2 DEF KeyboardTypeOK, KeyByte
  <2>2. NumbersInv'
    BY <1>1, <1>2, <1>5, <1>7, <1>10 DEF NumbersInv, n
  <2>3. KeysAsTyped'
    BY <1>1, <1>2, <1>10 DEF KeysAsTyped, StoredIsTyped, KeysInOrderOnce, None
  <2>4. QED
    BY <1>8, <1>9, <2>1, <2>2, <2>3 DEF KeyboardInv
<1>11. CASE \E char \in Decoded(h) : last' = [char |-> char, press |-> h.press]
  <2>1. PICK char \in Decoded(h) : last' = [char |-> char, press |-> h.press]
    BY <1>11
  <2>2. /\ Storing(h) /\ char \in Chars
        /\ \/ h.press.key = "Keypad8"
           \/ h.press.key = "Up" /\ char = "KEY_UP"
           \/ h.press.key = "C" /\ \/ char = "c"
                                   \/ char = "C" /\ h.press.held \cap Shifts # {}
                                   \/ char = "KEY_CTRL_C" /\ h.press.held \cap Ctrls # {}
    BY <1>2, <2>1, DecodedIsTyped DEF h
  <2>3. last'.char = char /\ last'.press = h.press
    BY <2>1
  <2>4. /\ h.press.number \in 1 .. typed
        /\ taken # None => taken.press.number < h.press.number
        /\ \A j \in DOMAIN delivered : delivered[j] < h.press.number
    <3>1. 1 \in 1 .. Len(wire)
      BY <1>3
    <3>2. QED
      BY <1>1, <2>2, <3>1 DEF NumbersInv, h
  <2>5. KeyboardTypeOK'
    <3>1. shift' \in BOOLEAN /\ ctrl' \in BOOLEAN
      BY <1>1, <1>4, <1>6 DEF ShiftAfter, CtrlAfter, KeyboardTypeOK
    <3>2. extended' \in BOOLEAN
      BY <1>1, <1>4 DEF ExtendedAfter, KeyboardTypeOK
    <3>3. h.press \in KeyPress
      <4>1. h.press \in [key : Keys, held : SUBSET Keys, number : 0 .. MaxTyped]
        BY <1>6 DEF KeyByte
      <4>2. h.press.number \in 1 .. MaxTyped
        BY <1>1, <2>4, KeyboardAssumption DEF KeyboardTypeOK
      <4>3. QED
        BY <4>1, <4>2 DEF KeyPress
    <3>4. last' \in Stored
      BY <2>1, <2>2, <3>3 DEF Stored
    <3>5. QED
      BY <1>1, <1>2, <1>5, <3>1, <3>2, <3>4 DEF KeyboardTypeOK, KeyByte
  <2>6. NumbersInv'
    <3>1. ASSUME NEW i \in 1 .. n, Storing(wire'[i])
          PROVE  LET k == wire'[i].press.number
                 IN  /\ k \in 1 .. typed
                     /\ \A j \in 1 .. i - 1 : Storing(wire'[j]) => wire'[j].press.number < k
                     /\ h.press.number < k
                     /\ taken # None => taken.press.number < k
                     /\ \A j \in DOMAIN delivered : delivered[j] < k
      <4>1. i + 1 \in 1 .. Len(wire) /\ wire'[i] = wire[i+1] /\ 1 \in 1 .. (i + 1) - 1
        BY <1>5, <1>7, <3>1
      <4>2. \A j \in 1 .. i - 1 : wire'[j] = wire[j+1] /\ j + 1 \in 1 .. (i + 1) - 1
        BY <1>5, <3>1
      <4>3. LET k == wire[i+1].press.number
            IN  /\ k \in 1 .. typed
                /\ \A j \in 1 .. (i + 1) - 1 : Storing(wire[j]) => wire[j].press.number < k
                /\ taken # None => taken.press.number < k
                /\ \A j \in DOMAIN delivered : delivered[j] < k
        BY <1>1, <3>1, <4>1 DEF NumbersInv
      <4>4. h.press.number < wire[i+1].press.number
        BY <2>2, <4>1, <4>3 DEF h
      <4>5. QED
        BY <4>1, <4>2, <4>3, <4>4
    <3>2. h.press.number <= typed
      BY <1>1, <2>4 DEF KeyboardTypeOK
    <3>3. QED
      BY <1>1, <1>2, <2>3, <2>4, <3>1, <3>2 DEF NumbersInv, n
  <2>7. KeysAsTyped'
    <3>1. StoredIsTyped'
      BY <2>2, <2>3 DEF StoredIsTyped
    <3>2. QED
      BY <1>1, <1>2, <3>1 DEF KeysAsTyped, KeysInOrderOnce
  <2>8. QED
    BY <1>8, <1>9, <2>5, <2>6, <2>7 DEF KeyboardInv
<1>12. QED
  BY <1>4, <1>10, <1>11

LEMMA GetCharInv == ASSUME KeyboardInv, GetChar PROVE KeyboardInv'
<1>1. /\ taken' = last /\ last # None
      /\ UNCHANGED <<down, typed, wire, shift, ctrl, extended, last, delivered>>
  BY DEF GetChar, flags
<1>2. KeyboardTypeOK' /\ FlagsInv' /\ CodesInv'
  BY <1>1 DEF KeyboardInv, KeyboardTypeOK, FlagsInv, CodesInv, Stored, KeyPress, None
<1>3. NumbersInv'
  BY <1>1 DEF KeyboardInv, NumbersInv, None
<1>4. KeysAsTyped'
  BY <1>1 DEF KeyboardInv, KeysAsTyped, StoredIsTyped, KeysInOrderOnce, None
<1>5. QED
  BY <1>2, <1>3, <1>4 DEF KeyboardInv

LEMMA ClearCharInv == ASSUME KeyboardInv, ClearChar PROVE KeyboardInv'
<1> DEFINE number == taken.press.number
<1>1. /\ taken # None /\ last' = None /\ taken' = None /\ delivered' = Append(delivered, number)
      /\ UNCHANGED <<down, typed, wire, shift, ctrl, extended>>
  BY DEF ClearChar, Cleared, flags
<1>2. KeyboardTypeOK /\ FlagsInv /\ CodesInv /\ NumbersInv /\ KeysAsTyped
  BY DEF KeyboardInv
<1>3. number \in 1 .. MaxTyped /\ delivered \in Seq(1 .. MaxTyped) /\ Len(delivered) \in Nat
  BY <1>1, <1>2 DEF KeyboardTypeOK, Stored, KeyPress
<1>4. /\ number <= typed
      /\ \A j \in DOMAIN delivered : delivered[j] < number /\ delivered[j] <= typed
      /\ \A i \in 1 .. Len(wire) : Storing(wire[i]) =>
           /\ number < wire[i].press.number
           /\ \A j \in DOMAIN delivered : delivered[j] < wire[i].press.number
  BY <1>1, <1>2 DEF NumbersInv
<1> HIDE DEF number
<1>5. /\ delivered' \in Seq(1 .. MaxTyped) /\ DOMAIN delivered = 1 .. Len(delivered)
      /\ DOMAIN delivered' = 1 .. Len(delivered) + 1
      /\ \A j \in 1 .. Len(delivered) : delivered'[j] = delivered[j]
      /\ delivered'[Len(delivered)+1] = number
  BY <1>1, <1>3
<1>6. ASSUME NEW j \in DOMAIN delivered'
      PROVE  \/ j \in DOMAIN delivered /\ delivered'[j] = delivered[j]
             \/ j = Len(delivered) + 1 /\ delivered'[j] = number
  <2>1. j \in 1 .. Len(delivered) + 1
    BY <1>5, <1>6
  <2>2. j \in 1 .. Len(delivered) \/ j = Len(delivered) + 1
    BY <1>3, <2>1
  <2>3. CASE j \in 1 .. Len(delivered)
    BY <1>5, <2>3
  <2>4. CASE j = Len(delivered) + 1
    BY <1>5, <2>4
  <2>5. QED
    BY <2>2, <2>3, <2>4
<1>7. KeyboardTypeOK' /\ FlagsInv' /\ CodesInv'
  <2>1. None \in Stored
    BY DEF Stored
  <2>2. KeyboardTypeOK'
    BY <1>1, <1>2, <1>5, <2>1 DEF KeyboardTypeOK, Stored, KeyPress, None
  <2>3. FlagsInv' /\ CodesInv'
    BY <1>1, <1>2 DEF FlagsInv, CodesInv
  <2>4. QED
    BY <2>2, <2>3
<1>8. NumbersInv'
  <2>1. /\ \A j \in DOMAIN delivered' : delivered'[j] <= typed
        /\ \A i \in 1 .. Len(wire) : Storing(wire[i]) =>
             \A j \in DOMAIN delivered' : delivered'[j] < wire[i].press.number
    BY <1>4, <1>6
  <2>2. last' = None' /\ taken' = None'
    BY <1>1 DEF None
  <2>3. QED
    BY <1>1, <1>2, <2>1, <2>2 DEF NumbersInv
<1>9. KeysAsTyped'
  <2>1. \A i, j \in DOMAIN delivered : i < j => delivered[i] < delivered[j]
    BY <1>2 DEF KeysAsTyped, KeysInOrderOnce
  <2>2. ASSUME NEW i \in DOMAIN delivered', NEW j \in DOMAIN delivered', i < j
        PROVE  delivered'[i] < delivered'[j]
    <3>1. i \in DOMAIN delivered /\ delivered'[i] = delivered[i]
      BY <1>3, <1>5, <2>2
    <3>2. QED
      BY <1>4, <1>6, <2>1, <2>2, <3>1
  <2>3. last' = None'
    BY <1>1 DEF None
  <2>4. QED
    BY <2>2, <2>3 DEF KeysAsTyped, StoredIsTyped, KeysInOrderOnce
<1>10. QED
  BY <1>7, <1>8, <1>9 DEF KeyboardInv

THEOREM KeyboardInvariance == KeyboardSpec => []KeyboardInv
<1>1. KeyboardInit => KeyboardInv
  <2>1. SUFFICES ASSUME KeyboardInit PROVE KeyboardInv
    OBVIOUS
  <2>2. wire = << >> /\ Len(wire) = 0 /\ delivered = << >> /\ DOMAIN delivered = {}
    BY <2>1 DEF KeyboardInit
  <2>3. KeyboardTypeOK
    <3>1. None \in Stored /\ 0 \in 0 .. MaxTyped
      BY KeyboardAssumption DEF Stored
    <3>2. delivered \in Seq(1 .. MaxTyped)
      BY <2>2
    <3>3. wire \in Seq([code : {"E0", "1D", "2A", "2E", "36", "48"}, up : BOOLEAN,
                        press : [key : Keys, held : SUBSET Keys, number : 0 .. MaxTyped]])
      BY <2>2
    <3>4. QED
      BY <2>1, <3>1, <3>2, <3>3 DEF KeyboardInit, KeyboardTypeOK
  <2>4. FlagsInv
    <3>1. ASSUME NEW codes, NEW keys PROVE AfterPress(wire, down, codes, keys)
      <4>1. \A i \in 1 .. Len(wire) + 1 : 1 .. i - 1 = {}
        BY <2>2
      <4>2. QED
        BY <4>1 DEF AfterPress
    <3>2. QED
      BY <2>1, <3>1 DEF KeyboardInit, FlagsInv
  <2>5. CodesInv /\ NumbersInv /\ KeysAsTyped
    BY <2>1, <2>2
       DEF KeyboardInit, CodesInv, NumbersInv, KeysAsTyped, StoredIsTyped, KeysInOrderOnce
  <2>6. QED
    BY <2>3, <2>4, <2>5 DEF KeyboardInv
<1>2. KeyboardInv /\ [KeyboardNext]_keyboardVars => KeyboardInv'
  <2>1. SUFFICES ASSUME KeyboardInv, [KeyboardNext]_keyboardVars PROVE KeyboardInv'
    OBVIOUS
  <2>2. CASE KeyboardNext
    BY <2>1, <2>2, KeyInv, ScancodeInv, GetCharInv, ClearCharInv DEF KeyboardNext
  <2>3. CASE UNCHANGED keyboardVars
    <3>1. UNCHANGED <<down, typed, wire, shift, ctrl, extended, last, taken, delivered>>
      BY <2>3 DEF keyboardVars, flags
    <3>2. KeyboardTypeOK' /\ FlagsInv' /\ CodesInv'
      BY <2>1, <3>1 DEF KeyboardInv, KeyboardTypeOK, FlagsInv, CodesInv, Stored, KeyPress, None
    <3>3. NumbersInv'
      BY <2>1, <3>1 DEF KeyboardInv, NumbersInv, None
    <3>4. KeysAsTyped'
      BY <2>1, <3>1 DEF KeyboardInv, KeysAsTyped, StoredIsTyped, KeysInOrderOnce, None
    <3>5. QED
      BY <3>2, <3>3, <3>4 DEF KeyboardInv
  <2>4. QED
    BY <2>1, <2>2, <2>3
<1>3. QED
  BY <1>1, <1>2, PTL DEF KeyboardSpec

(***************************************************************************)
(* However many bytes the controller holds back and however late they are  *)
(* taken, keyboard_getchar gives each press at most once and in order, and *)
(* a character only with the keys that make it held when it was typed.     *)
(***************************************************************************)
THEOREM CharactersWereTyped == KeyboardSpec => []KeysAsTyped
<1>1. KeyboardInv => KeysAsTyped
  BY DEF KeyboardInv
<1>2. QED
  BY <1>1, KeyboardInvariance, PTL

-----------------------------------------------------------------------------
(***************************************************************************)
(* NoStaleText says nothing of the second cell that a snapshot covers, and *)
(* that one is restored with the first: the inductive invariant adds it,   *)
(* and that a snapshot which is valid was taken of a cell of the screen.   *)
(***************************************************************************)
Faithful(cells, drawn) == \A c \in Cell : cells[c] \in {drawn[c], Sprite}

SnapshotInv ==
  saved_valid =>
    /\ last_pos \in Cell
    /\ saved[1] \in {text[last_pos], Sprite}
    /\ Second(last_pos) \in Cell => saved[2] \in {text[Second(last_pos)], Sprite}

CursorInv ==
  /\ DOMAIN fb = Cell /\ DOMAIN text = Cell
  /\ Faithful(fb, text)
  /\ SnapshotInv

-----------------------------------------------------------------------------
\* Drawing the same glyph, and scrolling, keeps screen and text in step.
LEMMA DrawFaithful ==
  ASSUME NEW cells, NEW drawn, NEW c, NEW g,
         DOMAIN cells = Cell, DOMAIN drawn = Cell, Faithful(cells, drawn)
  PROVE  /\ DOMAIN Draw(cells, c, g) = Cell
         /\ DOMAIN Draw(drawn, c, g) = Cell
         /\ Faithful(Draw(cells, c, g), Draw(drawn, c, g))
BY DEF Draw, Faithful

LEMMA ScrollFaithful ==
  ASSUME NEW cells, NEW drawn, Faithful(cells, drawn)
  PROVE  /\ DOMAIN Scrolled(cells) = Cell
         /\ DOMAIN Scrolled(drawn) = Cell
         /\ Faithful(Scrolled(cells), Scrolled(drawn))
<1>1. ASSUME NEW c \in Cell, c[2] # TextRows - 1
      PROVE  <<c[1], c[2] + 1>> \in Cell
  BY <1>1, ScreenAssumption DEF Cell
<1>2. ASSUME NEW c \in Cell PROVE Scrolled(cells)[c] \in {Scrolled(drawn)[c], Sprite}
  BY <1>1 DEF Scrolled, Faithful
<1>3. QED
  BY <1>2 DEF Scrolled, Faithful

\* A text step, whatever it has drawn: the snapshot is dropped.
LEMMA TextStep ==
  ASSUME NEW x, NEW y, NEW cells, NEW drawn,
         Placed(x, y, cells, drawn), cursor_invalidate,
         DOMAIN cells = Cell, DOMAIN drawn = Cell, Faithful(cells, drawn)
  PROVE  CursorInv'
<1>1. ~saved_valid'
  BY DEF cursor_invalidate
<1>2. CASE y >= TextRows
  <2>1. fb' = Scrolled(cells) /\ text' = Scrolled(drawn)
    BY <1>2 DEF Placed
  <2>2. QED
    BY <1>1, <2>1, ScrollFaithful DEF CursorInv, SnapshotInv, Faithful
<1>3. CASE ~(y >= TextRows)
  <2>1. fb' = cells /\ text' = drawn
    BY <1>3 DEF Placed
  <2>2. QED
    BY <1>1, <2>1 DEF CursorInv, SnapshotInv, Faithful
<1>4. QED
  BY <1>2, <1>3

\* What the pointer takes away from the screen before it moves is its own.
LEMMA RestoreFaithful ==
  ASSUME CursorInv
  PROVE  LET bare == IF saved_valid THEN Restored ELSE fb
         IN  DOMAIN bare = Cell /\ Faithful(bare, text)
<1>1. CASE saved_valid
  <2>1. DOMAIN Restored = Cell
    BY DEF Restored
  <2>2. ASSUME NEW c \in Cell PROVE Restored[c] \in {text[c], Sprite}
    BY <1>1 DEF Restored, CursorInv, SnapshotInv, Faithful
  <2>3. QED
    BY <1>1, <2>1, <2>2 DEF Faithful
<1>2. CASE ~saved_valid
  BY <1>2 DEF CursorInv
<1>3. QED
  BY <1>1, <1>2

LEMMA MoveKeeps ==
  ASSUME CursorInv, NEW pos \in Cell, cursor_update(pos)
  PROVE  CursorInv'
<1> DEFINE bare == IF saved_valid THEN Restored ELSE fb
<1>1. DOMAIN bare = Cell /\ Faithful(bare, text)
  BY RestoreFaithful
<1>2. /\ saved' = <<bare[pos], Pixel(bare, Second(pos))>>
      /\ fb' = Draw(bare, pos, Sprite)
      /\ text' = text /\ last_pos' = pos
  BY DEF cursor_update
<1> HIDE DEF bare
<1>3. DOMAIN fb' = Cell /\ DOMAIN text' = Cell
  BY <1>1, <1>2 DEF CursorInv, Draw
<1>4. Faithful(fb', text')
  BY <1>1, <1>2 DEF Draw, Faithful
<1>5. saved'[1] = bare[pos] /\ saved'[2] = Pixel(bare, Second(pos))
  BY <1>2
<1>6. SnapshotInv'
  <2>1. saved'[1] \in {text[pos], Sprite}
    BY <1>1, <1>5 DEF Faithful
  <2>2. Second(pos) \in Cell => saved'[2] \in {text[Second(pos)], Sprite}
    BY <1>1, <1>5 DEF Faithful, Pixel
  <2>3. Second(last_pos)' = Second(pos)
    BY <1>2 DEF Second
  <2>4. QED
    BY <1>2, <2>1, <2>2, <2>3 DEF SnapshotInv
<1>7. QED
  BY <1>3, <1>4, <1>6 DEF CursorInv, Faithful

THEOREM CursorInvariance == CursorSpec => []CursorInv
<1>1. CursorInit => CursorInv
  BY DEF CursorInit, CursorInv, Faithful, Blanks, SnapshotInv
<1>2. CursorInv /\ [CursorNext]_cursorVars => CursorInv'
  <2> SUFFICES ASSUME CursorInv, [CursorNext]_cursorVars PROVE CursorInv'
    OBVIOUS
  <2>0. DOMAIN fb = Cell /\ DOMAIN text = Cell /\ Faithful(fb, text)
    BY DEF CursorInv
  <2>1. ASSUME NEW g \in Glyphs, PutGlyph(g) PROVE CursorInv'
    <3> DEFINE here == <<cursor_x, cursor_y>>
    <3>1. PICK x, y : /\ Placed(x, y, Draw(fb, here, g), Draw(text, here, g))
                      /\ cursor_invalidate
      BY <2>1 DEF PutGlyph
    <3>2. QED
      BY <2>0, <3>1, DrawFaithful, TextStep
  <2>2. CASE Newline
    BY <2>0, <2>2, TextStep DEF Newline
  <2>3. CASE Backspace
    <3> DEFINE here == <<cursor_x - 1, cursor_y>>
    <3>1. CASE cursor_x > 0
      BY <2>0, <2>3, <3>1, DrawFaithful, TextStep DEF Backspace
    <3>2. CASE ~(cursor_x > 0)
      BY <2>0, <2>3, <3>2, TextStep DEF Backspace
    <3>3. QED
      BY <3>1, <3>2
  <2>4. CASE Clear
    <3>1. PICK g \in Glyphs : /\ Placed(1, 0, Draw(Blanks, <<0, 0>>, g),
                                              Draw(Blanks, <<0, 0>>, g))
                              /\ cursor_invalidate
      BY <2>4 DEF Clear
    <3>2. DOMAIN Blanks = Cell /\ Faithful(Blanks, Blanks)
      BY DEF Blanks, Faithful
    <3>3. QED
      BY <3>1, <3>2, DrawFaithful, TextStep
  <2>5. ASSUME NEW pos \in Cell, cursor_update(pos) PROVE CursorInv'
    BY <2>5, MoveKeeps
  <2>6. CASE UNCHANGED cursorVars
    BY <2>6 DEF cursorVars, CursorInv, Faithful, SnapshotInv, Second
  <2>7. QED
    BY <2>1, <2>2, <2>3, <2>4, <2>5, <2>6 DEF CursorNext
<1>3. QED
  BY <1>1, <1>2, PTL DEF CursorSpec

\* The pointer never brings back text that has gone nor takes away text that is
\* there (cursor.c:64-85, vga.c:159-166), on a screen of any size.
THEOREM TextStaysTrue == CursorSpec => []NoStaleText
<1>1. CursorInv => NoStaleText
  BY DEF CursorInv, Faithful, SnapshotInv, NoStaleText
<1>2. QED
  BY <1>1, CursorInvariance, PTL

-----------------------------------------------------------------------------
(***************************************************************************)
(* That a double click acts on what was clicked first rests on more than   *)
(* the row: the row that is remembered still has the entry it had, because *)
(* whatever replaces the entries forgets the row.                          *)
(***************************************************************************)
RowInv == last_click_row # NoRow => before = entries[last_click_row]

FilesInv == RowInv /\ ActsOnWhatWasClicked

\* Rows count from 1.
LEMMA RowsAreReal ==
  ASSUME NEW row \in 1 .. FILES_MAX_ENTRIES PROVE row # NoRow
BY RowsAssumption DEF NoRow

\* A double click acts on the entry that the first click hit.
LEMMA DidRight ==
  ASSUME RowInv, NEW row, row # NoRow, IsDoubleClick(row), Did(row)
  PROVE  ActsOnWhatWasClicked'
<1>1. row = last_click_row /\ age <= FILES_DBLCLICK_TICKS
  BY DEF IsDoubleClick
<1>2. before = entries[row]
  BY <1>1 DEF RowInv
<1>3. acted' = [name |-> entries[row], first |-> before, gap |-> age]
  BY DEF Did
<1>4. QED
  BY <1>1, <1>2, <1>3 DEF ActsOnWhatWasClicked

THEOREM FilesInvariance == FilesSpec => []FilesInv
<1>1. FilesInit => FilesInv
  BY DEF FilesInit, FilesInv, RowInv, ActsOnWhatWasClicked
<1>2. FilesInv /\ [FilesNext]_filesVars => FilesInv'
  <2> SUFFICES ASSUME FilesInv, [FilesNext]_filesVars PROVE FilesInv'
    OBVIOUS
  <2> USE DEF FilesInv
  <2>1. CASE Open
    BY <2>1 DEF Open, RowInv, ActsOnWhatWasClicked
  <2>2. CASE Tick \/ Elsewhere \/ Beside
    BY <2>2 DEF Tick, Elsewhere, Beside, RowInv, ActsOnWhatWasClicked
  <2>3. ASSUME NEW row \in 1 .. FILES_MAX_ENTRIES, Select(row) PROVE FilesInv'
    BY <2>3 DEF Select, RowInv, ActsOnWhatWasClicked
  <2>4. ASSUME NEW row \in 1 .. FILES_MAX_ENTRIES, Enter(row) PROVE FilesInv'
    <3>1. ActsOnWhatWasClicked'
      BY <2>4, RowsAreReal, DidRight DEF Enter
    <3>2. RowInv'
      BY <2>4 DEF Enter, RowInv
    <3>3. QED
      BY <3>1, <3>2
  <2>5. ASSUME NEW row \in 1 .. FILES_MAX_ENTRIES, Load(row) PROVE FilesInv'
    <3>1. ActsOnWhatWasClicked'
      BY <2>5, RowsAreReal, DidRight DEF Load
    <3>2. RowInv'
      BY <2>5 DEF Load, RowInv, IsDoubleClick
    <3>3. QED
      BY <3>1, <3>2
  <2>6. CASE UNCHANGED filesVars
    BY <2>6 DEF filesVars, RowInv, ActsOnWhatWasClicked
  <2>7. QED
    BY <2>1, <2>2, <2>3, <2>4, <2>5, <2>6 DEF FilesNext
<1>3. QED
  BY <1>1, <1>2, PTL DEF FilesSpec

\* A double click never opens or enters an entry that only the second of its
\* clicks hit (app.c's files_on_click), for listings of any length.
THEOREM ClicksMeanOneEntry == FilesSpec => []ActsOnWhatWasClicked
<1>1. FilesInv => ActsOnWhatWasClicked
  BY DEF FilesInv
<1>2. QED
  BY <1>1, FilesInvariance, PTL

-----------------------------------------------------------------------------
(***************************************************************************)
(* Console: what a buffer holds is a string, and a line and its history    *)
(* are strings in buffers.                                                 *)
(***************************************************************************)
Alphabet == Printable \cup {NUL}

\* Every non-empty set of naturals has a least element.
LEMMA LeastNat ==
  ASSUME NEW S, S \subseteq Nat, S # {}
  PROVE  \E i \in S : \A j \in S : i <= j
<1>1. \E i \in S : \A j \in S : ~(<<j, i>> \in OpToRel(<, Nat))
  BY WFMin, NatLessThanWellFounded
<1>2. PICK i \in S : \A j \in S : ~(<<j, i>> \in OpToRel(<, Nat))
  BY <1>1
<1>3. ASSUME NEW j \in S PROVE i <= j
  <2>1. <<j, i>> \notin {ss \in Nat \X Nat : ss[1] < ss[2]}
    BY <1>2, <1>3, Zenon DEF OpToRel
  <2>2. QED
    BY <2>1
<1>4. QED
  BY <1>2, <1>3

\* The sizes of the buffers and of the history.
LEMMA Sizes ==
  /\ MAX_CMD_LEN \in Nat /\ MAX_CMD_LEN > 0 /\ MAX_HISTORY \in Nat /\ MAX_HISTORY > 0
  /\ Cols \in Nat /\ Cols > 0
  /\ \A c \in Printable : c # NUL /\ c # NL /\ c # BS
BY ConsoleAssumption DEF NUL, NL, BS

\* A buffer's string ends at the first terminator, or where the buffer does.
LEMMA StrLenIs ==
  ASSUME NEW buffer \in Buffers
  PROVE  /\ StrLen(buffer) \in Cells
         /\ \A i \in 0 .. StrLen(buffer) - 1 : buffer[i] # NUL
         /\ StrLen(buffer) = MAX_CMD_LEN - 1 \/ buffer[StrLen(buffer)] = NUL
<1> DEFINE ends == {n \in Cells : n = MAX_CMD_LEN - 1 \/ buffer[n] = NUL}
<1>1. MAX_CMD_LEN - 1 \in ends /\ ends \subseteq Nat
  BY Sizes DEF Cells
<1>2. PICK n \in ends : \A m \in ends : n <= m
  <2> HIDE DEF ends
  <2>1. QED
    BY <1>1, LeastNat
<1>3. \A i \in 0 .. n - 1 : buffer[i] # NUL
  <2>1. ASSUME NEW i \in 0 .. n - 1, buffer[i] = NUL PROVE FALSE
    <3>1. i \in Cells /\ ~(n <= i)
      BY <1>2, Sizes DEF Cells
    <3>2. QED
      BY <1>2, <2>1, <3>1
  <2>2. QED
    BY <2>1
<1>4. n \in Cells /\ (n = MAX_CMD_LEN - 1 \/ buffer[n] = NUL)
  BY <1>2
<1>5. QED
  BY <1>3, <1>4 DEF StrLen

\* No other length would do.
LEMMA StrLenOnly ==
  ASSUME NEW buffer \in Buffers, NEW n \in Cells, \A i \in 0 .. n - 1 : buffer[i] # NUL,
         n = MAX_CMD_LEN - 1 \/ buffer[n] = NUL
  PROVE  StrLen(buffer) = n
<1>1. PICK m : m = StrLen(buffer)
  OBVIOUS
<1>2. /\ m \in Cells /\ \A i \in 0 .. m - 1 : buffer[i] # NUL
      /\ m = MAX_CMD_LEN - 1 \/ buffer[m] = NUL
  BY <1>1, StrLenIs
<1>3. ~(m < n) /\ ~(n < m)
  BY <1>2, Sizes DEF Cells
<1>4. QED
  BY <1>1, <1>2, <1>3 DEF Cells

\* A copy of a string is that string.
LEMMA CopyIs ==
  ASSUME NEW buffer \in Buffers, NEW s \in Buffers
  PROVE  /\ StrCopy(buffer, s) \in Buffers /\ Ended(buffer, s) \in Buffers
         /\ \A i \in 0 .. StrLen(s) - 1 : StrCopy(buffer, s)[i] = s[i]
         /\ Str(Ended(buffer, s)) = Str(s)
<1>1. PICK n : n = StrLen(s)
  OBVIOUS
<1>2. /\ n \in Cells /\ \A i \in 0 .. n - 1 : s[i] # NUL
      /\ n = MAX_CMD_LEN - 1 \/ s[n] = NUL
  BY <1>1, StrLenIs
<1>3. StrCopy(buffer, s) = [i \in Cells |-> IF i < n THEN s[i] ELSE buffer[i]]
  BY <1>1 DEF StrCopy
<1>4. Ended(buffer, s) = [i \in Cells |-> IF i = n THEN NUL ELSE IF i < n THEN s[i] ELSE buffer[i]]
  BY <1>1, <1>3 DEF Ended
<1>5. StrCopy(buffer, s) \in Buffers /\ Ended(buffer, s) \in Buffers
  BY <1>3, <1>4 DEF Buffers
<1>6. PICK ended : ended = Ended(buffer, s)
  OBVIOUS
<1>7. StrLen(ended) = n
  <2>1. \A i \in 0 .. n - 1 : ended[i] = s[i]
    BY <1>2, <1>4, <1>6, Sizes DEF Cells
  <2>2. ended[n] = NUL
    BY <1>2, <1>4, <1>6
  <2>3. QED
    BY <1>2, <1>5, <1>6, <2>1, <2>2, StrLenOnly
<1>8. Part(ended, 0, n) = Part(s, 0, n)
  <2>1. \A i \in 1 .. n - 0 : ended[0 + i - 1] = s[0 + i - 1]
    BY <1>2, <1>4, <1>6, Sizes DEF Cells
  <2>2. QED
    BY <2>1 DEF Part
<1>9. \A i \in 0 .. n - 1 : StrCopy(buffer, s)[i] = s[i]
  BY <1>2, <1>3, Sizes DEF Cells
<1>10. QED
  BY <1>1, <1>5, <1>6, <1>7, <1>8, <1>9 DEF Str

-----------------------------------------------------------------------------
(***************************************************************************)
(* The buffers: of the line only what is left of its end is looked at, and *)
(* no terminator is among that.                                            *)
(***************************************************************************)
BufferInv ==
  /\ cmd_buffer \in Buffers /\ cmd_len \in Cells /\ cursor_pos \in 0 .. cmd_len
  /\ history \in [0 .. MAX_HISTORY - 1 -> Buffers]
  /\ history_count \in 0 .. MAX_HISTORY
  /\ history_nav \in -1 .. history_count - 1
  /\ saved_line \in Buffers
  /\ \A i \in 0 .. cmd_len - 1 : cmd_buffer[i] # NUL

LEMMA Counts ==
  ASSUME BufferInv
  PROVE  /\ cmd_len \in Nat /\ cmd_len < MAX_CMD_LEN
         /\ cursor_pos \in Nat /\ cursor_pos <= cmd_len
         /\ history_count \in Nat /\ history_count <= MAX_HISTORY
         /\ history_nav \in Int /\ history_nav >= -1 /\ history_nav < history_count
BY Sizes DEF BufferInv, Cells

LEMMA HistoryHolds ==
  ASSUME BufferInv, NEW i \in 0 .. history_count - 1 PROVE history[i] \in Buffers
BY Sizes DEF BufferInv

LEMMA BufferInit == ConsoleInit => BufferInv
BY Sizes DEF ConsoleInit, BufferInv, Buffers, Zeros, Cells

\* A character typed moves what is right of the cursor on.
LEMMA InsertBuffer ==
  ASSUME BufferInv, NEW c \in Printable, insert_char(c)
  PROVE  /\ BufferInv'
         /\ \A i \in 0 .. cmd_len : cmd_buffer'[i] = IF i < cursor_pos THEN cmd_buffer[i]
                                                     ELSE IF i = cursor_pos THEN c
                                                     ELSE cmd_buffer[i - 1]
<1>1. /\ cmd_buffer' = [i \in Cells |-> IF i = cursor_pos THEN c
                                        ELSE IF i \in cursor_pos + 1 .. cmd_len
                                          THEN cmd_buffer[i - 1] ELSE cmd_buffer[i]]
      /\ cmd_len < MAX_CMD_LEN - 1 /\ cmd_len' = cmd_len + 1 /\ cursor_pos' = cursor_pos + 1
      /\ UNCHANGED lines
  BY DEF insert_char
<1>2. cmd_buffer' \in Buffers
  BY <1>1, Sizes DEF BufferInv, Buffers, Cells
<1>3. cmd_len' \in Cells /\ cursor_pos' \in 0 .. cmd_len'
  BY <1>1, Sizes DEF BufferInv, Cells
<1>4. \A i \in 0 .. cmd_len : cmd_buffer'[i] = IF i < cursor_pos THEN cmd_buffer[i]
                                               ELSE IF i = cursor_pos THEN c
                                               ELSE cmd_buffer[i - 1]
  BY <1>1, Sizes DEF BufferInv, Cells
<1>5. \A i \in 0 .. cmd_len' - 1 : cmd_buffer'[i] # NUL
  BY <1>1, <1>4, Sizes DEF BufferInv, Cells
<1>6. QED
  BY <1>1, <1>2, <1>3, <1>4, <1>5 DEF BufferInv, lines

\* A deletion moves it back.
LEMMA DeleteBuffer ==
  ASSUME BufferInv, delete_char_before_cursor
  PROVE  /\ BufferInv'
         /\ \A i \in 0 .. cmd_len - 2 : cmd_buffer'[i] =
              IF i < cursor_pos - 1 THEN cmd_buffer[i] ELSE cmd_buffer[i + 1]
<1>1. /\ cmd_buffer' = [i \in Cells |-> IF i \in cursor_pos - 1 .. cmd_len - 2
                                          THEN cmd_buffer[i + 1] ELSE cmd_buffer[i]]
      /\ cursor_pos > 0 /\ cmd_len' = cmd_len - 1 /\ cursor_pos' = cursor_pos - 1
      /\ UNCHANGED lines
  BY DEF delete_char_before_cursor
<1>2. cmd_buffer' \in Buffers
  BY <1>1, Sizes DEF BufferInv, Buffers, Cells
<1>3. cmd_len' \in Cells /\ cursor_pos' \in 0 .. cmd_len'
  BY <1>1, Sizes DEF BufferInv, Cells
<1>4. \A i \in 0 .. cmd_len - 2 : cmd_buffer'[i] =
        IF i < cursor_pos - 1 THEN cmd_buffer[i] ELSE cmd_buffer[i + 1]
  BY <1>1, Sizes DEF BufferInv, Cells
<1>5. \A i \in 0 .. cmd_len' - 1 : cmd_buffer'[i] # NUL
  BY <1>1, <1>4, Sizes DEF BufferInv, Cells
<1>6. QED
  BY <1>1, <1>2, <1>3, <1>4, <1>5 DEF BufferInv, lines

\* A line that is loaded takes the place of the one that is edited.
LEMMA LoadBuffer ==
  ASSUME BufferInv, NEW s \in Buffers, load_line(s)
  PROVE  /\ cmd_buffer' \in Buffers /\ cmd_len' \in Cells /\ cursor_pos' = cmd_len'
         /\ cmd_len' = StrLen(s) /\ \A i \in 0 .. cmd_len' - 1 : cmd_buffer'[i] # NUL
         /\ Part(cmd_buffer', 0, cmd_len') = Str(s)
<1>1. cmd_buffer' = StrCopy(cmd_buffer, s) /\ cmd_len' = StrLen(s) /\ cursor_pos' = StrLen(s)
  BY DEF load_line
<1>2. StrLen(s) \in Cells /\ \A i \in 0 .. StrLen(s) - 1 : s[i] # NUL
  BY StrLenIs
<1>3. cmd_buffer' \in Buffers /\ \A i \in 0 .. StrLen(s) - 1 : cmd_buffer'[i] = s[i]
  BY <1>1, CopyIs DEF BufferInv
<1>4. Part(cmd_buffer', 0, StrLen(s)) = Part(s, 0, StrLen(s))
  <2>1. PICK n : n = StrLen(s)
    OBVIOUS
  <2>2. \A i \in 1 .. n - 0 : cmd_buffer'[0 + i - 1] = s[0 + i - 1]
    BY <1>2, <1>3, <2>1, Sizes DEF Cells
  <2>3. QED
    BY <2>1, <2>2 DEF Part
<1>5. QED
  BY <1>1, <1>2, <1>3, <1>4 DEF Str

\* The buffer as it was entered holds the line as a string.
LEMMA EnteredIs ==
  ASSUME BufferInv
  PROVE  LET ended == [cmd_buffer EXCEPT ![cmd_len] = NUL]
         IN  /\ ended \in Buffers /\ Str(ended) = Part(cmd_buffer, 0, cmd_len)
             /\ ended[0] = NUL <=> cmd_len = 0
<1> DEFINE ended == [cmd_buffer EXCEPT ![cmd_len] = NUL]
<1>1. ended \in Buffers /\ ended[cmd_len] = NUL
  BY DEF BufferInv, Buffers
<1>2. cmd_len \in Nat /\ \A i \in 0 .. cmd_len - 1 : ended[i] = cmd_buffer[i] /\ ended[i] # NUL
  BY Sizes DEF BufferInv, Buffers, Cells
<1> HIDE DEF ended
<1>3. StrLen(ended) = cmd_len
  BY <1>1, <1>2, StrLenOnly DEF BufferInv
<1>4. Part(ended, 0, cmd_len) = Part(cmd_buffer, 0, cmd_len)
  <2>1. \A i \in 1 .. cmd_len - 0 : ended[0 + i - 1] = cmd_buffer[0 + i - 1]
    BY <1>2
  <2>2. QED
    BY <2>1 DEF Part
<1>5. ended[0] = NUL <=> cmd_len = 0
  BY <1>1, <1>2
<1>6. QED
  BY <1>1, <1>3, <1>4, <1>5 DEF Str, ended

\* The past, as the abstract line has it.
Past == [i \in 1 .. history_count |-> Str(history[i - 1])]

\* A line entered becomes the last of the past.
LEMMA HistoryIs ==
  ASSUME BufferInv, NEW s \in Buffers, HistoryAdd(s)
  PROVE  /\ history' \in [0 .. MAX_HISTORY - 1 -> Buffers]
         /\ history_count' \in 0 .. MAX_HISTORY
         /\ s[0] = NUL => Past' = Past
         /\ s[0] # NUL =>
              /\ history_count' = IF history_count = MAX_HISTORY THEN MAX_HISTORY
                                  ELSE history_count + 1
              /\ \A i \in 0 .. history_count' - 1 :
                   Str(history'[i]) = IF i = history_count' - 1 THEN Str(s)
                                      ELSE Str(history[IF history_count = MAX_HISTORY
                                                       THEN i + 1 ELSE i])
<1>1. CASE s[0] = NUL
  BY <1>1 DEF HistoryAdd, BufferInv, Past
<1>2. CASE s[0] # NUL
  <2> DEFINE full == history_count = MAX_HISTORY
             moved == [i \in 0 .. MAX_HISTORY - 1 |->
                         history[IF full /\ i < MAX_HISTORY - 1 THEN i + 1 ELSE i]]
             top == IF full THEN MAX_HISTORY - 1 ELSE history_count
  <2>1. history' = [moved EXCEPT ![top] = Ended(@, s)] /\ history_count' = top + 1
    BY <1>2 DEF HistoryAdd
  <2>2. top \in 0 .. MAX_HISTORY - 1
    BY Sizes DEF BufferInv
  <2>3. moved \in [0 .. MAX_HISTORY - 1 -> Buffers]
    BY Sizes DEF BufferInv
  <2>4. PICK old : old = moved[top]
    OBVIOUS
  <2>5. old \in Buffers
    BY <2>2, <2>3, <2>4
  <2>6. Ended(old, s) \in Buffers /\ Str(Ended(old, s)) = Str(s)
    BY <2>5, CopyIs
  <2>7. history' = [moved EXCEPT ![top] = Ended(old, s)]
    BY <2>1, <2>4
  <2>8. history' \in [0 .. MAX_HISTORY - 1 -> Buffers]
    BY <2>2, <2>3, <2>6, <2>7
  <2>9. \A i \in 0 .. top : history'[i] = IF i = top THEN Ended(old, s)
                                          ELSE history[IF full THEN i + 1 ELSE i]
    BY <2>2, <2>3, <2>7, Sizes DEF BufferInv
  <2>10. history_count' = (IF full THEN MAX_HISTORY ELSE history_count + 1)
         /\ history_count' \in 0 .. MAX_HISTORY /\ history_count' - 1 = top
    BY <2>1, <2>2, Sizes DEF BufferInv
  <2>11. QED
    BY <1>2, <2>6, <2>8, <2>9, <2>10
<1>3. QED
  BY <1>1, <1>2

-----------------------------------------------------------------------------
(***************************************************************************)
(* The refinement: a key does to the buffers what Line does to the line    *)
(* and to its past.                                                        *)
(***************************************************************************)
\* A character put into a sequence, and one taken out of it.
LEMMA SpliceIs ==
  ASSUME NEW S, NEW s \in Seq(S), NEW k \in 0 .. Len(s), NEW c \in S,
         NEW t \in Seq(S), Len(t) = Len(s) + 1,
         \A i \in 1 .. Len(t) : t[i] = IF i <= k THEN s[i] ELSE IF i = k + 1 THEN c ELSE s[i - 1]
  PROVE  t = SubSeq(s, 1, k) \o <<c>> \o SubSeq(s, k + 1, Len(s))
<1> DEFINE a == SubSeq(s, 1, k)
           b == SubSeq(s, k + 1, Len(s))
           ac == a \o <<c>>
           u == ac \o b
<1>1. a \in Seq(S) /\ Len(a) = k /\ \A i \in 1 .. k : a[i] = s[i]
  OBVIOUS
<1>2. b \in Seq(S) /\ Len(b) = Len(s) - k /\ \A i \in 1 .. Len(s) - k : b[i] = s[k + i]
  OBVIOUS
<1> HIDE DEF a, b
<1>3. ac \in Seq(S) /\ Len(ac) = k + 1 /\ ac[k + 1] = c /\ \A i \in 1 .. k : ac[i] = s[i]
  BY <1>1
<1> HIDE DEF ac
<1>4. /\ u \in Seq(S) /\ Len(u) = Len(s) + 1
      /\ \A i \in 1 .. Len(u) : u[i] = IF i <= k + 1 THEN ac[i] ELSE b[i - (k + 1)]
  <2>1. u \in Seq(S) /\ Len(u) = Len(ac) + Len(b)
        /\ \A i \in 1 .. Len(ac) + Len(b) : u[i] = IF i <= Len(ac) THEN ac[i] ELSE b[i - Len(ac)]
    BY <1>2, <1>3, ConcatProperties
  <2> HIDE DEF u
  <2>2. QED
    BY <1>2, <1>3, <2>1
<1> HIDE DEF u
<1>5. ASSUME NEW i \in 1 .. Len(u) PROVE u[i] = t[i]
  <2>1. CASE i <= k \/ i = k + 1
    <3>1. u[i] = ac[i]
      BY <1>4, <2>1
    <3>2. ac[i] = IF i <= k THEN s[i] ELSE c
      BY <1>3, <2>1
    <3>3. QED
      BY <1>4, <2>1, <3>1, <3>2
  <2>2. CASE i > k + 1
    <3>1. u[i] = b[i - (k + 1)] /\ i - (k + 1) \in 1 .. Len(s) - k
      BY <1>4, <2>2
    <3>2. u[i] = s[k + (i - (k + 1))]
      BY <1>2, <3>1
    <3>3. k + (i - (k + 1)) = i - 1 /\ t[i] = s[i - 1]
      BY <1>4, <2>2
    <3>4. QED
      BY <3>2, <3>3
  <2>3. QED
    BY <1>4, <2>1, <2>2
<1>6. u = t
  BY <1>4, <1>5, SeqEqual
<1>7. QED
  BY <1>6 DEF u, ac, a, b

LEMMA CutIs ==
  ASSUME NEW S, NEW s \in Seq(S), NEW k \in 1 .. Len(s),
         NEW t \in Seq(S), Len(t) = Len(s) - 1,
         \A i \in 1 .. Len(t) : t[i] = IF i < k THEN s[i] ELSE s[i + 1]
  PROVE  t = SubSeq(s, 1, k - 1) \o SubSeq(s, k + 1, Len(s))
<1> DEFINE a == SubSeq(s, 1, k - 1)
           b == SubSeq(s, k + 1, Len(s))
           u == a \o b
<1>1. a \in Seq(S) /\ Len(a) = k - 1 /\ \A i \in 1 .. k - 1 : a[i] = s[i]
  OBVIOUS
<1>2. b \in Seq(S) /\ Len(b) = Len(s) - k /\ \A i \in 1 .. Len(s) - k : b[i] = s[k + i]
  OBVIOUS
<1> HIDE DEF a, b
<1>3. /\ u \in Seq(S) /\ Len(u) = Len(s) - 1
      /\ \A i \in 1 .. Len(u) : u[i] = IF i < k THEN a[i] ELSE b[i - (k - 1)]
  <2>1. u \in Seq(S) /\ Len(u) = Len(a) + Len(b)
        /\ \A i \in 1 .. Len(a) + Len(b) : u[i] = IF i <= Len(a) THEN a[i] ELSE b[i - Len(a)]
    BY <1>1, <1>2, ConcatProperties
  <2> HIDE DEF u
  <2>2. Len(a) + Len(b) = Len(s) - 1 /\ Len(a) = k - 1 /\ Len(u) \in Nat
    BY <1>1, <1>2, <2>1
  <2>3. ASSUME NEW i \in 1 .. Len(u)
        PROVE  u[i] = IF i < k THEN a[i] ELSE b[i - (k - 1)]
    <3>1. i \in 1 .. Len(a) + Len(b) /\ (i <= Len(a) <=> i < k)
      BY <2>1, <2>2
    <3>2. QED
      BY <2>1, <2>2, <3>1
  <2>4. QED
    BY <2>1, <2>2, <2>3
<1> HIDE DEF u
<1>4. ASSUME NEW i \in 1 .. Len(u) PROVE u[i] = t[i]
  <2>1. i \in 1 .. Len(t) /\ i \in Nat /\ Len(s) \in Nat
    BY <1>3
  <2>2. CASE i < k
    <3>1. i \in 1 .. k - 1
      BY <2>1, <2>2
    <3>2. QED
      BY <1>1, <1>3, <2>1, <2>2, <3>1
  <2>3. CASE ~(i < k)
    <3>1. i - (k - 1) \in 1 .. Len(s) - k /\ k + (i - (k - 1)) = i + 1
      BY <2>1, <2>3
    <3>2. u[i] = s[i + 1]
      BY <1>2, <1>3, <2>3, <3>1
    <3>3. QED
      BY <2>1, <2>3, <3>2
  <2>4. QED
    BY <2>2, <2>3
<1>5. u = t
  BY <1>3, <1>4, SeqEqual
<1>6. QED
  BY <1>5 DEF u, a, b

\* The line as a sequence.
Text == Part(cmd_buffer, 0, cmd_len)
Draft == IF history_nav = -1 THEN << >> ELSE Str(saved_line)

LEMMA TextIs ==
  ASSUME BufferInv
  PROVE  /\ Text \in Seq(Alphabet) /\ Len(Text) = cmd_len
         /\ \A i \in 1 .. cmd_len : Text[i] = cmd_buffer[i - 1]
         /\ Text = << >> <=> cmd_len = 0
<1>1. cmd_len \in Nat /\ Text = [i \in 1 .. cmd_len |-> cmd_buffer[i - 1]]
  <2>1. cmd_len \in Nat /\ cmd_len - 0 = cmd_len /\ \A i \in 1 .. cmd_len : 0 + i - 1 = i - 1
    BY Sizes DEF BufferInv, Cells
  <2>2. QED
    BY <2>1 DEF Text, Part
<1>2. \A i \in 1 .. cmd_len : cmd_buffer[i - 1] \in Alphabet
  BY Sizes DEF BufferInv, Buffers, Cells, Alphabet
<1>3. Text \in Seq(Alphabet) /\ Len(Text) = cmd_len
  BY <1>1, <1>2
<1>4. QED
  BY <1>1, <1>3

LEMMA TextIsNext ==
  (BufferInv => /\ Text \in Seq(Alphabet) /\ Len(Text) = cmd_len
                /\ \A i \in 1 .. cmd_len : Text[i] = cmd_buffer[i - 1]
                /\ Text = << >> <=> cmd_len = 0)'
BY TextIs, PTL

LEMMA PastIs ==
  ASSUME BufferInv
  PROVE  /\ Past \in Seq({Str(b) : b \in Buffers}) /\ Len(Past) = history_count
         /\ \A i \in 1 .. history_count : Past[i] = Str(history[i - 1])
<1>1. history_count \in Nat /\ \A i \in 1 .. history_count : history[i - 1] \in Buffers
  BY Sizes DEF BufferInv
<1>2. QED
  BY <1>1 DEF Past

\* What of the abstract line a step of the console leaves alone.
LEMMA LinesSame ==
  ASSUME UNCHANGED lines
  PROVE  Past' = Past /\ Draft' = Draft /\ (history_nav + 1)' = history_nav + 1
<1>1. history' = history /\ history_count' = history_count /\ history_nav' = history_nav
      /\ saved_line' = saved_line
  BY DEF lines
<1>2. Past' = Past
  BY <1>1 DEF Past, Str, Part, StrLen, Cells
<1>3. Draft' = Draft
  BY <1>1 DEF Draft, Str, Part, StrLen, Cells
<1>4. QED
  BY <1>1, <1>2, <1>3

LEMMA EditorInit == ConsoleInit => Editor!Init
<1>1. ASSUME ConsoleInit PROVE Text = << >> /\ cursor_pos = 0 /\ Past = << >> /\ history_nav + 1 = 0 /\ Draft = << >>
  <2>1. BufferInv /\ cmd_len = 0 /\ cursor_pos = 0 /\ history_count = 0 /\ history_nav = -1
    BY <1>1, BufferInit DEF ConsoleInit
  <2>2. Past = << >>
    BY <2>1, PastIs
  <2>3. QED
    BY <2>1, <2>2, TextIs DEF Draft
<1>2. QED
  BY <1>1 DEF Editor!Init, Text, Past, Draft

LEMMA MoveSteps ==
  ASSUME BufferInv, cursor_left \/ cursor_right PROVE Editor!Move /\ BufferInv'
<1>1. UNCHANGED <<cmd_buffer, cmd_len, lines>>
  BY DEF cursor_left, cursor_right
<1>2. Text' = Text /\ Past' = Past /\ Draft' = Draft /\ (history_nav + 1)' = history_nav + 1
  BY <1>1, LinesSame DEF Text, Part
<1>3. cursor_pos' \in {cursor_pos - 1, cursor_pos + 1} \cap (0 .. cmd_len)
  BY Sizes DEF cursor_left, cursor_right, BufferInv, Cells
<1>4. Len(Text) = cmd_len
  BY TextIs
<1>5. BufferInv'
  BY <1>1, <1>3 DEF BufferInv, lines
<1>6. QED
  BY <1>2, <1>3, <1>4, <1>5 DEF Editor!Move, Text, Past, Draft

LEMMA InsertSteps ==
  ASSUME BufferInv, NEW c \in Printable, insert_char(c) PROVE Editor!Insert(c) /\ BufferInv'
<1>1. /\ cmd_len < MAX_CMD_LEN - 1 /\ cmd_len' = cmd_len + 1 /\ cursor_pos' = cursor_pos + 1
      /\ UNCHANGED lines
  BY DEF insert_char
<1>2. BufferInv' /\ \A i \in 0 .. cmd_len : cmd_buffer'[i] = IF i < cursor_pos THEN cmd_buffer[i]
                                                             ELSE IF i = cursor_pos THEN c
                                                             ELSE cmd_buffer[i - 1]
  BY InsertBuffer
<1>3. Past' = Past /\ Draft' = Draft /\ (history_nav + 1)' = history_nav + 1
  BY <1>1, LinesSame
<1>4. /\ Text \in Seq(Alphabet) /\ Len(Text) = cmd_len
      /\ \A i \in 1 .. cmd_len : Text[i] = cmd_buffer[i - 1]
  BY TextIs
<1>5. /\ Text' \in Seq(Alphabet) /\ Len(Text') = cmd_len'
      /\ \A i \in 1 .. cmd_len' : Text'[i] = cmd_buffer'[i - 1]
  BY <1>2, TextIsNext
<1>6. cursor_pos \in 0 .. Len(Text) /\ c \in Alphabet /\ cmd_len \in Nat
  BY <1>4, Sizes DEF BufferInv, Alphabet, Cells
<1>7. ASSUME NEW i \in 1 .. Len(Text')
      PROVE  Text'[i] = IF i <= cursor_pos THEN Text[i]
                        ELSE IF i = cursor_pos + 1 THEN c ELSE Text[i - 1]
  <2>1. i - 1 \in 0 .. cmd_len /\ Text'[i] = cmd_buffer'[i - 1]
    BY <1>1, <1>5, <1>6
  <2>2. Text'[i] = IF i - 1 < cursor_pos THEN cmd_buffer[i - 1]
                   ELSE IF i - 1 = cursor_pos THEN c ELSE cmd_buffer[i - 1 - 1]
    BY <1>2, <2>1
  <2>3. QED
    BY <1>4, <1>6, <2>1, <2>2
<1>8. Text' = SubSeq(Text, 1, cursor_pos) \o <<c>> \o SubSeq(Text, cursor_pos + 1, Len(Text))
  BY <1>1, <1>4, <1>5, <1>6, <1>7, SpliceIs, ZenonT(60)
<1>9. QED
  BY <1>1, <1>2, <1>3, <1>4, <1>8 DEF Editor!Insert, Text, Past, Draft

LEMMA DeleteSteps ==
  ASSUME BufferInv, delete_char_before_cursor PROVE Editor!Delete /\ BufferInv'
<1>1. cursor_pos > 0 /\ cmd_len' = cmd_len - 1 /\ cursor_pos' = cursor_pos - 1 /\ UNCHANGED lines
  BY DEF delete_char_before_cursor
<1>2. BufferInv' /\ \A i \in 0 .. cmd_len - 2 : cmd_buffer'[i] =
                      IF i < cursor_pos - 1 THEN cmd_buffer[i] ELSE cmd_buffer[i + 1]
  BY DeleteBuffer
<1>3. Past' = Past /\ Draft' = Draft /\ (history_nav + 1)' = history_nav + 1
  BY <1>1, LinesSame
<1>4. /\ Text \in Seq(Alphabet) /\ Len(Text) = cmd_len
      /\ \A i \in 1 .. cmd_len : Text[i] = cmd_buffer[i - 1]
  BY TextIs
<1>5. /\ Text' \in Seq(Alphabet) /\ Len(Text') = cmd_len'
      /\ \A i \in 1 .. cmd_len' : Text'[i] = cmd_buffer'[i - 1]
  BY <1>2, TextIsNext
<1>6. cursor_pos \in 1 .. Len(Text) /\ cmd_len \in Nat
  BY <1>1, <1>4, Sizes DEF BufferInv, Cells
<1>7. ASSUME NEW i \in 1 .. Len(Text')
      PROVE  Text'[i] = IF i < cursor_pos THEN Text[i] ELSE Text[i + 1]
  <2>1. i - 1 \in 0 .. cmd_len - 2 /\ Text'[i] = cmd_buffer'[i - 1]
    BY <1>1, <1>5, <1>6
  <2>2. Text'[i] = IF i - 1 < cursor_pos - 1 THEN cmd_buffer[i - 1] ELSE cmd_buffer[i - 1 + 1]
    BY <1>2, <2>1
  <2>3. QED
    BY <1>4, <1>6, <2>1, <2>2
<1>8. Text' = SubSeq(Text, 1, cursor_pos - 1) \o SubSeq(Text, cursor_pos + 1, Len(Text))
  BY <1>1, <1>4, <1>5, <1>6, <1>7, CutIs
<1>9. QED
  BY <1>1, <1>2, <1>3, <1>8 DEF Editor!Delete, Text, Past, Draft

\* What is loaded is shown by the abstract line.
LEMMA LoadShows ==
  ASSUME BufferInv, NEW s \in Buffers, load_line(s)
  PROVE  Text' = Str(s) /\ cursor_pos' = Len(Str(s))
<1>1. /\ cmd_len' \in Cells /\ cursor_pos' = cmd_len' /\ cmd_len' = StrLen(s)
      /\ Part(cmd_buffer', 0, cmd_len') = Str(s)
  BY LoadBuffer
<1>2. Len(Str(s)) = StrLen(s)
  <2>1. StrLen(s) \in Nat
    BY <1>1, Sizes DEF Cells
  <2>2. QED
    BY <2>1 DEF Str, Part
<1>3. QED
  BY <1>1, <1>2 DEF Text

\* A line begun is kept when the history is entered.
LEMMA SavedIs ==
  ASSUME BufferInv
  PROVE  LET kept == [i \in Cells |-> IF i < cmd_len THEN cmd_buffer[i]
                                      ELSE IF i = cmd_len THEN NUL ELSE saved_line[i]]
         IN  kept \in Buffers /\ Str(kept) = Text
<1> DEFINE kept == [i \in Cells |-> IF i < cmd_len THEN cmd_buffer[i]
                                    ELSE IF i = cmd_len THEN NUL ELSE saved_line[i]]
<1>1. kept \in Buffers /\ kept[cmd_len] = NUL
  <2>1. cmd_buffer \in Buffers /\ saved_line \in Buffers /\ cmd_len \in Cells
    BY DEF BufferInv
  <2>2. \A i \in Cells : kept[i] \in Printable \cup {NUL}
    BY <2>1 DEF Buffers
  <2>3. QED
    BY <2>1, <2>2, Counts DEF Buffers
<1>2. cmd_len \in Nat /\ \A i \in 0 .. cmd_len - 1 : kept[i] = cmd_buffer[i] /\ kept[i] # NUL
  BY Sizes DEF BufferInv, Buffers, Cells
<1> HIDE DEF kept
<1>3. StrLen(kept) = cmd_len
  BY <1>1, <1>2, StrLenOnly DEF BufferInv
<1>4. Part(kept, 0, cmd_len) = Text
  <2>1. \A i \in 1 .. cmd_len - 0 : kept[0 + i - 1] = cmd_buffer[0 + i - 1]
    BY <1>2
  <2>2. QED
    BY <2>1 DEF Part, Text
<1>5. QED
  BY <1>1, <1>3, <1>4 DEF Str, kept

LEMMA UpSteps ==
  ASSUME BufferInv, KeyUp PROVE Editor!Older /\ BufferInv'
<1>1. /\ history_count > 0 /\ history_nav # 0
      /\ history_nav' = (IF history_nav = -1 THEN history_count ELSE history_nav) - 1
      /\ history' = history /\ history_count' = history_count
      /\ load_line(history[history_nav'])
  BY DEF KeyUp
<1>2. history_nav' \in 0 .. history_count - 1
  BY <1>1, Counts
<1>3. PICK s \in Buffers : s = history[history_nav']
  BY <1>2, HistoryHolds
<1>4. Text' = Str(s) /\ cursor_pos' = Len(Str(s))
  BY <1>1, <1>3, LoadShows
<1>5. saved_line' \in Buffers
      /\ IF history_nav = -1 THEN Str(saved_line') = Text ELSE saved_line' = saved_line
  BY SavedIs DEF KeyUp, BufferInv
<1>6. Past' = Past
  BY <1>1 DEF Past, Str, Part, StrLen, Cells
<1>7. BufferInv'
  <2>1. /\ cmd_buffer' \in Buffers /\ cmd_len' \in Cells /\ cursor_pos' = cmd_len'
        /\ \A i \in 0 .. cmd_len' - 1 : cmd_buffer'[i] # NUL
    BY <1>1, <1>3, LoadBuffer
  <2>2. cursor_pos' \in 0 .. cmd_len'
    BY <2>1, Sizes DEF Cells
  <2>3. QED
    <3>1. history_nav' \in -1 .. history_count' - 1
      BY <1>1, <1>2, Counts
    <3>2. QED
      BY <1>1, <1>5, <2>1, <2>2, <3>1 DEF BufferInv
<1>8. Past # << >> /\ Past[history_nav' + 1] = Str(s) /\ Len(Past) = history_count
  <2>1. PICK n \in 0 .. history_count - 1 : n = history_nav'
    BY <1>2
  <2>2. n + 1 \in 1 .. history_count /\ n + 1 - 1 = n
    BY Counts
  <2>3. Len(Past) = history_count /\ Past[n + 1] = Str(history[n])
    BY <2>2, PastIs
  <2>4. QED
    BY <1>1, <1>3, <2>1, <2>3, Counts
<1>9. Draft' = IF history_nav + 1 = 0 THEN Text ELSE Draft
  <2>1. history_nav' # -1 /\ history_nav \in Int
    BY <1>2, Counts
  <2>2. Draft' = Str(saved_line')
    BY <2>1 DEF Draft, Str, Part, StrLen, Cells
  <2>3. history_nav # -1 => Draft = Str(saved_line)
    BY DEF Draft
  <2>4. QED
    BY <1>5, <2>1, <2>2, <2>3
<1>10. /\ history_nav + 1 # 1 /\ history_nav' + 1 = (IF history_nav + 1 = 0 THEN history_count ELSE (history_nav + 1) - 1)
  BY <1>1, <1>2, Counts
<1>11. QED
  <2>1. Past # << >> /\ history_nav + 1 # 1
    BY <1>8, <1>10
  <2>2. (history_nav + 1)' = IF history_nav + 1 = 0 THEN Len(Past) ELSE (history_nav + 1) - 1
    BY <1>8, <1>10
  <2>3. Draft' = IF history_nav + 1 = 0 THEN Text ELSE Draft
    BY <1>9
  <2>4. Text' = Past[(history_nav + 1)'] /\ cursor_pos' = Len(Past[(history_nav + 1)'])
    BY <1>4, <1>8
  <2>5. UNCHANGED Past
    BY <1>6
  <2>6. Editor!Older
    BY <2>1, <2>2, <2>3, <2>4, <2>5, Zenon DEF Editor!Older, Editor!Show, Text, Past, Draft
  <2>7. QED
    BY <1>7, <2>6

LEMMA DownSteps ==
  ASSUME BufferInv, KeyDown PROVE Editor!Newer /\ BufferInv'
<1>1. /\ history_nav # -1 /\ history' = history /\ history_count' = history_count
      /\ saved_line' = saved_line
  BY DEF KeyDown
<1>2. Past' = Past
  BY <1>1 DEF Past, Str, Part, StrLen, Cells
<1>3. Len(Past) = history_count /\ \A i \in 1 .. history_count : Past[i] = Str(history[i - 1])
  BY PastIs
<1>4. history_nav \in 0 .. history_count - 1 /\ history_count \in Nat /\ history_count <= MAX_HISTORY
  BY <1>1, Counts
<1>5. CASE history_nav + 1 >= history_count
  <2>1. history_nav' = -1 /\ load_line(saved_line) /\ saved_line \in Buffers
    BY <1>5 DEF KeyDown, BufferInv
  <2>2. Text' = Str(saved_line) /\ cursor_pos' = Len(Str(saved_line))
    BY <2>1, LoadShows
  <2>3. Draft = Str(saved_line) /\ Draft' = << >>
    BY <1>1, <2>1 DEF Draft
  <2>4. BufferInv'
    <3>1. /\ cmd_buffer' \in Buffers /\ cmd_len' \in Cells /\ cursor_pos' = cmd_len'
          /\ \A i \in 0 .. cmd_len' - 1 : cmd_buffer'[i] # NUL
      BY <2>1, LoadBuffer
    <3>2. cursor_pos' \in 0 .. cmd_len' /\ history_nav' \in -1 .. history_count' - 1
      BY <1>1, <1>4, <2>1, <3>1, Sizes DEF Cells
    <3>3. QED
      BY <1>1, <3>1, <3>2 DEF BufferInv
  <2>5. history_nav + 1 # 0 /\ ~(history_nav + 1 < Len(Past)) /\ history_nav' + 1 = 0
    BY <1>3, <1>4, <1>5, <2>1
  <2>6. QED
    BY <1>2, <2>2, <2>3, <2>4, <2>5 DEF Editor!Newer, Editor!Show, Text, Past, Draft
<1>6. CASE ~(history_nav + 1 >= history_count)
  <2>1. history_nav' = history_nav + 1 /\ load_line(history[history_nav + 1])
    BY <1>6 DEF KeyDown
  <2>2. PICK s \in Buffers : s = history[history_nav + 1]
    BY <1>4, <1>6, HistoryHolds
  <2>3. Text' = Str(s) /\ cursor_pos' = Len(Str(s))
    BY <2>1, <2>2, LoadShows
  <2>4. Draft' = Draft
    BY <1>1, <1>4, <2>1 DEF Draft, Str, Part, StrLen, Cells
  <2>5. BufferInv'
    <3>1. /\ cmd_buffer' \in Buffers /\ cmd_len' \in Cells /\ cursor_pos' = cmd_len'
          /\ \A i \in 0 .. cmd_len' - 1 : cmd_buffer'[i] # NUL
      BY <2>1, <2>2, LoadBuffer
    <3>2. cursor_pos' \in 0 .. cmd_len' /\ history_nav' \in -1 .. history_count' - 1
      BY <1>1, <1>4, <1>6, <2>1, <3>1, Sizes DEF Cells
    <3>3. QED
      BY <1>1, <3>1, <3>2 DEF BufferInv
  <2>6. Past[history_nav + 1 + 1] = Str(s)
    <3>1. history_nav + 1 + 1 \in 1 .. history_count /\ history_nav + 1 + 1 - 1 = history_nav + 1
      BY <1>4, <1>6
    <3>2. PICK n \in 1 .. history_count : n = history_nav + 1 + 1
      BY <3>1
    <3>3. Past[n] = Str(history[n - 1])
      BY <3>2, PastIs
    <3>4. QED
      BY <2>2, <3>1, <3>2, <3>3, Counts
  <2>7. history_nav + 1 # 0 /\ history_nav + 1 < Len(Past) /\ history_nav' + 1 = history_nav + 1 + 1
    BY <1>3, <1>4, <1>6, <2>1
  <2>8. QED
    BY <1>2, <2>3, <2>4, <2>5, <2>6, <2>7 DEF Editor!Newer, Editor!Show, Text, Past, Draft
<1>7. QED
  BY <1>5, <1>6

LEMMA PastIsNext ==
  (BufferInv => /\ Past \in Seq({Str(b) : b \in Buffers}) /\ Len(Past) = history_count
                /\ \A i \in 1 .. history_count : Past[i] = Str(history[i - 1]))'
BY PastIs, PTL

\* What is kept of a sequence that has become longer by one.
LEMMA KeptIs ==
  ASSUME NEW S, NEW s \in Seq(S), Len(s) <= MAX_HISTORY, NEW c \in S, NEW t \in Seq(S),
         Len(t) = IF Len(s) = MAX_HISTORY THEN MAX_HISTORY ELSE Len(s) + 1,
         \A i \in 1 .. Len(t) : t[i] = IF i = Len(t) THEN c
                                       ELSE s[IF Len(s) = MAX_HISTORY THEN i + 1 ELSE i]
  PROVE  t = Editor!Kept(Append(s, c))
<1> DEFINE a == Append(s, c)
           m == IF Len(a) > MAX_HISTORY THEN 2 ELSE 1
           k == SubSeq(a, m, Len(a))
<1>1. a \in Seq(S) /\ Len(a) = Len(s) + 1 /\ \A i \in 1 .. Len(s) : a[i] = s[i]
  OBVIOUS
<1>2. a[Len(s) + 1] = c
  OBVIOUS
<1>3. Editor!Kept(a) = k
  BY DEF Editor!Kept
<1> HIDE DEF a
<1>4. CASE Len(s) = MAX_HISTORY
  <2>1. m = 2 /\ Len(t) = Len(s)
    BY <1>1, <1>4, Sizes
  <2>2. k \in Seq(S) /\ Len(k) = Len(s) /\ \A i \in 1 .. Len(s) : k[i] = a[i + 1]
    BY <1>1, <2>1
  <2> HIDE DEF k
  <2>3. ASSUME NEW i \in 1 .. Len(s) PROVE k[i] = t[i]
    <3>1. t[i] = IF i = Len(s) THEN c ELSE s[i + 1]
      BY <1>4, <2>1
    <3>2. k[i] = IF i = Len(s) THEN c ELSE s[i + 1]
      BY <1>1, <1>2, <2>2
    <3>3. QED
      BY <3>1, <3>2
  <2>4. QED
    BY <1>3, <2>1, <2>2, <2>3, SeqEqual DEF a
<1>5. CASE Len(s) # MAX_HISTORY
  <2>1. m = 1 /\ Len(t) = Len(s) + 1
    BY <1>1, <1>5, Sizes
  <2>2. k \in Seq(S) /\ Len(k) = Len(s) + 1 /\ \A i \in 1 .. Len(s) + 1 : k[i] = a[i]
    BY <1>1, <2>1
  <2> HIDE DEF k
  <2>3. ASSUME NEW i \in 1 .. Len(s) + 1 PROVE k[i] = t[i]
    <3>1. t[i] = IF i = Len(s) + 1 THEN c ELSE s[i]
      BY <1>5, <2>1
    <3>2. k[i] = IF i = Len(s) + 1 THEN c ELSE s[i]
      BY <1>1, <1>2, <2>2
    <3>3. QED
      BY <3>1, <3>2
  <2>4. QED
    BY <1>3, <2>1, <2>2, <2>3, SeqEqual DEF a
<1>6. QED
  BY <1>4, <1>5

LEMMA TokenBuffer ==
  ASSUME NEW s \in Buffers PROVE Tokenized(s) \in Buffers
BY DEF Tokenized, Buffers

LEMMA EnterSteps ==
  ASSUME BufferInv, EnterKey PROVE Editor!Enter /\ BufferInv'
<1> DEFINE e == [cmd_buffer EXCEPT ![cmd_len] = NUL]
<1>1. e \in Buffers /\ Str(e) = Text /\ (e[0] = NUL <=> cmd_len = 0)
  BY EnteredIs DEF Text
<1>2. /\ HistoryAdd(e) /\ history_nav' = -1 /\ cmd_buffer' = Tokenized(e)
      /\ cmd_len' = 0 /\ cursor_pos' = 0 /\ saved_line' = saved_line
  BY DEF EnterKey
<1> HIDE DEF e
<1>3. BufferInv'
  <2>1. history' \in [0 .. MAX_HISTORY - 1 -> Buffers] /\ history_count' \in 0 .. MAX_HISTORY
    BY <1>1, <1>2, HistoryIs
  <2>2. cmd_buffer' \in Buffers
    BY <1>1, <1>2, TokenBuffer
  <2>3. 0 \in Cells /\ -1 \in -1 .. history_count' - 1 /\ saved_line \in Buffers
    <3>1. PICK n \in 0 .. MAX_HISTORY : n = history_count'
      BY <2>1
    <3>2. 0 \in Cells /\ -1 \in -1 .. n - 1
      BY Sizes DEF Cells
    <3>3. saved_line \in Buffers
      BY DEF BufferInv
    <3>4. QED
      BY <3>1, <3>2, <3>3
  <2>4. cursor_pos' \in 0 .. cmd_len' /\ \A i \in 0 .. cmd_len' - 1 : cmd_buffer'[i] # NUL
    <3>1. 0 .. 0 - 1 = {} /\ 0 \in 0 .. 0
      OBVIOUS
    <3>2. QED
      BY <1>2, <3>1
  <2>5. QED
    BY <1>2, <2>1, <2>2, <2>3, <2>4 DEF BufferInv
<1>4. Text' = << >> /\ Draft' = << >> /\ (history_nav + 1)' = 0
  BY <1>2, <1>3, TextIsNext DEF Draft
<1>5. Text = << >> <=> e[0] = NUL
  BY <1>1, TextIs
<1>6. CASE e[0] = NUL
  <2>1. Past' = Past
    BY <1>1, <1>2, <1>6, HistoryIs
  <2>2. QED
    BY <1>2, <1>3, <1>4, <1>5, <1>6, <2>1 DEF Editor!Enter, Editor!Show, Text, Past, Draft
<1>7. CASE e[0] # NUL
  <2>1. /\ history_count' = IF history_count = MAX_HISTORY THEN MAX_HISTORY
                            ELSE history_count + 1
        /\ \A i \in 0 .. history_count' - 1 :
             Str(history'[i]) = IF i = history_count' - 1 THEN Str(e)
                                ELSE Str(history[IF history_count = MAX_HISTORY
                                                 THEN i + 1 ELSE i])
    BY <1>1, <1>2, <1>7, HistoryIs
  <2>2. /\ Past \in Seq({Str(b) : b \in Buffers}) /\ Len(Past) = history_count
        /\ \A i \in 1 .. history_count : Past[i] = Str(history[i - 1])
    BY PastIs
  <2>3. /\ Past' \in Seq({Str(b) : b \in Buffers}') /\ Len(Past') = history_count'
        /\ \A i \in 1 .. history_count' : Past'[i] = Str(history'[i - 1])
    BY <1>3, PastIsNext
  <2>4. {Str(b) : b \in Buffers}' = {Str(b) : b \in Buffers}
    BY DEF Str, Part, StrLen, Buffers, Cells
  <2>5. Text \in {Str(b) : b \in Buffers}
    BY <1>1
  <2>a. PICK n \in Nat : n = history_count'
    BY <2>1, Counts, Sizes
  <2>6. PICK p : p = Past' /\ n = history_count'
    BY <2>a
  <2>7. /\ n = IF history_count = MAX_HISTORY THEN MAX_HISTORY ELSE history_count + 1
        /\ p \in Seq({Str(b) : b \in Buffers}) /\ Len(p) = n
        /\ \A i \in 1 .. n : p[i] = IF i - 1 = n - 1 THEN Text
                                    ELSE Str(history[IF history_count = MAX_HISTORY
                                                     THEN (i - 1) + 1 ELSE i - 1])
    <3>1. \A i \in 1 .. n : i - 1 \in 0 .. n - 1
      OBVIOUS
    <3>2. \A i \in 0 .. n - 1 :
            Str(history'[i]) = IF i = n - 1 THEN Text
                               ELSE Str(history[IF history_count = MAX_HISTORY
                                                THEN i + 1 ELSE i])
      BY <1>1, <2>1, <2>6
    <3>3. \A i \in 1 .. n : p[i] = Str(history'[i - 1])
      BY <2>3, <2>6
    <3>4. QED
      BY <2>1, <2>3, <2>4, <2>6, <3>1, <3>2, <3>3
  <2>8. ASSUME NEW i \in 1 .. n
        PROVE  p[i] = IF i = n THEN Text
                      ELSE Past[IF history_count = MAX_HISTORY THEN i + 1 ELSE i]
    <3>1. CASE i = n
      BY <2>7, <3>1
    <3>2. CASE i # n
      <4>1. i - 1 # n - 1 /\ i \in 1 .. n - 1 /\ history_count \in Nat
        BY <3>2, Counts
      <4>2. CASE history_count = MAX_HISTORY
        <5>1. i + 1 \in 1 .. history_count /\ (i + 1) - 1 = i /\ (i - 1) + 1 = i
          BY <2>7, <4>1, <4>2
        <5>2. Past[i + 1] = Str(history[i])
          BY <2>2, <5>1
        <5>3. p[i] = Str(history[i])
          BY <2>7, <4>1, <4>2, <5>1
        <5>4. QED
          BY <3>2, <4>2, <5>2, <5>3
      <4>3. CASE history_count # MAX_HISTORY
        <5>1. i \in 1 .. history_count
          BY <2>7, <4>1, <4>3
        <5>2. Past[i] = Str(history[i - 1])
          BY <2>2, <5>1
        <5>3. p[i] = Str(history[i - 1])
          BY <2>7, <4>1, <4>3
        <5>4. QED
          BY <3>2, <4>3, <5>2, <5>3
      <4>4. QED
        BY <4>2, <4>3
    <3>3. QED
      BY <3>1, <3>2
  <2>9. Past' = Editor!Kept(Append(Past, Text))
    <3>1. Len(Past) <= MAX_HISTORY
      BY <2>2, Counts
    <3>2. p = Editor!Kept(Append(Past, Text))
      <4>1. PICK S : S = {Str(b) : b \in Buffers}
        OBVIOUS
      <4>2. Past \in Seq(S) /\ p \in Seq(S) /\ Text \in S
        BY <2>2, <2>5, <2>7, <4>1
      <4>3. Len(p) = IF Len(Past) = MAX_HISTORY THEN MAX_HISTORY ELSE Len(Past) + 1
        BY <2>2, <2>7
      <4>4. \A i \in 1 .. Len(p) : p[i] = IF i = Len(p) THEN Text
                                          ELSE Past[IF Len(Past) = MAX_HISTORY THEN i + 1 ELSE i]
        BY <2>2, <2>7, <2>8
      <4>5. QED
        BY <3>1, <4>2, <4>3, <4>4, KeptIs
    <3>3. QED
      BY <2>6, <3>2
  <2>10. QED
    BY <1>2, <1>3, <1>4, <1>5, <1>7, <2>9 DEF Editor!Enter, Editor!Show, Text, Past, Draft
<1>8. QED
  BY <1>6, <1>7

LEMMA CancelSteps ==
  ASSUME BufferInv, CtrlC PROVE Editor!Cancel /\ BufferInv'
<1>1. /\ cmd_len' = 0 /\ cursor_pos' = 0 /\ history_nav' = -1
      /\ UNCHANGED <<cmd_buffer, history, history_count, saved_line>>
  BY DEF CtrlC
<1>2. BufferInv'
  <2>1. 0 \in Cells /\ -1 \in -1 .. history_count - 1
    BY Counts, Sizes DEF Cells
  <2>2. QED
    BY <1>1, <2>1 DEF BufferInv
<1>3. Text' = << >> /\ Draft' = << >> /\ (history_nav + 1)' = 0
  BY <1>1, <1>2, TextIsNext DEF Draft
<1>4. Past' = Past
  BY <1>1 DEF Past, Str, Part, StrLen, Cells
<1>5. QED
  BY <1>1, <1>2, <1>3, <1>4 DEF Editor!Cancel, Editor!Show, Text, Past, Draft

LEMMA EditorNext ==
  ASSUME BufferInv, [ConsoleNext]_consoleVars PROVE [Editor!Next]_(Editor!vars) /\ BufferInv'
<1>1. CASE cursor_left \/ cursor_right
  BY <1>1, MoveSteps DEF Editor!Next
<1>2. CASE \E c \in Printable : insert_char(c)
  BY <1>2, InsertSteps DEF Editor!Next
<1>3. CASE delete_char_before_cursor
  BY <1>3, DeleteSteps DEF Editor!Next
<1>4. CASE KeyUp
  BY <1>4, UpSteps DEF Editor!Next
<1>5. CASE KeyDown
  BY <1>5, DownSteps DEF Editor!Next
<1>6. CASE EnterKey
  BY <1>6, EnterSteps DEF Editor!Next
<1>7. CASE CtrlC
  BY <1>7, CancelSteps DEF Editor!Next
<1>8. CASE UNCHANGED consoleVars
  <2>1. UNCHANGED <<cmd_buffer, cmd_len, cursor_pos, lines>>
    BY <1>8 DEF consoleVars, line
  <2>2. BufferInv'
    BY <2>1 DEF BufferInv, lines
  <2>3. Text' = Text /\ Past' = Past /\ Draft' = Draft /\ (history_nav + 1)' = history_nav + 1
    BY <2>1, LinesSame DEF Text, Part
  <2>4. UNCHANGED Editor!vars
    BY <2>1, <2>3 DEF Editor!vars, Text, Past, Draft
  <2>5. QED
    BY <2>2, <2>4
<1>9. QED
  BY <1>1, <1>2, <1>3, <1>4, <1>5, <1>6, <1>7, <1>8 DEF ConsoleNext

\* The shell's buffers, with their lengths, terminators and what earlier lines left
\* in them, amount to a line with a cursor and the last lines entered.
THEOREM ConsoleImplementsLine == ConsoleSpec => ImplementsLine
<1>1. ConsoleInit => BufferInv /\ Editor!Init
  BY BufferInit, EditorInit
<1>2. BufferInv /\ [ConsoleNext]_consoleVars => BufferInv' /\ [Editor!Next]_(Editor!vars)
  BY EditorNext
<1>3. QED
  BY <1>1, <1>2, PTL DEF ConsoleSpec, ImplementsLine, Editor!Spec

-----------------------------------------------------------------------------
(***************************************************************************)
(* Characters given to the screen one after the other.                     *)
(***************************************************************************)
\* What holds at first and goes on holding, holds at every number.
LEMMA Induct ==
  ASSUME NEW m \in Nat, NEW good, 0 \in good, \A n \in 1 .. m : n - 1 \in good => n \in good
  PROVE  \A n \in 0 .. m : n \in good
<1> DEFINE bad == {n \in 0 .. m : n \notin good}
<1>1. SUFFICES ASSUME bad # {} PROVE FALSE
  OBVIOUS
<1>2. bad \subseteq Nat
  OBVIOUS
<1>3. PICK n \in bad : \A j \in bad : n <= j
  <2> HIDE DEF bad
  <2>1. QED
    BY <1>1, <1>2, LeastNat
<1>4. n \in 1 .. m /\ n - 1 \in 0 .. m /\ ~(n <= n - 1)
  OBVIOUS
<1>5. QED
  BY <1>3, <1>4

\* The screens that are drawn one character after the other.
Drawn(scr, chars, f) ==
  f = [n \in 0 .. Len(chars) |-> IF n = 0 THEN scr ELSE Put(f[n-1], chars[n])]

LEMMA DrawnExists ==
  ASSUME NEW scr, NEW chars, Len(chars) \in Nat PROVE \E f : Drawn(scr, chars, f)
<1> DEFINE F(m, f) == f = [n \in 0 .. m |-> IF n = 0 THEN scr ELSE Put(f[n-1], chars[n])]
           good == {m \in Nat : \E f : F(m, f)}
<1>1. 0 \in good
  <2>1. F(0, [n \in 0 .. 0 |-> scr])
    OBVIOUS
  <2>2. QED
    BY <2>1
<1>2. ASSUME NEW m \in 1 .. Len(chars), m - 1 \in good PROVE m \in good
  <2>1. PICK f : F(m - 1, f)
    BY <1>2
  <2> DEFINE g == [n \in 0 .. m |-> IF n = 0 THEN scr ELSE Put(f[n-1], chars[n])]
  <2>2. m \in Nat /\ \A n \in 0 .. m - 1 : f[n] = g[n]
    BY <2>1
  <2>3. ASSUME NEW n \in 0 .. m
        PROVE  g[n] = IF n = 0 THEN scr ELSE Put(g[n-1], chars[n])
    <3>1. n # 0 => n - 1 \in 0 .. m - 1
      BY <2>2
    <3>2. n # 0 => f[n-1] = g[n-1]
      BY <2>2, <3>1
    <3>3. g[n] = IF n = 0 THEN scr ELSE Put(f[n-1], chars[n])
      OBVIOUS
    <3> HIDE DEF g
    <3>4. QED
      BY <3>2, <3>3
  <2>4. F(m, g)
    <3>1. g = [n \in 0 .. m |-> IF n = 0 THEN scr ELSE Put(g[n-1], chars[n])]
      BY <2>3
    <3>2. QED
      BY <3>1
  <2>5. QED
    BY <2>2, <2>4
<1>3. Len(chars) \in good
  <2> HIDE DEF good
  <2>1. \A m \in 1 .. Len(chars) : m - 1 \in good => m \in good
    BY <1>2
  <2>2. \A m \in 0 .. Len(chars) : m \in good
    BY <1>1, <2>1, Induct
  <2>3. QED
    BY <2>2
<1>4. QED
  BY <1>3 DEF Drawn

LEMMA EchoIs ==
  ASSUME NEW scr, NEW chars, Len(chars) \in Nat
  PROVE  \E f : /\ Echo(scr, chars) = f[Len(chars)] /\ f[0] = scr
                /\ \A n \in 1 .. Len(chars) : f[n] = Put(f[n-1], chars[n])
<1> DEFINE drawn == CHOOSE f : f = [n \in 0 .. Len(chars) |->
                                      IF n = 0 THEN scr ELSE Put(f[n-1], chars[n])]
<1>1. Drawn(scr, chars, drawn)
  <2>1. \E f : Drawn(scr, chars, f)
    BY DrawnExists
  <2>2. QED
    BY <2>1, Zenon DEF Drawn
<1>2. Echo(scr, chars) = drawn[Len(chars)]
  BY DEF Echo
<1> HIDE DEF drawn
<1>3. drawn[0] = scr /\ \A n \in 1 .. Len(chars) : drawn[n] = Put(drawn[n-1], chars[n])
  BY <1>1 DEF Drawn
<1>4. QED
  BY <1>2, <1>3

\* There is one way only to draw them.
LEMMA EchoOnly ==
  ASSUME NEW scr, NEW chars, Len(chars) \in Nat, NEW f, f[0] = scr,
         \A n \in 1 .. Len(chars) : f[n] = Put(f[n-1], chars[n])
  PROVE  Echo(scr, chars) = f[Len(chars)]
<1>1. PICK g : /\ Echo(scr, chars) = g[Len(chars)] /\ g[0] = scr
               /\ \A n \in 1 .. Len(chars) : g[n] = Put(g[n-1], chars[n])
  BY EchoIs, SMTT(30)
<1> DEFINE good == {n \in 0 .. Len(chars) : f[n] = g[n]}
<1>2. 0 \in good /\ \A n \in 1 .. Len(chars) : n - 1 \in good => n \in good
  BY <1>1
<1>3. Len(chars) \in good
  <2> HIDE DEF good
  <2>1. \A n \in 0 .. Len(chars) : n \in good
    BY <1>2, Induct
  <2>2. QED
    BY <2>1
<1>4. QED
  BY <1>1, <1>3

LEMMA EchoJoin ==
  ASSUME NEW S, NEW a \in Seq(S), NEW b \in Seq(S), NEW scr
  PROVE  Echo(scr, a \o b) = Echo(Echo(scr, a), b)
<1> DEFINE c == a \o b
<1>1. /\ c \in Seq(S) /\ Len(c) = Len(a) + Len(b)
      /\ \A i \in 1 .. Len(a) + Len(b) : c[i] = IF i <= Len(a) THEN a[i] ELSE b[i - Len(a)]
  BY ConcatProperties
<1> HIDE DEF c
<1>2. PICK f : /\ Echo(scr, c) = f[Len(c)] /\ f[0] = scr
               /\ \A n \in 1 .. Len(c) : f[n] = Put(f[n-1], c[n])
  <2>1. Len(c) \in Nat
    BY <1>1
  <2>2. QED
    BY <2>1, EchoIs, SMTT(30)
<1>3. Echo(scr, a) = f[Len(a)]
  <2>1. \A n \in 1 .. Len(a) : f[n] = Put(f[n-1], a[n])
    BY <1>1, <1>2
  <2>2. QED
    BY <1>2, <2>1, EchoOnly
<1>4. Echo(f[Len(a)], b) = f[Len(c)]
  <2> DEFINE g == [n \in 0 .. Len(b) |-> f[Len(a) + n]]
  <2>1. g[0] = f[Len(a)] /\ g[Len(b)] = f[Len(c)]
    BY <1>1
  <2>2. ASSUME NEW n \in 1 .. Len(b) PROVE g[n] = Put(g[n-1], b[n])
    <3>1. Len(a) + n \in 1 .. Len(c) /\ (Len(a) + n) - 1 = Len(a) + (n - 1)
          /\ ~(Len(a) + n <= Len(a)) /\ (Len(a) + n) - Len(a) = n /\ n - 1 \in 0 .. Len(b)
      BY <1>1
    <3>2. f[Len(a) + n] = Put(f[Len(a) + (n - 1)], b[n])
      BY <1>1, <1>2, <3>1
    <3>3. QED
      BY <3>1, <3>2
  <2> HIDE DEF g
  <2>3. QED
    BY <2>1, <2>2, EchoOnly
<1>5. QED
  BY <1>2, <1>3, <1>4 DEF c

-----------------------------------------------------------------------------
(***************************************************************************)
(* The screen.  What is drawn shows the line up to some place, or has gone *)
(* on to another row.                                                      *)
(***************************************************************************)
Shapes  == Printable \cup {Bare, Blank, "prompt", "^", "C"}
Screens == [row : [0 .. Cols - 1 -> Shapes], x : 0 .. Cols - 1, wrapped : BOOLEAN]

\* The cursor is behind c cells of the buffer, and those behind the prompt.
Shows(scr, p, buffer, c) ==
  /\ scr.x = p + c
  /\ \A i \in 0 .. Cols - 1 :
       /\ i < p => scr.row[i] = "prompt"
       /\ p <= i /\ i < p + c => scr.row[i] = buffer[i - p]
       /\ p + c <= i => scr.row[i] \in {Blank, Bare}

\* A way back over n cells.
Back(scr, n) ==
  [row |-> [i \in 0 .. Cols - 1 |-> IF scr.x - n <= i /\ i < scr.x THEN Blank ELSE scr.row[i]],
   x |-> scr.x - n, wrapped |-> scr.wrapped]

LEMMA ShapeFacts ==
  /\ {Bare, Blank, "prompt", "^", "C"} \subseteq Shapes /\ Printable \subseteq Shapes
  /\ \A c \in Shapes : c # NL /\ c # BS
<1>1. {Bare, Blank, "prompt", "^", "C"} \subseteq Shapes /\ Printable \subseteq Shapes
  BY DEF Shapes
<1>2. \A c \in {Bare, Blank, "prompt", "^", "C"} : c # NL /\ c # BS
  BY DEF Bare, Blank, NL, BS
<1>3. \A c \in Printable : c # NL /\ c # BS
  BY Sizes
<1>4. QED
  BY <1>1, <1>2, <1>3 DEF Shapes

LEMMA PutTyped ==
  ASSUME NEW scr \in Screens, NEW char \in Shapes \cup {NL, BS}
  PROVE  Put(scr, char) \in Screens /\ (scr.wrapped => Put(scr, char).wrapped)
<1>1. Fresh \in [0 .. Cols - 1 -> Shapes] /\ 0 \in 0 .. Cols - 1
  BY Sizes, ShapeFacts DEF Fresh
<1>2. CASE char = NL
  <2>1. NL # BS
    BY DEF NL, BS
  <2>2. Put(scr, char) = [scr EXCEPT !.row = Fresh, !.x = 0]
    BY <1>2, <2>1 DEF Put
  <2>3. QED
    BY <1>1, <2>2 DEF Screens
<1>3. CASE char # NL /\ char = BS
  <2>1. CASE scr.x = 0
    BY <1>3, <2>1 DEF Put, NL, BS
  <2>2. CASE scr.x # 0
    <3>1. Put(scr, char) = [scr EXCEPT !.x = scr.x - 1, !.row = [scr.row EXCEPT ![scr.x - 1] = Blank]]
      BY <1>3, <2>2 DEF Put, NL, BS, Screens
    <3>2. scr.x - 1 \in 0 .. Cols - 1 /\ [scr.row EXCEPT ![scr.x - 1] = Blank] \in [0 .. Cols - 1 -> Shapes]
      <4>1. scr.x \in 0 .. Cols - 1 /\ scr.row \in [0 .. Cols - 1 -> Shapes] /\ Blank \in Shapes
        BY ShapeFacts DEF Screens
      <4>2. QED
        BY <2>2, <4>1, Sizes
    <3>3. QED
      BY <3>1, <3>2 DEF Screens
  <2>3. QED
    BY <2>1, <2>2
<1>4. CASE char # NL /\ char # BS
  <2>1. CASE scr.x + 1 < Cols
    <3>1. Put(scr, char) = [scr EXCEPT !.x = scr.x + 1, !.row = [scr.row EXCEPT ![scr.x] = char]]
      BY <1>4, <2>1 DEF Put, Screens
    <3>2. scr.x + 1 \in 0 .. Cols - 1 /\ [scr.row EXCEPT ![scr.x] = char] \in [0 .. Cols - 1 -> Shapes]
      BY <1>4, <2>1, Sizes DEF Screens
    <3>3. QED
      BY <3>1, <3>2 DEF Screens
  <2>2. CASE ~(scr.x + 1 < Cols)
    BY <1>1, <1>4, <2>2 DEF Put, Screens
  <2>3. QED
    BY <2>1, <2>2
<1>5. QED
  BY <1>2, <1>3, <1>4

\* A screen stays one, and what has gone on to another row does not come back.
LEMMA EchoTyped ==
  ASSUME NEW scr \in Screens, NEW chars \in Seq(Shapes \cup {NL, BS})
  PROVE  Echo(scr, chars) \in Screens /\ (scr.wrapped => Echo(scr, chars).wrapped)
<1>1. PICK f : /\ Echo(scr, chars) = f[Len(chars)] /\ f[0] = scr
               /\ \A n \in 1 .. Len(chars) : f[n] = Put(f[n-1], chars[n])
  <2>1. Len(chars) \in Nat
    BY LenProperties
  <2>2. QED
    BY <2>1, EchoIs, SMTT(30)
<1> DEFINE good == {n \in 0 .. Len(chars) : f[n] \in Screens /\ (scr.wrapped => f[n].wrapped)}
<1>2. 0 \in good
  BY <1>1
<1>3. ASSUME NEW n \in 1 .. Len(chars), n - 1 \in good PROVE n \in good
  <2>1. f[n-1] \in Screens /\ chars[n] \in Shapes \cup {NL, BS}
    BY <1>3
  <2>2. f[n] \in Screens /\ (f[n-1].wrapped => f[n].wrapped)
    BY <1>1, <2>1, PutTyped
  <2>3. QED
    BY <1>3, <2>2
<1> HIDE DEF good
<1>4. \A n \in 1 .. Len(chars) : n - 1 \in good => n \in good
  BY <1>3
<1>5. \A n \in 0 .. Len(chars) : n \in good
  <2>1. Len(chars) \in Nat
    BY LenProperties
  <2>2. QED
    BY <1>2, <1>4, <2>1, Induct
<1>6. QED
  BY <1>1, <1>5 DEF good

\* A text appears in the cells from the cursor on.
LEMMA EchoText ==
  ASSUME NEW scr \in Screens, NEW chars \in Seq(Shapes),
         \A k \in 1 .. Len(chars) : chars[k] # NL /\ chars[k] # BS,
         ~Echo(scr, chars).wrapped
  PROVE  /\ Echo(scr, chars).x = scr.x + Len(chars)
         /\ \A i \in 0 .. Cols - 1 :
              Echo(scr, chars).row[i] = IF scr.x <= i /\ i < scr.x + Len(chars)
                                        THEN chars[(i - scr.x) + 1] ELSE scr.row[i]
<1>1. PICK f : /\ Echo(scr, chars) = f[Len(chars)] /\ f[0] = scr
               /\ \A n \in 1 .. Len(chars) : f[n] = Put(f[n-1], chars[n])
  BY EchoIs, SMTT(30)
<1> DEFINE Far(s, n) ==
             /\ s.x = scr.x + n
             /\ \A i \in 0 .. Cols - 1 :
                  s.row[i] = IF scr.x <= i /\ i < scr.x + n
                             THEN chars[(i - scr.x) + 1] ELSE scr.row[i]
           good == {n \in 0 .. Len(chars) : f[n] \in Screens /\ (f[n].wrapped \/ Far(f[n], n))}
<1>2. 0 \in good
  BY <1>1 DEF Screens
<1>3. ASSUME NEW n \in 1 .. Len(chars), n - 1 \in good PROVE n \in good
  <2>1. PICK s : s = f[n-1]
    OBVIOUS
  <2>2. s \in Screens /\ chars[n] \in Shapes /\ chars[n] # NL /\ chars[n] # BS
        /\ f[n] = Put(s, chars[n])
    BY <1>1, <1>3, <2>1
  <2>3. f[n] \in Screens /\ (s.wrapped => f[n].wrapped)
    BY <2>2, PutTyped
  <2>4. CASE s.wrapped \/ ~(s.x + 1 < Cols)
    <3>1. ~(s.x + 1 < Cols) => f[n] = [row |-> Fresh, x |-> 0, wrapped |-> TRUE]
      BY <2>2 DEF Put
    <3>2. f[n].wrapped
      BY <2>3, <2>4, <3>1
    <3>3. QED
      BY <2>3, <3>2
  <2>5. CASE ~s.wrapped /\ s.x + 1 < Cols
    <3>1. Far(s, n - 1)
      BY <1>3, <2>1, <2>5
    <3>2. f[n] = [s EXCEPT !.x = s.x + 1, !.row = [s.row EXCEPT ![s.x] = chars[n]]]
      BY <2>2, <2>5 DEF Put, Screens
    <3>3. s.x \in 0 .. Cols - 1 /\ scr.x \in Nat /\ s.x = scr.x + (n - 1) /\ n \in Nat
      BY <2>2, <3>1 DEF Screens
    <3>4. f[n].x = scr.x + n
      BY <2>2, <3>2, <3>3 DEF Screens
    <3>5. ASSUME NEW i \in 0 .. Cols - 1
          PROVE  f[n].row[i] = IF scr.x <= i /\ i < scr.x + n
                               THEN chars[(i - scr.x) + 1] ELSE scr.row[i]
      <4>1. f[n].row[i] = IF i = s.x THEN chars[n] ELSE s.row[i]
        BY <2>2, <3>2, <3>3 DEF Screens
      <4>2. s.row[i] = IF scr.x <= i /\ i < scr.x + (n - 1)
                       THEN chars[(i - scr.x) + 1] ELSE scr.row[i]
        BY <3>1
      <4>3. i = s.x => (i - scr.x) + 1 = n
        BY <3>3
      <4>4. QED
        BY <3>3, <4>1, <4>2, <4>3
    <3>6. QED
      BY <2>3, <3>4, <3>5
  <2>6. QED
    BY <2>4, <2>5
<1> HIDE DEF good
<1>4. \A n \in 1 .. Len(chars) : n - 1 \in good => n \in good
  BY <1>3
<1>5. \A n \in 0 .. Len(chars) : n \in good
  <2>1. Len(chars) \in Nat
    BY LenProperties
  <2>2. QED
    BY <1>2, <1>4, <2>1, Induct
<1>6. QED
  BY <1>1, <1>5 DEF good

\* A backspace goes back by a cell.
LEMMA PutBack ==
  ASSUME NEW scr \in Screens, scr.x > 0 PROVE Put(scr, BS) = Back(scr, 1)
<1>1. NL # BS
  BY DEF NL, BS
<1>2. Put(scr, BS) = [scr EXCEPT !.x = scr.x - 1, !.row = [scr.row EXCEPT ![scr.x - 1] = Blank]]
  BY <1>1 DEF Put, Screens
<1>3. scr.x - 1 \in 0 .. Cols - 1
  BY Sizes DEF Screens
<1>4. [scr.row EXCEPT ![scr.x - 1] = Blank]
        = [i \in 0 .. Cols - 1 |-> IF scr.x - 1 <= i /\ i < scr.x THEN Blank ELSE scr.row[i]]
  <2>1. \A i \in 0 .. Cols - 1 : (scr.x - 1 <= i /\ i < scr.x) <=> i = scr.x - 1
    <3>1. PICK x \in Nat : x = scr.x
      BY Sizes DEF Screens
    <3>2. \A i \in 0 .. Cols - 1 : (x - 1 <= i /\ i < x) <=> i = x - 1
      BY Sizes
    <3>3. QED
      BY <3>1, <3>2
  <2>2. scr.row \in [0 .. Cols - 1 -> Shapes]
    BY DEF Screens
  <2>3. QED
    BY <1>3, <2>1, <2>2
<1>5. QED
  BY <1>2, <1>4 DEF Back, Screens

LEMMA BackTyped ==
  ASSUME NEW scr \in Screens, NEW n \in 0 .. scr.x PROVE Back(scr, n) \in Screens
<1>1. scr.x - n \in 0 .. Cols - 1
  BY Sizes DEF Screens
<1>2. [i \in 0 .. Cols - 1 |-> IF scr.x - n <= i /\ i < scr.x THEN Blank ELSE scr.row[i]]
        \in [0 .. Cols - 1 -> Shapes]
  BY ShapeFacts DEF Screens
<1>3. QED
  BY <1>1, <1>2 DEF Back, Screens

LEMMA BackNone ==
  ASSUME NEW scr \in Screens PROVE Back(scr, 0) = scr
<1>1. scr.x \in Nat /\ scr.x - 0 = scr.x /\ scr.row \in [0 .. Cols - 1 -> Shapes]
  BY Sizes DEF Screens
<1>2. \A i \in 0 .. Cols - 1 : ~(scr.x - 0 <= i /\ i < scr.x)
  BY <1>1
<1>3. [i \in 0 .. Cols - 1 |-> IF scr.x - 0 <= i /\ i < scr.x THEN Blank ELSE scr.row[i]] = scr.row
  BY <1>1, <1>2
<1>4. QED
  BY <1>1, <1>3 DEF Back, Screens

LEMMA BackOn ==
  ASSUME NEW scr \in Screens, NEW n \in 0 .. scr.x, n < scr.x
  PROVE  Back(Back(scr, n), 1) = Back(scr, n + 1)
<1>1. PICK s : s = Back(scr, n)
  OBVIOUS
<1>2. s.x = scr.x - n /\ s.wrapped = scr.wrapped
  BY <1>1 DEF Back
<1>3. \A i \in 0 .. Cols - 1 : s.row[i] = IF scr.x - n <= i /\ i < scr.x THEN Blank ELSE scr.row[i]
  BY <1>1 DEF Back
<1>4. scr.x \in Nat /\ n \in Nat
  BY Sizes DEF Screens
<1>5. (scr.x - n) - 1 = scr.x - (n + 1)
  BY <1>4
<1>6. ASSUME NEW i \in 0 .. Cols - 1
      PROVE  (IF s.x - 1 <= i /\ i < s.x THEN Blank ELSE s.row[i])
               = IF scr.x - (n + 1) <= i /\ i < scr.x THEN Blank ELSE scr.row[i]
  BY <1>2, <1>3, <1>4, <1>5
<1>7. QED
  BY <1>1, <1>2, <1>5, <1>6 DEF Back

\* Backspaces go back by as many cells.
LEMMA EchoBack ==
  ASSUME NEW scr \in Screens, NEW m \in 0 .. scr.x
  PROVE  Echo(scr, Repeat(m, BS)) = Back(scr, m)
<1> DEFINE chars == Repeat(m, BS)
           f == [n \in 0 .. m |-> Back(scr, n)]
<1>1. m \in Nat /\ Len(chars) = m /\ \A n \in 1 .. m : chars[n] = BS
  BY Sizes DEF Repeat, Screens
<1> HIDE DEF chars
<1>2. \A n \in 0 .. m : f[n] = Back(scr, n)
  OBVIOUS
<1> HIDE DEF f
<1>3. f[0] = scr
  BY <1>1, <1>2, BackNone
<1>4. ASSUME NEW n \in 1 .. m PROVE f[n] = Put(f[n-1], chars[n])
  <2>1. n - 1 \in 0 .. m /\ n \in 0 .. m
    BY <1>1
  <2>2. n - 1 \in 0 .. scr.x /\ n - 1 < scr.x /\ (n - 1) + 1 = n
    BY <1>1, Sizes DEF Screens
  <2>3. Back(scr, n - 1) \in Screens
    BY <2>2, BackTyped
  <2>4. Back(scr, n - 1).x > 0
    <3>1. Back(scr, n - 1).x = scr.x - (n - 1)
      BY DEF Back
    <3>2. QED
      BY <2>2, <3>1, Sizes DEF Screens
  <2>5. Put(Back(scr, n - 1), BS) = Back(Back(scr, n - 1), 1)
    BY <2>3, <2>4, PutBack
  <2>6. Put(Back(scr, n - 1), BS) = Back(scr, n)
    BY <2>2, <2>5, BackOn
  <2>7. f[n] = Back(scr, n) /\ f[n-1] = Back(scr, n - 1) /\ chars[n] = BS
    BY <1>1, <1>2, <2>1
  <2>8. QED
    BY <2>6, <2>7
<1>5. Echo(scr, chars) = f[m]
  <2>1. Len(chars) \in Nat /\ \A n \in 1 .. Len(chars) : f[n] = Put(f[n-1], chars[n])
    BY <1>1, <1>4
  <2>2. Echo(scr, chars) = f[Len(chars)]
    BY <1>3, <2>1, EchoOnly
  <2>3. QED
    BY <1>1, <2>2
<1>6. f[m] = Back(scr, m)
  BY <1>1, <1>2
<1>7. QED
  BY <1>5, <1>6 DEF chars

\* So does rubbing cells out, one after the other.
LEMMA PutRub ==
  ASSUME NEW scr \in Screens, scr.x > 0
  PROVE  Put(Put(Put(scr, BS), Blank), BS) = Back(scr, 1)
<1>1. Put(scr, BS) = Back(scr, 1)
  BY PutBack
<1>2. PICK s : s = Back(scr, 1)
  OBVIOUS
<1>3. 1 \in 0 .. scr.x /\ scr.x \in 0 .. Cols - 1
  BY Sizes DEF Screens
<1>4. s \in Screens /\ s.x = scr.x - 1 /\ s.wrapped = scr.wrapped
      /\ \A i \in 0 .. Cols - 1 : s.row[i] = IF scr.x - 1 <= i /\ i < scr.x THEN Blank ELSE scr.row[i]
  BY <1>2, <1>3, BackTyped DEF Back
<1>5. Blank # NL /\ Blank # BS
  BY ShapeFacts
<1>6. PICK t : t = Put(s, Blank)
  OBVIOUS
<1>7. t = [s EXCEPT !.x = s.x + 1, !.row = [s.row EXCEPT ![s.x] = Blank]]
  <2>1. s.x + 1 < Cols
    BY <1>3, <1>4, Sizes
  <2>2. QED
    BY <1>4, <1>5, <1>6, <2>1 DEF Put, Screens
<1>8. [s.row EXCEPT ![s.x] = Blank] = s.row
  <2>1. s.row \in [0 .. Cols - 1 -> Shapes] /\ s.row[s.x] = Blank
    BY <1>3, <1>4 DEF Screens
  <2>2. QED
    BY <2>1
<1>9. t \in Screens /\ t.x = scr.x /\ t.row = s.row /\ t.wrapped = s.wrapped
  <2>1. s = [row |-> s.row, x |-> s.x, wrapped |-> s.wrapped]
    BY <1>4 DEF Screens
  <2>2. t = [row |-> s.row, x |-> s.x + 1, wrapped |-> s.wrapped]
    BY <1>7, <1>8, <2>1
  <2>3. s.x + 1 = scr.x
    BY <1>3, <1>4
  <2>4. s.row \in [0 .. Cols - 1 -> Shapes] /\ s.wrapped \in BOOLEAN
    BY <1>4 DEF Screens
  <2>5. QED
    BY <1>3, <2>2, <2>3, <2>4 DEF Screens
<1>10. Put(t, BS) = Back(t, 1)
  BY <1>9, PutBack
<1>11. Back(t, 1) = Back(scr, 1)
  <2>1. \A i \in 0 .. Cols - 1 : (IF t.x - 1 <= i /\ i < t.x THEN Blank ELSE t.row[i])
                                 = IF scr.x - 1 <= i /\ i < scr.x THEN Blank ELSE scr.row[i]
    <3>1. t.x = scr.x /\ t.row = s.row
      BY <1>9
    <3>2. QED
      BY <1>4, <3>1
  <2>2. [i \in 0 .. Cols - 1 |-> IF t.x - 1 <= i /\ i < t.x THEN Blank ELSE t.row[i]]
          = [i \in 0 .. Cols - 1 |-> IF scr.x - 1 <= i /\ i < scr.x THEN Blank ELSE scr.row[i]]
    BY <2>1
  <2>3. t.x = scr.x /\ t.wrapped = scr.wrapped
    BY <1>4, <1>9
  <2>4. QED
    BY <2>2, <2>3 DEF Back
<1>12. QED
  BY <1>1, <1>2, <1>6, <1>10, <1>11

LEMMA EchoRub ==
  ASSUME NEW scr \in Screens, NEW m \in 0 .. scr.x
  PROVE  LET chars == [i \in 1 .. 3 * m |-> IF i % 3 = 2 THEN Blank ELSE BS]
         IN  Echo(scr, chars) = Back(scr, m)
<1> DEFINE chars == [i \in 1 .. 3 * m |-> IF i % 3 = 2 THEN Blank ELSE BS]
<1>1. m \in Nat /\ Len(chars) = 3 * m
  BY Sizes DEF Screens
<1>2. ASSUME NEW n \in 1 .. m
      PROVE  /\ 3 * n \in 1 .. 3 * m /\ 3 * n - 1 \in 1 .. 3 * m /\ 3 * n - 2 \in 1 .. 3 * m
             /\ (3 * n) % 3 = 0 /\ (3 * n - 1) % 3 = 2 /\ (3 * n - 2) % 3 = 1
  BY <1>1
<1>3. \A n \in 1 .. m : /\ chars[3 * n] = BS /\ chars[3 * n - 1] = Blank
                        /\ chars[3 * n - 2] = BS
  <2>1. ASSUME NEW n \in 1 .. m
        PROVE  chars[3 * n] = BS /\ chars[3 * n - 1] = Blank /\ chars[3 * n - 2] = BS
    BY <1>2
  <2>2. QED
    BY <2>1
<1> HIDE DEF chars
<1>4. PICK f : /\ Echo(scr, chars) = f[3 * m] /\ f[0] = scr
               /\ \A i \in 1 .. 3 * m : f[i] = Put(f[i-1], chars[i])
  <2>1. Len(chars) \in Nat
    BY <1>1
  <2>2. PICK f : /\ Echo(scr, chars) = f[Len(chars)] /\ f[0] = scr
                 /\ \A i \in 1 .. Len(chars) : f[i] = Put(f[i-1], chars[i])
    BY <2>1, EchoIs, SMTT(30)
  <2>3. QED
    BY <1>1, <2>2
<1> DEFINE good == {n \in 0 .. m : f[3 * n] = Back(scr, n)}
<1>5. 0 \in good
  <2>1. 0 \in 0 .. m /\ 3 * 0 = 0
    BY <1>1
  <2>2. f[3 * 0] = Back(scr, 0)
    BY <1>4, <2>1, BackNone
  <2>3. QED
    BY <2>1, <2>2
<1>6. ASSUME NEW n \in 1 .. m, n - 1 \in good PROVE n \in good
  <2>1. f[3 * (n - 1)] = Back(scr, n - 1)
    BY <1>6
  <2>2. f[3 * n] = Put(Put(Put(Back(scr, n - 1), BS), Blank), BS)
    <3>1. (3 * n - 2) - 1 = 3 * (n - 1) /\ (3 * n - 1) - 1 = 3 * n - 2 /\ (3 * n) - 1 = 3 * n - 1
      BY <1>1
    <3>2. f[3 * n - 2] = Put(f[(3 * n - 2) - 1], BS)
      BY <1>2, <1>3, <1>4
    <3>3. f[3 * n - 1] = Put(f[(3 * n - 1) - 1], Blank)
      BY <1>2, <1>3, <1>4
    <3>4. f[3 * n] = Put(f[(3 * n) - 1], BS)
      BY <1>2, <1>3, <1>4
    <3>5. QED
      BY <2>1, <3>1, <3>2, <3>3, <3>4
  <2>3. n - 1 \in 0 .. scr.x /\ n - 1 < scr.x /\ (n - 1) + 1 = n
    BY <1>1, Sizes DEF Screens
  <2>4. Back(scr, n - 1) \in Screens
    BY <2>3, BackTyped
  <2>5. Back(scr, n - 1).x > 0
    <3>1. Back(scr, n - 1).x = scr.x - (n - 1)
      BY DEF Back
    <3>2. QED
      BY <2>3, <3>1, Sizes DEF Screens
  <2>6. f[3 * n] = Back(Back(scr, n - 1), 1)
    BY <2>2, <2>4, <2>5, PutRub
  <2>7. f[3 * n] = Back(scr, n)
    BY <2>3, <2>6, BackOn
  <2>8. QED
    BY <2>7
<1> HIDE DEF good
<1>7. \A n \in 1 .. m : n - 1 \in good => n \in good
  BY <1>6
<1>8. \A n \in 0 .. m : n \in good
  BY <1>1, <1>5, <1>7, Induct
<1>9. QED
  BY <1>1, <1>4, <1>8 DEF good, chars

-----------------------------------------------------------------------------
(***************************************************************************)
(* What a key draws.  A screen stands at a place of a buffer when it shows *)
(* the buffer as far as that, or its line has gone on to another row.      *)
(***************************************************************************)
Stands(scr, p, buffer, c) ==
  scr \in Screens /\ (scr.wrapped \/ Shows(scr, p, buffer, c))

\* Of the buffer only what is in front of the place counts.
LEMMA SameStands ==
  ASSUME NEW scr, NEW p \in Nat, NEW c \in Nat, NEW buffer, NEW other,
         Stands(scr, p, buffer, c), \A i \in 0 .. c - 1 : other[i] = buffer[i]
  PROVE  Stands(scr, p, other, c)
<1>1. ASSUME Shows(scr, p, buffer, c) PROVE Shows(scr, p, other, c)
  <2>1. ASSUME NEW i \in 0 .. Cols - 1, p <= i, i < p + c PROVE scr.row[i] = other[i - p]
    <3>1. i - p \in 0 .. c - 1 /\ scr.row[i] = buffer[i - p]
      BY <1>1, <2>1, Sizes DEF Shows
    <3>2. QED
      BY <3>1
  <2>2. QED
    BY <1>1, <2>1 DEF Shows
<1>2. QED
  BY <1>1 DEF Stands

\* A text takes the place on behind itself.
LEMMA TextStands ==
  ASSUME NEW scr, NEW p \in Nat, NEW c \in Nat, NEW buffer, NEW other,
         Stands(scr, p, buffer, c), NEW chars \in Seq(Shapes), NEW n \in Nat, Len(chars) = n,
         \A i \in 0 .. c - 1 : other[i] = buffer[i],
         \A k \in 1 .. n : chars[k] = other[(c + k) - 1]
  PROVE  Stands(Echo(scr, chars), p, other, c + n)
<1>1. PICK r : r = Echo(scr, chars)
  OBVIOUS
<1>2. r \in Screens /\ (scr.wrapped => r.wrapped)
  <2>1. chars \in Seq(Shapes \cup {NL, BS})
    OBVIOUS
  <2>2. QED
    BY <1>1, <2>1, EchoTyped DEF Stands
<1>3. ASSUME ~r.wrapped PROVE Shows(r, p, other, c + n)
  <2>1. Shows(scr, p, other, c)
    BY <1>2, <1>3, SameStands DEF Stands
  <2>2. scr \in Screens /\ \A k \in 1 .. Len(chars) : chars[k] # NL /\ chars[k] # BS
    BY ShapeFacts DEF Stands
  <2>3. /\ r.x = scr.x + n
        /\ \A i \in 0 .. Cols - 1 : r.row[i] = IF scr.x <= i /\ i < scr.x + n
                                               THEN chars[(i - scr.x) + 1] ELSE scr.row[i]
    BY <1>1, <1>3, <2>2, EchoText
  <2>4. scr.x = p + c
    BY <2>1 DEF Shows
  <2>5. r.x = p + (c + n)
    BY <2>3, <2>4
  <2>6. ASSUME NEW i \in 0 .. Cols - 1
        PROVE  /\ i < p => r.row[i] = "prompt"
               /\ p <= i /\ i < p + (c + n) => r.row[i] = other[i - p]
               /\ p + (c + n) <= i => r.row[i] \in {Blank, Bare}
    <3>1. i \in Nat /\ r.row[i] = IF p + c <= i /\ i < (p + c) + n
                                  THEN chars[(i - (p + c)) + 1] ELSE scr.row[i]
      BY <2>3, <2>4, Sizes
    <3>2. CASE p + c <= i /\ i < (p + c) + n
      <4>1. (i - (p + c)) + 1 \in 1 .. n /\ (c + ((i - (p + c)) + 1)) - 1 = i - p
        BY <3>1, <3>2
      <4>2. r.row[i] = other[i - p]
        <5>1. r.row[i] = chars[(i - (p + c)) + 1]
          BY <3>1, <3>2
        <5>2. QED
          BY <4>1, <5>1
      <4>3. QED
        BY <3>1, <3>2, <4>2
    <3>3. CASE ~(p + c <= i /\ i < (p + c) + n)
      <4>1. r.row[i] = scr.row[i]
        BY <3>1, <3>3
      <4>2. /\ i < p => scr.row[i] = "prompt"
            /\ p <= i /\ i < p + c => scr.row[i] = other[i - p]
            /\ p + c <= i => scr.row[i] \in {Blank, Bare}
        BY <2>1 DEF Shows
      <4>3. QED
        BY <3>1, <3>3, <4>1, <4>2
    <3>4. QED
      BY <3>2, <3>3
  <2>7. QED
    BY <2>5, <2>6 DEF Shows
<1>4. QED
  BY <1>1, <1>2, <1>3 DEF Stands

\* A way back takes it back.
LEMMA BackShows ==
  ASSUME NEW scr \in Screens, NEW p \in Nat, NEW c \in Nat, NEW buffer,
         Shows(scr, p, buffer, c), NEW n \in 0 .. c
  PROVE  n \in 0 .. scr.x /\ Shows(Back(scr, n), p, buffer, c - n)
<1>1. scr.x = p + c /\ n \in Nat /\ n <= c
  BY DEF Shows
<1>2. PICK r : r = Back(scr, n)
  OBVIOUS
<1>3. r.x = p + (c - n)
  BY <1>1, <1>2 DEF Back
<1>4. ASSUME NEW i \in 0 .. Cols - 1
      PROVE  /\ i < p => r.row[i] = "prompt"
             /\ p <= i /\ i < p + (c - n) => r.row[i] = buffer[i - p]
             /\ p + (c - n) <= i => r.row[i] \in {Blank, Bare}
  <2>1. i \in Nat /\ r.row[i] = IF (p + c) - n <= i /\ i < p + c THEN Blank ELSE scr.row[i]
    BY <1>1, <1>2, Sizes DEF Back
  <2>2. /\ i < p => scr.row[i] = "prompt"
        /\ p <= i /\ i < p + c => scr.row[i] = buffer[i - p]
        /\ p + c <= i => scr.row[i] \in {Blank, Bare}
    BY DEF Shows
  <2>3. QED
    BY <1>1, <2>1, <2>2
<1>5. QED
  BY <1>1, <1>2, <1>3, <1>4 DEF Shows

LEMMA BackStands ==
  ASSUME NEW scr, NEW p \in Nat, NEW c \in Nat, NEW buffer, Stands(scr, p, buffer, c),
         NEW n \in 0 .. c
  PROVE  Stands(Echo(scr, Repeat(n, BS)), p, buffer, c - n)
<1>1. Repeat(n, BS) \in Seq(Shapes \cup {NL, BS})
  BY DEF Repeat
<1>2. Echo(scr, Repeat(n, BS)) \in Screens /\ (scr.wrapped => Echo(scr, Repeat(n, BS)).wrapped)
  BY <1>1, EchoTyped DEF Stands
<1>3. ASSUME Shows(scr, p, buffer, c) PROVE Shows(Echo(scr, Repeat(n, BS)), p, buffer, c - n)
  BY <1>3, BackShows, EchoBack DEF Stands
<1>4. QED
  BY <1>2, <1>3 DEF Stands

LEMMA RubStands ==
  ASSUME NEW scr, NEW p \in Nat, NEW c \in Nat, NEW buffer, Stands(scr, p, buffer, c)
  PROVE  LET chars == [i \in 1 .. 3 * c |-> IF i % 3 = 2 THEN Blank ELSE BS]
         IN  chars \in Seq(Shapes \cup {NL, BS}) /\ Stands(Echo(scr, chars), p, buffer, 0)
<1> DEFINE chars == [i \in 1 .. 3 * c |-> IF i % 3 = 2 THEN Blank ELSE BS]
<1>1. chars \in Seq(Shapes \cup {NL, BS})
  <2>1. 3 * c \in Nat /\ \A i \in 1 .. 3 * c : chars[i] \in Shapes \cup {NL, BS}
    BY ShapeFacts
  <2>2. QED
    BY <2>1
<1>2. ASSUME Shows(scr, p, buffer, c) PROVE Shows(Echo(scr, chars), p, buffer, 0)
  <2>1. c \in 0 .. c /\ c - c = 0
    OBVIOUS
  <2>2. c \in 0 .. scr.x /\ Shows(Back(scr, c), p, buffer, 0)
    BY <1>2, <2>1, BackShows DEF Stands
  <2>3. Echo(scr, chars) = Back(scr, c)
    BY <2>2, EchoRub DEF Stands
  <2>4. QED
    BY <2>2, <2>3
<1> HIDE DEF chars
<1>3. Echo(scr, chars) \in Screens /\ (scr.wrapped => Echo(scr, chars).wrapped)
  BY <1>1, EchoTyped DEF Stands
<1>4. Stands(Echo(scr, chars), p, buffer, 0)
  BY <1>2, <1>3 DEF Stands
<1>5. QED
  BY <1>1, <1>4 DEF chars

\* A part of a line is a text.
LEMMA PartIs ==
  ASSUME NEW buffer \in Buffers, NEW from \in Nat, NEW to \in Nat, from <= to,
         to <= MAX_CMD_LEN, \A i \in 0 .. to - 1 : buffer[i] # NUL
  PROVE  /\ Part(buffer, from, to) \in Seq(Shapes) /\ Len(Part(buffer, from, to)) = to - from
         /\ to - from \in Nat
         /\ \A k \in 1 .. to - from : Part(buffer, from, to)[k] = buffer[(from + k) - 1]
<1>1. to - from \in Nat
  OBVIOUS
<1>2. ASSUME NEW k \in 1 .. to - from PROVE buffer[(from + k) - 1] \in Shapes
  <2>1. (from + k) - 1 \in Cells /\ (from + k) - 1 \in 0 .. to - 1
    BY Sizes DEF Cells
  <2>2. buffer[(from + k) - 1] \in Printable
    BY <2>1 DEF Buffers
  <2>3. QED
    BY <2>2, ShapeFacts
<1>3. \A k \in 1 .. to - from : from + k - 1 = (from + k) - 1
  OBVIOUS
<1>4. Part(buffer, from, to) = [k \in 1 .. to - from |-> buffer[(from + k) - 1]]
  BY <1>3 DEF Part
<1>5. QED
  BY <1>1, <1>2, <1>4

\* The row is in step with the line that is edited.
StandInv == BufferInv /\ prompt \in Prompts /\ Stands(screen, prompt, cmd_buffer, cursor_pos)

LEMMA MoveStands ==
  ASSUME StandInv, cursor_left \/ cursor_right
  PROVE  Stands(screen', prompt', cmd_buffer', cursor_pos')
<1>1. /\ prompt \in Nat /\ cursor_pos \in Nat /\ cmd_buffer \in Buffers
      /\ prompt' = prompt /\ cmd_buffer' = cmd_buffer
  BY Counts, ConsoleAssumption DEF StandInv, BufferInv, cursor_left, cursor_right
<1>2. screen \in Screens /\ (screen.wrapped \/ Shows(screen, prompt, cmd_buffer, cursor_pos))
  BY DEF StandInv, Stands
<1>3. CASE cursor_left
  <2>1. cursor_pos > 0 /\ screen' = Put(screen, BS) /\ cursor_pos' = cursor_pos - 1
    BY <1>3 DEF cursor_left
  <2>2. screen' \in Screens /\ (screen.wrapped => screen'.wrapped)
    BY <1>2, <2>1, PutTyped
  <2>3. ASSUME Shows(screen, prompt, cmd_buffer, cursor_pos)
        PROVE  Shows(screen', prompt, cmd_buffer, cursor_pos')
    <3>1. 1 \in 0 .. cursor_pos
      BY <1>1, <2>1
    <3>2. Shows(Back(screen, 1), prompt, cmd_buffer, cursor_pos - 1)
      BY <1>1, <1>2, <2>3, <3>1, BackShows
    <3>3. screen.x > 0
      BY <1>1, <2>1, <2>3 DEF Shows
    <3>4. QED
      BY <1>2, <2>1, <3>2, <3>3, PutBack
  <2>4. QED
    BY <1>1, <1>2, <2>2, <2>3 DEF Stands
<1>4. CASE cursor_right
  <2> DEFINE chars == <<cmd_buffer[cursor_pos]>>
  <2>1. cursor_pos < cmd_len /\ screen' = Put(screen, chars[1]) /\ cursor_pos' = cursor_pos + 1
    BY <1>4 DEF cursor_right
  <2>2. cmd_buffer[cursor_pos] \in Shapes
    <3>1. cursor_pos \in Cells /\ cmd_buffer[cursor_pos] # NUL
      BY <2>1, Counts, Sizes DEF StandInv, BufferInv, Cells
    <3>2. QED
      BY <1>1, <3>1, ShapeFacts DEF Buffers
  <2>3. /\ chars \in Seq(Shapes) /\ Len(chars) = 1
        /\ \A k \in 1 .. 1 : chars[k] = cmd_buffer[(cursor_pos + k) - 1]
    BY <1>1, <2>2
  <2> HIDE DEF chars
  <2>4. Echo(screen, chars) = screen'
    <3>0. Len(chars) \in Nat
      BY <2>3
    <3>3. PICK f : /\ Echo(screen, chars) = f[Len(chars)] /\ f[0] = screen
                   /\ \A n \in 1 .. Len(chars) : f[n] = Put(f[n-1], chars[n])
      BY <3>0, EchoIs, SMTT(30)
    <3>1. /\ Echo(screen, chars) = f[1] /\ f[0] = screen
          /\ \A n \in 1 .. 1 : f[n] = Put(f[n-1], chars[n])
      BY <2>3, <3>3
    <3>2. f[1] = Put(f[1-1], chars[1]) /\ 1 - 1 = 0
      BY <3>1
    <3>4. QED
      BY <2>1, <3>1, <3>2
  <2>5. Stands(screen, prompt, cmd_buffer, cursor_pos)
    BY DEF StandInv
  <2>6. Stands(Echo(screen, chars), prompt, cmd_buffer, cursor_pos + 1)
    BY <1>1, <2>3, <2>5, TextStands
  <2>7. QED
    BY <1>1, <2>1, <2>4, <2>6
<1>5. QED
  BY <1>3, <1>4

LEMMA InsertStands ==
  ASSUME StandInv, NEW c \in Printable, insert_char(c)
  PROVE  Stands(screen', prompt', cmd_buffer', cursor_pos')
<1> DEFINE a == Part(cmd_buffer', cursor_pos, cmd_len')
           b == Repeat(cmd_len - cursor_pos, BS)
<1>1. /\ screen' = Echo(screen, a \o b) /\ prompt' = prompt
      /\ cmd_len' = cmd_len + 1 /\ cursor_pos' = cursor_pos + 1
  BY DEF insert_char
<1>2. /\ cmd_len \in Nat /\ cursor_pos \in Nat /\ cursor_pos <= cmd_len /\ cmd_len < MAX_CMD_LEN
      /\ prompt \in Nat /\ BufferInv
  BY Counts, ConsoleAssumption DEF StandInv
<1>3. /\ cmd_buffer' \in Buffers /\ \A i \in 0 .. cmd_len' - 1 : cmd_buffer'[i] # NUL
      /\ \A i \in 0 .. cursor_pos - 1 : cmd_buffer'[i] = cmd_buffer[i]
  <2>1. BufferInv' /\ \A i \in 0 .. cmd_len : cmd_buffer'[i] = IF i < cursor_pos THEN cmd_buffer[i]
                                                               ELSE IF i = cursor_pos THEN c
                                                               ELSE cmd_buffer[i - 1]
    BY <1>2, InsertBuffer
  <2>2. \A i \in 0 .. cursor_pos - 1 : cmd_buffer'[i] = cmd_buffer[i]
    BY <1>2, <2>1
  <2>3. QED
    BY <2>1, <2>2 DEF BufferInv
<1>4. /\ a \in Seq(Shapes) /\ Len(a) = (cmd_len + 1) - cursor_pos
      /\ \A k \in 1 .. (cmd_len + 1) - cursor_pos : a[k] = cmd_buffer'[(cursor_pos + k) - 1]
  <2>1. cmd_len + 1 \in Nat /\ cursor_pos <= cmd_len + 1 /\ cmd_len + 1 <= MAX_CMD_LEN
    BY <1>2, Sizes
  <2>2. QED
    BY <1>1, <1>2, <1>3, <2>1, PartIs
<1>5. b \in Seq(Shapes \cup {NL, BS}) /\ a \in Seq(Shapes \cup {NL, BS})
  BY <1>2, <1>4 DEF Repeat
<1> HIDE DEF a
<1>6. Stands(Echo(screen, a), prompt, cmd_buffer', cmd_len + 1)
  <2>1. (cmd_len + 1) - cursor_pos \in Nat /\ cursor_pos + ((cmd_len + 1) - cursor_pos) = cmd_len + 1
    BY <1>2
  <2>2. Stands(screen, prompt, cmd_buffer, cursor_pos)
    BY DEF StandInv
  <2>3. Stands(Echo(screen, a), prompt, cmd_buffer', cursor_pos + ((cmd_len + 1) - cursor_pos))
    BY <1>2, <1>3, <1>4, <2>1, <2>2, TextStands
  <2>4. QED
    BY <2>1, <2>3
<1>7. Stands(Echo(Echo(screen, a), b), prompt, cmd_buffer', cursor_pos + 1)
  <2>1. /\ cmd_len - cursor_pos \in 0 .. cmd_len + 1 /\ cmd_len + 1 \in Nat
        /\ (cmd_len + 1) - (cmd_len - cursor_pos) = cursor_pos + 1
    BY <1>2
  <2>2. Stands(Echo(Echo(screen, a), b), prompt, cmd_buffer', (cmd_len + 1) - (cmd_len - cursor_pos))
    BY <1>2, <1>6, <2>1, BackStands
  <2>3. QED
    BY <2>1, <2>2
<1>8. Echo(screen, a \o b) = Echo(Echo(screen, a), b)
  BY <1>5, EchoJoin
<1>9. QED
  BY <1>1, <1>7, <1>8

LEMMA DeleteStands ==
  ASSUME StandInv, delete_char_before_cursor
  PROVE  Stands(screen', prompt', cmd_buffer', cursor_pos')
<1> DEFINE from == cursor_pos - 1
           len == cmd_len - 1
           other == [i \in Nat |-> IF i = len THEN Blank ELSE cmd_buffer'[i]]
           a == Part(cmd_buffer', from, len)
           shown == a \o <<Blank>>
           back == Repeat((len - from) + 1, BS)
<1>1. /\ screen' = Echo(screen, <<BS>> \o a \o <<Blank>> \o back) /\ prompt' = prompt
      /\ cursor_pos > 0 /\ cmd_len' = len /\ cursor_pos' = from
  <2>1. /\ screen' = Echo(screen, Closing(cmd_buffer', cursor_pos', cmd_len')) /\ prompt' = prompt
        /\ cursor_pos > 0 /\ cmd_len' = len /\ cursor_pos' = from
    BY DEF delete_char_before_cursor
  <2>2. screen' = Echo(screen, Closing(cmd_buffer', from, len))
    BY <2>1
  <2>3. QED
    BY <2>1, <2>2 DEF Closing
<1>2. /\ from \in Nat /\ len \in Nat /\ from <= len /\ len < MAX_CMD_LEN
      /\ cursor_pos \in Nat /\ cursor_pos - 1 = from /\ prompt \in Nat /\ BufferInv
  BY <1>1, Counts, ConsoleAssumption, Sizes DEF StandInv
<1>3. /\ cmd_buffer' \in Buffers /\ \A i \in 0 .. len - 1 : cmd_buffer'[i] # NUL
      /\ \A i \in 0 .. from - 1 : cmd_buffer'[i] = cmd_buffer[i]
  <2>1. BufferInv' /\ \A i \in 0 .. cmd_len - 2 : cmd_buffer'[i] =
                        IF i < cursor_pos - 1 THEN cmd_buffer[i] ELSE cmd_buffer[i + 1]
    BY <1>2, DeleteBuffer
  <2>2. \A i \in 0 .. from - 1 : i \in 0 .. cmd_len - 2 /\ i < cursor_pos - 1
    BY <1>2, Counts
  <2>3. \A i \in 0 .. from - 1 : cmd_buffer'[i] = cmd_buffer[i]
    BY <2>1, <2>2
  <2>4. QED
    BY <1>1, <2>1, <2>3 DEF BufferInv
<1> HIDE DEF from, len
<1>4. /\ a \in Seq(Shapes) /\ Len(a) = len - from /\ len - from \in Nat
      /\ \A k \in 1 .. len - from : a[k] = cmd_buffer'[(from + k) - 1]
  <2>1. len <= MAX_CMD_LEN
    BY <1>2, Sizes
  <2>2. PICK b : b = cmd_buffer'
    OBVIOUS
  <2>3. /\ b \in Buffers /\ from \in Nat /\ len \in Nat /\ from <= len
        /\ \A i \in 0 .. len - 1 : b[i] # NUL
    BY <1>2, <1>3, <2>2
  <2>4. /\ Part(b, from, len) \in Seq(Shapes) /\ Len(Part(b, from, len)) = len - from
        /\ len - from \in Nat
        /\ \A k \in 1 .. len - from : Part(b, from, len)[k] = b[(from + k) - 1]
    BY <2>1, <2>3, PartIs
  <2>5. QED
    BY <2>2, <2>4
<1> HIDE DEF a
<1>5. /\ shown \in Seq(Shapes) /\ Len(shown) = (len - from) + 1
      /\ \A k \in 1 .. (len - from) + 1 : shown[k] = other[(from + k) - 1]
  <2>1. <<Blank>> \in Seq(Shapes) /\ Len(<<Blank>>) = 1 /\ <<Blank>>[1] = Blank
    BY ShapeFacts
  <2>2. /\ shown \in Seq(Shapes) /\ Len(shown) = Len(a) + 1
        /\ \A k \in 1 .. Len(a) + 1 : shown[k] = IF k <= Len(a) THEN a[k] ELSE <<Blank>>[k - Len(a)]
    BY <1>4, <2>1, ConcatProperties
  <2> HIDE DEF shown, other
  <2>3. ASSUME NEW k \in 1 .. (len - from) + 1 PROVE shown[k] = other[(from + k) - 1]
    <3>1. (from + k) - 1 \in Nat
      BY <1>2
    <3>2. other[(from + k) - 1] = IF (from + k) - 1 = len THEN Blank ELSE cmd_buffer'[(from + k) - 1]
      BY <3>1 DEF other
    <3>3. CASE k <= len - from
      <4>1. (from + k) - 1 # len /\ k \in 1 .. len - from
        BY <1>2, <3>3
      <4>2. QED
        BY <1>4, <2>2, <3>2, <3>3, <4>1
    <3>4. CASE ~(k <= len - from)
      <4>1. (from + k) - 1 = len /\ k - (len - from) = 1
        BY <1>2, <1>4, <3>4
      <4>2. shown[k] = Blank
        BY <1>4, <2>1, <2>2, <3>4, <4>1
      <4>3. QED
        BY <3>2, <4>1, <4>2
    <3>5. QED
      BY <3>3, <3>4
  <2>4. QED
    BY <1>4, <2>2, <2>3
<1>6. Stands(Echo(screen, <<BS>>), prompt, cmd_buffer, from)
  <2>1. <<BS>> = Repeat(1, BS)
    BY DEF Repeat
  <2>2. 1 \in 0 .. cursor_pos
    BY <1>1, <1>2
  <2>3. Stands(screen, prompt, cmd_buffer, cursor_pos)
    BY DEF StandInv
  <2>4. Stands(Echo(screen, Repeat(1, BS)), prompt, cmd_buffer, cursor_pos - 1)
    BY <1>2, <2>2, <2>3, BackStands
  <2>5. QED
    BY <1>2, <2>1, <2>4
<1>7. /\ \A i \in 0 .. from - 1 : other[i] = cmd_buffer[i] /\ cmd_buffer'[i] = other[i]
      /\ (len - from) + 1 \in Nat /\ from + ((len - from) + 1) = len + 1
      /\ (len - from) + 1 \in 0 .. len + 1 /\ (len + 1) - ((len - from) + 1) = from
  BY <1>2, <1>3
<1> HIDE DEF other
<1>8. Stands(Echo(Echo(screen, <<BS>>), shown), prompt, other, len + 1)
  <2> HIDE DEF shown
  <2>1. PICK n \in Nat : n = (len - from) + 1
    BY <1>7
  <2>2. /\ shown \in Seq(Shapes) /\ Len(shown) = n /\ \A k \in 1 .. n : shown[k] = other[(from + k) - 1]
        /\ from + n = len + 1 /\ from \in Nat /\ prompt \in Nat
        /\ \A i \in 0 .. from - 1 : other[i] = cmd_buffer[i]
    BY <1>2, <1>5, <1>7, <2>1
  <2>3. Stands(Echo(Echo(screen, <<BS>>), shown), prompt, other, from + n)
    BY <1>6, <2>2, TextStands
  <2>4. QED
    BY <2>2, <2>3
<1>9. Stands(Echo(Echo(Echo(screen, <<BS>>), shown), back), prompt, other, from)
  <2>1. len + 1 \in Nat
    BY <1>2
  <2>2. Stands(Echo(Echo(Echo(screen, <<BS>>), shown), back), prompt, other,
               (len + 1) - ((len - from) + 1))
    BY <1>2, <1>7, <1>8, <2>1, BackStands
  <2>3. QED
    BY <1>7, <2>2
<1>10. Echo(screen, <<BS>> \o a \o <<Blank>> \o back)
         = Echo(Echo(Echo(screen, <<BS>>), shown), back)
  <2> DEFINE S == Shapes \cup {NL, BS}
  <2>1. <<BS>> \in Seq(S) /\ a \in Seq(S) /\ <<Blank>> \in Seq(S) /\ shown \in Seq(S) /\ back \in Seq(S)
    BY <1>4, <1>5, <1>7, ShapeFacts DEF Repeat
  <2> HIDE DEF S, back
  <2>2. <<BS>> \o a \o <<Blank>> = <<BS>> \o shown
    BY <2>1, ConcatAssociative
  <2>3. <<BS>> \o shown \in Seq(S)
    <3> HIDE DEF shown
    <3>1. QED
      BY <2>1, ConcatProperties
  <2>4. Echo(screen, (<<BS>> \o shown) \o back) = Echo(Echo(screen, <<BS>> \o shown), back)
    BY <2>1, <2>3, EchoJoin
  <2>5. Echo(screen, <<BS>> \o shown) = Echo(Echo(screen, <<BS>>), shown)
    <3> HIDE DEF shown
    <3>1. QED
      BY <2>1, EchoJoin
  <2>6. QED
    BY <2>2, <2>4, <2>5
<1>11. Stands(screen', prompt, cmd_buffer', from)
  BY <1>1, <1>2, <1>7, <1>9, <1>10, SameStands
<1>12. QED
  BY <1>1, <1>11

LEMMA LoadStands ==
  ASSUME StandInv, NEW s \in Buffers, load_line(s), prompt' = prompt
  PROVE  Stands(screen', prompt', cmd_buffer', cursor_pos')
<1> DEFINE a == Part(cmd_buffer, cursor_pos, cmd_len)
           b == [i \in 1 .. 3 * cmd_len |-> IF i % 3 = 2 THEN Blank ELSE BS]
           d == Part(s, 0, StrLen(s))
           S == Shapes \cup {NL, BS}
<1>1. screen' = Echo(screen, (a \o b) \o d) /\ cursor_pos' = StrLen(s)
  BY DEF load_line, Clearing
<1>2. /\ cmd_len \in Nat /\ cursor_pos \in Nat /\ cursor_pos <= cmd_len /\ cmd_len <= MAX_CMD_LEN
      /\ prompt \in Nat /\ cmd_buffer \in Buffers /\ \A i \in 0 .. cmd_len - 1 : cmd_buffer[i] # NUL
  BY Counts, Sizes, ConsoleAssumption DEF StandInv, BufferInv
<1>3. /\ a \in Seq(Shapes) /\ Len(a) = cmd_len - cursor_pos /\ cmd_len - cursor_pos \in Nat
      /\ \A k \in 1 .. cmd_len - cursor_pos : a[k] = cmd_buffer[(cursor_pos + k) - 1]
  BY <1>2, PartIs
<1> HIDE DEF a
<1>4. Stands(Echo(screen, a), prompt, cmd_buffer, cmd_len)
  <2>1. cursor_pos + (cmd_len - cursor_pos) = cmd_len
    BY <1>2
  <2>2. Stands(screen, prompt, cmd_buffer, cursor_pos)
    BY DEF StandInv
  <2>3. Stands(Echo(screen, a), prompt, cmd_buffer, cursor_pos + (cmd_len - cursor_pos))
    BY <1>2, <1>3, <2>2, TextStands
  <2>4. QED
    BY <2>1, <2>3
<1>5. b \in Seq(S) /\ Stands(Echo(Echo(screen, a), b), prompt, cmd_buffer, 0)
  BY <1>2, <1>4, RubStands
<1> HIDE DEF b
<1>6. PICK n \in Nat : n = StrLen(s) /\ n <= MAX_CMD_LEN /\ \A i \in 0 .. n - 1 : s[i] # NUL
  BY StrLenIs, Sizes DEF Cells
<1>7. /\ d \in Seq(Shapes) /\ Len(d) = n /\ \A k \in 1 .. n : d[k] = s[(0 + k) - 1]
  <2>1. n - 0 = n /\ 0 <= n /\ 0 \in Nat /\ n <= MAX_CMD_LEN
    BY <1>6
  <2>2. \A i \in 0 .. n - 1 : s[i] # NUL
    BY <1>6
  <2>3. /\ Part(s, 0, n) \in Seq(Shapes) /\ Len(Part(s, 0, n)) = n - 0
        /\ \A k \in 1 .. n - 0 : Part(s, 0, n)[k] = s[(0 + k) - 1]
    BY <2>1, <2>2, PartIs
  <2>4. QED
    BY <1>6, <2>1, <2>3
<1> HIDE DEF d
<1>8. Stands(Echo(Echo(Echo(screen, a), b), d), prompt, s, n)
  <2>1. 0 \in Nat /\ 0 + n = n /\ \A i \in 0 .. 0 - 1 : s[i] = cmd_buffer[i]
    BY <1>6
  <2>2. Stands(Echo(Echo(Echo(screen, a), b), d), prompt, s, 0 + n)
    BY <1>2, <1>5, <1>7, <2>1, TextStands
  <2>3. QED
    BY <2>1, <2>2
<1>9. Echo(screen, (a \o b) \o d) = Echo(Echo(Echo(screen, a), b), d)
  <2>1. a \in Seq(S) /\ d \in Seq(S)
    BY <1>3, <1>7
  <2> HIDE DEF S
  <2>2. a \o b \in Seq(S)
    BY <1>5, <2>1, ConcatProperties
  <2>3. Echo(screen, (a \o b) \o d) = Echo(Echo(screen, a \o b), d)
    BY <2>1, <2>2, EchoJoin
  <2>4. Echo(screen, a \o b) = Echo(Echo(screen, a), b)
    BY <1>5, <2>1, EchoJoin
  <2>5. QED
    BY <2>3, <2>4
<1>10. \A i \in 0 .. n - 1 : cmd_buffer'[i] = s[i]
  <2>1. cmd_buffer' = StrCopy(cmd_buffer, s)
    BY DEF load_line
  <2>2. QED
    BY <1>2, <1>6, <2>1, CopyIs
<1>11. Stands(screen', prompt, cmd_buffer', n)
  BY <1>1, <1>2, <1>6, <1>8, <1>9, <1>10, SameStands
<1>12. QED
  BY <1>1, <1>6, <1>11

\* A prompt stands at the beginning of a line, in a row of its own.
LEMMA PromptStands ==
  ASSUME NEW scr, scr \in Screens, NEW buffer, shell_prompt(Put(scr, NL))
  PROVE  prompt' \in Prompts /\ Stands(screen', prompt', buffer, 0)
<1> DEFINE bare == [row |-> Fresh, x |-> 0, wrapped |-> FALSE]
           words == [i \in Nat |-> "prompt"]
<1>1. PICK p \in Prompts : p = prompt'
  BY DEF shell_prompt
<1>2. p \in Nat
  BY ConsoleAssumption
<1>3. screen' = Echo(bare, Repeat(p, "prompt"))
  <2>1. Put(scr, NL) = [scr EXCEPT !.row = Fresh, !.x = 0]
    <3>1. NL # BS
      BY DEF NL, BS
    <3>2. QED
      BY <3>1 DEF Put
  <2>2. [Put(scr, NL) EXCEPT !.wrapped = FALSE] = bare
    <3>1. scr = [row |-> scr.row, x |-> scr.x, wrapped |-> scr.wrapped]
      BY DEF Screens
    <3>2. Put(scr, NL) = [row |-> Fresh, x |-> 0, wrapped |-> scr.wrapped]
      BY <2>1, <3>1
    <3>3. PICK w \in BOOLEAN : w = scr.wrapped
      BY DEF Screens
    <3>4. [[row |-> Fresh, x |-> 0, wrapped |-> w] EXCEPT !.wrapped = FALSE]
            = [row |-> Fresh, x |-> 0, wrapped |-> FALSE]
      <4>1. ASSUME NEW v
            PROVE  [[row |-> Fresh, x |-> 0, wrapped |-> w] EXCEPT !.wrapped = v]
                     = [row |-> Fresh, x |-> 0, wrapped |-> v]
        OBVIOUS
      <4>2. QED
        BY <4>1, Zenon
    <3>5. QED
      BY <3>2, <3>3, <3>4
  <2>3. QED
    BY <1>1, <2>2 DEF shell_prompt
<1>4. Stands(bare, 0, words, 0)
  <2>1. Fresh \in [0 .. Cols - 1 -> Shapes] /\ 0 \in 0 .. Cols - 1
    BY Sizes, ShapeFacts DEF Fresh
  <2>2. bare \in Screens
    BY <2>1 DEF Screens
  <2>3. \A i \in 0 .. Cols - 1 : bare.row[i] \in {Blank, Bare} /\ ~(i < 0) /\ ~(i < 0 + 0)
    BY Sizes DEF Fresh
  <2>4. QED
    BY <2>2, <2>3 DEF Stands, Shows
<1>5. /\ Repeat(p, "prompt") \in Seq(Shapes) /\ Len(Repeat(p, "prompt")) = p
      /\ \A k \in 1 .. p : Repeat(p, "prompt")[k] = words[(0 + k) - 1]
  BY <1>2, ShapeFacts DEF Repeat
<1> HIDE DEF bare, words
<1>6. Stands(screen', 0, words, p)
  <2>1. 0 \in Nat /\ 0 + p = p /\ \A i \in 0 .. 0 - 1 : words[i] = words[i]
    BY <1>2
  <2>2. Stands(screen', 0, words, 0 + p)
    BY <1>2, <1>3, <1>4, <1>5, <2>1, TextStands
  <2>3. QED
    BY <2>1, <2>2
<1>7. ASSUME Shows(screen', 0, words, p) PROVE Shows(screen', p, buffer, 0)
  <2>1. screen'.x = p + 0
    BY <1>2, <1>7 DEF Shows
  <2>2. ASSUME NEW i \in 0 .. Cols - 1
        PROVE  /\ i < p => screen'.row[i] = "prompt"
               /\ ~(p <= i /\ i < p + 0)
               /\ p + 0 <= i => screen'.row[i] \in {Blank, Bare}
    <3>1. i \in Nat /\ i - 0 = i /\ 0 <= i /\ words[i] = "prompt"
      BY Sizes DEF words
    <3>2. /\ 0 <= i /\ i < 0 + p => screen'.row[i] = words[i - 0]
          /\ 0 + p <= i => screen'.row[i] \in {Blank, Bare}
      BY <1>7 DEF Shows
    <3>3. QED
      BY <1>2, <3>1, <3>2
  <2>3. QED
    BY <2>1, <2>2 DEF Shows
<1>8. QED
  BY <1>1, <1>6, <1>7 DEF Stands

LEMMA PromptInit == ConsoleInit => StandInv
<1> SUFFICES ASSUME ConsoleInit PROVE StandInv
  OBVIOUS
<1> DEFINE bare == [row |-> Fresh, x |-> 0, wrapped |-> FALSE]
<1>1. BufferInv /\ prompt = 1 /\ prompt \in Prompts /\ cursor_pos = 0 /\ screen = Put(bare, "prompt")
  BY BufferInit, ConsoleAssumption DEF ConsoleInit
<1>2. "prompt" \in Shapes /\ "prompt" # NL /\ "prompt" # BS
  BY ShapeFacts DEF NL, BS
<1>3. bare \in Screens
  BY Sizes, ShapeFacts DEF Fresh, Screens
<1>4. screen \in Screens
  BY <1>1, <1>2, <1>3, PutTyped
<1>5. ASSUME ~screen.wrapped PROVE Shows(screen, prompt, cmd_buffer, cursor_pos)
  <2>1. 0 + 1 < Cols
    BY <1>1, <1>2, <1>5 DEF Put
  <2>2. screen = [row |-> [Fresh EXCEPT ![0] = "prompt"], x |-> 1, wrapped |-> FALSE]
    <3>1. screen = [bare EXCEPT !.x = bare.x + 1, !.row = [bare.row EXCEPT ![bare.x] = "prompt"]]
      BY <1>1, <1>2, <2>1 DEF Put
    <3>2. 0 + 1 = 1
      OBVIOUS
    <3>3. QED
      BY <3>1, <3>2
  <2>3. \A i \in 0 .. Cols - 1 : screen.row[i] = IF i = 0 THEN "prompt" ELSE Bare
    <3>1. screen.row = [Fresh EXCEPT ![0] = "prompt"]
      BY <2>2
    <3>2. \A i \in 0 .. Cols - 1 : [Fresh EXCEPT ![0] = "prompt"][i] = IF i = 0 THEN "prompt" ELSE Bare
      BY DEF Fresh
    <3>3. QED
      BY <3>1, <3>2
  <2>4. screen.x = 1
    BY <2>2
  <2>5. ASSUME NEW i \in 0 .. Cols - 1
        PROVE  /\ i < 1 => screen.row[i] = "prompt"
               /\ ~(1 <= i /\ i < 1 + 0)
               /\ 1 + 0 <= i => screen.row[i] \in {Blank, Bare}
    BY <2>3, Sizes
  <2>6. Shows(screen, 1, cmd_buffer, 0)
    <3>1. screen.x = 1 + 0
      BY <2>4
    <3>2. QED
      BY <2>5, <3>1 DEF Shows
  <2>7. QED
    BY <1>1, <2>6
<1>6. QED
  BY <1>1, <1>4, <1>5 DEF StandInv, Stands

LEMMA StandNext ==
  ASSUME StandInv, [ConsoleNext]_consoleVars PROVE StandInv'
<1>1. BufferInv /\ BufferInv' /\ screen \in Screens
  BY EditorNext DEF StandInv, Stands
<1>2. SUFFICES prompt' \in Prompts /\ Stands(screen', prompt', cmd_buffer', cursor_pos')
  BY <1>1 DEF StandInv, Stands, Shows
<1>3. CASE cursor_left \/ cursor_right
  BY <1>3, MoveStands DEF StandInv, cursor_left, cursor_right
<1>4. CASE \E c \in Printable : insert_char(c)
  BY <1>4, InsertStands DEF StandInv, insert_char
<1>5. CASE delete_char_before_cursor
  BY <1>5, DeleteStands DEF StandInv, delete_char_before_cursor
<1>6. CASE KeyUp
  <2>1. prompt' = prompt /\ load_line(history[history_nav'])
    BY <1>6 DEF KeyUp
  <2>2. history[history_nav'] \in Buffers
    <3>1. history_nav' = (IF history_nav = -1 THEN history_count ELSE history_nav) - 1
          /\ history_count > 0 /\ history_nav # 0
      BY <1>6 DEF KeyUp
    <3>2. PICK at \in Int : at = history_nav'
      BY <1>1, <3>1, Counts
    <3>3. at \in 0 .. history_count - 1
      BY <1>1, <3>1, <3>2, Counts
    <3>4. QED
      BY <1>1, <3>2, <3>3, HistoryHolds
  <2>3. QED
    BY <2>1, <2>2, LoadStands DEF StandInv
<1>7. CASE KeyDown
  <2>1. CASE history_nav + 1 >= history_count
    <3>1. prompt' = prompt /\ load_line(saved_line) /\ saved_line \in Buffers
      BY <1>1, <1>7, <2>1 DEF KeyDown, BufferInv
    <3>2. QED
      BY <3>1, LoadStands DEF StandInv
  <2>2. CASE ~(history_nav + 1 >= history_count)
    <3>1. prompt' = prompt /\ load_line(history[history_nav + 1])
      BY <1>7, <2>2 DEF KeyDown
    <3>2. history_nav + 1 \in 0 .. history_count - 1
      BY <1>1, <2>2, Counts
    <3>3. QED
      BY <1>1, <3>1, <3>2, HistoryHolds, LoadStands DEF StandInv
  <2>3. QED
    BY <2>1, <2>2
<1>8. CASE EnterKey
  <2>1. cursor_pos' = 0 /\ shell_prompt(Put(screen, NL))
    BY <1>8 DEF EnterKey
  <2>2. prompt' \in Prompts /\ Stands(screen', prompt', cmd_buffer', 0)
    BY <1>1, <2>1, PromptStands
  <2>3. QED
    BY <2>1, <2>2
<1>9. CASE CtrlC
  <2> DEFINE chars == <<"^", "C", NL>>
  <2>1. cursor_pos' = 0 /\ shell_prompt(Echo(screen, chars))
    BY <1>9 DEF CtrlC
  <2>2. Len(chars) = 3 /\ chars[1] = "^" /\ chars[2] = "C" /\ chars[3] = NL
    OBVIOUS
  <2> HIDE DEF chars
  <2>3. PICK f : /\ Echo(screen, chars) = f[Len(chars)] /\ f[0] = screen
                 /\ \A n \in 1 .. Len(chars) : f[n] = Put(f[n-1], chars[n])
    <3>1. Len(chars) \in Nat
      BY <2>2
    <3>2. QED
      BY <3>1, EchoIs, SMTT(30)
  <2>4. /\ Echo(screen, chars) = Put(f[2], NL) /\ f[2] = Put(f[1], "C") /\ f[1] = Put(screen, "^")
    <3>1. f[1] = Put(f[1-1], chars[1]) /\ f[2] = Put(f[2-1], chars[2]) /\ f[3] = Put(f[3-1], chars[3])
      <4>1. 1 \in 1 .. Len(chars) /\ 2 \in 1 .. Len(chars) /\ 3 \in 1 .. Len(chars)
        BY <2>2
      <4>2. QED
        BY <2>3, <4>1, Zenon
    <3>2. 1 - 1 = 0 /\ 2 - 1 = 1 /\ 3 - 1 = 2
      OBVIOUS
    <3>3. QED
      BY <2>2, <2>3, <3>1, <3>2
  <2>5. f[1] \in Screens
    BY <1>1, <2>4, PutTyped, ShapeFacts
  <2>6. f[2] \in Screens
    BY <2>4, <2>5, PutTyped, ShapeFacts
  <2>7. prompt' \in Prompts /\ Stands(screen', prompt', cmd_buffer', 0)
    BY <2>1, <2>4, <2>6, PromptStands
  <2>8. QED
    BY <2>1, <2>7
<1>10. CASE UNCHANGED consoleVars
  BY <1>10 DEF StandInv, consoleVars, line
<1>11. QED
  BY <1>3, <1>4, <1>5, <1>6, <1>7, <1>8, <1>9, <1>10 DEF ConsoleNext

LEMMA StandAlways == ConsoleSpec => []StandInv
<1>1. StandInv /\ [ConsoleNext]_consoleVars => StandInv'
  BY StandNext
<1>2. QED
  BY PromptInit, <1>1, PTL DEF ConsoleSpec

\* No key writes a cell outside the buffers, the history or the screen's row.
THEOREM ConsoleTypes == ConsoleSpec => []ConsoleTypeOK
<1>1. StandInv => ConsoleTypeOK
  BY DEF StandInv, BufferInv, Stands, Screens, Shapes, ConsoleTypeOK
<1>2. QED
  BY <1>1, StandAlways, PTL

\* The line on the screen is the line in the buffer, with the cursor where it is.
THEOREM ScreenStaysInStep == ConsoleSpec => []ScreenInStep
<1>1. ASSUME StandInv PROVE ScreenInStep
  <2>1. SUFFICES ASSUME ~screen.wrapped
                 PROVE  /\ screen.x = prompt + cursor_pos
                        /\ \A i \in 0 .. Cols - 1 :
                             CASE i < prompt   -> screen.row[i] = "prompt"
                               [] i \in prompt .. screen.x - 1 -> screen.row[i] = cmd_buffer[i - prompt]
                               [] OTHER        -> screen.row[i] \in {Blank, Bare}
    BY DEF ScreenInStep
  <2>2. Shows(screen, prompt, cmd_buffer, cursor_pos) /\ prompt \in Nat /\ cursor_pos \in Nat
    BY <1>1, <2>1, Counts, ConsoleAssumption DEF StandInv, Stands
  <2>3. screen.x = prompt + cursor_pos
    BY <2>2 DEF Shows
  <2>4. ASSUME NEW i \in 0 .. Cols - 1
        PROVE  CASE i < prompt   -> screen.row[i] = "prompt"
                 [] i \in prompt .. screen.x - 1 -> screen.row[i] = cmd_buffer[i - prompt]
                 [] OTHER        -> screen.row[i] \in {Blank, Bare}
    <3>1. /\ i < prompt => screen.row[i] = "prompt"
          /\ prompt <= i /\ i < prompt + cursor_pos => screen.row[i] = cmd_buffer[i - prompt]
          /\ prompt + cursor_pos <= i => screen.row[i] \in {Blank, Bare}
      BY <2>2 DEF Shows
    <3>2. i \in Nat
      BY Sizes
    <3>3. i < prompt => ~(i \in prompt .. screen.x - 1)
      BY <2>2, <3>2
    <3>4. i \in prompt .. screen.x - 1 <=> prompt <= i /\ i < prompt + cursor_pos
      BY <2>2, <2>3, <3>2
    <3>5. i < prompt \/ i \in prompt .. screen.x - 1 \/ prompt + cursor_pos <= i
      BY <2>2, <3>2, <3>4
    <3>6. QED
      BY <3>1, <3>3, <3>4, <3>5
  <2>5. QED
    BY <2>3, <2>4
<1>2. StandInv => ScreenInStep
  BY <1>1
<1>3. QED
  BY <1>2, StandAlways, PTL

-----------------------------------------------------------------------------
(***************************************************************************)
(* The terminal.  Once a byte has been dropped the scrollback is full up   *)
(* to the prompt, so that nothing is typed behind it any more: this is why *)
(* an edit of the line never meets a scrollback that has lost its          *)
(* beginning, and what the invariant adds to the property.                 *)
(***************************************************************************)
Room == TERMINAL_BUF_MAX - 1

TerminalInv ==
  /\ TerminalTypeOK
  /\ transcript \in Seq(Character) /\ line_typed \in Seq(Character)
  /\ ScrollbackIsTail
  /\ Len(transcript) > Room => input_start = Len(buf)

LEMMA TerminalSizes ==
  /\ Room \in Nat /\ TERMINAL_LINE_MAX \in Nat \ {0} /\ MAX_CMD_LEN \in Nat
  /\ TermCols \in Nat \ {0} /\ TermRows \in Nat \ {0} /\ MinThumb \in Nat \ {0}
  /\ APP_TEXT_MAX_LINES \in Nat /\ TrackHeight \in Nat /\ MaxEntered \in Nat
  /\ TERMINAL_BUF_MAX = Room + 1
BY TerminalAssumption DEF Room

\* A sequence without its first d elements.
LEMMA WithoutFirst ==
  ASSUME NEW S, NEW s \in Seq(S), NEW d \in Nat, d <= Len(s)
  PROVE  /\ SubSeq(s, d + 1, Len(s)) \in Seq(S)
         /\ Len(SubSeq(s, d + 1, Len(s))) = Len(s) - d
         /\ \A i \in 1 .. Len(s) - d : SubSeq(s, d + 1, Len(s))[i] = s[d + i]
<1>1. Len(s) \in Nat
  BY LenProperties
<1>2. d + 1 \in Int /\ Len(s) \in Int /\ \A i \in d + 1 .. Len(s) : s[i] \in S
  BY <1>1, ElementOfSeq
<1>3. /\ SubSeq(s, d + 1, Len(s)) \in Seq(S)
      /\ Len(SubSeq(s, d + 1, Len(s))) = IF d + 1 <= Len(s) THEN Len(s)-(d + 1)+1 ELSE 0
      /\ \A i \in 1 .. Len(s)-(d + 1)+1 : SubSeq(s, d + 1, Len(s))[i] = s[(d + 1)+i-1]
  BY <1>2, SubSeqProperties
<1>4. ASSUME NEW i \in 1 .. Len(s) - d PROVE SubSeq(s, d + 1, Len(s))[i] = s[d + i]
  <2>1. i \in 1 .. Len(s)-(d + 1)+1 /\ (d + 1)+i-1 = d + i
    BY <1>1
  <2>2. QED
    BY <1>3, <2>1
<1>5. QED
  BY <1>1, <1>3, <1>4

\* A sequence without its last element.
LEMMA WithoutLast ==
  ASSUME NEW S, NEW s \in Seq(S), Len(s) > 0
  PROVE  /\ SubSeq(s, 1, Len(s) - 1) \in Seq(S)
         /\ Len(SubSeq(s, 1, Len(s) - 1)) = Len(s) - 1
         /\ \A i \in 1 .. Len(s) - 1 : SubSeq(s, 1, Len(s) - 1)[i] = s[i]
<1> DEFINE n == Len(s) - 1
<1>1. n \in Nat /\ 1 \in Int /\ n \in Int /\ \A i \in 1 .. n : i \in 1 .. Len(s)
  BY LenProperties
<1>2. \A i \in 1 .. n : s[i] \in S
  BY <1>1, ElementOfSeq
<1> HIDE DEF n
<1>3. /\ SubSeq(s, 1, n) \in Seq(S)
      /\ Len(SubSeq(s, 1, n)) = IF 1 <= n THEN n-1+1 ELSE 0
      /\ \A i \in 1 .. n-1+1 : SubSeq(s, 1, n)[i] = s[1+i-1]
  BY <1>1, <1>2, SubSeqProperties
<1>4. ASSUME NEW i \in 1 .. n PROVE SubSeq(s, 1, n)[i] = s[i]
  <2>1. i \in 1 .. n-1+1 /\ 1+i-1 = i
    BY <1>1
  <2>2. QED
    BY <1>3, <2>1
<1>5. Len(SubSeq(s, 1, n)) = n
  BY <1>1, <1>3
<1>6. QED
  BY <1>3, <1>4, <1>5 DEF n

\* What LastOf leaves out.
Over(length, n) == IF length < n THEN 0 ELSE length - n

\* The end of a sequence, and its beginning.
LEMMA LastOfIs ==
  ASSUME NEW S, NEW s \in Seq(S), NEW n \in Nat
  PROVE  /\ LastOf(s, n) \in Seq(S)
         /\ Len(LastOf(s, n)) = Len(s) - Over(Len(s), n)
         /\ \A i \in 1 .. Len(LastOf(s, n)) : LastOf(s, n)[i] = s[Over(Len(s), n) + i]
<1>1. Len(s) \in Nat
  BY LenProperties
<1>2. Over(Len(s), n) \in Nat /\ Over(Len(s), n) <= Len(s)
  BY <1>1 DEF Over
<1>3. MaxOf(0, Len(s) - n) = Over(Len(s), n)
  BY <1>1 DEF MaxOf, Over
<1>4. LastOf(s, n) = SubSeq(s, Over(Len(s), n) + 1, Len(s))
  BY <1>3 DEF LastOf
<1>5. /\ LastOf(s, n) \in Seq(S)
      /\ Len(LastOf(s, n)) = Len(s) - Over(Len(s), n)
      /\ \A i \in 1 .. Len(s) - Over(Len(s), n) :
           LastOf(s, n)[i] = s[Over(Len(s), n) + i]
  BY <1>2, <1>4, WithoutFirst
<1>6. QED
  BY <1>5

LEMMA LastOfAll ==
  ASSUME NEW S, NEW s \in Seq(S), NEW n \in Nat, Len(s) <= n
  PROVE  LastOf(s, n) = s
<1>1. Len(s) \in Nat
  BY LenProperties
<1>2. MaxOf(0, Len(s) - n) + 1 = 1
  BY <1>1 DEF MaxOf
<1>3. QED
  BY <1>2, SubSeqFull DEF LastOf

LEMMA FirstOfIs ==
  ASSUME NEW S, NEW s \in Seq(S), NEW n \in Nat
  PROVE  /\ FirstOf(s, n) \in Seq(S)
         /\ Len(FirstOf(s, n)) = IF n < Len(s) THEN n ELSE Len(s)
         /\ \A i \in 1 .. Len(FirstOf(s, n)) : FirstOf(s, n)[i] = s[i]
<1> DEFINE m == IF n < Len(s) THEN n ELSE Len(s)
<1>1. Len(s) \in Nat /\ m \in Nat /\ m <= Len(s)
  BY LenProperties
<1>2. FirstOf(s, n) = SubSeq(s, 1, m)
  BY DEF FirstOf, MinOf
<1>3. \A i \in 1 .. m : s[i] \in S
  BY <1>1, ElementOfSeq
<1>4. /\ SubSeq(s, 1, m) \in Seq(S)
      /\ Len(SubSeq(s, 1, m)) = IF 1 <= m THEN (m - 1) + 1 ELSE 0
      /\ \A i \in 1 .. (m - 1) + 1 : SubSeq(s, 1, m)[i] = s[(1 + i) - 1]
  <2>1. m \in Int /\ 1 \in Int
    BY <1>1
  <2> HIDE DEF m
  <2>2. QED
    BY <1>3, <2>1, SubSeqProperties
<1>5. Len(FirstOf(s, n)) = m
  BY <1>1, <1>2, <1>4
<1>6. \A i \in 1 .. m : FirstOf(s, n)[i] = s[i]
  <2> HIDE DEF m
  <2>1. ASSUME NEW i \in 1 .. m PROVE FirstOf(s, n)[i] = s[i]
    <3>1. i \in 1 .. (m - 1) + 1 /\ (1 + i) - 1 = i
      BY <1>1
    <3>2. QED
      BY <1>2, <1>4, <3>1
  <2>2. QED
    BY <2>1
<1>7. QED
  BY <1>2, <1>4, <1>5, <1>6

\* The sums behind the next lemma, of t with lt elements and w with lw.
LEMMA OverSums ==
  ASSUME NEW lt \in Nat, NEW lw \in Nat, NEW n \in Nat, NEW i \in Nat \ {0},
         NEW b, b = lt - Over(lt, n), NEW x, x = lw - Over(lw, n),
         NEW d, d = Over(b + x, n)
  PROVE  /\ b \in Nat /\ x \in Nat /\ d \in Nat /\ d <= b
         /\ (b - d) + x = (lt + lw) - Over(lt + lw, n)
         /\ i <= b - d => /\ Over(lt, n) + (d + i) = Over(lt + lw, n) + i
                          /\ Over(lt + lw, n) + i <= lt
         /\ i > b - d => /\ (Over(lt + lw, n) + i) - lt = Over(lw, n) + (i - (b - d))
                         /\ Over(lt + lw, n) + i > lt
         /\ Over(lt, n) \in Nat /\ Over(lw, n) \in Nat /\ Over(lt + lw, n) \in Nat
BY DEF Over

\* terminal_append keeps the end of all that has been appended.
LEMMA AppendedIsLast ==
  ASSUME NEW S, NEW t \in Seq(S), NEW w \in Seq(S), NEW st, st.buf = LastOf(t, Room)
  PROVE  Appended(st, w).buf = LastOf(t \o w, Room)
<1> DEFINE b == LastOf(t, Room)
           x == LastOf(w, Room)
           d == Over(Len(b) + Len(x), Room)
           r == SubSeq(b, d + 1, Len(b)) \o x
           e == Over(Len(t) + Len(w), Room)
<1>0. Room \in Nat
  BY TerminalSizes
<1>1. Len(t) \in Nat /\ Len(w) \in Nat
  BY LenProperties
<1>2. /\ b \in Seq(S) /\ Len(b) = Len(t) - Over(Len(t), Room)
      /\ \A i \in 1 .. Len(b) : b[i] = t[Over(Len(t), Room) + i]
  BY <1>0, LastOfIs
<1>3. /\ x \in Seq(S) /\ Len(x) = Len(w) - Over(Len(w), Room)
      /\ \A i \in 1 .. Len(x) : x[i] = w[Over(Len(w), Room) + i]
  BY <1>0, LastOfIs
<1> HIDE DEF b, x
<1>4. /\ Len(b) \in Nat /\ Len(x) \in Nat /\ d \in Nat /\ d <= Len(b) /\ e \in Nat
      /\ (Len(b) - d) + Len(x) = (Len(t) + Len(w)) - e
  BY <1>0, <1>1, <1>2, <1>3, OverSums
<1>5. Appended(st, w).buf = r
  <2>1. Drop(st, x) = d
    <3>1. st.buf = b
      BY DEF b
    <3>2. Drop(st, x) = MaxOf(0, Len(b) + Len(x) - Room)
      BY <3>1 DEF Drop, Room
    <3>3. QED
      BY <1>0, <1>4, <3>2 DEF MaxOf, Over
  <2>2. x = LastOf(w, TERMINAL_BUF_MAX - 1)
    BY DEF Room, x
  <2>3. Appended(st, w).buf = SubSeq(st.buf, Drop(st, x) + 1, Len(st.buf)) \o x
    BY <2>2 DEF Appended
  <2>4. st.buf = b
    BY DEF b
  <2> HIDE DEF d
  <2>5. QED
    BY <2>1, <2>3, <2>4
<1>6. /\ LastOf(t \o w, Room) \in Seq(S)
      /\ Len(LastOf(t \o w, Room)) = (Len(b) - d) + Len(x)
      /\ \A i \in 1 .. (Len(b) - d) + Len(x) : LastOf(t \o w, Room)[i] = (t \o w)[e + i]
  <2>1. t \o w \in Seq(S) /\ Len(t \o w) = Len(t) + Len(w)
    BY ConcatProperties
  <2>2. /\ LastOf(t \o w, Room) \in Seq(S)
        /\ Len(LastOf(t \o w, Room)) = Len(t \o w) - Over(Len(t \o w), Room)
        /\ \A i \in 1 .. Len(LastOf(t \o w, Room)) :
             LastOf(t \o w, Room)[i] = (t \o w)[Over(Len(t \o w), Room) + i]
    BY <1>0, <2>1, LastOfIs
  <2> HIDE DEF d
  <2>3. QED
    BY <1>4, <2>1, <2>2
<1>7. /\ SubSeq(b, d + 1, Len(b)) \in Seq(S)
      /\ Len(SubSeq(b, d + 1, Len(b))) = Len(b) - d
      /\ \A i \in 1 .. Len(b) - d : SubSeq(b, d + 1, Len(b))[i] = b[d + i]
  <2> HIDE DEF d
  <2>1. QED
    BY <1>2, <1>4, WithoutFirst
<1>8. /\ r \in Seq(S) /\ Len(r) = (Len(b) - d) + Len(x)
      /\ \A i \in 1 .. (Len(b) - d) + Len(x) :
           r[i] = IF i <= Len(b) - d THEN SubSeq(b, d + 1, Len(b))[i] ELSE x[i - (Len(b) - d)]
  <2> DEFINE u == SubSeq(b, d + 1, Len(b))
  <2>1. u \in Seq(S) /\ Len(u) = Len(b) - d
    BY <1>7
  <2> HIDE DEF d, u
  <2>2. /\ u \o x \in Seq(S) /\ Len(u \o x) = Len(u) + Len(x)
        /\ \A i \in 1 .. Len(u) + Len(x) :
             (u \o x)[i] = IF i <= Len(u) THEN u[i] ELSE x[i - Len(u)]
    BY <1>3, <2>1, ConcatProperties
  <2>3. r = u \o x
    BY DEF u
  <2>4. QED
    BY <2>1, <2>2, <2>3 DEF u
<1>9. ASSUME NEW i \in 1 .. (Len(b) - d) + Len(x) PROVE r[i] = (t \o w)[e + i]
  <2>1. i \in Nat \ {0} /\ i <= (Len(b) - d) + Len(x)
    <3> HIDE DEF d
    <3>1. QED
      BY <1>4
  <2>2. /\ i <= Len(b) - d => /\ Over(Len(t), Room) + (d + i) = e + i /\ e + i <= Len(t)
        /\ i > Len(b) - d =>
             /\ (e + i) - Len(t) = Over(Len(w), Room) + (i - (Len(b) - d))
             /\ e + i > Len(t)
    BY <1>0, <1>1, <1>2, <1>3, <2>1, OverSums
  <2> HIDE DEF d, e, r
  <2>3. e + i \in 1 .. Len(t) + Len(w)
    BY <1>1, <1>4, <2>1
  <2>4. (t \o w)[e + i] = IF e + i <= Len(t) THEN t[e + i] ELSE w[(e + i) - Len(t)]
    BY <2>3, ConcatProperties
  <2>5. CASE i <= Len(b) - d
    <3>1. i \in 1 .. Len(b) - d /\ d + i \in 1 .. Len(b)
      BY <1>4, <2>1, <2>5
    <3>2. r[i] = b[d + i] /\ b[d + i] = t[Over(Len(t), Room) + (d + i)]
      BY <1>2, <1>7, <1>8, <2>5, <3>1
    <3>3. QED
      BY <2>2, <2>4, <2>5, <3>2
  <2>6. CASE i > Len(b) - d
    <3>1. ~(i <= Len(b) - d) /\ i - (Len(b) - d) \in 1 .. Len(x)
      BY <1>4, <2>1, <2>6
    <3>2. /\ r[i] = x[i - (Len(b) - d)]
          /\ x[i - (Len(b) - d)] = w[Over(Len(w), Room) + (i - (Len(b) - d))]
      BY <1>3, <1>8, <3>1
    <3>3. ~(e + i <= Len(t))
      BY <1>1, <1>4, <2>1, <2>2, <2>6
    <3>4. QED
      BY <2>2, <2>4, <2>6, <3>2, <3>3
  <2>7. QED
    BY <1>4, <2>1, <2>5, <2>6
<1>10. QED
  <2>1. r = LastOf(t \o w, Room)
    <3> HIDE DEF r, d, e
    <3>1. \A i \in 1 .. Len(r) : r[i] = LastOf(t \o w, Room)[i]
      BY <1>6, <1>8, <1>9
    <3>2. QED
      BY <1>6, <1>8, <3>1, SeqEqual
  <2>2. QED
    BY <1>5, <2>1

\* A line that begins at i ends at a position of the text or behind it, and the
\* next one begins further on.
LEMMA LineEndIs ==
  ASSUME NEW chars, Len(chars) \in Nat, NEW i \in 1 .. Len(chars)
  PROVE  LineEnd(chars, i) \in i .. Len(chars) + 1 /\ NextLine(chars, i) \in i + 1 .. Len(chars) + 1
<1> DEFINE ends == {j \in i .. MinOf(i + TermCols, Len(chars)) :
                      chars[j] = NL \/ j = i + TermCols}
           first == CHOOSE j \in ends : \A k \in ends : j <= k
<1>0. TermCols \in Nat \ {0} /\ i \in Nat /\ i <= Len(chars)
  BY TerminalSizes
<1>1. MinOf(i + TermCols, Len(chars)) \in Nat /\ MinOf(i + TermCols, Len(chars)) <= Len(chars)
  BY <1>0 DEF MinOf
<1>2. LineEnd(chars, i) = IF ends = {} THEN Len(chars) + 1 ELSE first
  BY DEF LineEnd
<1>3. ends \subseteq Nat /\ \A j \in ends : /\ j \in i .. Len(chars)
                                           /\ (chars[j] = NL \/ j = i + TermCols)
  BY <1>0, <1>1
<1>4. ends # {} => first \in ends
  <2> HIDE DEF ends
  <2>1. ends # {} => \E j \in ends : \A k \in ends : j <= k
    BY <1>3, LeastNat
  <2>2. QED
    BY <2>1
<1> HIDE DEF ends, first
<1>5. LineEnd(chars, i) \in i .. Len(chars) + 1
  <2>1. ends # {} => first \in i .. Len(chars)
    BY <1>3, <1>4
  <2>2. CASE ends = {}
    <3>1. LineEnd(chars, i) = Len(chars) + 1
      BY <1>2, <2>2
    <3>2. QED
      BY <1>0, <3>1
  <2>3. CASE ends # {}
    <3>1. LineEnd(chars, i) = first /\ first \in i .. Len(chars)
      BY <1>2, <2>1, <2>3
    <3>2. QED
      BY <1>0, <3>1
  <2>4. QED
    BY <2>2, <2>3
<1>6. LineEnd(chars, i) <= Len(chars) => chars[LineEnd(chars, i)] = NL \/ LineEnd(chars, i) > i
  <2>1. LineEnd(chars, i) <= Len(chars) => LineEnd(chars, i) \in ends
    BY <1>0, <1>2, <1>4
  <2>2. LineEnd(chars, i) <= Len(chars) => chars[LineEnd(chars, i)] = NL
                                         \/ LineEnd(chars, i) = i + TermCols
    BY <1>3, <2>1
  <2>3. QED
    BY <1>0, <2>2
<1>7. NextLine(chars, i) = IF LineEnd(chars, i) <= Len(chars) /\ chars[LineEnd(chars, i)] = NL
                          THEN LineEnd(chars, i) + 1 ELSE LineEnd(chars, i)
  BY DEF NextLine
<1>8. NextLine(chars, i) \in i + 1 .. Len(chars) + 1
  BY <1>0, <1>5, <1>6, <1>7
<1>9. QED
  BY <1>5, <1>8

\* The lines from each position on, from m to the end.
Divided(chars, m, f) ==
  f = [i \in m .. Len(chars) + 1 |->
         IF i > Len(chars) THEN << >>
         ELSE <<SubSeq(chars, i, LineEnd(chars, i) - 1)>> \o f[NextLine(chars, i)]]

LEMMA DividedExists ==
  ASSUME NEW chars, Len(chars) \in Nat PROVE \E f : Divided(chars, 1, f)
<1> DEFINE n == Len(chars)
           good == {k \in Nat : \E f : Divided(chars, (n + 1) - k, f)}
<1>1. 0 \in good
  <2> DEFINE f == [i \in n + 1 .. n + 1 |-> << >>]
  <2>1. Divided(chars, n + 1, f)
    <3>1. \A i \in n + 1 .. n + 1 : i > n
      OBVIOUS
    <3>2. f = [i \in n + 1 .. n + 1 |->
                 IF i > n THEN << >>
                 ELSE <<SubSeq(chars, i, LineEnd(chars, i) - 1)>> \o f[NextLine(chars, i)]]
      BY <3>1
    <3> HIDE DEF f
    <3>3. QED
      BY <3>2 DEF Divided
  <2>2. (n + 1) - 0 = n + 1 /\ 0 \in Nat
    OBVIOUS
  <2>3. QED
    BY <2>1, <2>2
<1>2. ASSUME NEW k \in 1 .. n, k - 1 \in good PROVE k \in good
  <2> DEFINE m == (n + 1) - k
  <2>1. k \in Nat /\ m \in 1 .. n /\ (n + 1) - (k - 1) = m + 1
    OBVIOUS
  <2>2. PICK f : Divided(chars, m + 1, f)
    BY <1>2, <2>1
  <2> DEFINE g == [i \in m .. n + 1 |->
                     IF i > n THEN << >>
                     ELSE <<SubSeq(chars, i, LineEnd(chars, i) - 1)>> \o f[NextLine(chars, i)]]
  <2> HIDE DEF m, good, n
  <2>3. n \in Nat /\ n = Len(chars)
    BY DEF n
  <2>4. ASSUME NEW j \in m + 1 .. n + 1 PROVE f[j] = g[j]
    <3>1. j \in m .. n + 1
      BY <2>1, <2>3
    <3>2. g[j] = IF j > n THEN << >>
                 ELSE <<SubSeq(chars, j, LineEnd(chars, j) - 1)>> \o f[NextLine(chars, j)]
      BY <3>1
    <3>3. f[j] = IF j > n THEN << >>
                 ELSE <<SubSeq(chars, j, LineEnd(chars, j) - 1)>> \o f[NextLine(chars, j)]
      BY <2>2, <2>3 DEF Divided
    <3>4. QED
      BY <3>2, <3>3
  <2>5. ASSUME NEW i \in m .. n + 1, ~(i > n) PROVE NextLine(chars, i) \in m + 1 .. n + 1
    <3>1. i \in 1 .. n
      BY <2>1, <2>3, <2>5
    <3>2. NextLine(chars, i) \in i + 1 .. n + 1
      BY <2>3, <3>1, LineEndIs
    <3>3. QED
      BY <2>1, <2>3, <2>5, <3>1, <3>2
  <2>6. Divided(chars, m, g)
    <3>1. ASSUME NEW i \in m .. n + 1
          PROVE  g[i] = IF i > n THEN << >>
                        ELSE <<SubSeq(chars, i, LineEnd(chars, i) - 1)>> \o g[NextLine(chars, i)]
      <4>1. ~(i > n) => f[NextLine(chars, i)] = g[NextLine(chars, i)]
        BY <2>4, <2>5
      <4>2. g[i] = IF i > n THEN << >>
                   ELSE <<SubSeq(chars, i, LineEnd(chars, i) - 1)>> \o f[NextLine(chars, i)]
        OBVIOUS
      <4> HIDE DEF g
      <4>3. QED
        BY <4>1, <4>2
    <3>2. g = [i \in m .. n + 1 |-> g[i]]
      OBVIOUS
    <3> HIDE DEF g
    <3>3. g = [i \in m .. n + 1 |->
                 IF i > n THEN << >>
                 ELSE <<SubSeq(chars, i, LineEnd(chars, i) - 1)>> \o g[NextLine(chars, i)]]
      BY <3>1, <3>2
    <3>4. QED
      BY <2>3, <3>3 DEF Divided
  <2>7. QED
    BY <2>1, <2>6 DEF good, m
<1>3. n \in good
  <2> HIDE DEF good
  <2>1. \A k \in 1 .. n : k - 1 \in good => k \in good
    BY <1>2
  <2>2. \A k \in 0 .. n : k \in good
    BY <1>1, <2>1, Induct
  <2>3. QED
    BY <2>2
<1>4. QED
  <2>1. (n + 1) - n = 1
    OBVIOUS
  <2>2. QED
    BY <1>3, <2>1

\* The lines of a text are finitely many.
LEMMA AllLinesIsSeq ==
  ASSUME NEW chars \in Seq(Character) PROVE AllLines(chars) \in Seq(Seq(Character))
<1> DEFINE n == Len(chars)
           from == CHOOSE f : f = [i \in 1 .. Len(chars) + 1 |->
                                     IF i > Len(chars) THEN << >>
                                     ELSE <<SubSeq(chars, i, LineEnd(chars, i) - 1)>>
                                            \o f[NextLine(chars, i)]]
           good == {k \in Nat : from[(n + 1) - k] \in Seq(Seq(Character))}
<1>0. n \in Nat
  BY LenProperties
<1>1. Divided(chars, 1, from)
  <2>1. \E f : Divided(chars, 1, f)
    BY <1>0, DividedExists
  <2>2. QED
    BY <2>1, Zenon DEF Divided
<1>2. AllLines(chars) = from[1]
  BY DEF AllLines
<1> HIDE DEF from
<1>3. \A i \in 1 .. n + 1 :
        from[i] = IF i > n THEN << >>
                  ELSE <<SubSeq(chars, i, LineEnd(chars, i) - 1)>> \o from[NextLine(chars, i)]
  BY <1>1 DEF Divided
<1>4. ASSUME NEW i \in 1 .. n + 1, \A j \in i + 1 .. n + 1 : from[j] \in Seq(Seq(Character))
      PROVE  from[i] \in Seq(Seq(Character))
  <2>1. CASE i > n
    <3>1. from[i] = << >>
      BY <1>3, <2>1
    <3>2. << >> \in Seq(Seq(Character))
      OBVIOUS
    <3>3. QED
      BY <3>1, <3>2
  <2>2. CASE ~(i > n)
    <3>1. i \in 1 .. n /\ i \in Nat
      BY <1>0, <2>2
    <3>2. /\ LineEnd(chars, i) \in i .. n + 1
          /\ NextLine(chars, i) \in i + 1 .. n + 1
      BY <1>0, <3>1, LineEndIs
    <3>3. SubSeq(chars, i, LineEnd(chars, i) - 1) \in Seq(Character)
      <4>1. LineEnd(chars, i) \in Int
        BY <1>0, <3>1, <3>2
      <4>2. \A j \in i .. LineEnd(chars, i) - 1 : chars[j] \in Character
        <5>1. \A j \in i .. LineEnd(chars, i) - 1 : j \in 1 .. Len(chars)
          BY <1>0, <3>1, <3>2
        <5>2. QED
          BY <5>1, ElementOfSeq
      <4>3. QED
        BY <3>1, <4>1, <4>2, SubSeqProperties
    <3>4. <<SubSeq(chars, i, LineEnd(chars, i) - 1)>> \in Seq(Seq(Character))
      BY <3>3
    <3>5. from[NextLine(chars, i)] \in Seq(Seq(Character))
      BY <1>4, <3>2
    <3>6. <<SubSeq(chars, i, LineEnd(chars, i) - 1)>> \o from[NextLine(chars, i)]
             \in Seq(Seq(Character))
      BY <3>4, <3>5, ConcatProperties
    <3>7. QED
      BY <1>3, <2>2, <3>6
  <2>3. QED
    BY <2>1, <2>2
<1>5. \A i \in 1 .. n + 1 : from[i] \in Seq(Seq(Character))
  <2> DEFINE bad == {k \in 0 .. n : from[(n + 1) - k] \notin Seq(Seq(Character))}
  <2> HIDE DEF n
  <2>1. SUFFICES ASSUME NEW i \in 1 .. n + 1, from[i] \notin Seq(Seq(Character)) PROVE FALSE
    OBVIOUS
  <2>2. (n + 1) - i \in bad
    <3>1. (n + 1) - i \in 0 .. n /\ (n + 1) - ((n + 1) - i) = i
      BY <1>0
    <3>2. QED
      BY <2>1, <3>1
  <2>3. bad \subseteq Nat
    BY <1>0
  <2>4. PICK k \in bad : \A l \in bad : k <= l
    <3> HIDE DEF bad
    <3>1. QED
      BY <2>2, <2>3, LeastNat
  <2>5. k \in 0 .. n /\ from[(n + 1) - k] \notin Seq(Seq(Character)) /\ (n + 1) - k \in 1 .. n + 1
    BY <1>0, <2>4
  <2>6. ASSUME NEW j \in ((n + 1) - k) + 1 .. n + 1 PROVE from[j] \in Seq(Seq(Character))
    <3>1. /\ (n + 1) - j \in 0 .. n /\ (n + 1) - ((n + 1) - j) = j
          /\ ~(k <= (n + 1) - j)
      BY <1>0, <2>5
    <3>2. (n + 1) - j \notin bad
      BY <2>4, <3>1
    <3>3. QED
      BY <3>1, <3>2
  <2>7. QED
    BY <1>4, <2>5, <2>6
<1>6. QED
  <2>1. 1 \in 1 .. n + 1
    BY <1>0
  <2>2. QED
    BY <1>2, <1>5, <2>1

\* The view divides a text into no more lines than it has places for.
LEMMA LinesAre ==
  ASSUME buf \in Seq(Character)
  PROVE  Len(Lines) \in Nat /\ Len(Lines) <= APP_TEXT_MAX_LINES
<1>1. AllLines(buf) \in Seq(Seq(Character)) /\ APP_TEXT_MAX_LINES \in Nat
  BY AllLinesIsSeq, TerminalSizes
<1>2. Len(AllLines(buf)) \in Nat
  BY <1>1, LenProperties
<1>3. Len(Lines) = IF APP_TEXT_MAX_LINES < Len(AllLines(buf)) THEN APP_TEXT_MAX_LINES
                   ELSE Len(AllLines(buf))
  BY <1>1, FirstOfIs DEF Lines
<1>4. QED
  BY <1>1, <1>2, <1>3

-----------------------------------------------------------------------------
(* The scrollbar.                                                          *)

LEMMA Quotient ==
  ASSUME NEW a \in Nat, NEW b \in Nat \ {0}
  PROVE  a \div b \in Nat /\ (a \div b) * b <= a /\ a < ((a \div b) + 1) * b
OBVIOUS

\* The thumb leaves a pixel of the track to every line out of view: h is the
\* height of the track, n the lines, r those in view.
LEMMA TrackIsLeft ==
  ASSUME NEW h \in Nat, NEW n \in Nat, NEW r \in Nat \ {0}, r < n, n <= h,
         NEW m \in Nat, n - r <= h - m
  PROVE  /\ MaxOf(m, (h * r) \div n) \in Nat
         /\ n - r <= h - MaxOf(m, (h * r) \div n)
<1> DEFINE q == (h * r) \div n
<1>1. h * r \in Nat /\ n \in Nat \ {0}
  OBVIOUS
<1>2. q \in Nat /\ q * n <= h * r
  BY <1>1, Quotient
<1> HIDE DEF q
<1>3. n - r <= h - q
  <2>1. SUFFICES ASSUME q >= ((h - n) + r) + 1 PROVE FALSE
    BY <1>2
  <2>2. PICK a \in Nat : a = h - n
    OBVIOUS
  <2>3. PICK b \in Nat : b = n - r
    OBVIOUS
  <2>4. q * n >= ((a + r) + 1) * n
    <3>1. \A x, y, z \in Nat : x >= y => x * z >= y * z
      OBVIOUS
    <3>2. q >= (a + r) + 1 /\ (a + r) + 1 \in Nat
      BY <2>1, <2>2
    <3>3. QED
      BY <1>2, <3>1, <3>2
  <2>5. ((a + r) + 1) * n = (a * n + r * n) + n /\ a * n = a * b + a * r
    BY <2>2, <2>3
  <2>6. h * r = a * r + n * r /\ r * n = n * r
    BY <2>2
  <2>7. a * b \in Nat /\ a * r \in Nat /\ r * n \in Nat /\ n \in Nat /\ n > 0
    BY <2>2, <2>3
  <2>8. q * n \in Nat /\ h * r \in Nat /\ a * n \in Nat
    BY <1>2, <2>2
  <2>9. QED
    BY <1>2, <2>4, <2>5, <2>6, <2>7, <2>8
<1>4. QED
  BY <1>2, <1>3 DEF MaxOf, q

\* The thumb leaves an end of the track when there is a line beyond it: x is
\* how far the view scrolls, of which it has scrolled o, and g what the thumb
\* leaves of the track.
LEMMA ThumbLeaves ==
  ASSUME NEW x \in Nat \ {0}, NEW o \in 0 .. x, NEW g \in Nat, x <= g
  PROVE  /\ (g * (x - o)) \div x \in Nat
         /\ o < x => (g * (x - o)) \div x > 0
         /\ o > 0 => (g * (x - o)) \div x < g
<1> DEFINE q == (g * (x - o)) \div x
<1>1. PICK y \in Nat : y = x - o
  OBVIOUS
<1>2. g * y \in Nat
  BY <1>1
<1>3. q \in Nat /\ q * x <= g * y /\ g * y < (q + 1) * x
  BY <1>1, <1>2, Quotient
<1> HIDE DEF q
<1>4. o < x => q > 0
  <2>1. SUFFICES ASSUME o < x, q = 0 PROVE FALSE
    BY <1>3
  <2>2. y >= 1
    BY <1>1, <2>1
  <2>3. g * y >= g
    BY <1>1, <2>2
  <2>4. (q + 1) * x = x
    BY <2>1
  <2>5. QED
    BY <1>2, <1>3, <2>3, <2>4
<1>5. o > 0 => q < g
  <2>1. SUFFICES ASSUME o > 0, q >= g PROVE FALSE
    BY <1>3
  <2>2. y < x
    BY <1>1, <2>1
  <2>3. q * x >= g * x
    BY <1>3, <2>1
  <2>4. g * y < g * x
    BY <1>1, <2>2
  <2>5. q * x \in Nat /\ g * x \in Nat
    BY <1>3
  <2>6. QED
    BY <1>2, <1>3, <2>3, <2>4, <2>5
<1>6. QED
  BY <1>3, <1>4, <1>5 DEF q

LEMMA ScrollbarLeads ==
  ASSUME buf \in Seq(Character), scroll_offset \in 0 .. max_offset
  PROVE  EveryLineInReach
<1> DEFINE n == Len(Lines)
<1>0. /\ n \in Nat /\ n <= APP_TEXT_MAX_LINES /\ APP_TEXT_MAX_LINES \in Nat
      /\ TermRows \in Nat \ {0} /\ MinThumb \in Nat /\ TrackHeight \in Nat
      /\ APP_TEXT_MAX_LINES <= TrackHeight
      /\ APP_TEXT_MAX_LINES - TermRows <= TrackHeight - MinThumb
  BY LinesAre, TerminalSizes, TerminalAssumption
<1>1. max_offset = IF n > TermRows THEN n - TermRows ELSE 0
  <2> HIDE DEF n
  <2>1. max_offset = MaxOf(0, n - TermRows)
    BY DEF max_offset, n
  <2>2. QED
    BY <1>0, <2>1 DEF MaxOf
<1>2. max_offset \in Nat /\ scroll_offset \in Nat /\ scroll_offset <= max_offset
  BY <1>0, <1>1
<1>3. ASSUME max_offset = 0
      PROVE  /\ scroll_offset < max_offset => ThumbTop(scroll_offset) > 0
             /\ scroll_offset > 0 => ThumbTop(scroll_offset) + thumb_h < TrackHeight
  <2>1. scroll_offset = 0
    BY <1>2, <1>3
  <2>2. ~(scroll_offset < max_offset) /\ ~(scroll_offset > 0)
    BY <1>3, <2>1
  <2>3. QED
    BY <2>2
<1>4. ASSUME max_offset # 0
      PROVE  /\ scroll_offset < max_offset => ThumbTop(scroll_offset) > 0
             /\ scroll_offset > 0 => ThumbTop(scroll_offset) + thumb_h < TrackHeight
  <2>1. max_offset = n - TermRows /\ TermRows < n /\ max_offset \in Nat \ {0}
    BY <1>0, <1>1, <1>4
  <2>2. thumb_h = MaxOf(MinThumb, (TrackHeight * TermRows) \div n)
    BY <1>4 DEF thumb_h
  <2>3. thumb_h \in Nat /\ max_offset <= TrackHeight - thumb_h
    <3>1. n <= TrackHeight /\ n - TermRows <= TrackHeight - MinThumb
      BY <1>0
    <3> HIDE DEF n
    <3>2. QED
      BY <1>0, <2>1, <2>2, <3>1, TrackIsLeft
  <2>4. PICK g \in Nat : g = TrackHeight - thumb_h
    BY <1>0, <2>1, <2>3
  <2>5. ThumbTop(scroll_offset) = (g * (max_offset - scroll_offset)) \div max_offset
    BY <1>4, <2>4 DEF ThumbTop
  <2> DEFINE top == (g * (max_offset - scroll_offset)) \div max_offset
  <2>6. /\ top \in Nat
        /\ scroll_offset < max_offset => top > 0
        /\ scroll_offset > 0 => top < g
    <3>1. scroll_offset \in 0 .. max_offset /\ max_offset <= g
      BY <2>3, <2>4
    <3>2. QED
      BY <2>1, <2>4, <3>1, ThumbLeaves
  <2>7. ThumbTop(scroll_offset) = top
    BY <2>5
  <2> HIDE DEF top
  <2>8. QED
    BY <1>0, <2>3, <2>4, <2>6, <2>7
<1>5. Lines = AllLines(buf) =>
        /\ Shown(0) = LastOf(AllLines(buf), TermRows)
        /\ Shown(max_offset) = FirstOf(AllLines(buf), TermRows)
  <2>1. n - 0 = n
    BY <1>0
  <2>2. Shown(0) = LastOf(Lines, TermRows)
    BY <2>1 DEF Shown, LastOf
  <2>3. n - max_offset = MinOf(TermRows, n) /\ MaxOf(0, MinOf(TermRows, n) - TermRows) + 1 = 1
    <3> HIDE DEF n
    <3>1. QED
      BY <1>0, <1>1 DEF MinOf, MaxOf
  <2>4. Shown(max_offset) = FirstOf(Lines, TermRows)
    BY <2>3 DEF Shown, FirstOf
  <2>5. QED
    BY <2>2, <2>4
<1>6. QED
  BY <1>3, <1>4, <1>5 DEF EveryLineInReach

-----------------------------------------------------------------------------
(* The line and what a command prints.                                     *)

\* What vga_putchar catches of the first n characters, one after the other.
Catching(chars, n, f) ==
  f = [i \in 0 .. n |-> IF i = 0 THEN << >> ELSE Caught(f[i-1], chars[i])]

LEMMA CatchingExists ==
  ASSUME NEW chars, Len(chars) \in Nat PROVE \E f : Catching(chars, Len(chars), f)
<1> DEFINE good == {n \in Nat : \E f : Catching(chars, n, f)}
<1>1. 0 \in good
  <2>1. Catching(chars, 0, [i \in 0 .. 0 |-> << >>])
    BY DEF Catching
  <2>2. QED
    BY <2>1
<1>2. ASSUME NEW n \in 1 .. Len(chars), n - 1 \in good PROVE n \in good
  <2>1. PICK f : Catching(chars, n - 1, f)
    BY <1>2
  <2> DEFINE g == [i \in 0 .. n |-> IF i = 0 THEN << >> ELSE Caught(f[i-1], chars[i])]
  <2>2. n \in Nat /\ \A i \in 0 .. n - 1 : f[i] = g[i]
    BY <2>1 DEF Catching
  <2>3. ASSUME NEW i \in 0 .. n
        PROVE  g[i] = IF i = 0 THEN << >> ELSE Caught(g[i-1], chars[i])
    <3>1. i # 0 => i - 1 \in 0 .. n - 1
      BY <2>2
    <3>2. i # 0 => f[i-1] = g[i-1]
      BY <2>2, <3>1
    <3>3. g[i] = IF i = 0 THEN << >> ELSE Caught(f[i-1], chars[i])
      OBVIOUS
    <3> HIDE DEF g
    <3>4. QED
      BY <3>2, <3>3
  <2>4. Catching(chars, n, g)
    <3>1. g = [i \in 0 .. n |-> IF i = 0 THEN << >> ELSE Caught(g[i-1], chars[i])]
      BY <2>3
    <3> HIDE DEF g
    <3>2. QED
      BY <3>1 DEF Catching
  <2>5. QED
    BY <2>2, <2>4
<1>3. QED
  <2> HIDE DEF good
  <2>1. \A n \in 1 .. Len(chars) : n - 1 \in good => n \in good
    BY <1>2
  <2>2. \A n \in 0 .. Len(chars) : n \in good
    BY <1>1, <2>1, Induct
  <2>3. Len(chars) \in good
    BY <2>2
  <2>4. QED
    BY <2>3 DEF good

LEMMA CaughtIsText ==
  ASSUME NEW cap \in Seq(Character), NEW char \in Character PROVE Caught(cap, char) \in Seq(Character)
<1>1. Len(cap) \in Nat
  BY LenProperties
<1>2. SubSeq(cap, 1, Len(cap) - 1) \in Seq(Character)
  <2>1. Len(cap) - 1 \in Int /\ 1 \in Int
    BY <1>1
  <2>2. \A i \in 1 .. Len(cap) - 1 : cap[i] \in Character
    BY <1>1, ElementOfSeq
  <2>3. QED
    BY <2>1, <2>2, SubSeqProperties
<1>3. Append(cap, char) \in Seq(Character)
  BY AppendProperties
<1>4. QED
  BY <1>2, <1>3 DEF Caught

LEMMA CapturedIsText ==
  ASSUME NEW chars \in Seq(Character) PROVE Captured(chars) \in Seq(Character)
<1> DEFINE cap == CHOOSE f : f = [n \in 0 .. Len(chars) |->
                                    IF n = 0 THEN << >> ELSE Caught(f[n-1], chars[n])]
           good == {n \in Nat : cap[n] \in Seq(Character)}
<1>0. Len(chars) \in Nat
  BY LenProperties
<1>1. Catching(chars, Len(chars), cap)
  <2>1. \E f : Catching(chars, Len(chars), f)
    BY <1>0, CatchingExists
  <2>2. QED
    BY <2>1, Zenon DEF Catching
<1>2. Captured(chars) = cap[Len(chars)]
  BY DEF Captured
<1> HIDE DEF cap
<1>3. cap[0] = << >> /\ \A n \in 1 .. Len(chars) : cap[n] = Caught(cap[n-1], chars[n])
  BY <1>0, <1>1 DEF Catching
<1>4. << >> \in Seq(Character)
  OBVIOUS
<1>5. ASSUME NEW n \in 1 .. Len(chars), n - 1 \in good PROVE n \in good
  <2>1. chars[n] \in Character /\ cap[n-1] \in Seq(Character)
    BY <1>5, ElementOfSeq
  <2>2. cap[n] \in Seq(Character)
    BY <1>3, <2>1, CaughtIsText
  <2>3. QED
    BY <1>0, <2>2
<1>6. \A n \in 0 .. Len(chars) : n \in good
  <2>1. 0 \in good
    BY <1>3, <1>4
  <2> HIDE DEF good
  <2>2. QED
    BY <1>0, <1>5, <2>1, Induct
<1>7. QED
  BY <1>0, <1>2, <1>6

\* The shell's copy has room for all that the terminal hands it.
LEMMA CommandLineIs ==
  ASSUME NEW chars \in Seq(Character)
  PROVE  CommandLine(chars) = FirstOf(chars, TERMINAL_LINE_MAX - 1)
<1> DEFINE kept == FirstOf(chars, TERMINAL_LINE_MAX - 1)
<1>1. /\ TERMINAL_LINE_MAX - 1 \in Nat /\ MAX_CMD_LEN - 1 \in Nat
      /\ TERMINAL_LINE_MAX - 1 <= MAX_CMD_LEN - 1
  BY TerminalSizes, TerminalAssumption
<1>2. Len(chars) \in Nat
  BY LenProperties
<1>3. kept \in Seq(Character) /\ Len(kept) \in Nat /\ Len(kept) <= MAX_CMD_LEN - 1
  BY <1>1, <1>2, FirstOfIs
<1> HIDE DEF kept
<1>4. FirstOf(kept, MAX_CMD_LEN - 1) = kept
  <2>1. FirstOf(kept, MAX_CMD_LEN - 1) = SubSeq(kept, 1, Len(kept))
    BY <1>1, <1>3 DEF FirstOf, MinOf
  <2>2. QED
    BY <1>3, <2>1, SubSeqFull
<1>5. QED
  BY <1>4 DEF CommandLine, kept

\* What the terminal prints of its own is text.
LEMMA PrintedTexts ==
  /\ Banner \in Seq(Character) /\ <<NL>> \in Seq(Character)
  /\ \A p \in PromptTexts : p \in Seq(Character)
  /\ <<"/", ">">> \in PromptTexts
<1>1. {"t", "/", "d", ">", NL} \subseteq Character
  BY DEF Character
<1>2. ASSUME NEW S, NEW a \in S, NEW b \in S, NEW c \in S
      PROVE  <<a>> \in Seq(S) /\ <<a, b>> \in Seq(S) /\ <<a, b, c>> \in Seq(S)
  OBVIOUS
<1>3. "t" \in Character /\ "/" \in Character /\ "d" \in Character /\ ">" \in Character
      /\ NL \in Character
  BY <1>1
<1>4. Banner \in Seq(Character) /\ <<NL>> \in Seq(Character)
  BY <1>2, <1>3 DEF Banner
<1>5. <<"/", ">">> \in Seq(Character) /\ <<"/", "d", ">">> \in Seq(Character)
  BY <1>2, <1>3
<1>6. QED
  BY <1>4, <1>5 DEF PromptTexts

\* The answer to a line is appended as one text.
LEMMA RepliedIsLast ==
  ASSUME NEW t \in Seq(Character), NEW out \in Seq(Character), NEW st, st.buf = LastOf(t, Room)
  PROVE  /\ Reply(out) \in Seq(Character)
         /\ Replied(st, out).buf = LastOf(t \o Reply(out), Room)
<1> DEFINE end == <<NL>>
<1>1. end \in Seq(Character)
  BY PrintedTexts
<1>2. Reply(out) = (IF out = << >> THEN end ELSE (end \o out) \o end)
  BY DEF Reply
<1>3. Replied(st, out) = (IF out = << >> THEN Appended(st, end)
                          ELSE Appended(Appended(Appended(st, end), out), end))
  BY DEF Replied
<1> HIDE DEF end
<1>4. Appended(st, end).buf = LastOf(t \o end, Room) /\ t \o end \in Seq(Character)
  BY <1>1, AppendedIsLast, ConcatProperties
<1>5. /\ Appended(Appended(st, end), out).buf = LastOf((t \o end) \o out, Room)
      /\ (t \o end) \o out \in Seq(Character)
  BY <1>4, AppendedIsLast, ConcatProperties
<1>6. Appended(Appended(Appended(st, end), out), end).buf
        = LastOf(((t \o end) \o out) \o end, Room)
  BY <1>1, <1>5, AppendedIsLast
<1>7. ((t \o end) \o out) \o end = t \o ((end \o out) \o end)
  <2>1. end \o out \in Seq(Character)
    BY <1>1, ConcatProperties
  <2>2. (t \o end) \o out = t \o (end \o out)
    BY <1>1, ConcatAssociative
  <2>3. (t \o (end \o out)) \o end = t \o ((end \o out) \o end)
    BY <1>1, <2>1, ConcatAssociative
  <2>4. QED
    BY <2>2, <2>3
<1>8. (end \o out) \o end \in Seq(Character)
  <2>1. end \o out \in Seq(Character)
    BY <1>1, ConcatProperties
  <2>2. QED
    BY <1>1, <2>1, ConcatProperties
<1>9. CASE out = << >>
  BY <1>1, <1>2, <1>3, <1>4, <1>9
<1>10. CASE out # << >>
  BY <1>2, <1>3, <1>6, <1>7, <1>8, <1>10
<1>11. QED
  BY <1>9, <1>10

LEMMA PromptedIsLast ==
  ASSUME NEW t \in Seq(Character), NEW p \in Seq(Character), NEW st, st.buf = LastOf(t, Room)
  PROVE  /\ Prompted(st, p).buf = LastOf(t \o p, Room)
         /\ Prompted(st, p).input_start = Len(LastOf(t \o p, Room))
<1>1. Appended(st, p).buf = LastOf(t \o p, Room)
  BY AppendedIsLast
<1>2. PICK b, i : Appended(st, p) = [buf |-> b, input_start |-> i]
  BY DEF Appended
<1>3. b = LastOf(t \o p, Room)
  BY <1>1, <1>2
<1>4. Prompted(st, p) = [buf |-> b, input_start |-> Len(b)]
  BY <1>2 DEF Prompted
<1>5. QED
  BY <1>3, <1>4

LEMMA OpenedIsLast ==
  ASSUME NEW p \in PromptTexts
  PROVE  /\ Opened(p).buf = LastOf(Banner \o p, Room)
         /\ Opened(p).input_start = Len(LastOf(Banner \o p, Room))
         /\ Banner \o p \in Seq(Character)
<1> DEFINE new == [buf |-> << >>, input_start |-> 0]
           none == << >>
<1>0. none \in Seq(Character) /\ Len(none) = 0 /\ Room \in Nat
  BY TerminalSizes
<1>1. p \in Seq(Character) /\ Banner \in Seq(Character)
  BY PrintedTexts
<1>2. new.buf = LastOf(none, Room)
  <2>1. Len(none) <= Room
    BY <1>0
  <2>2. LastOf(none, Room) = none
    BY <1>0, <2>1, LastOfAll
  <2>3. QED
    BY <2>2
<1>3. Opened(p) = Prompted(Appended(new, Banner), p)
  BY DEF Opened
<1>4. none \o Banner = Banner
  BY <1>1, ConcatEmptySeq
<1> HIDE DEF new, none
<1>5. Appended(new, Banner).buf = LastOf(Banner, Room)
  <2>1. Appended(new, Banner).buf = LastOf(none \o Banner, Room)
    BY <1>0, <1>1, <1>2, AppendedIsLast
  <2>2. QED
    BY <1>4, <2>1
<1>6. QED
  BY <1>1, <1>3, <1>5, PromptedIsLast, ConcatProperties

-----------------------------------------------------------------------------
(* The steps.                                                              *)

\* How far the view of a text scrolls.
LEMMA MaxOffsetIs ==
  ASSUME NEW chars \in Seq(Character)
  PROVE  MaxOf(0, Len(FirstOf(AllLines(chars), APP_TEXT_MAX_LINES)) - TermRows) \in Nat
<1>1. FirstOf(AllLines(chars), APP_TEXT_MAX_LINES) \in Seq(Seq(Character))
  BY AllLinesIsSeq, FirstOfIs, TerminalSizes
<1>2. Len(FirstOf(AllLines(chars), APP_TEXT_MAX_LINES)) \in Nat
  BY <1>1, LenProperties
<1>3. QED
  BY <1>2, TerminalSizes DEF MaxOf

\* A scrollback that ends in a prompt.
LEMMA PromptIsLast ==
  ASSUME NEW t \in Seq(Character), NEW b, b = LastOf(t, Room)
  PROVE  /\ b \in Seq(Character) /\ Len(b) \in Nat /\ Len(b) < TERMINAL_BUF_MAX
         /\ SubSeq(b, Len(b) + 1, Len(b)) = << >>
<1>1. Len(t) \in Nat /\ Room \in Nat /\ TERMINAL_BUF_MAX = Room + 1
  BY LenProperties, TerminalSizes
<1>2. b \in Seq(Character) /\ Len(b) = Len(t) - Over(Len(t), Room)
  BY <1>1, LastOfIs
<1>3. Len(b) \in Nat /\ Len(b) <= Room
  BY <1>1, <1>2 DEF Over
<1>4. SubSeq(b, Len(b) + 1, Len(b)) = << >>
  BY <1>3, SubSeqEmpty
<1>5. QED
  BY <1>1, <1>2, <1>3, <1>4

LEMMA NothingOfNothing == FirstOf(<< >>, TERMINAL_LINE_MAX - 1) = << >>
<1>1. MinOf(TERMINAL_LINE_MAX - 1, Len(<< >>)) = 0
  <2>1. Len(<< >>) = 0 /\ TERMINAL_LINE_MAX - 1 \in Nat
    BY TerminalSizes
  <2>2. QED
    BY <2>1 DEF MinOf
<1>2. QED
  BY <1>1, SubSeqEmpty DEF FirstOf

LEMMA TerminalInitInv == TerminalInit => TerminalInv
<1> SUFFICES ASSUME TerminalInit PROVE TerminalInv
  OBVIOUS
<1> DEFINE p == <<"/", ">">>
<1>1. p \in PromptTexts
  BY PrintedTexts
<1>2. /\ buf = Opened(p).buf /\ input_start = Opened(p).input_start
      /\ scroll_offset = 0 /\ transcript = Banner \o p /\ line_typed = << >>
      /\ ran = [asked |-> << >>, line |-> << >>] /\ entered = 0
  BY DEF TerminalInit
<1> HIDE DEF p
<1>3. /\ transcript \in Seq(Character) /\ buf = LastOf(transcript, Room)
      /\ input_start = Len(buf)
  BY <1>1, <1>2, OpenedIsLast
<1>4. /\ buf \in Seq(Character) /\ Len(buf) \in Nat /\ Len(buf) < TERMINAL_BUF_MAX
      /\ SubSeq(buf, Len(buf) + 1, Len(buf)) = << >>
  BY <1>3, PromptIsLast
<1>5. max_offset \in Nat
  BY <1>4, MaxOffsetIs DEF max_offset, Lines
<1>6. TerminalTypeOK
  <2>1. scroll_offset \in 0 .. max_offset
    BY <1>2, <1>5
  <2>2. entered \in 0 .. MaxEntered
    BY <1>2, TerminalSizes
  <2>3. input_start \in 0 .. Len(buf)
    BY <1>3, <1>4
  <2>4. QED
    BY <1>4, <2>1, <2>2, <2>3 DEF TerminalTypeOK
<1>7. FirstOf(<< >>, TERMINAL_LINE_MAX - 1) = << >>
  BY NothingOfNothing
<1>8. ScrollbackIsTail
  BY <1>2, <1>3, <1>4, <1>7 DEF ScrollbackIsTail, Room
<1>9. line_typed \in Seq(Character)
  BY <1>2
<1>10. QED
  BY <1>3, <1>6, <1>8, <1>9 DEF TerminalInv

\* A step that ends in a prompt.
LEMMA FreshLine ==
  ASSUME NEW t \in Seq(Character), transcript' = t, buf' = LastOf(t, Room),
         input_start' = Len(LastOf(t, Room)), scroll_offset' = 0, line_typed' = << >>,
         ran'.line = FirstOf(ran'.asked, TERMINAL_LINE_MAX - 1),
         entered' \in 0 .. MaxEntered
  PROVE  TerminalInv'
<1> DEFINE b == LastOf(t, Room)
<1>1. /\ b \in Seq(Character) /\ Len(b) \in Nat /\ Len(b) < TERMINAL_BUF_MAX
      /\ SubSeq(b, Len(b) + 1, Len(b)) = << >>
  BY PromptIsLast
<1>2. buf' = b /\ input_start' = Len(b)
  OBVIOUS
<1>3. max_offset' \in Nat
  <2>1. max_offset' = MaxOf(0, Len(FirstOf(AllLines(b), APP_TEXT_MAX_LINES)) - TermRows)
    BY <1>2 DEF max_offset, Lines
  <2>2. QED
    BY <1>1, <2>1, MaxOffsetIs
<1> HIDE DEF b
<1>4. TerminalTypeOK'
  <2>1. scroll_offset' \in 0 .. max_offset'
    BY <1>3
  <2>2. input_start' \in 0 .. Len(buf')
    BY <1>1, <1>2
  <2>3. QED
    BY <1>1, <1>2, <2>1, <2>2 DEF TerminalTypeOK
<1>5. ScrollbackIsTail'
  BY <1>1, <1>2 DEF ScrollbackIsTail, Room, b
<1>6. line_typed' \in Seq(Character)
  OBVIOUS
<1>7. QED
  BY <1>2, <1>4, <1>5, <1>6 DEF TerminalInv

LEMMA EnterKeepsInv == TerminalInv /\ EnterCommand => TerminalInv'
<1> SUFFICES ASSUME TerminalInv, EnterCommand PROVE TerminalInv'
  OBVIOUS
<1> DEFINE given == SubSeq(buf, input_start + 1, Len(buf))
           st    == [buf |-> buf, input_start |-> input_start]
<1>1. PICK p \in PromptTexts, answer \in Answers(CommandLine(given)) :
        /\ buf' = Prompted(Replied(st, Captured(answer)), p).buf
        /\ input_start' = Prompted(Replied(st, Captured(answer)), p).input_start
        /\ transcript' = transcript \o Reply(Captured(answer)) \o p
        /\ ran' = [asked |-> line_typed, line |-> CommandLine(given)]
  BY DEF EnterCommand
<1>2. /\ transcript \in Seq(Character) /\ line_typed \in Seq(Character)
      /\ st.buf = LastOf(transcript, Room) /\ given = line_typed
      /\ entered \in 0 .. MaxEntered
  BY DEF TerminalInv, ScrollbackIsTail, TerminalTypeOK, Room
<1>3. scroll_offset' = 0 /\ line_typed' = << >> /\ entered' \in 0 .. MaxEntered
  <2>1. entered < MaxEntered /\ entered' = entered + 1 /\ scroll_offset' = 0
        /\ line_typed' = << >>
    BY DEF EnterCommand
  <2>2. entered + 1 \in 0 .. MaxEntered
    BY <1>2, <2>1, TerminalSizes
  <2>3. QED
    BY <2>1, <2>2
<1> HIDE DEF given, st
<1> DEFINE out == Captured(answer)
<1>4. out \in Seq(Character)
  <2>1. answer \in Seq(Character)
    <3>1. answer = << >> \/ answer \in Outputs
      BY DEF Answers
    <3>2. << >> \in Seq(Character)
      OBVIOUS
    <3>3. QED
      BY <3>1, <3>2, TerminalAssumption
  <2>2. QED
    BY <2>1, CapturedIsText
<1> HIDE DEF out
<1> DEFINE t1 == transcript \o Reply(out)
           t  == t1 \o p
<1>5. /\ Reply(out) \in Seq(Character)
      /\ Replied(st, out).buf = LastOf(t1, Room)
  BY <1>2, <1>4, RepliedIsLast
<1>6. t1 \in Seq(Character) /\ p \in Seq(Character)
  BY <1>2, <1>5, ConcatProperties, PrintedTexts
<1>7. t \in Seq(Character)
  <2> HIDE DEF t1
  <2>1. QED
    BY <1>6, ConcatProperties
<1>8. buf' = LastOf(t, Room) /\ input_start' = Len(LastOf(t, Room))
  <2> HIDE DEF t1
  <2>1. /\ Prompted(Replied(st, out), p).buf = LastOf(t, Room)
        /\ Prompted(Replied(st, out), p).input_start = Len(LastOf(t, Room))
    BY <1>5, <1>6, PromptedIsLast
  <2>2. QED
    BY <1>1, <2>1 DEF out
<1>9. transcript' = t
  BY <1>1 DEF out
<1>10. ran'.line = FirstOf(ran'.asked, TERMINAL_LINE_MAX - 1)
  <2>1. ran'.asked = line_typed /\ ran'.line = CommandLine(line_typed)
    BY <1>1, <1>2
  <2>2. QED
    BY <1>2, <2>1, CommandLineIs
<1> HIDE DEF t
<1>11. QED
  BY <1>3, <1>7, <1>8, <1>9, <1>10, FreshLine

LEMMA OpenAgainKeepsInv == TerminalInv /\ OpenAgain => TerminalInv'
<1> SUFFICES ASSUME OpenAgain PROVE TerminalInv'
  OBVIOUS
<1>1. PICK p \in PromptTexts :
        /\ buf' = Opened(p).buf /\ input_start' = Opened(p).input_start
        /\ scroll_offset' = 0 /\ transcript' = Banner \o p /\ line_typed' = << >>
        /\ ran' = [asked |-> << >>, line |-> << >>] /\ entered' = 0
  BY DEF OpenAgain
<1> DEFINE t == Banner \o p
<1>2. /\ Opened(p).buf = LastOf(t, Room)
      /\ Opened(p).input_start = Len(LastOf(t, Room)) /\ t \in Seq(Character)
  BY OpenedIsLast
<1>3. ran'.line = FirstOf(ran'.asked, TERMINAL_LINE_MAX - 1)
  BY <1>1, NothingOfNothing
<1>4. entered' \in 0 .. MaxEntered
  BY <1>1, TerminalSizes
<1> HIDE DEF t
<1>5. transcript' = t
  BY <1>1 DEF t
<1>6. QED
  BY <1>1, <1>2, <1>3, <1>4, <1>5, FreshLine

\* As long as something can be typed or erased, nothing has been lost.
LEMMA AllThere ==
  ASSUME TerminalInv, Len(buf) > input_start \/ HasRoom
  PROVE  /\ buf = transcript /\ buf \in Seq(Character) /\ Len(buf) \in Nat /\ Len(buf) <= Room
         /\ input_start \in 0 .. Len(buf)
         /\ line_typed \in Seq(Character)
         /\ Len(line_typed) = Len(buf) - input_start
         /\ \A i \in 1 .. Len(buf) - input_start : line_typed[i] = buf[input_start + i]
<1>1. /\ buf \in Seq(Character) /\ transcript \in Seq(Character)
      /\ line_typed \in Seq(Character) /\ input_start \in 0 .. Len(buf)
      /\ buf = LastOf(transcript, Room)
      /\ line_typed = SubSeq(buf, input_start + 1, Len(buf))
      /\ Len(transcript) > Room => input_start = Len(buf)
  BY DEF TerminalInv, TerminalTypeOK, ScrollbackIsTail, Room
<1>2. Len(buf) \in Nat /\ Len(transcript) \in Nat /\ Room \in Nat /\ input_start \in Nat
      /\ input_start <= Len(buf)
  BY <1>1, LenProperties, TerminalSizes
<1>3. Len(transcript) <= Room
  <2>1. CASE Len(buf) > input_start
    BY <1>1, <1>2, <2>1
  <2>2. CASE HasRoom
    <3>1. Len(buf) = Len(transcript) - Over(Len(transcript), Room)
      BY <1>1, <1>2, LastOfIs
    <3>2. Len(buf) < Room
      BY <2>2 DEF HasRoom, Room
    <3>3. QED
      BY <1>2, <3>1, <3>2 DEF Over
  <2>3. QED
    BY <2>1, <2>2
<1>4. buf = transcript
  BY <1>1, <1>2, <1>3, LastOfAll
<1>5. /\ Len(SubSeq(buf, input_start + 1, Len(buf))) = Len(buf) - input_start
      /\ \A i \in 1 .. Len(buf) - input_start :
           SubSeq(buf, input_start + 1, Len(buf))[i] = buf[input_start + i]
  BY <1>1, <1>2, WithoutFirst
<1>6. QED
  BY <1>1, <1>2, <1>3, <1>4, <1>5

\* A step that changes the end of the line.
LEMMA EditedLine ==
  ASSUME TerminalInv, NEW t \in Seq(Character), NEW l \in Seq(Character),
         Len(t) <= Room, input_start <= Len(t), Len(l) = Len(t) - input_start,
         \A i \in 1 .. Len(t) - input_start : l[i] = t[input_start + i],
         buf' = t, transcript' = t, line_typed' = l, scroll_offset' = 0,
         UNCHANGED <<input_start, ran, entered>>
  PROVE  TerminalInv'
<1>1. Len(t) \in Nat /\ Room \in Nat /\ TERMINAL_BUF_MAX = Room + 1
  BY LenProperties, TerminalSizes
<1>2. /\ input_start \in Nat /\ entered \in 0 .. MaxEntered
      /\ ran.line = FirstOf(ran.asked, TERMINAL_LINE_MAX - 1)
  <2>1. /\ input_start \in 0 .. Len(buf) /\ buf \in Seq(Character) /\ entered \in 0 .. MaxEntered
        /\ ran.line = FirstOf(ran.asked, TERMINAL_LINE_MAX - 1)
    BY DEF TerminalInv, TerminalTypeOK, ScrollbackIsTail
  <2>2. Len(buf) \in Nat
    BY <2>1, LenProperties
  <2>3. QED
    BY <2>1, <2>2
<1>3. SubSeq(t, input_start + 1, Len(t)) = l
  <2>1. /\ SubSeq(t, input_start + 1, Len(t)) \in Seq(Character)
        /\ Len(SubSeq(t, input_start + 1, Len(t))) = Len(t) - input_start
        /\ \A i \in 1 .. Len(t) - input_start :
             SubSeq(t, input_start + 1, Len(t))[i] = t[input_start + i]
    BY <1>1, <1>2, WithoutFirst
  <2>2. \A i \in 1 .. Len(SubSeq(t, input_start + 1, Len(t))) :
          SubSeq(t, input_start + 1, Len(t))[i] = l[i]
    BY <2>1
  <2>3. QED
    BY <2>1, <2>2, SeqEqual
<1>4. LastOf(t, Room) = t
  BY <1>1, LastOfAll
<1>5. max_offset' \in Nat
  <2>1. max_offset' = MaxOf(0, Len(FirstOf(AllLines(t), APP_TEXT_MAX_LINES)) - TermRows)
    BY DEF max_offset, Lines
  <2>2. QED
    BY <2>1, MaxOffsetIs
<1>6. TerminalTypeOK'
  <2>1. scroll_offset' \in 0 .. max_offset'
    BY <1>5
  <2>2. input_start' \in 0 .. Len(buf')
    BY <1>1, <1>2
  <2>3. Len(buf') < TERMINAL_BUF_MAX /\ buf' \in Seq(Character)
    BY <1>1
  <2>4. entered' \in 0 .. MaxEntered
    BY <1>2
  <2>5. QED
    BY <2>1, <2>2, <2>3, <2>4 DEF TerminalTypeOK
<1>7. ScrollbackIsTail'
  <2>1. ran'.line = FirstOf(ran'.asked, TERMINAL_LINE_MAX - 1)
    BY <1>2
  <2>2. buf' = LastOf(transcript', Room)
    BY <1>4
  <2>3. SubSeq(buf', input_start' + 1, Len(buf')) = line_typed'
    BY <1>3
  <2>4. QED
    BY <2>1, <2>2, <2>3 DEF ScrollbackIsTail, Room
<1>8. Len(transcript') > Room => input_start' = Len(buf')
  BY <1>1
<1>9. transcript' \in Seq(Character) /\ line_typed' \in Seq(Character)
  OBVIOUS
<1>10. QED
  BY <1>6, <1>7, <1>8, <1>9 DEF TerminalInv

\* A step of the view only.
LEMMA ScrolledView ==
  ASSUME TerminalInv, UNCHANGED <<buf, input_start, transcript, line_typed, ran, entered>>,
         scroll_offset' \in 0 .. max_offset
  PROVE  TerminalInv'
<1>1. max_offset' = max_offset
  BY DEF max_offset, Lines
<1>2. TerminalTypeOK'
  BY <1>1 DEF TerminalInv, TerminalTypeOK
<1>3. ScrollbackIsTail'
  BY DEF TerminalInv, ScrollbackIsTail
<1>4. QED
  BY <1>2, <1>3 DEF TerminalInv

LEMMA OffsetsAre ==
  ASSUME TerminalInv
  PROVE  max_offset \in Nat /\ scroll_offset \in Nat /\ scroll_offset <= max_offset
<1>1. max_offset \in Nat
  BY MaxOffsetIs DEF TerminalInv, TerminalTypeOK, max_offset, Lines
<1>2. QED
  BY <1>1 DEF TerminalInv, TerminalTypeOK

LEMMA EraseKeepsInv == TerminalInv /\ EraseLast => TerminalInv'
<1> SUFFICES ASSUME TerminalInv, EraseLast PROVE TerminalInv'
  OBVIOUS
<1>1. scroll_offset' = 0 /\ UNCHANGED <<input_start, ran, entered>>
  BY DEF EraseLast
<1>2. CASE Len(buf) > input_start
  <2>1. /\ buf' = SubSeq(buf, 1, Len(buf) - 1)
        /\ transcript' = SubSeq(transcript, 1, Len(transcript) - 1)
        /\ line_typed' = SubSeq(line_typed, 1, Len(line_typed) - 1)
    BY <1>2 DEF EraseLast
  <2>2. /\ buf = transcript /\ buf \in Seq(Character) /\ Len(buf) \in Nat /\ Len(buf) <= Room
        /\ input_start \in 0 .. Len(buf) /\ line_typed \in Seq(Character)
        /\ Len(line_typed) = Len(buf) - input_start
        /\ \A i \in 1 .. Len(buf) - input_start : line_typed[i] = buf[input_start + i]
    BY <1>2, AllThere
  <2> DEFINE t == SubSeq(buf, 1, Len(buf) - 1)
             l == SubSeq(line_typed, 1, Len(line_typed) - 1)
  <2>3. input_start \in Nat /\ Len(line_typed) \in Nat /\ Room \in Nat
    BY <2>2, TerminalSizes
  <2>4. /\ t \in Seq(Character) /\ Len(t) = Len(buf) - 1
        /\ \A i \in 1 .. Len(buf) - 1 : t[i] = buf[i]
    BY <1>2, <2>2, <2>3, WithoutLast
  <2>5. /\ l \in Seq(Character) /\ Len(l) = Len(line_typed) - 1
        /\ \A i \in 1 .. Len(line_typed) - 1 : l[i] = line_typed[i]
    BY <1>2, <2>2, <2>3, WithoutLast
  <2> HIDE DEF t, l
  <2>6. /\ Len(t) <= Room /\ input_start <= Len(t) /\ Len(l) = Len(t) - input_start
    BY <1>2, <2>2, <2>3, <2>4, <2>5
  <2>7. ASSUME NEW i \in 1 .. Len(t) - input_start PROVE l[i] = t[input_start + i]
    <3>1. /\ i \in 1 .. Len(line_typed) - 1 /\ i \in 1 .. Len(buf) - input_start
          /\ input_start + i \in 1 .. Len(buf) - 1
      BY <2>2, <2>3, <2>4
    <3>2. QED
      BY <2>2, <2>4, <2>5, <3>1
  <2>8. buf' = t /\ transcript' = t /\ line_typed' = l
    BY <2>1, <2>2 DEF t, l
  <2>9. QED
    BY <1>1, <2>4, <2>5, <2>6, <2>7, <2>8, EditedLine
<1>3. CASE ~(Len(buf) > input_start)
  <2>1. UNCHANGED <<buf, transcript, line_typed>>
    BY <1>3 DEF EraseLast
  <2>2. scroll_offset' \in 0 .. max_offset
    BY <1>1, OffsetsAre
  <2>3. QED
    BY <1>1, <2>1, <2>2, ScrolledView
<1>4. QED
  BY <1>2, <1>3

LEMMA TypeKeepsInv ==
  ASSUME TerminalInv, NEW char \in Typable, TypeChar(char) PROVE TerminalInv'
<1>1. scroll_offset' = 0 /\ UNCHANGED <<input_start, ran, entered>>
  BY DEF TypeChar
<1>2. char \in Character
  BY DEF Character
<1>3. CASE HasRoom
  <2>1. /\ buf' = Append(buf, char) /\ transcript' = Append(transcript, char)
        /\ line_typed' = Append(line_typed, char)
    BY <1>3 DEF TypeChar
  <2>2. /\ buf = transcript /\ buf \in Seq(Character) /\ Len(buf) \in Nat /\ Len(buf) <= Room
        /\ input_start \in 0 .. Len(buf) /\ line_typed \in Seq(Character)
        /\ Len(line_typed) = Len(buf) - input_start
        /\ \A i \in 1 .. Len(buf) - input_start : line_typed[i] = buf[input_start + i]
    BY <1>3, AllThere
  <2> DEFINE t == Append(buf, char)
             l == Append(line_typed, char)
  <2>3. input_start \in Nat /\ Len(line_typed) \in Nat /\ Room \in Nat /\ Len(buf) < Room
    BY <1>3, <2>2, TerminalSizes DEF HasRoom, Room
  <2>4. /\ t \in Seq(Character) /\ Len(t) = Len(buf) + 1
        /\ \A i \in 1 .. Len(buf) : t[i] = buf[i]
        /\ t[Len(buf) + 1] = char
    BY <1>2, <2>2, AppendProperties
  <2>5. /\ l \in Seq(Character) /\ Len(l) = Len(line_typed) + 1
        /\ \A i \in 1 .. Len(line_typed) : l[i] = line_typed[i]
        /\ l[Len(line_typed) + 1] = char
    BY <1>2, <2>2, AppendProperties
  <2> HIDE DEF t, l
  <2>6. /\ Len(t) <= Room /\ input_start <= Len(t) /\ Len(l) = Len(t) - input_start
    BY <2>2, <2>3, <2>4, <2>5
  <2>7. ASSUME NEW i \in 1 .. Len(t) - input_start PROVE l[i] = t[input_start + i]
    <3>1. CASE i <= Len(line_typed)
      <4>1. /\ i \in 1 .. Len(line_typed) /\ i \in 1 .. Len(buf) - input_start
            /\ input_start + i \in 1 .. Len(buf)
        BY <2>2, <2>3, <2>4, <3>1
      <4>2. QED
        BY <2>2, <2>4, <2>5, <4>1
    <3>2. CASE ~(i <= Len(line_typed))
      <4>1. i = Len(line_typed) + 1 /\ input_start + i = Len(buf) + 1
        BY <2>2, <2>3, <2>4, <3>2
      <4>2. QED
        BY <2>4, <2>5, <4>1
    <3>3. QED
      BY <3>1, <3>2
  <2>8. buf' = t /\ transcript' = t /\ line_typed' = l
    BY <2>1, <2>2 DEF t, l
  <2>9. QED
    BY <1>1, <2>4, <2>5, <2>6, <2>7, <2>8, EditedLine
<1>4. CASE ~HasRoom
  <2>1. UNCHANGED <<buf, transcript, line_typed>>
    BY <1>4 DEF TypeChar
  <2>2. scroll_offset' \in 0 .. max_offset
    BY <1>1, OffsetsAre
  <2>3. QED
    BY <1>1, <2>1, <2>2, ScrolledView
<1>5. QED
  BY <1>3, <1>4

LEMMA ClickKeepsInv == ASSUME TerminalInv, NEW y, ClickTrack(y) PROVE TerminalInv'
<1>1. /\ UNCHANGED <<buf, input_start, transcript, line_typed, ran, entered>>
      /\ \/ scroll_offset' = MinOf(scroll_offset + TermRows - 1, max_offset)
         \/ scroll_offset' = MaxOf(scroll_offset - (TermRows - 1), 0)
         \/ scroll_offset' = scroll_offset
  BY DEF ClickTrack
<1>2. /\ max_offset \in Nat /\ scroll_offset \in Nat /\ scroll_offset <= max_offset
      /\ TermRows \in Nat \ {0}
  BY OffsetsAre, TerminalSizes
<1>3. /\ MinOf(scroll_offset + TermRows - 1, max_offset) \in 0 .. max_offset
      /\ MaxOf(scroll_offset - (TermRows - 1), 0) \in 0 .. max_offset
      /\ scroll_offset \in 0 .. max_offset
  BY <1>2 DEF MinOf, MaxOf
<1>4. scroll_offset' \in 0 .. max_offset
  BY <1>1, <1>3
<1>5. QED
  BY <1>1, <1>4, ScrolledView

LEMMA TerminalStep == TerminalInv /\ [TerminalNext]_terminalVars => TerminalInv'
<1> SUFFICES ASSUME TerminalInv, [TerminalNext]_terminalVars PROVE TerminalInv'
  OBVIOUS
<1>1. CASE EnterCommand
  BY <1>1, EnterKeepsInv
<1>2. CASE EraseLast
  BY <1>2, EraseKeepsInv
<1>3. CASE OpenAgain
  BY <1>3, OpenAgainKeepsInv
<1>4. ASSUME NEW char \in Typable, TypeChar(char) PROVE TerminalInv'
  BY <1>4, TypeKeepsInv
<1>5. ASSUME NEW y \in 0 .. TrackHeight - 1, ClickTrack(y) PROVE TerminalInv'
  BY <1>5, ClickKeepsInv
<1>6. CASE UNCHANGED terminalVars
  <2>1. scroll_offset' \in 0 .. max_offset
    BY <1>6, OffsetsAre DEF terminalVars
  <2>2. QED
    BY <1>6, <2>1, ScrolledView DEF terminalVars
<1>7. QED
  BY <1>1, <1>2, <1>3, <1>4, <1>5, <1>6 DEF TerminalNext

LEMMA TerminalInvIs == TerminalInv => NothingOutOfReach
<1> SUFFICES ASSUME TerminalInv PROVE NothingOutOfReach
  OBVIOUS
<1>1. ScrollbackIsTail /\ buf \in Seq(Character) /\ scroll_offset \in 0 .. max_offset
  BY DEF TerminalInv, TerminalTypeOK
<1>2. EveryLineInReach
  BY <1>1, ScrollbarLeads
<1>3. QED
  BY <1>1, <1>2 DEF NothingOutOfReach

\* The terminal's variables stay in their types, for buffers of any size: len
\* leaves room for the terminator, and input_start stays inside what is kept.
THEOREM TerminalTypes == TerminalSpec => []TerminalTypeOK
<1>1. TerminalInv => TerminalTypeOK
  BY DEF TerminalInv
<1>2. QED
  BY TerminalInitInv, TerminalStep, <1>1, PTL DEF TerminalSpec

\* However much is printed and typed, in a scrollback and a window of any size
\* whose scrollbar has a pixel for each line (terminal_append, terminal_on_key,
\* terminal_layout): the scrollback is the end of it, Enter runs what was typed
\* behind the prompt, and a click leads towards every line that is kept.
THEOREM TerminalKeepsInReach == TerminalSpec => []NothingOutOfReach
BY TerminalInitInv, TerminalStep, TerminalInvIs, PTL DEF TerminalSpec
=============================================================================
