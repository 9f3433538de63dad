---------------------------- MODULE DesktopProofs ----------------------------
(***************************************************************************)
(* Proofs about Desktop, for any number of windows and calls: the lists of *)
(* window.c hold what their readers index them with; by name they are the  *)
(* stack of WindowStack; and the rows of the File menu mean the editor     *)
(* that is on the screen.                                                  *)
(***************************************************************************)
EXTENDS Desktop, SequenceTheorems, WellFoundedInduction, TLAPS

-----------------------------------------------------------------------------
(***************************************************************************)
(* The inductive invariant.  That the slots in z_order are dense says that *)
(* there is none missing; what opening and closing preserve is that there  *)
(* is none twice either, so that z_order is a permutation of the slots in  *)
(* use.                                                                    *)
(***************************************************************************)
Permutes(z, n) ==
  /\ z \in [1 .. n -> 0 .. n - 1]
  /\ \A p, q \in 1 .. n : z[p] = z[q] => p = q
  /\ \A i \in 0 .. n - 1 : \E p \in 1 .. n : z[p] = i

Ordered(z) == z \in Seq(Slot) /\ Len(z) <= MaxWindows /\ Permutes(z, Len(z))

WindowsType == [Slot -> [app : Kinds, state : Object \cup {Null}]]

ListsInv == windows \in WindowsType /\ Ordered(z_order) /\ object \in [Object -> Block]
FilesInv == files \in [Names -> Contents]
MenusInv ==
  /\ focusWin \in Slot \cup {NoSlot}
  /\ items \in {<< >>, <<"Save", "SaveAs">>}
  /\ openMenu \in BOOLEAN /\ startMenu \in BOOLEAN
LoopsInv ==
  /\ frames \in Seq(Loop)
  /\ sessions \in 0 .. MaxSessions
  /\ resumed \in BOOLEAN

IInv == ListsInv /\ FilesInv /\ MenusInv /\ LoopsInv

-----------------------------------------------------------------------------
(***************************************************************************)
(* Sequences as functions                                                  *)
(***************************************************************************)
LEMMA FunctionLen ==
  ASSUME NEW n \in Nat, NEW S, NEW z \in [1 .. n -> S]
  PROVE  z \in Seq(S) /\ Len(z) = n /\ DOMAIN z = 1 .. n
<1>1. z \in Seq(S)
  BY SeqDef
<1>2. QED
  BY <1>1

LEMMA FunctionOf ==
  ASSUME NEW S, NEW z \in Seq(S) PROVE z \in [1 .. Len(z) -> S]
OBVIOUS

\* Every non-empty set of naturals has a least element.
LEMMA LeastNat ==
  ASSUME NEW S, S \subseteq Nat, S # {}
  PROVE  \E i \in S : \A j \in S : i <= j
<1>1. \E i \in S : \A j \in S : ~(<<j, i>> \in OpToRel(<, Nat))
  BY WFMin, NatLessThanWellFounded
<1>2. PICK i \in S : \A j \in S : ~(<<j, i>> \in OpToRel(<, Nat))
  BY <1>1
<1>3. ASSUME NEW j \in S PROVE i <= j
  <2>1. <<j, i>> \notin {ss \in Nat \X Nat : ss[1] < ss[2]}
    BY <1>2, <1>3, Zenon DEF OpToRel
  <2>2. QED
    BY <2>1
<1>4. QED
  BY <1>2, <1>3

-----------------------------------------------------------------------------
(***************************************************************************)
(* What the loops of window.c do to a permutation                          *)
(***************************************************************************)
LEMMA DropKeeps ==
  ASSUME NEW n \in Nat, NEW z, Permutes(z, n), NEW p \in 1 .. n
  PROVE  /\ DropAt(z, p) \in [1 .. n - 1 -> (0 .. n - 1) \ {z[p]}]
         /\ \A q, r \in 1 .. n - 1 : DropAt(z, p)[q] = DropAt(z, p)[r] => q = r
         /\ \A i \in (0 .. n - 1) \ {z[p]} :
              \E q \in 1 .. n - 1 : DropAt(z, p)[q] = i
<1> DEFINE d == DropAt(z, p)
           from(q) == IF q < p THEN q ELSE q + 1
<1>1. /\ z \in [1 .. n -> 0 .. n - 1] /\ Len(z) = n
      /\ \A q, r \in 1 .. n : z[q] = z[r] => q = r
      /\ \A i \in 0 .. n - 1 : \E q \in 1 .. n : z[q] = i
  BY FunctionLen DEF Permutes
<1>2. d = [q \in 1 .. n - 1 |-> z[from(q)]]
  BY <1>1 DEF DropAt
<1>3. \A q \in 1 .. n - 1 : from(q) \in 1 .. n /\ from(q) # p
  OBVIOUS
<1>4. \A q, r \in 1 .. n - 1 : from(q) = from(r) => q = r
  OBVIOUS
<1>5. ASSUME NEW i \in (0 .. n - 1) \ {z[p]}
      PROVE  \E q \in 1 .. n - 1 : d[q] = i
  <2>1. PICK q \in 1 .. n : z[q] = i
    BY <1>1
  <2>2. q # p
    BY <2>1
  <2>3. CASE q < p
    BY <1>2, <2>1, <2>3
  <2>4. CASE q > p
    <3>1. q - 1 \in 1 .. n - 1 /\ from(q - 1) = q
      BY <2>4
    <3>2. QED
      BY <1>2, <2>1, <3>1
  <2>5. QED
    BY <2>2, <2>3, <2>4
<1> HIDE DEF from
<1>6. d \in [1 .. n - 1 -> (0 .. n - 1) \ {z[p]}]
  BY <1>1, <1>2, <1>3
<1>7. \A q, r \in 1 .. n - 1 : d[q] = d[r] => q = r
  BY <1>1, <1>2, <1>3, <1>4
<1>8. QED
  BY <1>5, <1>6, <1>7

LEMMA PosOfSlot ==
  ASSUME NEW n \in Nat, NEW z, Permutes(z, n), NEW idx,
         \E p \in DOMAIN z : z[p] = idx
  PROVE  PosOf(z, idx) \in 1 .. n /\ z[PosOf(z, idx)] = idx
<1>1. DOMAIN z = 1 .. n
  BY DEF Permutes
<1>2. QED
  BY <1>1 DEF PosOf

\* A slot that the order lacks, put on top of it.
LEMMA AppendKeeps ==
  ASSUME NEW k \in Nat, NEW idx \in 0 .. k, NEW d \in [1 .. k -> 0 .. k],
         \A q \in 1 .. k : d[q] # idx,
         \A q, r \in 1 .. k : d[q] = d[r] => q = r,
         \A i \in (0 .. k) \ {idx} : \E q \in 1 .. k : d[q] = i
  PROVE  Permutes(Append(d, idx), k + 1)
<1> DEFINE b == Append(d, idx)
           S == 0 .. k
<1>1. d \in Seq(S) /\ Len(d) = k /\ idx \in S
  BY FunctionLen
<1>2. /\ b \in [1 .. k + 1 -> S]
      /\ \A q \in 1 .. k : b[q] = d[q]
      /\ b[k + 1] = idx
  <2> HIDE DEF S
  <2>1. /\ b \in Seq(S) /\ Len(b) = k + 1
        /\ \A q \in 1 .. k : b[q] = d[q]
        /\ b[k + 1] = idx
    BY <1>1, AppendProperties
  <2> HIDE DEF b
  <2>2. b \in [1 .. Len(b) -> S]
    BY <2>1, FunctionOf
  <2>3. QED
    BY <2>1, <2>2
<1> HIDE DEF b
<1>3. \A q \in 1 .. k : b[q] # idx
  BY <1>2
<1>4. \A q \in 1 .. k + 1 : q \in 1 .. k \/ q = k + 1
  OBVIOUS
<1>5. \A q, r \in 1 .. k + 1 : b[q] = b[r] => q = r
  <2> TAKE q, r \in 1 .. k + 1
  <2>1. CASE q = k + 1 \/ r = k + 1
    BY <1>2, <1>3, <1>4, <2>1
  <2>2. CASE q \in 1 .. k /\ r \in 1 .. k
    BY <1>2, <2>2
  <2>3. QED
    BY <1>4, <2>1, <2>2
<1>6. \A i \in 0 .. k : \E q \in 1 .. k + 1 : b[q] = i
  <2> TAKE i \in 0 .. k
  <2>1. CASE i = idx
    BY <1>2, <2>1
  <2>2. CASE i # idx
    <3>1. PICK q \in 1 .. k : d[q] = i
      BY <2>2
    <3>2. QED
      BY <1>2, <3>1
  <2>3. QED
    BY <2>1, <2>2
<1>7. (k + 1) - 1 = k
  OBVIOUS
<1>8. Permutes(b, k + 1)
  BY <1>2, <1>5, <1>6, <1>7 DEF Permutes
<1>9. QED
  BY <1>8 DEF b

\* bring_to_front
LEMMA RaiseKeeps ==
  ASSUME NEW n \in Nat, NEW z, Permutes(z, n), NEW idx
  PROVE  Permutes(BringToFront(z, idx), n)
<1>1. CASE \E p \in DOMAIN z : z[p] = idx
  <2> DEFINE p == PosOf(z, idx)
             d == DropAt(z, p)
             k == n - 1
  <2>1. p \in 1 .. n /\ z[p] = idx
    BY <1>1, PosOfSlot
  <2>2. z[p] \in 0 .. n - 1
    BY <2>1 DEF Permutes
  <2>3. BringToFront(z, idx) = Append(d, idx)
    BY <1>1 DEF BringToFront
  <2> HIDE DEF p
  <2>4. /\ d \in [1 .. n - 1 -> (0 .. n - 1) \ {idx}]
        /\ \A q, r \in 1 .. n - 1 : d[q] = d[r] => q = r
        /\ \A i \in (0 .. n - 1) \ {idx} : \E q \in 1 .. n - 1 : d[q] = i
    BY <2>1, DropKeeps
  <2> HIDE DEF d
  <2>5. /\ k \in Nat /\ idx \in 0 .. k
        /\ d \in [1 .. k -> 0 .. k]
        /\ \A q \in 1 .. k : d[q] # idx
        /\ \A q, r \in 1 .. k : d[q] = d[r] => q = r
        /\ \A i \in (0 .. k) \ {idx} : \E q \in 1 .. k : d[q] = i
    BY <2>1, <2>2, <2>4
  <2>6. Permutes(Append(d, idx), k + 1)
    <3> HIDE DEF k
    <3>1. QED
      BY <2>5, AppendKeeps
  <2>7. k + 1 = n
    OBVIOUS
  <2>8. QED
    BY <2>3, <2>6, <2>7
<1>2. CASE ~(\E p \in DOMAIN z : z[p] = idx)
  BY <1>2 DEF BringToFront
<1>3. QED
  BY <1>1, <1>2

\* spawn_window
LEMMA SpawnKeeps ==
  ASSUME NEW n \in Nat, NEW z, Permutes(z, n)
  PROVE  Permutes(Append(z, n), n + 1)
<1>1. /\ z \in [1 .. n -> 0 .. n]
      /\ \A q \in 1 .. n : z[q] # n
      /\ \A q, r \in 1 .. n : z[q] = z[r] => q = r
      /\ \A i \in (0 .. n) \ {n} : \E q \in 1 .. n : z[q] = i
  BY DEF Permutes
<1>2. n \in 0 .. n
  OBVIOUS
<1>3. QED
  BY <1>1, <1>2, AppendKeeps

\* The last loops of close_window.
LEMMA CloseKeeps ==
  ASSUME NEW n \in Nat, NEW z, Permutes(z, n), NEW idx \in 0 .. n - 1
  PROVE  Permutes(Renumbered(z, idx), n - 1)
<1> DEFINE p == PosOf(z, idx)
           d == DropAt(z, p)
           b == Renumbered(z, idx)
<1>1. p \in 1 .. n /\ z[p] = idx
  <2>1. \E q \in DOMAIN z : z[q] = idx
    BY DEF Permutes
  <2>2. QED
    BY <2>1, PosOfSlot
<1>2. b = [q \in DOMAIN d |-> IF d[q] > idx THEN d[q] - 1 ELSE d[q]]
  BY DEF Renumbered
<1> HIDE DEF p
<1>3. /\ d \in [1 .. n - 1 -> (0 .. n - 1) \ {z[p]}]
      /\ \A q, r \in 1 .. n - 1 : d[q] = d[r] => q = r
      /\ \A i \in (0 .. n - 1) \ {z[p]} : \E q \in 1 .. n - 1 : d[q] = i
  <2>1. p \in 1 .. n
    BY <1>1
  <2>2. QED
    BY <2>1, DropKeeps, SMTT(60)
<1> HIDE DEF d, b
<1>4. \A q \in 1 .. n - 1 : /\ d[q] \in 0 .. n - 1 /\ d[q] # idx
                            /\ b[q] = IF d[q] > idx THEN d[q] - 1 ELSE d[q]
  BY <1>1, <1>2, <1>3
<1>5. b \in [1 .. n - 1 -> 0 .. (n - 1) - 1]
  <2>1. \A q \in 1 .. n - 1 : b[q] \in 0 .. (n - 1) - 1
    BY <1>4
  <2>2. QED
    BY <1>2, <1>3, <2>1
<1>6. \A q, r \in 1 .. n - 1 : b[q] = b[r] => q = r
  <2> TAKE q, r \in 1 .. n - 1
  <2>1. b[q] = b[r] => d[q] = d[r]
    BY <1>4
  <2>2. QED
    BY <1>3, <2>1
<1>7. ASSUME NEW i \in 0 .. (n - 1) - 1 PROVE \E q \in 1 .. n - 1 : b[q] = i
  <2>1. CASE i < idx
    <3>1. PICK q \in 1 .. n - 1 : d[q] = i
      BY <1>1, <1>3, <2>1
    <3>2. QED
      BY <1>4, <2>1, <3>1
  <2>2. CASE ~(i < idx)
    <3>1. PICK q \in 1 .. n - 1 : d[q] = i + 1
      BY <1>1, <1>3, <2>2
    <3>2. QED
      BY <1>4, <2>2, <3>1
  <2>3. QED
    BY <2>1, <2>2
<1>8. QED
  BY <1>5, <1>6, <1>7 DEF b, Permutes

LEMMA OrderedIf ==
  ASSUME NEW n \in 0 .. MaxWindows, NEW z, Permutes(z, n)
  PROVE  Ordered(z)
<1>1. n \in Nat /\ n <= MaxWindows
  BY DesktopAssumption
<1>2. z \in [1 .. n -> Slot]
  BY <1>1, DesktopAssumption DEF Permutes, Slot
<1>3. z \in Seq(Slot) /\ Len(z) = n
  BY <1>1, <1>2, FunctionLen
<1>4. QED
  BY <1>1, <1>3 DEF Ordered

LEMMA RaiseOrdered ==
  ASSUME NEW z, Ordered(z), NEW idx
  PROVE  Ordered(BringToFront(z, idx)) /\ Len(BringToFront(z, idx)) = Len(z)
<1> DEFINE n == Len(z)
           b == BringToFront(z, idx)
<1>1. n \in 0 .. MaxWindows /\ n \in Nat /\ Permutes(z, n)
  BY DesktopAssumption DEF Ordered
<1> HIDE DEF n
<1>2. Permutes(b, n)
  BY <1>1, RaiseKeeps
<1> HIDE DEF b
<1>3. Ordered(b)
  BY <1>1, <1>2, OrderedIf
<1>4. Len(b) = n
  <2>1. b \in [1 .. n -> 0 .. n - 1]
    BY <1>2 DEF Permutes
  <2>2. QED
    BY <1>1, <2>1
<1>5. QED
  BY <1>3, <1>4 DEF b, n

-----------------------------------------------------------------------------
(***************************************************************************)
(* The helpers' results                                                    *)
(***************************************************************************)
LEMMA LiveFacts ==
  ASSUME ListsInv
  PROVE  /\ count \in 0 .. MaxWindows
         /\ Live \subseteq Slot
         /\ top \in Live \cup {NoSlot}
<1>1. count \in 0 .. MaxWindows /\ Permutes(z_order, count)
  BY DesktopAssumption DEF ListsInv, Ordered, count
<1>2. Live \subseteq Slot
  BY <1>1, DesktopAssumption DEF Live, Slot
<1>3. top \in Live \cup {NoSlot}
  <2>1. count # 0 => z_order[count] \in 0 .. count - 1
    BY <1>1, DesktopAssumption DEF Permutes
  <2>2. QED
    BY <2>1 DEF top, Live
<1>4. QED
  BY <1>1, <1>2, <1>3

LEMMA FindFacts ==
  ASSUME ListsInv, NEW app
  PROVE  Find(app) \in Live \cup {NoSlot}
<1> DEFINE at == {i \in Live : windows[i].app = app}
<1>1. at \subseteq Live /\ Live \subseteq Nat
  BY LiveFacts, DesktopAssumption DEF Live
<1>2. CASE at = {}
  BY <1>2 DEF Find
<1>3. CASE at # {}
  <2>1. \E i \in at : \A j \in at : i <= j
    <3> HIDE DEF at
    <3>1. QED
      BY <1>1, <1>3, LeastNat
  <2>2. (CHOOSE i \in at : \A j \in at : i <= j) \in at
    BY <2>1
  <2>3. QED
    BY <1>1, <1>3, <2>2 DEF Find
<1>4. QED
  BY <1>2, <1>3

LEMMA NewObjectFacts ==
  ASSUME NEW kind \in {"Screen"} \cup Stateful
  PROVE  NewObject(kind) \in Object \cup {Null}
<1> DEFINE used == {o \in Object : object[o].kind # "free"}
           free == {n \in 1 .. MaxSessions : <<kind, n>> \notin used}
           least == CHOOSE n \in free : \A m \in free : n <= m
<1>1. NewObject(kind) = IF free = {} \/ Cardinality(used) >= MaxBlocks THEN Null
                        ELSE <<kind, least>>
  BY DEF NewObject
<1>2. CASE free = {}
  BY <1>1, <1>2
<1>3. CASE free # {}
  <2>1. free \subseteq Nat /\ free \subseteq 1 .. MaxSessions
    BY DesktopAssumption
  <2>2. \E n \in free : \A m \in free : n <= m
    <3> HIDE DEF free
    <3>1. QED
      BY <1>3, <2>1, LeastNat
  <2>3. least \in free
    <3> HIDE DEF free
    <3>1. QED
      BY <2>2
  <2>4. least \in 1 .. MaxSessions
    BY <2>1, <2>3
  <2> HIDE DEF least
  <2>5. <<kind, least>> \in Object
    BY <2>4 DEF Object
  <2>6. QED
    BY <1>1, <2>5
<1>4. QED
  BY <1>2, <1>3

LEMMA BlankIsBlock ==
  ASSUME NEW kind \in {"free", "Screen"} \cup Stateful
  PROVE  Blank(kind) \in Block
BY DesktopAssumption DEF Blank, Block

LEMMA FreedFacts ==
  ASSUME ListsInv, NEW o \in Object \cup {Null}
  PROVE  Freed(o) \in [Object -> Block]
<1>1. Blank("free") \in Block
  BY BlankIsBlock
<1>2. QED
  BY <1>1 DEF Freed, ListsInv

\* window_spawn_or_focus
LEMMA OpenedFacts ==
  ASSUME ListsInv, NEW app \in Apps
  PROVE  LET list == Opened(app)
         IN  /\ list.windows \in WindowsType
             /\ list.object \in [Object -> Block]
             /\ Ordered(list.z_order)
             /\ \/ list.slot \in Live \cup {NoSlot}
                \/ list.slot = count /\ count < MaxWindows
<1> DEFINE at == Find(app)
           o == IF app \in Stateful THEN NewObject(app) ELSE Null
           w == [windows EXCEPT ![count] = [app |-> app, state |-> o]]
           obj == IF o = Null THEN object ELSE [object EXCEPT ![o] = Blank(app)]
<1>1. /\ count \in 0 .. MaxWindows /\ count \in Nat
      /\ windows \in WindowsType /\ Ordered(z_order) /\ object \in [Object -> Block]
  BY LiveFacts, DesktopAssumption DEF ListsInv
<1>2. at \in Live \cup {NoSlot}
  BY FindFacts
<1>3. o \in Object \cup {Null}
  BY NewObjectFacts
<1>4. app \in Kinds
  BY DEF Kinds
<1> HIDE DEF at
<1>5. CASE at = NoSlot /\ count < MaxWindows
  <2>1. Opened(app) = [windows |-> w, z_order |-> Append(z_order, count),
                       object |-> obj, slot |-> count]
    BY <1>5 DEF Opened, at
  <2>2. w \in WindowsType
    <3> HIDE DEF o
    <3>1. QED
      BY <1>1, <1>3, <1>4 DEF WindowsType
  <2>3. obj \in [Object -> Block]
    <3>1. o # Null => app \in Stateful
      OBVIOUS
    <3> HIDE DEF o
    <3>2. QED
      BY <1>1, <1>3, <3>1, BlankIsBlock
  <2>4. Ordered(Append(z_order, count))
    <3>1. Permutes(z_order, count)
      BY <1>1 DEF Ordered, count
    <3>2. Permutes(Append(z_order, count), count + 1)
      BY <1>1, <3>1, SpawnKeeps
    <3>3. count + 1 \in 0 .. MaxWindows
      BY <1>1, <1>5, DesktopAssumption
    <3>4. QED
      BY <3>2, <3>3, OrderedIf
  <2>5. QED
    BY <1>5, <2>1, <2>2, <2>3, <2>4
<1>6. CASE ~(at = NoSlot /\ count < MaxWindows)
  <2>1. Opened(app) = [windows |-> windows, z_order |-> BringToFront(z_order, at),
                       object |-> object, slot |-> at]
    BY <1>6 DEF Opened, at
  <2>2. Ordered(BringToFront(z_order, at))
    BY <1>1, RaiseOrdered
  <2>3. QED
    BY <1>1, <1>2, <2>1, <2>2
<1>7. QED
  BY <1>5, <1>6

\* close_window
LEMMA CloseFacts ==
  ASSUME ListsInv, MenusInv, NEW idx \in Live, CloseWindow(idx)
  PROVE  ListsInv' /\ focusWin' \in Slot \cup {NoSlot}
<1>1. /\ count \in 0 .. MaxWindows /\ count \in Nat /\ Permutes(z_order, count)
      /\ windows \in WindowsType /\ object \in [Object -> Block]
      /\ idx \in Slot /\ idx \in 0 .. count - 1
  BY LiveFacts, DesktopAssumption DEF ListsInv, Ordered, count, Live
<1>2. object' \in [Object -> Block]
  <2>1. windows[idx].state \in Object \cup {Null}
    BY <1>1 DEF WindowsType
  <2>2. QED
    BY <2>1, FreedFacts DEF CloseWindow
<1>3. windows' \in WindowsType
  <2> DEFINE closed == [windows EXCEPT ![idx].state = Null]
  <2>1. closed \in WindowsType
    BY <1>1 DEF WindowsType
  <2>2. windows' = [i \in Slot |-> IF idx <= i /\ i < count - 1
                                   THEN closed[i + 1] ELSE closed[i]]
    BY DEF CloseWindow
  <2>3. \A i \in Slot : i < count - 1 => i + 1 \in Slot
    BY <1>1, DesktopAssumption DEF Slot
  <2> HIDE DEF closed
  <2>4. QED
    BY <2>1, <2>2, <2>3 DEF WindowsType
<1>4. Ordered(z_order')
  <2>1. Permutes(Renumbered(z_order, idx), count - 1)
    BY <1>1, CloseKeeps
  <2>2. count - 1 \in 0 .. MaxWindows
    BY <1>1, DesktopAssumption
  <2>3. z_order' = Renumbered(z_order, idx)
    BY DEF CloseWindow
  <2>4. QED
    BY <2>1, <2>2, <2>3, OrderedIf
<1>5. focusWin' \in Slot \cup {NoSlot}
  BY DEF CloseWindow, FocusAfterClose, MenusInv
<1>6. QED
  BY <1>2, <1>3, <1>4, <1>5 DEF ListsInv

-----------------------------------------------------------------------------
(***************************************************************************)
(* The calls of desktop()                                                  *)
(***************************************************************************)
LEMMA MeFacts ==
  ASSUME LoopsInv, frames # << >>
  PROVE  me \in Loop /\ Len(frames) \in 1 .. Len(frames)
BY DEF LoopsInv, me

LEMMA SetLoopFacts ==
  ASSUME LoopsInv, frames # << >>, NEW loop \in Loop, SetLoop(loop)
  PROVE  frames' \in Seq(Loop)
<1>1. frames \in Seq(Loop) /\ Len(frames) \in 1 .. Len(frames)
  BY MeFacts DEF LoopsInv
<1>2. QED
  BY <1>1, ExceptSeq DEF SetLoop

LEMMA ClickFacts ==
  ASSUME LoopsInv, NEW consumed \in BOOLEAN, NEW body \in Slot \cup {NoSlot},
         Click(consumed, body)
  PROVE  LoopsInv'
<1>1. frames # << >> /\ UNCHANGED <<sessions, resumed>>
  BY DEF Click, InLoop
<1> DEFINE loop == [me EXCEPT !.phase = "key", !.pressed = TRUE,
                              !.consumed = consumed, !.body = body]
<1>2. loop \in Loop
  BY <1>1, MeFacts DEF Loop
<1>3. SetLoop(loop)
  BY DEF Click
<1> HIDE DEF loop
<1>4. frames' \in Seq(Loop)
  BY <1>1, <1>2, <1>3, SetLoopFacts
<1>5. QED
  BY <1>1, <1>4 DEF LoopsInv

LEMMA EnterFacts ==
  ASSUME IInv, NEW outer \in Seq(Loop), NEW blocks \in [Object -> Block],
         EnterDesktop(outer, blocks)
  PROVE  IInv'
<1>1. LoopsInv' /\ ListsInv'
  <2>1. sessions' \in 0 .. MaxSessions /\ resumed' \in BOOLEAN
    BY DesktopAssumption DEF EnterDesktop, IInv, LoopsInv
  <2>2. CASE NewObject("Screen") = Null
    BY <2>1, <2>2 DEF EnterDesktop, IInv, LoopsInv, ListsInv, Ordered
  <2>3. CASE NewObject("Screen") # Null
    <3> DEFINE o == NewObject("Screen")
               loop == [phase |-> "poll", screen |-> o, pressed |-> FALSE,
                        consumed |-> FALSE, body |-> NoSlot, dragging |-> NoSlot,
                        lastTop |-> 0]
    <3>1. /\ object' = [blocks EXCEPT ![o] = Blank("Screen")]
          /\ windows' = [windows EXCEPT ![0] = [app |-> "None", state |-> Null]]
          /\ z_order' = <<0>>
          /\ frames' = Append(outer, loop)
      BY <2>3 DEF EnterDesktop
    <3>2. o \in Object
      BY <2>3, NewObjectFacts
    <3> HIDE DEF o
    <3>3. loop \in Loop
      BY <3>2, DesktopAssumption DEF Loop, Slot
    <3>4. frames' \in Seq(Loop)
      <4> HIDE DEF loop
      <4>1. QED
        BY <3>1, <3>3
    <3>5. object' \in [Object -> Block]
      BY <3>1, <3>2, BlankIsBlock DEF IInv, ListsInv
    <3>6. windows' \in WindowsType
      BY <3>1 DEF IInv, ListsInv, WindowsType, Kinds
    <3>7. Ordered(z_order')
      <4>1. Permutes(<<0>>, 1)
        BY DEF Permutes
      <4>2. 1 \in 0 .. MaxWindows
        BY DesktopAssumption
      <4>3. QED
        BY <3>1, <4>1, <4>2, OrderedIf
    <3>8. QED
      BY <2>1, <3>4, <3>5, <3>6, <3>7 DEF LoopsInv, ListsInv
  <2>4. QED
    BY <2>2, <2>3
<1>2. FilesInv' /\ MenusInv'
  BY DEF EnterDesktop, IInv, FilesInv, MenusInv, menuVars
<1>3. QED
  BY <1>1, <1>2 DEF IInv

\* The end of a turn, without what the key has changed.
LEMMA EndTurnFacts ==
  ASSUME IInv, frames # << >>, EndTurn
  PROVE  /\ Ordered(z_order')
         /\ frames' \in Seq(Loop)
         /\ focusWin' \in Slot \cup {NoSlot}
         /\ items' \in {<< >>, <<"Save", "SaveAs">>}
         /\ openMenu' \in BOOLEAN
<1>1. PICK t \in {NoSlot} \cup
                  (IF me.pressed /\ me.dragging = NoSlot /\ ~me.consumed
                   THEN Live \ {me.body} ELSE {}) :
        LET z     == BringToFront(z_order, t)
            front == IF count = 0 THEN NoSlot ELSE z[count]
        IN  /\ z_order' = z
            /\ SetLoop([me EXCEPT !.phase = "poll", !.dragging = Dragged(t),
                                  !.consumed = FALSE, !.body = NoSlot,
                                  !.lastTop = front])
            /\ IF front = me.lastTop
                 THEN UNCHANGED <<focusWin, items, openMenu>>
                 ELSE /\ openMenu' = FALSE
                      /\ IF front # NoSlot /\ windows[front].app = "TextEdit"
                           THEN focusWin' = front /\ items' = <<"Save", "SaveAs">>
                           ELSE UNCHANGED focusWin /\ items' = << >>
  BY DEF EndTurn
<1> DEFINE z     == BringToFront(z_order, t)
           front == IF count = 0 THEN NoSlot ELSE z[count]
           loop  == [me EXCEPT !.phase = "poll", !.dragging = Dragged(t),
                               !.consumed = FALSE, !.body = NoSlot,
                               !.lastTop = front]
<1>2. /\ z_order' = z /\ SetLoop(loop)
      /\ IF front = me.lastTop
           THEN UNCHANGED <<focusWin, items, openMenu>>
           ELSE /\ openMenu' = FALSE
                /\ IF front # NoSlot /\ windows[front].app = "TextEdit"
                     THEN focusWin' = front /\ items' = <<"Save", "SaveAs">>
                     ELSE UNCHANGED focusWin /\ items' = << >>
  BY <1>1
<1>3. t \in Slot \cup {NoSlot} /\ count \in 0 .. MaxWindows
  BY LiveFacts DEF IInv
<1>4. Ordered(z) /\ Len(z) = count
  BY RaiseOrdered DEF IInv, ListsInv, count
<1> HIDE DEF z
<1>5. front \in Slot \cup {NoSlot}
  <2>1. z \in Seq(Slot)
    BY <1>4 DEF Ordered
  <2>2. count # 0 => z[count] \in Slot
    BY <1>3, <1>4, <2>1, DesktopAssumption
  <2>3. QED
    BY <2>2
<1> HIDE DEF front
<1>6. me \in Loop
  BY MeFacts DEF IInv
<1>7. Dragged(t) \in Slot \cup {NoSlot}
  BY <1>3, <1>6 DEF Dragged, Loop
<1>8. loop \in Loop
  BY <1>5, <1>6, <1>7 DEF Loop
<1> HIDE DEF loop
<1>9. frames' \in Seq(Loop)
  BY <1>2, <1>8, SetLoopFacts DEF IInv
<1>10. /\ focusWin' \in Slot \cup {NoSlot}
       /\ items' \in {<< >>, <<"Save", "SaveAs">>}
       /\ openMenu' \in BOOLEAN
  BY <1>2, <1>5 DEF IInv, MenusInv
<1>11. QED
  BY <1>2, <1>4, <1>9, <1>10

-----------------------------------------------------------------------------
(***************************************************************************)
(* The actions                                                             *)
(***************************************************************************)
\* A turn of the loop that only sees the pointer, and the parts of the screen
\* that change the menus or nothing.
LEMMA PointerInv ==
  ASSUME IInv, NoClick \/ ToggleStart \/ MissTaskbar \/ ToggleMenu \/ ClickElsewhere
  PROVE  IInv'
<1>1. ListsInv' /\ FilesInv'
  BY DEF NoClick, ToggleStart, MissTaskbar, ToggleMenu, ClickElsewhere, ClickBelow,
         IInv, ListsInv, FilesInv, screenVars, Ordered
<1>2. MenusInv'
  BY DEF NoClick, ToggleStart, MissTaskbar, ToggleMenu, ClickElsewhere, ClickBelow,
         IInv, MenusInv, menuVars
<1>3. LoopsInv'
  <2>1. CASE NoClick
    <3>1. frames # << >> /\ UNCHANGED <<sessions, resumed>>
      BY <2>1 DEF NoClick, InLoop
    <3>2. me \in Loop
      BY <3>1, MeFacts DEF IInv
    <3>3. PICK pressed \in {FALSE, me.pressed} :
            SetLoop([me EXCEPT !.phase = "key", !.pressed = pressed])
      BY <2>1 DEF NoClick
    <3> DEFINE loop == [me EXCEPT !.phase = "key", !.pressed = pressed]
    <3>4. loop \in Loop
      BY <3>2 DEF Loop
    <3>5. SetLoop(loop)
      BY <3>3
    <3> HIDE DEF loop
    <3>6. frames' \in Seq(Loop)
      BY <3>1, <3>4, <3>5, SetLoopFacts DEF IInv
    <3>7. QED
      BY <3>1, <3>6 DEF IInv, LoopsInv
  <2>2. CASE ~NoClick
    <3>1. Click(TRUE, NoSlot) \/ Click(FALSE, NoSlot)
      BY <2>2 DEF ToggleStart, MissTaskbar, ToggleMenu, ClickElsewhere, ClickBelow
    <3>2. QED
      BY <3>1, ClickFacts DEF IInv
  <2>3. QED
    BY <2>1, <2>2
<1>4. QED
  BY <1>1, <1>2, <1>3 DEF IInv

\* A click that opens, raises or closes windows.
LEMMA WindowInv ==
  ASSUME IInv, OpenTerminal \/ SelectWindow \/ OpenFromStart \/ ClickClose \/ ClickBody
  PROVE  IInv'
<1>1. ListsInv' /\ focusWin' \in Slot \cup {NoSlot}
  <2>1. CASE OpenTerminal
    <3>1. Show(Opened("Terminal")) /\ "Terminal" \in Apps /\ UNCHANGED focusWin
      BY <2>1 DEF OpenTerminal, menuVars
    <3>2. QED
      BY <3>1, OpenedFacts DEF Show, IInv, ListsInv, MenusInv
  <2>2. CASE OpenFromStart
    <3>1. PICK app \in Apps : Show(Opened(app))
      BY <2>2 DEF OpenFromStart
    <3>2. UNCHANGED focusWin
      BY <2>2 DEF OpenFromStart
    <3>3. QED
      BY <3>1, <3>2, OpenedFacts DEF Show, IInv, ListsInv, MenusInv
  <2>3. CASE SelectWindow \/ ClickBody
    <3>1. PICK idx : z_order' = BringToFront(z_order, idx)
      BY <2>3 DEF SelectWindow, ClickBody
    <3>2. UNCHANGED <<windows, object, focusWin>>
      BY <2>3 DEF SelectWindow, ClickBody, menuVars
    <3>3. Ordered(z_order')
      BY <3>1, RaiseOrdered DEF IInv, ListsInv
    <3>4. QED
      BY <3>2, <3>3 DEF IInv, ListsInv, MenusInv
  <2>4. CASE ClickClose
    <3>1. PICK idx \in Live : CloseWindow(idx)
      BY <2>4 DEF ClickClose
    <3>2. QED
      BY <3>1, CloseFacts DEF IInv
  <2>5. QED
    BY <2>1, <2>2, <2>3, <2>4
<1>2. FilesInv'
  BY DEF OpenTerminal, SelectWindow, OpenFromStart, ClickClose, ClickBody, IInv,
         FilesInv
<1>3. MenusInv'
  BY <1>1 DEF OpenTerminal, SelectWindow, OpenFromStart, ClickClose, ClickBody,
              ClickBelow, menuVars, IInv, MenusInv
<1>4. LoopsInv'
  <2>1. PICK consumed \in BOOLEAN, body \in Live \cup {NoSlot} : Click(consumed, body)
    BY DEF OpenTerminal, SelectWindow, OpenFromStart, ClickClose, ClickBody, ClickBelow
  <2>2. body \in Slot \cup {NoSlot}
    BY LiveFacts DEF IInv
  <2>3. QED
    BY <2>1, <2>2, ClickFacts DEF IInv
<1>5. QED
  BY <1>1, <1>2, <1>3, <1>4 DEF IInv

LEMMA ReturnInv == ASSUME IInv, ReturnToShell PROVE IInv'
<1>1. /\ frames # << >> /\ object' = Freed(me.screen)
      /\ frames' = SubSeq(frames, 1, Len(frames) - 1)
      /\ UNCHANGED <<windows, z_order, files, focusWin, items, openMenu, sessions>>
      /\ startMenu' = FALSE /\ resumed' \in BOOLEAN
  BY DEF ReturnToShell, InLoop, IInv, LoopsInv
<1>2. me.screen \in Object
  BY <1>1, MeFacts DEF IInv, Loop
<1>3. object' \in [Object -> Block]
  BY <1>1, <1>2, FreedFacts DEF IInv
<1>4. frames' \in Seq(Loop)
  <2>1. frames \in Seq(Loop) /\ Len(frames) \in Nat
    BY DEF IInv, LoopsInv
  <2>2. \A i \in 1 .. Len(frames) - 1 : frames[i] \in Loop
    BY <2>1
  <2>3. QED
    BY <1>1, <2>1, <2>2, SubSeqProperties
<1>5. QED
  BY <1>1, <1>3, <1>4 DEF IInv, ListsInv, Ordered, FilesInv, MenusInv, LoopsInv

\* A block of object that gets another document.
LEMMA DocumentFacts ==
  ASSUME NEW obj \in [Object -> Block], NEW o \in Object, NEW doc \in Block
  PROVE  [obj EXCEPT ![o] = doc] \in [Object -> Block]
OBVIOUS

LEMMA WriteFacts ==
  ASSUME FilesInv, NEW name \in Names, NEW text \in 0 .. MaxText,
         NEW write \in Writes(name, text), NEW doc \in Block
  PROVE  /\ write.files \in [Names -> Contents]
         /\ Saved(doc, name, write) \in Block
<1>1. \A kept \in 0 .. text : kept \in Contents
  BY DesktopAssumption DEF Contents
<1>2. write.files \in [Names -> Contents]
  BY <1>1 DEF Writes, FilesInv
<1>3. Saved(doc, name, write) \in Block
  BY DEF Saved, Block
<1>4. QED
  BY <1>2, <1>3

LEMMA PickInv == ASSUME IInv, PickRow PROVE IInv'
<1>1. /\ Click(TRUE, NoSlot) /\ openMenu' = FALSE
      /\ UNCHANGED <<windows, z_order, focusWin, items, startMenu>>
  BY DEF PickRow
<1>2. object' \in [Object -> Block] /\ files' \in [Names -> Contents]
  <2> DEFINE o == IF focusWin = NoSlot THEN Null ELSE windows[focusWin].state
  <2>1. PICK row \in DOMAIN items :
          IF o = Null
          THEN UNCHANGED <<object, files>>
          ELSE IF items[row] = "SaveAs" \/ object[o].name = NoName
          THEN /\ object' = [object EXCEPT ![o] = Prompting(object[o])]
               /\ UNCHANGED files
          ELSE \E write \in Writes(object[o].name, object[o].text) :
                 /\ files' = write.files
                 /\ object' = [object EXCEPT ![o] =
                                 Saved(object[o], object[o].name, write)]
    BY DEF PickRow
  <2>2. o \in Object \cup {Null}
    BY DEF IInv, MenusInv, ListsInv, WindowsType
  <2> HIDE DEF o
  <2>3. object \in [Object -> Block] /\ files \in [Names -> Contents]
    BY DEF IInv, ListsInv, FilesInv
  <2>4. CASE UNCHANGED <<object, files>>
    BY <2>3, <2>4
  <2>5. CASE o # Null /\ object' = [object EXCEPT ![o] = Prompting(object[o])]
             /\ UNCHANGED files
    <3>1. o \in Object /\ object[o] \in Block
      BY <2>2, <2>3, <2>5
    <3>2. Prompting(object[o]) \in Block
      BY <3>1 DEF Prompting, Block
    <3>3. QED
      BY <2>3, <2>5, <3>1, <3>2, DocumentFacts
  <2>6. CASE /\ o # Null /\ object[o].name # NoName
             /\ \E write \in Writes(object[o].name, object[o].text) :
                  /\ files' = write.files
                  /\ object' = [object EXCEPT ![o] =
                                  Saved(object[o], object[o].name, write)]
    <3>1. o \in Object /\ object[o] \in Block
      BY <2>2, <2>3, <2>6
    <3>2. object[o].name \in Names /\ object[o].text \in 0 .. MaxText
      BY <2>6, <3>1 DEF Block
    <3>3. PICK write \in Writes(object[o].name, object[o].text) :
            /\ files' = write.files
            /\ object' = [object EXCEPT ![o] =
                            Saved(object[o], object[o].name, write)]
      BY <2>6
    <3>4. /\ write.files \in [Names -> Contents]
          /\ Saved(object[o], object[o].name, write) \in Block
      BY <3>1, <3>2, WriteFacts DEF IInv
    <3>5. QED
      BY <2>3, <3>1, <3>3, <3>4, DocumentFacts
  <2>7. QED
    BY <2>1, <2>4, <2>5, <2>6
<1>3. LoopsInv'
  BY <1>1, ClickFacts DEF IInv
<1>4. QED
  BY <1>1, <1>2, <1>3 DEF IInv, ListsInv, Ordered, FilesInv, MenusInv

LEMMA OpenFileInv == ASSUME IInv, OpenFile PROVE IInv'
<1>1. PICK idx \in FilesWindows, name \in Names :
        /\ "TextEdit" \in Apps
        /\ ClickBelow(FALSE, idx)
        /\ LET list  == Opened("TextEdit")
               under == BringToFront(z_order, idx)
               o     == IF list.slot = NoSlot THEN Null
                        ELSE list.windows[list.slot].state
           IN  /\ windows' = list.windows
               /\ z_order' = IF list.slot \in Live THEN BringToFront(under, list.slot)
                             ELSE IF list.slot = NoSlot THEN under
                             ELSE Append(under, list.slot)
               /\ object' = IF o = Null THEN list.object
                            ELSE [list.object EXCEPT ![o] = Loaded(name)]
        /\ UNCHANGED <<files, focusWin>>
  BY DEF OpenFile
<1> DEFINE list  == Opened("TextEdit")
           under == BringToFront(z_order, idx)
           o     == IF list.slot = NoSlot THEN Null ELSE list.windows[list.slot].state
<1>2. /\ windows' = list.windows
      /\ z_order' = IF list.slot \in Live THEN BringToFront(under, list.slot)
                    ELSE IF list.slot = NoSlot THEN under
                    ELSE Append(under, list.slot)
      /\ object' = IF o = Null THEN list.object
                   ELSE [list.object EXCEPT ![o] = Loaded(name)]
  BY <1>1
<1>3. /\ list.windows \in WindowsType
      /\ list.object \in [Object -> Block]
      /\ \/ list.slot \in Live \cup {NoSlot}
         \/ list.slot = count /\ count < MaxWindows
  BY <1>1, OpenedFacts DEF IInv
<1> HIDE DEF list
<1>4. Ordered(under) /\ Len(under) = count /\ count \in 0 .. MaxWindows
  BY RaiseOrdered, LiveFacts DEF IInv, ListsInv, count
<1> HIDE DEF under
<1>5. Ordered(z_order')
  <2>1. CASE list.slot \in Live
    BY <1>2, <1>4, <2>1, RaiseOrdered
  <2>2. CASE list.slot \notin Live /\ list.slot = NoSlot
    BY <1>2, <1>4, <2>2
  <2>3. CASE list.slot \notin Live /\ list.slot # NoSlot
    <3>1. list.slot = count /\ count < MaxWindows /\ count \in Nat
      BY <1>3, <1>4, <2>3, DesktopAssumption
    <3>2. Permutes(under, count)
      BY <1>4 DEF Ordered
    <3>3. Permutes(Append(under, count), count + 1)
      BY <3>1, <3>2, SpawnKeeps
    <3>4. count + 1 \in 0 .. MaxWindows
      BY <1>4, <3>1, DesktopAssumption
    <3>5. z_order' = Append(under, count)
      BY <1>2, <2>3, <3>1
    <3>6. QED
      BY <3>3, <3>4, <3>5, OrderedIf
  <2>4. QED
    BY <2>1, <2>2, <2>3
<1>6. object' \in [Object -> Block]
  <2>1. list.slot \in Slot \cup {NoSlot}
    BY <1>3, <1>4, LiveFacts, DesktopAssumption DEF Slot, IInv
  <2>2. o \in Object \cup {Null}
    BY <1>3, <2>1 DEF WindowsType
  <2>3. Loaded(name) \in Block
    BY BlankIsBlock DEF Loaded, Blank, Block, IInv, FilesInv, Contents, Stateful
  <2> HIDE DEF o
  <2>4. CASE o = Null
    BY <1>2, <1>3, <2>4
  <2>5. CASE o # Null
    BY <1>2, <1>3, <2>2, <2>3, <2>5, DocumentFacts
  <2>6. QED
    BY <2>4, <2>5
<1>7. LoopsInv'
  <2>1. Click(FALSE, idx) /\ idx \in Slot
    BY <1>1, LiveFacts DEF ClickBelow, FilesWindows, IInv
  <2>2. QED
    BY <2>1, ClickFacts DEF IInv
<1>8. FilesInv' /\ MenusInv'
  BY <1>1 DEF ClickBelow, IInv, FilesInv, MenusInv
<1>9. QED
  BY <1>2, <1>3, <1>5, <1>6, <1>7, <1>8 DEF IInv, ListsInv

LEMMA OpenDirectoryInv == ASSUME IInv, OpenDirectory PROVE IInv'
<1>1. PICK idx \in FilesWindows :
        /\ ClickBelow(FALSE, idx)
        /\ z_order' = BringToFront(z_order, idx)
        /\ files' \in [Names -> Contents]
        /\ UNCHANGED <<windows, object, focusWin>>
  BY DEF OpenDirectory
<1>2. Ordered(z_order')
  BY <1>1, RaiseOrdered DEF IInv, ListsInv
<1>3. LoopsInv'
  <2>1. Click(FALSE, idx) /\ idx \in Slot
    BY <1>1, LiveFacts DEF ClickBelow, FilesWindows, IInv
  <2>2. QED
    BY <2>1, ClickFacts DEF IInv
<1>4. QED
  BY <1>1, <1>2, <1>3 DEF ClickBelow, IInv, ListsInv, FilesInv, MenusInv

LEMMA FrontFacts ==
  ASSUME ListsInv, NEW app
  PROVE  Front(app) \in Object \cup {Null}
<1>1. top \in Slot \cup {NoSlot}
  BY LiveFacts
<1>2. QED
  BY <1>1 DEF Front, ListsInv, WindowsType

\* A line that is typed, or taken.
LEMMA LineFacts ==
  ASSUME ListsInv, NEW o \in Object
  PROVE  /\ \A text \in 0 .. MaxText :
              [object EXCEPT ![o].text = text] \in [Object -> Block]
         /\ LineTaken(o) \in [Object -> Block]
<1>1. ASSUME NEW text \in 0 .. MaxText
      PROVE  [object EXCEPT ![o].text = text] \in [Object -> Block]
  <2>1. object \in [Object -> Block] /\ object[o] \in Block
    BY DEF ListsInv
  <2>2. [object[o] EXCEPT !.text = text] \in Block
    BY <2>1 DEF Block
  <2>3. QED
    BY <2>1, <2>2
<1>2. 0 \in 0 .. MaxText
  BY DesktopAssumption
<1>3. QED
  BY <1>1, <1>2 DEF LineTaken

\* What the key of a turn does to documents and files.
LEMMA KeyDocuments ==
  ASSUME IInv, NoKey \/ EditKey \/ PromptKey \/ TypeKey \/ RunCommand
  PROVE  object' \in [Object -> Block] /\ files' \in [Names -> Contents]
<1>1. object \in [Object -> Block] /\ files \in [Names -> Contents]
  BY DEF IInv, ListsInv, FilesInv
<1>2. CASE NoKey
  BY <1>1, <1>2 DEF NoKey
<1>7. CASE RunCommand
  <2>1. /\ Front("Terminal") \in Object
        /\ object' = LineTaken(Front("Terminal")) /\ files' \in [Names -> Contents]
    BY <1>7, FrontFacts DEF RunCommand, IInv
  <2>2. QED
    BY <2>1, LineFacts DEF IInv
<1>8. CASE TypeKey
  <2>1. /\ Front("Terminal") \in Object
        /\ \E text \in 0 .. MaxText :
             object' = [object EXCEPT ![Front("Terminal")].text = text]
        /\ UNCHANGED files
    BY <1>8, FrontFacts DEF TypeKey, IInv
  <2>2. QED
    BY <1>1, <2>1, LineFacts DEF IInv
<1> DEFINE o == Front("TextEdit")
<1>3. o \in Object \cup {Null}
  BY FrontFacts DEF IInv
<1>4. CASE EditKey
  <2>1. PICK doc \in Edits(object[o]) : object' = [object EXCEPT ![o] = doc]
    BY <1>4 DEF EditKey
  <2>2. o # Null /\ UNCHANGED files
    BY <1>4 DEF EditKey
  <2> HIDE DEF o
  <2>3. o \in Object /\ object[o] \in Block
    BY <1>1, <1>3, <2>2
  <2>4. doc \in Block
    BY <2>3, DesktopAssumption DEF Edits, Block
  <2>5. QED
    BY <1>1, <2>1, <2>2, <2>3, <2>4, DocumentFacts
<1>5. CASE PromptKey
  <2>1. /\ o # Null
        /\ \/ /\ object' = [object EXCEPT ![o].prompt = FALSE]
              /\ UNCHANGED files
           \/ \E name \in Names : \E write \in Writes(name, object[o].text) :
                /\ files' = write.files
                /\ object' = [object EXCEPT ![o] =
                     [Saved(object[o], name, write) EXCEPT !.prompt = FALSE]]
    BY <1>5 DEF PromptKey
  <2> HIDE DEF o
  <2>2. o \in Object /\ object[o] \in Block
    BY <1>1, <1>3, <2>1
  <2>3. CASE object' = [object EXCEPT ![o].prompt = FALSE] /\ UNCHANGED files
    <3>1. [object[o] EXCEPT !.prompt = FALSE] \in Block
      BY <2>2 DEF Block
    <3>2. object' = [object EXCEPT ![o] = [object[o] EXCEPT !.prompt = FALSE]]
      BY <1>1, <2>2, <2>3
    <3>3. QED
      BY <1>1, <2>2, <2>3, <3>1, <3>2, DocumentFacts
  <2>4. CASE \E name \in Names : \E write \in Writes(name, object[o].text) :
               /\ files' = write.files
               /\ object' = [object EXCEPT ![o] =
                    [Saved(object[o], name, write) EXCEPT !.prompt = FALSE]]
    <3>1. PICK name \in Names : \E write \in Writes(name, object[o].text) :
               /\ files' = write.files
               /\ object' = [object EXCEPT ![o] =
                    [Saved(object[o], name, write) EXCEPT !.prompt = FALSE]]
      BY <2>4
    <3>2. PICK write \in Writes(name, object[o].text) :
               /\ files' = write.files
               /\ object' = [object EXCEPT ![o] =
                    [Saved(object[o], name, write) EXCEPT !.prompt = FALSE]]
      BY <3>1
    <3>3. object[o].text \in 0 .. MaxText
      BY <2>2 DEF Block
    <3>4. /\ write.files \in [Names -> Contents]
          /\ Saved(object[o], name, write) \in Block
      BY <2>2, <3>3, WriteFacts DEF IInv
    <3>5. [Saved(object[o], name, write) EXCEPT !.prompt = FALSE] \in Block
      BY <3>4 DEF Block
    <3>6. QED
      BY <1>1, <2>2, <3>2, <3>4, <3>5, DocumentFacts
  <2>5. QED
    BY <2>1, <2>3, <2>4
<1>6. QED
  BY <1>2, <1>4, <1>5, <1>7, <1>8

LEMMA KeyInv ==
  ASSUME IInv, NoKey \/ EditKey \/ PromptKey \/ TypeKey \/ RunCommand \/ Resume
  PROVE  IInv'
<1>1. /\ frames # << >> /\ EndTurn
      /\ UNCHANGED <<windows, startMenu, sessions, resumed>>
  BY DEF NoKey, EditKey, PromptKey, TypeKey, RunCommand, Resume, Key, InLoop
<1>2. object' \in [Object -> Block] /\ files' \in [Names -> Contents]
  <2>1. CASE Resume
    BY <2>1 DEF Resume, IInv, ListsInv, FilesInv
  <2>2. CASE ~Resume
    BY <2>2, KeyDocuments
  <2>3. QED
    BY <2>1, <2>2
<1>3. /\ Ordered(z_order') /\ frames' \in Seq(Loop)
      /\ focusWin' \in Slot \cup {NoSlot}
      /\ items' \in {<< >>, <<"Save", "SaveAs">>}
      /\ openMenu' \in BOOLEAN
  BY <1>1, EndTurnFacts
<1>4. QED
  BY <1>1, <1>2, <1>3 DEF IInv, ListsInv, FilesInv, MenusInv, LoopsInv

\* Entering the desktop, from the shell or from its terminal.
LEMMA EnterInv == ASSUME IInv, StartDesktop \/ RunDesktop PROVE IInv'
<1>1. CASE StartDesktop
  <2>1. /\ frames \in Seq(Loop) /\ object \in [Object -> Block]
        /\ EnterDesktop(frames, object)
    BY <1>1 DEF StartDesktop, IInv, LoopsInv, ListsInv
  <2>2. QED
    BY <2>1, EnterFacts
<1>2. CASE RunDesktop
  <2> DEFINE loop  == [me EXCEPT !.phase = "resume", !.body = NoSlot]
             outer == [frames EXCEPT ![Len(frames)] = loop]
  <2>1. /\ frames # << >> /\ EnterDesktop(outer, LineTaken(Front("Terminal")))
        /\ Front("Terminal") # Null
    BY <1>2 DEF RunDesktop, InLoop
  <2>2. loop \in Loop
    BY <2>1, MeFacts DEF IInv, Loop
  <2> HIDE DEF loop
  <2>3. frames \in Seq(Loop) /\ Len(frames) \in 1 .. Len(frames)
    BY <2>1, MeFacts DEF IInv, LoopsInv
  <2>4. outer \in Seq(Loop)
    BY <2>2, <2>3, ExceptSeq
  <2> HIDE DEF outer
  <2>5. LineTaken(Front("Terminal")) \in [Object -> Block]
    BY <2>1, FrontFacts, LineFacts DEF IInv, ListsInv
  <2>6. QED
    BY <2>1, <2>4, <2>5, EnterFacts
<1>3. QED
  BY <1>1, <1>2

-----------------------------------------------------------------------------
LEMMA InitInv == Init => IInv
<1> SUFFICES ASSUME Init PROVE IInv
  OBVIOUS
<1>1. ListsInv
  <2>1. Permutes(<< >>, 0)
    BY DEF Permutes
  <2>2. Ordered(<< >>)
    BY <2>1, OrderedIf, DesktopAssumption
  <2>3. object \in [Object -> Block]
    BY BlankIsBlock DEF Init
  <2>4. windows \in WindowsType
    BY DEF Init, WindowsType, Kinds
  <2>5. QED
    BY <2>2, <2>3, <2>4 DEF Init, ListsInv
<1>2. FilesInv /\ MenusInv
  <2>1. 0 \in Contents
    BY DesktopAssumption DEF Contents
  <2>2. FilesInv
    BY <2>1 DEF Init, FilesInv
  <2>3. MenusInv
    BY Zenon DEF Init, MenusInv
  <2>4. QED
    BY <2>2, <2>3
<1>3. LoopsInv
  <2>1. << >> \in Seq(Loop)
    OBVIOUS
  <2>2. 0 \in 0 .. MaxSessions
    BY DesktopAssumption
  <2>3. QED
    BY <2>1, <2>2, Zenon DEF Init, LoopsInv
<1>4. QED
  BY <1>1, <1>2, <1>3 DEF IInv

LEMMA NextInv == IInv /\ [Next]_vars => IInv'
<1> SUFFICES ASSUME IInv, [Next]_vars PROVE IInv'
  OBVIOUS
<1>1. CASE UNCHANGED vars
  BY <1>1 DEF vars, IInv, ListsInv, Ordered, FilesInv, MenusInv, LoopsInv
<1>2. CASE Next
  BY <1>2, EnterInv, ReturnInv, PointerInv, WindowInv, PickInv, OpenFileInv,
     OpenDirectoryInv, KeyInv DEF Next
<1>3. QED
  BY <1>1, <1>2

THEOREM Invariance == Spec => []IInv
BY InitInv, NextInv, PTL DEF Spec

\* However many windows are opened, raised and closed, and in whatever calls of
\* desktop(), z_order names each slot in use once and every index kept is one of
\* windows[] (window.c's close_window, bring_to_front and spawn_window).
THEOREM SlotsStayDense == Spec => []WellFormed
<1>1. IInv => WellFormed
  <2> SUFFICES ASSUME IInv PROVE WellFormed
    OBVIOUS
  <2>1. TypeOK
    BY DEF IInv, ListsInv, WindowsType, Ordered, FilesInv, MenusInv, LoopsInv,
           TypeOK, count
  <2>2. Permutes(z_order, count) /\ count \in 0 .. MaxWindows
    BY LiveFacts DEF IInv, ListsInv, Ordered, count
  <2>3. OrderIsDense
    <3>1. /\ DOMAIN z_order = 1 .. count
          /\ \A p \in 1 .. count : z_order[p] \in 0 .. count - 1
          /\ \A i \in 0 .. count - 1 : \E p \in 1 .. count : z_order[p] = i
      BY <2>2 DEF Permutes
    <3>2. QED
      BY <3>1 DEF OrderIsDense, Live
  <2>4. QED
    BY <2>1, <2>3 DEF WellFormed
<1>2. QED
  BY <1>1, Invariance, PTL

-----------------------------------------------------------------------------
(***************************************************************************)
(* The drag.  A window can only be closed by a click, and a click needs a  *)
(* button that was up; the invariant adds that a turn which begins with    *)
(* the button up has no drag.                                              *)
(***************************************************************************)
DragInv ==
  frames # << >> /\ ~resumed =>
    /\ me.dragging \in Live \cup {NoSlot}
    /\ me.phase = "poll" /\ ~me.pressed => me.dragging = NoSlot

\* The locals of the call that runs, after they have been set.
LEMMA MeAfter ==
  ASSUME LoopsInv, frames # << >>, NEW loop \in Loop, SetLoop(loop)
  PROVE  me' = loop
<1>1. frames \in Seq(Loop) /\ Len(frames) \in 1 .. Len(frames)
  BY MeFacts DEF LoopsInv
<1>2. frames' = [frames EXCEPT ![Len(frames)] = loop]
  BY DEF SetLoop
<1>3. Len(frames') = Len(frames) /\ frames'[Len(frames)] = loop
  BY <1>1, <1>2, ExceptSeq
<1>4. QED
  BY <1>3 DEF me

LEMMA ClickDrag ==
  ASSUME IInv, DragInv, NEW consumed \in BOOLEAN, NEW body \in Slot \cup {NoSlot},
         Click(consumed, body)
  PROVE  DragInv'
<1> DEFINE loop == [me EXCEPT !.phase = "key", !.pressed = TRUE,
                              !.consumed = consumed, !.body = body]
<1>1. /\ frames # << >> /\ me.phase = "poll" /\ ~me.pressed
      /\ SetLoop(loop) /\ UNCHANGED resumed
  BY DEF Click, InLoop
<1>2. me \in Loop
  BY <1>1, MeFacts DEF IInv
<1>3. loop \in Loop /\ loop.dragging = me.dragging /\ loop.phase = "key"
  BY <1>2 DEF Loop
<1> HIDE DEF loop
<1>4. me' = loop
  BY <1>1, <1>3, MeAfter DEF IInv
<1>5. ~resumed => me.dragging = NoSlot
  BY <1>1 DEF DragInv
<1>6. QED
  BY <1>1, <1>3, <1>4, <1>5 DEF DragInv

LEMMA NoClickDrag == ASSUME IInv, DragInv, NoClick PROVE DragInv'
<1>1. frames # << >> /\ UNCHANGED <<z_order, resumed>>
  BY DEF NoClick, InLoop, screenVars
<1>2. PICK pressed \in {FALSE, me.pressed} :
        SetLoop([me EXCEPT !.phase = "key", !.pressed = pressed])
  BY DEF NoClick
<1> DEFINE loop == [me EXCEPT !.phase = "key", !.pressed = pressed]
<1>3. SetLoop(loop)
  BY <1>2
<1>4. me \in Loop
  BY <1>1, MeFacts DEF IInv
<1>5. loop \in Loop /\ loop.dragging = me.dragging /\ loop.phase = "key"
  BY <1>4 DEF Loop
<1> HIDE DEF loop
<1>6. me' = loop
  BY <1>1, <1>3, <1>5, MeAfter DEF IInv
<1>7. ~resumed => me.dragging \in Live \cup {NoSlot}
  BY <1>1 DEF DragInv
<1>8. Live' = Live
  BY <1>1 DEF Live, count
<1>9. QED
  BY <1>1, <1>5, <1>6, <1>7, <1>8 DEF DragInv

LEMMA EndTurnDrag ==
  ASSUME IInv, DragInv, frames # << >>, EndTurn, UNCHANGED resumed
  PROVE  DragInv'
<1>1. PICK t \in {NoSlot} \cup
                  (IF me.pressed /\ me.dragging = NoSlot /\ ~me.consumed
                   THEN Live \ {me.body} ELSE {}) :
        LET z     == BringToFront(z_order, t)
            front == IF count = 0 THEN NoSlot ELSE z[count]
        IN  /\ z_order' = z
            /\ SetLoop([me EXCEPT !.phase = "poll", !.dragging = Dragged(t),
                                  !.consumed = FALSE, !.body = NoSlot,
                                  !.lastTop = front])
  BY DEF EndTurn
<1> DEFINE z     == BringToFront(z_order, t)
           front == IF count = 0 THEN NoSlot ELSE z[count]
           loop  == [me EXCEPT !.phase = "poll", !.dragging = Dragged(t),
                               !.consumed = FALSE, !.body = NoSlot,
                               !.lastTop = front]
<1>2. z_order' = z /\ SetLoop(loop)
  BY <1>1
<1>3. t \in Live \cup {NoSlot} /\ count \in 0 .. MaxWindows /\ Live \subseteq Slot
  BY LiveFacts DEF IInv
<1>4. Ordered(z) /\ Len(z) = count
  BY RaiseOrdered DEF IInv, ListsInv, count
<1> HIDE DEF z
<1>5. Live' = Live
  BY <1>2, <1>4 DEF Live, count
<1>6. front \in Slot \cup {NoSlot}
  <2>1. z \in Seq(Slot)
    BY <1>4 DEF Ordered
  <2>2. count # 0 => z[count] \in Slot
    BY <1>3, <1>4, <2>1, DesktopAssumption
  <2>3. QED
    BY <2>2
<1> HIDE DEF front
<1>7. me \in Loop
  BY MeFacts DEF IInv
<1>8. Dragged(t) \in Slot \cup {NoSlot}
  BY <1>3, <1>7 DEF Dragged, Loop
<1>9. loop \in Loop /\ loop.dragging = Dragged(t) /\ loop.pressed = me.pressed
  BY <1>6, <1>7, <1>8 DEF Loop
<1> HIDE DEF loop
<1>10. me' = loop
  BY <1>2, <1>9, MeAfter DEF IInv
<1>11. ~me.pressed => Dragged(t) = NoSlot
  BY <1>1 DEF Dragged
<1>12. ~resumed => Dragged(t) \in Live \cup {NoSlot}
  BY <1>3 DEF Dragged, DragInv
<1>13. QED
  BY <1>5, <1>9, <1>10, <1>11, <1>12 DEF DragInv

\* The locals of a call of desktop() that has got its buffer.
LEMMA EnterMe ==
  ASSUME IInv, StartDesktop \/ RunDesktop, NewObject("Screen") # Null
  PROVE  /\ frames' # << >>
         /\ me' = [phase |-> "poll", screen |-> NewObject("Screen"), pressed |-> FALSE,
                   consumed |-> FALSE, body |-> NoSlot, dragging |-> NoSlot,
                   lastTop |-> 0]
<1> DEFINE loop(o) == [phase |-> "poll", screen |-> o, pressed |-> FALSE,
                       consumed |-> FALSE, body |-> NoSlot, dragging |-> NoSlot,
                       lastTop |-> 0]
           last    == loop(NewObject("Screen"))
<1>1. \E outer \in Seq(Loop) : frames' = Append(outer, last)
  <2>1. CASE StartDesktop
    BY <2>1 DEF StartDesktop, EnterDesktop, IInv, LoopsInv
  <2>2. CASE RunDesktop
    <3> DEFINE inner == [me EXCEPT !.phase = "resume", !.body = NoSlot]
               outer == [frames EXCEPT ![Len(frames)] = inner]
    <3>1. frames # << >> /\ frames' = Append(outer, last)
      BY <2>2 DEF RunDesktop, EnterDesktop, InLoop
    <3>2. inner \in Loop
      BY <3>1, MeFacts DEF IInv, Loop
    <3> HIDE DEF inner
    <3>3. frames \in Seq(Loop) /\ Len(frames) \in 1 .. Len(frames)
      BY <3>1, MeFacts DEF IInv, LoopsInv
    <3>4. outer \in Seq(Loop)
      BY <3>2, <3>3, ExceptSeq
    <3>5. QED
      BY <3>1, <3>4
  <2>3. QED
    BY <2>1, <2>2
<1>2. PICK outer \in Seq(Loop) : frames' = Append(outer, last)
  BY <1>1
<1> HIDE DEF last
<1>3. frames'[Len(frames')] = last /\ Len(frames') = Len(outer) + 1
  BY <1>2
<1>4. frames' # << >>
  BY <1>3
<1>5. QED
  BY <1>3, <1>4 DEF me, last

LEMMA EnterDrag ==
  ASSUME IInv, DragInv, StartDesktop \/ RunDesktop PROVE DragInv'
<1>1. UNCHANGED resumed
  BY DEF StartDesktop, RunDesktop, EnterDesktop
<1>2. CASE NewObject("Screen") = Null
  <2>1. CASE StartDesktop
    BY <1>2, <2>1 DEF StartDesktop, EnterDesktop, DragInv
  <2>2. CASE RunDesktop
    <3> DEFINE loop == [me EXCEPT !.phase = "resume", !.body = NoSlot]
    <3>1. frames # << >> /\ SetLoop(loop) /\ UNCHANGED z_order
      BY <1>2, <2>2 DEF RunDesktop, EnterDesktop, InLoop, SetLoop
    <3>2. me \in Loop
      BY <3>1, MeFacts DEF IInv
    <3>3. loop \in Loop /\ loop.dragging = me.dragging /\ loop.phase = "resume"
      BY <3>2 DEF Loop
    <3> HIDE DEF loop
    <3>4. me' = loop
      BY <3>1, <3>3, MeAfter DEF IInv
    <3>5. Live' = Live
      BY <3>1 DEF Live, count
    <3>6. QED
      BY <1>1, <3>1, <3>3, <3>4, <3>5 DEF DragInv
  <2>3. QED
    BY <2>1, <2>2
<1>3. CASE NewObject("Screen") # Null
  <2>1. me'.dragging = NoSlot
    BY <1>3, EnterMe
  <2>2. QED
    BY <2>1 DEF DragInv
<1>4. QED
  BY <1>2, <1>3

LEMMA ReturnDrag == ASSUME IInv, DragInv, ReturnToShell PROVE DragInv'
<1>1. /\ frames # << >> /\ frames' = SubSeq(frames, 1, Len(frames) - 1)
      /\ resumed' = (resumed \/ Len(frames) > 1)
  BY DEF ReturnToShell, InLoop
<1>2. frames \in Seq(Loop) /\ Len(frames) \in 1 .. Len(frames)
  BY <1>1, MeFacts DEF IInv, LoopsInv
<1>3. CASE Len(frames) > 1
  BY <1>1, <1>3 DEF DragInv
<1>4. CASE ~(Len(frames) > 1)
  <2> DEFINE n == Len(frames)
  <2>1. n = 1
    <3>1. n \in Nat /\ n # 0
      BY <1>1, <1>2, EmptySeq
    <3>2. ~(n > 1)
      BY <1>4
    <3> HIDE DEF n
    <3>3. QED
      BY <3>1, <3>2
  <2>2. frames' = << >>
    BY <1>1, <2>1
  <2>3. QED
    BY <2>2 DEF DragInv
<1>5. QED
  BY <1>3, <1>4

LEMMA NextDrag == IInv /\ DragInv /\ [Next]_vars => DragInv'
<1> SUFFICES ASSUME IInv, DragInv, [Next]_vars PROVE DragInv'
  OBVIOUS
<1>1. CASE UNCHANGED vars
  BY <1>1 DEF vars, DragInv, me, Live, count
<1>2. CASE OpenTerminal \/ SelectWindow \/ ToggleStart \/ MissTaskbar \/ OpenFromStart
           \/ ToggleMenu \/ PickRow \/ ClickClose \/ ClickBody \/ ClickElsewhere
           \/ OpenFile \/ OpenDirectory
  <2>1. PICK consumed \in BOOLEAN, body \in Live \cup {NoSlot} : Click(consumed, body)
    BY <1>2 DEF OpenTerminal, SelectWindow, ToggleStart, MissTaskbar, OpenFromStart,
                ToggleMenu, PickRow, ClickClose, ClickBody, ClickElsewhere, OpenFile,
                OpenDirectory, ClickBelow, FilesWindows
  <2>2. body \in Slot \cup {NoSlot}
    BY LiveFacts DEF IInv
  <2>3. QED
    BY <2>1, <2>2, ClickDrag
<1>3. CASE NoKey \/ EditKey \/ PromptKey \/ TypeKey \/ RunCommand \/ Resume
  <2>1. frames # << >> /\ EndTurn /\ UNCHANGED resumed
    BY <1>3 DEF NoKey, EditKey, PromptKey, TypeKey, RunCommand, Resume, Key, InLoop
  <2>2. QED
    BY <2>1, EndTurnDrag
<1>4. QED
  BY <1>1, <1>2, <1>3, NoClickDrag, EnterDrag, ReturnDrag DEF Next

\* desktop() keeps the slot number of the window that is dragged while others
\* come and go, and it stays the number of a window (window.c's dragging_index
\* against close_window).
THEOREM DragStaysLive == Spec => []DragIsLive
<1>1. Init => DragInv
  BY DEF Init, DragInv
<1>2. IInv /\ DragInv => DragIsLive
  BY DEF DragInv, DragIsLive
<1>3. QED
  BY <1>1, <1>2, NextDrag, Invariance, PTL DEF Spec

-----------------------------------------------------------------------------
(***************************************************************************)
(* The blocks.  A live window has a title of its own, its block is of its  *)
(* application, a call of desktop() draws with a block of its own, and     *)
(* before a second call no block of an application is without a window.    *)
(***************************************************************************)
Owned(w, n, b) ==
  /\ \A i, j \in 0 .. n - 1 : w[i].app = w[j].app => i = j
  /\ \A i \in 0 .. n - 1 : w[i].state # Null => b[w[i].state].kind = w[i].app
  /\ \A o \in Object : b[o].kind = "free" => ~b[o].dirty
NoneLost(w, n, b) ==
  \A o \in Object : b[o].kind \in Stateful => \E i \in 0 .. n - 1 : w[i].state = o
Screens(b, f) ==
  /\ \A g, h \in 1 .. Len(f) : f[g].screen = f[h].screen => g = h
  /\ \A o \in Object :
       b[o].kind = "Screen" <=> \E g \in 1 .. Len(f) : f[g].screen = o

OwnInv ==
  /\ Owned(windows, count, object)
  /\ sessions <= 1 => NoneLost(windows, count, object)
  /\ Screens(object, frames)
  /\ sessions = 0 => z_order = << >> /\ frames = << >>

\* Blocks that change without changing hands; a free one has no document.
SameKinds(b, c) ==
  \A o \in Object : /\ c[o].kind = b[o].kind
                    /\ c[o].kind = "free" /\ ~b[o].dirty => ~c[o].dirty
SameScreens(f, g) ==
  Len(g) = Len(f) /\ \A i \in 1 .. Len(f) : g[i].screen = f[i].screen

\* What a step without opening, closing, entering and leaving does.
Raised ==
  /\ UNCHANGED windows
  /\ SameKinds(object, object')
  /\ \E idx \in Live \cup {NoSlot} : z_order' = BringToFront(z_order, idx)

LEMMA RaiseNone ==
  ASSUME ListsInv PROVE BringToFront(z_order, NoSlot) = z_order
<1>1. \A p \in DOMAIN z_order : z_order[p] # NoSlot
  <2>1. z_order \in [1 .. Len(z_order) -> Slot]
    BY DEF ListsInv, Ordered
  <2>2. QED
    BY <2>1, DesktopAssumption DEF Slot, NoSlot
<1>2. QED
  BY <1>1 DEF BringToFront

LEMMA FrontKind ==
  ASSUME IInv, OwnInv, NEW app, Front(app) # Null
  PROVE  /\ Front(app) \in Object /\ object[Front(app)] \in Block
         /\ object[Front(app)].kind = app /\ app \in Kinds
         /\ top \in Live /\ windows[top].app = app /\ Front(app) = windows[top].state
<1>1. top # NoSlot /\ windows[top].app = app /\ Front(app) = windows[top].state
  BY DEF Front
<1>2. top \in Live /\ top \in Slot
  BY <1>1, LiveFacts DEF IInv
<1>3. windows[top].app \in Kinds /\ windows[top].state \in Object \cup {Null}
  BY <1>2 DEF IInv, ListsInv, WindowsType
<1>4. object[windows[top].state].kind = windows[top].app
  BY <1>1, <1>2 DEF OwnInv, Owned, Live
<1>5. QED
  BY <1>1, <1>2, <1>3, <1>4 DEF IInv, ListsInv

LEMMA PickKinds ==
  ASSUME IInv, PickRow
  PROVE  SameKinds(object, object')
<1> DEFINE o == IF focusWin = NoSlot THEN Null ELSE windows[focusWin].state
<1>1. PICK row \in DOMAIN items :
        IF o = Null
        THEN UNCHANGED <<object, files>>
        ELSE IF items[row] = "SaveAs" \/ object[o].name = NoName
        THEN /\ object' = [object EXCEPT ![o] = Prompting(object[o])]
             /\ UNCHANGED files
        ELSE \E write \in Writes(object[o].name, object[o].text) :
               /\ files' = write.files
               /\ object' = [object EXCEPT ![o] =
                               Saved(object[o], object[o].name, write)]
  BY DEF PickRow
<1>2. o \in Object \cup {Null} /\ object \in [Object -> Block]
  BY DEF IInv, MenusInv, ListsInv, WindowsType
<1> HIDE DEF o
<1>3. CASE UNCHANGED object
  BY <1>3 DEF SameKinds
<1>4. ASSUME o # Null, NEW doc, object' = [object EXCEPT ![o] = doc],
             doc = Prompting(object[o]) \/ \E write, name : doc = Saved(object[o], name, write)
      PROVE  SameKinds(object, object')
  <2>1. object[o] \in Block /\ o \in Object
    BY <1>2, <1>4
  <2>2. doc.kind = object[o].kind /\ (doc.dirty => object[o].dirty)
    BY <1>4, <2>1 DEF Prompting, Saved, Block
  <2>3. QED
    BY <1>2, <1>4, <2>1, <2>2 DEF SameKinds
<1>5. QED
  BY <1>1, <1>3, <1>4

LEMMA KeyKinds ==
  ASSUME IInv, OwnInv, NoKey \/ EditKey \/ PromptKey \/ TypeKey \/ RunCommand \/ Resume
  PROVE  SameKinds(object, object')
<1>1. CASE NoKey \/ Resume
  BY <1>1 DEF NoKey, Resume, SameKinds
<1>2. CASE EditKey
  <2> DEFINE o == Front("TextEdit")
  <2>1. o # Null /\ \E doc \in Edits(object[o]) : object' = [object EXCEPT ![o] = doc]
    BY <1>2 DEF EditKey
  <2>2. o \in Object /\ object[o] \in Block /\ object[o].kind = "TextEdit"
    BY <2>1, FrontKind
  <2> HIDE DEF o
  <2>3. PICK doc \in Edits(object[o]) : object' = [object EXCEPT ![o] = doc]
    BY <2>1
  <2>4. doc.kind = object[o].kind
    BY <2>2 DEF Edits, Block
  <2>5. QED
    BY <2>2, <2>3, <2>4 DEF SameKinds, IInv, ListsInv
<1>3. CASE PromptKey
  <2> DEFINE o == Front("TextEdit")
  <2>1. /\ o # Null
        /\ \/ object' = [object EXCEPT ![o].prompt = FALSE]
           \/ \E name, write :
                object' = [object EXCEPT ![o] =
                     [Saved(object[o], name, write) EXCEPT !.prompt = FALSE]]
    BY <1>3 DEF PromptKey
  <2>2. o \in Object /\ object[o] \in Block /\ object \in [Object -> Block]
    BY <2>1, FrontKind DEF IInv, ListsInv
  <2> HIDE DEF o
  <2>3. CASE object' = [object EXCEPT ![o].prompt = FALSE]
    BY <2>2, <2>3 DEF SameKinds, Block
  <2>4. ASSUME NEW name, NEW write,
               object' = [object EXCEPT ![o] =
                     [Saved(object[o], name, write) EXCEPT !.prompt = FALSE]]
        PROVE  SameKinds(object, object')
    <3> DEFINE doc == [Saved(object[o], name, write) EXCEPT !.prompt = FALSE]
    <3>1. doc.kind = object[o].kind /\ (doc.dirty => object[o].dirty)
      BY <2>2 DEF Saved, Block
    <3>2. object' = [object EXCEPT ![o] = doc]
      BY <2>4
    <3> HIDE DEF doc
    <3>3. QED
      BY <2>2, <3>1, <3>2 DEF SameKinds
  <2>5. QED
    BY <2>1, <2>3, <2>4
<1>4. CASE TypeKey \/ RunCommand
  <2> DEFINE o == Front("Terminal")
  <2>1. o # Null /\ \E text : object' = [object EXCEPT ![o].text = text]
    BY <1>4 DEF TypeKey, RunCommand, LineTaken
  <2>2. o \in Object /\ object[o] \in Block /\ object \in [Object -> Block]
    BY <2>1, FrontKind DEF IInv, ListsInv
  <2> HIDE DEF o
  <2>3. QED
    BY <2>1, <2>2 DEF SameKinds, Block
<1>5. QED
  BY <1>1, <1>2, <1>3, <1>4

LEMMA RaisedSteps ==
  ASSUME IInv, OwnInv,
         \/ NoClick \/ SelectWindow \/ ToggleStart \/ MissTaskbar \/ ToggleMenu
         \/ PickRow \/ ClickBody \/ ClickElsewhere \/ OpenDirectory
         \/ NoKey \/ EditKey \/ PromptKey \/ TypeKey \/ RunCommand \/ Resume
  PROVE  Raised
<1>1. SameKinds(object, object)
  BY DEF SameKinds
<1>2. ListsInv /\ \A i \in 1 .. count : z_order[i] \in Live
  BY DEF IInv, ListsInv, Ordered, Permutes, count, Live
<1>3. CASE NoClick \/ ToggleStart \/ MissTaskbar \/ ToggleMenu \/ ClickElsewhere
  BY <1>1, <1>2, <1>3, RaiseNone
     DEF NoClick, ToggleStart, MissTaskbar, ToggleMenu, ClickElsewhere, screenVars, Raised
<1>4. CASE PickRow
  BY <1>2, <1>4, RaiseNone, PickKinds DEF PickRow, Raised
<1>5. CASE SelectWindow
  <2>1. PICK i \in 1 .. (IF count > 3 THEN 2 ELSE count) :
          z_order' = BringToFront(z_order, z_order[i])
    BY <1>5 DEF SelectWindow
  <2>2. i \in 1 .. count
    BY <1>2, LiveFacts, DesktopAssumption
  <2>3. QED
    BY <1>1, <1>2, <1>5, <2>1, <2>2 DEF SelectWindow, Raised
<1>6. CASE ClickBody \/ OpenDirectory
  BY <1>1, <1>6 DEF ClickBody, OpenDirectory, FilesWindows, Raised
<1>7. CASE NoKey \/ EditKey \/ PromptKey \/ TypeKey \/ RunCommand \/ Resume
  <2>1. SameKinds(object, object') /\ UNCHANGED windows
    BY <1>7, KeyKinds DEF NoKey, EditKey, PromptKey, TypeKey, RunCommand, Resume, Key
  <2>2. EndTurn
    BY <1>7 DEF NoKey, EditKey, PromptKey, TypeKey, RunCommand, Resume, Key
  <2>3. \E idx \in Live \cup {NoSlot} : z_order' = BringToFront(z_order, idx)
    BY <2>2 DEF EndTurn
  <2>4. QED
    BY <2>1, <2>3 DEF Raised
<1>8. QED
  BY <1>3, <1>4, <1>5, <1>6, <1>7

-----------------------------------------------------------------------------
(***************************************************************************)
(* How the loops keep their buffers                                        *)
(***************************************************************************)
LEMMA SetLoopScreens ==
  ASSUME LoopsInv, frames # << >>, NEW loop, loop.screen = me.screen, SetLoop(loop)
  PROVE  SameScreens(frames, frames')
<1>1. /\ frames \in Seq(Loop) /\ Len(frames) \in 1 .. Len(frames)
      /\ frames' = [frames EXCEPT ![Len(frames)] = loop]
      /\ frames[Len(frames)].screen = loop.screen
  BY MeFacts DEF LoopsInv, SetLoop, me
<1> DEFINE n == Len(frames)
<1>2. /\ n \in Nat /\ frames \in [1 .. n -> Loop]
      /\ Len(frames') = n /\ DOMAIN frames' = 1 .. n
  BY <1>1
<1> HIDE DEF n
<1>3. \A i \in 1 .. n : frames'[i].screen = frames[i].screen
  BY <1>1, <1>2 DEF n
<1>4. QED
  BY <1>2, <1>3 DEF SameScreens, n

\* Every click, and the end of every turn.
LEMMA TurnScreens ==
  ASSUME IInv,
         \/ NoClick \/ OpenTerminal \/ SelectWindow \/ ToggleStart \/ MissTaskbar
         \/ OpenFromStart \/ ToggleMenu \/ PickRow \/ ClickClose \/ ClickBody
         \/ ClickElsewhere \/ OpenFile \/ OpenDirectory
         \/ NoKey \/ EditKey \/ PromptKey \/ TypeKey \/ RunCommand \/ Resume
  PROVE  /\ SameScreens(frames, frames') /\ UNCHANGED sessions /\ frames # << >>
         /\ UNCHANGED resumed
<1>1. CASE NoClick
  <2>1. frames # << >> /\ UNCHANGED <<sessions, resumed>>
    BY <1>1 DEF NoClick, InLoop
  <2>2. PICK pressed \in {FALSE, me.pressed} :
          SetLoop([me EXCEPT !.phase = "key", !.pressed = pressed])
    BY <1>1 DEF NoClick
  <2>3. me \in Loop
    BY <2>1, MeFacts DEF IInv
  <2>4. [me EXCEPT !.phase = "key", !.pressed = pressed].screen = me.screen
    BY <2>3 DEF Loop
  <2>5. QED
    BY <2>1, <2>2, <2>4, SetLoopScreens DEF IInv
<1>2. CASE OpenTerminal \/ SelectWindow \/ ToggleStart \/ MissTaskbar \/ OpenFromStart
           \/ ToggleMenu \/ PickRow \/ ClickClose \/ ClickBody \/ ClickElsewhere
           \/ OpenFile \/ OpenDirectory
  <2>1. PICK consumed, body : Click(consumed, body)
    BY <1>2 DEF OpenTerminal, SelectWindow, ToggleStart, MissTaskbar, OpenFromStart,
                ToggleMenu, PickRow, ClickClose, ClickBody, ClickElsewhere, OpenFile,
                OpenDirectory, ClickBelow
  <2> DEFINE loop == [me EXCEPT !.phase = "key", !.pressed = TRUE,
                                !.consumed = consumed, !.body = body]
  <2>2. frames # << >> /\ UNCHANGED <<sessions, resumed>> /\ SetLoop(loop)
    BY <2>1 DEF Click, InLoop
  <2>3. loop.screen = me.screen
    BY <2>2, MeFacts DEF IInv, Loop
  <2>4. QED
    BY <2>2, <2>3, SetLoopScreens DEF IInv
<1>3. CASE NoKey \/ EditKey \/ PromptKey \/ TypeKey \/ RunCommand \/ Resume
  <2>1. EndTurn /\ frames # << >> /\ UNCHANGED <<sessions, resumed>>
    BY <1>3 DEF NoKey, EditKey, PromptKey, TypeKey, RunCommand, Resume, Key, InLoop
  <2>2. PICK t, front :
          SetLoop([me EXCEPT !.phase = "poll", !.dragging = Dragged(t),
                             !.consumed = FALSE, !.body = NoSlot, !.lastTop = front])
    BY <2>1 DEF EndTurn
  <2>3. [me EXCEPT !.phase = "poll", !.dragging = Dragged(t), !.consumed = FALSE,
                   !.body = NoSlot, !.lastTop = front].screen = me.screen
    BY <2>1, MeFacts DEF IInv, Loop
  <2>4. QED
    BY <2>1, <2>2, <2>3, SetLoopScreens DEF IInv
<1>4. QED
  BY <1>1, <1>2, <1>3

-----------------------------------------------------------------------------
(***************************************************************************)
(* How the lists keep their blocks                                         *)
(***************************************************************************)
LEMMA OwnedSame ==
  ASSUME NEW w \in WindowsType, NEW n \in 0 .. MaxWindows, NEW b, NEW c,
         Owned(w, n, b), SameKinds(b, c)
  PROVE  Owned(w, n, c) /\ (NoneLost(w, n, b) => NoneLost(w, n, c))
<1>1. 0 .. n - 1 \subseteq Slot
  BY DesktopAssumption DEF Slot
<1>2. \A i \in 0 .. n - 1 : w[i].state \in Object \cup {Null}
  BY <1>1 DEF WindowsType
<1>3. QED
  BY <1>1, <1>2 DEF Owned, NoneLost, SameKinds

LEMMA ScreensSame ==
  ASSUME NEW b, NEW c, NEW f, NEW g, Screens(b, f),
         \A o \in Object : c[o].kind = "Screen" <=> b[o].kind = "Screen",
         SameScreens(f, g)
  PROVE  Screens(c, g)
BY DEF Screens, SameScreens

LEMMA RaisedOwn ==
  ASSUME IInv, OwnInv, Raised, UNCHANGED sessions, SameScreens(frames, frames'),
         frames # << >>
  PROVE  OwnInv'
<1>1. count' = count /\ count \in 0 .. MaxWindows
  BY RaiseOrdered, LiveFacts DEF Raised, IInv, ListsInv, count
<1>2. windows \in WindowsType /\ SameKinds(object, object') /\ UNCHANGED windows
  BY DEF IInv, ListsInv, Raised
<1>3. Owned(windows, count, object') /\ (sessions <= 1 => NoneLost(windows, count, object'))
  BY <1>1, <1>2, OwnedSame DEF OwnInv
<1>4. Screens(object', frames')
  BY <1>2, ScreensSame DEF OwnInv, SameKinds
<1>5. QED
  BY <1>1, <1>2, <1>3, <1>4 DEF OwnInv

\* kmalloc gives a block that is nobody's.
LEMMA NewObjectFree ==
  ASSUME NEW kind \in {"Screen"} \cup Stateful, NewObject(kind) # Null
  PROVE  /\ NewObject(kind) \in Object
         /\ object[NewObject(kind)].kind = "free"
<1> DEFINE used == {o \in Object : object[o].kind # "free"}
           free == {n \in 1 .. MaxSessions : <<kind, n>> \notin used}
           least == CHOOSE n \in free : \A m \in free : n <= m
<1>1. NewObject(kind) = IF free = {} \/ Cardinality(used) >= MaxBlocks THEN Null
                        ELSE <<kind, least>>
  BY DEF NewObject
<1>2. free # {} /\ NewObject(kind) = <<kind, least>>
  BY <1>1
<1>3. free \subseteq Nat
  BY DesktopAssumption
<1>4. least \in free
  <2>1. \E n \in free : \A m \in free : n <= m
    <3> HIDE DEF free
    <3>1. QED
      BY <1>2, <1>3, LeastNat
  <2> HIDE DEF free
  <2>2. QED
    BY <2>1
<1>5. NewObject(kind) \in Object
  BY NewObjectFacts
<1>6. NewObject(kind) \notin used
  BY <1>2, <1>4
<1>7. QED
  BY <1>5, <1>6

\* find_window_by_title
LEMMA FindMeans ==
  ASSUME ListsInv, NEW app
  PROVE  /\ Find(app) = NoSlot => \A i \in Live : windows[i].app # app
         /\ Find(app) # NoSlot => Find(app) \in Live /\ windows[Find(app)].app = app
<1> DEFINE at == {i \in Live : windows[i].app = app}
<1>1. at \subseteq Live /\ Live \subseteq Nat
  BY LiveFacts, DesktopAssumption DEF Live
<1>2. CASE at = {}
  BY <1>2 DEF Find
<1>3. CASE at # {}
  <2>1. \E i \in at : \A j \in at : i <= j
    <3> HIDE DEF at
    <3>1. QED
      BY <1>1, <1>3, LeastNat
  <2>2. (CHOOSE i \in at : \A j \in at : i <= j) \in at
    BY <2>1
  <2>3. Find(app) \in at
    BY <1>3, <2>2 DEF Find
  <2>4. NoSlot \notin at
    BY <1>1 DEF NoSlot
  <2>5. QED
    BY <2>3, <2>4
<1>4. QED
  BY <1>2, <1>3

\* What opening leaves: the window of the application, with a block that is its
\* own, and everything else as it was.
LEMMA OpenedMeans ==
  ASSUME IInv, OwnInv, NEW app \in Apps
  PROVE  LET list == Opened(app)
             n    == Len(list.z_order)
         IN  /\ n \in 0 .. MaxWindows
             /\ \A i \in Live : list.windows[i] = windows[i]
             /\ list.slot # NoSlot => /\ list.slot \in 0 .. n - 1
                                      /\ list.windows[list.slot].app = app
             /\ \/ /\ list.slot \in Live \cup {NoSlot} /\ n = count
                   /\ list.windows = windows /\ list.object = object
                   /\ list.z_order = BringToFront(z_order, list.slot)
                \/ /\ list.slot = count /\ count < MaxWindows /\ n = count + 1
                   /\ list.z_order = Append(z_order, count)
                   /\ \A i \in Live : windows[i].app # app
                   /\ \/ /\ list.windows[count].state = Null
                         /\ list.object = object
                      \/ /\ app \in Stateful
                         /\ list.windows[count].state \in Object
                         /\ object[list.windows[count].state].kind = "free"
                         /\ list.object = [object EXCEPT
                              ![list.windows[count].state] = Blank(app)]
<1> DEFINE at == Find(app)
           o == IF app \in Stateful THEN NewObject(app) ELSE Null
           w == [windows EXCEPT ![count] = [app |-> app, state |-> o]]
           obj == IF o = Null THEN object ELSE [object EXCEPT ![o] = Blank(app)]
<1>1. /\ count \in 0 .. MaxWindows /\ count \in Nat /\ z_order \in Seq(Slot)
      /\ Len(z_order) = count
      /\ windows \in WindowsType /\ Ordered(z_order) /\ object \in [Object -> Block]
  BY LiveFacts, DesktopAssumption DEF IInv, ListsInv, Ordered, count
<1>2. at \in Live \cup {NoSlot}
  BY FindFacts DEF IInv
<1>3. o # Null => app \in Stateful /\ o \in Object /\ object[o].kind = "free"
  BY NewObjectFree
<1>4. /\ at = NoSlot => \A i \in Live : windows[i].app # app
      /\ at # NoSlot => windows[at].app = app
  BY FindMeans DEF IInv
<1> HIDE DEF at, o
<1>5. CASE at = NoSlot /\ count < MaxWindows
  <2>1. Opened(app) = [windows |-> w, z_order |-> Append(z_order, count),
                       object |-> obj, slot |-> count]
    BY <1>5 DEF Opened, at, o
  <2>2. count \in Slot /\ count \notin Live
    BY <1>1, <1>5, DesktopAssumption DEF Slot, Live
  <2>3. /\ w[count] = [app |-> app, state |-> o]
        /\ \A i \in Live : w[i] = windows[i]
    BY <1>1, <2>2 DEF WindowsType
  <2>4. Len(Append(z_order, count)) = count + 1
    BY <1>1
  <2>5. count + 1 \in 0 .. MaxWindows /\ count \in 0 .. (count + 1) - 1 /\ count # NoSlot
    BY <1>1, <1>5, DesktopAssumption DEF NoSlot
  <2>6. w[count].state = o /\ w[count].app = app
    BY <2>3
  <2>7. \/ o = Null /\ obj = object
        \/ /\ app \in Stateful /\ o \in Object /\ object[o].kind = "free"
           /\ obj = [object EXCEPT ![o] = Blank(app)]
    BY <1>3
  <2> HIDE DEF w, obj
  <2>8. QED
    BY <1>4, <1>5, <2>1, <2>3, <2>4, <2>5, <2>6, <2>7
<1>6. CASE ~(at = NoSlot /\ count < MaxWindows)
  <2>1. Opened(app) = [windows |-> windows, z_order |-> BringToFront(z_order, at),
                       object |-> object, slot |-> at]
    BY <1>6 DEF Opened, at
  <2>2. Len(BringToFront(z_order, at)) = count
    BY <1>1, RaiseOrdered
  <2>3. QED
    BY <1>1, <1>2, <1>4, <2>1, <2>2 DEF Live
<1>7. QED
  BY <1>5, <1>6

-----------------------------------------------------------------------------
\* A block that is nobody's goes to a window above the others.
LEMMA SpawnOwned ==
  ASSUME NEW w \in WindowsType, NEW n \in 0 .. MaxWindows - 1, NEW v,
         NEW b \in [Object -> Block], NEW app \in Apps, NEW c,
         Owned(w, n, b), \A i \in 0 .. n - 1 : v[i] = w[i] /\ w[i].app # app,
         v[n].app = app,
         \/ v[n].state = Null /\ c = b
         \/ /\ app \in Stateful /\ v[n].state \in Object
            /\ b[v[n].state].kind = "free" /\ c = [b EXCEPT ![v[n].state] = Blank(app)]
  PROVE  /\ Owned(v, n + 1, c)
         /\ NoneLost(w, n, b) => NoneLost(v, n + 1, c)
         /\ \A o \in Object : c[o].kind = "Screen" <=> b[o].kind = "Screen"
<1>1. /\ n \in Nat /\ \A i \in 0 .. n : i = n \/ i \in 0 .. n - 1
      /\ \A i \in 0 .. n - 1 : i \in 0 .. n /\ i # n
  BY DesktopAssumption
<1>2. (n + 1) - 1 = n /\ n \in 0 .. n
  BY <1>1
<1>3. \A i \in 0 .. n - 1 : i \in Slot /\ w[i].app \in Kinds /\ w[i].state \in Object \cup {Null}
  BY <1>1, DesktopAssumption DEF Slot, WindowsType
<1>4. /\ \A k \in Kinds : k # "free"
      /\ \A k \in Stateful : k # "free" /\ k # "Screen"
  BY DesktopAssumption DEF Kinds, Stateful
<1>5. CASE v[n].state = Null /\ c = b
  <2>1. Owned(v, n + 1, c)
    BY <1>1, <1>2, <1>5 DEF Owned
  <2>2. QED
    BY <1>1, <1>2, <1>5, <2>1 DEF NoneLost
<1>6. CASE /\ app \in Stateful /\ v[n].state \in Object
           /\ b[v[n].state].kind = "free" /\ c = [b EXCEPT ![v[n].state] = Blank(app)]
  <2> DEFINE o == v[n].state
  <2>1. /\ o \in Object /\ b[o].kind = "free" /\ app \in Stateful
        /\ c[o] = Blank(app) /\ \A q \in Object : q # o => c[q] = b[q]
    BY <1>6
  <2>2. c[o].kind = app /\ ~c[o].dirty
    BY <2>1 DEF Blank
  <2>3. \A i \in 0 .. n - 1 : w[i].state # o
    BY <1>3, <1>4, <2>1 DEF Owned, Null, Object
  <2> HIDE DEF o
  <2>4. Owned(v, n + 1, c)
    <3>1. \A i, j \in 0 .. n : v[i].app = v[j].app => i = j
      BY <1>1 DEF Owned
    <3>2. \A i \in 0 .. n - 1 : v[i].state # Null => c[v[i].state].kind = v[i].app
      BY <1>3, <2>1, <2>3 DEF Owned
    <3>3. v[n].state # Null => c[v[n].state].kind = v[n].app
      BY <2>2 DEF o
    <3>4. \A q \in Object : c[q].kind = "free" => ~c[q].dirty
      BY <2>1, <2>2 DEF Owned
    <3>5. QED
      BY <1>1, <1>2, <3>1, <3>2, <3>3, <3>4 DEF Owned
  <2>5. NoneLost(w, n, b) => NoneLost(v, n + 1, c)
    <3> SUFFICES ASSUME NoneLost(w, n, b), NEW q \in Object, c[q].kind \in Stateful
                 PROVE  \E i \in 0 .. n : v[i].state = q
      BY <1>2 DEF NoneLost
    <3>1. CASE q = o
      BY <1>2, <3>1 DEF o
    <3>2. CASE q # o
      BY <1>1, <2>1, <3>2 DEF NoneLost
    <3>3. QED
      BY <3>1, <3>2
  <2>6. \A q \in Object : c[q].kind = "Screen" <=> b[q].kind = "Screen"
    BY <1>4, <2>1, <2>2
  <2>7. QED
    BY <2>4, <2>5, <2>6
<1>7. QED
  BY <1>5, <1>6

LEMMA OpenedOwned ==
  ASSUME IInv, OwnInv, NEW app \in Apps
  PROVE  LET list == Opened(app)
             n    == Len(list.z_order)
         IN  /\ Owned(list.windows, n, list.object)
             /\ NoneLost(windows, count, object) => NoneLost(list.windows, n, list.object)
             /\ \A o \in Object : list.object[o].kind = "Screen" <=> object[o].kind = "Screen"
<1> DEFINE list == Opened(app)
           n    == Len(list.z_order)
<1>1. /\ n \in 0 .. MaxWindows
      /\ \A i \in Live : list.windows[i] = windows[i]
      /\ list.slot # NoSlot => /\ list.slot \in 0 .. n - 1
                               /\ list.windows[list.slot].app = app
      /\ \/ /\ list.slot \in Live \cup {NoSlot} /\ n = count
            /\ list.windows = windows /\ list.object = object
            /\ list.z_order = BringToFront(z_order, list.slot)
         \/ /\ list.slot = count /\ count < MaxWindows /\ n = count + 1
            /\ list.z_order = Append(z_order, count)
            /\ \A i \in Live : windows[i].app # app
            /\ \/ /\ list.windows[count].state = Null
                  /\ list.object = object
               \/ /\ app \in Stateful
                  /\ list.windows[count].state \in Object
                  /\ object[list.windows[count].state].kind = "free"
                  /\ list.object = [object EXCEPT
                       ![list.windows[count].state] = Blank(app)]
  BY OpenedMeans
<1>2. /\ windows \in WindowsType /\ object \in [Object -> Block]
      /\ count \in 0 .. MaxWindows /\ Owned(windows, count, object)
  BY LiveFacts DEF IInv, ListsInv, OwnInv
<1> HIDE DEF list, n
<1>3. CASE n = count /\ list.windows = windows /\ list.object = object
  BY <1>2, <1>3 DEF list, n
<1>4. CASE /\ list.slot = count /\ count < MaxWindows /\ n = count + 1
           /\ \A i \in Live : windows[i].app # app
           /\ \/ /\ list.windows[count].state = Null
                 /\ list.object = object
              \/ /\ app \in Stateful
                 /\ list.windows[count].state \in Object
                 /\ object[list.windows[count].state].kind = "free"
                 /\ list.object = [object EXCEPT
                      ![list.windows[count].state] = Blank(app)]
  <2>1. count \in 0 .. MaxWindows - 1 /\ count # NoSlot
    BY <1>2, <1>4, DesktopAssumption DEF NoSlot
  <2>2. list.windows[count].app = app
    BY <1>1, <1>4, <2>1
  <2>3. \A i \in 0 .. count - 1 : list.windows[i] = windows[i] /\ windows[i].app # app
    BY <1>1, <1>4 DEF Live
  <2>4. /\ Owned(list.windows, count + 1, list.object)
        /\ NoneLost(windows, count, object)
              => NoneLost(list.windows, count + 1, list.object)
        /\ \A o \in Object : list.object[o].kind = "Screen" <=> object[o].kind = "Screen"
    <3> DEFINE v == list.windows
               c == list.object
    <3>1. /\ \A i \in 0 .. count - 1 : v[i] = windows[i] /\ windows[i].app # app
          /\ v[count].app = app
          /\ \/ v[count].state = Null /\ c = object
             \/ /\ app \in Stateful /\ v[count].state \in Object
                /\ object[v[count].state].kind = "free"
                /\ c = [object EXCEPT ![v[count].state] = Blank(app)]
      BY <1>4, <2>2, <2>3
    <3> HIDE DEF v, c
    <3>2. /\ Owned(v, count + 1, c)
          /\ NoneLost(windows, count, object) => NoneLost(v, count + 1, c)
          /\ \A o \in Object : c[o].kind = "Screen" <=> object[o].kind = "Screen"
      BY <1>2, <2>1, <3>1, SpawnOwned
    <3>3. QED
      BY <3>2 DEF v, c
  <2>5. QED
    BY <1>4, <2>4 DEF list, n
<1>5. QED
  BY <1>1, <1>3, <1>4

LEMMA ShowOwn ==
  ASSUME IInv, OwnInv, OpenTerminal \/ OpenFromStart PROVE OwnInv'
<1>1. \E app \in Apps : Show(Opened(app))
  BY DEF OpenTerminal, OpenFromStart
<1>2. PICK app \in Apps : Show(Opened(app))
  BY <1>1
<1>3. SameScreens(frames, frames') /\ UNCHANGED sessions /\ frames # << >>
  BY TurnScreens
<1>4. /\ windows' = Opened(app).windows /\ object' = Opened(app).object
      /\ count' = Len(Opened(app).z_order)
  BY <1>2 DEF Show, count
<1>5. /\ Owned(windows', count', object')
      /\ NoneLost(windows, count, object) => NoneLost(windows', count', object')
      /\ \A o \in Object : object'[o].kind = "Screen" <=> object[o].kind = "Screen"
  BY <1>4, OpenedOwned
<1>6. Screens(object', frames')
  BY <1>3, <1>5, ScreensSame DEF OwnInv
<1>7. QED
  BY <1>3, <1>5, <1>6 DEF OwnInv

\* The editor is opened, or raised, over the window with the list of files.
LEMMA OpenFileCount ==
  ASSUME IInv, OwnInv, OpenFile
  PROVE  /\ windows' = Opened("TextEdit").windows
         /\ count' = Len(Opened("TextEdit").z_order)
<1>1. PICK idx \in FilesWindows :
        /\ "TextEdit" \in Apps
        /\ LET list  == Opened("TextEdit")
               under == BringToFront(z_order, idx)
           IN  /\ windows' = list.windows
               /\ z_order' = IF list.slot \in Live THEN BringToFront(under, list.slot)
                             ELSE IF list.slot = NoSlot THEN under
                             ELSE Append(under, list.slot)
  BY DEF OpenFile
<1> DEFINE list  == Opened("TextEdit")
           under == BringToFront(z_order, idx)
           n     == Len(list.z_order)
<1>2. z_order' = IF list.slot \in Live THEN BringToFront(under, list.slot)
                 ELSE IF list.slot = NoSlot THEN under
                 ELSE Append(under, list.slot)
  BY <1>1
<1>3. \/ list.slot \in Live \cup {NoSlot} /\ n = count
      \/ list.slot = count /\ n = count + 1
  BY <1>1, OpenedMeans
<1>4. Ordered(under) /\ Len(under) = count /\ count \in 0 .. MaxWindows /\ count \in Nat
  BY RaiseOrdered, LiveFacts, DesktopAssumption DEF IInv, ListsInv, count
<1> HIDE DEF list, under, n
<1>5. count' = n
  <2>1. CASE list.slot \in Live
    <3>1. list.slot # NoSlot /\ list.slot # count
      BY <1>4, <2>1 DEF Live, NoSlot
    <3>2. Len(BringToFront(under, list.slot)) = count
      BY <1>4, RaiseOrdered
    <3>3. QED
      BY <1>2, <1>3, <2>1, <3>1, <3>2 DEF count
  <2>2. CASE list.slot = NoSlot
    <3>1. list.slot \notin Live /\ list.slot # count
      BY <1>4, <2>2 DEF Live, NoSlot
    <3>2. QED
      BY <1>2, <1>3, <1>4, <2>2, <3>1 DEF count
  <2>3. CASE list.slot \notin Live /\ list.slot # NoSlot
    <3>1. list.slot = count /\ n = count + 1 /\ z_order' = Append(under, list.slot)
      BY <1>2, <1>3, <2>3
    <3>2. under \in Seq(Slot)
      BY <1>4 DEF Ordered
    <3>3. Len(Append(under, list.slot)) = Len(under) + 1
      BY <3>2
    <3>4. QED
      BY <1>4, <3>1, <3>3 DEF count
  <2>4. QED
    BY <2>1, <2>2, <2>3
<1>6. QED
  BY <1>1, <1>5 DEF list, n

LEMMA OpenFileOwn == ASSUME IInv, OwnInv, OpenFile PROVE OwnInv'
<1>1. PICK idx \in FilesWindows, name \in Names :
        /\ "TextEdit" \in Apps
        /\ LET list  == Opened("TextEdit")
               o     == IF list.slot = NoSlot THEN Null
                        ELSE list.windows[list.slot].state
           IN  /\ windows' = list.windows
               /\ object' = IF o = Null THEN list.object
                            ELSE [list.object EXCEPT ![o] = Loaded(name)]
  BY DEF OpenFile
<1> DEFINE list  == Opened("TextEdit")
           o     == IF list.slot = NoSlot THEN Null ELSE list.windows[list.slot].state
           n     == Len(list.z_order)
<1>2. /\ windows' = list.windows
      /\ object' = IF o = Null THEN list.object
                   ELSE [list.object EXCEPT ![o] = Loaded(name)]
  BY <1>1
<1>3. /\ n \in 0 .. MaxWindows
      /\ list.slot # NoSlot => /\ list.slot \in 0 .. n - 1
                               /\ list.windows[list.slot].app = "TextEdit"
  BY <1>1, OpenedMeans
<1>4. list.windows \in WindowsType /\ list.object \in [Object -> Block]
  BY <1>1, OpenedFacts DEF IInv
<1>5. /\ Owned(list.windows, n, list.object)
      /\ NoneLost(windows, count, object) => NoneLost(list.windows, n, list.object)
      /\ \A q \in Object : list.object[q].kind = "Screen" <=> object[q].kind = "Screen"
  BY <1>1, OpenedOwned
<1> HIDE DEF list, n
<1>6. count' = n
  BY OpenFileCount DEF n, list
<1>7. SameKinds(list.object, object')
  <2>1. CASE o = Null
    BY <1>2, <2>1 DEF SameKinds
  <2>2. CASE o # Null
    <3>1. list.slot # NoSlot /\ list.slot \in Slot /\ o = list.windows[list.slot].state
      BY <1>3, <2>2, DesktopAssumption DEF Slot
    <3>2. o \in Object /\ list.object[o].kind = "TextEdit"
      BY <1>3, <1>4, <1>5, <2>2, <3>1 DEF Owned, WindowsType
    <3>3. Loaded(name).kind = "TextEdit"
      BY DEF Loaded, Blank
    <3> HIDE DEF o
    <3>4. QED
      BY <1>2, <1>4, <2>2, <3>2, <3>3 DEF SameKinds
  <2>3. QED
    BY <2>1, <2>2
<1>8. Owned(list.windows, n, object')
      /\ (NoneLost(list.windows, n, list.object) => NoneLost(list.windows, n, object'))
  BY <1>3, <1>4, <1>5, <1>7, OwnedSame
<1>9. SameScreens(frames, frames') /\ UNCHANGED sessions /\ frames # << >>
  BY TurnScreens
<1>10. Screens(object', frames')
  BY <1>5, <1>7, <1>9, ScreensSame DEF OwnInv, SameKinds
<1>11. QED
  BY <1>2, <1>5, <1>6, <1>8, <1>9, <1>10 DEF OwnInv

\* The slots above a closed one move down.
LEMMA CloseMeans ==
  ASSUME IInv, NEW idx \in Live, CloseWindow(idx)
  PROVE  /\ count \in 1 .. MaxWindows /\ count' = count - 1
         /\ \A i \in 0 .. count - 2 :
              /\ i + 1 \in Live /\ i \in Live
              /\ idx <= i => windows'[i] = windows[i + 1]
              /\ i < idx => windows'[i] = windows[i]
<1>1. /\ count \in 0 .. MaxWindows /\ count \in Nat /\ Permutes(z_order, count)
      /\ windows \in WindowsType /\ idx \in 0 .. count - 1 /\ idx \in Slot
  BY LiveFacts, DesktopAssumption DEF IInv, ListsInv, Ordered, count, Live
<1>2. Permutes(Renumbered(z_order, idx), count - 1) /\ count - 1 \in Nat
  BY <1>1, CloseKeeps
<1>3. count' = count - 1
  <2>1. z_order' = Renumbered(z_order, idx)
    BY DEF CloseWindow
  <2>2. z_order' \in [1 .. count - 1 -> 0 .. (count - 1) - 1]
    BY <1>2, <2>1 DEF Permutes
  <2>3. Len(z_order') = count - 1
    BY <1>2, <2>2, FunctionLen
  <2>4. QED
    BY <2>3 DEF count
<1> DEFINE closed == [windows EXCEPT ![idx].state = Null]
<1>4. windows' = [i \in Slot |-> IF idx <= i /\ i < count - 1
                                 THEN closed[i + 1] ELSE closed[i]]
  BY DEF CloseWindow
<1>5. \A i \in Slot : i # idx => closed[i] = windows[i]
  BY <1>1 DEF WindowsType
<1> HIDE DEF closed
<1>6. ASSUME NEW i \in 0 .. count - 2
      PROVE  /\ i + 1 \in Live /\ i \in Live
             /\ idx <= i => windows'[i] = windows[i + 1]
             /\ i < idx => windows'[i] = windows[i]
  <2>1. /\ i \in Slot /\ i + 1 \in Slot /\ i + 1 \in Live /\ i \in Live /\ i < count - 1
    BY <1>1, <1>6, DesktopAssumption DEF Slot, Live
  <2>2. CASE idx <= i
    <3>1. windows'[i] = closed[i + 1] /\ i + 1 # idx /\ ~(i < idx)
      BY <1>1, <1>4, <2>1, <2>2
    <3>2. QED
      BY <1>5, <2>1, <3>1
  <2>3. CASE i < idx
    <3>1. windows'[i] = closed[i] /\ i # idx /\ ~(idx <= i)
      BY <1>1, <1>4, <2>1, <2>3
    <3>2. QED
      BY <1>5, <2>1, <3>1
  <2>4. QED
    BY <1>1, <2>1, <2>2, <2>3
<1>7. count \in 1 .. MaxWindows
  BY <1>1
<1>8. QED
  BY <1>3, <1>6, <1>7

LEMMA CloseOwn == ASSUME IInv, OwnInv, ClickClose PROVE OwnInv'
<1>1. PICK idx \in Live : CloseWindow(idx)
  BY DEF ClickClose
<1> DEFINE from(i) == IF idx <= i THEN i + 1 ELSE i
           gone == windows[idx].state
<1>2. /\ count \in 1 .. MaxWindows /\ count' = count - 1 /\ count \in Nat
      /\ idx \in 0 .. count - 1
  BY <1>1, CloseMeans, DesktopAssumption DEF Live
<1>3. \A i \in 0 .. count - 2 : /\ windows'[i] = windows[from(i)]
                                /\ from(i) \in 0 .. count - 1 /\ from(i) # idx
  <2> TAKE i \in 0 .. count - 2
  <2>1. /\ i + 1 \in Live /\ i \in Live
        /\ idx <= i => windows'[i] = windows[i + 1]
        /\ i < idx => windows'[i] = windows[i]
    BY <1>1, CloseMeans
  <2>2. i \in Nat
    BY <1>2
  <2>3. QED
    BY <1>2, <2>1, <2>2 DEF Live
<1>4. \A i, j \in 0 .. count - 2 : from(i) = from(j) => i = j
  BY <1>2
<1>5. \A j \in 0 .. count - 1 : j # idx => \E i \in 0 .. count - 2 : from(i) = j
  <2> TAKE j \in 0 .. count - 1
  <2>1. CASE j < idx
    BY <1>2, <2>1
  <2>2. CASE idx < j
    <3>1. j - 1 \in 0 .. count - 2 /\ idx <= j - 1 /\ (j - 1) + 1 = j
      BY <1>2, <2>2
    <3>2. QED
      BY <3>1
  <2>3. QED
    BY <1>2, <2>1, <2>2
<1> HIDE DEF from
<1>6. /\ object' = Freed(gone) /\ object \in [Object -> Block]
      /\ gone \in Object \cup {Null}
      /\ \A i \in 0 .. count - 1 : windows[i].state \in Object \cup {Null}
  <2>1. /\ windows \in WindowsType /\ object \in [Object -> Block]
        /\ \A i \in 0 .. count - 1 : i \in Slot
    BY <1>2, DesktopAssumption DEF IInv, ListsInv, Slot
  <2>2. object' = Freed(gone)
    BY <1>1 DEF CloseWindow
  <2>3. QED
    BY <1>2, <2>1, <2>2 DEF WindowsType
<1>7. /\ \A i, j \in 0 .. count - 1 : windows[i].app = windows[j].app => i = j
      /\ \A i \in 0 .. count - 1 : windows[i].state # Null
                                   => object[windows[i].state].kind = windows[i].app
      /\ \A o \in Object : object[o].kind = "free" => ~object[o].dirty
  BY DEF OwnInv, Owned
<1>8. \A i \in 0 .. count - 2 : windows'[i].state # Null => windows'[i].state # gone
  BY <1>2, <1>3, <1>7
<1>9. \A o \in Object : /\ o # gone => object'[o] = object[o]
                        /\ o = gone => object'[o] = Blank("free")
  <2>1. Null \notin Object
    BY DEF Null, Object, Stateful
  <2> HIDE DEF gone
  <2>2. QED
    BY <1>6, <2>1 DEF Freed
<1> HIDE DEF gone
<1>10. Owned(windows', count', object')
  <2>1. count' - 1 = count - 2
    BY <1>2
  <2>2. \A i, j \in 0 .. count - 2 : windows'[i].app = windows'[j].app => i = j
    BY <1>3, <1>4, <1>7
  <2>3. \A i \in 0 .. count - 2 : windows'[i].state # Null
                                   => object'[windows'[i].state].kind = windows'[i].app
    BY <1>3, <1>6, <1>7, <1>8, <1>9
  <2>4. \A o \in Object : object'[o].kind = "free" => ~object'[o].dirty
    BY <1>7, <1>9 DEF Blank
  <2>5. QED
    BY <2>1, <2>2, <2>3, <2>4 DEF Owned
<1>11. NoneLost(windows, count, object) => NoneLost(windows', count', object')
  <2> SUFFICES ASSUME NoneLost(windows, count, object),
                      NEW o \in Object, object'[o].kind \in Stateful
               PROVE  \E i \in 0 .. count' - 1 : windows'[i].state = o
    BY DEF NoneLost
  <2>1. count' - 1 = count - 2
    BY <1>2
  <2>2. o # gone /\ object[o].kind \in Stateful
    BY <1>9 DEF Blank, Stateful
  <2>3. PICK j \in 0 .. count - 1 : windows[j].state = o
    BY <2>2 DEF NoneLost
  <2>4. j # idx
    BY <2>2, <2>3 DEF gone
  <2>5. PICK i \in 0 .. count - 2 : from(i) = j
    BY <1>5, <2>4
  <2>6. windows'[i].state = o
    BY <1>3, <2>3, <2>5
  <2>7. QED
    BY <2>1, <2>6
<1>12. \A o \in Object : object'[o].kind = "Screen" <=> object[o].kind = "Screen"
  <2>1. gone # Null => object[gone].kind # "Screen"
    <3>1. idx \in Slot
      BY <1>2, DesktopAssumption DEF Slot
    <3>2. windows[idx].app \in Kinds
      BY <3>1 DEF IInv, ListsInv, WindowsType
    <3>3. "Screen" \notin Kinds
      BY DesktopAssumption DEF Kinds
    <3>4. QED
      BY <1>2, <1>7, <3>2, <3>3 DEF gone
  <2>2. Null \notin Object
    BY DEF Null, Object, Stateful
  <2>3. QED
    BY <1>9, <2>1, <2>2 DEF Blank
<1>13. SameScreens(frames, frames') /\ UNCHANGED sessions /\ frames # << >>
  BY TurnScreens
<1>14. Screens(object', frames')
  BY <1>12, <1>13, ScreensSame DEF OwnInv
<1>15. QED
  BY <1>10, <1>11, <1>13, <1>14 DEF OwnInv

\* The buffers of the calls.
LEMMA FrameScreens ==
  ASSUME NEW f \in Seq(Loop)
  PROVE  /\ Len(f) \in Nat /\ DOMAIN f = 1 .. Len(f)
         /\ \A i \in 1 .. Len(f) : f[i].screen \in Object
<1>1. \A loop \in Loop : loop.screen \in Object
  BY DEF Loop
<1>2. \A i \in 1 .. Len(f) : f[i] \in Loop
  OBVIOUS
<1>3. QED
  BY <1>1, <1>2

\* desktop() is called: the calls that are suspended keep their buffers.
LEMMA EnterOwn ==
  ASSUME IInv, OwnInv, NEW outer \in Seq(Loop), NEW blocks,
         EnterDesktop(outer, blocks), SameKinds(object, blocks),
         blocks \in [Object -> Block], SameScreens(frames, outer)
  PROVE  OwnInv'
<1>1. /\ sessions \in Nat /\ sessions' = sessions + 1
      /\ windows \in WindowsType /\ count \in 0 .. MaxWindows
      /\ object \in [Object -> Block]
  BY LiveFacts, DesktopAssumption DEF EnterDesktop, IInv, LoopsInv, ListsInv
<1>2. /\ Owned(windows, count, blocks)
      /\ NoneLost(windows, count, object) => NoneLost(windows, count, blocks)
  BY <1>1, OwnedSame DEF OwnInv
<1>3. Screens(blocks, outer)
  BY ScreensSame DEF OwnInv, SameKinds
<1>4. CASE NewObject("Screen") = Null
  <2>1. /\ frames' = outer /\ object' = blocks /\ UNCHANGED <<windows, z_order>>
        /\ count' = count
    BY <1>4 DEF EnterDesktop, count
  <2>2. QED
    BY <1>1, <1>2, <1>3, <2>1 DEF OwnInv
<1>5. CASE NewObject("Screen") # Null
  <2> DEFINE o == NewObject("Screen")
             loop == [phase |-> "poll", screen |-> o, pressed |-> FALSE,
                      consumed |-> FALSE, body |-> NoSlot, dragging |-> NoSlot,
                      lastTop |-> 0]
  <2>1. /\ object' = [blocks EXCEPT ![o] = Blank("Screen")]
        /\ windows' = [windows EXCEPT ![0] = [app |-> "None", state |-> Null]]
        /\ count' = 1
        /\ frames' = Append(outer, loop)
    BY <1>5 DEF EnterDesktop, count
  <2>2. o \in Object /\ object[o].kind = "free" /\ blocks[o].kind = "free"
    BY <1>5, NewObjectFree DEF SameKinds
  <2>3. loop.screen = o
    OBVIOUS
  <2> HIDE DEF o, loop
  <2>4. /\ object'[o].kind = "Screen" /\ ~object'[o].dirty
        /\ \A q \in Object : q # o => object'[q] = blocks[q]
    BY <2>1, <2>2 DEF Blank
  <2>5. windows'[0] = [app |-> "None", state |-> Null]
    <3>1. 0 \in Slot
      BY DesktopAssumption DEF Slot
    <3>2. QED
      BY <1>1, <2>1, <3>1 DEF WindowsType
  <2>6. \A i \in 0 .. count' - 1 : i = 0
    BY <2>1
  <2>7. Owned(windows', count', object')
    BY <1>2, <2>4, <2>5, <2>6 DEF Owned
  <2>8. sessions' <= 1 => NoneLost(windows', count', object')
    <3> SUFFICES ASSUME sessions' <= 1, NEW q \in Object, object'[q].kind \in Stateful
                 PROVE  FALSE
      BY DEF NoneLost
    <3>1. sessions = 0
      BY <1>1
    <3>2. q # o /\ blocks[q].kind \in Stateful
      BY <2>4 DEF Stateful
    <3>3. \E i \in 0 .. count - 1 : windows[i].state = q
      BY <1>2, <3>1, <3>2 DEF OwnInv, NoneLost
    <3>4. count = 0
      BY <3>1 DEF OwnInv, count
    <3>5. QED
      BY <3>3, <3>4
  <2>9. Screens(object', frames')
    <3> DEFINE n == Len(outer)
    <3>1. /\ n \in Nat /\ Len(frames') = n + 1 /\ frames'[n + 1] = loop
          /\ \A i \in 1 .. n : frames'[i] = outer[i]
      BY <2>1
    <3>2. \A i \in 1 .. n : outer[i].screen \in Object
      BY FrameScreens
    <3>3. \A i \in 1 .. n : blocks[outer[i].screen].kind = "Screen"
      BY <1>3, <3>2 DEF Screens
    <3>4. \A i \in 1 .. n : outer[i].screen # o
      BY <2>2, <3>3
    <3> HIDE DEF n
    <3>5. \A g \in 1 .. n + 1 : g \in 1 .. n \/ g = n + 1
      BY <3>1
    <3>6. \A g, h \in 1 .. n + 1 : frames'[g].screen = frames'[h].screen => g = h
      BY <1>3, <2>3, <3>1, <3>4, <3>5 DEF Screens, n
    <3>7. \A q \in Object : object'[q].kind = "Screen"
                            => \E g \in 1 .. n + 1 : frames'[g].screen = q
      <4> SUFFICES ASSUME NEW q \in Object, object'[q].kind = "Screen"
                   PROVE  \E g \in 1 .. n + 1 : frames'[g].screen = q
        OBVIOUS
      <4>1. CASE q = o
        <5>1. n + 1 \in 1 .. n + 1
          BY <3>1
        <5>2. QED
          BY <2>3, <3>1, <4>1, <5>1
      <4>2. CASE q # o
        <5>1. PICK g \in 1 .. n : outer[g].screen = q
          BY <1>3, <2>4, <4>2 DEF Screens, n
        <5>2. g \in 1 .. n + 1
          BY <3>1
        <5>3. QED
          BY <3>1, <5>1, <5>2
      <4>3. QED
        BY <4>1, <4>2
    <3>8. \A g \in 1 .. n + 1 : object'[frames'[g].screen].kind = "Screen"
      BY <2>3, <2>4, <3>1, <3>2, <3>3, <3>4, <3>5
    <3>9. QED
      BY <3>1, <3>6, <3>7, <3>8 DEF Screens
  <2>10. QED
    BY <1>1, <2>7, <2>8, <2>9 DEF OwnInv
<1>6. QED
  BY <1>4, <1>5

LEMMA StartOwn ==
  ASSUME IInv, OwnInv, StartDesktop \/ RunDesktop PROVE OwnInv'
<1>1. CASE StartDesktop
  <2>1. /\ frames \in Seq(Loop) /\ object \in [Object -> Block]
        /\ EnterDesktop(frames, object)
    BY <1>1 DEF StartDesktop, IInv, LoopsInv, ListsInv
  <2>2. SameKinds(object, object) /\ SameScreens(frames, frames)
    BY DEF SameKinds, SameScreens
  <2>3. QED
    BY <2>1, <2>2, EnterOwn
<1>2. CASE RunDesktop
  <2> DEFINE loop  == [me EXCEPT !.phase = "resume", !.body = NoSlot]
             outer == [frames EXCEPT ![Len(frames)] = loop]
             o     == Front("Terminal")
  <2>1. /\ frames # << >> /\ EnterDesktop(outer, LineTaken(o)) /\ o # Null
    BY <1>2 DEF RunDesktop, InLoop
  <2>2. loop \in Loop /\ loop.screen = me.screen
    BY <2>1, MeFacts DEF IInv, Loop
  <2>3. o \in Object /\ object[o] \in Block
    BY <2>1, FrontKind
  <2> HIDE DEF loop, o
  <2>4. frames \in Seq(Loop) /\ Len(frames) \in 1 .. Len(frames)
    BY <2>1, MeFacts DEF IInv, LoopsInv
  <2>5. outer \in Seq(Loop) /\ Len(outer) = Len(frames)
    BY <2>2, <2>4, ExceptSeq
  <2>6. SameScreens(frames, outer)
    <3> DEFINE n == Len(frames)
    <3>1. n \in Nat /\ frames \in [1 .. n -> Loop] /\ n \in 1 .. n /\ frames[n] = me
      BY <2>4 DEF me
    <3> HIDE DEF n
    <3>2. \A i \in 1 .. n : outer[i].screen = frames[i].screen
      BY <2>2, <3>1 DEF n
    <3>3. QED
      BY <2>5, <3>2 DEF SameScreens, n
  <2> HIDE DEF outer
  <2>7. LineTaken(o) \in [Object -> Block]
    BY <2>3, LineFacts DEF IInv
  <2>8. SameKinds(object, LineTaken(o))
    BY <2>3 DEF LineTaken, SameKinds, IInv, ListsInv, Block
  <2>9. QED
    BY <2>1, <2>5, <2>6, <2>7, <2>8, EnterOwn
<1>3. QED
  BY <1>1, <1>2

LEMMA ReturnOwn == ASSUME IInv, OwnInv, ReturnToShell PROVE OwnInv'
<1> DEFINE gone == me.screen
           n    == Len(frames)
<1>1. /\ frames # << >> /\ object' = Freed(gone)
      /\ frames' = SubSeq(frames, 1, n - 1)
      /\ UNCHANGED <<windows, z_order, sessions>> /\ count' = count
  BY DEF ReturnToShell, InLoop, count
<1>2. /\ frames \in Seq(Loop) /\ n \in 1 .. n /\ gone \in Object /\ gone = frames[n].screen
      /\ object \in [Object -> Block] /\ windows \in WindowsType
      /\ count \in 0 .. MaxWindows
  BY <1>1, MeFacts, LiveFacts DEF IInv, LoopsInv, ListsInv, Loop, me
<1>3. n \in Nat /\ \A i \in 1 .. n : frames[i].screen \in Object
  BY <1>2, FrameScreens
<1>4. /\ object'[gone] = Blank("free")
      /\ \A q \in Object : q # gone => object'[q] = object[q]
  <2>1. gone # Null
    BY <1>2 DEF Null, Object, Stateful
  <2> HIDE DEF gone
  <2>2. QED
    BY <1>1, <1>2, <2>1 DEF Freed
<1>5. Len(frames') = n - 1 /\ \A i \in 1 .. n - 1 : frames'[i] = frames[i]
  <2>1. n - 1 \in Nat /\ \A i \in 1 .. n - 1 : i \in 1 .. n
    BY <1>2, <1>3
  <2>2. \A i \in 1 .. n - 1 : frames[i] \in Loop
    BY <1>2, <2>1
  <2> HIDE DEF n
  <2>3. /\ Len(SubSeq(frames, 1, n - 1)) = IF 1 <= n - 1 THEN (n - 1) - 1 + 1 ELSE 0
        /\ \A i \in 1 .. (n - 1) - 1 + 1 : SubSeq(frames, 1, n - 1)[i] = frames[1 + i - 1]
    BY <2>1, <2>2, SubSeqProperties
  <2>4. QED
    BY <1>1, <2>1, <2>3
<1>6. object[gone].kind = "Screen"
  BY <1>2 DEF OwnInv, Screens
<1> HIDE DEF gone, n
<1>7. \A i \in 0 .. count - 1 : windows[i].state # Null => windows[i].state # gone
  <2>1. \A i \in 0 .. count - 1 : windows[i].app \in Kinds
    BY <1>2, DesktopAssumption DEF WindowsType, Slot
  <2>2. "Screen" \notin Kinds
    BY DesktopAssumption DEF Kinds
  <2>3. QED
    BY <1>6, <2>1, <2>2 DEF OwnInv, Owned
<1>8. Owned(windows, count, object')
  <2>1. \A i \in 0 .. count - 1 : windows[i].state \in Object \cup {Null}
    BY <1>2, DesktopAssumption DEF WindowsType, Slot
  <2>2. \A o \in Object : object'[o].kind = "free" => ~object'[o].dirty
    BY <1>4 DEF OwnInv, Owned, Blank
  <2>3. QED
    BY <1>4, <1>7, <2>1, <2>2 DEF OwnInv, Owned
<1>9. NoneLost(windows, count, object) => NoneLost(windows, count, object')
  BY <1>4 DEF NoneLost, Blank, Stateful
<1>10. Screens(object', frames')
  <2>1. /\ \A g, h \in 1 .. n : frames[g].screen = frames[h].screen => g = h
        /\ \A o \in Object :
             object[o].kind = "Screen" <=> \E g \in 1 .. n : frames[g].screen = o
    BY DEF OwnInv, Screens, n
  <2>2. /\ n \in 1 .. n /\ \A g \in 1 .. n - 1 : g \in 1 .. n /\ g # n
        /\ \A g \in 1 .. n : g = n \/ g \in 1 .. n - 1
    BY <1>2, <1>3 DEF n
  <2>3. frames[n].screen = gone
    BY <1>2 DEF n
  <2>4. \A g, h \in 1 .. n - 1 : frames'[g].screen = frames'[h].screen => g = h
    BY <1>5, <2>1, <2>2
  <2>5. ASSUME NEW o \in Object
        PROVE  object'[o].kind = "Screen" <=> \E g \in 1 .. n - 1 : frames'[g].screen = o
    <3>1. CASE o = gone
      <4>1. object'[o].kind # "Screen"
        BY <1>4, <3>1 DEF Blank
      <4>2. \A g \in 1 .. n - 1 : frames'[g].screen # o
        BY <1>5, <2>1, <2>2, <2>3, <3>1
      <4>3. QED
        BY <4>1, <4>2
    <3>2. CASE o # gone
      BY <1>4, <1>5, <2>1, <2>2, <2>3, <3>2
    <3>3. QED
      BY <3>1, <3>2
  <2>6. QED
    BY <1>5, <2>4, <2>5 DEF Screens
<1>11. sessions # 0
  BY <1>1 DEF OwnInv
<1>12. QED
  BY <1>1, <1>8, <1>9, <1>10, <1>11 DEF OwnInv

LEMMA InitOwn == Init => OwnInv
<1> SUFFICES ASSUME Init PROVE OwnInv
  OBVIOUS
<1>1. /\ count = 0 /\ Len(frames) = 0 /\ z_order = << >> /\ frames = << >>
      /\ \A o \in Object : object[o] = Blank("free")
  BY DEF Init, count
<1>2. \A o \in Object : object[o].kind = "free" /\ ~object[o].dirty
  BY <1>1 DEF Blank
<1>3. QED
  BY <1>1, <1>2 DEF OwnInv, Owned, NoneLost, Screens, Stateful

LEMMA NextOwn == IInv /\ OwnInv /\ [Next]_vars => OwnInv'
<1> SUFFICES ASSUME IInv, OwnInv, [Next]_vars PROVE OwnInv'
  OBVIOUS
<1>1. CASE UNCHANGED vars
  BY <1>1 DEF vars, OwnInv, count
<1>2. CASE \/ NoClick \/ SelectWindow \/ ToggleStart \/ MissTaskbar \/ ToggleMenu
           \/ PickRow \/ ClickBody \/ ClickElsewhere \/ OpenDirectory
           \/ NoKey \/ EditKey \/ PromptKey \/ TypeKey \/ RunCommand \/ Resume
  BY <1>2, RaisedSteps, TurnScreens, RaisedOwn
<1>3. QED
  BY <1>1, <1>2, ShowOwn, OpenFileOwn, CloseOwn, StartOwn, ReturnOwn DEF Next

LEMMA OwnInvariance == Spec => []OwnInv
BY InitOwn, NextOwn, Invariance, PTL DEF Spec

\* Every block has one owner, and before a second call of desktop() what opening
\* and entering took is given back by closing and leaving (app.c's on_open and
\* on_close, window.c's back buffer).
THEOREM BlocksHaveOwners == Spec => []StatesOwned
<1>1. IInv /\ OwnInv => StatesOwned
  <2> SUFFICES ASSUME IInv, OwnInv PROVE StatesOwned
    OBVIOUS
  <2>1. \A i \in Live : i \in Slot /\ windows[i].app \in Kinds
                      /\ windows[i].state \in Object \cup {Null}
    BY LiveFacts DEF IInv, ListsInv, WindowsType
  <2>2. /\ \A i, j \in Live : windows[i].app = windows[j].app => i = j
        /\ \A i \in Live : windows[i].state # Null
                          => object[windows[i].state].kind = windows[i].app
    BY DEF OwnInv, Owned, Live
  <2>3. {o \in Object : object[o].kind = "Screen"} =
          {frames[f].screen : f \in DOMAIN frames}
    <3>1. /\ DOMAIN frames = 1 .. Len(frames)
          /\ \A f \in 1 .. Len(frames) : frames[f].screen \in Object
      BY FrameScreens DEF IInv, LoopsInv
    <3>2. QED
      BY <3>1 DEF OwnInv, Screens
  <2>4. ASSUME sessions = 1, NEW app \in Apps
        PROVE  {o \in Object : object[o].kind = app} = StateOf(app) \ {Null}
    <3>1. ASSUME NEW o \in Object, object[o].kind = app
          PROVE  o \in StateOf(app) \ {Null}
      <4>1. object[o].kind \in {"free", "Screen"} \cup Stateful
        BY DEF IInv, ListsInv, Block
      <4>2. app \in Stateful
        BY <3>1, <4>1, DesktopAssumption
      <4>3. PICK i \in Live : windows[i].state = o
        BY <2>4, <3>1, <4>2 DEF OwnInv, NoneLost, Live
      <4>4. o # Null
        BY DEF Object, Null, Stateful
      <4>5. QED
        BY <2>2, <3>1, <4>3, <4>4 DEF StateOf
    <3>2. ASSUME NEW o \in StateOf(app) \ {Null}
          PROVE  o \in Object /\ object[o].kind = app
      BY <2>1, <2>2 DEF StateOf
    <3>3. QED
      BY <3>1, <3>2
  <2>5. QED
    BY <2>2, <2>3, <2>4 DEF StatesOwned
<1>2. QED
  BY <1>1, OwnInvariance, Invariance, PTL

-----------------------------------------------------------------------------
(***************************************************************************)
(* The mark of an unsaved document.                                        *)
(***************************************************************************)
SavedStep ==
  \A o \in Object :
    object[o].dirty /\ object'[o].kind = "TextEdit" /\ ~object'[o].dirty
      => files'[object'[o].name] <= object'[o].text

\* What a document is after a write that succeeded.
LEMMA WriteSaves ==
  ASSUME FilesInv, NEW name \in Names, NEW doc \in Block,
         NEW write \in Writes(name, doc.text)
  PROVE  LET saved == Saved(doc, name, write)
         IN  /\ saved.text = doc.text
             /\ ~saved.dirty /\ doc.dirty
                  => saved.name = name /\ write.files[name] <= saved.text
<1>1. doc.text \in 0 .. MaxText /\ doc.text \in Nat
  BY DesktopAssumption DEF Block
<1>2. CASE write.ok
  <2>1. PICK kept \in 0 .. doc.text : write = [files |-> [files EXCEPT ![name] = kept], ok |-> TRUE]
    BY <1>2 DEF Writes
  <2>2. write.files[name] = kept /\ kept <= doc.text
    BY <1>1, <2>1 DEF FilesInv
  <2>3. /\ Saved(doc, name, write).name = name /\ Saved(doc, name, write).text = doc.text
    BY <1>2 DEF Saved, Block
  <2>4. QED
    BY <2>2, <2>3
<1>3. CASE ~write.ok
  BY <1>3 DEF Saved
<1>4. QED
  BY <1>2, <1>3

\* One document that changes, with the file it is written to.
LEMMA OneSaved ==
  ASSUME IInv, NEW o \in Object, NEW doc, object' = [object EXCEPT ![o] = doc],
         object[o].dirty /\ ~doc.dirty => files'[doc.name] <= doc.text
  PROVE  SavedStep
<1>1. object \in [Object -> Block]
  BY DEF IInv, ListsInv
<1>2. object'[o] = doc /\ \A q \in Object : q # o => object'[q] = object[q]
  BY <1>1
<1>3. QED
  BY <1>2 DEF SavedStep

LEMMA PickSaves == ASSUME IInv, PickRow PROVE SavedStep
<1> DEFINE o == IF focusWin = NoSlot THEN Null ELSE windows[focusWin].state
<1>1. PICK row \in DOMAIN items :
        IF o = Null
        THEN UNCHANGED <<object, files>>
        ELSE IF items[row] = "SaveAs" \/ object[o].name = NoName
        THEN /\ object' = [object EXCEPT ![o] = Prompting(object[o])]
             /\ UNCHANGED files
        ELSE \E write \in Writes(object[o].name, object[o].text) :
               /\ files' = write.files
               /\ object' = [object EXCEPT ![o] =
                               Saved(object[o], object[o].name, write)]
  BY DEF PickRow
<1>2. o \in Object \cup {Null} /\ object \in [Object -> Block]
  BY DEF IInv, MenusInv, ListsInv, WindowsType
<1> HIDE DEF o
<1>3. CASE UNCHANGED object
  BY <1>3 DEF SavedStep
<1>4. CASE o # Null /\ object' = [object EXCEPT ![o] = Prompting(object[o])]
  <2>1. o \in Object /\ object[o] \in Block
    BY <1>2, <1>4
  <2>2. Prompting(object[o]).dirty = object[o].dirty
    BY <2>1 DEF Prompting, Block
  <2>3. QED
    BY <1>4, <2>1, <2>2, OneSaved
<1>5. CASE /\ o # Null /\ object[o].name # NoName
           /\ \E write \in Writes(object[o].name, object[o].text) :
                /\ files' = write.files
                /\ object' = [object EXCEPT ![o] =
                                Saved(object[o], object[o].name, write)]
  <2>1. o \in Object /\ object[o] \in Block /\ object[o].name \in Names
    BY <1>2, <1>5 DEF Block
  <2>2. PICK write \in Writes(object[o].name, object[o].text) :
          /\ files' = write.files
          /\ object' = [object EXCEPT ![o] = Saved(object[o], object[o].name, write)]
    BY <1>5
  <2> DEFINE doc == Saved(object[o], object[o].name, write)
  <2>3. object[o].dirty /\ ~doc.dirty => files'[doc.name] <= doc.text
    BY <2>1, <2>2, WriteSaves DEF IInv
  <2>4. object' = [object EXCEPT ![o] = doc]
    BY <2>2
  <2> HIDE DEF doc
  <2>5. QED
    BY <2>1, <2>3, <2>4, OneSaved
<1>6. QED
  BY <1>1, <1>3, <1>4, <1>5

LEMMA KeySaves ==
  ASSUME IInv, OwnInv, NoKey \/ EditKey \/ PromptKey \/ TypeKey \/ RunCommand \/ Resume
  PROVE  SavedStep
<1>1. CASE NoKey \/ Resume
  BY <1>1 DEF NoKey, Resume, SavedStep
<1>2. CASE EditKey
  <2> DEFINE o == Front("TextEdit")
  <2>1. o # Null /\ \E doc \in Edits(object[o]) : object' = [object EXCEPT ![o] = doc]
    BY <1>2 DEF EditKey
  <2>2. o \in Object /\ object[o] \in Block
    BY <2>1, FrontKind
  <2> HIDE DEF o
  <2>3. PICK doc \in Edits(object[o]) : object' = [object EXCEPT ![o] = doc]
    BY <2>1
  <2>4. doc.dirty
    BY <2>2 DEF Edits, Block
  <2>5. QED
    BY <2>2, <2>3, <2>4, OneSaved
<1>3. CASE PromptKey
  <2> DEFINE o == Front("TextEdit")
  <2>1. /\ o # Null
        /\ \/ object' = [object EXCEPT ![o].prompt = FALSE]
           \/ \E name \in Names : \E write \in Writes(name, object[o].text) :
                /\ files' = write.files
                /\ object' = [object EXCEPT ![o] =
                     [Saved(object[o], name, write) EXCEPT !.prompt = FALSE]]
    BY <1>3 DEF PromptKey
  <2>2. o \in Object /\ object[o] \in Block /\ object \in [Object -> Block]
    BY <2>1, FrontKind DEF IInv, ListsInv
  <2> HIDE DEF o
  <2>3. CASE object' = [object EXCEPT ![o].prompt = FALSE]
    <3> DEFINE doc == [object[o] EXCEPT !.prompt = FALSE]
    <3>1. object' = [object EXCEPT ![o] = doc] /\ doc.dirty = object[o].dirty
      BY <2>2, <2>3 DEF Block
    <3> HIDE DEF doc
    <3>2. QED
      BY <2>2, <3>1, OneSaved
  <2>4. ASSUME NEW name \in Names, NEW write \in Writes(name, object[o].text),
               files' = write.files,
               object' = [object EXCEPT ![o] =
                     [Saved(object[o], name, write) EXCEPT !.prompt = FALSE]]
        PROVE  SavedStep
    <3> DEFINE saved == Saved(object[o], name, write)
               doc   == [saved EXCEPT !.prompt = FALSE]
    <3>1. /\ saved.text = object[o].text
          /\ ~saved.dirty /\ object[o].dirty
               => saved.name = name /\ write.files[name] <= saved.text
      BY <2>2, WriteSaves DEF IInv
    <3>2. doc.name = saved.name /\ doc.text = saved.text /\ doc.dirty = saved.dirty
      BY <2>2 DEF Saved, Block
    <3>3. object' = [object EXCEPT ![o] = doc]
      BY <2>4
    <3> HIDE DEF doc, saved
    <3>4. object[o].dirty /\ ~doc.dirty => files'[doc.name] <= doc.text
      BY <2>4, <3>1, <3>2
    <3>5. QED
      BY <2>2, <3>3, <3>4, OneSaved
  <2>5. QED
    BY <2>1, <2>3, <2>4
<1>4. CASE TypeKey \/ RunCommand
  <2> DEFINE o == Front("Terminal")
  <2>1. o # Null /\ \E text : object' = [object EXCEPT ![o].text = text]
    BY <1>4 DEF TypeKey, RunCommand, LineTaken
  <2>2. o \in Object /\ object[o] \in Block /\ object \in [Object -> Block]
    BY <2>1, FrontKind DEF IInv, ListsInv
  <2> HIDE DEF o
  <2>3. PICK text : object' = [object EXCEPT ![o].text = text]
    BY <2>1
  <2> DEFINE doc == [object[o] EXCEPT !.text = text]
  <2>4. object' = [object EXCEPT ![o] = doc] /\ doc.dirty = object[o].dirty
    BY <2>2, <2>3 DEF Block
  <2> HIDE DEF doc
  <2>5. QED
    BY <2>2, <2>4, OneSaved
<1>5. QED
  BY <1>1, <1>2, <1>3, <1>4

\* A new block was nobody's, so that it was not marked.
LEMMA OpenedUnmarked ==
  ASSUME IInv, OwnInv, NEW app \in Apps, NEW o \in Object, object[o].dirty
  PROVE  Opened(app).object[o] = object[o]
<1> DEFINE list == Opened(app)
           new  == list.windows[count].state
<1>1. \/ list.object = object
      \/ /\ object[new].kind = "free"
         /\ list.object = [object EXCEPT ![new] = Blank(app)]
  BY OpenedMeans
<1>2. object[o].kind # "free" /\ object \in [Object -> Block]
  BY DEF OwnInv, Owned, IInv, ListsInv
<1> HIDE DEF list, new
<1>3. QED
  BY <1>1, <1>2 DEF list

LEMMA OpenFileSaves == ASSUME IInv, OwnInv, OpenFile PROVE SavedStep
<1>1. PICK idx \in FilesWindows, name \in Names :
        /\ "TextEdit" \in Apps
        /\ LET list  == Opened("TextEdit")
               o     == IF list.slot = NoSlot THEN Null
                        ELSE list.windows[list.slot].state
           IN  /\ windows' = list.windows
               /\ object' = IF o = Null THEN list.object
                            ELSE [list.object EXCEPT ![o] = Loaded(name)]
        /\ UNCHANGED <<files, focusWin>>
  BY DEF OpenFile
<1> DEFINE list  == Opened("TextEdit")
           o     == IF list.slot = NoSlot THEN Null ELSE list.windows[list.slot].state
<1>2. /\ object' = IF o = Null THEN list.object
                   ELSE [list.object EXCEPT ![o] = Loaded(name)]
      /\ files' = files
  BY <1>1
<1>3. list.object \in [Object -> Block]
  BY <1>1, OpenedFacts DEF IInv
<1> HIDE DEF list, o
<1> SUFFICES ASSUME NEW q \in Object, object[q].dirty, ~object'[q].dirty
             PROVE  files'[object'[q].name] <= object'[q].text
  BY DEF SavedStep
<1>4. list.object[q] = object[q]
  BY <1>1, OpenedUnmarked DEF list
<1>5. q = o /\ o # Null
  BY <1>2, <1>3, <1>4
<1>6. object'[q] = Loaded(name)
  BY <1>2, <1>3, <1>5
<1>7. Loaded(name).name = name /\ Loaded(name).text = files[name]
  BY DEF Loaded, Blank
<1>8. files[name] <= files[name]
  <2>1. files[name] \in Nat
    BY DesktopAssumption DEF IInv, FilesInv, Contents
  <2>2. QED
    BY <2>1
<1>9. QED
  BY <1>2, <1>6, <1>7, <1>8

LEMMA EnterSaves ==
  ASSUME IInv, OwnInv, StartDesktop \/ RunDesktop PROVE SavedStep
<1>1. PICK outer, blocks :
        /\ EnterDesktop(outer, blocks)
        /\ \/ blocks = object
           \/ Front("Terminal") # Null /\ blocks = LineTaken(Front("Terminal"))
  BY DEF StartDesktop, RunDesktop
<1>2. /\ object \in [Object -> Block] /\ blocks \in [Object -> Block]
      /\ \A o \in Object : blocks[o].dirty = object[o].dirty
  <2>1. CASE blocks = object
    BY <2>1 DEF IInv, ListsInv
  <2>2. CASE Front("Terminal") # Null /\ blocks = LineTaken(Front("Terminal"))
    <3> DEFINE o == Front("Terminal")
    <3>1. o \in Object /\ object[o] \in Block /\ object \in [Object -> Block]
      BY <2>2, FrontKind DEF IInv, ListsInv
    <3>2. blocks = LineTaken(o)
      BY <2>2
    <3> HIDE DEF o
    <3>3. blocks \in [Object -> Block]
      BY <3>1, <3>2, LineFacts DEF IInv
    <3>4. blocks = [object EXCEPT ![o].text = 0]
      BY <3>2 DEF LineTaken
    <3>5. QED
      BY <3>1, <3>3, <3>4 DEF Block
  <2>3. QED
    BY <1>1, <2>1, <2>2
<1>3. CASE NewObject("Screen") = Null
  BY <1>1, <1>2, <1>3 DEF EnterDesktop, SavedStep
<1>4. CASE NewObject("Screen") # Null
  <2>1. object' = [blocks EXCEPT ![NewObject("Screen")] = Blank("Screen")]
    BY <1>1, <1>4 DEF EnterDesktop
  <2>2. Blank("Screen").kind # "TextEdit"
    BY DEF Blank
  <2>3. QED
    BY <1>2, <2>1, <2>2 DEF SavedStep
<1>5. QED
  BY <1>3, <1>4

LEMMA FreeSaves ==
  ASSUME IInv, NEW o, object' = Freed(o) PROVE SavedStep
<1>1. object \in [Object -> Block]
  BY DEF IInv, ListsInv
<1>2. \A q \in Object : object'[q] = object[q] \/ object'[q] = Blank("free")
  BY <1>1 DEF Freed
<1>3. QED
  BY <1>2 DEF SavedStep, Blank

LEMMA NextSaves == IInv /\ OwnInv /\ Next => SavedStep
<1> SUFFICES ASSUME IInv, OwnInv, Next PROVE SavedStep
  OBVIOUS
<1>1. CASE NoClick \/ SelectWindow \/ ToggleStart \/ MissTaskbar \/ ToggleMenu
           \/ ClickBody \/ ClickElsewhere \/ OpenDirectory
  <2>1. UNCHANGED object
    BY <1>1 DEF NoClick, SelectWindow, ToggleStart, MissTaskbar, ToggleMenu, ClickBody,
                ClickElsewhere, OpenDirectory, screenVars
  <2>2. QED
    BY <2>1 DEF SavedStep
<1>2. CASE OpenTerminal \/ OpenFromStart
  <2>1. PICK app \in Apps : object' = Opened(app).object
    BY <1>2 DEF OpenTerminal, OpenFromStart, Show
  <2>2. QED
    BY <2>1, OpenedUnmarked DEF SavedStep
<1>3. CASE ClickClose \/ ReturnToShell
  <2>1. \E o : object' = Freed(o)
    BY <1>3 DEF ClickClose, CloseWindow, ReturnToShell
  <2>2. QED
    BY <2>1, FreeSaves
<1>4. QED
  BY <1>1, <1>2, <1>3, PickSaves, KeySaves, OpenFileSaves, EnterSaves DEF Next

\* A document loses its mark only when the file it is named after holds its text
\* or what the disk had room for, or when it has just been loaded from it (app.c's
\* textedit_cmd_save, textedit_load_file and textedit_on_close).
THEOREM MarksAreTrue == Spec => SavedMeansOnDisk
<1>1. IInv /\ OwnInv /\ [Next]_vars =>
        [\A o \in Object :
           object[o].dirty /\ object'[o].kind = "TextEdit" /\ ~object'[o].dirty
             => files'[object'[o].name] <= object'[o].text]_vars
  BY NextSaves DEF SavedStep
<1>2. QED
  BY <1>1, Invariance, OwnInvariance, PTL DEF Spec, SavedMeansOnDisk

-----------------------------------------------------------------------------
(***************************************************************************)
(* The window list by name is a stack.  Stacked(w, z) are the names of the *)
(* windows w in the order z.                                               *)
(***************************************************************************)
Stacked(w, z) == [p \in DOMAIN z |-> w[z[p]].app]

\* A sequence without one of its places, written in two ways.
LEMMA CutAt ==
  ASSUME NEW S, NEW s \in Seq(S), NEW p \in 1 .. Len(s)
  PROVE  SubSeq(s, 1, p - 1) \o SubSeq(s, p + 1, Len(s)) = DropAt(s, p)
<1> DEFINE n == Len(s)
           a == SubSeq(s, 1, p - 1)
           b == SubSeq(s, p + 1, n)
           ab == a \o b
<1>1. n \in Nat /\ p \in 1 .. n
  OBVIOUS
<1>2. /\ a \in Seq(S) /\ Len(a) = p - 1
      /\ \A i \in 1 .. p - 1 : a[i] = s[i]
  OBVIOUS
<1>3. /\ b \in Seq(S) /\ Len(b) = n - p
      /\ \A i \in 1 .. n - p : b[i] = s[p + i]
  OBVIOUS
<1>4. DropAt(s, p) = [i \in 1 .. n - 1 |-> IF i < p THEN s[i] ELSE s[i + 1]]
  BY DEF DropAt
<1> HIDE DEF n, a, b
<1>5. /\ ab \in Seq(S) /\ Len(ab) = Len(a) + Len(b)
      /\ \A i \in 1 .. Len(a) + Len(b) :
           ab[i] = IF i <= Len(a) THEN a[i] ELSE b[i - Len(a)]
  BY <1>2, <1>3, ConcatProperties
<1> HIDE DEF ab
<1>6. Len(ab) = n - 1
  BY <1>1, <1>2, <1>3, <1>5
<1>7. ab = [i \in 1 .. n - 1 |-> ab[i]]
  BY <1>5, <1>6
<1>8. ASSUME NEW i \in 1 .. n - 1 PROVE ab[i] = IF i < p THEN s[i] ELSE s[i + 1]
  <2>1. CASE i < p
    <3>1. i \in 1 .. p - 1 /\ i <= p - 1 /\ i \in 1 .. Len(a) + Len(b)
      BY <1>1, <1>2, <1>3, <2>1
    <3>2. QED
      BY <1>2, <1>5, <2>1, <3>1
  <2>2. CASE ~(i < p)
    <3>1. /\ i - (p - 1) \in 1 .. n - p /\ p + (i - (p - 1)) = i + 1
          /\ ~(i <= p - 1) /\ i \in 1 .. Len(a) + Len(b)
      BY <1>1, <1>2, <1>3, <2>2
    <3>2. QED
      BY <1>2, <1>3, <1>5, <2>2, <3>1
  <2>3. QED
    BY <2>1, <2>2
<1>9. ab = DropAt(s, p)
  BY <1>4, <1>7, <1>8
<1>10. QED
  BY <1>9 DEF ab, a, b, n

\* The name of a slot stands where the slot does.
LEMMA StackedWithout ==
  ASSUME NEW n \in Nat, NEW z, Permutes(z, n), NEW w, NEW idx \in 0 .. n - 1,
         \A i, j \in 0 .. n - 1 : w[i].app = w[j].app => i = j
  PROVE  Stack!Without(Stacked(w, z), w[idx].app)
           = Stacked(w, DropAt(z, PosOf(z, idx)))
<1> DEFINE s == Stacked(w, z)
           a == w[idx].app
           P == PosOf(z, idx)
           Q == Stack!Place(s, a)
           S == {w[i].app : i \in 0 .. n - 1}
<1>1. /\ z \in [1 .. n -> 0 .. n - 1] /\ Len(z) = n
      /\ \A q, r \in 1 .. n : z[q] = z[r] => q = r
      /\ \E q \in DOMAIN z : z[q] = idx
  BY FunctionLen DEF Permutes
<1>2. P \in 1 .. n /\ z[P] = idx
  BY <1>1, PosOfSlot
<1>3. s \in [1 .. n -> S] /\ \A p \in 1 .. n : s[p] = w[z[p]].app
  BY <1>1 DEF Stacked
<1>4. s \in Seq(S) /\ Len(s) = n /\ DOMAIN s = 1 .. n
  <2> HIDE DEF s, S
  <2>1. QED
    BY <1>3, FunctionLen
<1>5. s[P] = a
  BY <1>2, <1>3
<1>6. \A p \in 1 .. n : s[p] = a => p = P
  <2> HIDE DEF s, P
  <2> TAKE p \in 1 .. n
  <2>1. z[p] \in 0 .. n - 1
    BY <1>1
  <2>2. s[p] = a => z[p] = idx
    BY <1>3, <2>1
  <2>3. QED
    BY <1>1, <1>2, <2>2
<1> HIDE DEF s, a, P, S
<1>7. Q = P
  <2>1. P \in DOMAIN s
    BY <1>2, <1>4
  <2>2. Q \in DOMAIN s /\ s[Q] = a
    BY <1>5, <2>1 DEF Stack!Place
  <2>3. QED
    BY <1>4, <1>6, <2>2
<1>8. Stack!Without(s, a) = SubSeq(s, 1, Q - 1) \o SubSeq(s, Q + 1, Len(s))
  <2>1. \E p \in DOMAIN s : s[p] = a
    BY <1>2, <1>4, <1>5
  <2>2. QED
    BY <2>1 DEF Stack!Without
<1> HIDE DEF Q
<1>9. Stack!Without(s, a) = DropAt(s, P)
  BY <1>2, <1>4, <1>7, <1>8, CutAt
<1>10. DropAt(s, P) = Stacked(w, DropAt(z, P))
  <2>1. /\ DropAt(z, P) = [p \in 1 .. n - 1 |-> IF p < P THEN z[p] ELSE z[p + 1]]
        /\ DropAt(s, P) = [p \in 1 .. n - 1 |-> IF p < P THEN s[p] ELSE s[p + 1]]
    BY <1>1, <1>4 DEF DropAt
  <2>2. \A p \in 1 .. n - 1 : p \in 1 .. n /\ p + 1 \in 1 .. n
    OBVIOUS
  <2>3. \A p \in 1 .. n - 1 : DropAt(s, P)[p] = w[DropAt(z, P)[p]].app
    BY <1>3, <2>1, <2>2
  <2>4. QED
    BY <2>1, <2>3 DEF Stacked
<1>11. QED
  BY <1>9, <1>10 DEF s, a, P

LEMMA StackedAppend ==
  ASSUME NEW S, NEW z \in Seq(S), NEW w, NEW idx \in S
  PROVE  Stacked(w, Append(z, idx)) = Append(Stacked(w, z), w[idx].app)
<1> DEFINE s == Stacked(w, z)
           b == Append(z, idx)
           T == {w[i].app : i \in S}
           n == Len(z)
<1>1. n \in Nat
  OBVIOUS
<1>2. /\ b \in Seq(S) /\ Len(b) = n + 1 /\ b[n + 1] = idx
      /\ \A p \in 1 .. n : b[p] = z[p]
  OBVIOUS
<1>3. s \in [1 .. n -> T] /\ \A p \in 1 .. n : s[p] = w[z[p]].app
  BY DEF Stacked
<1>4. w[idx].app \in T
  OBVIOUS
<1> HIDE DEF s, b, T, n
<1>5. s \in Seq(T) /\ Len(s) = n
  BY <1>1, <1>3, FunctionLen
<1> DEFINE c == Append(s, w[idx].app)
<1>6. /\ c \in Seq(T) /\ Len(c) = n + 1 /\ c[n + 1] = w[idx].app
      /\ \A p \in 1 .. n : c[p] = s[p]
  BY <1>4, <1>5, AppendProperties
<1> HIDE DEF c
<1>7. DOMAIN b = 1 .. n + 1 /\ c = [p \in 1 .. n + 1 |-> c[p]]
  BY <1>2, <1>6
<1>8. ASSUME NEW p \in 1 .. n + 1 PROVE c[p] = w[b[p]].app
  <2>1. CASE p = n + 1
    BY <1>2, <1>6, <2>1
  <2>2. CASE p # n + 1
    <3>1. p \in 1 .. n
      BY <1>1, <2>2
    <3>2. c[p] = s[p] /\ s[p] = w[z[p]].app /\ b[p] = z[p]
      BY <1>1, <1>2, <1>3, <1>6, <3>1
    <3>3. QED
      BY <3>2
  <2>3. QED
    BY <2>1, <2>2
<1>9. Stacked(w, b) = c
  BY <1>7, <1>8 DEF Stacked
<1>10. QED
  BY <1>9 DEF b, c, s

\* bring_to_front
LEMMA StackedRaise ==
  ASSUME NEW n \in Nat, NEW z, Permutes(z, n), NEW w, NEW idx \in 0 .. n - 1,
         \A i, j \in 0 .. n - 1 : w[i].app = w[j].app => i = j
  PROVE  Stacked(w, BringToFront(z, idx)) = Stack!ToTop(Stacked(w, z), w[idx].app)
<1> DEFINE P == PosOf(z, idx)
           d == DropAt(z, P)
           S == 0 .. n - 1
<1>1. \E p \in DOMAIN z : z[p] = idx
  BY DEF Permutes
<1>2. BringToFront(z, idx) = Append(d, idx)
  BY <1>1 DEF BringToFront
<1>3. P \in 1 .. n
  BY <1>1, PosOfSlot
<1> HIDE DEF P
<1>4. d \in [1 .. n - 1 -> S]
  BY <1>3, DropKeeps
<1>5. Stack!Without(Stacked(w, z), w[idx].app) = Stacked(w, d)
  BY StackedWithout DEF P
<1> DEFINE k == n - 1
<1>6. idx \in S /\ d \in Seq(S)
  <2>1. k \in Nat /\ idx \in S /\ d \in [1 .. k -> S]
    BY <1>4
  <2> HIDE DEF d, S, k
  <2>2. QED
    BY <2>1, FunctionLen
<1> HIDE DEF d, S
<1>7. Stacked(w, Append(d, idx)) = Append(Stacked(w, d), w[idx].app)
  BY <1>6, StackedAppend
<1>8. QED
  BY <1>2, <1>5, <1>7 DEF Stack!ToTop

\* spawn_window
LEMMA StackedSpawn ==
  ASSUME NEW n \in Nat, NEW z, Permutes(z, n), NEW w, NEW v,
         \A i \in 0 .. n - 1 : v[i] = w[i] /\ w[i].app # v[n].app
  PROVE  Stacked(v, Append(z, n)) = Stack!ToTop(Stacked(w, z), v[n].app)
<1> DEFINE S == 0 .. n
<1>1. z \in [1 .. n -> 0 .. n - 1] /\ z \in [1 .. n -> S] /\ n \in S
  BY DEF Permutes
<1>2. Stacked(v, Append(z, n)) = Append(Stacked(v, z), v[n].app)
  <2> HIDE DEF S
  <2>1. z \in Seq(S)
    BY <1>1, FunctionLen
  <2>2. QED
    BY <1>1, <2>1, StackedAppend
<1>3. Stacked(v, z) = Stacked(w, z)
  BY <1>1 DEF Stacked
<1>4. \A p \in DOMAIN Stacked(w, z) : Stacked(w, z)[p] # v[n].app
  BY <1>1 DEF Stacked
<1>5. Stack!Without(Stacked(w, z), v[n].app) = Stacked(w, z)
  BY <1>4 DEF Stack!Without
<1>6. QED
  BY <1>2, <1>3, <1>5 DEF Stack!ToTop

\* close_window
LEMMA StackedClose ==
  ASSUME IInv, OwnInv, NEW idx \in Live, CloseWindow(idx)
  PROVE  Stacked(windows', z_order') = Stack!Without(Stacked(windows, z_order), windows[idx].app)
<1> DEFINE P == PosOf(z_order, idx)
           d == DropAt(z_order, P)
<1>1. /\ count \in Nat /\ count - 1 \in Nat /\ Permutes(z_order, count)
      /\ idx \in 0 .. count - 1
      /\ \A i, j \in 0 .. count - 1 : windows[i].app = windows[j].app => i = j
  BY LiveFacts, DesktopAssumption
  DEF IInv, ListsInv, Ordered, count, Live, OwnInv, Owned
<1>2. P \in 1 .. count /\ z_order[P] = idx
  <2>1. \E p \in DOMAIN z_order : z_order[p] = idx
    BY <1>1 DEF Permutes
  <2>2. QED
    BY <1>1, <2>1, PosOfSlot
<1> HIDE DEF P
<1>3. d \in [1 .. count - 1 -> (0 .. count - 1) \ {idx}]
  BY <1>1, <1>2, DropKeeps
<1>4. Stack!Without(Stacked(windows, z_order), windows[idx].app) = Stacked(windows, d)
  BY <1>1, StackedWithout DEF P
<1>5. z_order' = [p \in DOMAIN d |-> IF d[p] > idx THEN d[p] - 1 ELSE d[p]]
  BY DEF CloseWindow, Renumbered, P
<1> HIDE DEF d
<1>6. ASSUME NEW p \in 1 .. count - 1 PROVE windows'[z_order'[p]] = windows[d[p]]
  <2>1. d[p] \in 0 .. count - 1 /\ d[p] # idx /\ d[p] \in Int /\ idx \in Int
    BY <1>1, <1>3
  <2>2. CASE d[p] > idx
    <3>1. z_order'[p] = d[p] - 1 /\ d[p] - 1 \in 0 .. count - 2 /\ idx <= d[p] - 1
      BY <1>1, <1>3, <1>5, <2>1, <2>2
    <3>2. windows'[d[p] - 1] = windows[(d[p] - 1) + 1]
      BY <3>1, CloseMeans
    <3>3. QED
      BY <2>1, <3>1, <3>2
  <2>3. CASE ~(d[p] > idx)
    <3>1. z_order'[p] = d[p] /\ d[p] \in 0 .. count - 2 /\ d[p] < idx
      BY <1>1, <1>3, <1>5, <2>1, <2>3
    <3>2. QED
      BY <3>1, CloseMeans
  <2>4. QED
    BY <2>2, <2>3
<1>7. DOMAIN z_order' = 1 .. count - 1 /\ DOMAIN d = 1 .. count - 1
  BY <1>3, <1>5
<1>8. Stacked(windows', z_order') = Stacked(windows, d)
  BY <1>6, <1>7 DEF Stacked
<1>9. QED
  BY <1>4, <1>8

-----------------------------------------------------------------------------
(***************************************************************************)
(* The steps of the desktop, by the names of its windows                   *)
(***************************************************************************)
names == Stacked(windows, z_order)

\* What the lemmas above ask of the lists.
LEMMA NamesFacts ==
  ASSUME IInv, OwnInv
  PROVE  /\ count \in Nat /\ Permutes(z_order, count)
         /\ \A i, j \in 0 .. count - 1 : windows[i].app = windows[j].app => i = j
         /\ \A i \in Live : i \in 0 .. count - 1 /\ windows[i].app \in Kinds
<1>1. count \in 0 .. MaxWindows /\ Live \subseteq Slot
  BY LiveFacts DEF IInv
<1>2. count \in Nat /\ Permutes(z_order, count)
  BY <1>1, DesktopAssumption DEF IInv, ListsInv, Ordered, count
<1>3. \A i \in Live : windows[i].app \in Kinds
  BY <1>1 DEF IInv, ListsInv, WindowsType
<1>4. QED
  BY <1>2, <1>3 DEF OwnInv, Owned, Live

LEMMA RaisedNames ==
  ASSUME IInv, OwnInv, Raised
  PROVE  (\E a \in Kinds : Stack!Open(a)) \/ names' = names
<1>1. PICK idx \in Live \cup {NoSlot} :
        windows' = windows /\ z_order' = BringToFront(z_order, idx)
  BY DEF Raised
<1>2. CASE idx = NoSlot
  BY <1>1, <1>2, RaiseNone DEF IInv, names
<1>3. CASE idx \in Live
  <2>1. names' = Stacked(windows, BringToFront(z_order, idx))
    BY <1>1 DEF names
  <2>2. names' = Stack!ToTop(names, windows[idx].app)
    BY <1>3, <2>1, NamesFacts, StackedRaise DEF names
  <2>3. windows[idx].app \in Kinds
    BY <1>3, NamesFacts
  <2>4. QED
    BY <2>2, <2>3 DEF Stack!Open, names, Stacked
<1>4. QED
  BY <1>1, <1>2, <1>3

\* window_spawn_or_focus
LEMMA OpenedNames ==
  ASSUME IInv, OwnInv, NEW app \in Apps
  PROVE  LET list == Opened(app)
             s    == Stacked(list.windows, list.z_order)
         IN  IF list.slot = NoSlot THEN s = names
             ELSE s = Stack!ToTop(names, app)
<1> DEFINE list == Opened(app)
<1>1. /\ list.slot # NoSlot => list.windows[list.slot].app = app
      /\ \A i \in Live : list.windows[i] = windows[i]
      /\ \/ /\ list.slot \in Live \cup {NoSlot} /\ list.windows = windows
            /\ list.z_order = BringToFront(z_order, list.slot)
         \/ /\ list.slot = count
            /\ list.z_order = Append(z_order, count)
            /\ \A i \in Live : windows[i].app # app
  BY OpenedMeans
<1>2. count # NoSlot
  BY NamesFacts DEF NoSlot
<1> HIDE DEF list
<1>3. CASE list.slot = NoSlot
  BY <1>1, <1>2, <1>3, RaiseNone DEF IInv, names, list
<1>4. CASE list.slot \in Live /\ list.windows = windows
           /\ list.z_order = BringToFront(z_order, list.slot)
  <2>1. Stacked(windows, BringToFront(z_order, list.slot))
          = Stack!ToTop(names, windows[list.slot].app)
    BY <1>4, NamesFacts, StackedRaise DEF names
  <2>2. list.slot # NoSlot
    BY <1>4, NamesFacts DEF NoSlot
  <2>3. QED
    BY <1>1, <1>4, <2>1, <2>2 DEF list
<1>5. CASE /\ list.slot = count
           /\ list.z_order = Append(z_order, count)
           /\ \A i \in Live : windows[i].app # app
  <2>1. list.windows[count].app = app
    BY <1>1, <1>2, <1>5
  <2>2. \A i \in 0 .. count - 1 : /\ list.windows[i] = windows[i]
                                  /\ windows[i].app # list.windows[count].app
    BY <1>1, <1>5, <2>1 DEF Live
  <2>3. Stacked(list.windows, Append(z_order, count))
          = Stack!ToTop(Stacked(windows, z_order), list.windows[count].app)
    <3> DEFINE v == list.windows
    <3>1. count \in Nat /\ Permutes(z_order, count)
      BY NamesFacts
    <3>2. \A i \in 0 .. count - 1 : v[i] = windows[i] /\ windows[i].app # v[count].app
      BY <2>2
    <3> HIDE DEF v
    <3>3. Stacked(v, Append(z_order, count))
            = Stack!ToTop(Stacked(windows, z_order), v[count].app)
      BY <3>1, <3>2, StackedSpawn
    <3>4. QED
      BY <3>3 DEF v
  <2>4. QED
    BY <1>2, <1>5, <2>1, <2>3 DEF list, names
<1>6. QED
  BY <1>1, <1>3, <1>4, <1>5

LEMMA ShowNames ==
  ASSUME IInv, OwnInv, OpenTerminal \/ OpenFromStart
  PROVE  (\E a \in Kinds : Stack!Open(a)) \/ names' = names
<1>1. PICK app \in Apps : Show(Opened(app))
  BY DEF OpenTerminal, OpenFromStart
<1>2. names' = Stacked(Opened(app).windows, Opened(app).z_order)
  BY <1>1 DEF Show, names
<1>3. names' = names \/ names' = Stack!ToTop(names, app)
  BY <1>2, OpenedNames
<1>4. app \in Kinds
  BY DEF Kinds
<1>5. QED
  BY <1>3, <1>4 DEF Stack!Open, names, Stacked

\* files_on_click on a file
LEMMA OpenFileNames ==
  ASSUME IInv, OwnInv, OpenFile
  PROVE  Stack!Launch \/ (\E a \in Kinds : Stack!Open(a))
<1>1. PICK idx \in FilesWindows :
        /\ "TextEdit" \in Apps
        /\ LET list  == Opened("TextEdit")
               under == BringToFront(z_order, idx)
           IN  /\ windows' = list.windows
               /\ z_order' = IF list.slot \in Live THEN BringToFront(under, list.slot)
                             ELSE IF list.slot = NoSlot THEN under
                             ELSE Append(under, list.slot)
  BY DEF OpenFile
<1> DEFINE list  == Opened("TextEdit")
           under == BringToFront(z_order, idx)
           below == Stack!ToTop(names, "Files")
<1>2. idx \in Live /\ windows[idx].app = "Files" /\ "Files" \in Kinds
  BY NamesFacts DEF FilesWindows
<1>3. Stacked(windows, under) = below
  BY <1>2, NamesFacts, StackedRaise DEF names
<1>4. Permutes(under, count)
  BY NamesFacts, RaiseKeeps
<1>5. \E p \in DOMAIN names : names[p] = "Files"
  <2>1. PICK p \in DOMAIN z_order : z_order[p] = idx
    BY <1>2, NamesFacts DEF Permutes
  <2>2. QED
    BY <1>2, <2>1 DEF names, Stacked
<1>6. Stack!Launch <=> names' = Stack!ToTop(below, "TextEdit")
  BY <1>5 DEF Stack!Launch, names, Stacked
<1>7. /\ list.slot # NoSlot => list.windows[list.slot].app = "TextEdit"
      /\ \A i \in Live : list.windows[i] = windows[i]
      /\ \/ list.slot \in Live \cup {NoSlot} /\ list.windows = windows
         \/ list.slot = count /\ \A i \in Live : windows[i].app # "TextEdit"
  BY <1>1, OpenedMeans
<1>8. /\ windows' = list.windows
      /\ z_order' = IF list.slot \in Live THEN BringToFront(under, list.slot)
                    ELSE IF list.slot = NoSlot THEN under
                    ELSE Append(under, list.slot)
  BY <1>1
<1>9. count # NoSlot /\ count \notin Live /\ NoSlot \notin Live
  BY NamesFacts DEF NoSlot, Live
<1> HIDE DEF list, under, below
<1>10. CASE list.slot = NoSlot
  <2>1. names' = below
    BY <1>3, <1>7, <1>8, <1>9, <1>10 DEF names
  <2>2. QED
    BY <1>2, <2>1 DEF Stack!Open, names, Stacked, below
<1>11. CASE list.slot \in Live
  <2>1. windows' = windows /\ windows[list.slot].app = "TextEdit"
    BY <1>7, <1>8, <1>9, <1>11
  <2>2. Stacked(windows, BringToFront(under, list.slot))
          = Stack!ToTop(below, "TextEdit")
    BY <1>3, <1>4, <1>11, <2>1, NamesFacts, StackedRaise
  <2>3. QED
    BY <1>6, <1>8, <1>11, <2>1, <2>2 DEF names
<1>12. CASE list.slot \notin Live /\ list.slot # NoSlot
  <2>1. /\ list.slot = count /\ z_order' = Append(under, count)
        /\ list.windows[count].app = "TextEdit"
        /\ \A i \in Live : list.windows[i] = windows[i] /\ windows[i].app # "TextEdit"
    BY <1>7, <1>8, <1>12
  <2>2. \A i \in 0 .. count - 1 : /\ list.windows[i] = windows[i]
                                  /\ windows[i].app # list.windows[count].app
    BY <2>1 DEF Live
  <2>3. Stacked(list.windows, Append(under, count)) = Stack!ToTop(below, "TextEdit")
    <3> DEFINE v == list.windows
    <3>1. count \in Nat /\ v[count].app = "TextEdit"
      BY <2>1, NamesFacts
    <3>2. \A i \in 0 .. count - 1 : v[i] = windows[i] /\ windows[i].app # v[count].app
      BY <2>2
    <3> HIDE DEF v
    <3>3. Stacked(v, Append(under, count))
            = Stack!ToTop(Stacked(windows, under), v[count].app)
      BY <1>4, <3>1, <3>2, StackedSpawn
    <3>4. QED
      BY <1>3, <3>1, <3>3 DEF v
  <2>4. QED
    BY <1>6, <1>8, <2>1, <2>3 DEF names
<1>13. QED
  BY <1>10, <1>11, <1>12

LEMMA EnterNames ==
  ASSUME IInv, StartDesktop \/ RunDesktop
  PROVE  Stack!Restart \/ names' = names
<1>1. PICK outer, blocks : EnterDesktop(outer, blocks)
  BY DEF StartDesktop, RunDesktop
<1>2. CASE NewObject("Screen") = Null
  BY <1>1, <1>2 DEF EnterDesktop, names
<1>3. CASE NewObject("Screen") # Null
  <2>1. /\ windows' = [windows EXCEPT ![0] = [app |-> "None", state |-> Null]]
        /\ z_order' = <<0>>
    BY <1>1, <1>3 DEF EnterDesktop
  <2>2. windows'[0].app = "None"
    <3>1. 0 \in Slot /\ windows \in WindowsType
      BY DesktopAssumption DEF Slot, IInv, ListsInv
    <3>2. QED
      BY <2>1, <3>1 DEF WindowsType
  <2>3. names' = <<"None">>
    BY <2>1, <2>2 DEF names, Stacked
  <2>4. QED
    BY <2>3 DEF Stack!Restart, names, Stacked
<1>4. QED
  BY <1>2, <1>3

LEMMA NextNames ==
  ASSUME IInv, OwnInv, [Next]_vars
  PROVE  Stack!Next \/ names' = names
<1>1. CASE StartDesktop \/ RunDesktop
  BY <1>1, EnterNames DEF Stack!Next
<1>2. CASE \/ NoClick \/ SelectWindow \/ ToggleStart \/ MissTaskbar \/ ToggleMenu
           \/ PickRow \/ ClickBody \/ ClickElsewhere \/ OpenDirectory
           \/ NoKey \/ EditKey \/ PromptKey \/ TypeKey \/ RunCommand \/ Resume
  BY <1>2, RaisedSteps, RaisedNames DEF Stack!Next
<1>3. CASE OpenTerminal \/ OpenFromStart
  BY <1>3, ShowNames DEF Stack!Next
<1>4. CASE OpenFile
  BY <1>4, OpenFileNames DEF Stack!Next
<1>5. CASE ClickClose
  <2>1. PICK idx \in Live : CloseWindow(idx)
    BY <1>5 DEF ClickClose
  <2>2. names' = Stack!Without(names, windows[idx].app) /\ windows[idx].app \in Kinds
    BY <2>1, StackedClose, NamesFacts DEF names
  <2>3. QED
    BY <2>2 DEF Stack!Next, Stack!Close, names, Stacked
<1>6. CASE ReturnToShell
  BY <1>6 DEF ReturnToShell, names
<1>7. CASE UNCHANGED vars
  BY <1>7 DEF vars, names
<1>8. QED
  BY <1>1, <1>2, <1>3, <1>4, <1>5, <1>6, <1>7 DEF Next

\* By name the desktop's windows are a stack, whatever slots they have had:
\* every step of the loop opens, raises, launches, closes, restarts or leaves
\* the names in their order (window.c: bring_to_front and close_window).
THEOREM DesktopImplementsStack == Spec => ImplementsStack
<1>1. Init => Stack!Init
  BY DEF Init, Stack!Init
<1>2. IInv /\ OwnInv /\ [Next]_vars
        => [Stack!Next]_[p \in DOMAIN z_order |-> windows[z_order[p]].app]
  BY NextNames DEF names, Stacked
<1>3. QED
  BY <1>1, <1>2, Invariance, OwnInvariance, PTL DEF Spec, ImplementsStack, Stack!Spec

-----------------------------------------------------------------------------
(***************************************************************************)
(* The rows of the File menu.  While they are there, the window they mean  *)
(* is the editor that was in front at the end of the last turn; or, after  *)
(* desktop() has been entered anew, one that the only window of the new    *)
(* list has not replaced yet; or this turn ends by clearing the rows,      *)
(* before which no line of a terminal can be run.                          *)
(***************************************************************************)
Current == items # << >> /\ focusWin # NoSlot
Owns    == LET o == windows[focusWin].state
           IN  o # Null => object[o].kind = "TextEdit"
Typed   == Front("Terminal") # Null /\ object[Front("Terminal")].text > 0

Editor == /\ focusWin = me.lastTop /\ focusWin \in Live
          /\ windows[focusWin].app = "TextEdit"
Stale  == /\ z_order = <<0>> /\ windows[0].app = "None" /\ me.lastTop = 0
          /\ Owns
Moved  == me.phase # "poll" /\ me.consumed /\ me.lastTop # top /\ ~Typed

FocusInv ==
  ~resumed =>
    /\ InLoop("poll") => me.lastTop = top
    /\ Current => IF frames = << >> THEN Owns ELSE Editor \/ Stale \/ Moved

LEMMA FocusFacts ==
  ASSUME IInv, Current
  PROVE  /\ focusWin \in Slot /\ windows[focusWin].state \in Object \cup {Null}
         /\ windows \in WindowsType /\ object \in [Object -> Block]
<1>1. focusWin \in Slot
  BY DEF Current, IInv, MenusInv
<1>2. QED
  BY <1>1 DEF IInv, ListsInv, WindowsType

LEMMA EditorOwns == ASSUME OwnInv, Editor PROVE Owns
BY DEF OwnInv, Owned, Editor, Owns, Live

\* A list of one window is that of slot 0.
LEMMA OneWindow == ASSUME NEW z, Permutes(z, 1) PROVE z = <<0>>
<1>1. z \in [1 .. 1 -> 0 .. 0]
  BY DEF Permutes
<1>2. z[1] = 0 /\ DOMAIN z = 1 .. 1
  BY <1>1
<1>3. QED
  BY <1>1, <1>2

LEMMA RaisedFocus ==
  ASSUME IInv, Raised
  PROVE  /\ count' = count /\ Live' = Live
         /\ z_order = <<0>> => z_order' = <<0>>
         /\ Current /\ Owns /\ UNCHANGED focusWin => Owns'
<1>1. PICK idx \in Live \cup {NoSlot} : z_order' = BringToFront(z_order, idx)
  BY DEF Raised
<1>2. Ordered(z_order') /\ Len(z_order') = Len(z_order)
  BY <1>1, RaiseOrdered DEF IInv, ListsInv
<1>3. count' = count /\ Live' = Live
  BY <1>2 DEF count, Live
<1>4. z_order = <<0>> => z_order' = <<0>>
  <2>1. z_order = <<0>> => Len(z_order) = 1
    OBVIOUS
  <2>2. QED
    BY <1>2, <2>1, OneWindow DEF Ordered
<1>5. ASSUME Current, Owns, UNCHANGED focusWin PROVE Owns'
  <2>1. windows[focusWin].state \in Object \cup {Null}
    BY <1>5, FocusFacts
  <2>2. QED
    BY <1>5, <2>1 DEF Owns, Raised, SameKinds
<1>6. QED
  BY <1>3, <1>4, <1>5

\* A click, or none: the locals that the invariant is about.
LEMMA PollLocals ==
  ASSUME IInv, FocusInv, ~resumed, UNCHANGED <<items, focusWin>>,
         \/ NoClick /\ UNCHANGED z_order
         \/ \E consumed \in BOOLEAN, body \in Live \cup {NoSlot} : Click(consumed, body)
  PROVE  /\ frames # << >> /\ frames' # << >> /\ UNCHANGED resumed
         /\ me'.phase = "key" /\ me'.lastTop = me.lastTop /\ me.lastTop = top
         /\ Current' = Current /\ (Current => Editor \/ Stale)
<1>1. frames # << >> /\ me.phase = "poll" /\ UNCHANGED resumed
  BY DEF NoClick, Click, InLoop
<1>2. me \in Loop /\ frames \in Seq(Loop) /\ Live \subseteq Slot
  BY <1>1, MeFacts, LiveFacts DEF IInv, LoopsInv
<1>3. PICK loop \in Loop : /\ SetLoop(loop) /\ loop.phase = "key"
                           /\ loop.lastTop = me.lastTop
  <2>1. CASE NoClick
    <3>1. PICK pressed \in {FALSE, me.pressed} :
            SetLoop([me EXCEPT !.phase = "key", !.pressed = pressed])
      BY <2>1 DEF NoClick
    <3> DEFINE loop == [me EXCEPT !.phase = "key", !.pressed = pressed]
    <3>2. loop \in Loop /\ loop.phase = "key" /\ loop.lastTop = me.lastTop
      BY <1>2 DEF Loop
    <3>3. SetLoop(loop)
      BY <3>1
    <3> HIDE DEF loop
    <3>4. QED
      BY <3>2, <3>3
  <2>2. ASSUME NEW consumed \in BOOLEAN, NEW body \in Live \cup {NoSlot},
               Click(consumed, body)
        PROVE  \E loop \in Loop : /\ SetLoop(loop) /\ loop.phase = "key"
                                  /\ loop.lastTop = me.lastTop
    <3> DEFINE loop == [me EXCEPT !.phase = "key", !.pressed = TRUE,
                                  !.consumed = consumed, !.body = body]
    <3>1. loop \in Loop /\ loop.phase = "key" /\ loop.lastTop = me.lastTop
      BY <1>2 DEF Loop
    <3>2. SetLoop(loop)
      BY <2>2 DEF Click
    <3> HIDE DEF loop
    <3>3. QED
      BY <3>1, <3>2
  <2>3. QED
    BY <2>1, <2>2
<1>4. me' = loop
  BY <1>1, <1>3, MeAfter DEF IInv
<1>5. frames' # << >>
  <2>1. Len(frames') = Len(frames)
    BY <1>2, <1>3 DEF SetLoop
  <2>2. Len(frames) # 0
    BY <1>1, <1>2, EmptySeq
  <2>3. QED
    BY <2>1, <2>2
<1>6. Current' = Current
  BY DEF Current
<1>7. me.lastTop = top /\ (Current => Editor \/ Stale)
  BY <1>1 DEF FocusInv, InLoop, Moved
<1>8. QED
  BY <1>1, <1>3, <1>4, <1>5, <1>6, <1>7

LEMMA PollRaised ==
  ASSUME IInv, FocusInv, Raised, UNCHANGED <<items, focusWin>>,
         \/ NoClick /\ UNCHANGED z_order
         \/ \E consumed \in BOOLEAN, body \in Live \cup {NoSlot} : Click(consumed, body)
  PROVE  FocusInv'
<1>1. CASE ~resumed
  <2>1. /\ frames' # << >> /\ me'.phase = "key" /\ me'.lastTop = me.lastTop
        /\ Current' = Current /\ (Current => Editor \/ Stale)
    BY <1>1, PollLocals
  <2>2. ASSUME Editor PROVE Editor'
    BY <2>1, <2>2, RaisedFocus DEF Editor, Raised
  <2>3. ASSUME Current, Stale PROVE Stale'
    BY <2>1, <2>3, RaisedFocus DEF Stale, Raised
  <2>4. QED
    BY <2>1, <2>2, <2>3 DEF FocusInv, InLoop
<1>2. CASE resumed
  <2>1. resumed'
    BY <1>2 DEF NoClick, Click
  <2>2. QED
    BY <2>1 DEF FocusInv
<1>3. QED
  BY <1>1, <1>2

LEMMA ClickConsumes ==
  ASSUME IInv, NEW consumed \in BOOLEAN, NEW body \in Live \cup {NoSlot},
         Click(consumed, body)
  PROVE  me'.consumed = consumed /\ me'.phase = "key"
<1> DEFINE loop == [me EXCEPT !.phase = "key", !.pressed = TRUE,
                              !.consumed = consumed, !.body = body]
<1>1. frames # << >> /\ SetLoop(loop)
  BY DEF Click, InLoop
<1>2. me \in Loop /\ Live \subseteq Slot
  BY <1>1, MeFacts, LiveFacts DEF IInv
<1>3. loop \in Loop /\ loop.consumed = consumed /\ loop.phase = "key"
  BY <1>2 DEF Loop
<1> HIDE DEF loop
<1>4. QED
  BY <1>1, <1>3, MeAfter DEF IInv

\* A window that is opened over the only one of a new list.
LEMMA ShowFocus ==
  ASSUME IInv, OwnInv, FocusInv, OpenTerminal \/ OpenFromStart PROVE FocusInv'
<1>1. PICK app \in Apps : Show(Opened(app))
  BY DEF OpenTerminal, OpenFromStart
<1>2. Click(TRUE, NoSlot) /\ UNCHANGED <<items, focusWin>>
  BY DEF OpenTerminal, OpenFromStart, menuVars
<1> DEFINE list == Opened(app)
           new  == list.windows[count].state
<1>3. windows' = list.windows /\ z_order' = list.z_order /\ object' = list.object
  BY <1>1 DEF Show
<1>4. /\ \A i \in Live : list.windows[i] = windows[i]
      /\ list.slot # NoSlot => list.windows[list.slot].app = app
      /\ \/ /\ list.slot \in Live \cup {NoSlot}
            /\ list.windows = windows /\ list.object = object
            /\ list.z_order = BringToFront(z_order, list.slot)
         \/ /\ list.slot = count
            /\ list.z_order = Append(z_order, count)
            /\ \/ new = Null
               \/ /\ new \in Object
                  /\ list.object = [object EXCEPT ![new] = Blank(app)]
  BY OpenedMeans
<1>5. count # NoSlot /\ count \in Nat /\ z_order \in Seq(Slot) /\ object \in [Object -> Block]
  BY NamesFacts DEF NoSlot, IInv, ListsInv, Ordered
<1> HIDE DEF list
<1>6. CASE /\ list.slot \in Live \cup {NoSlot}
           /\ list.windows = windows /\ list.object = object
           /\ list.z_order = BringToFront(z_order, list.slot)
  <2>1. Raised
    BY <1>3, <1>6 DEF Raised, SameKinds
  <2>2. QED
    BY <1>2, <2>1, PollRaised
<1>7. CASE /\ list.slot = count
           /\ list.z_order = Append(z_order, count)
           /\ \/ new = Null
              \/ /\ new \in Object
                 /\ list.object = [object EXCEPT ![new] = Blank(app)]
  <2>1. CASE resumed
    BY <1>2, <2>1 DEF Click, FocusInv
  <2>2. CASE ~resumed
    <3>1. /\ frames' # << >> /\ me'.phase = "key" /\ me'.lastTop = me.lastTop
          /\ Current' = Current /\ (Current => Editor \/ Stale)
      BY <1>2, <2>2, PollLocals
    <3>2. me'.consumed
      BY <1>2, ClickConsumes
    <3>3. /\ Len(z_order') = count + 1 /\ z_order'[count + 1] = count
          /\ \A i \in Live : i \in Live'
      <4>1. Len(z_order) = count /\ z_order' = Append(z_order, count)
        BY <1>3, <1>7 DEF count
      <4>2. Len(Append(z_order, count)) = Len(z_order) + 1
            /\ Append(z_order, count)[Len(z_order) + 1] = count
        BY <1>5
      <4>3. Len(z_order') = count + 1 /\ z_order'[count + 1] = count
        BY <4>1, <4>2
      <4>4. QED
        BY <1>5, <4>3 DEF Live, count
    <3>4. top' = count
      BY <1>5, <3>3 DEF top, count
    <3>5. ASSUME Editor PROVE Editor'
      BY <1>3, <1>4, <1>2, <3>1, <3>3, <3>5 DEF Editor
    <3>6. ASSUME Stale PROVE Moved'
      <4>1. count = 1 /\ me'.lastTop = 0
        BY <3>1, <3>6 DEF Stale, count
      <4>2. ~Typed'
        <5>1. windows'[top'] = list.windows[count] /\ windows'[top'].app = app
          BY <1>3, <1>4, <1>5, <1>7, <3>4
        <5>2. Front("Terminal")' # Null => Front("Terminal")' = new
          BY <1>3, <3>4, <5>1 DEF Front
        <5>3. Front("Terminal")' # Null => object'[new].text = 0
          <6>1. Blank(app).text = 0
            BY DEF Blank
          <6>2. QED
            BY <1>3, <1>5, <1>7, <5>2, <6>1
        <5>4. QED
          BY <5>2, <5>3 DEF Typed
      <4>3. QED
        BY <3>1, <3>2, <3>4, <4>1, <4>2 DEF Moved
    <3>7. QED
      BY <3>1, <3>5, <3>6 DEF FocusInv, InLoop
  <2>3. QED
    BY <2>1, <2>2
<1>8. QED
  BY <1>4, <1>6, <1>7

\* files_on_click on a file
LEMMA OpenFileFocus ==
  ASSUME IInv, OwnInv, FocusInv, OpenFile PROVE FocusInv'
<1>1. PICK idx \in FilesWindows : ClickBelow(FALSE, idx)
  BY DEF OpenFile
<1>2. /\ idx \in Live /\ windows[idx].app = "Files"
      /\ Click(FALSE, idx) /\ UNCHANGED <<items, focusWin>>
  BY <1>1 DEF FilesWindows, ClickBelow, OpenFile
<1>3. /\ windows' = Opened("TextEdit").windows
      /\ count' = Len(Opened("TextEdit").z_order) /\ "TextEdit" \in Apps
  BY OpenFileCount DEF OpenFile
<1>4. /\ \A i \in Live : windows'[i] = windows[i]
      /\ count' \in {count, count + 1} /\ count \in Nat
  <2>1. PICK app, list, n :
          app = "TextEdit" /\ list = Opened(app) /\ n = Len(list.z_order)
    OBVIOUS
  <2>2. app \in Apps
    BY <1>3, <2>1
  <2>3. /\ \A i \in Live : list.windows[i] = windows[i]
        /\ n = count \/ n = count + 1
    BY <2>1, <2>2, OpenedMeans
  <2>4. windows' = list.windows /\ count' = n /\ count \in Nat
    BY <1>3, <2>1, NamesFacts
  <2>5. QED
    BY <2>3, <2>4
<1>5. CASE resumed
  BY <1>2, <1>5 DEF Click, FocusInv
<1>6. CASE ~resumed
  <2>1. /\ frames' # << >> /\ me'.phase = "key" /\ me'.lastTop = me.lastTop
        /\ Current' = Current /\ (Current => Editor \/ Stale)
    BY <1>2, <1>6, PollLocals
  <2>2. ~Stale
    <3>1. ASSUME Stale PROVE FALSE
      <4>1. count = 1
        BY <3>1 DEF Stale, count
      <4>2. idx = 0
        BY <1>2, <4>1 DEF Live
      <4>3. QED
        BY <1>2, <3>1, <4>2 DEF Stale
    <3>2. QED
      BY <3>1
  <2>3. ASSUME NEW i \in Live PROVE i \in Live'
    <3>1. count \in Nat /\ (count' = count \/ count' = count + 1)
      BY <1>4
    <3>2. i \in 0 .. count - 1
      BY DEF Live
    <3>3. i \in 0 .. count' - 1
      BY <3>1, <3>2
    <3>4. QED
      BY <3>3 DEF Live
  <2>4. Editor => Editor'
    BY <1>2, <1>4, <2>1, <2>3 DEF Editor
  <2>5. QED
    BY <2>1, <2>2, <2>4 DEF FocusInv, InLoop
<1>7. QED
  BY <1>5, <1>6

\* close_window
LEMMA CloseFocus ==
  ASSUME IInv, OwnInv, FocusInv, ClickClose PROVE FocusInv'
<1>1. PICK idx \in Live : CloseWindow(idx)
  BY DEF ClickClose
<1>2. Click(TRUE, NoSlot) /\ UNCHANGED items /\ focusWin' = FocusAfterClose(idx)
  BY <1>1 DEF ClickClose, ClickBelow, CloseWindow
<1>3. CASE resumed
  BY <1>2, <1>3 DEF Click, FocusInv
<1>4. CASE focusWin' = NoSlot
  <2>1. ~Current'
    BY <1>4 DEF Current
  <2>2. me'.phase = "key"
    BY <1>2, ClickConsumes
  <2>3. QED
    BY <2>1, <2>2 DEF FocusInv, InLoop
<1>5. CASE ~resumed /\ focusWin' # NoSlot
  <2>1. focusWin' = focusWin /\ ~(windows[idx].app = "TextEdit" /\ focusWin = idx)
    BY <1>2, <1>5 DEF FocusAfterClose
  <2>2. /\ frames' # << >> /\ me'.phase = "key" /\ me'.lastTop = me.lastTop
        /\ me.lastTop = top
        /\ Current' = Current /\ (Current => Editor \/ Stale)
    BY <1>2, <1>5, <2>1, PollLocals
  <2>3. me'.consumed
    BY <1>2, ClickConsumes
  <2>4. /\ count \in 1 .. MaxWindows /\ count' = count - 1 /\ count \in Nat
        /\ idx \in 0 .. count - 1 /\ Permutes(z_order, count)
        /\ z_order' = Renumbered(z_order, idx)
    BY <1>1, CloseMeans, NamesFacts DEF CloseWindow, Live
  <2>5. CASE Stale
    <3>1. count = 1 /\ count' = 0 /\ top' = NoSlot
      BY <2>4, <2>5 DEF Stale, count, top
    <3>2. ~Typed'
      BY <3>1 DEF Typed, Front
    <3>3. Moved'
      BY <2>2, <2>3, <2>5, <3>1, <3>2 DEF Moved, Stale, NoSlot
    <3>4. QED
      BY <2>2, <3>3 DEF FocusInv, InLoop
  <2>6. CASE Editor /\ focusWin < idx
    <3>1. focusWin \in 0 .. count - 2 /\ focusWin \in Live'
      BY <2>4, <2>6 DEF Editor, Live
    <3>2. windows'[focusWin] = windows[focusWin]
      BY <1>1, <2>6, <3>1, CloseMeans
    <3>3. Editor'
      BY <2>1, <2>2, <2>6, <3>1, <3>2 DEF Editor
    <3>4. QED
      BY <2>2, <3>3 DEF FocusInv, InLoop
  <2>7. CASE Editor /\ ~(focusWin < idx)
    <3>1. /\ focusWin \in 0 .. count - 1 /\ focusWin # idx /\ focusWin > idx
          /\ focusWin = z_order[count] /\ focusWin = me.lastTop
          /\ windows[focusWin].app = "TextEdit"
      BY <2>1, <2>2, <2>4, <2>7 DEF Editor, Live, top, NoSlot
    <3>2. top' = focusWin - 1
      <4> DEFINE P == PosOf(z_order, idx)
                 d == DropAt(z_order, P)
      <4>1. P \in 1 .. count /\ z_order[P] = idx
        <5>1. \E p \in DOMAIN z_order : z_order[p] = idx
          BY <2>4 DEF Permutes
        <5>2. QED
          BY <2>4, <5>1, PosOfSlot
      <4>2. z_order' = [p \in DOMAIN d |-> IF d[p] > idx THEN d[p] - 1 ELSE d[p]]
        BY <2>4 DEF Renumbered
      <4>3. d = [p \in 1 .. count - 1 |-> IF p < P THEN z_order[p] ELSE z_order[p + 1]]
        BY DEF DropAt, count
      <4> HIDE DEF P, d
      <4>4. count - 1 \in 1 .. count - 1 /\ P < count
        <5>1. P # count
          BY <3>1, <4>1
        <5>2. P \in 1 .. count /\ count \in Nat
          BY <2>4, <4>1
        <5>3. QED
          BY <5>1, <5>2
      <4>5. d[count - 1] = z_order[count]
        BY <2>4, <4>1, <4>3, <4>4
      <4>6. z_order'[count - 1] = focusWin - 1
        BY <3>1, <4>2, <4>3, <4>4, <4>5
      <4>7. count' = Len(z_order')
        BY DEF count
      <4>8. count - 1 # 0
        BY <4>4
      <4>9. QED
        BY <2>4, <4>6, <4>8 DEF top, count
    <3>3. windows'[focusWin - 1] = windows[focusWin]
      <4>1. focusWin - 1 \in 0 .. count - 2 /\ idx <= focusWin - 1
            /\ (focusWin - 1) + 1 = focusWin
        BY <2>4, <3>1
      <4>2. windows'[focusWin - 1] = windows[(focusWin - 1) + 1]
        BY <1>1, <4>1, CloseMeans
      <4>3. QED
        BY <4>1, <4>2
    <3>4. ~Typed'
      BY <3>1, <3>2, <3>3 DEF Typed, Front
    <3>5. Moved'
      BY <2>2, <2>3, <3>1, <3>2, <3>4 DEF Moved
    <3>6. QED
      BY <2>2, <3>5 DEF FocusInv, InLoop
  <2>8. QED
    BY <2>2, <2>5, <2>6, <2>7 DEF FocusInv, InLoop
<1>6. QED
  BY <1>3, <1>4, <1>5

\* The end of a turn: the rows are the editor's again, or cleared.
LEMMA TurnFocus ==
  ASSUME IInv, OwnInv, FocusInv,
         NoKey \/ EditKey \/ PromptKey \/ TypeKey \/ RunCommand \/ Resume
  PROVE  FocusInv'
<1>1. frames # << >> /\ EndTurn /\ UNCHANGED resumed
  BY DEF NoKey, EditKey, PromptKey, TypeKey, RunCommand, Resume, Key, InLoop
<1>2. Raised
  BY RaisedSteps
<1>3. PICK t \in {NoSlot} \cup
                  (IF me.pressed /\ me.dragging = NoSlot /\ ~me.consumed
                   THEN Live \ {me.body} ELSE {}) :
        LET z     == BringToFront(z_order, t)
            front == IF count = 0 THEN NoSlot ELSE z[count]
        IN  /\ z_order' = z
            /\ SetLoop([me EXCEPT !.phase = "poll", !.dragging = Dragged(t),
                                  !.consumed = FALSE, !.body = NoSlot,
                                  !.lastTop = front])
            /\ IF front = me.lastTop
                 THEN UNCHANGED <<focusWin, items>>
                 ELSE IF front # NoSlot /\ windows[front].app = "TextEdit"
                      THEN focusWin' = front
                      ELSE items' = << >>
  BY <1>1 DEF EndTurn
<1> DEFINE z     == BringToFront(z_order, t)
           front == IF count = 0 THEN NoSlot ELSE z[count]
           loop  == [me EXCEPT !.phase = "poll", !.dragging = Dragged(t),
                               !.consumed = FALSE, !.body = NoSlot,
                               !.lastTop = front]
<1>4. /\ z_order' = z /\ SetLoop(loop)
      /\ front = me.lastTop => UNCHANGED <<focusWin, items>>
      /\ front # me.lastTop =>
           \/ front # NoSlot /\ windows[front].app = "TextEdit" /\ focusWin' = front
           \/ items' = << >>
  BY <1>3
<1>5. count' = count /\ Live' = Live /\ windows' = windows
  BY <1>2, RaisedFocus DEF Raised
<1>6. front \in Live \cup {NoSlot} /\ front \in Slot \cup {NoSlot} /\ top' = front
  <2>1. Permutes(z, count) /\ count \in Nat /\ Live \subseteq Slot
    BY NamesFacts, RaiseKeeps, LiveFacts DEF IInv
  <2> HIDE DEF z
  <2>2. count # 0 => z[count] \in Live
    BY <2>1 DEF Permutes, Live
  <2>3. QED
    BY <1>4, <1>5, <2>1, <2>2 DEF top
<1>7. me' = loop /\ loop.lastTop = front
  <2>1. me \in Loop
    BY <1>1, MeFacts DEF IInv
  <2>2. t \in Slot \cup {NoSlot}
    BY LiveFacts DEF IInv
  <2>3. Dragged(t) \in Slot \cup {NoSlot}
    BY <2>1, <2>2 DEF Dragged, Loop
  <2> HIDE DEF front
  <2>4. loop \in Loop /\ loop.lastTop = front
    BY <1>6, <2>1, <2>3 DEF Loop
  <2> HIDE DEF loop
  <2>5. QED
    BY <1>1, <1>4, <2>4, MeAfter DEF IInv
<1>8. frames' # << >>
  <2>1. frames \in Seq(Loop) /\ Len(frames') = Len(frames) /\ Len(frames) # 0
    <3>1. frames \in Seq(Loop) /\ Len(frames) # 0
      BY <1>1, EmptySeq DEF IInv, LoopsInv
    <3> HIDE DEF loop
    <3>2. frames' = [frames EXCEPT ![Len(frames)] = loop]
      BY <1>4 DEF SetLoop
    <3>3. QED
      BY <3>1, <3>2
  <2>2. QED
    BY <2>1
<1>9. NoSlot \notin Live
  BY NamesFacts DEF NoSlot, Live
<1>10. me.consumed => z = z_order /\ front = top
  <2>1. me.consumed => t = NoSlot
    OBVIOUS
  <2>2. QED
    BY <2>1, RaiseNone DEF IInv, top
<1> HIDE DEF z, front, loop
<1>11. ASSUME ~resumed, Current' PROVE Editor' \/ Stale' \/ Moved'
  <2>1. CASE front # me.lastTop
    <3>1. front # NoSlot /\ windows[front].app = "TextEdit" /\ focusWin' = front
      BY <1>4, <1>11, <2>1 DEF Current
    <3>2. Editor'
      BY <1>5, <1>6, <1>7, <3>1 DEF Editor
    <3>3. QED
      BY <3>2
  <2>2. CASE front = me.lastTop
    <3>1. UNCHANGED <<focusWin, items>> /\ Current /\ (Editor \/ Stale \/ Moved)
      BY <1>1, <1>4, <1>11, <2>2 DEF FocusInv, Current
    <3>2. Editor => Editor'
      BY <1>5, <1>7, <2>2, <3>1 DEF Editor
    <3>3. Stale => Stale'
      BY <1>2, <1>5, <1>7, <2>2, <3>1, RaisedFocus DEF Stale
    <3>4. ~Moved
      BY <1>10, <2>2 DEF Moved
    <3>5. QED
      BY <3>1, <3>2, <3>3, <3>4
  <2>3. QED
    BY <2>1, <2>2
<1>12. QED
  BY <1>1, <1>6, <1>7, <1>8, <1>11 DEF FocusInv

\* desktop() entered anew: its list has one window, which is not the editor's.
LEMMA EnterFocus ==
  ASSUME IInv, OwnInv, FocusInv, StartDesktop \/ RunDesktop PROVE FocusInv'
<1>1. /\ UNCHANGED <<items, focusWin, resumed>> /\ Current' = Current
  BY DEF StartDesktop, RunDesktop, EnterDesktop, menuVars, Current
<1>2. ASSUME RunDesktop, Current, ~resumed PROVE Editor
  <2>1. frames # << >> /\ (Editor \/ Stale \/ Moved)
    BY <1>2 DEF FocusInv, RunDesktop, InLoop
  <2>2. Typed
    BY <1>2 DEF RunDesktop, Typed
  <2>3. ~Stale
    BY <2>2 DEF Typed, Stale, Front, top, count
  <2>4. QED
    BY <2>1, <2>2, <2>3 DEF Moved
<1>3. Current /\ ~resumed => Owns
  <2>1. CASE StartDesktop
    BY <2>1 DEF StartDesktop, FocusInv
  <2>2. CASE RunDesktop
    BY <1>2, <2>2, EditorOwns
  <2>3. QED
    BY <2>1, <2>2
<1>4. CASE NewObject("Screen") = Null /\ StartDesktop
  BY <1>1, <1>4 DEF StartDesktop, EnterDesktop, FocusInv, Owns, InLoop
<1>5. CASE NewObject("Screen") = Null /\ RunDesktop
  <2> DEFINE loop == [me EXCEPT !.phase = "resume", !.body = NoSlot]
  <2>1. frames # << >> /\ SetLoop(loop) /\ UNCHANGED <<windows, z_order>>
    BY <1>5 DEF RunDesktop, EnterDesktop, InLoop, SetLoop
  <2>2. me \in Loop
    BY <2>1, MeFacts DEF IInv
  <2>3. loop \in Loop /\ loop.lastTop = me.lastTop /\ loop.phase = "resume"
    BY <2>2 DEF Loop
  <2> HIDE DEF loop
  <2>4. me' = loop
    BY <2>1, <2>3, MeAfter DEF IInv
  <2>5. Editor => Editor'
    BY <1>1, <2>1, <2>3, <2>4 DEF Editor, Live, count
  <2>6. frames' # << >>
    <3>1. frames \in Seq(Loop) /\ Len(frames) # 0
      BY <2>1, EmptySeq DEF IInv, LoopsInv
    <3>2. frames' = [frames EXCEPT ![Len(frames)] = loop]
      BY <2>1 DEF SetLoop
    <3>3. Len(frames') = Len(frames)
      BY <3>1, <3>2
    <3>4. QED
      BY <3>1, <3>3
  <2>7. QED
    BY <1>1, <1>2, <1>5, <2>3, <2>4, <2>5, <2>6 DEF FocusInv, InLoop
<1>6. CASE NewObject("Screen") # Null
  <2> DEFINE o == NewObject("Screen")
  <2>1. /\ frames' # << >> /\ me'.lastTop = 0 /\ me'.phase = "poll"
    BY <1>6, EnterMe
  <2>2. /\ windows' = [windows EXCEPT ![0] = [app |-> "None", state |-> Null]]
        /\ z_order' = <<0>>
    BY <1>6 DEF StartDesktop, RunDesktop, EnterDesktop
  <2>3. \E blocks : /\ object' = [blocks EXCEPT ![o] = Blank("Screen")]
                    /\ blocks \in [Object -> Block]
                    /\ \A q \in Object : blocks[q].kind = object[q].kind
    <3>1. CASE StartDesktop
      BY <1>6, <3>1 DEF StartDesktop, EnterDesktop, IInv, ListsInv
    <3>2. CASE RunDesktop
      <4> DEFINE q == Front("Terminal")
      <4>1. /\ q # Null /\ object' = [LineTaken(q) EXCEPT ![o] = Blank("Screen")]
        BY <1>6, <3>2 DEF RunDesktop, EnterDesktop
      <4>2. q \in Object /\ object \in [Object -> Block]
        BY <4>1, FrontKind DEF IInv, ListsInv
      <4> HIDE DEF q, o
      <4>3. LineTaken(q) \in [Object -> Block]
        BY <4>2, LineFacts DEF IInv
      <4>4. \A r \in Object : LineTaken(q)[r].kind = object[r].kind
        BY <4>2 DEF LineTaken, Block
      <4>5. QED
        BY <4>1, <4>3, <4>4
    <3>3. QED
      BY <3>1, <3>2
  <2>4. o \in Object /\ object[o].kind = "free"
    BY <1>6, NewObjectFree
  <2>5. 0 \in Slot /\ windows \in WindowsType
    BY DesktopAssumption DEF Slot, IInv, ListsInv
  <2> HIDE DEF o
  <2>6. windows'[0].app = "None" /\ windows'[0].state = Null
    BY <2>2, <2>5 DEF WindowsType
  <2>7. top' = 0
    BY <2>2 DEF top, count
  <2>8. ASSUME Current, ~resumed PROVE Owns'
    <3>1. CASE focusWin = 0
      BY <1>1, <2>6, <3>1 DEF Owns
    <3>2. CASE focusWin # 0
      <4>1. focusWin \in Slot /\ windows[focusWin].state \in Object \cup {Null}
        BY <2>8, FocusFacts
      <4>2. windows'[focusWin] = windows[focusWin]
        BY <2>2, <2>5, <3>2, <4>1 DEF WindowsType
      <4>3. windows[focusWin].state # Null => object[windows[focusWin].state].kind = "TextEdit"
        BY <1>3, <2>8 DEF Owns
      <4>4. windows[focusWin].state # Null =>
              object'[windows[focusWin].state].kind = object[windows[focusWin].state].kind
        BY <2>3, <2>4, <4>1, <4>3
      <4>5. QED
        BY <1>1, <4>2, <4>3, <4>4 DEF Owns
    <3>3. QED
      BY <3>1, <3>2
  <2>9. ASSUME Current, ~resumed PROVE Stale'
    BY <2>1, <2>2, <2>6, <2>8, <2>9 DEF Stale
  <2>10. QED
    BY <1>1, <2>1, <2>7, <2>9 DEF FocusInv
<1>7. QED
  BY <1>4, <1>5, <1>6

\* Back to the shell, the rows stay: they mean what they meant.
LEMMA ReturnFocus == ASSUME IInv, OwnInv, FocusInv, ReturnToShell PROVE FocusInv'
<1>1. /\ frames # << >> /\ frames' = SubSeq(frames, 1, Len(frames) - 1)
      /\ resumed' = (resumed \/ Len(frames) > 1)
      /\ me.phase = "poll"
      /\ object' = Freed(me.screen)
      /\ UNCHANGED <<windows, items, focusWin>>
  BY DEF ReturnToShell, InLoop
<1>2. frames \in Seq(Loop) /\ Len(frames) \in 1 .. Len(frames) /\ me \in Loop
  BY <1>1, MeFacts DEF IInv, LoopsInv
<1>3. CASE resumed'
  BY <1>3 DEF FocusInv
<1>4. CASE ~resumed'
  <2>1. ~resumed /\ Len(frames) = 1
    <3> DEFINE n == Len(frames)
    <3>1. n \in Nat /\ n # 0 /\ ~resumed /\ ~(n > 1)
      BY <1>1, <1>2, <1>4, EmptySeq
    <3> HIDE DEF n
    <3>2. n = 1
      BY <3>1
    <3>3. QED
      BY <3>1, <3>2 DEF n
  <2>2. frames' = << >>
    BY <1>1, <2>1
  <2>3. ASSUME Current PROVE Owns'
    <3>1. Owns
      BY <1>1, <2>1, <2>3, EditorOwns DEF FocusInv, Stale, Moved
    <3>2. windows[focusWin].state \in Object \cup {Null} /\ object \in [Object -> Block]
      BY <2>3, FocusFacts
    <3>3. object[me.screen].kind = "Screen"
      <4>1. 1 \in 1 .. Len(frames) /\ me = frames[1] /\ me.screen \in Object
        BY <1>2, <2>1 DEF me, Loop
      <4>2. QED
        BY <4>1 DEF OwnInv, Screens
    <3>4. windows[focusWin].state # Null =>
            object'[windows[focusWin].state] = object[windows[focusWin].state]
      BY <1>1, <3>1, <3>2, <3>3 DEF Owns, Freed
    <3>5. QED
      BY <1>1, <3>1, <3>4 DEF Owns
  <2>4. Current' = Current
    BY <1>1 DEF Current
  <2>5. QED
    BY <2>2, <2>3, <2>4 DEF FocusInv, InLoop
<1>5. QED
  BY <1>3, <1>4

LEMMA NextFocus == IInv /\ OwnInv /\ FocusInv /\ [Next]_vars => FocusInv'
<1> SUFFICES ASSUME IInv, OwnInv, FocusInv, [Next]_vars PROVE FocusInv'
  OBVIOUS
<1>1. CASE UNCHANGED vars
  BY <1>1 DEF vars, menuVars, FocusInv, InLoop, me, top, count, Live, Current, Owns, Typed,
              Editor, Stale, Moved, Front
<1>2. CASE \/ NoClick \/ SelectWindow \/ ToggleStart \/ MissTaskbar \/ ToggleMenu
           \/ PickRow \/ ClickBody \/ ClickElsewhere \/ OpenDirectory
  <2>1. Raised
    BY <1>2, RaisedSteps
  <2>2. UNCHANGED <<items, focusWin>>
    BY <1>2 DEF NoClick, SelectWindow, ToggleStart, MissTaskbar, ToggleMenu, PickRow,
                ClickBody, ClickElsewhere, OpenDirectory, ClickBelow, menuVars
  <2>3. \/ NoClick /\ UNCHANGED z_order
        \/ \E consumed \in BOOLEAN, body \in Live \cup {NoSlot} : Click(consumed, body)
    BY <1>2 DEF NoClick, SelectWindow, ToggleStart, MissTaskbar, ToggleMenu, PickRow,
                ClickBody, ClickElsewhere, OpenDirectory, ClickBelow, screenVars,
                FilesWindows
  <2>4. QED
    BY <2>1, <2>2, <2>3, PollRaised
<1>3. QED
  BY <1>1, <1>2, ShowFocus, OpenFileFocus, CloseFocus, TurnFocus, EnterFocus, ReturnFocus
  DEF Next

\* A Save row acts on the editor that is on the screen, however windows have
\* been opened, raised and closed since it was given its rows (app.c:
\* g_textedit_focus_win against close_window, which renumbers the slots).
THEOREM SaveRowsMeanTheEditor == Spec => []SaveMeansTheEditor
<1>1. Init => FocusInv
  BY DEF Init, FocusInv, InLoop, Current
<1>2. IInv /\ OwnInv /\ FocusInv => SaveMeansTheEditor
  <2> SUFFICES ASSUME IInv, OwnInv, FocusInv, InLoop("poll"), ~resumed, Current,
                      windows[focusWin].state # Null
               PROVE  /\ object[windows[focusWin].state].kind = "TextEdit"
                      /\ StateOf("TextEdit") \subseteq {windows[focusWin].state}
    BY DEF SaveMeansTheEditor, Current
  <2>1. Editor \/ Stale
    BY DEF FocusInv, InLoop, Moved
  <2>2. object[windows[focusWin].state].kind = "TextEdit"
    BY <2>1, EditorOwns DEF Stale, Owns
  <2>3. ASSUME NEW j \in Live, windows[j].app = "TextEdit"
        PROVE  windows[j].state = windows[focusWin].state
    <3>1. CASE Editor
      BY <2>3, <3>1 DEF Editor, OwnInv, Owned, Live
    <3>2. CASE Stale
      <4>1. count = 1
        BY <3>2 DEF Stale, count
      <4>2. j = 0
        BY <2>3, <4>1 DEF Live
      <4>3. QED
        BY <2>3, <3>2, <4>2 DEF Stale
    <3>3. QED
      BY <2>1, <3>1, <3>2
  <2>4. QED
    BY <2>2, <2>3 DEF StateOf
<1>3. QED
  BY <1>1, <1>2, NextFocus, Invariance, OwnInvariance, PTL DEF Spec

\* No application has two windows, and a window's block is of its application:
\* what is typed into one never goes into another's state, however the list has
\* been compacted and renumbered (window.c's window_spawn_or_focus against
\* close_window).
OneWindowEach ==
  /\ \A i, j \in Live : windows[i].app = windows[j].app => i = j
  /\ \A i \in Live : windows[i].state # Null =>
       /\ object[windows[i].state].kind = windows[i].app
       /\ \A j \in Live : windows[i].state = windows[j].state => i = j

\* Opening finds the window that is there, and closing confuses no two.
THEOREM WindowsStayTheirOwn == Spec => []OneWindowEach
<1>1. OwnInv => OneWindowEach
  BY DEF OwnInv, Owned, OneWindowEach, Live
<1>2. QED
  BY <1>1, OwnInvariance, PTL
=============================================================================
