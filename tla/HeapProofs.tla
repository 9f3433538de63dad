----------------------------- MODULE HeapProofs -----------------------------
(***************************************************************************)
(* Proofs about Heap, for a region, a header and request sizes of any      *)
(* size: the list always tiles the region, calls leave it coalesced, and   *)
(* the heap implements the abstract allocator.                             *)
(***************************************************************************)
EXTENDS Heap, TLAPS

\* The callers hold exactly the blocks that are not free.
HeldInv ==
  /\ \A p \in DOMAIN held : /\ p - Header \in Headers
                            /\ ~block[p - Header].free
                            /\ held[p] <= block[p - Header].size
  /\ \A a \in Headers : ~block[a].free => Bytes(a) \in DOMAIN held

\* No block that kmalloc has walked past would have done.
SearchInv ==
  op = "search" => \A a \in Headers : cur = 0 \/ a < cur
                     => ~(block[a].free /\ block[a].size >= req)

\* What kfree has walked past is merged.
MergeInv ==
  op = "merge" => /\ cur \in Headers
                  /\ \A a \in Headers : a < cur => ~BothFree(a)

ListInv == TypeOK /\ Tiling
IInv == ListInv /\ HeldInv /\ Coalesced /\ SearchInv /\ MergeInv

-----------------------------------------------------------------------------
LEMMA InitInv == Init => IInv
BY HeapAssumption
   DEF Init, IInv, ListInv, TypeOK, Tiling, HeldInv, Coalesced, SearchInv, MergeInv,
       BothFree, BlockType, Headers, Bytes, HeapEnd

\* What tiling says of one block, in the form the proofs use it.
LEMMA Neighbours ==
  ASSUME ListInv, NEW a \in Headers
  PROVE  /\ a \in Nat /\ block[a].size \in Nat /\ block[a].next \in Nat
         /\ block[a].free \in BOOLEAN
         /\ block[a] = [size |-> block[a].size, free |-> block[a].free,
                        next |-> block[a].next]
         /\ HeapStart <= a /\ Bytes(a) + block[a].size <= HeapEnd
         /\ block[a].next = 0 => Bytes(a) + block[a].size = HeapEnd
         /\ block[a].next # 0 => /\ block[a].next = Bytes(a) + block[a].size
                                 /\ block[a].next \in Headers
                                 /\ a < block[a].next
         /\ \A b \in Headers : a < b => /\ block[a].next # 0
                                        /\ block[a].next <= b
<1>1. /\ HeapStart \in Nat \ {0} /\ HeapSize \in Nat /\ Header \in Nat \ {0}
  BY HeapAssumption
<1>2. block[a] \in BlockType /\ a \in HeapStart .. HeapEnd - Header
  BY DEF ListInv, TypeOK
<1>3. /\ a \in Nat /\ block[a].size \in Nat /\ block[a].next \in Nat
      /\ block[a].free \in BOOLEAN /\ HeapStart <= a
      /\ block[a] = [size |-> block[a].size, free |-> block[a].free,
                     next |-> block[a].next]
  BY <1>1, <1>2 DEF BlockType, HeapEnd
<1>4. /\ block[a].next = 0 => Bytes(a) + block[a].size = HeapEnd
      /\ block[a].next # 0 => /\ block[a].next = Bytes(a) + block[a].size
                              /\ block[a].next \in Headers
  BY DEF ListInv, Tiling
<1>5. \A b \in Headers : a < b => Bytes(a) + block[a].size <= b
  BY DEF ListInv, Tiling
<1>6. \A b \in Headers : b \in Nat /\ b + Header <= HeapEnd
  BY <1>1 DEF ListInv, TypeOK, HeapEnd
<1>7. Bytes(a) + block[a].size <= HeapEnd
  BY <1>1, <1>3, <1>4, <1>6 DEF Bytes, HeapEnd
<1>8. block[a].next # 0 => a < block[a].next
  BY <1>1, <1>3, <1>4 DEF Bytes
<1>9. ASSUME NEW b \in Headers, a < b
      PROVE  block[a].next # 0 /\ block[a].next <= b
  BY <1>1, <1>3, <1>4, <1>5, <1>6, <1>9 DEF Bytes, HeapEnd
<1>10. QED
  BY <1>3, <1>4, <1>7, <1>8, <1>9

\* Splitting the block at cur keeps the list a tiling.
LEMMA SplitTiles ==
  ASSUME ListInv, cur \in Headers, req \in Nat, Split,
         block[cur].size > req + Header + Slack
  PROVE  /\ Headers' = Headers \cup {Bytes(cur) + req}
         /\ Bytes(cur) + req \notin Headers
         /\ cur < Bytes(cur) + req
         /\ Headers' \subseteq HeapStart .. HeapEnd - Header
         /\ block' \in [Headers' -> BlockType]
         /\ Tiling'
         /\ block'[cur].size = req /\ ~block'[cur].free
         /\ block'[cur].next = Bytes(cur) + req
         /\ block'[Bytes(cur) + req].next = block[cur].next
         /\ \A a \in Headers \ {cur} : block'[a] = block[a]
<1> DEFINE rest == Bytes(cur) + req
<1>0. /\ HeapStart \in Nat \ {0} /\ HeapSize \in Nat /\ Header \in Nat \ {0}
      /\ Slack \in Nat
  BY HeapAssumption
<1>1. /\ cur \in Nat /\ block[cur].size \in Nat /\ block[cur].next \in Nat
      /\ HeapStart <= cur /\ cur + Header + block[cur].size <= HeapEnd
      /\ block[cur].next = 0 => cur + Header + block[cur].size = HeapEnd
      /\ block[cur].next # 0 => /\ block[cur].next = cur + Header + block[cur].size
                                /\ block[cur].next \in Headers
      /\ \A b \in Headers : cur < b => cur + Header + block[cur].size <= b
  BY Neighbours DEF ListInv, Tiling, Bytes
<1>2. /\ rest = cur + Header + req /\ rest \in Nat /\ cur < rest
      /\ rest + Header < cur + Header + block[cur].size
  BY <1>0, <1>1 DEF Bytes
<1>3. \A b \in Headers : b \in Nat /\ HeapStart <= b /\ b <= HeapEnd - Header
  BY <1>0 DEF ListInv, TypeOK, HeapEnd
<1>4. rest \notin Headers
  BY <1>0, <1>1, <1>2, <1>3
<1>5. /\ Headers' = Headers \cup {rest}
      /\ \A a \in Headers \ {cur} : block'[a] = block[a]
      /\ block'[cur] = [size |-> req, free |-> FALSE, next |-> rest]
      /\ block'[rest] = [size |-> block[cur].size - req - Header, free |-> TRUE,
                         next |-> block[cur].next]
  BY <1>4 DEF Split, Headers
<1> HIDE DEF rest
<1>6. Headers' \subseteq HeapStart .. HeapEnd - Header
  BY <1>0, <1>1, <1>2, <1>3, <1>5 DEF HeapEnd
<1>7. block' \in [Headers' -> BlockType]
  <2>1. ASSUME NEW a \in Headers' PROVE block'[a] \in BlockType
    <3>1. CASE a = cur
      <4>1. [size |-> req, free |-> FALSE, next |-> rest] \in BlockType
        BY <1>2 DEF BlockType
      <4>2. QED
        BY <1>5, <3>1, <4>1
    <3>2. CASE a = rest
      <4>1. block[cur].size - req - Header \in Nat
        BY <1>0, <1>1, <1>2
      <4>2. [size |-> block[cur].size - req - Header, free |-> TRUE,
             next |-> block[cur].next] \in BlockType
        BY <1>1, <4>1 DEF BlockType
      <4>3. QED
        BY <1>5, <3>2, <4>2
    <3>3. CASE a \in Headers \ {cur}
      BY <1>5, <3>3 DEF ListInv, TypeOK
    <3>4. QED
      BY <1>5, <3>1, <3>2, <3>3
  <2>2. block' = [a \in Headers' |-> block'[a]]
    BY DEF Split, Headers
  <2>3. QED
    BY <2>1, <2>2
<1>8. Tiling'
  <2>1. HeapStart \in Headers'
    BY <1>5 DEF ListInv, Tiling
  <2>2. ASSUME NEW a \in Headers'
        PROVE  IF block'[a].next = 0
                 THEN a + Header + block'[a].size = HeapEnd
                 ELSE /\ block'[a].next = a + Header + block'[a].size
                      /\ a + Header + block'[a].size \in Headers'
    <3>1. CASE a = cur
      BY <1>0, <1>1, <1>2, <1>5, <3>1
    <3>2. CASE a = rest
      BY <1>0, <1>1, <1>2, <1>5, <3>2
    <3>3. CASE a \in Headers \ {cur}
      BY <1>5, <3>3 DEF ListInv, Tiling, Bytes
    <3>4. QED
      BY <1>5, <3>1, <3>2, <3>3
  <2>3. ASSUME NEW a \in Headers', NEW b \in Headers', a < b
        PROVE  a + Header + block'[a].size <= b
    <3>1. CASE a \in Headers \ {cur} /\ b \in Headers
      BY <1>5, <2>3, <3>1 DEF ListInv, Tiling, Bytes
    <3>2. CASE a \in Headers \ {cur} /\ b = rest
      <4>1. a < cur
        BY <1>0, <1>1, <1>2, <1>3, <2>3, <3>2
      <4>2. a + Header + block[a].size <= cur
        BY <3>2, <4>1 DEF ListInv, Tiling, Bytes
      <4>3. block[a].size \in Nat /\ a \in Nat
        BY <3>2, Neighbours
      <4>4. QED
        BY <1>0, <1>1, <1>2, <1>5, <3>2, <4>2, <4>3
    <3>3. CASE a = cur
      BY <1>0, <1>1, <1>2, <1>3, <1>5, <2>3, <3>3
    <3>4. CASE a = rest
      BY <1>0, <1>1, <1>2, <1>3, <1>5, <2>3, <3>4
    <3>5. QED
      BY <1>5, <3>1, <3>2, <3>3, <3>4
  <2>4. QED
    BY <2>1, <2>2, <2>3 DEF Tiling, Bytes, HeapEnd
<1>9. QED
  BY <1>2, <1>4, <1>5, <1>6, <1>7, <1>8 DEF rest

\* Absorbing the next block keeps the list a tiling.
LEMMA AbsorbTiles ==
  ASSUME ListInv, cur \in Headers, BothFree(cur), MergeAbsorb
  PROVE  /\ block[cur].next \in Headers /\ cur < block[cur].next
         /\ Headers' = Headers \ {block[cur].next}
         /\ Headers' \subseteq HeapStart .. HeapEnd - Header
         /\ block' \in [Headers' -> BlockType]
         /\ Tiling'
         /\ block'[cur].free
         /\ \A a \in Headers' \ {cur} : block'[a] = block[a]
<1> DEFINE n == block[cur].next
<1>0. /\ HeapStart \in Nat \ {0} /\ HeapSize \in Nat /\ Header \in Nat \ {0}
  BY HeapAssumption
<1>1. /\ cur \in Nat /\ block[cur].size \in Nat
      /\ n \in Headers /\ cur < n /\ n = cur + Header + block[cur].size
      /\ \A b \in Headers : cur < b => n <= b
      /\ HeapStart <= cur
  BY Neighbours DEF BothFree, Bytes
<1>2. /\ n \in Nat /\ block[n].size \in Nat /\ block[n].next \in Nat
      /\ n + Header + block[n].size <= HeapEnd
      /\ block[n].next = 0 => n + Header + block[n].size = HeapEnd
      /\ block[n].next # 0 => /\ block[n].next = n + Header + block[n].size
                              /\ block[n].next \in Headers /\ n < block[n].next
      /\ \A b \in Headers : n < b => n + Header + block[n].size <= b
  BY <1>1, Neighbours DEF ListInv, Tiling, Bytes
<1>3. /\ Headers' = Headers \ {n}
      /\ \A a \in Headers' \ {cur} : block'[a] = block[a]
      /\ cur \in Headers'
      /\ block'[cur] = [size |-> block[cur].size + Header + block[n].size,
                        free |-> TRUE, next |-> block[n].next]
  BY <1>1 DEF MergeAbsorb, Headers
<1> HIDE DEF n
<1>4. \A a \in Headers : a \in Nat /\ a + Header <= HeapEnd
  BY <1>0 DEF ListInv, TypeOK, HeapEnd
<1>5. Headers' \subseteq HeapStart .. HeapEnd - Header
  BY <1>3 DEF ListInv, TypeOK
<1>6. block' \in [Headers' -> BlockType]
  <2>1. block[cur].size + Header + block[n].size \in Nat
    BY <1>0, <1>1, <1>2
  <2>2. block'[cur] \in BlockType
    <3>1. [size |-> block[cur].size + Header + block[n].size,
           free |-> TRUE, next |-> block[n].next] \in BlockType
      BY <1>2, <2>1 DEF BlockType
    <3>2. QED
      BY <1>3, <3>1
  <2>3. \A a \in Headers' : block'[a] \in BlockType
    BY <1>3, <2>2 DEF ListInv, TypeOK
  <2>4. block' = [a \in Headers' |-> block'[a]]
    BY DEF MergeAbsorb, Headers
  <2>5. QED
    BY <2>3, <2>4
<1>7. Tiling'
  <2>1. HeapStart \in Headers'
    BY <1>0, <1>1, <1>3 DEF ListInv, Tiling
  <2>2. ASSUME NEW a \in Headers'
        PROVE  IF block'[a].next = 0
                 THEN a + Header + block'[a].size = HeapEnd
                 ELSE /\ block'[a].next = a + Header + block'[a].size
                      /\ a + Header + block'[a].size \in Headers'
    <3>1. CASE a = cur
      BY <1>0, <1>1, <1>2, <1>3, <3>1
    <3>2. CASE a # cur
      <4>1. /\ a \in Headers /\ block'[a] = block[a]
            /\ a \in Nat /\ block[a].size \in Nat
        BY <1>3, <3>2, Neighbours
      <4>2. block[a].next # n
        <5>1. SUFFICES ASSUME block[a].next = n PROVE FALSE
          OBVIOUS
        <5>2. /\ block[a].next # 0 => a < block[a].next
              /\ a < cur => block[a].next <= cur
          BY <4>1, Neighbours
        <5>3. a < n /\ (a < cur => n <= cur)
          BY <1>1, <1>2, <5>1, <5>2
        <5>4. cur < a
          BY <1>1, <1>2, <3>2, <4>1, <5>3
        <5>5. QED
          BY <1>1, <1>2, <4>1, <5>3, <5>4
      <4>3. QED
        BY <1>3, <4>1, <4>2 DEF ListInv, Tiling, Bytes
    <3>3. QED
      BY <3>1, <3>2
  <2>3. ASSUME NEW a \in Headers', NEW b \in Headers', a < b
        PROVE  a + Header + block'[a].size <= b
    <3>1. CASE a = cur
      BY <1>0, <1>1, <1>2, <1>3, <1>4, <2>3, <3>1
    <3>2. CASE a # cur
      BY <1>3, <2>3, <3>2 DEF ListInv, Tiling, Bytes
    <3>3. QED
      BY <3>1, <3>2
  <2>4. QED
    BY <2>1, <2>2, <2>3 DEF Tiling, Bytes, HeapEnd
<1>8. QED
  BY <1>1, <1>3, <1>5, <1>6, <1>7 DEF n

-----------------------------------------------------------------------------
LEMMA KmallocInv == ASSUME IInv, NEW n \in Sizes, Kmalloc(n) PROVE IInv'
<1>1. n \in Nat /\ HeapStart \in Headers
  BY HeapAssumption DEF IInv, ListInv, Tiling
<1>2. ListInv'
  BY <1>1 DEF Kmalloc, IInv, ListInv, TypeOK, Tiling, Headers
<1>3. HeldInv' /\ Coalesced'
  BY DEF Kmalloc, IInv, HeldInv, Coalesced, BothFree, Headers
<1>4. SearchInv'
  BY HeapAssumption DEF Kmalloc, IInv, ListInv, TypeOK, SearchInv, Headers
<1>5. MergeInv'
  BY DEF Kmalloc, MergeInv
<1>6. QED
  BY <1>2, <1>3, <1>4, <1>5 DEF IInv

LEMMA SearchNextInv == ASSUME IInv, SearchNext PROVE IInv'
<1>1. cur \in Headers
  BY DEF SearchNext, IInv, ListInv, TypeOK
<1>2. /\ block[cur].next \in Headers \cup {0}
      /\ \A a \in Headers : block[cur].next = 0 \/ a < block[cur].next
           => a = cur \/ a < cur
  <2>1. block[cur].next \in Headers \cup {0}
    BY <1>1, Neighbours DEF IInv
  <2>2. ASSUME NEW a \in Headers, block[cur].next = 0 \/ a < block[cur].next
        PROVE  a = cur \/ a < cur
    <3>1. a \in Nat /\ cur \in Nat /\ block[cur].next \in Nat
      BY <1>1, Neighbours DEF IInv
    <3>2. cur < a => block[cur].next # 0 /\ block[cur].next <= a
      BY <1>1, Neighbours DEF IInv
    <3>3. QED
      BY <2>2, <3>1, <3>2
  <2>3. QED
    BY <2>1, <2>2
<1>3. ListInv'
  BY <1>2 DEF SearchNext, IInv, ListInv, TypeOK, Tiling, Headers
<1>4. HeldInv' /\ Coalesced'
  BY DEF SearchNext, IInv, HeldInv, Coalesced, BothFree, Headers
<1>5. SearchInv'
  BY <1>1, <1>2 DEF SearchNext, Fits, IInv, SearchInv, Headers, ListInv, TypeOK
<1>6. MergeInv'
  BY DEF SearchNext, MergeInv
<1>7. QED
  BY <1>3, <1>4, <1>5, <1>6 DEF IInv

LEMMA SearchTakeInv == ASSUME IInv, SearchTake PROVE IInv'
<1>0. /\ HeapStart \in Nat \ {0} /\ HeapSize \in Nat /\ Header \in Nat \ {0}
  BY HeapAssumption
<1>1. /\ cur \in Headers /\ req \in Nat /\ ListInv /\ HeldInv
      /\ block[cur].free /\ block[cur].size >= req
      /\ op' = "idle" /\ req' = 0 /\ cur' = 0
      /\ DOMAIN held' = DOMAIN held \cup {Bytes(cur)}
      /\ held'[Bytes(cur)] = req
      /\ \A p \in DOMAIN held \ {Bytes(cur)} : held'[p] = held[p]
  BY DEF SearchTake, Fits, IInv, ListInv, TypeOK
<1>2. /\ Bytes(cur) \in Nat /\ Bytes(cur) - Header = cur
      /\ cur \in Nat /\ block[cur].size \in Nat /\ block[cur].next \in Nat
  <2>1. cur \in Nat /\ block[cur].size \in Nat /\ block[cur].next \in Nat
    BY <1>1, Neighbours
  <2>2. QED
    BY <1>0, <2>1 DEF Bytes
<1>3. \A p \in DOMAIN held : p - Header # cur
  BY <1>1 DEF HeldInv
<1>4. held' \in [DOMAIN held' -> Nat] /\ DOMAIN held' \subseteq Nat
  BY <1>1, <1>2 DEF SearchTake, ListInv, TypeOK
<1>5. \A a \in Headers : ~BothFree(a)
  BY DEF SearchTake, IInv, Coalesced
<1>6. CASE block[cur].size > req + Header + Slack
  <2> DEFINE rest == Bytes(cur) + req
  <2>0. Split
    BY <1>6 DEF SearchTake
  <2>1. /\ Headers' = Headers \cup {rest} /\ rest \notin Headers /\ cur < rest
        /\ Headers' \subseteq HeapStart .. HeapEnd - Header
        /\ block' \in [Headers' -> BlockType]
        /\ Tiling'
        /\ block'[cur].size = req /\ ~block'[cur].free
        /\ block'[cur].next = rest
        /\ block'[rest].next = block[cur].next
        /\ \A a \in Headers \ {cur} : block'[a] = block[a]
    BY <1>1, <1>6, <2>0, SplitTiles
  <2> HIDE DEF rest
  <2>2. ListInv'
    BY <1>0, <1>1, <1>4, <2>1 DEF ListInv, TypeOK
  <2>3. HeldInv'
    <3>1. ASSUME NEW p \in DOMAIN held'
          PROVE  /\ p - Header \in Headers' /\ ~block'[p - Header].free
                 /\ held'[p] <= block'[p - Header].size
      BY <1>1, <1>2, <1>3, <2>1 DEF HeldInv
    <3>2. block'[rest].free
      BY <1>1, <2>0, <2>1 DEF Split, rest
    <3>3. ASSUME NEW a \in Headers', ~block'[a].free
          PROVE  Bytes(a) \in DOMAIN held'
      BY <1>1, <2>1, <3>2, <3>3 DEF HeldInv
    <3>4. QED
      BY <3>1, <3>3 DEF HeldInv, Bytes
  <2>4. ASSUME NEW a \in Headers' PROVE ~BothFree(a)'
    <3>1. CASE a = cur
      BY <2>1, <3>1 DEF BothFree
    <3>2. CASE a = rest
      <4>1. block[cur].next # 0 => /\ block[cur].next \in Headers
                                   /\ ~block[block[cur].next].free
                                   /\ block[cur].next # cur
        BY <1>1, <1>2, <1>5, Neighbours DEF BothFree
      <4>2. block[cur].next # 0
              => block'[block[cur].next] = block[block[cur].next]
        BY <2>1, <4>1
      <4>3. QED
        BY <2>1, <3>2, <4>1, <4>2 DEF BothFree
    <3>3. CASE a \in Headers \ {cur}
      <4>1. block'[a] = block[a] /\ block[a].next \in Headers \cup {0}
        BY <1>1, <2>1, <3>3, Neighbours
      <4>2. CASE block[a].next = cur
        BY <2>1, <4>1, <4>2 DEF BothFree
      <4>3. CASE block[a].next # cur
        BY <1>5, <2>1, <3>3, <4>1, <4>3 DEF BothFree
      <4>4. QED
        BY <4>2, <4>3
    <3>4. QED
      BY <2>1, <3>1, <3>2, <3>3
  <2>5. Coalesced' /\ SearchInv' /\ MergeInv'
    BY <1>1, <2>4 DEF Coalesced, SearchInv, MergeInv
  <2>6. QED
    BY <2>2, <2>3, <2>5 DEF IInv
<1>7. CASE ~(block[cur].size > req + Header + Slack)
  <2>1. block' = [block EXCEPT ![cur].free = FALSE]
    BY <1>7 DEF SearchTake
  <2>2. /\ Headers' = Headers
        /\ block' \in [Headers' -> BlockType]
        /\ \A a \in Headers \ {cur} : block'[a] = block[a]
        /\ block'[cur] = [block[cur] EXCEPT !.free = FALSE]
    BY <1>1, <2>1 DEF Headers, ListInv, TypeOK, BlockType
  <2>fields. /\ ~block'[cur].free
         /\ block'[cur].size = block[cur].size
         /\ block'[cur].next = block[cur].next
    BY <1>1, <2>2 DEF ListInv, TypeOK, BlockType
  <2>3. ListInv'
    <3>1. TypeOK'
      BY <1>0, <1>1, <1>4, <2>2, <2>fields DEF ListInv, TypeOK
    <3>2. \A a \in Headers : /\ block'[a].size = block[a].size
                              /\ block'[a].next = block[a].next
      BY <2>2, <2>fields
    <3>3. Tiling
      BY <1>1 DEF ListInv
    <3>4. Tiling'
      BY <2>2, <3>2, <3>3 DEF Tiling
    <3>5. QED
      BY <3>1, <3>4 DEF ListInv
  <2>4. HeldInv'
    <3>1. ASSUME NEW p \in DOMAIN held'
          PROVE  /\ p - Header \in Headers' /\ ~block'[p - Header].free
                 /\ held'[p] <= block'[p - Header].size
      <4>1. CASE p = Bytes(cur)
        BY <1>1, <1>2, <2>2, <2>fields, <4>1
      <4>2. CASE p \in DOMAIN held /\ p # Bytes(cur)
        <5>1. /\ p - Header \in Headers /\ ~block[p - Header].free
              /\ held[p] <= block[p - Header].size
          BY <1>1, <4>2 DEF HeldInv
        <5>2. /\ block'[p - Header] = block[p - Header]
              /\ held'[p] = held[p]
          BY <1>1, <1>3, <2>2, <2>fields, <4>2, <5>1
        <5>3. QED
          BY <2>2, <2>fields, <5>1, <5>2
      <4>3. QED
        BY <1>1, <4>1, <4>2
    <3>2. ASSUME NEW a \in Headers', ~block'[a].free
          PROVE  Bytes(a) \in DOMAIN held'
      <4>1. CASE a = cur
        BY <1>1, <4>1
      <4>2. CASE a # cur
        <5>1. a \in Headers /\ ~block[a].free
          BY <2>2, <2>fields, <3>2, <4>2
        <5>2. QED
          BY <1>1, <5>1 DEF HeldInv
      <4>3. QED
        BY <4>1, <4>2
    <3>3. QED
      BY <3>1, <3>2 DEF HeldInv, Bytes
  <2>5. ASSUME NEW a \in Headers' PROVE ~BothFree(a)'
    <3>1. block[a].next \in Headers \cup {0}
      BY <1>1, <2>2, <2>fields, Neighbours
    <3>2. \A b \in Headers : block'[b].free => block[b].free
      BY <1>1, <2>2, <2>fields
    <3>3. QED
      BY <1>5, <2>2, <2>fields, <3>1, <3>2 DEF BothFree
  <2>6. Coalesced' /\ SearchInv' /\ MergeInv'
    BY <1>1, <2>5 DEF Coalesced, SearchInv, MergeInv
  <2>7. QED
    BY <2>3, <2>4, <2>6 DEF IInv
<1>8. QED
  BY <1>6, <1>7

LEMMA SearchFailInv == ASSUME IInv, SearchFail PROVE IInv'
BY DEF SearchFail, IInv, ListInv, TypeOK, Tiling, HeldInv, Coalesced, BothFree,
       SearchInv, MergeInv, Headers

LEMMA KfreeInv == ASSUME IInv, NEW p \in DOMAIN held, Kfree(p) PROVE IInv'
<1> DEFINE h == p - Header
<1>1. /\ h \in Headers /\ h \in Nat /\ Bytes(h) = p
      /\ ListInv /\ HeldInv
      /\ HeapStart \in Headers
  BY HeapAssumption DEF IInv, ListInv, TypeOK, Tiling, HeldInv, Bytes
<1>2. /\ op' = "merge" /\ cur' = HeapStart /\ req' = req
      /\ block' = [block EXCEPT ![h].free = TRUE]
      /\ held' = [q \in DOMAIN held \ {p} |-> held[q]]
  BY DEF Kfree
<1> HIDE DEF h
<1>3. /\ Headers' = Headers
      /\ block' \in [Headers' -> BlockType]
      /\ \A a \in Headers \ {h} : block'[a] = block[a]
      /\ block'[h] = [block[h] EXCEPT !.free = TRUE]
  BY <1>1, <1>2 DEF Headers, ListInv, TypeOK, BlockType
<1>4. /\ block'[h].free
      /\ block'[h].size = block[h].size
      /\ block'[h].next = block[h].next
  BY <1>1, <1>3 DEF ListInv, TypeOK, BlockType
<1>5. ListInv'
  <2>1. held' \in [DOMAIN held' -> Nat] /\ DOMAIN held' \subseteq Nat
    BY <1>1, <1>2 DEF ListInv, TypeOK
  <2>2. TypeOK'
    BY <1>1, <1>2, <1>3, <2>1 DEF ListInv, TypeOK
  <2>3. \A a \in Headers : /\ block'[a].size = block[a].size
                            /\ block'[a].next = block[a].next
    BY <1>3, <1>4
  <2>4. Tiling
    BY <1>1 DEF ListInv
  <2>5. Tiling'
    BY <1>3, <2>3, <2>4 DEF Tiling
  <2>6. QED
    BY <2>2, <2>5 DEF ListInv
<1>6. HeldInv'
  <2>1. ASSUME NEW q \in DOMAIN held'
        PROVE  /\ q - Header \in Headers' /\ ~block'[q - Header].free
               /\ held'[q] <= block'[q - Header].size
    <3>1. q \in DOMAIN held /\ q # p /\ held'[q] = held[q]
      BY <1>2
    <3>2. q - Header # h
      BY <1>1, <3>1, HeapAssumption DEF h, ListInv, TypeOK
    <3>3. /\ q - Header \in Headers /\ ~block[q - Header].free
          /\ held[q] <= block[q - Header].size
      BY <1>1, <3>1 DEF HeldInv
    <3>4. QED
      BY <1>3, <3>1, <3>2, <3>3
  <2>2. ASSUME NEW a \in Headers', ~block'[a].free
        PROVE  Bytes(a) \in DOMAIN held'
    <3>1. a # h /\ a \in Headers /\ ~block[a].free
      BY <1>3, <1>4, <2>2
    <3>2. Bytes(a) \in DOMAIN held
      BY <1>1, <3>1 DEF HeldInv
    <3>3. Bytes(a) # p
      BY <1>1, <3>1, HeapAssumption DEF Bytes, ListInv, TypeOK, HeapEnd
    <3>4. QED
      BY <1>2, <3>2, <3>3
  <2>3. QED
    BY <2>1, <2>2 DEF HeldInv, Bytes
<1>7. Coalesced' /\ SearchInv'
  BY <1>2 DEF Coalesced, SearchInv
<1>8. MergeInv'
  <2>1. \A a \in Headers : ~(a < HeapStart)
    BY <1>1, HeapAssumption DEF ListInv, TypeOK, HeapEnd
  <2>2. QED
    BY <1>1, <1>2, <1>3, <2>1 DEF MergeInv
<1>9. QED
  BY <1>5, <1>6, <1>7, <1>8 DEF IInv

LEMMA MergeAbsorbInv == ASSUME IInv, MergeAbsorb PROVE IInv'
<1> DEFINE n == block[cur].next
<1>1. /\ ListInv /\ HeldInv /\ cur \in Headers /\ BothFree(cur)
      /\ op = "merge"
      /\ \A a \in Headers : a < cur => ~BothFree(a)
      /\ UNCHANGED <<held, op, req, cur>>
  BY DEF MergeAbsorb, IInv, MergeInv
<1>2. /\ n \in Headers /\ cur < n
      /\ Headers' = Headers \ {n}
      /\ Headers' \subseteq HeapStart .. HeapEnd - Header
      /\ block' \in [Headers' -> BlockType]
      /\ Tiling'
      /\ block'[cur].free
      /\ \A a \in Headers' \ {cur} : block'[a] = block[a]
  BY <1>1, AbsorbTiles
<1>3. /\ block[cur].free /\ block[n].free
      /\ cur \in Nat /\ n \in Nat /\ n # cur
  BY <1>1, <1>2, Neighbours DEF BothFree
<1> HIDE DEF n
<1>4. cur \in Headers'
  BY <1>1, <1>2, <1>3
<1>5. ListInv'
  BY <1>1, <1>2, <1>4 DEF ListInv, TypeOK
<1>6. HeldInv'
  <2>1. ASSUME NEW p \in DOMAIN held'
        PROVE  /\ p - Header \in Headers' /\ ~block'[p - Header].free
               /\ held'[p] <= block'[p - Header].size
    <3>1. /\ p \in DOMAIN held /\ held'[p] = held[p]
          /\ p - Header \in Headers /\ ~block[p - Header].free
          /\ held[p] <= block[p - Header].size
      BY <1>1 DEF HeldInv
    <3>2. p - Header # cur /\ p - Header # n
      BY <1>3, <3>1
    <3>3. QED
      BY <1>2, <3>1, <3>2
  <2>2. ASSUME NEW a \in Headers', ~block'[a].free
        PROVE  Bytes(a) \in DOMAIN held'
    <3>1. a \in Headers /\ ~block[a].free
      BY <1>2, <2>2
    <3>2. QED
      BY <1>1, <3>1 DEF HeldInv
  <2>3. QED
    BY <2>1, <2>2 DEF HeldInv, Bytes
<1>7. Coalesced' /\ SearchInv'
  BY <1>1 DEF Coalesced, SearchInv
<1>8. MergeInv'
  <2>1. ASSUME NEW a \in Headers', a < cur PROVE ~BothFree(a)'
    <3>1. /\ a \in Headers /\ a # cur /\ block'[a] = block[a] /\ a \in Nat
          /\ ~BothFree(a)
      BY <1>1, <1>2, <1>3, <2>1, Neighbours
    <3>2. block[a].next # 0 /\ block[a].next <= cur
          /\ block[a].next \in Headers /\ block[a].next \in Nat
      BY <1>1, <2>1, <3>1, Neighbours
    <3>3. block[a].next # n
      BY <1>2, <1>3, <3>2
    <3>4. block[a].next \in Headers'
      BY <1>2, <3>2, <3>3
    <3>5. CASE block[a].next = cur
      BY <1>3, <3>1, <3>2, <3>5 DEF BothFree
    <3>6. CASE block[a].next # cur
      BY <1>2, <3>1, <3>2, <3>4, <3>6 DEF BothFree
    <3>7. QED
      BY <3>5, <3>6
  <2>2. QED
    BY <1>1, <1>4, <2>1 DEF MergeInv
<1>9. QED
  BY <1>5, <1>6, <1>7, <1>8 DEF IInv

LEMMA MergeAdvanceInv == ASSUME IInv, MergeAdvance PROVE IInv'
<1>1. /\ ListInv /\ cur \in Headers /\ ~BothFree(cur) /\ op = "merge"
      /\ \A a \in Headers : a < cur => ~BothFree(a)
      /\ block[cur].next # 0
      /\ cur' = block[cur].next /\ UNCHANGED <<block, held, op, req>>
  BY DEF MergeAdvance, IInv, MergeInv
<1>2. cur' \in Headers
  BY <1>1, Neighbours
<1>3. ASSUME NEW a \in Headers, a < cur' PROVE ~BothFree(a)
  <2>1. a \in Nat /\ cur \in Nat /\ cur' \in Nat
    BY <1>1, <1>2, Neighbours
  <2>2. cur < a => block[cur].next <= a
    BY <1>1, Neighbours
  <2>3. a = cur \/ a < cur
    BY <1>1, <1>3, <2>1, <2>2
  <2>4. QED
    BY <1>1, <2>3
<1>4. ListInv'
  BY <1>1, <1>2 DEF ListInv, TypeOK, Tiling, Headers
<1>5. MergeInv'
  BY <1>1, <1>2, <1>3 DEF MergeInv, BothFree, Headers
<1>6. HeldInv' /\ Coalesced' /\ SearchInv'
  BY <1>1 DEF IInv, HeldInv, Coalesced, SearchInv, Headers
<1>7. QED
  BY <1>4, <1>5, <1>6 DEF IInv

LEMMA MergeDoneInv == ASSUME IInv, MergeDone PROVE IInv'
<1>1. /\ ListInv /\ cur \in Headers /\ block[cur].next = 0
      /\ \A a \in Headers : a < cur => ~BothFree(a)
      /\ op' = "idle" /\ cur' = 0 /\ UNCHANGED <<block, held, req>>
  BY DEF MergeDone, IInv, MergeInv
<1>2. ASSUME NEW a \in Headers PROVE ~BothFree(a)
  <2>1. a \in Nat /\ cur \in Nat /\ ~(cur < a)
    BY <1>1, Neighbours
  <2>2. CASE a = cur
    BY <1>1, <2>2 DEF BothFree
  <2>3. CASE a < cur
    BY <1>1, <2>3
  <2>4. QED
    BY <2>1, <2>2, <2>3
<1>3. ListInv'
  BY <1>1 DEF ListInv, TypeOK, Tiling, Headers
<1>4. Coalesced'
  BY <1>1, <1>2 DEF Coalesced, BothFree, Headers
<1>5. HeldInv' /\ SearchInv' /\ MergeInv'
  BY <1>1 DEF IInv, HeldInv, SearchInv, MergeInv, Headers
<1>6. QED
  BY <1>3, <1>4, <1>5 DEF IInv

LEMMA NextInv == IInv /\ [Next]_vars => IInv'
<1> SUFFICES ASSUME IInv, [Next]_vars PROVE IInv'
  OBVIOUS
<1>1. CASE UNCHANGED vars
  BY <1>1 DEF vars, IInv, ListInv, TypeOK, Tiling, HeldInv, Coalesced, BothFree,
              SearchInv, MergeInv, Headers
<1>2. QED
  BY <1>1, KmallocInv, SearchNextInv, SearchTakeInv, SearchFailInv, KfreeInv,
     MergeAbsorbInv, MergeAdvanceInv, MergeDoneInv DEF Next, Loop

LEMMA Invariance == Spec => []IInv
BY InitInv, NextInv, PTL DEF Spec

-----------------------------------------------------------------------------
(***************************************************************************)
(* The properties of the runs, for every region and every size.            *)
(***************************************************************************)

\* The list is well formed and the blocks tile the heap, in the middle of
\* kmalloc and kfree as well (heap.c:36-42, 61-63).
THEOREM BlocksTile == Spec => []WellFormed
<1>1. IInv => WellFormed
  BY DEF IInv, ListInv, WellFormed
<1>2. QED
  BY <1>1, Invariance, PTL

\* kfree's walk leaves no two free neighbours (heap.c:59-67).
THEOREM CallsCoalesce == Spec => []Coalesced
<1>1. IInv => Coalesced
  BY DEF IInv
<1>2. QED
  BY <1>1, Invariance, PTL

\* kmalloc fails only when nothing fits (heap.c:49).
THEOREM FailureIsHonest == Spec => []NullMeansFull
<1>1. IInv => NullMeansFull
  <2> SUFFICES ASSUME IInv, op = "search", cur = 0, NEW a \in Headers, block[a].free
               PROVE  block[a].size < req
    BY DEF NullMeansFull
  <2>1. ~(block[a].size >= req)
    BY DEF IInv, SearchInv
  <2>2. block[a].size \in Nat /\ req \in Nat
    BY Neighbours DEF IInv, ListInv, TypeOK
  <2>3. QED
    BY <2>1, <2>2
<1>2. QED
  BY <1>1, Invariance, PTL

\* Freeing everything restores the block of heap_init: nothing leaks.
THEOREM NothingLeaks == Spec => []AllFreed
<1>1. IInv => AllFreed
  <2> SUFFICES ASSUME IInv, op = "idle", DOMAIN held = {}
               PROVE  block = [a \in {HeapStart} |->
                        [size |-> HeapSize - Header, free |-> TRUE, next |-> 0]]
    BY DEF AllFreed
  <2>1. /\ ListInv /\ HeapStart \in Headers
        /\ HeapStart \in Nat \ {0} /\ HeapSize \in Nat /\ Header \in Nat \ {0}
    BY HeapAssumption DEF IInv, ListInv, Tiling
  <2>2. \A a \in Headers : block[a].free
    BY DEF IInv, HeldInv
  <2>3. \A a \in Headers : ~BothFree(a)
    BY DEF IInv, Coalesced
  <2>4. \A a \in Headers : block[a].next = 0
    <3>1. ASSUME NEW a \in Headers, block[a].next # 0 PROVE FALSE
      <4>1. block[a].next \in Headers
        BY <2>1, <3>1, Neighbours
      <4>2. QED
        BY <2>2, <2>3, <3>1, <4>1 DEF BothFree
    <3>2. QED
      BY <3>1
  <2>5. Headers = {HeapStart}
    <3>1. ASSUME NEW a \in Headers, a # HeapStart PROVE FALSE
      <4>1. a \in Nat /\ HeapStart <= a
        BY <2>1, Neighbours
      <4>2. HeapStart < a
        BY <2>1, <3>1, <4>1
      <4>3. block[HeapStart].next # 0
        BY <2>1, <4>2, Neighbours
      <4>4. QED
        BY <2>1, <2>4, <4>3
    <3>2. QED
      BY <2>1, <3>1
  <2>6. block[HeapStart] = [size |-> HeapSize - Header, free |-> TRUE, next |-> 0]
    <3>1. /\ block[HeapStart] = [size |-> block[HeapStart].size,
                                free |-> block[HeapStart].free,
                                next |-> block[HeapStart].next]
          /\ Bytes(HeapStart) + block[HeapStart].size = HeapEnd
          /\ block[HeapStart].size \in Nat /\ block[HeapStart].free \in BOOLEAN
      BY <2>1, <2>4, Neighbours
    <3>2. block[HeapStart].size = HeapSize - Header
      BY <2>1, <3>1 DEF Bytes, HeapEnd
    <3>3. block[HeapStart].free = TRUE /\ block[HeapStart].next = 0
      BY <2>1, <2>2, <2>4, <3>1
    <3>4. QED
      BY <3>1, <3>2, <3>3
  <2>7. QED
    BY <2>1, <2>5, <2>6 DEF Headers, ListInv, TypeOK
<1>2. QED
  BY <1>1, Invariance, PTL

\* Fragmentation does not outlast the frees (heap.c:59-67): no two free
\* neighbours between calls, and one block once everything is freed.
THEOREM FreeSpaceStaysWhole == Spec => []FreeSpaceIsWhole
BY CallsCoalesce, NothingLeaks, PTL DEF FreeSpaceIsWhole

\* The heap implements the abstract allocator: an allocation lies in the region
\* and overlaps no other, and it stays until it is freed.
THEOREM HeapImplementsAllocator == Spec => ImplementsAllocator
<1>1. Init => Promise!Init
  BY DEF Init, Promise!Init
<1>2. IInv /\ [Next]_vars => [Promise!Next]_held
  <2> SUFFICES ASSUME IInv, [Next]_vars PROVE Promise!Next \/ UNCHANGED held
    OBVIOUS
  <2>0. /\ HeapStart \in Nat \ {0} /\ HeapSize \in Nat /\ Header \in Nat \ {0}
        /\ ListInv /\ HeldInv
    BY HeapAssumption DEF IInv
  <2>1. CASE SearchTake
    <3>1. /\ cur \in Headers /\ req \in Nat
          /\ block[cur].free /\ block[cur].size >= req
          /\ held' = [p \in DOMAIN held \cup {Bytes(cur)} |->
                        IF p = Bytes(cur) THEN req ELSE held[p]]
      BY <2>0, <2>1 DEF SearchTake, Fits, ListInv, TypeOK
    <3>2. /\ cur \in Nat /\ HeapStart <= cur /\ block[cur].size \in Nat
          /\ Bytes(cur) + block[cur].size <= HeapEnd
      BY <2>0, <3>1, Neighbours
    <3>3. /\ Bytes(cur) \in HeapStart .. HeapEnd
          /\ req \in 0 .. HeapEnd - HeapStart
          /\ Promise!Inside(Bytes(cur), req)
      BY <2>0, <3>1, <3>2 DEF Bytes, HeapEnd, Promise!Inside
    <3>4. Bytes(cur) \notin DOMAIN held
      BY <2>0, <3>1, <3>2 DEF HeldInv, Bytes
    <3>5. Promise!Apart(Bytes(cur), req)
      <4> SUFFICES ASSUME NEW q \in DOMAIN held
                   PROVE  Bytes(cur) + req <= q \/ q + held[q] <= Bytes(cur)
        BY DEF Promise!Apart
      <4>1. /\ q - Header \in Headers /\ ~block[q - Header].free
            /\ held[q] <= block[q - Header].size
            /\ q \in Nat /\ held[q] \in Nat
        BY <2>0 DEF HeldInv, ListInv, TypeOK
      <4>2. q - Header \in Nat /\ block[q - Header].size \in Nat
        BY <2>0, <4>1, Neighbours
      <4>3. q - Header # cur
        BY <3>1, <4>1
      <4>4. CASE cur < q - Header
        <5>1. Bytes(cur) + block[cur].size <= q - Header
          BY <2>0, <3>1, <4>1, <4>4 DEF ListInv, Tiling
        <5>2. QED
          BY <2>0, <3>1, <3>2, <4>1, <5>1 DEF Bytes
      <4>5. CASE q - Header < cur
        <5>1. Bytes(q - Header) + block[q - Header].size <= cur
          BY <2>0, <3>1, <4>1, <4>5 DEF ListInv, Tiling
        <5>2. QED
          BY <2>0, <3>1, <3>2, <4>1, <4>2, <5>1 DEF Bytes
      <4>6. QED
        BY <3>2, <4>2, <4>3, <4>4, <4>5
    <3>6. Promise!Alloc(Bytes(cur), req)
      BY <3>1, <3>3, <3>4, <3>5 DEF Promise!Alloc
    <3>7. QED
      BY <3>3, <3>6 DEF Promise!Next
  <2>2. ASSUME NEW p \in DOMAIN held, Kfree(p) PROVE Promise!Next
    <3>1. Promise!Free(p)
      BY <2>2 DEF Kfree, Promise!Free
    <3>2. p \in HeapStart .. HeapEnd
      <4>1. p - Header \in Headers /\ p \in Nat
        BY <2>0 DEF HeldInv, ListInv, TypeOK
      <4>2. QED
        BY <2>0, <4>1 DEF ListInv, TypeOK, HeapEnd
    <3>3. QED
      BY <3>1, <3>2 DEF Promise!Next
  <2>3. SearchNext \/ SearchFail \/ MergeAbsorb \/ MergeAdvance \/ MergeDone
          => UNCHANGED held
    BY DEF SearchNext, SearchFail, MergeAbsorb, MergeAdvance, MergeDone
  <2>4. UNCHANGED vars \/ (\E n \in Sizes : Kmalloc(n)) => UNCHANGED held
    BY DEF vars, Kmalloc
  <2>5. QED
    BY <2>0, <2>1, <2>2, <2>3, <2>4 DEF Next, Loop
<1>3. QED
  BY <1>1, <1>2, Invariance, PTL DEF Spec, ImplementsAllocator, Promise!Spec

\* What callers have lies in the region, and what they write there reaches neither
\* another caller's bytes nor a header, in the middle of a call as well
\* (heap.c:36-46 and 59-67 split and merge around them).
AllocationsApart ==
  \A p \in DOMAIN held :
    /\ HeapStart + Header <= p /\ p + held[p] <= HeapEnd
    /\ \A a \in Headers : a + Header <= p \/ p + held[p] <= a
    /\ \A q \in DOMAIN held : \/ p = q
                              \/ p + held[p] <= q - Header
                              \/ q + held[q] <= p - Header

\* Nobody's bytes are anybody else's, for every sequence of calls and sizes.
THEOREM AllocationsStayApart == Spec => []AllocationsApart
<1>1. IInv => AllocationsApart
  <2> SUFFICES ASSUME IInv, NEW p \in DOMAIN held
               PROVE  /\ HeapStart + Header <= p /\ p + held[p] <= HeapEnd
                      /\ \A a \in Headers : a + Header <= p \/ p + held[p] <= a
                      /\ \A q \in DOMAIN held : \/ p = q
                                                \/ p + held[p] <= q - Header
                                                \/ q + held[q] <= p - Header
    BY DEF AllocationsApart
  <2>1. HeapStart \in Nat /\ HeapSize \in Nat /\ Header \in Nat
    BY HeapAssumption
  <2>2. ASSUME NEW q \in DOMAIN held
        PROVE  /\ q \in Nat /\ held[q] \in Nat /\ q - Header \in Headers
               /\ HeapStart <= q - Header /\ q + held[q] <= HeapEnd
    <3>1. /\ q \in Nat /\ held[q] \in Nat /\ q - Header \in Headers
          /\ held[q] <= block[q - Header].size
      BY DEF IInv, HeldInv, ListInv, TypeOK
    <3>2. Bytes(q - Header) = q /\ HeapEnd \in Nat
      BY <2>1, <3>1 DEF Bytes, HeapEnd
    <3>3. /\ HeapStart <= q - Header /\ block[q - Header].size \in Nat
          /\ q + block[q - Header].size <= HeapEnd
      BY <3>1, <3>2, Neighbours DEF IInv
    <3>4. QED
      BY <3>1, <3>2, <3>3
  <2>3. ASSUME NEW q \in DOMAIN held, NEW a \in Headers
        PROVE  a + Header <= q \/ q + held[q] <= a
    <3> DEFINE h == q - Header
    <3>1. /\ q \in Nat /\ h \in Headers /\ h \in Nat /\ a \in Nat
          /\ block[a].size \in Nat /\ block[h].size \in Nat
          /\ held[q] \in Nat /\ held[q] <= block[h].size
      BY <2>2, Neighbours DEF IInv, HeldInv
    <3>2. a < h => a + Header + block[a].size <= h
      BY <3>1 DEF IInv, ListInv, Tiling, Bytes
    <3>3. h < a => h + Header + block[h].size <= a
      BY <3>1 DEF IInv, ListInv, Tiling, Bytes
    <3>4. QED
      BY HeapAssumption, <3>1, <3>2, <3>3
  <2>4. ASSUME NEW q \in DOMAIN held, p # q
        PROVE  p + held[p] <= q - Header \/ q + held[q] <= p - Header
    <3>1. q <= p \/ p + held[p] <= q - Header
      BY <2>1, <2>2, <2>3
    <3>2. p <= q \/ q + held[q] <= p - Header
      BY <2>1, <2>2, <2>3
    <3>3. p \in Nat /\ q \in Nat
      BY <2>2
    <3>4. QED
      BY <2>4, <3>1, <3>2, <3>3
  <2>5. HeapStart + Header <= p
    BY HeapAssumption, <2>2
  <2>6. QED
    BY <2>2, <2>3, <2>4, <2>5
<1>2. QED
  BY <1>1, Invariance, PTL
=============================================================================
