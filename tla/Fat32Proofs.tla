---------------------------- MODULE Fat32Proofs ----------------------------
(***************************************************************************)
(* Proofs about Fat32, for a volume of any size, any number of copies of   *)
(* the table and any number of power failures: the volume is well formed,  *)
(* and its files and directories share nothing, between any two sector     *)
(* writes and after any power failure.                                     *)
(*                                                                         *)
(* Which clusters a chain has is a recursive function of the table, and    *)
(* the calls change the table one entry at a time.  The invariant of the   *)
(* chains speaks of the entries instead: it gives every cluster a label,   *)
(* the head of its chain, and a place, which grows along it.  A cluster    *)
(* that is freed gets a label of its own; what is left of its chain keeps  *)
(* the old one.                                                            *)
(*                                                                         *)
(* At the end: the path of the prompt leads to the current directory.      *)
(***************************************************************************)
EXTENDS Fat32, FiniteSetTheorems, SequenceTheorems, WellFoundedInduction, TLAPS

-----------------------------------------------------------------------------
(***************************************************************************)
(* Least and greatest elements                                             *)
(***************************************************************************)
\* Every non-empty set of naturals has a least element.
LEMMA LeastNat ==
  ASSUME NEW S, S \subseteq Nat, S # {}
  PROVE  \E i \in S : \A j \in S : i <= j
<1>1. \E i \in S : \A j \in S : ~(<<j, i>> \in OpToRel(<, Nat))
  BY WFMin, NatLessThanWellFounded
<1>2. PICK i \in S : \A j \in S : ~(<<j, i>> \in OpToRel(<, Nat))
  BY <1>1
<1>3. ASSUME NEW j \in S PROVE i <= j
  <2>1. <<j, i>> \notin {ss \in Nat \X Nat : ss[1] < ss[2]}
    BY <1>2, <1>3, Zenon DEF OpToRel
  <2>2. QED
    BY <2>1
<1>4. QED
  BY <1>2, <1>3

\* Min is in its set and below the rest of it.
LEMMA MinIsIn ==
  ASSUME NEW S, S \subseteq Nat, S # {}
  PROVE  Min(S) \in S /\ \A j \in S : Min(S) <= j
BY LeastNat DEF Min

\* Max is in its set and above the rest of it, when the set has a bound.
LEMMA MaxIsIn ==
  ASSUME NEW n \in Nat, NEW S, S \subseteq 0 .. n, S # {}
  PROVE  Max(S) \in S /\ \A j \in S : Max(S) >= j
<1> DEFINE gaps == {n - i : i \in S}
<1>1. gaps \subseteq Nat /\ gaps # {}
  <2>1. PICK e \in S : TRUE
    OBVIOUS
  <2>2. n - e \in gaps
    BY <2>1
  <2>3. QED
    BY <2>2
<1>2. PICK g \in gaps : \A h \in gaps : g <= h
  <2> HIDE DEF gaps
  <2>1. QED
    BY <1>1, LeastNat
<1>3. PICK i \in S : g = n - i
  BY <1>2
<1>4. \A j \in S : i >= j
  BY <1>2, <1>3
<1>5. QED
  BY <1>3, <1>4 DEF Max

-----------------------------------------------------------------------------
(***************************************************************************)
(* Chains, positions and places                                            *)
(***************************************************************************)
\* The walk along a chain starts at its first cluster and follows the table.
LEMMA WalkFacts ==
  ASSUME NEW c
  PROVE  /\ Walk(c)[1] = c
         /\ \A k \in 2 .. LastCluster : Walk(c)[k] = Follow(Walk(c)[k-1])
<1> DEFINE F(n, f) == f = [k \in 1 .. n |-> IF k = 1 THEN c ELSE Follow(f[k-1])]
           bad == {n \in Nat : ~ \E f : F(n, f)}
<1>0. bad \subseteq Nat /\ \A n \in Nat : n \notin bad => \E f : F(n, f)
  OBVIOUS
<1>1. bad = {}
  <2>1. SUFFICES ASSUME bad # {} PROVE FALSE
    OBVIOUS
  <2>2. PICK n \in bad : \A m \in bad : n <= m
    <3> HIDE DEF bad
    <3>1. QED
      BY <1>0, <2>1, LeastNat
  <2>3. n # 0
    <3>1. F(0, [k \in 1 .. 0 |-> c])
      OBVIOUS
    <3>2. QED
      BY <2>2, <3>1
  <2>4. n \in Nat /\ n - 1 \in Nat /\ n - 1 \notin bad
    <3> HIDE DEF bad
    <3>1. QED
      BY <1>0, <2>2, <2>3
  <2>5. PICK f : F(n - 1, f)
    <3> HIDE DEF bad
    <3>1. QED
      BY <1>0, <2>4
  <2> DEFINE g == [k \in 1 .. n |-> IF k = 1 THEN c ELSE Follow(f[k-1])]
  <2>6. \A j \in 1 .. n - 1 : f[j] = g[j]
    BY <2>4, <2>5
  <2>7. ASSUME NEW k \in 1 .. n PROVE g[k] = IF k = 1 THEN c ELSE Follow(g[k-1])
    <3>1. k # 1 => k - 1 \in 1 .. n - 1
      BY <2>4
    <3>2. k # 1 => f[k-1] = g[k-1]
      BY <2>6, <3>1
    <3>3. g[k] = IF k = 1 THEN c ELSE Follow(f[k-1])
      OBVIOUS
    <3> HIDE DEF g
    <3>4. QED
      BY <3>2, <3>3
  <2>8. F(n, g)
    <3>1. g = [k \in 1 .. n |-> IF k = 1 THEN c ELSE Follow(g[k-1])]
      BY <2>7
    <3>2. QED
      BY <3>1
  <2>9. QED
    BY <2>2, <2>8
<1>2. LastCluster \in Nat /\ LastCluster >= 2
  BY Fat32Assumption
<1>3. \E f : F(LastCluster, f)
  BY <1>1, <1>2
<1>4. F(LastCluster, Walk(c))
  BY <1>3 DEF Walk
<1>5. QED
  BY <1>2, <1>4

\* A chain is a sequence of clusters; one that starts at a cluster is not empty.
LEMMA ChainFacts ==
  ASSUME NEW c
  PROVE  /\ Chain(c) \in Seq(Clusters)
         /\ Len(Chain(c)) <= LastCluster
         /\ \A k \in 1 .. Len(Chain(c)) : Chain(c)[k] = Walk(c)[k]
         /\ c \in Clusters => Len(Chain(c)) >= 1 /\ Chain(c)[1] = c
<1> DEFINE hop == Walk(c)
           inside == {n \in 0 .. LastCluster : \A k \in 1 .. n : hop[k] \in Clusters}
           m == Max(inside)
<1>1. LastCluster \in Nat /\ LastCluster >= 2
  BY Fat32Assumption
<1>2. m \in inside /\ \A n \in inside : m >= n
  <2>1. 0 \in inside /\ inside \subseteq 0 .. LastCluster
    BY <1>1
  <2> HIDE DEF inside
  <2>2. QED
    BY <1>1, <2>1, MaxIsIn
<1>3. Chain(c) = [k \in 1 .. m |-> hop[k]]
  BY DEF Chain
<1>4. m \in Nat /\ m <= LastCluster /\ \A k \in 1 .. m : hop[k] \in Clusters
  BY <1>1, <1>2
<1>5. c \in Clusters => m >= 1
  <2>1. c \in Clusters => 1 \in inside
    BY <1>1, WalkFacts
  <2>2. QED
    BY <1>2, <2>1
<1>6. c \in Clusters => hop[1] = c
  BY WalkFacts
<1> HIDE DEF m, hop
<1>7. Chain(c) \in Seq(Clusters) /\ Len(Chain(c)) = m
  BY <1>3, <1>4
<1>8. QED
  BY <1>1, <1>3, <1>4, <1>5, <1>6, <1>7 DEF hop

\* Some position comes first in every non-empty set of positions.
LEMMA FirstPosition ==
  ASSUME NEW ps, ps \subseteq Nat \X Nat, ps # {}
  PROVE  LET p == CHOOSE p \in ps : \A q \in ps : ~Before(q, p)
         IN  p \in ps /\ \A q \in ps : ~Before(q, p)
<1> DEFINE rows == {p[1] : p \in ps}
<1>1. rows \subseteq Nat /\ rows # {}
  <2>1. PICK p \in ps : TRUE
    OBVIOUS
  <2>2. p[1] \in rows
    BY <2>1
  <2>3. QED
    BY <2>2
<1>2. PICK r \in rows : \A s \in rows : r <= s
  <2> HIDE DEF rows
  <2>1. QED
    BY <1>1, LeastNat
<1> DEFINE cols == {p[2] : p \in {q \in ps : q[1] = r}}
<1>3. cols \subseteq Nat /\ cols # {}
  <2>1. PICK p \in ps : p[1] = r
    BY <1>2
  <2>2. p[2] \in cols
    BY <2>1
  <2>3. QED
    BY <2>2
<1>4. PICK i \in cols : \A j \in cols : i <= j
  <2> HIDE DEF cols
  <2>1. QED
    BY <1>3, LeastNat
<1>5. PICK p \in ps : p[1] = r /\ p[2] = i
  BY <1>4
<1>6. ASSUME NEW q \in ps PROVE ~Before(q, p)
  <2>1. r <= q[1] /\ q[1] \in Nat /\ q[2] \in Nat /\ r \in Nat /\ i \in Nat
    BY <1>1, <1>2, <1>3, <1>4
  <2>2. q[1] = r => i <= q[2]
    BY <1>4
  <2>3. QED
    BY <1>5, <2>1, <2>2 DEF Before
<1>7. QED
  BY <1>5, <1>6

\* First finds a place on the volume, or there is none to find.
LEMMA FirstFacts ==
  ASSUME NEW d, NEW ps \in SUBSET Positions(Chain(d))
  PROVE  /\ First(Chain(d), ps) \in Places \cup {NoPlace}
         /\ ps # {} => /\ First(Chain(d), ps) \in {Place(Chain(d), p) : p \in ps}
                       /\ First(Chain(d), ps) \in Places
<1> DEFINE chain == Chain(d)
           first == CHOOSE p \in ps : \A q \in ps : ~Before(q, p)
<1>1. chain \in Seq(Clusters) /\ Len(chain) \in Nat
  BY ChainFacts
<1>2. Slots \in Nat
  BY Fat32Assumption
<1> HIDE DEF chain
<1>3. \A p \in Positions(chain) : Place(chain, p) \in Places
  BY <1>1, <1>2 DEF Positions, Place, Places
<1>4. ASSUME ps # {} PROVE first \in ps
  <2>1. ps \subseteq Nat \X Nat
    BY <1>1, <1>2 DEF Positions, chain
  <2>2. QED
    BY <1>4, <2>1, FirstPosition
<1>5. First(chain, ps) = IF ps = {} THEN NoPlace ELSE Place(chain, first)
  BY DEF First
<1>6. QED
  BY <1>3, <1>4, <1>5 DEF chain

LEMMA FindEntryFacts ==
  ASSUME NEW d, NEW name
  PROVE  FindEntry(d, name) \in Places \cup {NoPlace}
<1>1. {p \in Listed(Chain(d)) : Slot(Place(Chain(d), p)).name = name}
        \in SUBSET Positions(Chain(d))
  BY DEF Listed
<1>2. QED
  BY <1>1, FirstFacts DEF FindEntry

LEMMA FindFreeSlotFacts ==
  ASSUME NEW d
  PROVE  FindFreeSlot(d) \in Places \cup {NoPlace}
<1>1. {p \in Positions(Chain(d)) : Slot(Place(Chain(d), p)).state # "used"}
        \in SUBSET Positions(Chain(d))
  OBVIOUS
<1>2. QED
  BY <1>1, FirstFacts DEF FindFreeSlot

\* A free cluster is a cluster, and its entry is 0.
LEMMA FindFreeClusterFacts ==
  /\ FindFreeCluster \in Firsts
  /\ FindFreeCluster # 0 => FindFreeCluster \in FreeClusters
<1>1. FreeClusters \subseteq Nat /\ FreeClusters \subseteq Clusters
  BY Fat32Assumption DEF FreeClusters, Clusters
<1>2. FreeClusters # {} => Min(FreeClusters) \in FreeClusters
  BY <1>1, MinIsIn
<1>3. QED
  BY <1>1, <1>2 DEF FindFreeCluster, Firsts

\* A place is not the absence of one.
LEMMA PlaceIsSome == NoPlace \notin Places
BY DEF NoPlace, Places, Clusters

LEMMA RoomInFacts ==
  ASSUME NEW d PROVE RoomIn(d) \in Places \cup {NoPlace}
<1>1. Slots \in Nat \ {0, 1}
  BY Fat32Assumption
<1>2. FindFreeCluster # 0 => FindFreeCluster \in Clusters
  BY FindFreeClusterFacts DEF Firsts
<1>3. QED
  BY <1>1, <1>2, FindFreeSlotFacts DEF RoomIn, Places

-----------------------------------------------------------------------------
(***************************************************************************)
(* The invariant                                                           *)
(***************************************************************************)
\* Writes not begun yet start at the first copy of the table.
Fresh == {w \in WriteType : w[1] = "fat" => w[2] = 1}

\* A call that will edit an entry knows where it is, one that will make an entry
\* has a name for it, and a call that is over has nothing left to write.
JobInv ==
  /\ job.at \in {"body", "entry"} => job.loc \in Places
  /\ job.at = "slot" => job.name \in Names
  /\ job.call \in {"idle", "off"} => todo = <<>> /\ job.at = ""

\* Only the write at the head may have reached some of the copies, and it has
\* reached those before its own.
HeadInv ==
  todo # <<>> =>
    /\ Tail(todo) \in Seq(Fresh)
    /\ LET w == Head(todo)
       IN  w[1] = "fat" => \A j \in 1 .. w[2] - 1 : fat[j][w[3]] = w[4]

\* The entry that a call in progress has written to some of the copies.
Torn == {c \in Clusters : /\ todo # <<>> /\ Head(todo)[1] = "fat"
                          /\ Head(todo)[2] > 1 /\ Head(todo)[3] = c}
LockStep == Cardinality(Apart \ Torn) <= crashes

Inv == TypeOK /\ JobInv /\ HeadInv /\ LockStep

-----------------------------------------------------------------------------
(***************************************************************************)
(* What the calls write                                                    *)
(***************************************************************************)
LEMMA EndMarkType == EndMark \in EntryType /\ Deleted \in EntryType
BY DEF EndMark, Deleted, EntryNames, EntryType, Firsts

LEMMA EntryIsEntry ==
  ASSUME NEW name \in EntryNames, NEW dir \in BOOLEAN, NEW c \in Firsts
  PROVE  Entry(name, dir, c, 0) \in EntryType
BY DEF Entry, EntryType

LEMMA SlotType ==
  ASSUME TypeOK, NEW l \in Places PROVE Slot(l) \in EntryType
BY DEF TypeOK, Places, Slot

LEMMA SetFatFresh ==
  ASSUME NEW c \in Clusters, NEW v \in Links PROVE SetFat(c, v) \in Seq(Fresh)
<1>1. <<"fat", 1, c, v>> \in Fresh
  BY Fat32Assumption DEF Fresh, WriteType
<1>2. QED
  BY <1>1 DEF SetFat

LEMMA SetSlotFresh ==
  ASSUME NEW l \in Places, NEW e \in EntryType PROVE SetSlot(l, e) \in Seq(Fresh)
<1>1. <<"slot", l, e>> \in Fresh
  BY DEF Fresh, WriteType
<1>2. QED
  BY <1>1 DEF SetSlot

LEMMA AllocateFresh ==
  ASSUME NEW c \in Clusters PROVE Allocate(c) \in Seq(Fresh)
<1>1. << <<"zero", c>> >> \in Seq(Fresh)
  <2>1. <<"zero", c>> \in Fresh
    BY DEF Fresh, WriteType
  <2>2. QED
    BY <2>1
<1>2. SetFat(c, EOC) \in Seq(Fresh)
  BY SetFatFresh DEF Links
<1>3. QED
  BY <1>1, <1>2, ConcatProperties DEF Allocate

LEMMA FreeChainFresh ==
  ASSUME NEW c PROVE FreeChain(c) \in Seq(Fresh)
<1> DEFINE chain == Chain(c)
<1>1. chain \in Seq(Clusters) /\ Len(chain) \in Nat
  BY ChainFacts
<1>2. \A k \in 1 .. Len(chain) : chain[k] \in Clusters
  BY <1>1
<1>3. \A k \in 1 .. Len(chain) : <<"fat", 1, chain[k], 0>> \in Fresh
  BY <1>2, Fat32Assumption DEF Fresh, WriteType, Links
<1>4. FreeChain(c) = [k \in 1 .. Len(chain) |-> <<"fat", 1, chain[k], 0>>]
  BY DEF FreeChain
<1> HIDE DEF chain
<1>5. QED
  BY <1>1, <1>3, <1>4

LEMMA RoomWritesFresh ==
  ASSUME NEW d \in Clusters, RoomIn(d) # NoPlace PROVE RoomWrites(d) \in Seq(Fresh)
<1>1. CASE FindFreeSlot(d) # NoPlace
  BY <1>1 DEF RoomWrites
<1>2. CASE FindFreeSlot(d) = NoPlace
  <2>1. FindFreeCluster \in Clusters
    BY <1>2, FindFreeClusterFacts DEF RoomIn, Firsts
  <2> DEFINE end == Chain(d)[Len(Chain(d))]
  <2>2. end \in Clusters
    BY ChainFacts
  <2>3. SetFat(end, FindFreeCluster) \in Seq(Fresh)
    BY <2>1, <2>2, SetFatFresh DEF Links
  <2>4. Allocate(FindFreeCluster) \in Seq(Fresh)
    BY <2>1, AllocateFresh
  <2>5. RoomWrites(d) = Allocate(FindFreeCluster) \o SetFat(end, FindFreeCluster)
    BY <1>2 DEF RoomWrites, Extend
  <2>6. QED
    BY <2>3, <2>4, <2>5, ConcatProperties
<1>3. QED
  BY <1>1, <1>2

LEMMA EmptyDirType == EmptyDir \in [1 .. Slots -> EntryType]
BY EndMarkType DEF EmptyDir

LEMMA StaleDirType == StaleDir \in [1 .. Slots -> EntryType]
<1>1. Entry(<<"?", "">>, TRUE, 0, 0) \in EntryType
  BY EntryIsEntry DEF Firsts, EntryNames
<1>2. QED
  BY <1>1 DEF StaleDir

LEMMA SeedType ==
  ASSUME NEW c \in Clusters, cwd \in Clusters
  PROVE  Seed(c) \in [1 .. Slots -> EntryType]
<1>1. Entry(<<".", "">>, TRUE, c, 0) \in EntryType
  BY EntryIsEntry DEF Firsts, EntryNames
<1>2. Entry(<<"..", "">>, TRUE, IF cwd = Root THEN 0 ELSE cwd, 0) \in EntryType
  BY EntryIsEntry DEF Firsts, EntryNames
<1>3. QED
  BY <1>1, <1>2, EmptyDirType DEF Seed

-----------------------------------------------------------------------------
(***************************************************************************)
(* The steps                                                               *)
(***************************************************************************)
LEMMA FreshAreWrites ==
  ASSUME NEW s \in Seq(Fresh)
  PROVE  /\ s \in Seq(WriteType)
         /\ s # <<>> => /\ Tail(s) \in Seq(Fresh) /\ Head(s) \in Fresh
BY DEF Fresh

\* With nothing under way no entry is torn.
LEMMA NothingTorn ==
  ASSUME todo = <<>> PROVE Torn = {}
BY DEF Torn

\* A call that starts or goes on, having written all it had to write.
LEMMA BeginKeeps ==
  ASSUME Inv, todo = <<>>, NEW j \in JobType, NEW writes \in Seq(Fresh),
         Begin(j, writes), j.at \in {"body", "entry"} => j.loc \in Places,
         j.at = "slot" => j.name \in Names, j.call \notin {"idle", "off"}
  PROVE  Inv'
<1>1. TypeOK'
  BY FreshAreWrites DEF Inv, TypeOK, Begin
<1>2. JobInv'
  BY DEF Begin, JobInv
<1>3. HeadInv'
  <2>1. writes # <<>> => Tail(writes) \in Seq(Fresh) /\ Head(writes) \in Fresh
    BY FreshAreWrites
  <2>2. writes # <<>> => (Head(writes)[1] = "fat" => Head(writes)[2] = 1)
    BY <2>1 DEF Fresh
  <2>3. QED
    BY <2>1, <2>2 DEF Begin, HeadInv
<1>4. LockStep'
  <2>1. Torn = {}
    BY NothingTorn
  <2>2. Torn' = {}
    <3>1. writes # <<>> => (Head(writes)[1] = "fat" => Head(writes)[2] = 1)
      BY FreshAreWrites DEF Fresh
    <3>2. QED
      BY <3>1 DEF Torn, Begin
  <2>3. Apart' = Apart /\ crashes' = crashes
    BY DEF Begin, Apart
  <2>4. QED
    BY <2>1, <2>2, <2>3 DEF Inv, LockStep
<1>5. QED
  BY <1>1, <1>2, <1>3, <1>4 DEF Inv

LEMMA NoJobType == NoJob \in JobType /\ Off \in JobType
<1>1. NoJob \in JobType
  <2>1. /\ DotDot \in Names \cup {DotDot} /\ NoPlace \in Places \cup {NoPlace}
        /\ 0 \in Firsts /\ 0 \in Links /\ 0 \in Nat /\ 0 \in Int
    BY DEF Firsts, Links
  <2>2. QED
    BY <2>1 DEF NoJob, JobType
<1>2. Off \in JobType
  BY <1>1 DEF Off, JobType
<1>3. QED
  BY <1>1, <1>2

\* A call that returns.
LEMMA ReturnKeeps ==
  ASSUME Inv, todo = <<>>, NEW r, Return(r) PROVE Inv'
<1>1. TypeOK'
  BY NoJobType DEF Inv, TypeOK, Return
<1>2. JobInv'
  BY DEF Return, JobInv, NoJob
<1>3. HeadInv'
  BY DEF Return, HeadInv
<1>4. LockStep'
  <2>1. Torn = {} /\ Torn' = {}
    BY DEF Torn, Return
  <2>2. Apart' = Apart /\ crashes' = crashes
    BY DEF Return, Apart
  <2>3. QED
    BY <2>1, <2>2 DEF Inv, LockStep
<1>5. QED
  BY <1>1, <1>2, <1>3, <1>4 DEF Inv

\* Changing the directory writes nothing.
LEMMA MoveKeeps ==
  ASSUME Inv, cwd' \in Clusters, UNCHANGED <<fat, dirs, data, job, todo, crashes>>
  PROVE  Inv'
<1>1. TypeOK'
  BY DEF Inv, TypeOK
<1>2. JobInv' /\ HeadInv'
  BY DEF Inv, JobInv, HeadInv
<1>3. LockStep'
  BY DEF Inv, LockStep, Apart, Torn
<1>4. QED
  BY <1>1, <1>2, <1>3 DEF Inv

LEMMA InitInv ==
  ASSUME Init PROVE Inv
<1>1. TypeOK
  <2>1. Root \in Clusters /\ MaxCrashes \in Nat
    BY Fat32Assumption DEF Clusters
  <2>2. fat \in [1 .. Copies -> [Clusters -> Links]]
    BY DEF Init, Links
  <2>3. dirs \in [Clusters -> [1 .. Slots -> EntryType]]
    BY EmptyDirType, StaleDirType DEF Init
  <2>4. QED
    BY <2>1, <2>2, <2>3, NoJobType DEF Init, TypeOK
<1>2. JobInv
  BY DEF Init, JobInv, NoJob
<1>3. HeadInv
  BY DEF Init, HeadInv
<1>4. LockStep
  <2>1. 1 \in 1 .. Copies
    BY Fat32Assumption
  <2>2. Apart = {}
    BY <2>1 DEF Init, Apart
  <2>3. Apart \ Torn = {} /\ crashes = 0
    BY <2>2 DEF Init
  <2>4. QED
    BY <2>3, FS_EmptySet DEF LockStep
<1>5. QED
  BY <1>1, <1>2, <1>3, <1>4 DEF Inv

\* A power failure leaves at most the entry being written apart.
LEMMA CrashKeeps ==
  ASSUME Inv, Crash PROVE Inv'
<1>1. TypeOK'
  <2>1. Root \in Clusters /\ crashes' \in 0 .. MaxCrashes
    BY Fat32Assumption DEF Clusters, Crash, Inv, TypeOK
  <2>2. job' \in JobType
    BY NoJobType DEF Crash
  <2>3. QED
    BY <2>1, <2>2 DEF Inv, TypeOK, Crash, disk
<1>2. JobInv'
  BY DEF Crash, JobInv, Off, NoJob
<1>3. HeadInv'
  BY DEF Crash, HeadInv
<1>4. LockStep'
  <2>1. Torn' = {} /\ Apart' = Apart /\ crashes' = crashes + 1
    BY DEF Torn, Crash, Apart, disk
  <2>2. IsFiniteSet(Apart)
    <3>1. IsFiniteSet(Clusters) /\ Apart \in SUBSET Clusters
      BY Fat32Assumption, FS_Interval DEF Clusters, Apart
    <3>2. QED
      BY <3>1, FS_Subset
  <2>3. \E c : Torn \subseteq {c}
    BY DEF Torn
  <2>4. PICK c : Torn \subseteq {c}
    BY <2>3
  <2>5. IsFiniteSet(Apart \ Torn) /\ Apart \subseteq (Apart \ Torn) \cup {c}
    <3>1. Apart \ Torn \in SUBSET Apart
      OBVIOUS
    <3>2. QED
      BY <2>2, <2>4, <3>1, FS_Subset
  <2>6. /\ IsFiniteSet((Apart \ Torn) \cup {c})
        /\ Cardinality((Apart \ Torn) \cup {c}) <= Cardinality(Apart \ Torn) + 1
    BY <2>5, FS_AddElement, FS_CardinalityType
  <2>7. Cardinality(Apart) <= Cardinality((Apart \ Torn) \cup {c})
    BY <2>5, <2>6, FS_Subset
  <2>8. /\ Cardinality(Apart) \in Nat /\ Cardinality(Apart \ Torn) \in Nat
        /\ Cardinality((Apart \ Torn) \cup {c}) \in Nat
    BY <2>2, <2>5, <2>6, FS_CardinalityType
  <2>9. Cardinality(Apart) <= crashes + 1
    <3>1. Cardinality(Apart \ Torn) <= crashes /\ crashes \in Nat
      BY DEF Inv, LockStep, TypeOK
    <3>2. QED
      BY <2>6, <2>7, <2>8, <3>1
  <2>10. Apart' \ Torn' = Apart
    BY <2>1
  <2>11. QED
    BY <2>1, <2>9, <2>10 DEF LockStep
<1>5. QED
  BY <1>1, <1>2, <1>3, <1>4 DEF Inv

\* The sorts of write, and what each carries.
LEMMA WriteKinds ==
  ASSUME NEW w \in WriteType
  PROVE  \/ /\ w[1] = "fat" /\ w[2] \in 1 .. Copies /\ w[3] \in Clusters
            /\ w[4] \in Links
         \/ /\ w[1] = "slot" /\ w[2][1] \in Clusters /\ w[2][2] \in 1 .. Slots
            /\ w[3] \in EntryType
         \/ w[1] = "zero" /\ w[2] \in Clusters
         \/ w[1] = "seed" /\ w[2] \in Clusters /\ w[3] \in [1 .. Slots -> EntryType]
         \/ w[1] = "data" /\ w[2] \in Clusters
BY DEF WriteType, Places

\* The volume stays well formed whatever is written to it.
LEMMA PutTypes ==
  ASSUME TypeOK, NEW w \in WriteType, Put(w)
  PROVE  /\ fat' \in [1 .. Copies -> [Clusters -> Links]]
         /\ dirs' \in [Clusters -> [1 .. Slots -> EntryType]]
<1>1. CASE /\ w[1] = "fat" /\ w[2] \in 1 .. Copies /\ w[3] \in Clusters
           /\ w[4] \in Links
  <2>1. fat' = [fat EXCEPT ![w[2]][w[3]] = w[4]]
    BY <1>1 DEF Put
  <2>2. dirs' = [dirs EXCEPT ![w[3]] = StaleDir] \/ dirs' = dirs
    BY <1>1 DEF Put
  <2>3. QED
    BY <1>1, <2>1, <2>2, StaleDirType DEF TypeOK
<1>2. CASE /\ w[1] = "slot" /\ w[2][1] \in Clusters /\ w[2][2] \in 1 .. Slots
           /\ w[3] \in EntryType
  <2>1. fat' = fat /\ dirs' = [dirs EXCEPT ![w[2][1]][w[2][2]] = w[3]]
    BY <1>2 DEF Put, Frees
  <2>2. QED
    BY <1>2, <2>1 DEF TypeOK
<1>3. CASE w[1] = "zero" /\ w[2] \in Clusters
  <2>1. fat' = fat /\ dirs' = [dirs EXCEPT ![w[2]] = EmptyDir]
    BY <1>3 DEF Put, Frees
  <2>2. QED
    BY <1>3, <2>1, EmptyDirType DEF TypeOK
<1>4. CASE w[1] = "seed" /\ w[2] \in Clusters /\ w[3] \in [1 .. Slots -> EntryType]
  <2>1. fat' = fat /\ dirs' = [dirs EXCEPT ![w[2]] = w[3]]
    BY <1>4 DEF Put, Frees
  <2>2. QED
    BY <1>4, <2>1 DEF TypeOK
<1>5. CASE w[1] = "data" /\ w[2] \in Clusters
  <2>1. fat' = fat /\ dirs' = [dirs EXCEPT ![w[2]] = StaleDir]
    BY <1>5 DEF Put, Frees
  <2>2. QED
    BY <1>5, <2>1, StaleDirType DEF TypeOK
<1>6. QED
  BY <1>1, <1>2, <1>3, <1>4, <1>5, WriteKinds

\* A write is followed by the same one to the next copy, or by the next write.
LEMMA RestFacts ==
  ASSUME NEW s \in Seq(WriteType), s # <<>>, Tail(s) \in Seq(Fresh)
  PROVE  /\ Rest(s) \in Seq(WriteType)
         /\ Rest(s) # <<>> => Tail(Rest(s)) \in Seq(Fresh)
         /\ Head(s)[1] = "fat" /\ Head(s)[2] < Copies
              => /\ Rest(s) # <<>>
                 /\ Head(Rest(s)) = <<"fat", Head(s)[2] + 1, Head(s)[3], Head(s)[4]>>
         /\ ~(Head(s)[1] = "fat" /\ Head(s)[2] < Copies)
              => /\ Rest(s) = Tail(s)
                 /\ Rest(s) # <<>> => Head(Rest(s)) \in Fresh
<1> DEFINE w == Head(s)
           next == <<"fat", w[2] + 1, w[3], w[4]>>
<1>1. w \in WriteType /\ Tail(s) \in Seq(WriteType)
  OBVIOUS
<1>2. CASE w[1] = "fat" /\ w[2] < Copies
  <2>1. next \in WriteType
    <3>1. w[2] \in 1 .. Copies /\ w[3] \in Clusters /\ w[4] \in Links
      BY <1>1, <1>2, WriteKinds
    <3>2. w[2] + 1 \in 1 .. Copies
      BY <1>2, <3>1, Fat32Assumption
    <3>3. QED
      BY <3>1, <3>2 DEF WriteType
  <2>2. Rest(s) = <<next>> \o Tail(s)
    BY <1>2 DEF Rest
  <2> HIDE DEF next
  <2>3. /\ Rest(s) \in Seq(WriteType) /\ Rest(s) # <<>>
        /\ Head(Rest(s)) = next /\ Tail(Rest(s)) = Tail(s)
    BY <1>1, <2>1, <2>2
  <2>4. QED
    BY <1>2, <2>3 DEF next
<1>3. CASE ~(w[1] = "fat" /\ w[2] < Copies)
  <2>1. Rest(s) = <<>> \o Tail(s)
    BY <1>3 DEF Rest
  <2>2. Rest(s) = Tail(s)
    BY <1>1, <2>1
  <2>3. Rest(s) # <<>> => Tail(Rest(s)) \in Seq(Fresh) /\ Head(Rest(s)) \in Fresh
    BY <2>2, FreshAreWrites
  <2>4. QED
    BY <1>1, <1>3, <2>2, <2>3
<1>4. QED
  BY <1>2, <1>3

\* A sector write: at the last copy the entry is in lockstep again.
LEMMA WriteSectorKeeps ==
  ASSUME Inv, WriteSector PROVE Inv'
<1> DEFINE w == Head(todo)
           more == w[1] = "fat" /\ w[2] < Copies
<1>1. /\ TypeOK /\ todo # <<>> /\ todo \in Seq(WriteType) /\ w \in WriteType
      /\ Tail(todo) \in Seq(Fresh) /\ Put(w) /\ todo' = Rest(todo)
  BY DEF Inv, HeadInv, TypeOK, WriteSector
<1>2. TypeOK'
  <2>1. todo' \in Seq(WriteType)
    BY <1>1, RestFacts
  <2>2. QED
    BY <1>1, <2>1, PutTypes DEF TypeOK, WriteSector
<1>3. JobInv'
  BY DEF Inv, JobInv, WriteSector
<1>4. ASSUME w[1] = "fat"
      PROVE  /\ fat' = [fat EXCEPT ![w[2]][w[3]] = w[4]]
             /\ w[2] \in 1 .. Copies /\ w[3] \in Clusters
             /\ \A j \in 1 .. w[2] : fat'[j][w[3]] = w[4]
             /\ \A j \in 1 .. Copies, c \in Clusters : c # w[3] => fat'[j][c] = fat[j][c]
  <2>1. w[2] \in 1 .. Copies /\ w[3] \in Clusters
    BY <1>1, <1>4, WriteKinds
  <2>2. fat' = [fat EXCEPT ![w[2]][w[3]] = w[4]]
    BY <1>1, <1>4 DEF Put
  <2>3. \A j \in 1 .. w[2] - 1 : fat[j][w[3]] = w[4]
    BY <1>1, <1>4 DEF Inv, HeadInv
  <2>4. fat \in [1 .. Copies -> [Clusters -> Links]] /\ Copies \in Nat
    BY <1>1, Fat32Assumption DEF TypeOK
  <2>5. \A j \in 1 .. w[2] : fat'[j][w[3]] = w[4]
    BY <2>1, <2>2, <2>3, <2>4
  <2>6. \A j \in 1 .. Copies, c \in Clusters : c # w[3] => fat'[j][c] = fat[j][c]
    BY <2>1, <2>2, <2>4
  <2>7. QED
    BY <2>1, <2>2, <2>5, <2>6
<1>5. more => todo' # <<>> /\ Head(todo') = <<"fat", w[2] + 1, w[3], w[4]>>
  BY <1>1, RestFacts
<1>6. ~more /\ todo' # <<>> => Head(todo') \in Fresh
  BY <1>1, RestFacts
<1>7. HeadInv'
  <2>1. todo' # <<>> => Tail(todo') \in Seq(Fresh)
    BY <1>1, RestFacts
  <2>2. CASE more
    <3>1. \A j \in 1 .. (w[2] + 1) - 1 : fat'[j][w[3]] = w[4]
      BY <1>4, <2>2
    <3>2. QED
      BY <1>5, <2>1, <2>2, <3>1 DEF HeadInv
  <2>3. CASE ~more
    <3>1. todo' # <<>> => (Head(todo')[1] = "fat" => Head(todo')[2] = 1)
      BY <1>6, <2>3 DEF Fresh
    <3>2. QED
      BY <2>1, <3>1 DEF HeadInv
  <2>4. QED
    BY <2>2, <2>3
<1>8. Apart' \ Torn' \subseteq Apart \ Torn
  <2>1. CASE w[1] = "fat"
    <3>1. Torn \subseteq {w[3]}
      BY DEF Torn
    <3>2. more => w[3] \in Torn'
      <4>1. more => w[2] + 1 > 1
        BY <1>4, <2>1
      <4>2. QED
        BY <1>4, <1>5, <2>1, <4>1 DEF Torn
    <3>3. ~more => w[3] \notin Apart'
      <4>1. ~more => w[2] = Copies
        BY <1>4, <2>1, Fat32Assumption
      <4>2. QED
        BY <1>4, <2>1, <4>1, Fat32Assumption DEF Apart
    <3>4. ASSUME NEW c \in Apart', c # w[3] PROVE c \in Apart
      <4>1. 1 \in 1 .. Copies
        BY Fat32Assumption
      <4>2. QED
        BY <1>4, <2>1, <3>4, <4>1 DEF Apart
    <3>5. QED
      BY <3>1, <3>2, <3>3, <3>4
  <2>2. CASE w[1] # "fat"
    <3>1. fat' = fat /\ Apart' = Apart
      BY <1>1, <2>2 DEF Put, Apart
    <3>2. Torn = {}
      BY <2>2 DEF Torn
    <3>3. QED
      BY <3>1, <3>2
  <2>3. QED
    BY <2>1, <2>2
<1>9. LockStep'
  <2>1. IsFiniteSet(Apart \ Torn)
    <3>1. IsFiniteSet(Clusters) /\ Apart \ Torn \in SUBSET Clusters
      BY Fat32Assumption, FS_Interval DEF Clusters, Apart
    <3>2. QED
      BY <3>1, FS_Subset
  <2>2. /\ Cardinality(Apart' \ Torn') <= Cardinality(Apart \ Torn)
        /\ IsFiniteSet(Apart' \ Torn')
    BY <1>8, <2>1, FS_Subset
  <2>3. Cardinality(Apart' \ Torn') \in Nat /\ Cardinality(Apart \ Torn) \in Nat
    BY <2>1, <2>2, FS_CardinalityType
  <2>4. crashes' = crashes /\ crashes \in Nat /\ Cardinality(Apart \ Torn) <= crashes
    BY DEF WriteSector, Inv, TypeOK, LockStep
  <2>5. QED
    BY <2>2, <2>3, <2>4 DEF LockStep
<1>10. QED
  BY <1>2, <1>3, <1>7, <1>9 DEF Inv

\* Between calls, and where one goes on, all its writes are done.
LEMMA IdleFacts ==
  ASSUME Inv, Idle PROVE todo = <<>>
BY DEF Inv, JobInv, Idle

LEMMA ReadyFacts ==
  ASSUME Inv, NEW at, at # "", Ready(at)
  PROVE  todo = <<>> /\ job.at = at /\ job.call \notin {"idle", "off"}
BY DEF Inv, JobInv, Ready

LEMMA NameType ==
  ASSUME NEW n \in Names PROVE BuildName(n) \in EntryNames
BY DEF EntryNames

LEMMA WriteFileKeeps ==
  ASSUME Inv, Idle, NEW call \in {"write", "touch"}, NEW n \in Names, NEW size \in Nat,
         WriteFile(call, n, size)
  PROVE  Inv'
<1> DEFINE name == BuildName(n)
           found == FindEntry(cwd, name)
           start == [NoJob EXCEPT !.call = call, !.at = "body", !.name = n,
                                  !.size = size]
           result(r) == [call |-> call, name |-> n, size |-> size, ret |-> r]
<1>1. todo = <<>> /\ TypeOK /\ cwd \in Clusters
  BY IdleFacts DEF Inv, TypeOK
<1>2. start \in JobType /\ start.call = call /\ start.at = "body"
  BY NoJobType DEF JobType
<1>3. found \in Places \cup {NoPlace}
  BY FindEntryFacts
<1>4. CASE Return(result(-1)) \/ Return(result(-2))
  BY <1>1, <1>4, ReturnKeeps
<1>5. CASE /\ found # NoPlace
           /\ Begin([start EXCEPT !.loc = found, !.first = Slot(found).first,
                                  !.cluster = Slot(found).first], <<>>)
  <2> DEFINE j == [start EXCEPT !.loc = found, !.first = Slot(found).first,
                                !.cluster = Slot(found).first]
  <2>1. found \in Places
    BY <1>3, <1>5
  <2>2. Slot(found).first \in Firsts /\ Slot(found).first \in Links
    BY <1>1, <2>1, SlotType DEF EntryType, Firsts, Links
  <2> HIDE DEF found, start
  <2>3. j \in JobType /\ j.loc = found /\ j.call = call /\ j.at = "body"
    BY <1>2, <2>1, <2>2 DEF JobType
  <2>4. <<>> \in Seq(Fresh)
    OBVIOUS
  <2> HIDE DEF j
  <2>5. Begin(j, <<>>)
    BY <1>5 DEF j
  <2>6. QED
    BY <1>1, <2>1, <2>3, <2>4, <2>5, BeginKeeps
<1>6. CASE /\ RoomIn(cwd) # NoPlace
           /\ Begin([start EXCEPT !.loc = RoomIn(cwd)],
                    RoomWrites(cwd) \o SetSlot(RoomIn(cwd), Entry(name, FALSE, 0, 0)))
  <2> DEFINE j == [start EXCEPT !.loc = RoomIn(cwd)]
             writes == RoomWrites(cwd) \o SetSlot(RoomIn(cwd), Entry(name, FALSE, 0, 0))
  <2>1. RoomIn(cwd) \in Places
    BY <1>6, RoomInFacts
  <2>2. writes \in Seq(Fresh)
    <3>1. Entry(name, FALSE, 0, 0) \in EntryType
      BY NameType, EntryIsEntry DEF Firsts
    <3>2. SetSlot(RoomIn(cwd), Entry(name, FALSE, 0, 0)) \in Seq(Fresh)
      BY <2>1, <3>1, SetSlotFresh
    <3>3. RoomWrites(cwd) \in Seq(Fresh)
      BY <1>1, <1>6, RoomWritesFresh
    <3>4. QED
      BY <3>2, <3>3, ConcatProperties
  <2> HIDE DEF start
  <2>3. j \in JobType /\ j.loc = RoomIn(cwd) /\ j.call = call /\ j.at = "body"
    BY <1>2, <2>1 DEF JobType
  <2> HIDE DEF j, writes
  <2>4. Begin(j, writes)
    BY <1>6 DEF j, writes
  <2>5. QED
    BY <1>1, <2>1, <2>2, <2>3, <2>4, BeginKeeps
<1>7. QED
  BY <1>4, <1>5, <1>6 DEF WriteFile

LEMMA WriteNothingKeeps ==
  ASSUME Inv, WriteNothing PROVE Inv'
<1> DEFINE j == [job EXCEPT !.at = "entry", !.first = 0]
<1>1. /\ todo = <<>> /\ job.at = "body" /\ job.call \notin {"idle", "off"}
      /\ job \in JobType /\ job.loc \in Places
  BY ReadyFacts DEF WriteNothing, Inv, TypeOK, JobInv
<1>2. /\ j \in JobType /\ j.loc \in Places /\ j.call \notin {"idle", "off"}
      /\ j.at = "entry"
  BY <1>1 DEF JobType, Firsts
<1>3. FreeChain(job.first) \in Seq(Fresh)
  BY FreeChainFresh
<1>4. Begin(j, FreeChain(job.first))
  BY DEF WriteNothing
<1> HIDE DEF j
<1>5. QED
  BY <1>1, <1>2, <1>3, <1>4, BeginKeeps

LEMMA WriteClusterKeeps ==
  ASSUME Inv, WriteCluster PROVE Inv'
<1> DEFINE fresh == job.cluster \notin Clusters
           c == IF fresh THEN FindFreeCluster ELSE job.cluster
           link == IF fresh /\ job.prev = 0 THEN c ELSE job.first
           next == IF fresh THEN EOC ELSE FatNext(c)
           j == [job EXCEPT !.first = link, !.prev = c, !.used = job.used + 1,
                            !.cluster = next]
           claim == IF fresh THEN Allocate(c) ELSE <<>>
           join == IF fresh /\ job.prev # 0 THEN SetFat(job.prev, c) ELSE <<>>
           write == << <<"data", c, <<job.size, job.used + 1>> >> >>
<1>1. /\ todo = <<>> /\ job.at = "body" /\ job.call \notin {"idle", "off"}
      /\ TypeOK /\ job \in JobType /\ job.loc \in Places
  BY ReadyFacts DEF WriteCluster, Inv, TypeOK, JobInv
<1>2. /\ job.first \in Firsts /\ job.prev \in Firsts /\ job.cluster \in Links
      /\ job.used \in Nat /\ job.size \in Nat
  BY <1>1 DEF JobType
<1>3. c # 0 /\ Begin(j, claim \o join \o write)
  BY DEF WriteCluster
<1>4. c \in Clusters
  BY <1>3, FindFreeClusterFacts DEF Firsts
<1>5. link \in Firsts /\ c \in Firsts /\ job.used + 1 \in Nat
  BY <1>2, <1>4 DEF Firsts
<1>6. next \in Links
  <2>1. 1 \in 1 .. Copies
    BY Fat32Assumption
  <2>2. FatNext(c) \in Links
    BY <1>1, <1>4, <2>1 DEF TypeOK, FatNext
  <2>3. QED
    BY <2>2 DEF Links
<1>7. claim \in Seq(Fresh)
  BY <1>4, AllocateFresh
<1>8. join \in Seq(Fresh)
  <2>1. job.prev # 0 => job.prev \in Clusters
    BY <1>2 DEF Firsts
  <2>2. c \in Links
    BY <1>4 DEF Links
  <2>3. job.prev # 0 => SetFat(job.prev, c) \in Seq(Fresh)
    BY <2>1, <2>2, SetFatFresh
  <2>4. QED
    BY <2>3
<1>9. write \in Seq(Fresh)
  <2>1. <<"data", c, <<job.size, job.used + 1>> >> \in Fresh
    BY <1>2, <1>4, <1>5 DEF Fresh, WriteType
  <2>2. QED
    BY <2>1
<1> HIDE DEF c, link, next, claim, join, write
<1>10. claim \o join \o write \in Seq(Fresh)
  BY <1>7, <1>8, <1>9, ConcatProperties
<1>11. /\ j \in JobType /\ j.loc \in Places /\ j.call \notin {"idle", "off"}
       /\ j.at = "body"
  BY <1>1, <1>5, <1>6 DEF JobType
<1> HIDE DEF j
<1>12. QED
  BY <1>1, <1>3, <1>10, <1>11, BeginKeeps

LEMMA WriteTrimKeeps ==
  ASSUME Inv, WriteTrim PROVE Inv'
<1> DEFINE j == [job EXCEPT !.at = "entry"]
           cut == IF job.prev # 0 THEN SetFat(job.prev, EOC) ELSE <<>>
<1>1. /\ todo = <<>> /\ job.at = "body" /\ job.call \notin {"idle", "off"}
      /\ job \in JobType /\ job.loc \in Places /\ job.prev \in Firsts
  BY ReadyFacts DEF WriteTrim, Inv, TypeOK, JobInv, JobType
<1>2. /\ j \in JobType /\ j.loc \in Places /\ j.call \notin {"idle", "off"}
      /\ j.at = "entry"
  BY <1>1 DEF JobType
<1>3. cut \in Seq(Fresh)
  <2>1. job.prev # 0 => job.prev \in Clusters
    BY <1>1 DEF Firsts
  <2>2. EOC \in Links
    BY DEF Links
  <2>3. job.prev # 0 => SetFat(job.prev, EOC) \in Seq(Fresh)
    BY <2>1, <2>2, SetFatFresh
  <2>4. QED
    BY <2>3
<1>4. Begin(j, cut \o FreeChain(job.cluster))
  BY DEF WriteTrim, Goto
<1> HIDE DEF j, cut
<1>5. cut \o FreeChain(job.cluster) \in Seq(Fresh)
  BY <1>3, FreeChainFresh, ConcatProperties
<1>6. QED
  BY <1>1, <1>2, <1>4, <1>5, BeginKeeps

\* What was written is a number of bytes.
LEMMA WrittenType ==
  ASSUME TypeOK PROVE Written \in Nat
<1>1. job.size \in Nat /\ job.used \in Nat
  BY DEF TypeOK, JobType
<1>2. job.used * ClusterBytes \in Nat
  BY <1>1, Fat32Assumption
<1> DEFINE both == {job.size, job.used * ClusterBytes}
<1>3. both \subseteq Nat /\ both # {}
  BY <1>1, <1>2
<1> HIDE DEF both
<1>4. Min(both) \in Nat
  BY <1>3, MinIsIn
<1>5. QED
  BY <1>4 DEF Written, both

LEMMA WriteEntryKeeps ==
  ASSUME Inv, WriteEntry PROVE Inv'
<1> DEFINE j == [job EXCEPT !.at = "return", !.ret = Written]
           e == [Slot(job.loc) EXCEPT !.first = job.first, !.size = Written]
<1>1. /\ todo = <<>> /\ job.at = "entry" /\ job.call \notin {"idle", "off"}
      /\ TypeOK /\ job \in JobType /\ job.loc \in Places /\ job.first \in Firsts
  BY ReadyFacts DEF WriteEntry, Inv, TypeOK, JobInv, JobType
<1>2. Written \in Nat /\ Written \in Int
  BY <1>1, WrittenType
<1>3. j \in JobType /\ j.at = "return" /\ j.call \notin {"idle", "off"}
  BY <1>1, <1>2 DEF JobType
<1>4. e \in EntryType
  BY <1>1, <1>2, SlotType DEF EntryType
<1>5. Begin(j, SetSlot(job.loc, e))
  BY DEF WriteEntry
<1> HIDE DEF j, e
<1>6. SetSlot(job.loc, e) \in Seq(Fresh)
  BY <1>1, <1>4, SetSlotFresh
<1>7. QED
  BY <1>1, <1>3, <1>5, <1>6, BeginKeeps

LEMMA CallReturnKeeps ==
  ASSUME Inv, CallReturn PROVE Inv'
<1>1. todo = <<>>
  BY ReadyFacts DEF CallReturn
<1>2. QED
  BY <1>1, ReturnKeeps DEF CallReturn

LEMMA MkdirKeeps ==
  ASSUME Inv, NEW n \in Names, Mkdir(n) PROVE Inv'
<1> DEFINE c == FindFreeCluster
           j == [NoJob EXCEPT !.call = "mkdir", !.at = "slot", !.name = n, !.first = c]
           seed == << <<"seed", c, Seed(c)>> >>
<1>1. todo = <<>> /\ cwd \in Clusters
  BY IdleFacts DEF Mkdir, Inv, TypeOK
<1>2. CASE Return(Result("mkdir", n, -1)) \/ Return(Result("mkdir", n, -2))
  BY <1>1, <1>2, ReturnKeeps
<1>3. CASE c # 0 /\ Begin(j, Allocate(c) \o seed)
  <2>1. c \in Clusters /\ c \in Firsts
    BY <1>3, FindFreeClusterFacts DEF Firsts
  <2>2. Allocate(c) \in Seq(Fresh)
    BY <2>1, AllocateFresh
  <2>3. seed \in Seq(Fresh)
    <3>1. <<"seed", c, Seed(c)>> \in Fresh
      BY <1>1, <2>1, SeedType DEF Fresh, WriteType
    <3>2. QED
      BY <3>1
  <2> HIDE DEF c, seed
  <2>4. Allocate(c) \o seed \in Seq(Fresh)
    BY <2>2, <2>3, ConcatProperties
  <2>5. /\ j \in JobType /\ j.at = "slot" /\ j.name = n
        /\ j.call \notin {"idle", "off"}
    BY <2>1, NoJobType DEF JobType
  <2> HIDE DEF j
  <2>6. QED
    BY <1>1, <1>3, <2>4, <2>5, BeginKeeps
<1>4. QED
  BY <1>2, <1>3 DEF Mkdir

LEMMA MkdirEntryKeeps ==
  ASSUME Inv, MkdirEntry PROVE Inv'
<1> DEFINE e == Entry(BuildName(job.name), TRUE, job.first, 0)
           j == [job EXCEPT !.at = "return", !.loc = RoomIn(cwd)]
           writes == RoomWrites(cwd) \o SetSlot(RoomIn(cwd), e)
<1>1. /\ todo = <<>> /\ job.at = "slot" /\ job.call \notin {"idle", "off"}
      /\ job \in JobType /\ cwd \in Clusters /\ job.first \in Firsts
      /\ job.name \in Names
  BY ReadyFacts DEF MkdirEntry, Inv, TypeOK, JobType, JobInv
<1>2. RoomIn(cwd) # NoPlace /\ RoomIn(cwd) \in Places
  BY RoomInFacts DEF MkdirEntry
<1>3. e \in EntryType
  <2>1. BuildName(job.name) \in EntryNames
    BY <1>1, NameType
  <2>2. QED
    BY <1>1, <2>1, EntryIsEntry
<1>4. writes \in Seq(Fresh)
  <2> HIDE DEF e
  <2>1. SetSlot(RoomIn(cwd), e) \in Seq(Fresh)
    BY <1>2, <1>3, SetSlotFresh
  <2>2. RoomWrites(cwd) \in Seq(Fresh)
    BY <1>1, <1>2, RoomWritesFresh
  <2>3. QED
    BY <2>1, <2>2, ConcatProperties
<1>5. j \in JobType /\ j.at = "return" /\ j.call \notin {"idle", "off"}
  BY <1>1, <1>2 DEF JobType
<1>6. Begin(j, writes)
  BY DEF MkdirEntry
<1> HIDE DEF j, writes
<1>7. QED
  BY <1>1, <1>4, <1>5, <1>6, BeginKeeps

LEMMA MkdirFullKeeps ==
  ASSUME Inv, MkdirFull PROVE Inv'
<1> DEFINE j == [job EXCEPT !.at = "return", !.ret = -2]
<1>1. /\ todo = <<>> /\ job.at = "slot" /\ job.call \notin {"idle", "off"}
      /\ job \in JobType
  BY ReadyFacts DEF MkdirFull, Inv, TypeOK
<1>2. j \in JobType /\ j.at = "return" /\ j.call \notin {"idle", "off"}
  <2>1. -2 \in Int
    OBVIOUS
  <2>2. QED
    BY <1>1, <2>1 DEF JobType
<1>3. FreeChain(job.first) \in Seq(Fresh)
  BY FreeChainFresh
<1>4. Begin(j, FreeChain(job.first))
  BY DEF MkdirFull
<1> HIDE DEF j
<1>5. QED
  BY <1>1, <1>2, <1>3, <1>4, BeginKeeps

\* A delete frees the chain and marks the entry.
LEMMA DeleteKeeps ==
  ASSUME Inv, Idle, NEW call \in {"rmdir", "remove"}, NEW n \in Names,
         NEW l \in Places, Delete(call, n, l)
  PROVE  Inv'
<1> DEFINE j == [NoJob EXCEPT !.call = call, !.at = "return", !.name = n, !.loc = l]
           writes == FreeChain(Slot(l).first) \o SetSlot(l, Deleted)
<1>1. todo = <<>>
  BY IdleFacts
<1>2. j \in JobType /\ j.at = "return" /\ j.call \notin {"idle", "off"}
  BY NoJobType DEF JobType
<1>3. writes \in Seq(Fresh)
  <2>1. SetSlot(l, Deleted) \in Seq(Fresh)
    BY EndMarkType, SetSlotFresh
  <2>2. QED
    BY <2>1, FreeChainFresh, ConcatProperties
<1>4. Begin(j, writes)
  BY DEF Delete
<1> HIDE DEF j, writes
<1>5. QED
  BY <1>1, <1>2, <1>3, <1>4, BeginKeeps

LEMMA RmdirKeeps ==
  ASSUME Inv, NEW n \in Names, Rmdir(n) PROVE Inv'
<1> DEFINE l == FindEntry(cwd, BuildName(n))
<1>1. Idle /\ todo = <<>>
  BY IdleFacts DEF Rmdir
<1>2. CASE \E r : Return(Result("rmdir", n, r))
  BY <1>1, <1>2, ReturnKeeps
<1>3. CASE l # NoPlace /\ Delete("rmdir", n, l)
  <2>1. l \in Places
    BY <1>3, FindEntryFacts
  <2>2. QED
    BY <1>1, <1>3, <2>1, DeleteKeeps
<1>4. QED
  BY <1>2, <1>3 DEF Rmdir

LEMMA RemoveFileKeeps ==
  ASSUME Inv, NEW n \in Names, RemoveFile(n) PROVE Inv'
<1> DEFINE l == FindEntry(cwd, BuildName(n))
<1>1. Idle /\ todo = <<>>
  BY IdleFacts DEF RemoveFile
<1>2. CASE \E r : Return(Result("remove", n, r))
  BY <1>1, <1>2, ReturnKeeps
<1>3. CASE l # NoPlace /\ Delete("remove", n, l)
  <2>1. l \in Places
    BY <1>3, FindEntryFacts
  <2>2. QED
    BY <1>1, <1>3, <2>1, DeleteKeeps
<1>4. QED
  BY <1>2, <1>3 DEF RemoveFile

LEMMA ChangeDirKeeps ==
  ASSUME Inv, NEW n, ChangeDir(n) PROVE Inv'
<1> DEFINE l == FindEntry(cwd, BuildName(n))
<1>1. TypeOK /\ cwd \in Clusters
  BY DEF Inv, TypeOK
<1>2. Root \in Clusters
  BY Fat32Assumption DEF Clusters
<1>3. l # NoPlace => Slot(l).first \in Firsts
  BY <1>1, FindEntryFacts, SlotType DEF EntryType
<1>4. cwd' \in Clusters
  BY <1>1, <1>2, <1>3 DEF ChangeDir, Firsts
<1>5. QED
  BY <1>4, MoveKeeps DEF ChangeDir

LEMMA NextKeeps ==
  ASSUME Inv, [Next]_vars PROVE Inv'
<1>1. CASE Step
  BY <1>1, WriteSectorKeeps, WriteNothingKeeps, WriteClusterKeeps, WriteTrimKeeps,
     WriteEntryKeeps, MkdirEntryKeeps, MkdirFullKeeps, CallReturnKeeps DEF Step
<1>2. ASSUME NEW n \in Names, NEW size \in Sizes, Write(n, size) PROVE Inv'
  <2>1. size \in Nat
    BY Fat32Assumption
  <2>2. QED
    BY <1>2, <2>1, WriteFileKeeps DEF Write
<1>3. ASSUME NEW n \in Names, Touch(n) PROVE Inv'
  BY <1>3, WriteFileKeeps DEF Touch
<1>4. CASE ChangeToRoot
  <2>1. Root \in Clusters
    BY Fat32Assumption DEF Clusters
  <2>2. QED
    BY <1>4, <2>1, MoveKeeps DEF ChangeToRoot
<1>5. CASE Call
  BY <1>2, <1>3, <1>4, <1>5, MkdirKeeps, RmdirKeeps, RemoveFileKeeps, ChangeDirKeeps
     DEF Call
<1>6. CASE UNCHANGED vars
  <2>1. TypeOK'
    BY <1>6 DEF Inv, TypeOK, vars
  <2>2. JobInv' /\ HeadInv'
    BY <1>6 DEF Inv, JobInv, HeadInv, vars
  <2>3. LockStep'
    BY <1>6 DEF Inv, LockStep, Apart, Torn, vars
  <2>4. QED
    BY <2>1, <2>2, <2>3 DEF Inv
<1>7. QED
  BY <1>1, <1>5, <1>6, CrashKeeps DEF Next

\* The copies differ in at most the entry being written, and in one more for each
\* power failure.
LEMMA InvImpliesAgree ==
  ASSUME Inv PROVE CopiesAgree
<1>1. IsFiniteSet(Apart) /\ IsFiniteSet(Apart \ Torn)
  <2>1. IsFiniteSet(Clusters) /\ Apart \in SUBSET Clusters
    BY Fat32Assumption, FS_Interval DEF Clusters, Apart
  <2>2. IsFiniteSet(Apart) /\ Apart \ Torn \in SUBSET Apart
    BY <2>1, FS_Subset
  <2>3. QED
    BY <2>2, FS_Subset
<1>2. crashes \in Nat /\ Cardinality(Apart \ Torn) <= crashes
  BY DEF Inv, TypeOK, LockStep
<1>3. CASE Idle
  <2>1. Torn = {} /\ Apart \ Torn = Apart
    BY <1>3, IdleFacts, NothingTorn
  <2>2. Cardinality(Apart) <= crashes
    BY <1>2, <2>1
  <2>3. QED
    BY <1>2, <1>3, <2>2 DEF CopiesAgree
<1>4. CASE ~Idle
  <2>1. PICK c : Torn \subseteq {c}
    BY DEF Torn
  <2> DEFINE wide == (Apart \ Torn) \cup {c}
  <2>2. Cardinality(Apart \ Torn) \in Nat
    BY <1>1, FS_CardinalityType
  <2>3. IsFiniteSet(wide) /\ Cardinality(wide) <= Cardinality(Apart \ Torn) + 1
    BY <1>1, <2>2, FS_AddElement
  <2>4. Apart \in SUBSET wide
    BY <2>1
  <2> HIDE DEF wide
  <2>5. Cardinality(Apart) <= Cardinality(wide)
    BY <2>3, <2>4, FS_Subset
  <2>6. Cardinality(Apart) \in Nat /\ Cardinality(wide) \in Nat
    BY <1>1, <2>3, FS_CardinalityType
  <2>7. Cardinality(Apart) <= crashes + 1
    BY <1>2, <2>2, <2>3, <2>5, <2>6
  <2>8. QED
    BY <1>4, <2>7 DEF CopiesAgree
<1>5. QED
  BY <1>3, <1>4

-----------------------------------------------------------------------------
\* At every moment, between any two sector writes and after any power failure, the
\* entries of the table and of the directories name clusters of the volume, the
\* place a call is about to edit is on it, and the copies of the table differ in
\* no more than the entry being written and one entry for each power failure.
THEOREM VolumeStaysWellFormed == Spec => []VolumeWellFormed
<1>1. Init => Inv
  BY InitInv
<1>2. Inv /\ [Next]_vars => Inv'
  BY NextKeeps
<1>3. Inv => VolumeWellFormed
  BY InvImpliesAgree DEF VolumeWellFormed, Inv
<1>4. QED
  BY <1>1, <1>2, <1>3, PTL DEF Spec

-----------------------------------------------------------------------------
(***************************************************************************)
(* The invariant of the chains                                             *)
(***************************************************************************)
\* The writes not begun yet: the remaining copies of the one under way, which
\* change nothing the code reads, are left out.
Ahead ==
  IF todo # <<>> /\ Head(todo)[1] = "fat" /\ Head(todo)[2] > 1 THEN Tail(todo) ELSE todo

\* The entries that name a cluster; clusters in use, and those that end a chain.
Named == {l \in Places : Slot(l).state = "used" /\ ~IsDot(Slot(l)) /\ Slot(l).first # 0}
Used(c) == FatNext(c) # 0
Ends(c) == FatNext(c) \notin Clusters \cup {0}

\* Each cluster carries the head of its chain and a place that grows along it.
Labels(own, pos) == own \in [Clusters -> Clusters] /\ pos \in [Clusters -> Nat]
Starts(own, pos, c) == own[c] = c /\ pos[c] = 0

\* No two clusters are followed by the same one, and none by a free one.
TableInv(own, pos) ==
  /\ \A x \in Clusters : FatNext(x) \in Clusters =>
       /\ Used(FatNext(x))
       /\ own[FatNext(x)] = own[x] /\ pos[FatNext(x)] > pos[x]
  /\ \A x \in Clusters : ~Used(x) => Starts(own, pos, x)
  /\ \A x, y \in Clusters : FatNext(x) = FatNext(y) /\ FatNext(x) \in Clusters => x = y

\* Entries name heads of chains, each a head of its own.
HeadsInv(own, pos) ==
  /\ Starts(own, pos, Root) /\ Used(Root)
  /\ \A l \in Named : Starts(own, pos, Slot(l).first) /\ Slot(l).first # Root
  /\ \A l, m \in Named : Slot(l).first = Slot(m).first => l = m

\* The current directory has a chain, and no file's entry names it.
CwdInv(own, pos) ==
  /\ Starts(own, pos, cwd) /\ Used(cwd)
  /\ \A l \in Named : Slot(l).first = cwd => Slot(l).dir

Base(own, pos) ==
  Labels(own, pos) /\ TableInv(own, pos) /\ HeadsInv(own, pos) /\ CwdInv(own, pos)

-----------------------------------------------------------------------------
(***************************************************************************)
(* Chains                                                                  *)
(***************************************************************************)
LEMMA ClustersAre ==
  /\ Clusters \subseteq Nat /\ 0 \notin Clusters /\ EOC \notin Clusters /\ EOC # 0
  /\ Root \in Clusters /\ IsFiniteSet(Clusters) /\ Cardinality(Clusters) = LastCluster - 1
BY Fat32Assumption, FS_Interval DEF Clusters, EOC

\* The elements of a sequence.
LEMMA ToSetIs ==
  ASSUME NEW S, NEW s \in Seq(S)
  PROVE  /\ \A k \in 1 .. Len(s) : s[k] \in ToSet(s)
         /\ \A x \in ToSet(s) : x \in S /\ \E k \in 1 .. Len(s) : x = s[k]
<1>1. DOMAIN s = 1 .. Len(s)
  OBVIOUS
<1>2. QED
  BY <1>1 DEF ToSet

\* Along a chain each cluster is followed by the next, and the last by none.
LEMMA ChainSteps ==
  ASSUME NEW c
  PROVE  \A k \in 1 .. Len(Chain(c)) - 1 : Chain(c)[k + 1] = FatNext(Chain(c)[k])
<1> DEFINE chain == Chain(c)
<1>1. /\ chain \in Seq(Clusters) /\ Len(chain) <= LastCluster
      /\ \A k \in 1 .. Len(chain) : chain[k] = Walk(c)[k]
  BY ChainFacts
<1>2. LastCluster \in Nat
  BY Fat32Assumption
<1> HIDE DEF chain
<1>3. ASSUME NEW k \in 1 .. Len(chain) - 1 PROVE chain[k + 1] = FatNext(chain[k])
  <2>1. /\ k \in 1 .. Len(chain) /\ k + 1 \in 1 .. Len(chain)
        /\ k + 1 \in 2 .. LastCluster /\ (k + 1) - 1 = k
    BY <1>1, <1>2
  <2>2. Walk(c)[k + 1] = Follow(Walk(c)[k])
    BY <2>1, WalkFacts
  <2>3. Walk(c)[k + 1] = chain[k + 1] /\ Walk(c)[k] = chain[k] /\ chain[k] \in Clusters
    BY <1>1, <2>1
  <2>4. QED
    BY <2>2, <2>3 DEF Follow
<1>4. QED
  BY <1>3 DEF chain

\* Along a chain the head stays the same and the place grows.
LEMMA ChainLabels ==
  ASSUME TypeOK, NEW own, NEW pos, Labels(own, pos), TableInv(own, pos), NEW c \in Clusters
  PROVE  /\ \A k \in 1 .. Len(Chain(c)) :
              own[Chain(c)[k]] = own[c] /\ (Used(c) => Used(Chain(c)[k]))
         /\ \A j, k \in 1 .. Len(Chain(c)) : j < k => pos[Chain(c)[j]] < pos[Chain(c)[k]]
<1> DEFINE chain == Chain(c)
<1>1. /\ chain \in Seq(Clusters) /\ Len(chain) \in Nat
      /\ Len(chain) >= 1 /\ chain[1] = c
  BY ChainFacts
<1>2. \A k \in 1 .. Len(chain) - 1 : chain[k + 1] = FatNext(chain[k])
  BY ChainSteps
<1> HIDE DEF chain
<1>3. \A k \in 1 .. Len(chain) : chain[k] \in Clusters
  BY <1>1
<1>4. ASSUME NEW k \in 1 .. Len(chain) - 1
      PROVE  /\ own[chain[k + 1]] = own[chain[k]] /\ pos[chain[k + 1]] > pos[chain[k]]
             /\ Used(chain[k + 1])
  <2>1. /\ k \in 1 .. Len(chain) /\ k + 1 \in 1 .. Len(chain)
        /\ chain[k + 1] = FatNext(chain[k])
    BY <1>1, <1>2
  <2>2. chain[k] \in Clusters /\ chain[k + 1] \in Clusters
    BY <1>3, <2>1
  <2>3. QED
    BY <2>1, <2>2 DEF TableInv
<1> DEFINE bad == {k \in 1 .. Len(chain) :
                     ~(own[chain[k]] = own[c] /\ (Used(c) => Used(chain[k])))}
<1>5. bad = {}
  <2>1. SUFFICES ASSUME bad # {} PROVE FALSE
    OBVIOUS
  <2>2. PICK k \in bad : \A j \in bad : k <= j
    <3>1. bad \subseteq Nat
      OBVIOUS
    <3> HIDE DEF bad
    <3>2. QED
      BY <2>1, <3>1, LeastNat
  <2>3. k # 1 /\ k \in 1 .. Len(chain)
    BY <1>1, <2>2
  <2>4. k - 1 \in 1 .. Len(chain) - 1 /\ k - 1 \in 1 .. Len(chain) /\ (k - 1) + 1 = k
        /\ ~(k <= k - 1)
    BY <1>1, <2>3
  <2>5. k - 1 \notin bad
    <3> HIDE DEF bad
    <3>1. QED
      BY <2>2, <2>4
  <2>6. own[chain[k - 1]] = own[c] /\ (Used(c) => Used(chain[k - 1]))
    BY <2>4, <2>5
  <2>7. own[chain[k]] = own[chain[k - 1]] /\ Used(chain[k])
    BY <1>4, <2>4
  <2>8. k \notin bad
    BY <2>6, <2>7
  <2>9. QED
    BY <2>2, <2>8
<1> DEFINE late == {k \in 1 .. Len(chain) :
                      \E j \in 1 .. Len(chain) : j < k /\ ~(pos[chain[j]] < pos[chain[k]])}
<1>6. late = {}
  <2>1. SUFFICES ASSUME late # {} PROVE FALSE
    OBVIOUS
  <2>2. PICK k \in late : \A j \in late : k <= j
    <3>1. late \subseteq Nat
      OBVIOUS
    <3> HIDE DEF late
    <3>2. QED
      BY <2>1, <3>1, LeastNat
  <2>3. PICK j \in 1 .. Len(chain) : j < k /\ ~(pos[chain[j]] < pos[chain[k]])
    BY <2>2
  <2>4. /\ k \in 1 .. Len(chain) /\ k - 1 \in 1 .. Len(chain) - 1
        /\ k - 1 \in 1 .. Len(chain) /\ (k - 1) + 1 = k /\ ~(k <= k - 1)
    BY <1>1, <2>2, <2>3
  <2>5. k - 1 \notin late
    <3> HIDE DEF late
    <3>1. QED
      BY <2>2, <2>4
  <2>6. pos[chain[k]] > pos[chain[k - 1]]
    BY <1>4, <2>4
  <2>7. j < k - 1 => pos[chain[j]] < pos[chain[k - 1]]
    BY <2>4, <2>5
  <2>8. /\ pos[chain[k]] \in Nat /\ pos[chain[k - 1]] \in Nat /\ pos[chain[j]] \in Nat
    BY <1>3, <2>3, <2>4 DEF Labels
  <2>9. j = k - 1 \/ j < k - 1
    BY <2>3, <2>4
  <2>10. QED
    BY <2>3, <2>6, <2>7, <2>8, <2>9
<1>7. QED
  BY <1>5, <1>6 DEF chain

\* The last cluster of a chain is followed by none.
LEMMA ChainLast ==
  ASSUME TypeOK, NEW own, NEW pos, Labels(own, pos), TableInv(own, pos), NEW c \in Clusters
  PROVE  FatNext(Chain(c)[Len(Chain(c))]) \notin Clusters
<1> DEFINE chain == Chain(c)
           m == Len(chain)
           hop == Walk(c)
           inside == {n \in 0 .. LastCluster : \A k \in 1 .. n : hop[k] \in Clusters}
<1>1. LastCluster \in Nat /\ LastCluster >= 2
  BY Fat32Assumption
<1>2. /\ chain \in Seq(Clusters) /\ m \in Nat /\ m >= 1 /\ m <= LastCluster
      /\ \A k \in 1 .. m : chain[k] = hop[k]
  BY ChainFacts
<1>3. \A n \in inside : m >= n
  <2>1. 0 \in inside /\ inside \subseteq 0 .. LastCluster
    BY <1>1
  <2>2. Max(inside) \in inside /\ \A n \in inside : Max(inside) >= n
    <3> HIDE DEF inside
    <3>1. QED
      BY <1>1, <2>1, MaxIsIn
  <2>3. Max(inside) \in Nat
    BY <2>1, <2>2
  <2>4. chain = [k \in 1 .. Max(inside) |-> hop[k]]
    BY DEF Chain
  <2> HIDE DEF inside, hop, chain
  <2>5. m = Max(inside)
    BY <2>3, <2>4
  <2>6. QED
    BY <2>2, <2>5
<1>4. m # LastCluster
  <2>1. SUFFICES ASSUME m = LastCluster PROVE FALSE
    OBVIOUS
  <2>2. IsFiniteSet(1 .. m) /\ Cardinality(1 .. m) = m
    BY <1>2, FS_Interval
  <2>3. Cardinality(Clusters) < Cardinality(1 .. m)
    BY <1>1, <2>1, <2>2, ClustersAre
  <2> HIDE DEF m, chain
  <2>4. chain \in [1 .. m -> Clusters]
    BY <1>2 DEF m
  <2>5. PICK i, j \in 1 .. m : i # j /\ chain[i] = chain[j]
    BY <2>2, <2>3, <2>4, ClustersAre, FS_PigeonHole
  <2>6. \A a, b \in 1 .. m : a < b => pos[chain[a]] < pos[chain[b]]
    BY ChainLabels DEF m, chain
  <2>7. pos[chain[i]] \in Nat /\ pos[chain[j]] \in Nat
    BY <2>4, <2>5 DEF Labels
  <2>8. i < j \/ j < i
    BY <1>2, <2>5
  <2>9. QED
    BY <2>5, <2>6, <2>7, <2>8
<1>5. SUFFICES ASSUME FatNext(chain[m]) \in Clusters PROVE FALSE
  OBVIOUS
<1>6. m + 1 \in 2 .. LastCluster /\ (m + 1) - 1 = m /\ m \in 1 .. m
  BY <1>1, <1>2, <1>4
<1>7. hop[m + 1] = Follow(hop[m])
  BY <1>6, WalkFacts
<1> HIDE DEF hop, m, chain
<1>8. chain[m] \in Clusters /\ hop[m] = chain[m]
  BY <1>2, <1>6 DEF m
<1>9. hop[m + 1] \in Clusters
  BY <1>5, <1>7, <1>8 DEF Follow
<1>10. \A k \in 1 .. m + 1 : hop[k] \in Clusters
  <2>1. \A k \in 1 .. m : hop[k] \in Clusters
    BY <1>2 DEF m
  <2>2. QED
    BY <1>2, <1>9, <2>1
<1>11. m + 1 \in inside
  BY <1>6, <1>10
<1> HIDE DEF inside
<1>12. QED
  BY <1>2, <1>3, <1>11

\* The same, after a step.
LEMMA WalkFactsNext ==
  (\A c : /\ Walk(c)[1] = c
          /\ \A k \in 2 .. LastCluster : Walk(c)[k] = Follow(Walk(c)[k-1]))'
<1>1. \A c : /\ Walk(c)[1] = c
             /\ \A k \in 2 .. LastCluster : Walk(c)[k] = Follow(Walk(c)[k-1])
  BY WalkFacts
<1>2. QED
  BY <1>1, PTL

\* How far the chain from c goes, and its clusters.
LEMMA ChainReach ==
  ASSUME NEW c
  PROVE  \E m \in 0 .. LastCluster :
           /\ Chain(c) = [k \in 1 .. m |-> Walk(c)[k]]
           /\ m = Max({n \in 0 .. LastCluster : \A k \in 1 .. n : Walk(c)[k] \in Clusters})
           /\ \A n \in 0 .. LastCluster :
                n <= m <=> \A k \in 1 .. n : Walk(c)[k] \in Clusters
<1> DEFINE inside == {n \in 0 .. LastCluster : \A k \in 1 .. n : Walk(c)[k] \in Clusters}
           m == Max(inside)
<1>1. LastCluster \in Nat /\ LastCluster >= 2
  BY Fat32Assumption
<1>2. m \in inside /\ \A n \in inside : m >= n
  <2>1. 0 \in inside /\ inside \subseteq 0 .. LastCluster
    BY <1>1
  <2> HIDE DEF inside
  <2>2. QED
    BY <1>1, <2>1, MaxIsIn
<1>3. m \in 0 .. LastCluster /\ \A k \in 1 .. m : Walk(c)[k] \in Clusters
  BY <1>2
<1>4. Chain(c) = [k \in 1 .. m |-> Walk(c)[k]]
  BY DEF Chain
<1> HIDE DEF m
<1>5. ASSUME NEW n \in 0 .. LastCluster
      PROVE  n <= m <=> \A k \in 1 .. n : Walk(c)[k] \in Clusters
  <2>1. ASSUME n <= m PROVE \A k \in 1 .. n : Walk(c)[k] \in Clusters
    BY <1>1, <1>3, <2>1
  <2>2. ASSUME \A k \in 1 .. n : Walk(c)[k] \in Clusters PROVE n <= m
    BY <1>1, <1>2, <1>3, <2>2
  <2>3. QED
    BY <2>1, <2>2
<1>6. QED
  BY <1>3, <1>4, <1>5 DEF m

\* A chain none of whose clusters is written to stays as it is.
LEMMA ChainStays ==
  ASSUME NEW d, \A x \in ToSet(Chain(d)) : FatNext(x)' = FatNext(x)
  PROVE  Chain(d)' = Chain(d)
<1> DEFINE inside == {n \in 0 .. LastCluster : \A k \in 1 .. n : Walk(d)[k] \in Clusters}
<1>0. LastCluster \in Nat
  BY Fat32Assumption
<1>1. PICK m \in 0 .. LastCluster :
        /\ Chain(d) = [k \in 1 .. m |-> Walk(d)[k]]
        /\ m = Max(inside)
        /\ \A n \in 0 .. LastCluster :
             n <= m <=> \A k \in 1 .. n : Walk(d)[k] \in Clusters
  BY ChainReach
<1>2. \A k \in 1 .. m : Walk(d)[k] \in ToSet(Chain(d)) /\ Walk(d)[k] \in Clusters
  <2>1. \A k \in 1 .. m : Chain(d)[k] = Walk(d)[k]
    BY <1>1
  <2>2. Len(Chain(d)) = m
    BY <1>0, <1>1
  <2>3. \A k \in 1 .. m : Walk(d)[k] \in ToSet(Chain(d))
    BY <2>1, <2>2, ChainFacts, ToSetIs
  <2>4. m <= m
    BY <1>0, <1>1
  <2>5. QED
    BY <1>1, <2>3, <2>4
<1>3. \A k \in 2 .. LastCluster : Walk(d)[k] = Follow(Walk(d)[k-1])
  BY WalkFacts
<1>4. \A k \in 2 .. LastCluster : Walk(d)'[k] = Follow(Walk(d)[k-1])'
  BY WalkFactsNext
<1>5. Walk(d)[1] = d /\ Walk(d)'[1] = d
  BY WalkFacts, WalkFactsNext
<1> DEFINE odd == {k \in 1 .. LastCluster : k <= m + 1 /\ Walk(d)'[k] # Walk(d)[k]}
<1>6. odd = {}
  <2>1. SUFFICES ASSUME odd # {} PROVE FALSE
    OBVIOUS
  <2>2. PICK k \in odd : \A j \in odd : k <= j
    <3>1. odd \subseteq Nat
      OBVIOUS
    <3> HIDE DEF odd
    <3>2. QED
      BY <2>1, <3>1, LeastNat
  <2>3. k # 1 /\ k \in 1 .. LastCluster /\ k <= m + 1
    BY <1>5, <2>2
  <2>4. k \in 2 .. LastCluster /\ k - 1 \in 1 .. LastCluster /\ k - 1 \in 1 .. m
        /\ k - 1 <= m + 1 /\ ~(k <= k - 1)
    BY <1>0, <1>1, <2>3
  <2>5. k - 1 \notin odd
    <3> HIDE DEF odd
    <3>1. QED
      BY <2>2, <2>4
  <2>6. Walk(d)'[k-1] = Walk(d)[k-1]
    BY <2>4, <2>5
  <2>7. Walk(d)[k-1] \in Clusters /\ FatNext(Walk(d)[k-1])' = fat'[1][Walk(d)[k-1]]
    BY <1>2, <2>4, <2>6 DEF FatNext
  <2>8. fat'[1][Walk(d)[k-1]] = fat[1][Walk(d)[k-1]]
    BY <1>2, <2>4 DEF FatNext
  <2>9. Walk(d)'[k] = fat'[1][Walk(d)[k-1]]
    BY <1>4, <2>4, <2>6, <2>7 DEF Follow, FatNext
  <2>10. Walk(d)[k] = fat[1][Walk(d)[k-1]]
    BY <1>3, <2>4, <2>7 DEF Follow, FatNext
  <2>11. QED
    BY <2>2, <2>8, <2>9, <2>10
<1>7. \A k \in 1 .. LastCluster : k <= m + 1 => Walk(d)'[k] = Walk(d)[k]
  BY <1>6
<1> DEFINE later == {n \in 0 .. LastCluster : \A k \in 1 .. n : Walk(d)'[k] \in Clusters}
<1>8. later = inside
  <2>1. ASSUME NEW n \in 0 .. LastCluster
        PROVE  (\A k \in 1 .. n : Walk(d)'[k] \in Clusters)
                 <=> (\A k \in 1 .. n : Walk(d)[k] \in Clusters)
    <3>1. CASE n <= m + 1
      BY <1>0, <1>1, <1>7, <3>1
    <3>2. CASE n > m + 1
      <4>1. m + 1 \in 0 .. LastCluster /\ ~(m + 1 <= m) /\ ~(n <= m) /\ m + 1 \in 1 .. n
        BY <1>0, <1>1, <3>2
      <4>2. ~ \A k \in 1 .. m + 1 : Walk(d)[k] \in Clusters
        BY <1>1, <4>1
      <4>3. PICK j \in 1 .. m + 1 : Walk(d)[j] \notin Clusters
        BY <4>2
      <4>4. j \in 1 .. n /\ j \in 1 .. LastCluster /\ j <= m + 1
        BY <1>0, <1>1, <3>2, <4>3
      <4>5. Walk(d)'[j] \notin Clusters
        BY <1>7, <4>3, <4>4
      <4>6. QED
        BY <4>3, <4>4, <4>5
    <3>3. QED
      BY <1>0, <1>1, <3>1, <3>2
  <2>2. QED
    BY <2>1
<1>9. Chain(d)' = [k \in 1 .. Max(later) |-> Walk(d)'[k]]
  BY DEF Chain
<1>10. Max(later) = m
  <2> HIDE DEF later, inside
  <2>1. QED
    BY <1>1, <1>8
<1>11. \A k \in 1 .. m : Walk(d)'[k] = Walk(d)[k]
  BY <1>0, <1>1, <1>7
<1> HIDE DEF later, inside
<1>12. QED
  BY <1>1, <1>9, <1>10, <1>11

-----------------------------------------------------------------------------
(***************************************************************************)
(* What a sector write changes                                             *)
(***************************************************************************)
Tables(c, v) == \A x \in Clusters : FatNext(x)' = IF x = c THEN v ELSE FatNext(x)
SameTable == \A x \in Clusters : FatNext(x)' = FatNext(x)

\* No slot changes but those of cluster c; none of c names a cluster.
Elsewhere(c) == \A l \in Places : l[1] # c => Slot(l)' = Slot(l)
Blanks(c) == Elsewhere(c) /\ \A l \in Named' : l[1] # c
SameSlots == \A l \in Places : Slot(l)' = Slot(l)

\* Every entry that still names a cluster did so before.
Fewer == \A l \in Named' : l \in Named /\ Slot(l)' = Slot(l)

\* The write to the first copy, or to the one place it goes.
Does(w) ==
  /\ w[1] = "fat" => /\ w[2] = 1 /\ w[3] \in Clusters /\ w[4] \in Links
                     /\ Tables(w[3], w[4])
                     /\ w[4] # 0 => SameSlots
                     /\ w[4] = 0 => Blanks(w[3])
  /\ w[1] # "fat" => SameTable
  /\ w[1] = "slot" => /\ w[2] \in Places /\ w[3] \in EntryType
                      /\ \A l \in Places : Slot(l)' = IF l = w[2] THEN w[3] ELSE Slot(l)
  /\ w[1] \in {"zero", "data"} => w[2] \in Clusters /\ Blanks(w[2])
  /\ w[1] = "seed" => /\ w[2] \in Clusters /\ Elsewhere(w[2])
                      /\ \A l \in Places : l[1] = w[2] => Slot(l)' = w[3][l[2]]

IsCopy(w) == w[1] = "fat" /\ w[2] > 1

\* The write under way is repeated to one more copy, which nobody reads.
Repeats ==
  /\ Ahead' = Ahead /\ fat'[1] = fat[1] /\ dirs' = dirs
  /\ todo # <<>> /\ IsCopy(Head(todo))
  /\ todo' # <<>> /\ IsCopy(Head(todo)')
       => Head(todo)'[3] = Head(todo)[3] /\ Head(todo)'[4] = Head(todo)[4]

\* The next write is begun.
Takes ==
  /\ Ahead # <<>> /\ Ahead' = Tail(Ahead) /\ Does(Head(Ahead))
  /\ todo' # <<>> /\ IsCopy(Head(todo)')
       => /\ Head(Ahead)[1] = "fat"
          /\ Head(todo)'[3] = Head(Ahead)[3] /\ Head(todo)'[4] = Head(Ahead)[4]

\* No entry of a cluster that is stale or zeroed names a cluster.
LEMMA SlotsOfStale ==
  ASSUME NEW i \in 1 .. Slots
  PROVE  StaleDir[i].first = 0 /\ EmptyDir[i].first = 0 /\ EmptyDir[i].state = "end"
BY DEF StaleDir, EmptyDir, Entry, EndMark

\* A directory's cluster is written: the slots of no other change.
LEMMA DirWrites ==
  ASSUME TypeOK, NEW c \in Clusters, NEW s, dirs' = [dirs EXCEPT ![c] = s]
  PROVE  /\ Elsewhere(c)
         /\ \A l \in Places : l[1] = c => Slot(l)' = s[l[2]]
BY DEF TypeOK, Elsewhere, Places, Slot

\* A cluster whose old entries are lost names no cluster any more.
LEMMA BlankWrites ==
  ASSUME TypeOK, NEW c \in Clusters, NEW s \in {StaleDir, EmptyDir},
         dirs' = [dirs EXCEPT ![c] = s]
  PROVE  Blanks(c)
<1>1. Elsewhere(c) /\ \A l \in Places : l[1] = c => Slot(l)' = s[l[2]]
  BY DirWrites
<1>2. \A l \in Places : l[2] \in 1 .. Slots
  BY DEF Places
<1>3. \A l \in Places : l[1] = c => Slot(l)'.first = 0
  BY <1>1, <1>2, SlotsOfStale
<1>4. \A l \in Named' : l \in Places /\ Slot(l)'.first # 0
  BY DEF Named
<1>5. QED
  BY <1>1, <1>3, <1>4 DEF Blanks

LEMMA SameDirsSameSlots ==
  ASSUME dirs' = dirs PROVE SameSlots
BY DEF SameSlots, Slot

\* What the first copy of a write changes.
LEMMA PutDoes ==
  ASSUME TypeOK, NEW w \in WriteType, Put(w), w[1] = "fat" => w[2] = 1
  PROVE  Does(w)
<1>1. CASE /\ w[1] = "fat" /\ w[2] \in 1 .. Copies /\ w[3] \in Clusters
           /\ w[4] \in Links
  <2>1. fat' = [fat EXCEPT ![w[2]][w[3]] = w[4]] /\ 1 \in 1 .. Copies
    BY <1>1, Fat32Assumption DEF Put
  <2>2. Tables(w[3], w[4])
    BY <1>1, <2>1 DEF TypeOK, Tables, FatNext
  <2>3. w[4] # 0 => dirs' = dirs
    BY <1>1 DEF Put, Frees
  <2>4. w[4] = 0 => dirs' = [dirs EXCEPT ![w[3]] = StaleDir]
    BY <1>1 DEF Put, Frees
  <2>5. w[4] = 0 => Blanks(w[3])
    BY <1>1, <2>4, BlankWrites
  <2>6. QED
    BY <1>1, <2>2, <2>3, <2>5, SameDirsSameSlots DEF Does
<1>2. ASSUME w[1] # "fat" PROVE SameTable
  BY <1>2 DEF Put, SameTable, FatNext
<1>3. CASE /\ w[1] = "slot" /\ w[2][1] \in Clusters /\ w[2][2] \in 1 .. Slots
           /\ w[3] \in EntryType
  <2>1. dirs' = [dirs EXCEPT ![w[2][1]][w[2][2]] = w[3]]
    BY <1>3 DEF Put, Frees
  <2>2. w[2] \in Places
    BY <1>3 DEF WriteType
  <2>3. \A l \in Places : Slot(l)' = IF l = w[2] THEN w[3] ELSE Slot(l)
    <3>1. ASSUME NEW a \in Clusters, NEW i \in 1 .. Slots
          PROVE  dirs'[a][i] = IF a = w[2][1] /\ i = w[2][2] THEN w[3] ELSE dirs[a][i]
      BY <1>3, <2>1 DEF TypeOK
    <3>2. PICK b \in Clusters, j \in 1 .. Slots : w[2] = <<b, j>>
      BY <2>2 DEF Places
    <3>3. ASSUME NEW l \in Places PROVE Slot(l)' = IF l = w[2] THEN w[3] ELSE Slot(l)
      <4>1. PICK a \in Clusters, i \in 1 .. Slots : l = <<a, i>>
        BY DEF Places
      <4>2. Slot(l)' = dirs'[a][i] /\ Slot(l) = dirs[a][i]
        BY <4>1 DEF Slot
      <4>3. l = w[2] <=> (a = b /\ i = j)
        BY <3>2, <4>1
      <4>4. w[2][1] = b /\ w[2][2] = j
        BY <3>2
      <4>5. QED
        BY <3>1, <4>2, <4>3, <4>4
    <3>4. QED
      BY <3>3
  <2>4. QED
    BY <1>2, <1>3, <2>2, <2>3 DEF Does
<1>4. CASE w[1] = "zero" /\ w[2] \in Clusters
  <2>1. dirs' = [dirs EXCEPT ![w[2]] = EmptyDir]
    BY <1>4 DEF Put, Frees
  <2>2. Blanks(w[2])
    BY <1>4, <2>1, BlankWrites
  <2>3. QED
    BY <1>2, <1>4, <2>2 DEF Does
<1>5. CASE w[1] = "seed" /\ w[2] \in Clusters /\ w[3] \in [1 .. Slots -> EntryType]
  <2>1. dirs' = [dirs EXCEPT ![w[2]] = w[3]]
    BY <1>5 DEF Put, Frees
  <2>2. Elsewhere(w[2]) /\ \A l \in Places : l[1] = w[2] => Slot(l)' = w[3][l[2]]
    BY <1>5, <2>1, DirWrites
  <2>3. QED
    BY <1>2, <1>5, <2>2 DEF Does
<1>6. CASE w[1] = "data" /\ w[2] \in Clusters
  <2>1. dirs' = [dirs EXCEPT ![w[2]] = StaleDir]
    BY <1>6 DEF Put, Frees
  <2>2. Blanks(w[2])
    BY <1>6, <2>1, BlankWrites
  <2>3. QED
    BY <1>2, <1>6, <2>2 DEF Does
<1>7. QED
  BY <1>1, <1>3, <1>4, <1>5, <1>6, WriteKinds

\* A sector write repeats the one under way or takes the next one.
LEMMA SectorDoes ==
  ASSUME Inv, WriteSector PROVE Repeats \/ (Takes /\ Ahead = todo)
<1> DEFINE w == Head(todo)
           more == w[1] = "fat" /\ w[2] < Copies
<1>1. /\ TypeOK /\ todo # <<>> /\ todo \in Seq(WriteType) /\ w \in WriteType
      /\ Tail(todo) \in Seq(Fresh) /\ Put(w) /\ todo' = Rest(todo)
  BY DEF Inv, HeadInv, TypeOK, WriteSector
<1>2. more => /\ todo' # <<>> /\ Head(todo') = <<"fat", w[2] + 1, w[3], w[4]>>
              /\ todo' = << <<"fat", w[2] + 1, w[3], w[4]>> >> \o Tail(todo)
  BY <1>1, RestFacts DEF Rest
<1>3. ~more => /\ todo' = Tail(todo)
               /\ todo' # <<>> => Head(todo') \in Fresh
  BY <1>1, RestFacts
<1>4. ~more /\ todo' # <<>> => ~IsCopy(Head(todo'))
  BY <1>3 DEF Fresh, IsCopy
<1>5. w[1] = "fat" => w[2] \in 1 .. Copies /\ w[3] \in Clusters /\ w[4] \in Links
  BY <1>1, WriteKinds
<1>6. Ahead' = Tail(todo)
  <2>1. CASE more
    <3>1. IsCopy(Head(todo'))
      BY <1>2, <1>5, <2>1, Fat32Assumption DEF IsCopy
    <3>2. Tail(todo') = Tail(todo)
      BY <1>1, <1>2, <2>1
    <3>3. QED
      BY <1>2, <2>1, <3>1, <3>2 DEF Ahead, IsCopy
  <2>2. CASE ~more
    BY <1>3, <1>4, <2>2 DEF Ahead, IsCopy
  <2>3. QED
    BY <2>1, <2>2
<1>7. todo' # <<>> /\ IsCopy(Head(todo'))
        => w[1] = "fat" /\ Head(todo')[3] = w[3] /\ Head(todo')[4] = w[4]
  BY <1>2, <1>4
<1>8. CASE IsCopy(w)
  <2>1. Ahead = Tail(todo)
    BY <1>1, <1>8 DEF Ahead, IsCopy
  <2>2. fat' = [fat EXCEPT ![w[2]][w[3]] = w[4]] /\ w[2] # 1 /\ 1 \in 1 .. Copies
    BY <1>1, <1>5, <1>8, Fat32Assumption DEF Put, IsCopy
  <2>3. fat'[1] = fat[1]
    BY <1>1, <1>5, <1>8, <2>2 DEF TypeOK, IsCopy
  <2>4. dirs' = dirs
    BY <1>1, <1>8, <2>2 DEF Put, Frees, IsCopy
  <2>5. QED
    BY <1>1, <1>6, <1>7, <1>8, <2>1, <2>3, <2>4 DEF Repeats
<1>9. CASE ~IsCopy(w)
  <2>1. Ahead = todo
    BY <1>1, <1>9 DEF Ahead, IsCopy
  <2>2. w[1] = "fat" => w[2] = 1
    BY <1>5, <1>9, Fat32Assumption DEF IsCopy
  <2>3. Does(w)
    BY <1>1, <2>2, PutDoes
  <2>4. QED
    BY <1>1, <1>6, <1>7, <2>1, <2>3 DEF Takes
<1>10. QED
  BY <1>8, <1>9

-----------------------------------------------------------------------------
(***************************************************************************)
(* The table and the heads of its chains, from one write to the next       *)
(***************************************************************************)
\* A cluster that belongs to no file or directory.
Nobodys(own, pos, c) ==
  /\ c \in Clusters /\ Starts(own, pos, c) /\ c # Root /\ c # cwd
  /\ \A l \in Named : Slot(l).first # c

KeepsUsed == \A x \in Clusters : Used(x) => Used(x)'

\* The numbers in the table and in the entries.
LEMMA TableType ==
  ASSUME TypeOK
  PROVE  /\ \A x \in Clusters : FatNext(x) \in Links
         /\ \A l \in Places : Slot(l).first \in Firsts
         /\ \A l \in Named : l \in Places /\ Slot(l).first \in Clusters
         /\ cwd \in Clusters
<1>1. 1 \in 1 .. Copies
  BY Fat32Assumption
<1>2. \A x \in Clusters : FatNext(x) \in Links
  BY <1>1 DEF TypeOK, FatNext
<1>3. \A l \in Places : Slot(l).first \in Firsts
  BY SlotType DEF EntryType
<1>4. QED
  BY <1>2, <1>3 DEF Named, Firsts, TypeOK

LEMMA SameSlotsFewer ==
  ASSUME SameSlots PROVE Fewer
BY DEF SameSlots, Fewer, Named, IsDot

LEMMA BlanksFewer ==
  ASSUME NEW c, Blanks(c) PROVE Fewer
<1>1. ASSUME NEW l \in Named' PROVE l \in Named /\ Slot(l)' = Slot(l)
  <2>1. l \in Places /\ l[1] # c
    BY DEF Blanks, Named
  <2>2. Slot(l)' = Slot(l)
    BY <2>1 DEF Blanks, Elsewhere
  <2>3. QED
    BY <2>1, <2>2 DEF Named, IsDot
<1>2. QED
  BY <1>1 DEF Fewer

\* Heads stay heads when they keep their labels.
LEMMA HeadsStay ==
  ASSUME TypeOK, NEW own, NEW pos, HeadsInv(own, pos), CwdInv(own, pos),
         Fewer, cwd' = cwd, NEW o2, NEW p2,
         \A x \in Clusters : Starts(own, pos, x) /\ ~Nobodys(own, pos, x)
                               => Starts(o2, p2, x),
         Used(Root)', FatNext(cwd)' # 0
  PROVE  HeadsInv(o2, p2)' /\ CwdInv(o2, p2)'
<1>1. Root \in Clusters /\ cwd \in Clusters /\ \A l \in Named : Slot(l).first \in Clusters
  BY TableType, ClustersAre
<1>2. Starts(o2, p2, Root) /\ Starts(o2, p2, cwd)
  BY <1>1 DEF HeadsInv, CwdInv, Nobodys
<1>3. \A l \in Named : Starts(o2, p2, Slot(l).first)
  BY <1>1 DEF HeadsInv, Nobodys
<1>4. \A l \in Named' : l \in Named /\ Slot(l)' = Slot(l)
  BY DEF Fewer
<1>5. \A l \in Named' : Starts(o2, p2, Slot(l)'.first) /\ Slot(l)'.first # Root
  BY <1>3, <1>4 DEF HeadsInv
<1>6. \A l, m \in Named' : Slot(l)'.first = Slot(m)'.first => l = m
  BY <1>4 DEF HeadsInv
<1>7. HeadsInv(o2, p2)'
  BY <1>2, <1>5, <1>6 DEF HeadsInv, Starts
<1>8. \A l \in Named' : Slot(l)'.first = cwd => Slot(l)'.dir
  BY <1>4 DEF CwdInv
<1>9. CwdInv(o2, p2)'
  BY <1>2, <1>8 DEF CwdInv, Starts, Used
<1>10. QED
  BY <1>7, <1>9

\* A write that leaves the table alone and takes entries away at most.
LEMMA BaseSame ==
  ASSUME TypeOK, NEW own, NEW pos, Base(own, pos), SameTable, Fewer, cwd' = cwd
  PROVE  Base(own, pos)' /\ KeepsUsed
<1>0. Root \in Clusters /\ cwd \in Clusters
  BY TableType, ClustersAre
<1>1. KeepsUsed
  BY DEF SameTable, KeepsUsed, Used
<1>2. HeadsInv(own, pos)' /\ CwdInv(own, pos)'
  <2>1. Used(Root)' /\ FatNext(cwd)' # 0
    BY <1>0 DEF Base, HeadsInv, CwdInv, SameTable, Used
  <2>2. QED
    BY <2>1, HeadsStay DEF Base
<1>3. TableInv(own, pos)'
  BY DEF Base, TableInv, SameTable, Used
<1>4. QED
  BY <1>1, <1>2, <1>3 DEF Base, Labels

\* A free cluster is claimed.
LEMMA BaseClaim ==
  ASSUME TypeOK, NEW own, NEW pos, Base(own, pos), NEW c \in Clusters, ~Used(c),
         Tables(c, EOC), Fewer, cwd' = cwd
  PROVE  Base(own, pos)' /\ KeepsUsed
<1>0. Root \in Clusters /\ cwd \in Clusters /\ EOC # 0 /\ EOC \notin Clusters
  BY TableType, ClustersAre
<1>1. KeepsUsed
  BY <1>0 DEF Tables, KeepsUsed, Used
<1>2. HeadsInv(own, pos)' /\ CwdInv(own, pos)'
  <2>1. Used(Root)' /\ FatNext(cwd)' # 0
    BY <1>0 DEF Base, HeadsInv, CwdInv, Tables, Used
  <2>2. QED
    BY <2>1, HeadsStay DEF Base
<1>3. TableInv(own, pos)'
  BY <1>0 DEF Base, TableInv, Tables, Used
<1>4. QED
  BY <1>1, <1>2, <1>3 DEF Base, Labels

\* The chain is cut after a cluster in use.
LEMMA BaseCut ==
  ASSUME TypeOK, NEW own, NEW pos, Base(own, pos), NEW c \in Clusters, Used(c),
         Tables(c, EOC), Fewer, cwd' = cwd
  PROVE  Base(own, pos)' /\ KeepsUsed
<1>0. Root \in Clusters /\ cwd \in Clusters /\ EOC # 0 /\ EOC \notin Clusters
  BY TableType, ClustersAre
<1>1. KeepsUsed
  BY <1>0 DEF Tables, KeepsUsed, Used
<1>2. HeadsInv(own, pos)' /\ CwdInv(own, pos)'
  <2>1. Used(Root)' /\ FatNext(cwd)' # 0
    BY <1>0 DEF Base, HeadsInv, CwdInv, Tables, Used
  <2>2. QED
    BY <2>1, HeadsStay DEF Base
<1>3. TableInv(own, pos)'
  BY <1>0 DEF Base, TableInv, Tables, Used
<1>4. QED
  BY <1>1, <1>2, <1>3 DEF Base, Labels

\* A cluster nobody has becomes the last of a chain.
LEMMA BaseLink ==
  ASSUME TypeOK, NEW own, NEW pos, Base(own, pos), NEW c, Nobodys(own, pos, c), Ends(c),
         NEW p \in Clusters, Ends(p), p # c, Tables(p, c), Fewer, cwd' = cwd
  PROVE  LET o2 == [own EXCEPT ![c] = own[p]]
             p2 == [pos EXCEPT ![c] = pos[p] + 1]
         IN  Base(o2, p2)' /\ KeepsUsed
<1> DEFINE o2 == [own EXCEPT ![c] = own[p]]
           p2 == [pos EXCEPT ![c] = pos[p] + 1]
<1>0. /\ Root \in Clusters /\ cwd \in Clusters /\ 0 \notin Clusters /\ c \in Clusters
      /\ Labels(own, pos) /\ own[c] = c /\ pos[c] = 0
  BY TableType, ClustersAre DEF Base, Nobodys, Starts
<1>1. KeepsUsed
  BY <1>0 DEF Tables, KeepsUsed, Used
<1>2. /\ Labels(o2, p2) /\ o2[c] = own[p] /\ p2[c] = pos[p] + 1
      /\ \A x \in Clusters : x # c => o2[x] = own[x] /\ p2[x] = pos[x]
  BY <1>0 DEF Labels
<1> HIDE DEF o2, p2
<1>3. HeadsInv(o2, p2)' /\ CwdInv(o2, p2)'
  <2>1. Used(Root)' /\ FatNext(cwd)' # 0
    BY <1>0, <1>1 DEF Base, HeadsInv, CwdInv, KeepsUsed, Used
  <2>2. \A x \in Clusters : Starts(own, pos, x) /\ ~Nobodys(own, pos, x)
                              => Starts(o2, p2, x)
    BY <1>2 DEF Starts
  <2>3. QED
    BY <2>1, <2>2, HeadsStay DEF Base
<1>4. \A x \in Clusters : pos[x] \in Nat /\ FatNext(x) # c
  BY <1>0 DEF Base, TableInv, Labels
<1>5. TableInv(o2, p2)'
  <2>1. \A x \in Clusters : FatNext(x)' = IF x = p THEN c ELSE FatNext(x)
    BY DEF Tables
  <2>2. ASSUME NEW x \in Clusters, NEW y \in Clusters, FatNext(x)' = y
        PROVE  FatNext(y)' # 0 /\ o2[y] = o2[x] /\ p2[y] > p2[x]
    <3>1. CASE x = p
      <4>1. y = c /\ FatNext(c)' = FatNext(c)
        BY <1>0, <2>1, <2>2, <3>1
      <4>2. p2[c] > p2[p]
        BY <1>2, <1>4
      <4>3. QED
        BY <1>2, <3>1, <4>1, <4>2 DEF Ends
    <3>2. CASE x # p
      <4>1. FatNext(x) = y /\ y # c /\ x # c
        BY <1>4, <2>1, <2>2, <3>2 DEF Ends
      <4>2. Used(y) /\ own[y] = own[x] /\ pos[y] > pos[x]
        BY <4>1 DEF Base, TableInv
      <4>3. FatNext(y)' # 0
        BY <1>1, <4>2 DEF KeepsUsed, Used
      <4>4. QED
        BY <1>2, <4>1, <4>2, <4>3
    <3>3. QED
      BY <3>1, <3>2
  <2>3. ASSUME NEW x \in Clusters, FatNext(x)' = 0 PROVE Starts(o2, p2, x)
    <3>1. x # p /\ x # c /\ FatNext(x) = 0
      BY <1>0, <2>1, <2>3 DEF Ends
    <3>2. Starts(own, pos, x)
      BY <3>1 DEF Base, TableInv, Used
    <3>3. QED
      BY <1>2, <3>1, <3>2 DEF Starts
  <2>4. ASSUME NEW x \in Clusters, NEW y \in Clusters, FatNext(x)' = FatNext(y)',
               FatNext(x)' \in Clusters
        PROVE  x = y
    BY <1>4, <2>1, <2>4 DEF Base, TableInv
  <2>5. QED
    BY <2>2, <2>3, <2>4 DEF TableInv, Used, Starts, FatNext
<1>6. QED
  BY <1>1, <1>2, <1>3, <1>5 DEF Base, Labels, o2, p2

\* A cluster that follows none is freed.
LEMMA BaseFree ==
  ASSUME TypeOK, NEW own, NEW pos, Base(own, pos), NEW c \in Clusters, c # Root, c # cwd,
         \A x \in Clusters : FatNext(x) # c, Tables(c, 0), Fewer, cwd' = cwd
  PROVE  LET o2 == [own EXCEPT ![c] = c]
             p2 == [pos EXCEPT ![c] = 0]
         IN  Base(o2, p2)'
<1> DEFINE o2 == [own EXCEPT ![c] = c]
           p2 == [pos EXCEPT ![c] = 0]
<1>0. /\ Root \in Clusters /\ cwd \in Clusters /\ 0 \notin Clusters /\ Labels(own, pos)
  BY TableType, ClustersAre DEF Base
<1>2. /\ Labels(o2, p2) /\ o2[c] = c /\ p2[c] = 0
      /\ \A x \in Clusters : x # c => o2[x] = own[x] /\ p2[x] = pos[x]
  BY <1>0 DEF Labels
<1> HIDE DEF o2, p2
<1>3. HeadsInv(o2, p2)' /\ CwdInv(o2, p2)'
  <2>1. Used(Root)' /\ FatNext(cwd)' # 0
    BY <1>0 DEF Base, HeadsInv, CwdInv, Tables, Used
  <2>2. \A x \in Clusters : Starts(own, pos, x) => Starts(o2, p2, x)
    BY <1>2 DEF Starts
  <2>3. QED
    BY <2>1, <2>2, HeadsStay DEF Base
<1>5. TableInv(o2, p2)'
  <2>1. \A x \in Clusters : FatNext(x)' = IF x = c THEN 0 ELSE FatNext(x)
    BY DEF Tables
  <2>2. ASSUME NEW x \in Clusters, NEW y \in Clusters, FatNext(x)' = y
        PROVE  FatNext(y)' # 0 /\ o2[y] = o2[x] /\ p2[y] > p2[x]
    <3>1. FatNext(x) = y /\ y # c /\ x # c
      BY <1>0, <2>1, <2>2
    <3>2. Used(y) /\ own[y] = own[x] /\ pos[y] > pos[x]
      BY <3>1 DEF Base, TableInv
    <3>3. FatNext(y)' # 0
      BY <2>1, <3>1, <3>2 DEF Used
    <3>4. QED
      BY <1>2, <3>1, <3>2, <3>3
  <2>3. ASSUME NEW x \in Clusters, FatNext(x)' = 0 PROVE Starts(o2, p2, x)
    BY <1>2, <2>1, <2>3 DEF Base, TableInv, Used, Starts
  <2>4. ASSUME NEW x \in Clusters, NEW y \in Clusters, FatNext(x)' = FatNext(y)',
               FatNext(x)' \in Clusters
        PROVE  x = y
    BY <1>0, <2>1, <2>4 DEF Base, TableInv
  <2>5. QED
    BY <2>2, <2>3, <2>4 DEF TableInv, Used, Starts, FatNext
<1>6. QED
  BY <1>2, <1>3, <1>5 DEF Base, Labels, o2, p2

\* An entry is written: it names nothing, what nobody has, or what it named.
LEMMA BaseEntry ==
  ASSUME TypeOK, NEW own, NEW pos, Base(own, pos), NEW l \in Places, NEW e \in EntryType,
         SameTable, cwd' = cwd,
         \A m \in Places : Slot(m)' = IF m = l THEN e ELSE Slot(m),
         \/ l \notin Named'
         \/ Nobodys(own, pos, e.first)
         \/ l \in Named /\ Slot(l).first = e.first /\ Slot(l).dir = e.dir
  PROVE  Base(own, pos)' /\ KeepsUsed
<1>0. Root \in Clusters /\ cwd \in Clusters
  BY TableType, ClustersAre
<1>1. KeepsUsed
  BY DEF SameTable, KeepsUsed, Used
<1>2. \A m \in Named' : m \in Places /\ (m # l => m \in Named /\ Slot(m)' = Slot(m))
  BY DEF Named, IsDot
<1>3. Slot(l)' = e
  OBVIOUS
<1>4. HeadsInv(own, pos)'
  <2>1. Starts(own, pos, Root) /\ Used(Root)'
    BY <1>0 DEF Base, HeadsInv, SameTable, Used
  <2>2. ASSUME NEW m \in Named'
        PROVE  Starts(own, pos, Slot(m)'.first) /\ Slot(m)'.first # Root
    BY <1>2, <1>3 DEF Base, HeadsInv, Nobodys
  <2>3. ASSUME NEW m \in Named', NEW n \in Named', Slot(m)'.first = Slot(n)'.first
        PROVE  m = n
    BY <1>2, <1>3, <2>3 DEF Base, HeadsInv, Nobodys
  <2>4. QED
    BY <2>1, <2>2, <2>3 DEF HeadsInv, Starts
<1>5. CwdInv(own, pos)'
  <2>1. Starts(own, pos, cwd) /\ FatNext(cwd)' # 0
    BY <1>0 DEF Base, CwdInv, SameTable, Used
  <2>2. ASSUME NEW m \in Named', Slot(m)'.first = cwd PROVE Slot(m)'.dir
    BY <1>2, <1>3, <2>2 DEF Base, CwdInv, Nobodys
  <2>3. QED
    BY <2>1, <2>2 DEF CwdInv, Starts, Used
<1>6. TableInv(own, pos)'
  BY DEF Base, TableInv, SameTable, Used
<1>7. QED
  BY <1>1, <1>4, <1>5, <1>6 DEF Base, Labels

-----------------------------------------------------------------------------
(***************************************************************************)
(* What a call in progress is about                                        *)
(***************************************************************************)
\* The entry a call is taking away may name a free cluster meanwhile.
Losing ==
  \/ job.call \in {"rmdir", "remove"} /\ Ahead # <<>>
  \/ /\ job.call \in {"write", "touch"} /\ job.first = 0
     /\ job.at = "entry" \/ (job.at = "return" /\ Ahead # <<>>)
IntactInv == \A l \in Named : ~Used(Slot(l).first) => l = job.loc /\ Losing

\* What is left of allocating c and then doing rest.
Grows(c, rest) ==
  \/ ~Used(c) /\ Ahead = Allocate(c) \o rest
  \/ Ends(c) /\ Ahead = << <<"zero", c>> >> \o rest
  \/ Ends(c) /\ Ahead = rest

\* An entry is being made in the current directory, or in a cluster added to it.
Making(own, pos, e) ==
  \/ Ahead = SetSlot(job.loc, e) /\ job.loc \in Places /\ own[job.loc[1]] = cwd
  \/ \E c, p \in Clusters :
       /\ job.loc = <<c, 1>> /\ c # p /\ c # job.first /\ Nobodys(own, pos, c)
       /\ Ends(p) /\ own[p] = cwd /\ p \in ToSet(Chain(cwd))
       /\ Grows(c, SetFat(p, c) \o SetSlot(job.loc, e))

\* The clusters s are to be freed, each before the one it leads to: no other entry
\* than the one at loc has them.
Doomed(own, s, before, loc, lose, keep) ==
  /\ s \in Seq(Clusters)
  /\ \A i, j \in 1 .. Len(s) : s[i] = s[j] => i = j
  /\ \A i \in 1 .. Len(s) :
       /\ s[i] # keep /\ own[s[i]] \notin {Root, cwd}
       /\ \A l \in Named : Slot(l).first = own[s[i]] => l = loc
       /\ \A l \in Named : Slot(l).first = s[i] => lose
       /\ \A x \in Clusters : FatNext(x) = s[i] => IF i = 1 THEN x \in before ELSE x = s[i-1]
FreeAll(s) == [k \in 1 .. Len(s) |-> <<"fat", 1, s[k], 0>>]
Freeing(own, tail, lose, keep) ==
  \E s : Doomed(own, s, {}, job.loc, lose, keep) /\ Ahead = FreeAll(s) \o tail
Cutting(own) ==
  /\ job.prev \in Clusters /\ Used(job.prev) /\ own[job.prev] = job.first
  /\ \E s : /\ Doomed(own, s, {job.prev}, job.loc, FALSE, job.first)
            /\ Ahead = SetFat(job.prev, EOC) \o FreeAll(s)

\* The entry of the file that is written.
OldEntry(own) ==
  /\ job.loc \in Places /\ own[job.loc[1]] = cwd
  /\ Slot(job.loc).state = "used" /\ ~IsDot(Slot(job.loc)) /\ ~Slot(job.loc).dir
FirstInv(own, pos) ==
  job.first # 0 => /\ Used(job.first)
                   /\ \/ Slot(job.loc).first = 0 /\ Nobodys(own, pos, job.first)
                      \/ Slot(job.loc).first = job.first

\* How far the loop of a write is: job.prev was written, job.cluster is next.
BodyInv(own, pos) ==
  /\ FirstInv(own, pos)
  /\ Slot(job.loc).first # 0 => job.first # 0
  /\ job.cluster \in Clusters => job.first # 0 /\ own[job.cluster] = job.first
  /\ job.cluster \in Clusters /\ job.prev = 0 => job.cluster = job.first
  /\ job.cluster \in Clusters /\ job.prev # 0 => FatNext(job.prev) = job.cluster
  /\ job.cluster \notin Clusters /\ job.prev = 0 => job.first = 0
  /\ job.cluster \notin Clusters /\ job.prev # 0 => Ends(job.prev)
  /\ job.prev # 0 => job.first # 0 /\ own[job.prev] = job.first

Store == << <<"data", job.prev, <<job.size, job.used>> >> >>
Storing(own, pos) ==
  /\ job.prev \in Clusters
  /\ \/ Ahead = Store /\ BodyInv(own, pos)
     \/ /\ job.first = job.prev /\ Slot(job.loc).first = 0
        /\ Nobodys(own, pos, job.prev) /\ job.cluster = EOC /\ Grows(job.prev, Store)
     \/ \E p \in Clusters :
          /\ p # job.prev /\ job.first # job.prev /\ job.first # 0 /\ FirstInv(own, pos)
          /\ Ends(p) /\ own[p] = job.first /\ Nobodys(own, pos, job.prev)
          /\ Slot(job.loc).first # 0 => job.first # 0
          /\ job.cluster = EOC /\ Grows(job.prev, SetFat(p, job.prev) \o Store)

NewEntry == Entry(BuildName(job.name), FALSE, 0, 0)
NewDir   == Entry(BuildName(job.name), TRUE, job.first, 0)
Finished == [Slot(job.loc) EXCEPT !.first = job.first, !.size = job.ret]

WriteInv(own, pos) ==
  /\ job.at \in {"body", "entry", "return"}
  /\ job.at = "body" =>
       /\ job.prev = 0 => job.used = 0
       /\ \/ /\ Ahead # <<>> /\ job.first = 0 /\ job.prev = 0 /\ job.cluster = 0
             /\ job.name \in Names /\ Making(own, pos, NewEntry)
          \/ Ahead = <<>> /\ OldEntry(own) /\ BodyInv(own, pos)
          \/ Ahead # <<>> /\ OldEntry(own) /\ Storing(own, pos)
  /\ job.at = "entry" =>
       /\ OldEntry(own) /\ FirstInv(own, pos)
       /\ Freeing(own, <<>>, job.first = 0, job.first) \/ Cutting(own)
  /\ job.at = "return" /\ Ahead # <<>> =>
       OldEntry(own) /\ FirstInv(own, pos) /\ Ahead = SetSlot(job.loc, Finished)

MkdirInv(own, pos) ==
  /\ job.at \in {"slot", "return"}
  /\ job.at = "slot" =>
       /\ Nobodys(own, pos, job.first)
       /\ \/ Ahead = <<>> /\ Ends(job.first)
          \/ Grows(job.first, << <<"seed", job.first, Seed(job.first)>> >>)
  /\ job.at = "return" /\ Ahead # <<>> =>
       \/ /\ Making(own, pos, NewDir) /\ job.name \in Names
          /\ Nobodys(own, pos, job.first) /\ Used(job.first)
       \/ Freeing(own, <<>>, FALSE, 0)

DeleteInv(own) ==
  /\ job.at = "return"
  /\ Ahead # <<>> => /\ job.loc \in Places
                     /\ Freeing(own, SetSlot(job.loc, Deleted), TRUE, 0)

PhaseInv(own, pos) ==
  /\ job.call = "idle" => Ahead = <<>>
  /\ job.call \in {"write", "touch"} => WriteInv(own, pos)
  /\ job.call = "mkdir" => MkdirInv(own, pos)
  /\ job.call \in {"rmdir", "remove"} => DeleteInv(own)

-----------------------------------------------------------------------------
(***************************************************************************)
(* A sector write of each phase                                            *)
(***************************************************************************)
LEMMA HeadTail ==
  ASSUME NEW S, NEW s \in Seq(S), NEW a
  PROVE  /\ <<a>> \o s # <<>>
         /\ Head(<<a>> \o s) = a
         /\ Tail(<<a>> \o s) = s
<1> DEFINE W == S \cup {a}
<1>1. s \in Seq(W) /\ <<a>> \in Seq(W) /\ Len(<<a>>) = 1
  OBVIOUS
<1> HIDE DEF W
<1>2. QED
  BY <1>1

\* Label changes matter to a cluster nobody has only when they are its own.
LEMMA NobodysFrame ==
  ASSUME NEW own, NEW pos, NEW o2, NEW p2, NEW x, Nobodys(own, pos, x),
         Fewer, cwd' = cwd, o2[x] = own[x], p2[x] = pos[x]
  PROVE  Nobodys(o2, p2, x)'
BY DEF Nobodys, Fewer, Starts

\* No entry comes to dangle when no cluster is freed and no entry is made.
LEMMA IntactFrame ==
  ASSUME TypeOK, IntactInv, Fewer, KeepsUsed, job' = job, Losing => Losing'
  PROVE  IntactInv'
<1>1. \A l \in Named' : l \in Named /\ Slot(l)' = Slot(l) /\ Slot(l).first \in Clusters
  BY TableType DEF Fewer
<1>2. ASSUME NEW l \in Named', NEW f \in Clusters, Slot(l)'.first = f, FatNext(f)' = 0
      PROVE  l = job.loc /\ Losing'
  <2>1. f = Slot(l).first
    BY <1>1, <1>2
  <2>2. ~Used(f)
    BY <1>2 DEF KeepsUsed, Used
  <2>3. QED
    BY <1>1, <2>1, <2>2 DEF IntactInv
<1>3. \A l \in Named' : Slot(l)'.first \in Clusters
  BY <1>1
<1>4. QED
  BY <1>2, <1>3 DEF IntactInv, Used, FatNext

\* A cluster is claimed, then zeroed.
LEMMA ClaimStep ==
  ASSUME TypeOK, NEW own, NEW pos, Base(own, pos), NEW c, Nobodys(own, pos, c),
         NEW rest \in Seq(WriteType), Takes, cwd' = cwd,
         \/ ~Used(c) /\ Ahead = Allocate(c) \o rest
         \/ Ends(c) /\ Ahead = << <<"zero", c>> >> \o rest
  PROVE  /\ Base(own, pos)' /\ KeepsUsed /\ Fewer /\ Elsewhere(c)
         /\ \A x \in Clusters : x # c => FatNext(x)' = FatNext(x)
         /\ Nobodys(own, pos, c)'
         /\ Ends(c)' /\ (Ahead' = << <<"zero", c>> >> \o rest \/ Ahead' = rest)
<1>1. c \in Clusters /\ EOC \notin Clusters /\ EOC # 0
  BY ClustersAre DEF Nobodys
<1> DEFINE zero == << <<"zero", c>> >> \o rest
<1>2. zero \in Seq(WriteType)
  <2>1. <<"zero", c>> \in WriteType
    BY <1>1 DEF WriteType
  <2>2. << <<"zero", c>> >> \in Seq(WriteType)
    BY <2>1
  <2>3. QED
    BY <2>2, ConcatProperties
<1>3. CASE ~Used(c) /\ Ahead = Allocate(c) \o rest
  <2>1. Ahead = << <<"fat", 1, c, EOC>> >> \o zero
    BY <1>3 DEF Allocate, SetFat
  <2> HIDE DEF zero
  <2>2. Head(Ahead) = <<"fat", 1, c, EOC>> /\ Ahead' = zero
    BY <1>2, <2>1, HeadTail DEF Takes
  <2>3. Does(<<"fat", 1, c, EOC>>)
    BY <2>2 DEF Takes
  <2>4. Tables(c, EOC) /\ SameSlots
    BY <1>1, <2>3 DEF Does
  <2>5. Fewer /\ Elsewhere(c)
    BY <2>4, SameSlotsFewer DEF SameSlots, Elsewhere
  <2>6. Base(own, pos)' /\ KeepsUsed
    BY <1>1, <1>3, <2>4, <2>5, BaseClaim
  <2>7. Nobodys(own, pos, c)'
    BY <2>5, NobodysFrame
  <2>8. QED
    BY <1>1, <2>2, <2>4, <2>5, <2>6, <2>7 DEF Tables, Ends, zero
<1>4. CASE Ends(c) /\ Ahead = zero
  <2> HIDE DEF zero
  <2>2. Head(Ahead) = <<"zero", c>> /\ Ahead' = rest
    BY <1>4, HeadTail DEF Takes, zero
  <2>3. Does(<<"zero", c>>)
    BY <2>2 DEF Takes
  <2>4. SameTable /\ Blanks(c)
    BY <2>3 DEF Does
  <2>5. Fewer /\ Elsewhere(c)
    BY <2>4, BlanksFewer DEF Blanks
  <2>6. Base(own, pos)' /\ KeepsUsed
    BY <2>4, <2>5, BaseSame
  <2>7. Nobodys(own, pos, c)'
    BY <2>5, NobodysFrame
  <2>8. QED
    BY <1>1, <1>4, <2>2, <2>4, <2>5, <2>6, <2>7 DEF SameTable, Ends
<1>5. QED
  BY <1>3, <1>4

\* The labels o2, p2 have c follow p, and are else own and pos.
Joins(own, pos, o2, p2, c, p) ==
  o2[c] = own[p] /\ \A x \in Clusters : x # c => o2[x] = own[x] /\ p2[x] = pos[x]

\* It is linked to the end of a chain.
LEMMA LinkStep ==
  ASSUME TypeOK, NEW own, NEW pos, Base(own, pos), NEW c, Nobodys(own, pos, c), Ends(c),
         NEW p \in Clusters, Ends(p), p # c, NEW rest \in Seq(WriteType), Takes, cwd' = cwd,
         Ahead = SetFat(p, c) \o rest
  PROVE  \E o2, p2 :
           /\ Base(o2, p2)' /\ Joins(own, pos, o2, p2, c, p)
           /\ KeepsUsed /\ SameSlots /\ Fewer
           /\ \A x \in Clusters : x # p => FatNext(x)' = FatNext(x)
           /\ Ahead' = rest /\ Head(Ahead) = <<"fat", 1, p, c>>
<1>1. c \in Clusters /\ 0 \notin Clusters
  BY ClustersAre DEF Nobodys
<1>2. Head(Ahead) = <<"fat", 1, p, c>> /\ Ahead' = rest
  BY HeadTail DEF Takes, SetFat
<1>3. Does(<<"fat", 1, p, c>>)
  BY <1>2 DEF Takes
<1>4. Tables(p, c) /\ SameSlots
  BY <1>1, <1>3 DEF Does
<1>5. Fewer
  BY <1>4, SameSlotsFewer
<1>6. PICK o2, p2 : o2 = [own EXCEPT ![c] = own[p]] /\ p2 = [pos EXCEPT ![c] = pos[p] + 1]
  OBVIOUS
<1>7. Base(o2, p2)' /\ KeepsUsed
  BY <1>4, <1>5, <1>6, BaseLink
<1>8. \A x \in Clusters : x # p => FatNext(x)' = FatNext(x)
  BY <1>4 DEF Tables
<1>9. Joins(own, pos, o2, p2, c, p)
  BY <1>1, <1>6 DEF Base, Labels, Joins
<1>10. QED
  BY <1>2, <1>4, <1>5, <1>7, <1>8, <1>9

\* The entry written names a cluster in use, or nothing.
LEMMA IntactEntry ==
  ASSUME TypeOK, IntactInv, NEW l \in Places, NEW e \in EntryType, KeepsUsed,
         \A m \in Places : Slot(m)' = IF m = l THEN e ELSE Slot(m),
         l \in Named' => e.first \in Clusters /\ Used(e.first),
         Losing => l = job.loc
  PROVE  IntactInv'
<1>1. \A m \in Named : m \in Places /\ Slot(m).first \in Clusters
  BY TableType
<1>2. \A m \in Named' : m \in Places /\ (m # l => m \in Named /\ Slot(m)' = Slot(m))
  BY DEF Named, IsDot
<1>3. ASSUME NEW m \in Named', NEW f \in Clusters, Slot(m)'.first = f, FatNext(f)' = 0
      PROVE  FALSE
  <2>1. ~Used(f)
    BY <1>3 DEF KeepsUsed, Used
  <2>2. m # l
    BY <1>3, <2>1
  <2>3. m \in Named /\ Slot(m).first = f
    BY <1>2, <1>3, <2>2
  <2>4. QED
    BY <2>1, <2>2, <2>3 DEF IntactInv
<1>4. \A m \in Named' : Slot(m)'.first \in Clusters
  BY <1>1, <1>2
<1>5. QED
  BY <1>3, <1>4 DEF IntactInv, Used, FatNext

\* A cluster of nobody is on no chain but its own.
LEMMA NobodysApart ==
  ASSUME TypeOK, NEW own, NEW pos, Base(own, pos), NEW c, Nobodys(own, pos, c),
         NEW d \in Clusters, own[d] = d, d # c
  PROVE  c \notin ToSet(Chain(d))
<1>1. ASSUME c \in ToSet(Chain(d)) PROVE FALSE
  <2>1. PICK k \in 1 .. Len(Chain(d)) : c = Chain(d)[k]
    BY <1>1, ChainFacts, ToSetIs
  <2>2. own[c] = d
    BY <2>1, ChainLabels DEF Base
  <2>3. QED
    BY <2>2 DEF Nobodys, Starts
<1>2. QED
  BY <1>1

LEMMA OneWrite ==
  ASSUME NEW w PROVE Head(<<w>>) = w /\ Tail(<<w>>) = <<>> /\ <<w>> # <<>>
OBVIOUS

\* An entry is written.
LEMMA SlotStep ==
  ASSUME NEW l, NEW e, Takes, Ahead = SetSlot(l, e)
  PROVE  /\ Ahead' = <<>> /\ Head(Ahead) = <<"slot", l, e>> /\ SameTable
         /\ l \in Places /\ e \in EntryType
         /\ \A m \in Places : Slot(m)' = IF m = l THEN e ELSE Slot(m)
<1>1. Head(Ahead) = <<"slot", l, e>> /\ Ahead' = <<>>
  BY OneWrite DEF Takes, SetSlot
<1>2. Does(<<"slot", l, e>>)
  BY <1>1 DEF Takes
<1>3. QED
  BY <1>1, <1>2 DEF Does

MakingGoesOn(own, pos, o2, p2, e) ==
  /\ Ahead' # <<>> /\ Fewer /\ Making(o2, p2, e)'
  /\ job.first \in Clusters => o2[job.first] = own[job.first] /\ p2[job.first] = pos[job.first]
MakingEnds(own, pos, o2, p2, e) ==
  /\ Ahead' = <<>> /\ o2 = own /\ p2 = pos
  /\ job.loc \in Places /\ own[job.loc[1]] = cwd
  /\ \A m \in Places : Slot(m)' = IF m = job.loc THEN e ELSE Slot(m)
KeepsMark(own, o2) ==
  Head(Ahead)[1] = "fat" /\ Head(Ahead)[4] # 0
    => o2[Head(Ahead)[3]] = own[Head(Ahead)[3]]

\* A write of a call that makes an entry.
LEMMA MakingStep ==
  ASSUME TypeOK, NEW own, NEW pos, Base(own, pos), NEW e \in EntryType,
         Making(own, pos, e), Takes, job' = job, cwd' = cwd,
         e.first = 0 \/ Nobodys(own, pos, e.first)
  PROVE  \E o2, p2 :
           /\ Base(o2, p2)' /\ KeepsUsed /\ KeepsMark(own, o2)
           /\ MakingGoesOn(own, pos, o2, p2, e) \/ MakingEnds(own, pos, o2, p2, e)
<1>1. PICK loc : loc = job.loc
  OBVIOUS
<1>2. CASE Ahead = SetSlot(job.loc, e) /\ job.loc \in Places /\ own[job.loc[1]] = cwd
  <2>1. /\ Ahead' = <<>> /\ Head(Ahead) = <<"slot", loc, e>> /\ SameTable
        /\ loc \in Places /\ \A m \in Places : Slot(m)' = IF m = loc THEN e ELSE Slot(m)
    BY <1>1, <1>2, SlotStep
  <2>2. e.first = 0 => loc \notin Named'
    BY <2>1 DEF Named
  <2>3. Base(own, pos)' /\ KeepsUsed
    BY <2>1, <2>2, BaseEntry
  <2>4. KeepsMark(own, own)
    BY DEF KeepsMark
  <2>5. MakingEnds(own, pos, own, pos, e)
    BY <1>1, <1>2, <2>1 DEF MakingEnds
  <2>6. QED
    BY <2>3, <2>4, <2>5
<1>3. ASSUME NEW c \in Clusters, NEW p \in Clusters,
             job.loc = <<c, 1>>, c # p, c # job.first, Nobodys(own, pos, c),
             Ends(p), own[p] = cwd, p \in ToSet(Chain(cwd)),
             Grows(c, SetFat(p, c) \o SetSlot(job.loc, e))
      PROVE  \E o2, p2 :
               /\ Base(o2, p2)' /\ KeepsUsed /\ KeepsMark(own, o2)
               /\ MakingGoesOn(own, pos, o2, p2, e) \/ MakingEnds(own, pos, o2, p2, e)
  <2> DEFINE rest == SetFat(p, c) \o SetSlot(loc, e)
  <2>1. loc \in Places /\ 1 \in 1 .. Slots
    BY <1>1, <1>3, Fat32Assumption DEF Places
  <2>2. SetSlot(loc, e) \in Seq(WriteType) /\ SetFat(p, c) \in Seq(WriteType)
    <3>1. <<"slot", loc, e>> \in WriteType /\ <<"fat", 1, p, c>> \in WriteType
      BY <2>1, Fat32Assumption DEF WriteType, Links
    <3>2. QED
      BY <3>1 DEF SetSlot, SetFat
  <2>3. rest \in Seq(WriteType)
    BY <2>2, ConcatProperties
  <2>4. rest = << <<"fat", 1, p, c>> >> \o SetSlot(loc, e)
    BY DEF SetFat
  <2>5. rest # <<>>
    BY <2>2, <2>4, HeadTail
  <2>6. Grows(c, rest)
    BY <1>1, <1>3
  <2> HIDE DEF rest
  <2>7. CASE Ends(c) /\ Ahead = rest
    <3>0. PICK tail \in Seq(WriteType) : tail = SetSlot(loc, e)
      BY <2>2
    <3>1. PICK o2, p2 :
            /\ Base(o2, p2)' /\ Joins(own, pos, o2, p2, c, p) /\ KeepsUsed /\ Fewer
            /\ Ahead' = SetSlot(loc, e) /\ Head(Ahead) = <<"fat", 1, p, c>>
      <4>1. Ahead = SetFat(p, c) \o tail
        BY <2>7, <3>0 DEF rest
      <4>2. QED
        BY <1>3, <2>7, <3>0, <4>1, LinkStep
    <3>2. KeepsMark(own, o2)
      BY <1>3, <3>1 DEF KeepsMark, Joins
    <3>3. Making(o2, p2, e)'
      BY <1>1, <1>3, <2>1, <3>1 DEF Making, Joins, SetSlot
    <3>4. Ahead' # <<>>
      BY <3>1, OneWrite DEF SetSlot
    <3>5. MakingGoesOn(own, pos, o2, p2, e)
      BY <1>3, <3>1, <3>3, <3>4 DEF MakingGoesOn, Joins
    <3>6. QED
      BY <3>1, <3>2, <3>5
  <2>8. CASE \/ ~Used(c) /\ Ahead = Allocate(c) \o rest
             \/ Ends(c) /\ Ahead = << <<"zero", c>> >> \o rest
    <3>1. /\ Base(own, pos)' /\ KeepsUsed /\ Fewer
          /\ \A x \in Clusters : x # c => FatNext(x)' = FatNext(x)
          /\ Nobodys(own, pos, c)' /\ Ends(c)'
          /\ Ahead' = << <<"zero", c>> >> \o rest \/ Ahead' = rest
      BY <1>3, <2>3, <2>8, ClaimStep
    <3>2. Ahead' # <<>>
      BY <2>3, <2>5, <3>1, HeadTail
    <3>3. p \in ToSet(Chain(cwd))'
      <4>1. PICK d \in Clusters : d = cwd /\ d = cwd' /\ own[d] = d
        BY TableType DEF Base, CwdInv, Starts
      <4>2. d # c
        BY <1>3, <4>1 DEF Nobodys
      <4>3. c \notin ToSet(Chain(d))
        BY <1>3, <4>1, <4>2, NobodysApart
      <4>4. \A x \in ToSet(Chain(d)) : x \in Clusters
        BY ChainFacts, ToSetIs
      <4>5. Chain(d)' = Chain(d)
        BY <3>1, <4>3, <4>4, ChainStays
      <4>6. QED
        BY <1>3, <4>1, <4>5
    <3>4. Ends(p)'
      BY <1>3, <3>1 DEF Ends
    <3>5. Grows(c, rest)'
      BY <3>1 DEF Grows
    <3>6. Making(own, pos, e)'
      BY <1>1, <1>3, <3>1, <3>3, <3>4, <3>5 DEF Making, rest
    <3>7. MakingGoesOn(own, pos, own, pos, e)
      BY <3>1, <3>2, <3>6 DEF MakingGoesOn
    <3>8. QED
      BY <3>1, <3>7 DEF KeepsMark
  <2>9. QED
    BY <2>6, <2>7, <2>8 DEF Grows
<1>4. QED
  BY <1>2, <1>3 DEF Making

\* The file a call writes to is neither the root nor the current directory, and
\* no other entry names it.
LEMMA TargetFacts ==
  ASSUME TypeOK, NEW own, NEW pos, Base(own, pos), OldEntry(own), FirstInv(own, pos),
         job.first # 0
  PROVE  /\ job.first \in Clusters /\ Starts(own, pos, job.first) /\ Used(job.first)
         /\ job.first # Root /\ job.first # cwd
         /\ \A l \in Named : Slot(l).first = job.first => l = job.loc
<1>1. CASE Nobodys(own, pos, job.first)
  BY <1>1 DEF Nobodys, FirstInv
<1>2. CASE Slot(job.loc).first = job.first
  <2>1. job.loc \in Named
    BY <1>2 DEF OldEntry, Named
  <2>2. QED
    BY <1>2, <2>1, TableType DEF OldEntry, FirstInv, Base, HeadsInv, CwdInv
<1>3. QED
  BY <1>1, <1>2 DEF FirstInv

\* The target's entry stays, when another cluster is written to.
LEMMA OldFrame ==
  ASSUME NEW own, NEW o2, OldEntry(own), NEW c, Elsewhere(c), job' = job, cwd' = cwd,
         job.loc[1] # c, \A x \in Clusters : x # c => o2[x] = own[x]
  PROVE  OldEntry(o2)' /\ Slot(job.loc)' = Slot(job.loc)
<1>1. PICK loc : loc = job.loc
  OBVIOUS
<1>2. loc \in Places /\ loc[1] \in Clusters
  BY <1>1 DEF OldEntry, Places
<1>3. Slot(loc)' = Slot(loc)
  BY <1>1, <1>2 DEF Elsewhere
<1>4. Slot(job.loc)' = Slot(job.loc)
  BY <1>1, <1>3 DEF Slot
<1>5. QED
  BY <1>1, <1>2, <1>4 DEF OldEntry, IsDot

\* So does what is known of the target's chain.
LEMMA FirstFrame ==
  ASSUME TypeOK, NEW own, NEW pos, NEW o2, NEW p2, FirstInv(own, pos),
         Slot(job.loc)' = Slot(job.loc), Fewer, job' = job, cwd' = cwd,
         \A x \in Clusters : x = job.first /\ Used(x) => Used(x)',
         job.first # 0 => o2[job.first] = own[job.first] /\ p2[job.first] = pos[job.first]
  PROVE  FirstInv(o2, p2)'
<1>1. CASE job.first = 0
  BY <1>1 DEF FirstInv
<1>2. CASE job.first # 0
  <2>1. PICK f : f = job.first
    OBVIOUS
  <2>2. f \in Clusters
    BY <1>2, <2>1 DEF TypeOK, JobType, Firsts
  <2>3. FatNext(f)' # 0
    BY <1>2, <2>1, <2>2 DEF FirstInv, Used
  <2>4. FatNext(job.first)' # 0
    BY <2>1, <2>3 DEF FatNext
  <2>5. CASE Slot(job.loc).first = 0 /\ Nobodys(own, pos, job.first)
    <3>1. Nobodys(own, pos, f) /\ o2[f] = own[f] /\ p2[f] = pos[f]
      BY <1>2, <2>1, <2>5
    <3>2. Nobodys(o2, p2, f)'
      BY <3>1, NobodysFrame
    <3>3. Nobodys(o2, p2, job.first)'
      BY <2>1, <3>2 DEF Nobodys, Starts
    <3>4. QED
      BY <2>4, <2>5, <3>3 DEF FirstInv, Used
  <2>6. CASE Slot(job.loc).first = job.first
    BY <2>4, <2>6 DEF FirstInv, Used
  <2>7. QED
    BY <1>2, <2>5, <2>6 DEF FirstInv
<1>3. QED
  BY <1>1, <1>2

StoreGoesOn(own, pos) ==
  /\ OldEntry(own)
  /\ \/ Ahead = <<>> /\ BodyInv(own, pos)
     \/ Ahead # <<>> /\ Storing(own, pos)

\* The data of one round goes to the cluster.
LEMMA DataStep ==
  ASSUME TypeOK, NEW own, NEW pos, Base(own, pos), OldEntry(own), BodyInv(own, pos),
         job.prev \in Clusters, Ahead = Store, Takes, job' = job, cwd' = cwd
  PROVE  /\ Base(own, pos)' /\ KeepsUsed /\ Fewer /\ KeepsMark(own, own)
         /\ StoreGoesOn(own, pos)'
<1>1. PICK c, d, f : c = job.prev /\ d = <<job.size, job.used>> /\ f = job.first
  OBVIOUS
<1>2. Head(Ahead) = <<"data", c, d>> /\ Ahead' = <<>>
  BY <1>1, OneWrite DEF Takes, Store
<1>3. Does(<<"data", c, d>>)
  BY <1>2 DEF Takes
<1>4. SameTable /\ Blanks(c) /\ Elsewhere(c)
  BY <1>3 DEF Does, Blanks
<1>5. Fewer
  BY <1>4, BlanksFewer
<1>6. Base(own, pos)' /\ KeepsUsed
  BY <1>4, <1>5, BaseSame
<1>7. KeepsMark(own, own)
  BY DEF KeepsMark
<1>8. c \in Clusters /\ c # 0 /\ own[c] = f /\ f # 0 /\ FirstInv(own, pos)
  BY <1>1, ClustersAre DEF BodyInv
<1>9. f # cwd
  BY <1>1, <1>8, TargetFacts
<1>10. job.loc[1] # c
  BY <1>8, <1>9 DEF OldEntry
<1>11. OldEntry(own)' /\ Slot(job.loc)' = Slot(job.loc)
  BY <1>4, <1>10, OldFrame
<1>12. FirstInv(own, pos)'
  BY <1>5, <1>6, <1>8, <1>11, FirstFrame DEF KeepsUsed
<1>13. FatNext(job.prev)' = FatNext(job.prev)
  BY <1>1, <1>4, <1>8 DEF SameTable, FatNext
<1>14. BodyInv(own, pos)'
  BY <1>11, <1>12, <1>13 DEF BodyInv, Ends
<1>15. QED
  BY <1>2, <1>5, <1>6, <1>7, <1>11, <1>14 DEF StoreGoesOn

\* A write of a round of the loop.
LEMMA StoringStep ==
  ASSUME TypeOK, NEW own, NEW pos, Base(own, pos), OldEntry(own), Storing(own, pos),
         Takes, job' = job, cwd' = cwd
  PROVE  \E o2, p2 : /\ Base(o2, p2)' /\ KeepsUsed /\ Fewer /\ KeepsMark(own, o2)
                     /\ StoreGoesOn(o2, p2)'
<1>1. PICK c, f, store : c = job.prev /\ f = job.first /\ store = Store
  OBVIOUS
<1>2. c \in Clusters /\ c # 0 /\ EOC \notin Clusters
  BY <1>1, ClustersAre DEF Storing
<1>3. store \in Seq(WriteType) /\ store # <<>> /\ Store' = store
  <2>1. <<"data", c, <<job.size, job.used>> >> \in WriteType
    BY <1>2 DEF WriteType, TypeOK, JobType
  <2>2. QED
    BY <1>1, <2>1 DEF Store
<1>4. CASE Ahead = Store /\ BodyInv(own, pos)
  BY <1>1, <1>2, <1>4, DataStep
<1>5. CASE /\ job.first = job.prev /\ Slot(job.loc).first = 0
           /\ Nobodys(own, pos, job.prev) /\ job.cluster = EOC /\ Grows(job.prev, Store)
  <2>1. CASE Ends(job.prev) /\ Ahead = Store
    <3>1. FirstInv(own, pos)
      BY <1>5, <2>1 DEF FirstInv, Ends, Used
    <3>2. BodyInv(own, pos)
      BY <1>1, <1>2, <1>5, <2>1, <3>1 DEF BodyInv, Nobodys, Starts
    <3>3. QED
      BY <1>1, <1>2, <2>1, <3>2, DataStep
  <2>2. CASE \/ ~Used(c) /\ Ahead = Allocate(c) \o store
             \/ Ends(c) /\ Ahead = << <<"zero", c>> >> \o store
    <3>1. /\ Base(own, pos)' /\ KeepsUsed /\ Fewer /\ Elsewhere(c)
          /\ Nobodys(own, pos, c)' /\ Ends(c)'
          /\ Ahead' = << <<"zero", c>> >> \o store \/ Ahead' = store
      BY <1>1, <1>3, <1>5, <2>2, ClaimStep
    <3>2. Ahead' # <<>>
      BY <1>3, <3>1, HeadTail
    <3>3. job.loc[1] # c
      BY <1>1, <1>5 DEF OldEntry, Nobodys, Starts
    <3>4. OldEntry(own)' /\ Slot(job.loc)' = Slot(job.loc)
      BY <3>1, <3>3, OldFrame
    <3>5. Nobodys(own, pos, job.prev)'
      BY <1>1, <3>1 DEF Nobodys, Starts
    <3>6. Grows(job.prev, Store)'
      BY <1>1, <1>3, <3>1 DEF Grows, Ends, FatNext
    <3>7. Storing(own, pos)'
      BY <1>1, <1>2, <1>5, <3>4, <3>5, <3>6 DEF Storing
    <3>8. QED
      BY <3>1, <3>2, <3>4, <3>7 DEF StoreGoesOn, KeepsMark
  <2>3. QED
    BY <1>1, <1>5, <2>1, <2>2 DEF Grows
<1>6. ASSUME NEW p \in Clusters,
             p # job.prev, job.first # job.prev, job.first # 0, FirstInv(own, pos),
             Ends(p), own[p] = job.first, Nobodys(own, pos, job.prev),
             Slot(job.loc).first # 0 => job.first # 0,
             job.cluster = EOC, Grows(job.prev, SetFat(p, job.prev) \o Store)
      PROVE  \E o2, p2 : /\ Base(o2, p2)' /\ KeepsUsed /\ Fewer /\ KeepsMark(own, o2)
                         /\ StoreGoesOn(o2, p2)'
  <2>1. PICK rest : rest = SetFat(p, c) \o store
    OBVIOUS
  <2>2. rest \in Seq(WriteType) /\ rest # <<>>
    <3>1. <<"fat", 1, p, c>> \in WriteType
      BY <1>2, Fat32Assumption DEF WriteType, Links
    <3>2. SetFat(p, c) \in Seq(WriteType)
      BY <3>1 DEF SetFat
    <3>3. QED
      BY <1>3, <2>1, <3>2, ConcatProperties, HeadTail DEF SetFat
  <2>3. f \in Clusters /\ own[f] = f /\ f # cwd
    BY <1>1, <1>6, TargetFacts DEF Starts
  <2>4. job.loc[1] # c
    BY <1>1, <1>6 DEF OldEntry, Nobodys, Starts
  <2>5. CASE Ends(c) /\ Ahead = rest
    <3>1. PICK o2, p2 :
            /\ Base(o2, p2)' /\ Joins(own, pos, o2, p2, c, p)
            /\ KeepsUsed /\ SameSlots /\ Fewer
            /\ \A x \in Clusters : x # p => FatNext(x)' = FatNext(x)
            /\ Ahead' = store /\ Head(Ahead) = <<"fat", 1, p, c>>
      BY <1>1, <1>3, <1>6, <2>1, <2>5, LinkStep
    <3>2. KeepsMark(own, o2)
      BY <1>1, <1>6, <3>1 DEF KeepsMark, Joins
    <3>3. Elsewhere(c)
      BY <3>1 DEF SameSlots, Elsewhere
    <3>4. OldEntry(o2)' /\ Slot(job.loc)' = Slot(job.loc)
      BY <2>4, <3>1, <3>3, OldFrame DEF Joins
    <3>5. FirstInv(o2, p2)'
      BY <1>1, <1>6, <2>3, <3>1, <3>4, FirstFrame DEF KeepsUsed, Joins
    <3>6. Ends(c)'
      BY <1>1, <1>2, <1>6, <2>5, <3>1 DEF Ends
    <3>7. Ends(job.prev)'
      BY <1>1, <3>6 DEF Ends, FatNext
    <3>8. BodyInv(o2, p2)'
      BY <1>1, <1>2, <1>6, <3>1, <3>5, <3>7 DEF BodyInv, Joins
    <3>9. Storing(o2, p2)'
      BY <1>1, <1>2, <1>3, <3>1, <3>8 DEF Storing
    <3>10. StoreGoesOn(o2, p2)'
      BY <1>3, <3>1, <3>4, <3>9 DEF StoreGoesOn
    <3>11. QED
      BY <3>1, <3>2, <3>10
  <2>6. CASE \/ ~Used(c) /\ Ahead = Allocate(c) \o rest
             \/ Ends(c) /\ Ahead = << <<"zero", c>> >> \o rest
    <3>1. /\ Base(own, pos)' /\ KeepsUsed /\ Fewer /\ Elsewhere(c)
          /\ \A x \in Clusters : x # c => FatNext(x)' = FatNext(x)
          /\ Nobodys(own, pos, c)' /\ Ends(c)'
          /\ Ahead' = << <<"zero", c>> >> \o rest \/ Ahead' = rest
      BY <1>1, <1>6, <2>2, <2>6, ClaimStep
    <3>2. Ahead' # <<>>
      BY <2>2, <3>1, HeadTail
    <3>4. OldEntry(own)' /\ Slot(job.loc)' = Slot(job.loc)
      BY <2>4, <3>1, OldFrame
    <3>5. Nobodys(own, pos, job.prev)'
      BY <1>1, <3>1 DEF Nobodys, Starts
    <3>6. FirstInv(own, pos)'
      BY <1>6, <3>1, <3>4, FirstFrame DEF KeepsUsed
    <3>7. Ends(p)'
      BY <1>1, <1>6, <3>1 DEF Ends
    <3>8. Grows(job.prev, SetFat(p, job.prev) \o Store)'
      BY <1>1, <1>3, <2>1, <3>1 DEF Grows, Ends, FatNext, SetFat
    <3>9. Storing(own, pos)'
      BY <1>1, <1>2, <1>6, <3>4, <3>5, <3>6, <3>7, <3>8 DEF Storing
    <3>10. QED
      BY <3>1, <3>2, <3>4, <3>9 DEF StoreGoesOn, KeepsMark
  <2>7. QED
    BY <1>1, <1>6, <2>1, <2>5, <2>6 DEF Grows
<1>7. QED
  BY <1>4, <1>5, <1>6 DEF Storing

\* The write that frees a cluster.
LEMMA FreeWrite ==
  ASSUME NEW c \in Clusters PROVE <<"fat", 1, c, 0>> \in WriteType
<1>1. 1 \in 1 .. Copies /\ 0 \in Links
  BY Fat32Assumption DEF Links
<1>2. <<"fat", 1, c, 0>> \in {"fat"} \X (1 .. Copies) \X Clusters \X Links
  BY <1>1
<1>3. QED
  BY <1>2 DEF WriteType

\* The writes that free a chain: their types, the first and the others.
LEMMA FreeAllType ==
  ASSUME NEW s \in Seq(Clusters) PROVE FreeAll(s) \in Seq(WriteType) /\ Len(FreeAll(s)) = Len(s)
<1>1. \A k \in 1 .. Len(s) : <<"fat", 1, s[k], 0>> \in WriteType
  <2>1. \A k \in 1 .. Len(s) : s[k] \in Clusters
    OBVIOUS
  <2>2. QED
    BY <2>1, FreeWrite
<1>2. Len(s) \in Nat
  OBVIOUS
<1>3. QED
  BY <1>1, <1>2 DEF FreeAll

LEMMA FreeAllHead ==
  ASSUME NEW s \in Seq(Clusters), s # <<>>, NEW tail \in Seq(WriteType)
  PROVE  /\ Tail(s) \in Seq(Clusters) /\ Len(Tail(s)) = Len(s) - 1
         /\ s[1] \in Clusters
         /\ \A i \in 1 .. Len(Tail(s)) : i + 1 \in 1 .. Len(s) /\ Tail(s)[i] = s[i + 1]
         /\ FreeAll(s) \o tail = << <<"fat", 1, s[1], 0>> >> \o (FreeAll(Tail(s)) \o tail)
         /\ FreeAll(Tail(s)) \o tail \in Seq(WriteType)
<1>1. /\ Tail(s) \in Seq(Clusters) /\ Len(Tail(s)) = Len(s) - 1 /\ Len(s) \in Nat
      /\ Len(s) >= 1 /\ s[1] \in Clusters
      /\ \A i \in 1 .. Len(Tail(s)) : i + 1 \in 1 .. Len(s) /\ Tail(s)[i] = s[i + 1]
  OBVIOUS
<1>2. FreeAll(Tail(s)) \in Seq(WriteType) /\ FreeAll(s) \in Seq(WriteType)
  BY <1>1, FreeAllType
<1>3. FreeAll(s) = << <<"fat", 1, s[1], 0>> >> \o FreeAll(Tail(s))
  <2> DEFINE one == << <<"fat", 1, s[1], 0>> >>
  <2>1. /\ FreeAll(s) = [k \in 1 .. Len(s) |-> <<"fat", 1, s[k], 0>>]
        /\ FreeAll(Tail(s)) = [k \in 1 .. Len(s) - 1 |-> <<"fat", 1, s[k + 1], 0>>]
    BY <1>1 DEF FreeAll
  <2>2. one \in Seq(WriteType) /\ Len(one) = 1 /\ one[1] = <<"fat", 1, s[1], 0>>
    <3>1. <<"fat", 1, s[1], 0>> \in WriteType
      BY <1>1, FreeWrite
    <3>2. QED
      BY <3>1
  <2> HIDE DEF one
  <2>3. Len(FreeAll(Tail(s))) = Len(s) - 1 /\ Len(FreeAll(s)) = Len(s)
    BY <1>1, FreeAllType
  <2>4. /\ one \o FreeAll(Tail(s)) \in Seq(WriteType)
        /\ Len(one \o FreeAll(Tail(s))) = Len(s)
        /\ \A k \in 1 .. Len(s) : (one \o FreeAll(Tail(s)))[k]
                                   = IF k <= 1 THEN one[k] ELSE FreeAll(Tail(s))[k - 1]
    <3>1. PICK free : free = FreeAll(Tail(s))
      OBVIOUS
    <3>2. free \in Seq(WriteType) /\ Len(free) = Len(s) - 1
      BY <1>2, <2>3, <3>1
    <3>3. /\ one \o free \in Seq(WriteType)
          /\ Len(one \o free) = 1 + Len(free)
          /\ \A k \in 1 .. 1 + Len(free) : (one \o free)[k]
                                           = IF k <= 1 THEN one[k] ELSE free[k - 1]
      <4>1. /\ one \o free \in Seq(WriteType)
            /\ Len(one \o free) = Len(one) + Len(free)
            /\ \A k \in 1 .. Len(one) + Len(free) :
                 (one \o free)[k] = IF k <= Len(one) THEN one[k] ELSE free[k - Len(one)]
        BY <2>2, <3>2, ConcatProperties, Zenon
      <4>2. QED
        BY <2>2, <4>1
    <3>4. 1 + Len(free) = Len(s)
      BY <1>1, <3>2
    <3>5. QED
      BY <3>1, <3>3, <3>4
  <2>5. ASSUME NEW k \in 1 .. Len(s) PROVE (one \o FreeAll(Tail(s)))[k] = FreeAll(s)[k]
    <3>1. CASE k = 1
      BY <2>1, <2>2, <2>4, <3>1
    <3>2. CASE k # 1
      <4>1. k - 1 \in 1 .. Len(s) - 1 /\ (k - 1) + 1 = k /\ ~(k <= 1)
        BY <1>1, <3>2
      <4>2. FreeAll(Tail(s))[k - 1] = <<"fat", 1, s[k], 0>>
        BY <2>1, <4>1
      <4>3. QED
        BY <2>1, <2>4, <4>1, <4>2
    <3>3. QED
      BY <3>1, <3>2
  <2>6. QED
    BY <1>2, <2>3, <2>4, <2>5, SeqEqual DEF one
<1>4. << <<"fat", 1, s[1], 0>> >> \in Seq(WriteType)
  <2>1. <<"fat", 1, s[1], 0>> \in WriteType
    BY <1>1, FreeWrite
  <2>2. QED
    BY <2>1
<1>5. FreeAll(Tail(s)) \o tail \in Seq(WriteType)
  BY <1>2, ConcatProperties
<1>6. (<< <<"fat", 1, s[1], 0>> >> \o FreeAll(Tail(s))) \o tail
        = << <<"fat", 1, s[1], 0>> >> \o (FreeAll(Tail(s)) \o tail)
  BY <1>2, <1>4, ConcatAssociative, SMTT(30)
<1>7. QED
  BY <1>1, <1>3, <1>5, <1>6

\* Freeing the first of the clusters leaves the others doomed.
LEMMA DoomedTail ==
  ASSUME TypeOK, NEW own, NEW o2, NEW s, s # <<>>, NEW loc, NEW lose, NEW keep,
         Doomed(own, s, {}, loc, lose, keep), Fewer, cwd' = cwd,
         Tables(s[1], 0), \A x \in Clusters : x # s[1] => o2[x] = own[x]
  PROVE  Doomed(o2, Tail(s), {}, loc, lose, keep)'
<1> DEFINE t == Tail(s)
<1>1. s \in Seq(Clusters)
  BY DEF Doomed
<1>2. /\ t \in Seq(Clusters) /\ Len(t) = Len(s) - 1 /\ s[1] \in Clusters /\ Len(s) \in Nat
      /\ \A i \in 1 .. Len(t) : i + 1 \in 1 .. Len(s) /\ t[i] = s[i + 1]
  BY <1>1, FreeAllHead, EmptySeq
<1> HIDE DEF t
<1>3. \A i, j \in 1 .. Len(s) : s[i] = s[j] => i = j
  BY DEF Doomed
<1>4. \A i, j \in 1 .. Len(t) : t[i] = t[j] => i = j
  BY <1>2, <1>3
<1>5. 1 \in 1 .. Len(s)
  BY <1>1
<1>6. \A l \in Named' : l \in Named /\ Slot(l)' = Slot(l)
  BY DEF Fewer
<1>7. ASSUME NEW i \in 1 .. Len(t)
      PROVE  /\ t[i] # keep /\ o2[t[i]] \notin {Root, cwd}
             /\ \A l \in Named' : Slot(l)'.first = o2[t[i]] => l = loc
             /\ \A l \in Named' : Slot(l)'.first = t[i] => lose
             /\ \A x \in Clusters : FatNext(x)' = t[i] => IF i = 1 THEN FALSE ELSE x = t[i-1]
  <2>1. /\ i + 1 \in 1 .. Len(s) /\ t[i] = s[i + 1] /\ i + 1 # 1 /\ (i + 1) - 1 = i
        /\ t[i] # s[1] /\ t[i] \in Clusters /\ t[i] # 0
    BY <1>1, <1>2, <1>3, <1>5, ClustersAre, SMTT(30)
  <2>2. o2[t[i]] = own[s[i + 1]]
    BY <2>1
  <2>3. /\ s[i + 1] # keep /\ own[s[i + 1]] \notin {Root, cwd}
        /\ \A l \in Named : Slot(l).first = own[s[i + 1]] => l = loc
        /\ \A l \in Named : Slot(l).first = s[i + 1] => lose
        /\ \A x \in Clusters : FatNext(x) = s[i + 1] => x = s[(i + 1) - 1]
    BY <2>1 DEF Doomed
  <2>4. ASSUME NEW x \in Clusters, FatNext(x)' = t[i]
        PROVE  IF i = 1 THEN FALSE ELSE x = t[i-1]
    <3>1. x # s[1] /\ FatNext(x) = s[i + 1]
      BY <2>1, <2>4 DEF Tables
    <3>2. x = s[i]
      BY <2>1, <2>3, <3>1
    <3>3. i # 1 => i - 1 \in 1 .. Len(t) /\ (i - 1) + 1 = i
      BY <1>2
    <3>4. i # 1 => t[i - 1] = s[i]
      BY <1>2, <3>3
    <3>5. QED
      BY <3>1, <3>2, <3>4
  <2>5. QED
    BY <1>6, <2>1, <2>2, <2>3, <2>4
<1>8. QED
  BY <1>2, <1>4, <1>7 DEF Doomed, t, FatNext

\* What the freeing of cluster c leaves: the labels of the others, and the rest to be freed.
GivesBack(own, pos, tail, c, lose, keep) ==
  \E o2, p2 :
    /\ Base(o2, p2)' /\ Fewer /\ KeepsMark(own, o2)
    /\ \A x \in Clusters : x # c =>
         /\ o2[x] = own[x] /\ p2[x] = pos[x] /\ FatNext(x)' = FatNext(x)
    /\ Elsewhere(c) /\ c \in Clusters /\ c # keep
    /\ own[c] \notin {Root, cwd}
    /\ \A l \in Named : Slot(l).first = own[c] => l = job.loc
    /\ \A l \in Named : Slot(l).first = c => lose
    /\ Freeing(o2, tail, lose, keep)'

\* A cluster of the chain is freed.
LEMMA FreeingStep ==
  ASSUME TypeOK, NEW own, NEW pos, Base(own, pos), NEW tail \in Seq(WriteType), NEW s,
         s # <<>>, NEW lose, NEW keep, Doomed(own, s, {}, job.loc, lose, keep),
         Ahead = FreeAll(s) \o tail, Takes, job' = job, cwd' = cwd
  PROVE  GivesBack(own, pos, tail, s[1], lose, keep)
<1>1. PICK loc, c : loc = job.loc /\ c = s[1]
  OBVIOUS
<1>2. /\ s \in Seq(Clusters) /\ 1 \in 1 .. Len(s)
      /\ c # keep /\ own[c] \notin {Root, cwd}
      /\ \A l \in Named : Slot(l).first = own[c] => l = loc
      /\ \A l \in Named : Slot(l).first = c => lose
      /\ \A x \in Clusters : FatNext(x) # c
  <2>1. s \in Seq(Clusters)
    BY DEF Doomed
  <2>2. 1 \in 1 .. Len(s)
    BY <2>1
  <2>3. QED
    BY <1>1, <2>1, <2>2 DEF Doomed
<1>3. /\ c \in Clusters /\ FreeAll(Tail(s)) \o tail \in Seq(WriteType)
      /\ Ahead = << <<"fat", 1, c, 0>> >> \o (FreeAll(Tail(s)) \o tail)
  BY <1>1, <1>2, FreeAllHead
<1>4. Head(Ahead) = <<"fat", 1, c, 0>> /\ Ahead' = FreeAll(Tail(s)) \o tail
  BY <1>3, HeadTail DEF Takes
<1>5. Does(<<"fat", 1, c, 0>>)
  BY <1>4 DEF Takes
<1>6. Tables(c, 0) /\ Blanks(c) /\ Elsewhere(c)
  BY <1>5 DEF Does, Blanks
<1>7. Fewer
  BY <1>6, BlanksFewer
<1>8. PICK o2, p2 : o2 = [own EXCEPT ![c] = c] /\ p2 = [pos EXCEPT ![c] = 0]
  OBVIOUS
<1>9. c # Root /\ c # cwd
  BY <1>2 DEF Base, HeadsInv, CwdInv, Starts
<1>10. Base(o2, p2)'
  BY <1>2, <1>3, <1>6, <1>7, <1>8, <1>9, BaseFree
<1>11. \A x \in Clusters : x # c =>
         o2[x] = own[x] /\ p2[x] = pos[x] /\ FatNext(x)' = FatNext(x)
  BY <1>6, <1>8 DEF Base, Labels, Tables
<1>12. Doomed(own, s, {}, loc, lose, keep)
  BY <1>1
<1>13. Doomed(o2, Tail(s), {}, loc, lose, keep)'
  BY <1>1, <1>6, <1>7, <1>11, <1>12, DoomedTail
<1>14. Freeing(o2, tail, lose, keep)'
  <2>1. Doomed(o2, Tail(s), {}, job.loc, lose, keep)'
    BY <1>1, <1>13 DEF Doomed
  <2>2. QED
    BY <1>4, <2>1 DEF Freeing
<1>15. KeepsMark(own, o2)
  <2>1. <<"fat", 1, c, 0>>[4] = 0
    OBVIOUS
  <2>2. QED
    BY <1>4, <2>1 DEF KeepsMark
<1>16. QED
  BY <1>1, <1>2, <1>3, <1>6, <1>7, <1>10, <1>11, <1>14, <1>15 DEF GivesBack

\* The chain is cut before the clusters that are to be freed.
LEMMA CutStep ==
  ASSUME TypeOK, NEW own, NEW pos, Base(own, pos), Cutting(own), Takes,
         job' = job, cwd' = cwd
  PROVE  /\ Base(own, pos)' /\ KeepsUsed /\ SameSlots /\ Fewer /\ KeepsMark(own, own)
         /\ Freeing(own, <<>>, job.first = 0, job.first)'
<1>1. PICK loc, p, f : loc = job.loc /\ p = job.prev /\ f = job.first
  OBVIOUS
<1>2. PICK s : /\ Doomed(own, s, {p}, loc, FALSE, f)
               /\ Ahead = SetFat(p, EOC) \o FreeAll(s)
  BY <1>1 DEF Cutting
<1>3. s \in Seq(Clusters)
  BY <1>2 DEF Doomed
<1>4. /\ FreeAll(s) \in Seq(WriteType)
      /\ Ahead = << <<"fat", 1, p, EOC>> >> \o FreeAll(s)
  BY <1>2, <1>3, FreeAllType DEF SetFat
<1>5. Head(Ahead) = <<"fat", 1, p, EOC>> /\ Ahead' = FreeAll(s)
  BY <1>4, HeadTail DEF Takes
<1>6. Does(<<"fat", 1, p, EOC>>)
  BY <1>5 DEF Takes
<1>7. Tables(p, EOC) /\ SameSlots
  BY <1>6, ClustersAre DEF Does
<1>8. Fewer
  BY <1>7, SameSlotsFewer
<1>9. p \in Clusters /\ Used(p) /\ own[p] = f
  BY <1>1 DEF Cutting
<1>10. Base(own, pos)' /\ KeepsUsed
  BY <1>7, <1>8, <1>9, BaseCut
<1>11. f # 0
  BY <1>9, ClustersAre DEF Base, Labels
<1>12. Doomed(own, s, {}, loc, FALSE, f)'
  <2>1. \A l \in Named' : l \in Named /\ Slot(l)' = Slot(l)
    BY <1>8 DEF Fewer
  <2>2. ASSUME NEW i \in 1 .. Len(s)
        PROVE  /\ s[i] # f /\ own[s[i]] \notin {Root, cwd}
               /\ \A l \in Named' : Slot(l)'.first = own[s[i]] => l = loc
               /\ \A l \in Named' : Slot(l)'.first # s[i]
               /\ \A x \in Clusters : FatNext(x)' = s[i]
                    => IF i = 1 THEN FALSE ELSE x = s[i-1]
    <3>1. /\ s[i] # f /\ own[s[i]] \notin {Root, cwd} /\ s[i] \in Clusters
          /\ \A l \in Named : Slot(l).first = own[s[i]] => l = loc
          /\ \A l \in Named : Slot(l).first # s[i]
          /\ \A x \in Clusters : FatNext(x) = s[i] => IF i = 1 THEN x = p ELSE x = s[i-1]
      BY <1>2, <1>3 DEF Doomed
    <3>2. \A x \in Clusters : FatNext(x)' = s[i] => x # p /\ FatNext(x) = s[i]
      BY <1>7, <3>1, ClustersAre DEF Tables
    <3>3. QED
      BY <2>1, <3>1, <3>2
  <2>3. QED
    BY <1>2, <2>2 DEF Doomed, FatNext
<1>13. Freeing(own, <<>>, job.first = 0, job.first)'
  <2>1. Doomed(own, s, {}, job.loc, job.first = 0, job.first)'
    BY <1>1, <1>11, <1>12 DEF Doomed
  <2>2. FreeAll(s) = FreeAll(s) \o <<>>
    BY <1>4, ConcatEmptySeq
  <2>3. QED
    BY <1>5, <2>1, <2>2 DEF Freeing
<1>14. KeepsMark(own, own)
  BY DEF KeepsMark
<1>15. QED
  BY <1>7, <1>8, <1>10, <1>13, <1>14

\* The entries that name a cluster just freed are those that name it for good.
LEMMA IntactFree ==
  ASSUME TypeOK, NEW own, NEW pos, Base(own, pos), IntactInv, NEW c \in Clusters, NEW lose,
         \A x \in Clusters : x # c => FatNext(x)' = FatNext(x), Fewer, job' = job,
         \A l \in Named : Slot(l).first = own[c] => l = job.loc,
         \A l \in Named : Slot(l).first = c => lose,
         lose \/ Losing => Losing'
  PROVE  IntactInv'
<1>1. \A l \in Named' : l \in Named /\ Slot(l)' = Slot(l) /\ Slot(l).first \in Clusters
  BY TableType DEF Fewer
<1>2. ASSUME NEW l \in Named', NEW f \in Clusters, Slot(l)'.first = f, FatNext(f)' = 0
      PROVE  l = job.loc /\ Losing'
  <2>1. f = Slot(l).first /\ l \in Named
    BY <1>1, <1>2
  <2>2. CASE f = c
    <3>1. own[c] = c
      BY <2>1, <2>2 DEF Base, HeadsInv, Starts
    <3>2. QED
      BY <2>1, <2>2, <3>1
  <2>3. CASE f # c
    <3>1. ~Used(f)
      BY <1>2, <2>3 DEF Used
    <3>2. QED
      BY <2>1, <3>1 DEF IntactInv
  <2>4. QED
    BY <2>2, <2>3
<1>3. \A l \in Named' : Slot(l)'.first \in Clusters
  BY <1>1
<1>4. QED
  BY <1>2, <1>3 DEF IntactInv, Used, FatNext

\* No name a user types is a dot entry's.
LEMMA NotDot ==
  ASSUME NEW n \in Names \cup {DotDot}
  PROVE  BuildName(n) \notin {<<".", "">>, <<"..", "">>}
<1>1. n.stem # "." /\ n.stem # ".."
  <2>1. ASSUME n \in Names PROVE n.stem # "." /\ n.stem # ".."
    BY <2>1, Fat32Assumption
  <2>2. DotDot.stem = ""
    BY DEF DotDot
  <2>3. QED
    BY <2>1, <2>2
<1>2. BuildName(n)[1] = n.stem
  BY DEF BuildName
<1>3. <<".", "">>[1] = "." /\ <<"..", "">>[1] = ".."
  OBVIOUS
<1>4. QED
  BY <1>1, <1>2, <1>3

-----------------------------------------------------------------------------
(***************************************************************************)
(* A sector write of each call                                             *)
(***************************************************************************)
\* The invariant holds after the step, and the cluster written to keeps its label.
Follows(own, o2, p2) ==
  Base(o2, p2)' /\ IntactInv' /\ PhaseInv(o2, p2)' /\ KeepsMark(own, o2)

\* find_free_dir_slot and the entry: while the call makes the entry.
LEMMA WriteMakes ==
  ASSUME TypeOK, NEW own, NEW pos, Base(own, pos), IntactInv, Takes, job' = job,
         cwd' = cwd, job.call \in {"write", "touch"}, job.at = "body",
         job.prev = 0 => job.used = 0, job.first = 0, job.prev = 0, job.cluster = 0,
         job.name \in Names, Making(own, pos, NewEntry)
  PROVE  \E o2, p2 : Follows(own, o2, p2)
<1>1. PICK e, loc : e = NewEntry /\ loc = job.loc
  OBVIOUS
<1>2. /\ e \in EntryType /\ e.first = 0 /\ e.state = "used" /\ ~IsDot(e) /\ ~e.dir
      /\ NewEntry' = e
  <2>2. BuildName(job.name) \in EntryNames
    BY NameType
  <2>3. e \in EntryType
    BY <1>1, <2>2, EntryIsEntry DEF NewEntry, Firsts
  <2>4. BuildName(job.name) \notin {<<".", "">>, <<"..", "">>}
    BY NotDot
  <2>5. QED
    BY <1>1, <2>3, <2>4 DEF NewEntry, Entry, IsDot
<1>3. PICK o2, p2 : /\ Base(o2, p2)' /\ KeepsUsed /\ KeepsMark(own, o2)
                    /\ MakingGoesOn(own, pos, o2, p2, e) \/ MakingEnds(own, pos, o2, p2, e)
  BY <1>1, <1>2, MakingStep
<1>4. ~Losing
  BY DEF Losing
<1>5. CASE MakingGoesOn(own, pos, o2, p2, e)
  <2>1. Ahead' # <<>> /\ Fewer /\ Making(o2, p2, e)'
    BY <1>5 DEF MakingGoesOn
  <2>2. IntactInv'
    BY <1>3, <1>4, <2>1, IntactFrame
  <2>3. Making(o2, p2, NewEntry)'
    BY <1>2, <2>1 DEF Making
  <2>4. WriteInv(o2, p2)'
    BY <2>1, <2>3 DEF WriteInv
  <2>5. PhaseInv(o2, p2)'
    BY <2>4 DEF PhaseInv
  <2>6. QED
    BY <1>3, <2>2, <2>5 DEF Follows
<1>6. CASE MakingEnds(own, pos, o2, p2, e)
  <2>1. /\ Ahead' = <<>> /\ o2 = own /\ p2 = pos /\ loc \in Places /\ own[loc[1]] = cwd
        /\ \A m \in Places : Slot(m)' = IF m = loc THEN e ELSE Slot(m)
    BY <1>1, <1>6 DEF MakingEnds
  <2>2. Slot(loc)' = e
    BY <2>1
  <2>3. Slot(job.loc)' = e
    BY <1>1, <2>2 DEF Slot
  <2>4. loc \notin Named'
    BY <1>2, <2>2 DEF Named
  <2>5. IntactInv'
    BY <1>2, <1>3, <1>4, <2>1, <2>4, IntactEntry
  <2>6. OldEntry(o2)'
    BY <1>1, <1>2, <2>1, <2>3 DEF OldEntry, IsDot
  <2>7. BodyInv(o2, p2)'
    BY <1>2, <2>3, ClustersAre DEF BodyInv, FirstInv
  <2>8. WriteInv(o2, p2)'
    BY <2>1, <2>6, <2>7 DEF WriteInv
  <2>9. PhaseInv(o2, p2)'
    BY <2>8 DEF PhaseInv
  <2>10. QED
    BY <1>3, <2>5, <2>9 DEF Follows
<1>7. QED
  BY <1>3, <1>5, <1>6

\* The loop of a write.
LEMMA WriteStores ==
  ASSUME TypeOK, NEW own, NEW pos, Base(own, pos), IntactInv, Takes, job' = job,
         cwd' = cwd, job.call \in {"write", "touch"}, job.at = "body",
         job.prev = 0 => job.used = 0, OldEntry(own), Storing(own, pos)
  PROVE  \E o2, p2 : Follows(own, o2, p2)
<1>1. PICK o2, p2 : /\ Base(o2, p2)' /\ KeepsUsed /\ Fewer /\ KeepsMark(own, o2)
                    /\ StoreGoesOn(o2, p2)'
  BY StoringStep
<1>2. ~Losing
  BY DEF Losing
<1>3. IntactInv'
  BY <1>1, <1>2, IntactFrame
<1>4. WriteInv(o2, p2)'
  BY <1>1 DEF WriteInv, StoreGoesOn
<1>5. PhaseInv(o2, p2)'
  BY <1>4 DEF PhaseInv
<1>6. QED
  BY <1>1, <1>3, <1>5 DEF Follows

\* What is left of the old chain is freed.
LEMMA WriteFrees ==
  ASSUME TypeOK, NEW own, NEW pos, Base(own, pos), IntactInv, Takes, job' = job,
         cwd' = cwd, job.call \in {"write", "touch"}, job.at = "entry",
         OldEntry(own), FirstInv(own, pos), Freeing(own, <<>>, job.first = 0, job.first)
  PROVE  \E o2, p2 : Follows(own, o2, p2)
<1>1. PICK lose, f, loc : lose = (job.first = 0) /\ f = job.first /\ loc = job.loc
  OBVIOUS
<1>2. PICK s : Doomed(own, s, {}, job.loc, lose, f) /\ Ahead = FreeAll(s) \o <<>>
  BY <1>1 DEF Freeing
<1>3. s # <<>>
  <2>1. ASSUME s = <<>> PROVE FALSE
    <3>1. FreeAll(s) = <<>>
      BY <2>1 DEF FreeAll
    <3>2. Ahead = <<>>
      BY <1>2, <3>1
    <3>3. QED
      BY <3>2 DEF Takes
  <2>2. QED
    BY <2>1
<1>4. PICK o2, p2 :
        /\ Base(o2, p2)' /\ Fewer /\ KeepsMark(own, o2)
        /\ \A x \in Clusters : x # s[1] =>
             /\ o2[x] = own[x] /\ p2[x] = pos[x] /\ FatNext(x)' = FatNext(x)
        /\ Elsewhere(s[1]) /\ s[1] \in Clusters /\ s[1] # f
        /\ own[s[1]] \notin {Root, cwd}
        /\ \A l \in Named : Slot(l).first = own[s[1]] => l = job.loc
        /\ \A l \in Named : Slot(l).first = s[1] => lose
        /\ Freeing(o2, <<>>, lose, f)'
  <2>1. <<>> \in Seq(WriteType)
    BY EmptySeq
  <2>2. PICK tail : tail = <<>>
    OBVIOUS
  <2>3. tail \in Seq(WriteType)
    BY <2>1, <2>2
  <2>4. Ahead = FreeAll(s) \o tail
    BY <1>2, <2>2
  <2>5. PICK o2, p2 :
        /\ Base(o2, p2)' /\ Fewer /\ KeepsMark(own, o2)
        /\ \A x \in Clusters : x # s[1] =>
             /\ o2[x] = own[x] /\ p2[x] = pos[x] /\ FatNext(x)' = FatNext(x)
        /\ Elsewhere(s[1]) /\ s[1] \in Clusters /\ s[1] # f
        /\ own[s[1]] \notin {Root, cwd}
        /\ \A l \in Named : Slot(l).first = own[s[1]] => l = job.loc
        /\ \A l \in Named : Slot(l).first = s[1] => lose
        /\ Freeing(o2, tail, lose, f)'
    <3>1. GivesBack(own, pos, tail, s[1], lose, f)
      BY <1>2, <1>3, <2>3, <2>4, FreeingStep
    <3>2. QED
      BY <3>1 DEF GivesBack
  <2>6. Freeing(o2, <<>>, lose, f)'
    BY <2>2, <2>5 DEF Freeing
  <2>7. QED
    BY <2>5, <2>6
<1>5. lose \/ Losing => Losing'
  BY <1>1 DEF Losing
<1>6. IntactInv'
  BY <1>4, <1>5, IntactFree
<1>7. job.loc[1] # s[1]
  BY <1>4 DEF OldEntry
<1>8. OldEntry(o2)' /\ Slot(job.loc)' = Slot(job.loc)
  BY <1>4, <1>7, OldFrame
<1>9. FirstInv(o2, p2)'
  <2>1. f # 0 => f \in Clusters /\ o2[f] = own[f] /\ p2[f] = pos[f]
    BY <1>1, <1>4 DEF TypeOK, JobType, Firsts
  <2>2. \A x \in Clusters : x = job.first /\ Used(x) => Used(x)'
    BY <1>1, <1>4 DEF Used
  <2>3. QED
    BY <1>1, <1>4, <1>8, <2>1, <2>2, FirstFrame
<1>10. Freeing(o2, <<>>, job.first = 0, job.first)'
  BY <1>1, <1>4 DEF Freeing
<1>11. WriteInv(o2, p2)'
  BY <1>8, <1>9, <1>10 DEF WriteInv
<1>12. PhaseInv(o2, p2)'
  BY <1>11 DEF PhaseInv
<1>13. QED
  BY <1>4, <1>6, <1>12 DEF Follows

\* The old chain is cut before that.
LEMMA WriteCuts ==
  ASSUME TypeOK, NEW own, NEW pos, Base(own, pos), IntactInv, Takes, job' = job,
         cwd' = cwd, job.call \in {"write", "touch"}, job.at = "entry",
         OldEntry(own), FirstInv(own, pos), Cutting(own)
  PROVE  \E o2, p2 : Follows(own, o2, p2)
<1>1. /\ Base(own, pos)' /\ KeepsUsed /\ SameSlots /\ Fewer /\ KeepsMark(own, own)
      /\ Freeing(own, <<>>, job.first = 0, job.first)'
  BY CutStep
<1>2. Losing => Losing'
  BY DEF Losing
<1>3. IntactInv'
  BY <1>1, <1>2, IntactFrame
<1>4. Elsewhere(0) /\ job.loc[1] # 0
  BY <1>1, ClustersAre DEF SameSlots, Elsewhere, OldEntry, Places
<1>5. OldEntry(own)' /\ Slot(job.loc)' = Slot(job.loc)
  BY <1>4, OldFrame
<1>6. FirstInv(own, pos)'
  BY <1>1, <1>5, FirstFrame DEF KeepsUsed
<1>7. WriteInv(own, pos)'
  BY <1>1, <1>5, <1>6 DEF WriteInv
<1>8. PhaseInv(own, pos)'
  BY <1>7 DEF PhaseInv
<1>9. QED
  BY <1>1, <1>3, <1>8 DEF Follows

\* The entry is given the new chain.
LEMMA WriteEnds ==
  ASSUME TypeOK, NEW own, NEW pos, Base(own, pos), IntactInv, Takes, job' = job,
         cwd' = cwd, job.call \in {"write", "touch"}, job.at = "return",
         OldEntry(own), FirstInv(own, pos), Ahead = SetSlot(job.loc, Finished)
  PROVE  \E o2, p2 : Follows(own, o2, p2)
<1>1. PICK loc, e : loc = job.loc /\ e = Finished
  OBVIOUS
<1>2. /\ Ahead' = <<>> /\ Head(Ahead) = <<"slot", loc, e>> /\ SameTable
      /\ loc \in Places /\ e \in EntryType
      /\ \A m \in Places : Slot(m)' = IF m = loc THEN e ELSE Slot(m)
  BY <1>1, SlotStep
<1>3. e.first = job.first /\ e.dir = Slot(loc).dir
  <2>1. Slot(loc) \in EntryType
    BY <1>2, SlotType
  <2>2. QED
    BY <1>1, <2>1 DEF Finished, EntryType
<1>4. Slot(loc)' = e
  BY <1>2
<1>5. \/ loc \notin Named'
      \/ Nobodys(own, pos, e.first)
      \/ loc \in Named /\ Slot(loc).first = e.first /\ Slot(loc).dir = e.dir
  <2>1. CASE job.first = 0
    BY <1>3, <1>4, <2>1 DEF Named
  <2>2. CASE job.first # 0
    BY <1>1, <1>3, <2>2 DEF FirstInv, OldEntry, Named
  <2>3. QED
    BY <2>1, <2>2
<1>6. Base(own, pos)' /\ KeepsUsed
  BY <1>2, <1>5, BaseEntry
<1>7. loc \in Named' => e.first \in Clusters /\ Used(e.first)
  <2>1. loc \in Named' => e.first # 0
    BY <1>4 DEF Named
  <2>2. QED
    BY <1>3, <2>1 DEF FirstInv, TypeOK, JobType, Firsts
<1>8. IntactInv'
  BY <1>1, <1>2, <1>6, <1>7, IntactEntry
<1>9. WriteInv(own, pos)'
  BY <1>2 DEF WriteInv
<1>10. PhaseInv(own, pos)'
  BY <1>9 DEF PhaseInv
<1>11. KeepsMark(own, own)
  BY DEF KeepsMark
<1>12. QED
  BY <1>6, <1>8, <1>10, <1>11 DEF Follows

\* The cluster of a new directory is claimed, zeroed and seeded.
LEMMA MkdirSeeds ==
  ASSUME TypeOK, NEW own, NEW pos, Base(own, pos), IntactInv, Takes, job' = job,
         cwd' = cwd, job.call = "mkdir", job.at = "slot", Nobodys(own, pos, job.first),
         Grows(job.first, << <<"seed", job.first, Seed(job.first)>> >>)
  PROVE  \E o2, p2 : Follows(own, o2, p2)
<1>1. PICK c, d : c = job.first /\ d = Seed(job.first)
  OBVIOUS
<1>2. PICK rest : rest = << <<"seed", c, d>> >>
  OBVIOUS
<1>3. c \in Clusters /\ cwd \in Clusters /\ Seed(c)' = d /\ d = Seed(c)
  BY <1>1, TableType DEF Nobodys, Seed
<1>4. rest \in Seq(WriteType) /\ rest # <<>>
  <2>1. <<"seed", c, d>> \in WriteType
    BY <1>3, SeedType DEF WriteType
  <2>2. QED
    BY <1>2, <2>1
<1>5. KeepsMark(own, own) /\ ~Losing
  BY DEF Losing, KeepsMark
<1>6. CASE Ends(c) /\ Ahead = rest
  <2>1. Head(Ahead) = <<"seed", c, d>> /\ Ahead' = <<>>
    BY <1>2, <1>6, OneWrite DEF Takes
  <2>2. Does(<<"seed", c, d>>)
    BY <2>1 DEF Takes
  <2>3. /\ SameTable /\ Elsewhere(c)
        /\ \A l \in Places : l[1] = c => Slot(l)' = d[l[2]]
    BY <2>2 DEF Does
  <2>4. \A i \in 1 .. Slots : IsDot(d[i]) \/ d[i].state # "used"
    <3>1. \A i \in 1 .. Slots : EmptyDir[i].state = "end"
      BY SlotsOfStale
    <3>2. \A i \in 1 .. Slots : i # 1 /\ i # 2 => d[i] = EmptyDir[i]
      BY <1>3 DEF Seed, EmptyDir
    <3>3. /\ 1 \in 1 .. Slots => d[1].name = <<".", "">>
          /\ 2 \in 1 .. Slots => d[2].name = <<"..", "">>
      <4>1. Slots \in Nat /\ 1 \in 1 .. Slots /\ 2 \in 1 .. Slots
        BY Fat32Assumption
      <4>2. PICK a, b : /\ a = Entry(<<".", "">>, TRUE, c, 0)
                        /\ b = Entry(<<"..", "">>, TRUE, IF cwd = Root THEN 0 ELSE cwd, 0)
        OBVIOUS
      <4>3. a.name = <<".", "">> /\ b.name = <<"..", "">>
        BY <4>2 DEF Entry
      <4>4. d = [EmptyDir EXCEPT ![1] = a, ![2] = b] /\ DOMAIN EmptyDir = 1 .. Slots
        BY <1>3, <4>2 DEF Seed, EmptyDir
      <4>5. d[1] = a /\ d[2] = b
        BY <4>1, <4>4
      <4>6. QED
        BY <4>3, <4>5
    <3>4. QED
      BY <3>1, <3>2, <3>3 DEF IsDot
  <2>5. Blanks(c)
    <3>1. ASSUME NEW l \in Named' PROVE l[1] # c
      <4>1. l \in Places /\ l[2] \in 1 .. Slots
        BY DEF Named, Places
      <4>2. Slot(l)'.state = "used" /\ Slot(l)'.name \notin {<<".", "">>, <<"..", "">>}
        BY DEF Named, IsDot
      <4>3. QED
        BY <2>3, <2>4, <4>1, <4>2 DEF IsDot
    <3>2. QED
      BY <2>3, <3>1 DEF Blanks
  <2>6. Fewer
    BY <2>5, BlanksFewer
  <2>7. Base(own, pos)' /\ KeepsUsed
    BY <2>3, <2>6, BaseSame
  <2>8. IntactInv'
    BY <1>5, <2>6, <2>7, IntactFrame
  <2>9. Nobodys(own, pos, c)'
    BY <1>1, <2>6, NobodysFrame
  <2>10. Ends(c)'
    BY <1>3, <1>6, <2>3 DEF SameTable, Ends
  <2>11. Nobodys(own, pos, job.first)' /\ Ends(job.first)'
    BY <1>1, <2>9, <2>10 DEF Nobodys, Starts, Ends, FatNext
  <2>12. MkdirInv(own, pos)'
    BY <2>1, <2>11 DEF MkdirInv
  <2>13. PhaseInv(own, pos)'
    BY <2>12 DEF PhaseInv
  <2>14. QED
    BY <1>5, <2>7, <2>8, <2>13 DEF Follows
<1>7. CASE \/ ~Used(c) /\ Ahead = Allocate(c) \o rest
           \/ Ends(c) /\ Ahead = << <<"zero", c>> >> \o rest
  <2>1. /\ Base(own, pos)' /\ KeepsUsed /\ Fewer
        /\ Nobodys(own, pos, c)' /\ Ends(c)'
        /\ Ahead' = << <<"zero", c>> >> \o rest \/ Ahead' = rest
    BY <1>1, <1>4, <1>7, ClaimStep
  <2>2. IntactInv'
    BY <1>5, <2>1, IntactFrame
  <2>3. Nobodys(own, pos, job.first)'
    BY <1>1, <2>1 DEF Nobodys, Starts
  <2>4. Grows(job.first, << <<"seed", job.first, Seed(job.first)>> >>)'
    <3>1. Grows(c, rest)'
      BY <2>1 DEF Grows
    <3>2. << <<"seed", job.first, Seed(job.first)>> >>' = rest /\ job.first' = c
      BY <1>1, <1>2, <1>3 DEF Seed
    <3>3. QED
      BY <3>1, <3>2 DEF Grows, Ends, Used, FatNext
  <2>5. MkdirInv(own, pos)'
    BY <2>3, <2>4 DEF MkdirInv
  <2>6. PhaseInv(own, pos)'
    BY <2>5 DEF PhaseInv
  <2>7. QED
    BY <1>5, <2>1, <2>2, <2>6 DEF Follows
<1>8. Grows(c, rest)
  BY <1>1, <1>2
<1>9. QED
  BY <1>6, <1>7, <1>8 DEF Grows

\* Its entry is made.
LEMMA MkdirMakes ==
  ASSUME TypeOK, NEW own, NEW pos, Base(own, pos), IntactInv, Takes, job' = job,
         cwd' = cwd, job.call = "mkdir", job.at = "return", Making(own, pos, NewDir),
         job.name \in Names, Nobodys(own, pos, job.first), Used(job.first)
  PROVE  \E o2, p2 : Follows(own, o2, p2)
<1>1. PICK e, loc, f : e = NewDir /\ loc = job.loc /\ f = job.first
  OBVIOUS
<1>2. f \in Clusters
  BY <1>1 DEF Nobodys
<1>3. e \in EntryType /\ e.first = f /\ NewDir' = e
  <2>1. BuildName(job.name) \in EntryNames
    BY NameType
  <2>2. e \in EntryType
    BY <1>1, <1>2, <2>1, EntryIsEntry DEF NewDir, Firsts
  <2>3. QED
    BY <1>1, <2>2 DEF NewDir, Entry
<1>4. PICK o2, p2 : /\ Base(o2, p2)' /\ KeepsUsed /\ KeepsMark(own, o2)
                    /\ MakingGoesOn(own, pos, o2, p2, e) \/ MakingEnds(own, pos, o2, p2, e)
  BY <1>1, <1>3, MakingStep
<1>5. ~Losing
  BY DEF Losing
<1>6. CASE MakingGoesOn(own, pos, o2, p2, e)
  <2>1. /\ Ahead' # <<>> /\ Fewer /\ Making(o2, p2, e)'
        /\ o2[f] = own[f] /\ p2[f] = pos[f]
    BY <1>1, <1>2, <1>6 DEF MakingGoesOn
  <2>2. IntactInv'
    BY <1>4, <1>5, <2>1, IntactFrame
  <2>3. Making(o2, p2, NewDir)'
    BY <1>3, <2>1 DEF Making
  <2>4. Nobodys(o2, p2, f)'
    BY <1>1, <2>1, NobodysFrame
  <2>5. Used(f)'
    BY <1>1, <1>2, <1>4 DEF KeepsUsed
  <2>6. Nobodys(o2, p2, job.first)' /\ Used(job.first)'
    BY <1>1, <2>4, <2>5 DEF Nobodys, Starts, Used, FatNext
  <2>7. MkdirInv(o2, p2)'
    BY <2>3, <2>6 DEF MkdirInv
  <2>8. PhaseInv(o2, p2)'
    BY <2>7 DEF PhaseInv
  <2>9. QED
    BY <1>4, <2>2, <2>8 DEF Follows
<1>7. CASE MakingEnds(own, pos, o2, p2, e)
  <2>1. /\ Ahead' = <<>> /\ loc \in Places
        /\ \A m \in Places : Slot(m)' = IF m = loc THEN e ELSE Slot(m)
    BY <1>1, <1>7 DEF MakingEnds
  <2>2. IntactInv'
    BY <1>1, <1>2, <1>3, <1>4, <1>5, <2>1, IntactEntry
  <2>3. MkdirInv(o2, p2)'
    BY <2>1 DEF MkdirInv
  <2>4. PhaseInv(o2, p2)'
    BY <2>3 DEF PhaseInv
  <2>5. QED
    BY <1>4, <2>2, <2>4 DEF Follows
<1>8. QED
  BY <1>4, <1>6, <1>7

\* A chain that is being given back.
LEMMA ChainFrees ==
  ASSUME TypeOK, NEW own, NEW pos, Base(own, pos), IntactInv, Takes, job' = job,
         cwd' = cwd, NEW tail \in Seq(WriteType), NEW lose, NEW keep,
         Freeing(own, tail, lose, keep), Ahead # tail,
         lose \/ Losing => Losing'
  PROVE  \E o2, p2 : /\ Base(o2, p2)' /\ IntactInv' /\ KeepsMark(own, o2)
                     /\ Freeing(o2, tail, lose, keep)'
<1>1. PICK s : Doomed(own, s, {}, job.loc, lose, keep) /\ Ahead = FreeAll(s) \o tail
  BY DEF Freeing
<1>2. s # <<>>
  <2>1. ASSUME s = <<>> PROVE FALSE
    <3>1. FreeAll(s) = <<>>
      BY <2>1 DEF FreeAll
    <3>2. Ahead = tail
      BY <1>1, <3>1
    <3>3. QED
      BY <3>2
  <2>2. QED
    BY <2>1
<1>3. PICK o2, p2 :
        /\ Base(o2, p2)' /\ Fewer /\ KeepsMark(own, o2)
        /\ \A x \in Clusters : x # s[1] =>
             /\ o2[x] = own[x] /\ p2[x] = pos[x] /\ FatNext(x)' = FatNext(x)
        /\ Elsewhere(s[1]) /\ s[1] \in Clusters /\ s[1] # keep
        /\ own[s[1]] \notin {Root, cwd}
        /\ \A l \in Named : Slot(l).first = own[s[1]] => l = job.loc
        /\ \A l \in Named : Slot(l).first = s[1] => lose
        /\ Freeing(o2, tail, lose, keep)'
  <2>1. GivesBack(own, pos, tail, s[1], lose, keep)
    BY <1>1, <1>2, FreeingStep
  <2>2. QED
    BY <2>1 DEF GivesBack
<1>4. IntactInv'
  BY <1>3, IntactFree
<1>5. QED
  BY <1>3, <1>4

\* There was no room: the cluster is given back.
LEMMA MkdirFrees ==
  ASSUME TypeOK, NEW own, NEW pos, Base(own, pos), IntactInv, Takes, job' = job,
         cwd' = cwd, job.call = "mkdir", job.at = "return", Freeing(own, <<>>, FALSE, 0)
  PROVE  \E o2, p2 : Follows(own, o2, p2)
<1>1. PICK tail, lose, keep : tail = <<>> /\ lose = FALSE /\ keep = 0
  OBVIOUS
<1>2. tail \in Seq(WriteType)
  BY <1>1, EmptySeq
<1>3. Freeing(own, tail, lose, keep) /\ Ahead # tail
  BY <1>1 DEF Takes
<1>4. lose \/ Losing => Losing'
  BY <1>1 DEF Losing
<1>5. PICK o2, p2 : /\ Base(o2, p2)' /\ IntactInv' /\ KeepsMark(own, o2)
                    /\ Freeing(o2, tail, lose, keep)'
  BY <1>2, <1>3, <1>4, ChainFrees
<1>6. Freeing(o2, <<>>, FALSE, 0)'
  BY <1>1, <1>5
<1>7. MkdirInv(o2, p2)'
  BY <1>6 DEF MkdirInv
<1>8. PhaseInv(o2, p2)'
  BY <1>7 DEF PhaseInv
<1>9. QED
  BY <1>5, <1>8 DEF Follows

\* What is removed is freed, then its entry goes.
LEMMA DeleteFrees ==
  ASSUME TypeOK, NEW own, NEW pos, Base(own, pos), IntactInv, Takes, job' = job,
         cwd' = cwd, job.call \in {"rmdir", "remove"}, job.at = "return",
         job.loc \in Places, Freeing(own, SetSlot(job.loc, Deleted), TRUE, 0)
  PROVE  \E o2, p2 : Follows(own, o2, p2)
<1>1. PICK loc, e, tail, lose, keep :
        /\ loc = job.loc /\ e = Deleted /\ tail = SetSlot(job.loc, Deleted)
        /\ lose = TRUE /\ keep = 0
  OBVIOUS
<1>2. tail \in Seq(WriteType) /\ tail # <<>>
  <2>1. <<"slot", loc, e>> \in WriteType
    BY <1>1, EndMarkType DEF WriteType
  <2>2. QED
    BY <1>1, <2>1 DEF SetSlot
<1>3. Losing
  BY DEF Losing, Takes
<1>4. CASE Ahead = tail
  <2>1. /\ Ahead' = <<>> /\ SameTable /\ loc \in Places /\ e \in EntryType
        /\ \A m \in Places : Slot(m)' = IF m = loc THEN e ELSE Slot(m)
    BY <1>1, <1>4, SlotStep
  <2>2. loc \notin Named'
    BY <1>1, <2>1 DEF Named, Deleted, EndMark
  <2>3. Base(own, pos)' /\ KeepsUsed
    BY <2>1, <2>2, BaseEntry
  <2>4. IntactInv'
    BY <1>1, <2>1, <2>2, <2>3, IntactEntry
  <2>5. DeleteInv(own)'
    BY <2>1 DEF DeleteInv
  <2>6. PhaseInv(own, pos)'
    BY <2>5 DEF PhaseInv
  <2>7. KeepsMark(own, own)
    BY DEF KeepsMark
  <2>8. QED
    BY <2>3, <2>4, <2>6, <2>7 DEF Follows
<1>5. CASE Ahead # tail
  <2>1. Freeing(own, tail, lose, keep)
    BY <1>1
  <2>2. Ahead' # <<>>
    <3>1. PICK s : Doomed(own, s, {}, job.loc, lose, keep) /\ Ahead = FreeAll(s) \o tail
      BY <2>1 DEF Freeing
    <3>2. s \in Seq(Clusters)
      BY <3>1 DEF Doomed
    <3>3. s # <<>>
      <4>1. ASSUME s = <<>> PROVE FALSE
        <5>1. FreeAll(s) = <<>>
          BY <4>1 DEF FreeAll
        <5>2. Ahead = tail
          BY <1>2, <3>1, <5>1, ConcatEmptySeq
        <5>3. QED
          BY <1>5, <5>2
      <4>2. QED
        BY <4>1
    <3>4. /\ Tail(s) \in Seq(Clusters)
          /\ FreeAll(Tail(s)) \o tail \in Seq(WriteType)
          /\ Ahead = << <<"fat", 1, s[1], 0>> >> \o (FreeAll(Tail(s)) \o tail)
      BY <1>2, <3>1, <3>2, <3>3, FreeAllHead
    <3>5. Ahead' = FreeAll(Tail(s)) \o tail
      BY <3>4, HeadTail DEF Takes
    <3>6. QED
      BY <1>2, <3>4, <3>5, FreeAllType, ConcatEqualIffEmpty
  <2>3. Losing'
    BY <2>2 DEF Losing
  <2>4. PICK o2, p2 : /\ Base(o2, p2)' /\ IntactInv' /\ KeepsMark(own, o2)
                      /\ Freeing(o2, tail, lose, keep)'
    BY <1>2, <1>5, <2>1, <2>3, ChainFrees
  <2>5. Freeing(o2, SetSlot(job.loc, Deleted), TRUE, 0)'
    BY <1>1, <2>4 DEF SetSlot
  <2>6. DeleteInv(o2)'
    BY <2>5 DEF DeleteInv
  <2>7. PhaseInv(o2, p2)'
    BY <2>6 DEF PhaseInv
  <2>8. QED
    BY <2>4, <2>7 DEF Follows
<1>6. QED
  BY <1>4, <1>5

\* Every sector write of a call in progress.
LEMMA CallWrites ==
  ASSUME Inv, NEW own, NEW pos, Base(own, pos), IntactInv, PhaseInv(own, pos),
         Takes, job' = job, cwd' = cwd, job.call # "off"
  PROVE  \E o2, p2 : Follows(own, o2, p2)
<1>1. TypeOK /\ Ahead # <<>>
  BY DEF Inv, Takes
<1>2. job.call \in {"idle", "write", "touch", "mkdir", "rmdir", "remove"}
  BY <1>1 DEF TypeOK, JobType
<1>3. job.call # "idle"
  BY <1>1 DEF PhaseInv
<1>4. CASE job.call \in {"write", "touch"}
  <2>1. WriteInv(own, pos)
    BY <1>4 DEF PhaseInv
  <2>2. CASE job.at = "body"
    BY <1>1, <1>4, <2>1, <2>2, WriteMakes, WriteStores DEF WriteInv
  <2>3. CASE job.at = "entry"
    BY <1>1, <1>4, <2>1, <2>3, WriteFrees, WriteCuts DEF WriteInv
  <2>4. CASE job.at = "return"
    BY <1>1, <1>4, <2>1, <2>4, WriteEnds DEF WriteInv
  <2>5. QED
    BY <2>1, <2>2, <2>3, <2>4 DEF WriteInv
<1>5. CASE job.call = "mkdir"
  <2>1. MkdirInv(own, pos)
    BY <1>5 DEF PhaseInv
  <2>2. CASE job.at = "slot"
    BY <1>1, <1>5, <2>1, <2>2, MkdirSeeds DEF MkdirInv
  <2>3. CASE job.at = "return"
    BY <1>1, <1>5, <2>1, <2>3, MkdirMakes, MkdirFrees DEF MkdirInv
  <2>4. QED
    BY <2>1, <2>2, <2>3 DEF MkdirInv
<1>6. CASE job.call \in {"rmdir", "remove"}
  <2>1. DeleteInv(own)
    BY <1>6 DEF PhaseInv
  <2>2. QED
    BY <1>1, <1>6, <2>1, DeleteFrees DEF DeleteInv
<1>7. QED
  BY <1>2, <1>3, <1>4, <1>5, <1>6

-----------------------------------------------------------------------------
(***************************************************************************)
(* Where the writes land                                                   *)
(***************************************************************************)
\* A directory's entry names its cluster, unless it is one of the two a directory has
\* of itself and its parent, or what a stale cluster shows.
StaleName == <<"?", "">>
Leads(e) ==
  e.state = "used" /\ e.dir /\ ~IsDot(e) /\ e.name # StaleName => e.first # 0

\* A cluster of no file or directory but the call's.
Aside(own, c) ==
  own[c] # Root /\ \A l \in Named : Slot(l).first = own[c] => l = job.loc
Extends(w) == w[1] = "fat" /\ w[3] \in ToSet(Chain(cwd)) /\ w[4] \in Clusters
Lands(own, w) ==
  /\ w[1] = "slot" => w[2] = job.loc /\ Leads(w[3])
  /\ w[1] = "seed" => \A i \in 1 .. Slots : Leads(w[3][i])
  /\ w[1] # "slot" => (Extends(w) /\ Ends(w[3])) \/ Aside(own, Hit(w))

\* The write under way may have changed the chain by now.
TornLands(own) ==
  todo # <<>> /\ IsCopy(Head(todo)) /\ Head(todo)[4] # 0
    => Extends(Head(todo)) \/ Aside(own, Head(todo)[3])

LEMMA TwoWrites ==
  ASSUME NEW a, NEW b
  PROVE  /\ <<a>> \in Seq({a, b}) /\ <<b>> \in Seq({a, b}) /\ <<a>> \o <<b>> \in Seq({a, b})
         /\ Head(<<a>> \o <<b>>) = a /\ <<a>> \o <<b>> # <<>>
<1>1. <<a>> \in Seq({a, b}) /\ <<b>> \in Seq({a, b})
  OBVIOUS
<1>2. QED
  BY <1>1, ConcatProperties, HeadTail

\* The next write of a call that allocates c.
LEMMA GrowsHead ==
  ASSUME NEW c, NEW S, NEW rest \in Seq(S), Grows(c, rest)
  PROVE  \/ Ends(c) /\ Ahead = rest
         \/ Head(Ahead) = <<"fat", 1, c, EOC>>
         \/ Head(Ahead) = <<"zero", c>>
<1>1. CASE Ahead = Allocate(c) \o rest
  <2> DEFINE a == <<"fat", 1, c, EOC>>
             z == <<"zero", c>>
             W == S \cup {a, z}
  <2>1. rest \in Seq(W) /\ <<a>> \in Seq(W) /\ <<z>> \in Seq(W)
    OBVIOUS
  <2> HIDE DEF W, a, z
  <2>2. (<<a>> \o <<z>>) \o rest = <<a>> \o (<<z>> \o rest) /\ <<z>> \o rest \in Seq(W)
    BY <2>1, ConcatAssociative, ConcatProperties
  <2>3. Head(<<a>> \o (<<z>> \o rest)) = a
    BY <2>2, HeadTail
  <2>4. Ahead = (<<a>> \o <<z>>) \o rest
    BY <1>1 DEF Allocate, SetFat, a, z
  <2>5. QED
    BY <2>2, <2>3, <2>4 DEF a
<1>2. CASE Ahead = << <<"zero", c>> >> \o rest
  BY <1>2, HeadTail
<1>3. QED
  BY <1>1, <1>2 DEF Grows

\* A cluster nobody has is aside.
LEMMA NobodysLands ==
  ASSUME NEW own, NEW pos, NEW c, Nobodys(own, pos, c),
         \/ Head(Ahead) = <<"fat", 1, c, EOC>> \/ Head(Ahead) = <<"zero", c>>
         \/ \E s : Head(Ahead) = <<"seed", c, s>> /\ \A i \in 1 .. Slots : Leads(s[i])
  PROVE  Lands(own, Head(Ahead))
<1>1. Aside(own, c)
  BY DEF Nobodys, Starts, Aside
<1>2. Hit(Head(Ahead)) = c /\ Head(Ahead)[1] # "slot"
  BY DEF Hit
<1>3. Head(Ahead)[1] = "seed" => \A i \in 1 .. Slots : Leads(Head(Ahead)[3][i])
  OBVIOUS
<1>4. QED
  BY <1>1, <1>2, <1>3 DEF Lands

\* So is the chain of the file that is written.
LEMMA TargetLands ==
  ASSUME TypeOK, NEW own, NEW pos, Base(own, pos), OldEntry(own), FirstInv(own, pos),
         job.first # 0, NEW p, own[p] = job.first,
         \/ \E v : Head(Ahead) = <<"fat", 1, p, v>> \/ \E d : Head(Ahead) = <<"data", p, d>>
  PROVE  Lands(own, Head(Ahead))
<1>1. Aside(own, p)
  BY TargetFacts DEF Aside
<1>2. Hit(Head(Ahead)) = p /\ Head(Ahead)[1] \notin {"slot", "seed"}
  BY DEF Hit
<1>3. QED
  BY <1>1, <1>2 DEF Lands

LEMMA SlotLands ==
  ASSUME NEW own, NEW e, Ahead = SetSlot(job.loc, e), Leads(e)
  PROVE  Lands(own, Head(Ahead))
<1>1. Head(Ahead) = <<"slot", job.loc, e>>
  BY OneWrite DEF SetSlot
<1>2. QED
  BY <1>1 DEF Lands

\* The entries that a new directory starts with.
LEMMA SeedLeads ==
  ASSUME NEW c, NEW i \in 1 .. Slots PROVE Leads(Seed(c)[i])
<1>1. Slots \in Nat \ {0, 1}
  BY Fat32Assumption
<1>2. PICK a, b, up : a = <<".", "">> /\ b = <<"..", "">> /\ up = IF cwd = Root THEN 0 ELSE cwd
  OBVIOUS
<1>3. Seed(c) = [EmptyDir EXCEPT ![1] = Entry(a, TRUE, c, 0), ![2] = Entry(b, TRUE, up, 0)]
  BY <1>2, Zenon DEF Seed
<1>4. Seed(c)[i] = IF i = 2 THEN Entry(b, TRUE, up, 0)
                   ELSE IF i = 1 THEN Entry(a, TRUE, c, 0) ELSE EndMark
  BY <1>1, <1>3 DEF EmptyDir
<1>5. Seed(c)[i].state = "used" => Seed(c)[i].name \in {a, b}
  BY <1>4 DEF Entry, EndMark
<1>6. Seed(c)[i].state = "used" => IsDot(Seed(c)[i])
  BY <1>2, <1>5, Zenon DEF IsDot
<1>7. QED
  BY <1>6 DEF Leads

\* Where the writes of each phase land.
LEMMA MakingLands ==
  ASSUME NEW own, NEW pos, NEW e, Making(own, pos, e), Leads(e)
  PROVE  Lands(own, Head(Ahead))
<1>1. CASE Ahead = SetSlot(job.loc, e)
  BY <1>1, SlotLands
<1>2. ASSUME NEW c \in Clusters, NEW p \in Clusters, Nobodys(own, pos, c), Ends(p),
             p \in ToSet(Chain(cwd)), Grows(c, SetFat(p, c) \o SetSlot(job.loc, e))
      PROVE  Lands(own, Head(Ahead))
  <2>1. PICK a, b, rest : /\ a = <<"fat", 1, p, c>> /\ b = <<"slot", job.loc, e>>
                          /\ rest = SetFat(p, c) \o SetSlot(job.loc, e)
    OBVIOUS
  <2>2. rest = <<a>> \o <<b>>
    BY <2>1 DEF SetFat, SetSlot
  <2>3. rest \in Seq({a, b}) /\ Head(rest) = a
    BY <2>2, TwoWrites
  <2>4. \/ Ahead = rest
        \/ Head(Ahead) = <<"fat", 1, c, EOC>> \/ Head(Ahead) = <<"zero", c>>
    BY <1>2, <2>1, <2>3, GrowsHead
  <2>5. CASE Ahead = rest
    <3>1. Head(Ahead) = a
      BY <2>3, <2>5
    <3>2. a[1] = "fat" /\ a[3] = p /\ a[4] = c
      BY <2>1
    <3>3. Extends(a) /\ Ends(a[3]) /\ a[1] \notin {"slot", "seed"}
      BY <1>2, <3>2 DEF Extends
    <3>4. QED
      BY <3>1, <3>3 DEF Lands
  <2>6. QED
    BY <1>2, <2>4, <2>5, NobodysLands
<1>3. QED
  BY <1>1, <1>2 DEF Making

LEMMA FreeingLands ==
  ASSUME NEW own, NEW tail \in Seq(WriteType), NEW lose, NEW keep,
         Freeing(own, tail, lose, keep), Ahead # tail
  PROVE  Lands(own, Head(Ahead))
<1>1. PICK s : Doomed(own, s, {}, job.loc, lose, keep) /\ Ahead = FreeAll(s) \o tail
  BY DEF Freeing
<1>2. s # <<>>
  <2>1. ASSUME s = <<>> PROVE FALSE
    <3>1. FreeAll(s) = <<>>
      BY <2>1 DEF FreeAll
    <3>2. Ahead = tail
      BY <1>1, <3>1, ConcatEmptySeq
    <3>3. QED
      BY <3>2
  <2>2. QED
    BY <2>1
<1>3. s \in Seq(Clusters) /\ 1 \in 1 .. Len(s)
  <2>1. s \in Seq(Clusters)
    BY <1>1 DEF Doomed
  <2>2. QED
    BY <1>2, <2>1
<1>4. Head(Ahead) = <<"fat", 1, s[1], 0>>
  <2>1. /\ FreeAll(Tail(s)) \o tail \in Seq(WriteType)
        /\ Ahead = << <<"fat", 1, s[1], 0>> >> \o (FreeAll(Tail(s)) \o tail)
    BY <1>1, <1>2, <1>3, FreeAllHead
  <2>2. QED
    BY <2>1, HeadTail
<1>5. Aside(own, s[1])
  BY <1>1, <1>3 DEF Doomed, Aside
<1>6. Hit(Head(Ahead)) = s[1] /\ Head(Ahead)[1] \notin {"slot", "seed"}
  BY <1>4 DEF Hit
<1>7. QED
  BY <1>5, <1>6 DEF Lands

LEMMA StoringLands ==
  ASSUME TypeOK, NEW own, NEW pos, Base(own, pos), OldEntry(own), Storing(own, pos)
  PROVE  Lands(own, Head(Ahead))
<1>1. PICK c, d : c = job.prev /\ d = <<job.size, job.used>>
  OBVIOUS
<1>2. PICK w : w = <<"data", c, d>>
  OBVIOUS
<1>3. Store = <<w>> /\ <<w>> \in Seq({w}) /\ Head(<<w>>) = w
  BY <1>1, <1>2 DEF Store
<1>4. c \in Clusters /\ c # 0
  BY <1>1, ClustersAre DEF Storing
<1>5. CASE Ahead = Store /\ BodyInv(own, pos)
  <2>1. FirstInv(own, pos) /\ job.first # 0 /\ own[c] = job.first
    BY <1>1, <1>4, <1>5 DEF BodyInv
  <2>2. Head(Ahead) = <<"data", c, d>>
    BY <1>2, <1>3, <1>5
  <2>3. QED
    BY <2>1, <2>2, TargetLands
<1>6. CASE /\ job.first = job.prev /\ Slot(job.loc).first = 0
           /\ Nobodys(own, pos, job.prev) /\ Grows(job.prev, Store)
  <2>1. \/ Ends(c) /\ Ahead = <<w>>
        \/ Head(Ahead) = <<"fat", 1, c, EOC>> \/ Head(Ahead) = <<"zero", c>>
    BY <1>1, <1>3, <1>6, GrowsHead
  <2>2. CASE Ends(c) /\ Ahead = <<w>>
    <3>1. FirstInv(own, pos)
      BY <1>1, <1>6, <2>2 DEF FirstInv, Ends, Used
    <3>2. own[c] = job.first /\ job.first # 0
      BY <1>1, <1>4, <1>6 DEF Nobodys, Starts
    <3>3. Head(Ahead) = <<"data", c, d>>
      BY <1>2, <1>3, <2>2
    <3>4. QED
      BY <3>1, <3>2, <3>3, TargetLands
  <2>3. QED
    BY <1>1, <1>6, <2>1, <2>2, NobodysLands
<1>7. ASSUME NEW p \in Clusters, job.first # 0, FirstInv(own, pos), own[p] = job.first,
             Nobodys(own, pos, job.prev), Grows(job.prev, SetFat(p, job.prev) \o Store)
      PROVE  Lands(own, Head(Ahead))
  <2>1. PICK a : a = <<"fat", 1, p, c>>
    OBVIOUS
  <2>2. PICK rest : rest = <<a>> \o <<w>>
    OBVIOUS
  <2>3. rest \in Seq({a, w}) /\ Head(rest) = a
    BY <2>2, TwoWrites
  <2>4. Grows(c, rest)
    BY <1>1, <1>3, <1>7, <2>1, <2>2 DEF SetFat
  <2>5. \/ Ahead = rest
        \/ Head(Ahead) = <<"fat", 1, c, EOC>> \/ Head(Ahead) = <<"zero", c>>
    BY <2>3, <2>4, GrowsHead
  <2>6. CASE Ahead = rest
    BY <1>7, <2>1, <2>3, <2>6, TargetLands
  <2>7. QED
    BY <1>1, <1>7, <2>5, <2>6, NobodysLands
<1>8. QED
  BY <1>5, <1>6, <1>7 DEF Storing

\* Every write of a call in progress lands on what is its own.
LEMMA PhaseLands ==
  ASSUME TypeOK, NEW own, NEW pos, Base(own, pos), PhaseInv(own, pos),
         job.call # "off", Ahead # <<>>
  PROVE  Lands(own, Head(Ahead))
<1>0. <<>> \in Seq(WriteType)
  BY EmptySeq
<1>1. job.call \in {"write", "touch", "mkdir", "rmdir", "remove"}
  BY DEF TypeOK, JobType, PhaseInv
<1>2. CASE job.call \in {"write", "touch"}
  <2>1. WriteInv(own, pos)
    BY <1>2 DEF PhaseInv
  <2>2. CASE job.at = "body"
    <3>1. PICK e : e = NewEntry
      OBVIOUS
    <3>2. Leads(e)
      BY <3>1 DEF NewEntry, Entry, Leads
    <3>3. Making(own, pos, NewEntry) => Making(own, pos, e)
      BY <3>1
    <3>4. QED
      BY <2>1, <2>2, <3>2, <3>3, MakingLands, StoringLands DEF WriteInv
  <2>3. CASE job.at = "entry"
    <3>1. CASE Freeing(own, <<>>, job.first = 0, job.first)
      <4>1. PICK tail, lose, keep : tail = <<>> /\ lose = (job.first = 0) /\ keep = job.first
        OBVIOUS
      <4>2. tail \in Seq(WriteType) /\ Freeing(own, tail, lose, keep) /\ Ahead # tail
        BY <1>0, <3>1, <4>1
      <4>3. QED
        BY <4>2, FreeingLands
    <3>2. CASE Cutting(own)
      <4>1. PICK p : p = job.prev
        OBVIOUS
      <4>2. PICK s : s \in Seq(Clusters) /\ Ahead = SetFat(p, EOC) \o FreeAll(s)
        BY <3>2, <4>1 DEF Cutting, Doomed
      <4>3. Head(Ahead) = <<"fat", 1, p, EOC>>
        BY <4>2, FreeAllType, HeadTail DEF SetFat
      <4>4. own[p] = job.first /\ p \in Clusters
        BY <3>2, <4>1 DEF Cutting
      <4>5. job.first # 0
        BY <4>4, ClustersAre DEF Base, Labels
      <4>6. QED
        BY <2>1, <2>3, <4>3, <4>4, <4>5, TargetLands DEF WriteInv
    <3>3. QED
      BY <2>1, <2>3, <3>1, <3>2 DEF WriteInv
  <2>4. CASE job.at = "return"
    <3>1. Ahead = SetSlot(job.loc, Finished)
      BY <2>1, <2>4 DEF WriteInv
    <3>2. PICK e : e = Finished
      OBVIOUS
    <3>3. Leads(e)
      <4>1. Slot(job.loc) \in EntryType /\ ~Slot(job.loc).dir
        BY <2>1, <2>4, SlotType DEF WriteInv, OldEntry
      <4>2. ~e.dir
        BY <3>2, <4>1 DEF Finished, EntryType
      <4>3. QED
        BY <4>2 DEF Leads
    <3>4. QED
      BY <3>1, <3>2, <3>3, SlotLands
  <2>5. QED
    BY <2>1, <2>2, <2>3, <2>4 DEF WriteInv
<1>3. CASE job.call = "mkdir"
  <2>1. MkdirInv(own, pos)
    BY <1>3 DEF PhaseInv
  <2>2. CASE job.at = "slot"
    <3>1. PICK c, d, w : c = job.first /\ d = Seed(job.first) /\ w = <<"seed", c, d>>
      OBVIOUS
    <3>2. Nobodys(own, pos, c) /\ Grows(c, <<w>>)
      BY <2>1, <2>2, <3>1 DEF MkdirInv
    <3>3. <<w>> \in Seq({w}) /\ Head(<<w>>) = w
      OBVIOUS
    <3>4. \/ Head(Ahead) = <<"seed", c, d>>
          \/ Head(Ahead) = <<"fat", 1, c, EOC>> \/ Head(Ahead) = <<"zero", c>>
      BY <3>1, <3>2, <3>3, GrowsHead
    <3>5. \A i \in 1 .. Slots : Leads(d[i])
      BY <3>1, SeedLeads
    <3>6. QED
      BY <3>2, <3>4, <3>5, NobodysLands
  <2>3. CASE job.at = "return"
    <3>1. CASE Freeing(own, <<>>, FALSE, 0)
      <4>1. PICK tail, lose, keep : tail = <<>> /\ lose = FALSE /\ keep = 0
        OBVIOUS
      <4>2. tail \in Seq(WriteType) /\ Freeing(own, tail, lose, keep) /\ Ahead # tail
        BY <1>0, <3>1, <4>1
      <4>3. QED
        BY <4>2, FreeingLands
    <3>2. CASE Making(own, pos, NewDir) /\ Nobodys(own, pos, job.first)
      <4>1. PICK e : e = NewDir
        OBVIOUS
      <4>2. Leads(e)
        BY <3>2, <4>1, ClustersAre DEF NewDir, Entry, Leads, Nobodys
      <4>3. QED
        BY <3>2, <4>1, <4>2, MakingLands
    <3>3. QED
      BY <2>1, <2>3, <3>1, <3>2 DEF MkdirInv
  <2>4. QED
    BY <2>1, <2>2, <2>3 DEF MkdirInv
<1>4. CASE job.call \in {"rmdir", "remove"}
  <2>1. job.loc \in Places /\ Freeing(own, SetSlot(job.loc, Deleted), TRUE, 0)
    BY <1>4 DEF PhaseInv, DeleteInv
  <2>2. CASE Ahead = SetSlot(job.loc, Deleted)
    <3>1. Leads(Deleted)
      BY DEF Leads, Deleted, EndMark
    <3>2. QED
      BY <2>2, <3>1, SlotLands
  <2>3. CASE Ahead # SetSlot(job.loc, Deleted)
    <3>1. PICK tail, lose, keep :
            tail = SetSlot(job.loc, Deleted) /\ lose = TRUE /\ keep = 0
      OBVIOUS
    <3>2. tail \in Seq(WriteType)
      <4>1. <<"slot", job.loc, Deleted>> \in WriteType
        BY <2>1, EndMarkType DEF WriteType
      <4>2. QED
        BY <3>1, <4>1 DEF SetSlot
    <3>3. Freeing(own, tail, lose, keep) /\ Ahead # tail
      BY <2>1, <2>3, <3>1
    <3>4. QED
      BY <3>2, <3>3, FreeingLands
  <2>4. QED
    BY <2>2, <2>3
<1>5. QED
  BY <1>1, <1>2, <1>3, <1>4

\* A chain keeps the clusters up to the one that is written to.
LEMMA ChainKeeps ==
  ASSUME NEW d, NEW x, x \in ToSet(Chain(d)),
         \A y \in Clusters : FatNext(y)' = FatNext(y) \/ Ends(y)
  PROVE  x \in ToSet(Chain(d))'
<1>0. LastCluster \in Nat
  BY Fat32Assumption
<1>1. PICK m \in 0 .. LastCluster :
        /\ Chain(d) = [k \in 1 .. m |-> Walk(d)[k]]
        /\ \A n \in 0 .. LastCluster :
             n <= m <=> \A k \in 1 .. n : Walk(d)[k] \in Clusters
  BY ChainReach
<1>2. \A k \in 1 .. m : Walk(d)[k] \in Clusters
  <2>1. m <= m
    BY <1>0
  <2>2. QED
    BY <1>1, <2>1
<1>3. PICK n \in 1 .. m : x = Walk(d)[n]
  <2>1. Len(Chain(d)) = m
    BY <1>0, <1>1
  <2>2. PICK n \in 1 .. m : x = Chain(d)[n]
    BY <2>1, ChainFacts, ToSetIs
  <2>3. QED
    BY <1>1, <2>2
<1>4. \A k \in 2 .. LastCluster : Walk(d)[k] = Follow(Walk(d)[k-1])
  BY WalkFacts
<1>5. \A k \in 2 .. LastCluster : Walk(d)'[k] = Follow(Walk(d)[k-1])'
  BY WalkFactsNext
<1>6. Walk(d)[1] = d /\ Walk(d)'[1] = d
  BY WalkFacts, WalkFactsNext
<1> DEFINE odd == {k \in 1 .. n : Walk(d)'[k] # Walk(d)[k]}
<1>7. odd = {}
  <2>1. SUFFICES ASSUME odd # {} PROVE FALSE
    OBVIOUS
  <2>2. PICK k \in odd : \A j \in odd : k <= j
    <3>1. odd \subseteq Nat
      OBVIOUS
    <3> HIDE DEF odd
    <3>2. QED
      BY <2>1, <3>1, LeastNat
  <2>3. k # 1 /\ k \in 1 .. n
    BY <1>6, <2>2
  <2>4. /\ k \in 2 .. LastCluster /\ k - 1 \in 1 .. n /\ k - 1 \in 1 .. m /\ k \in 1 .. m
        /\ ~(k <= k - 1)
    BY <1>0, <1>1, <1>3, <2>3
  <2>5. k - 1 \notin odd
    <3> HIDE DEF odd
    <3>1. QED
      BY <2>2, <2>4
  <2>6. Walk(d)'[k-1] = Walk(d)[k-1]
    BY <2>4, <2>5
  <2>7. Walk(d)[k-1] \in Clusters /\ FatNext(Walk(d)[k-1])' = fat'[1][Walk(d)[k-1]]
    BY <1>2, <2>4, <2>6 DEF FatNext
  <2>8. Walk(d)[k] = FatNext(Walk(d)[k-1]) /\ Walk(d)[k] \in Clusters
    BY <1>2, <1>4, <2>4, <2>7 DEF Follow
  <2>9. fat'[1][Walk(d)[k-1]] = fat[1][Walk(d)[k-1]]
    <3>1. PICK y : y = Walk(d)[k-1]
      OBVIOUS
    <3>2. y \in Clusters /\ ~Ends(y)
      BY <2>7, <2>8, <3>1 DEF Ends
    <3>3. FatNext(y)' = FatNext(y)
      BY <3>2
    <3>4. QED
      BY <3>1, <3>3 DEF FatNext
  <2>10. Walk(d)'[k] = fat'[1][Walk(d)[k-1]]
    BY <1>5, <2>4, <2>6, <2>7 DEF Follow, FatNext
  <2>11. QED
    BY <2>2, <2>8, <2>9, <2>10 DEF FatNext
<1>8. \A k \in 1 .. n : Walk(d)'[k] = Walk(d)[k]
  BY <1>7
<1> DEFINE later == {i \in 0 .. LastCluster : \A k \in 1 .. i : Walk(d)'[k] \in Clusters}
<1>9. n \in later
  BY <1>0, <1>1, <1>2, <1>3, <1>8
<1>10. Max(later) \in 0 .. LastCluster /\ Max(later) >= n
  <2>1. later \subseteq 0 .. LastCluster
    OBVIOUS
  <2> HIDE DEF later
  <2>2. QED
    BY <1>0, <1>9, <2>1, MaxIsIn
<1>11. Chain(d)' = [k \in 1 .. Max(later) |-> Walk(d)'[k]]
  BY DEF Chain
<1> HIDE DEF later
<1>12. PICK chain, hop, top : chain = Chain(d)' /\ hop = Walk(d)' /\ top = Max(later)
  OBVIOUS
<1>13. n \in 1 .. top /\ chain = [k \in 1 .. top |-> hop[k]]
  BY <1>0, <1>1, <1>3, <1>10, <1>11, <1>12
<1>14. x = chain[n] /\ n \in DOMAIN chain
  BY <1>3, <1>8, <1>12, <1>13
<1>15. x \in {chain[k] : k \in DOMAIN chain}
  BY <1>14
<1>16. QED
  BY <1>12, <1>15 DEF ToSet

\* While the other copies are written, the write has landed where it should.
LEMMA TornNext ==
  ASSUME TypeOK, NEW own, NEW o2, Lands(own, Head(Ahead)), Takes,
         job' = job, cwd' = cwd, KeepsMark(own, o2)
  PROVE  TornLands(o2)'
<1>1. SUFFICES ASSUME todo' # <<>>, IsCopy(Head(todo)'), Head(todo)'[4] # 0
               PROVE  Extends(Head(todo))' \/ Aside(o2, Head(todo)[3])'
  BY DEF TornLands, IsCopy
<1>2. PICK w, v, d : w = Head(Ahead) /\ v = Head(todo)' /\ d = cwd
  OBVIOUS
<1>3. /\ v[1] = "fat" /\ v[3] = w[3] /\ v[4] = w[4] /\ w[4] # 0 /\ w[1] = "fat"
      /\ Does(w)
  BY <1>1, <1>2 DEF Takes, IsCopy
<1>4. w[3] \in Clusters /\ Tables(w[3], w[4]) /\ SameSlots
  BY <1>3 DEF Does
<1>5. CASE Extends(w) /\ Ends(w[3])
  <2>1. \A y \in Clusters : FatNext(y)' = FatNext(y) \/ Ends(y)
    BY <1>4, <1>5 DEF Tables
  <2>2. w[3] \in ToSet(Chain(d)) /\ w[4] \in Clusters
    BY <1>2, <1>5 DEF Extends
  <2>3. w[3] \in ToSet(Chain(d))'
    BY <2>1, <2>2, ChainKeeps
  <2>4. ToSet(Chain(d))' = ToSet(Chain(cwd))'
    BY <1>2
  <2>5. QED
    BY <1>2, <1>3, <2>2, <2>3, <2>4 DEF Extends
<1>6. CASE Aside(own, w[3])
  <2>1. o2[w[3]] = own[w[3]]
    BY <1>2, <1>3 DEF KeepsMark
  <2>2. Fewer
    BY <1>4, SameSlotsFewer
  <2>3. Aside(o2, w[3])'
    BY <1>6, <2>1, <2>2 DEF Aside, Fewer
  <2>4. QED
    BY <1>2, <1>3, <2>3 DEF Aside
<1>7. QED
  BY <1>2, <1>3, <1>5, <1>6 DEF Lands, Hit

-----------------------------------------------------------------------------
(***************************************************************************)
(* The invariant                                                           *)
(***************************************************************************)
Sound(own, pos) ==
  /\ Base(own, pos)
  /\ job.call # "off" => IntactInv /\ PhaseInv(own, pos) /\ TornLands(own)
ChainsInv == \E own, pos : Sound(own, pos)

\* The calls read the first copy of the table and the directories only.
SameView == fat'[1] = fat[1] /\ dirs' = dirs

\* What is stated about the view holds as long as the view is the same.
LEMMA ViewFacts ==
  ASSUME SameView
  PROVE  SameTable /\ SameSlots /\ Fewer /\ Named' = Named /\ KeepsUsed
<1>1. SameTable /\ SameSlots
  BY DEF SameView, SameTable, SameSlots, FatNext, Slot
<1>2. Named' = Named
  BY DEF SameView, Named, Slot, IsDot
<1>3. QED
  BY <1>1, <1>2, SameSlotsFewer DEF SameTable, KeepsUsed, Used

LEMMA ViewChain ==
  ASSUME SameView, NEW d PROVE Chain(d)' = Chain(d)
<1>1. \A x \in ToSet(Chain(d)) : x \in Clusters
  BY ChainFacts, ToSetIs
<1>2. QED
  BY <1>1, ChainStays, ViewFacts DEF SameTable

LEMMA ViewMaking ==
  ASSUME SameView, job' = job, cwd' = cwd, Ahead' = Ahead, NEW own, NEW pos, NEW e,
         Making(own, pos, e)
  PROVE  Making(own, pos, e)'
<1>1. PICK d, loc : d = cwd /\ loc = job.loc
  OBVIOUS
<1>2. CASE Ahead = SetSlot(job.loc, e) /\ job.loc \in Places /\ own[job.loc[1]] = cwd
  BY <1>2 DEF Making, SetSlot
<1>3. ASSUME NEW c \in Clusters, NEW p \in Clusters,
             job.loc = <<c, 1>>, c # p, c # job.first, Nobodys(own, pos, c),
             Ends(p), own[p] = cwd, p \in ToSet(Chain(cwd)),
             Grows(c, SetFat(p, c) \o SetSlot(job.loc, e))
      PROVE  Making(own, pos, e)'
  <2>1. Chain(d)' = Chain(d)
    BY ViewChain
  <2>2. p \in ToSet(Chain(cwd))'
    BY <1>1, <1>3, <2>1
  <2>3. Nobodys(own, pos, c)'
    BY <1>3, NobodysFrame, ViewFacts
  <2>4. Ends(p)'
    BY <1>3, ViewFacts DEF SameTable, Ends
  <2>5. PICK rest : rest = SetFat(p, c) \o SetSlot(job.loc, e)
    OBVIOUS
  <2>6. Grows(c, rest)'
    BY <1>3, <2>5, ViewFacts DEF Grows, Ends, Used, SameTable
  <2>7. Grows(c, SetFat(p, c) \o SetSlot(job.loc, e))'
    BY <2>5, <2>6 DEF SetSlot
  <2>8. QED
    BY <1>3, <2>2, <2>3, <2>4, <2>7 DEF Making
<1>4. QED
  BY <1>2, <1>3 DEF Making

LEMMA ViewDoomed ==
  ASSUME SameView, cwd' = cwd, NEW own, NEW s, NEW before, NEW loc, NEW lose, NEW keep,
         Doomed(own, s, before, loc, lose, keep)
  PROVE  Doomed(own, s, before, loc, lose, keep)'
<1>1. \A l \in Named : Slot(l)' = Slot(l)
  BY ViewFacts DEF SameSlots, Named
<1>2. QED
  BY <1>1, ViewFacts DEF Doomed, SameTable

LEMMA ViewFreeing ==
  ASSUME SameView, job' = job, cwd' = cwd, Ahead' = Ahead, NEW own, NEW tail,
         NEW lose, NEW keep, Freeing(own, tail, lose, keep)
  PROVE  Freeing(own, tail, lose, keep)'
<1>1. PICK loc : loc = job.loc
  OBVIOUS
<1>2. PICK s : Doomed(own, s, {}, loc, lose, keep) /\ Ahead = FreeAll(s) \o tail
  BY <1>1 DEF Freeing
<1>3. Doomed(own, s, {}, loc, lose, keep)'
  BY <1>2, ViewDoomed
<1>4. Doomed(own, s, {}, job.loc, lose, keep)'
  BY <1>1, <1>3 DEF Doomed
<1>5. QED
  BY <1>2, <1>4 DEF Freeing

LEMMA ViewCutting ==
  ASSUME SameView, job' = job, cwd' = cwd, Ahead' = Ahead, NEW own, Cutting(own)
  PROVE  Cutting(own)'
<1>1. PICK loc, p, f : loc = job.loc /\ p = job.prev /\ f = job.first
  OBVIOUS
<1>2. p \in Clusters /\ Used(p) /\ own[p] = f
  BY <1>1 DEF Cutting
<1>3. PICK s : /\ Doomed(own, s, {p}, loc, FALSE, f)
               /\ Ahead = SetFat(p, EOC) \o FreeAll(s)
  BY <1>1 DEF Cutting
<1>4. Doomed(own, s, {p}, loc, FALSE, f)'
  BY <1>3, ViewDoomed
<1>5. Doomed(own, s, {job.prev}, job.loc, FALSE, job.first)'
  BY <1>1, <1>4 DEF Doomed
<1>6. Used(job.prev)'
  BY <1>1, <1>2 DEF SameView, Used, FatNext
<1>7. Ahead' = SetFat(job.prev', EOC) \o FreeAll(s)
  BY <1>1, <1>3
<1>8. QED
  BY <1>1, <1>2, <1>5, <1>6, <1>7 DEF Cutting, SetFat

LEMMA ViewOld ==
  ASSUME SameView, job' = job, cwd' = cwd, NEW own, OldEntry(own)
  PROVE  OldEntry(own)' /\ Slot(job.loc)' = Slot(job.loc)
BY DEF SameView, OldEntry, Slot, IsDot

LEMMA ViewFirst ==
  ASSUME TypeOK, SameView, job' = job, cwd' = cwd, NEW own, NEW pos, FirstInv(own, pos)
  PROVE  FirstInv(own, pos)'
<1>1. Slot(job.loc)' = Slot(job.loc)
  BY DEF SameView, Slot
<1>2. QED
  BY <1>1, FirstFrame, ViewFacts DEF KeepsUsed

LEMMA ViewBody ==
  ASSUME TypeOK, SameView, job' = job, cwd' = cwd, NEW own, NEW pos, BodyInv(own, pos)
  PROVE  BodyInv(own, pos)'
<1>1. Slot(job.loc)' = Slot(job.loc) /\ FatNext(job.prev)' = FatNext(job.prev)
  BY DEF SameView, Slot, FatNext
<1>2. FirstInv(own, pos)'
  BY ViewFirst DEF BodyInv
<1>3. QED
  BY <1>1, <1>2 DEF BodyInv, Ends

LEMMA ViewStoring ==
  ASSUME TypeOK, SameView, job' = job, cwd' = cwd, Ahead' = Ahead, NEW own, NEW pos,
         Storing(own, pos)
  PROVE  Storing(own, pos)'
<1>1. PICK c, store : c = job.prev /\ store = Store
  OBVIOUS
<1>2. Slot(job.loc)' = Slot(job.loc) /\ Store' = store /\ c \in Clusters
  BY <1>1 DEF SameView, Slot, Store, Storing
<1>3. Nobodys(own, pos, c) => Nobodys(own, pos, job.prev)'
  <2>1. Nobodys(own, pos, c) => Nobodys(own, pos, c)'
    BY NobodysFrame, ViewFacts
  <2>2. QED
    BY <1>1, <2>1 DEF Nobodys, Starts
<1>4. CASE Ahead = Store /\ BodyInv(own, pos)
  BY <1>1, <1>2, <1>4, ViewBody DEF Storing
<1>5. CASE /\ job.first = job.prev /\ Slot(job.loc).first = 0
           /\ Nobodys(own, pos, job.prev) /\ job.cluster = EOC /\ Grows(job.prev, Store)
  <2>1. Grows(c, store)'
    BY <1>1, <1>5 DEF SameView, Grows, Ends, Used, FatNext
  <2>2. Grows(job.prev, Store)'
    BY <1>1, <1>2, <2>1 DEF Grows, Ends, Used, FatNext
  <2>3. QED
    BY <1>1, <1>2, <1>3, <1>5, <2>2 DEF Storing
<1>6. ASSUME NEW p \in Clusters,
             p # job.prev, job.first # job.prev, job.first # 0, FirstInv(own, pos),
             Ends(p), own[p] = job.first, Nobodys(own, pos, job.prev),
             Slot(job.loc).first # 0 => job.first # 0,
             job.cluster = EOC, Grows(job.prev, SetFat(p, job.prev) \o Store)
      PROVE  Storing(own, pos)'
  <2>1. PICK rest : rest = SetFat(p, c) \o store
    OBVIOUS
  <2>2. Grows(c, rest)'
    BY <1>1, <1>6, <2>1 DEF SameView, Grows, Ends, Used, FatNext
  <2>3. Grows(job.prev, SetFat(p, job.prev) \o Store)'
    BY <1>1, <1>2, <2>1, <2>2 DEF Grows, Ends, Used, FatNext, SetFat
  <2>4. Ends(p)' /\ FirstInv(own, pos)'
    BY <1>6, ViewFirst DEF SameView, Ends, FatNext
  <2>5. QED
    BY <1>1, <1>2, <1>3, <1>6, <2>3, <2>4 DEF Storing
<1>7. QED
  BY <1>4, <1>5, <1>6 DEF Storing

LEMMA ViewPhase ==
  ASSUME TypeOK, SameView, job' = job, cwd' = cwd, Ahead' = Ahead, NEW own, NEW pos,
         PhaseInv(own, pos)
  PROVE  PhaseInv(own, pos)'
<1>1. ASSUME WriteInv(own, pos) PROVE WriteInv(own, pos)'
  <2>1. CASE job.at = "body"
    <3>1. CASE /\ Ahead # <<>> /\ job.first = 0 /\ job.prev = 0 /\ job.cluster = 0
               /\ job.name \in Names /\ Making(own, pos, NewEntry)
      <4>1. PICK e : e = NewEntry
        OBVIOUS
      <4>2. Making(own, pos, e)'
        BY <3>1, <4>1, ViewMaking
      <4>3. Making(own, pos, NewEntry)'
        BY <4>1, <4>2 DEF Making, NewEntry
      <4>4. QED
        BY <1>1, <2>1, <3>1, <4>3 DEF WriteInv
    <3>2. CASE Ahead = <<>> /\ OldEntry(own) /\ BodyInv(own, pos)
      BY <1>1, <2>1, <3>2, ViewOld, ViewBody DEF WriteInv
    <3>3. CASE Ahead # <<>> /\ OldEntry(own) /\ Storing(own, pos)
      BY <1>1, <2>1, <3>3, ViewOld, ViewStoring DEF WriteInv
    <3>4. QED
      BY <1>1, <2>1, <3>1, <3>2, <3>3 DEF WriteInv
  <2>2. CASE job.at = "entry"
    <3>1. OldEntry(own)' /\ FirstInv(own, pos)'
      BY <1>1, <2>2, ViewOld, ViewFirst DEF WriteInv
    <3>2. CASE Freeing(own, <<>>, job.first = 0, job.first)
      <4>1. PICK tail, lose, keep : tail = <<>> /\ lose = (job.first = 0) /\ keep = job.first
        OBVIOUS
      <4>2. Freeing(own, tail, lose, keep)
        BY <3>2, <4>1
      <4>3. Freeing(own, tail, lose, keep)'
        BY <4>2, ViewFreeing
      <4>4. Freeing(own, <<>>, job.first = 0, job.first)'
        BY <4>1, <4>3 DEF Freeing
      <4>5. QED
        BY <2>2, <3>1, <4>4 DEF WriteInv
    <3>3. CASE Cutting(own)
      BY <2>2, <3>1, <3>3, ViewCutting DEF WriteInv
    <3>4. QED
      BY <1>1, <2>2, <3>2, <3>3 DEF WriteInv
  <2>3. CASE job.at = "return"
    <3>1. CASE Ahead = <<>>
      BY <2>3, <3>1 DEF WriteInv
    <3>2. CASE Ahead # <<>>
      <4>1. OldEntry(own)' /\ FirstInv(own, pos)' /\ Slot(job.loc)' = Slot(job.loc)
        BY <1>1, <2>3, <3>2, ViewOld, ViewFirst DEF WriteInv
      <4>2. Ahead' = SetSlot(job.loc', Finished')
        BY <1>1, <2>3, <3>2, <4>1 DEF WriteInv, Finished
      <4>3. QED
        BY <2>3, <4>1, <4>2 DEF WriteInv, SetSlot
    <3>3. QED
      BY <3>1, <3>2
  <2>4. QED
    BY <1>1, <2>1, <2>2, <2>3 DEF WriteInv
<1>2. ASSUME MkdirInv(own, pos) PROVE MkdirInv(own, pos)'
  <2>1. PICK f : f = job.first
    OBVIOUS
  <2>2. Nobodys(own, pos, f) => Nobodys(own, pos, job.first)'
    <3>1. Nobodys(own, pos, f) => Nobodys(own, pos, f)'
      BY NobodysFrame, ViewFacts
    <3>2. QED
      BY <2>1, <3>1 DEF Nobodys, Starts
  <2>3. FatNext(job.first)' = FatNext(job.first)
    BY DEF SameView, FatNext
  <2>4. CASE job.at = "slot"
    <3>1. CASE Ahead = <<>> /\ Ends(job.first)
      BY <1>2, <2>1, <2>2, <2>3, <2>4, <3>1 DEF MkdirInv, Ends
    <3>2. CASE Grows(job.first, << <<"seed", job.first, Seed(job.first)>> >>)
      <4>1. PICK rest : rest = << <<"seed", job.first, Seed(job.first)>> >>
        OBVIOUS
      <4>2. Grows(f, rest)'
        BY <2>1, <3>2, <4>1 DEF SameView, Grows, Ends, Used, FatNext
      <4>3. << <<"seed", job.first, Seed(job.first)>> >>' = rest
        BY <4>1 DEF Seed
      <4>4. Grows(job.first, << <<"seed", job.first, Seed(job.first)>> >>)'
        BY <2>1, <4>2, <4>3 DEF Grows, Ends, Used, FatNext
      <4>5. QED
        BY <1>2, <2>1, <2>2, <2>4, <4>4 DEF MkdirInv
    <3>3. QED
      BY <1>2, <2>4, <3>1, <3>2 DEF MkdirInv
  <2>5. CASE job.at = "return"
    <3>1. CASE Ahead = <<>>
      BY <2>5, <3>1 DEF MkdirInv
    <3>2. CASE Making(own, pos, NewDir) /\ job.name \in Names
               /\ Nobodys(own, pos, job.first) /\ Used(job.first)
      <4>1. PICK e : e = NewDir
        OBVIOUS
      <4>2. Making(own, pos, e)'
        BY <3>2, <4>1, ViewMaking
      <4>3. Making(own, pos, NewDir)'
        BY <4>1, <4>2 DEF Making, NewDir
      <4>4. Used(job.first)'
        BY <2>3, <3>2 DEF Used
      <4>5. QED
        BY <2>1, <2>2, <2>5, <3>2, <4>3, <4>4 DEF MkdirInv
    <3>3. CASE Freeing(own, <<>>, FALSE, 0)
      <4>1. PICK tail, lose, keep : tail = <<>> /\ lose = FALSE /\ keep = 0
        OBVIOUS
      <4>2. Freeing(own, tail, lose, keep)'
        BY <3>3, <4>1, ViewFreeing
      <4>3. QED
        BY <2>5, <4>1, <4>2 DEF MkdirInv
    <3>4. QED
      BY <1>2, <2>5, <3>1, <3>2, <3>3 DEF MkdirInv
  <2>6. QED
    BY <1>2, <2>4, <2>5 DEF MkdirInv
<1>3. ASSUME DeleteInv(own) PROVE DeleteInv(own)'
  <2>1. CASE Ahead = <<>>
    BY <1>3, <2>1 DEF DeleteInv
  <2>2. CASE Ahead # <<>>
    <3>1. PICK tail, lose, keep :
            tail = SetSlot(job.loc, Deleted) /\ lose = TRUE /\ keep = 0
      OBVIOUS
    <3>2. Freeing(own, tail, lose, keep) /\ job.loc \in Places
      BY <1>3, <2>2, <3>1 DEF DeleteInv
    <3>3. Freeing(own, tail, lose, keep)'
      BY <3>2, ViewFreeing
    <3>4. Freeing(own, SetSlot(job.loc, Deleted), TRUE, 0)'
      BY <3>1, <3>3 DEF SetSlot
    <3>5. QED
      BY <1>3, <3>2, <3>4 DEF DeleteInv
  <2>3. QED
    BY <2>1, <2>2
<1>4. QED
  BY <1>1, <1>2, <1>3 DEF PhaseInv

\* The repeated write lands where the first one did.
LEMMA TornSame ==
  ASSUME Repeats, job' = job, cwd' = cwd, NEW own, TornLands(own)
  PROVE  TornLands(own)'
<1>1. SameView
  BY DEF Repeats, SameView
<1>2. SUFFICES ASSUME todo' # <<>>, IsCopy(Head(todo)'), Head(todo)'[4] # 0
               PROVE  Extends(Head(todo))' \/ Aside(own, Head(todo)[3])'
  BY DEF TornLands, IsCopy
<1>3. PICK w, v, d : w = Head(todo) /\ v = Head(todo)' /\ d = cwd
  OBVIOUS
<1>4. v[1] = "fat" /\ v[3] = w[3] /\ v[4] = w[4] /\ w[1] = "fat"
  BY <1>2, <1>3 DEF Repeats, IsCopy
<1>5. Extends(w) \/ Aside(own, w[3])
  BY <1>2, <1>3, <1>4 DEF TornLands, Repeats
<1>6. CASE Extends(w)
  <2>1. Chain(d)' = Chain(d)
    BY <1>1, ViewChain
  <2>2. ToSet(Chain(d))' = ToSet(Chain(cwd))' /\ ToSet(Chain(d))' = ToSet(Chain(d))
    BY <1>3, <2>1
  <2>3. QED
    BY <1>3, <1>4, <1>6, <2>2 DEF Extends
<1>7. CASE Aside(own, w[3])
  <2>1. Aside(own, w[3])'
    BY <1>1, <1>7, ViewFacts DEF Aside, Fewer
  <2>2. QED
    BY <1>3, <1>4, <2>1 DEF Aside
<1>8. QED
  BY <1>5, <1>6, <1>7

\* A sector is written.
LEMMA SectorSound ==
  ASSUME Inv, NEW own, NEW pos, Sound(own, pos), WriteSector
  PROVE  ChainsInv'
<1>1. TypeOK /\ job' = job /\ cwd' = cwd /\ Base(own, pos)
  BY DEF Inv, WriteSector, Sound
<1>2. job.call # "off" /\ IntactInv /\ PhaseInv(own, pos) /\ TornLands(own)
  BY DEF Inv, JobInv, WriteSector, Sound
<1>3. CASE Repeats
  <2>1. SameView /\ Ahead' = Ahead /\ todo # <<>>
    BY <1>3 DEF Repeats, SameView
  <2>2. Base(own, pos)'
    BY <1>1, <2>1, BaseSame, ViewFacts
  <2>3. IntactInv'
    <3>1. Losing => Losing'
      BY <1>1, <2>1 DEF Losing
    <3>2. QED
      BY <1>1, <1>2, <2>1, <3>1, IntactFrame, ViewFacts
  <2>4. PhaseInv(own, pos)'
    BY <1>1, <1>2, <2>1, ViewPhase
  <2>5. TornLands(own)'
    BY <1>1, <1>2, <1>3, TornSame
  <2>6. QED
    BY <2>2, <2>3, <2>4, <2>5 DEF ChainsInv, Sound
<1>4. CASE Takes
  <2>1. PICK o2, p2 : Follows(own, o2, p2)
    BY <1>1, <1>2, <1>4, CallWrites
  <2>2. Ahead # <<>>
    BY <1>4 DEF Takes
  <2>3. Lands(own, Head(Ahead))
    BY <1>1, <1>2, <2>2, PhaseLands
  <2>4. TornLands(o2)'
    BY <1>1, <1>4, <2>1, <2>3, TornNext DEF Follows
  <2>5. QED
    BY <2>1, <2>4 DEF ChainsInv, Sound, Follows
<1>5. QED
  BY <1>3, <1>4, SectorDoes

-----------------------------------------------------------------------------
(***************************************************************************)
(* A call begins, goes on or returns                                       *)
(***************************************************************************)
AllUsed == \A l \in Named : Used(Slot(l).first)

\* A call that sets out to write has written nothing yet.
LEMMA BeginFrame ==
  ASSUME Inv, NEW own, NEW pos, Base(own, pos), todo = <<>>, NEW j,
         NEW writes \in Seq(Fresh), Begin(j, writes)
  PROVE  /\ SameView /\ cwd' = cwd /\ job' = j /\ Ahead = <<>> /\ Ahead' = writes
         /\ Base(own, pos)' /\ TornLands(own)'
         /\ AllUsed => AllUsed'
<1>1. /\ TypeOK /\ SameView /\ cwd' = cwd /\ job' = j /\ todo' = writes
  BY DEF Inv, Begin, SameView
<1>2. writes # <<>> => ~IsCopy(Head(writes))
  BY FreshAreWrites DEF Fresh, IsCopy
<1>3. Ahead = <<>> /\ Ahead' = writes
  BY <1>1, <1>2 DEF Ahead, IsCopy
<1>4. TornLands(own)'
  BY <1>1, <1>2 DEF TornLands, IsCopy
<1>5. Base(own, pos)'
  BY <1>1, BaseSame, ViewFacts
<1>6. AllUsed => AllUsed'
  <2>1. \A l \in Named' : Slot(l)' = Slot(l) /\ l \in Named
    BY <1>1, ViewFacts DEF Fewer
  <2>2. \A c : Used(c)' = Used(c)
    BY <1>1 DEF SameView, Used, FatNext
  <2>3. ASSUME AllUsed, NEW l \in Named' PROVE Used(Slot(l).first)'
    <3>1. PICK c : c = Slot(l).first
      OBVIOUS
    <3>2. Used(c)' /\ Slot(l)'.first = c
      BY <2>1, <2>2, <2>3, <3>1 DEF AllUsed
    <3>3. QED
      BY <3>2 DEF Used, FatNext
  <2>4. QED
    BY <2>3 DEF AllUsed
<1>7. QED
  BY <1>1, <1>3, <1>4, <1>5, <1>6

\* Between the writes of a call its entries are whole, but for one about to be
\* told of its new chain.
LEMMA AllAreUsed ==
  ASSUME IntactInv, Ahead = <<>>, job.at # "entry" PROVE AllUsed
BY DEF IntactInv, Losing, AllUsed

\* The call returns.
LEMMA ReturnSound ==
  ASSUME Inv, NEW own, NEW pos, Base(own, pos), AllUsed, todo = <<>>, NEW r, Return(r)
  PROVE  ChainsInv'
<1>1. <<>> \in Seq(Fresh)
  BY EmptySeq
<1>2. SameView /\ cwd' = cwd /\ todo' = <<>> /\ job' = NoJob /\ TypeOK
  BY DEF Return, SameView, Inv
<1>3. Base(own, pos)'
  BY <1>2, BaseSame, ViewFacts
<1>4. AllUsed'
  <2>1. \A l \in Named' : Slot(l)' = Slot(l) /\ l \in Named
    BY <1>2, ViewFacts DEF Fewer
  <2>2. \A c : Used(c)' = Used(c)
    BY <1>2 DEF SameView, Used, FatNext
  <2>3. QED
    BY <2>1, <2>2 DEF AllUsed, Used, FatNext
<1>5. IntactInv'
  BY <1>4 DEF AllUsed, IntactInv
<1>6. PhaseInv(own, pos)' /\ TornLands(own)'
  BY <1>2 DEF PhaseInv, NoJob, Ahead, TornLands
<1>7. QED
  BY <1>3, <1>5, <1>6 DEF ChainsInv, Sound

\* The chain from what is no cluster is empty.
LEMMA ChainOfNone ==
  ASSUME NEW c, c \notin Clusters PROVE Chain(c) = <<>>
<1>1. PICK m \in 0 .. LastCluster :
        /\ Chain(c) = [k \in 1 .. m |-> Walk(c)[k]]
        /\ \A n \in 0 .. LastCluster :
             n <= m <=> \A k \in 1 .. n : Walk(c)[k] \in Clusters
  BY ChainReach
<1>2. LastCluster \in Nat /\ LastCluster >= 2
  BY Fat32Assumption
<1>3. Walk(c)[1] = c
  BY WalkFacts
<1>4. ~(1 <= m)
  BY <1>1, <1>2, <1>3
<1>5. m = 0
  BY <1>1, <1>2, <1>4
<1>6. QED
  BY <1>1, <1>5

\* A chain that is not the root's or the current directory's can be freed.
LEMMA ChainDoomed ==
  ASSUME TypeOK, NEW own, NEW pos, Base(own, pos), NEW h \in Clusters,
         own[h] \notin {Root, cwd}, NEW before, NEW loc, NEW lose, NEW keep,
         \A l \in Named : Slot(l).first = own[h] => l = loc,
         \A l \in Named : Slot(l).first = h => lose,
         \A x \in Clusters : FatNext(x) = h => x \in before,
         keep = 0 \/ (keep \in Clusters /\ pos[keep] = 0 /\ pos[h] > 0)
  PROVE  Doomed(own, Chain(h), before, loc, lose, keep)
<1> DEFINE s == Chain(h)
<1>1. s \in Seq(Clusters) /\ Len(s) >= 1 /\ s[1] = h /\ Len(s) \in Nat
  BY ChainFacts
<1>2. \A k \in 1 .. Len(s) - 1 : s[k + 1] = FatNext(s[k])
  BY ChainSteps
<1>3. /\ \A k \in 1 .. Len(s) : own[s[k]] = own[h]
      /\ \A j, k \in 1 .. Len(s) : j < k => pos[s[j]] < pos[s[k]]
  BY ChainLabels DEF Base
<1> HIDE DEF s
<1>4. \A k \in 1 .. Len(s) : s[k] \in Clusters /\ pos[s[k]] \in Nat
  BY <1>1 DEF Base, Labels
<1>5. ASSUME NEW i \in 1 .. Len(s), NEW j \in 1 .. Len(s), s[i] = s[j] PROVE i = j
  <2>1. ~(i < j) /\ ~(j < i)
    BY <1>3, <1>4, <1>5
  <2>2. QED
    BY <2>1
<1>6. ASSUME NEW i \in 1 .. Len(s)
      PROVE  /\ s[i] # keep /\ own[s[i]] \notin {Root, cwd}
             /\ \A l \in Named : Slot(l).first = own[s[i]] => l = loc
             /\ \A l \in Named : Slot(l).first = s[i] => lose
             /\ \A x \in Clusters : FatNext(x) = s[i] => IF i = 1 THEN x \in before ELSE x = s[i-1]
  <2>1. 1 \in 1 .. Len(s) /\ pos[h] \in Nat
    BY <1>1, <1>4
  <2>2. i # 1 => pos[s[i]] > pos[h]
    BY <1>1, <1>3, <2>1
  <2>3. s[i] # keep
    BY <1>1, <1>4, <2>1, <2>2, ClustersAre
  <2>4. ASSUME NEW l \in Named, Slot(l).first = s[i] PROVE lose
    <3>1. pos[s[i]] = 0
      BY <2>4 DEF Base, HeadsInv, Starts
    <3>2. i = 1
      BY <1>4, <2>1, <2>2, <3>1
    <3>3. QED
      BY <1>1, <2>4, <3>2
  <2>5. ASSUME NEW x \in Clusters, FatNext(x) = s[i], i # 1 PROVE x = s[i-1]
    <3>1. i - 1 \in 1 .. Len(s) - 1 /\ i - 1 \in 1 .. Len(s) /\ (i - 1) + 1 = i
      BY <1>1, <2>5
    <3>2. s[i] = FatNext(s[i-1]) /\ s[i-1] \in Clusters /\ s[i] \in Clusters
      BY <1>2, <1>4, <3>1
    <3>3. QED
      BY <2>5, <3>2 DEF Base, TableInv
  <2>6. QED
    BY <1>1, <1>3, <2>3, <2>4, <2>5
<1>7. QED
  BY <1>1, <1>5, <1>6 DEF Doomed, s

LEMMA NoneDoomed ==
  ASSUME NEW own, NEW before, NEW loc, NEW lose, NEW keep
  PROVE  Doomed(own, <<>>, before, loc, lose, keep)
<1>1. <<>> \in Seq(Clusters) /\ Len(<<>>) = 0
  BY EmptySeq
<1>2. QED
  BY <1>1 DEF Doomed

LEMMA FreeChainIs ==
  ASSUME NEW h PROVE FreeChain(h) = FreeAll(Chain(h)) /\ FreeChain(h) \in Seq(Fresh)
BY FreeChainFresh DEF FreeChain, FreeAll

\* No cluster leads to the head of a chain.
LEMMA HeadsFollowNone ==
  ASSUME NEW own, NEW pos, Base(own, pos), NEW h \in Clusters, pos[h] = 0
  PROVE  \A x \in Clusters : FatNext(x) # h
<1>1. ASSUME NEW x \in Clusters, FatNext(x) = h PROVE FALSE
  <2>1. pos[h] > pos[x] /\ pos[x] \in Nat
    BY <1>1 DEF Base, TableInv, Labels
  <2>2. QED
    BY <2>1
<1>2. QED
  BY <1>1

-----------------------------------------------------------------------------
(***************************************************************************)
(* What the searches find                                                  *)
(***************************************************************************)
\* An entry that is found is one of the current directory.
LEMMA EntryFound ==
  ASSUME TypeOK, NEW own, NEW pos, Base(own, pos), NEW n \in Names \cup {DotDot},
         NEW l, l = FindEntry(cwd, BuildName(n)), l # NoPlace
  PROVE  /\ l \in Places /\ own[l[1]] = cwd
         /\ Slot(l).state = "used" /\ ~IsDot(Slot(l))
         /\ Slot(l).first # 0 => l \in Named
<1>1. PICK d : d = cwd
  OBVIOUS
<1> DEFINE chain == Chain(d)
           ps == {p \in Listed(chain) : Slot(Place(chain, p)).name = BuildName(n)}
<1>2. ps \in SUBSET Positions(chain)
  BY DEF Listed
<1>3. l = First(chain, ps)
  BY <1>1 DEF FindEntry
<1>4. ps # {}
  BY <1>3 DEF First
<1>5. l \in Places /\ l \in {Place(chain, p) : p \in ps}
  BY <1>2, <1>3, <1>4, FirstFacts
<1>6. PICK p \in ps : l = Place(chain, p)
  BY <1>5
<1>7. p \in Positions(chain) /\ Slot(l).state = "used" /\ Slot(l).name = BuildName(n)
  BY <1>6 DEF Listed
<1>8. ~IsDot(Slot(l))
  BY <1>7, NotDot DEF IsDot
<1>9. own[l[1]] = d
  <2>1. p[1] \in 1 .. Len(chain) /\ l[1] = chain[p[1]]
    BY <1>6, <1>7 DEF Positions, Place
  <2>2. d \in Clusters /\ own[d] = d
    BY <1>1, TableType DEF Base, CwdInv, Starts
  <2>3. QED
    BY <2>1, <2>2, ChainLabels DEF Base
<1>10. QED
  BY <1>1, <1>5, <1>7, <1>8, <1>9 DEF Named

\* A free slot that is found is one of the current directory.
LEMMA SlotFound ==
  ASSUME TypeOK, NEW own, NEW pos, Base(own, pos), FindFreeSlot(cwd) # NoPlace
  PROVE  FindFreeSlot(cwd) \in Places /\ own[FindFreeSlot(cwd)[1]] = cwd
<1>1. PICK d, l : d = cwd /\ l = FindFreeSlot(cwd)
  OBVIOUS
<1> DEFINE chain == Chain(d)
           ps == {p \in Positions(chain) : Slot(Place(chain, p)).state # "used"}
<1>2. ps \in SUBSET Positions(chain)
  OBVIOUS
<1>3. l = First(chain, ps)
  BY <1>1 DEF FindFreeSlot
<1>4. ps # {}
  BY <1>1, <1>3 DEF First
<1>5. l \in Places /\ l \in {Place(chain, p) : p \in ps}
  BY <1>2, <1>3, <1>4, FirstFacts
<1>6. PICK p \in ps : l = Place(chain, p)
  BY <1>5
<1>7. p[1] \in 1 .. Len(chain) /\ l[1] = chain[p[1]]
  BY <1>6 DEF Positions, Place
<1>8. d \in Clusters /\ own[d] = d
  BY <1>1, TableType DEF Base, CwdInv, Starts
<1>9. own[l[1]] = d
  BY <1>7, <1>8, ChainLabels DEF Base
<1>10. QED
  BY <1>1, <1>5, <1>9

\* A free cluster is nobody's.
LEMMA FreeIsNobodys ==
  ASSUME TypeOK, NEW own, NEW pos, Base(own, pos), AllUsed, FindFreeCluster # 0
  PROVE  Nobodys(own, pos, FindFreeCluster) /\ ~Used(FindFreeCluster)
<1>1. PICK c : c = FindFreeCluster
  OBVIOUS
<1>2. c \in Clusters /\ ~Used(c)
  BY <1>1, FindFreeClusterFacts DEF FreeClusters, Used
<1>3. Starts(own, pos, c) /\ c # Root /\ c # cwd
  BY <1>2 DEF Base, TableInv, HeadsInv, CwdInv
<1>4. \A l \in Named : Slot(l).first # c
  BY <1>2 DEF AllUsed
<1>5. QED
  BY <1>1, <1>2, <1>3, <1>4 DEF Nobodys

\* With room found, the entry can be made.
LEMMA RoomMakes ==
  ASSUME TypeOK, NEW own, NEW pos, Base(own, pos), AllUsed, RoomIn(cwd) # NoPlace,
         SameView, cwd' = cwd, NEW e, NEW f, f = 0 \/ Used(f),
         job.loc' = RoomIn(cwd), job.first' = f,
         Ahead' = RoomWrites(cwd) \o SetSlot(RoomIn(cwd), e)
  PROVE  Making(own, pos, e)'
<1>1. PICK d, loc : d = cwd /\ loc = RoomIn(cwd)
  OBVIOUS
<1>2. CASE FindFreeSlot(cwd) # NoPlace
  <2>1. loc \in Places /\ own[loc[1]] = cwd /\ RoomWrites(cwd) = <<>>
    BY <1>1, <1>2, SlotFound DEF RoomIn, RoomWrites
  <2>2. Ahead' = SetSlot(loc, e)
    <3>1. SetSlot(loc, e) \in Seq({<<"slot", loc, e>>})
      BY DEF SetSlot
    <3>2. <<>> \o SetSlot(loc, e) = SetSlot(loc, e)
      BY <3>1, ConcatEmptySeq
    <3>3. QED
      BY <1>1, <2>1, <3>2
  <2>3. QED
    BY <1>1, <2>1, <2>2 DEF Making, SetSlot
<1>3. CASE FindFreeSlot(cwd) = NoPlace
  <2>1. PICK c, p : c = FindFreeCluster /\ p = Chain(d)[Len(Chain(d))]
    OBVIOUS
  <2>2. c # 0 /\ loc = <<c, 1>>
    BY <1>1, <1>3, <2>1 DEF RoomIn
  <2>3. Nobodys(own, pos, c) /\ ~Used(c) /\ c \in Clusters
    BY <2>1, <2>2, FreeIsNobodys DEF Nobodys
  <2>4. d \in Clusters /\ own[d] = d /\ Used(d)
    BY <1>1, TableType DEF Base, CwdInv, Starts
  <2>5. /\ p \in Clusters /\ p \in ToSet(Chain(d)) /\ own[p] = d /\ Used(p)
        /\ FatNext(p) \notin Clusters
    <3>1. Chain(d) \in Seq(Clusters) /\ Len(Chain(d)) \in 1 .. Len(Chain(d))
      BY <2>4, ChainFacts
    <3>2. p \in Clusters /\ p \in ToSet(Chain(d))
      BY <2>1, <3>1, ToSetIs
    <3>3. own[p] = d /\ Used(p)
      BY <2>1, <2>4, <3>1, ChainLabels DEF Base
    <3>4. FatNext(p) \notin Clusters
      BY <2>1, <2>4, ChainLast DEF Base
    <3>5. QED
      BY <3>2, <3>3, <3>4
  <2>6. c # p /\ c # f /\ Ends(p)
    BY <2>3, <2>5, ClustersAre DEF Ends, Used
  <2>7. Ahead' = Allocate(c) \o (SetFat(p, c) \o SetSlot(loc, e))
    <3>1. RoomWrites(cwd) = Allocate(c) \o SetFat(p, c)
      BY <1>1, <1>3, <2>1 DEF RoomWrites, Extend
    <3>2. PICK a, b : a = <<"fat", 1, p, c>> /\ b = <<"slot", loc, e>>
      OBVIOUS
    <3>3. PICK y, z : y = <<"fat", 1, c, EOC>> /\ z = <<"zero", c>>
      OBVIOUS
    <3>4. <<a>> \in Seq({a, b, y, z}) /\ <<b>> \in Seq({a, b, y, z})
          /\ <<y>> \in Seq({a, b, y, z}) /\ <<z>> \in Seq({a, b, y, z})
      OBVIOUS
    <3>5. ((<<y>> \o <<z>>) \o <<a>>) \o <<b>> = (<<y>> \o <<z>>) \o (<<a>> \o <<b>>)
      BY <3>4, ConcatAssociative, ConcatProperties
    <3>6. QED
      BY <1>1, <3>1, <3>2, <3>3, <3>5 DEF Allocate, SetFat, SetSlot
  <2>8. Nobodys(own, pos, c)'
    BY <2>3, NobodysFrame, ViewFacts
  <2>9. Ends(p)' /\ ~Used(c)'
    BY <2>3, <2>6 DEF SameView, Ends, Used, FatNext
  <2>10. p \in ToSet(Chain(cwd))'
    <3>1. Chain(d)' = Chain(d)
      BY ViewChain
    <3>2. QED
      BY <1>1, <2>5, <3>1
  <2>11. Grows(c, SetFat(p, c) \o SetSlot(loc, e))'
    BY <2>7, <2>9 DEF Grows, SetFat, SetSlot
  <2>12. Grows(c, SetFat(p, c) \o SetSlot(job.loc, e))'
    BY <1>1, <2>11 DEF Grows, SetFat, SetSlot, Ends, Used, FatNext
  <2>13. QED
    BY <1>1, <2>2, <2>3, <2>5, <2>6, <2>8, <2>9, <2>10, <2>12 DEF Making
<1>4. QED
  BY <1>2, <1>3

-----------------------------------------------------------------------------
(***************************************************************************)
(* The calls                                                               *)
(***************************************************************************)
\* Between calls no entry dangles.
LEMMA IdleIsWhole ==
  ASSUME Inv, NEW own, NEW pos, Sound(own, pos), Idle
  PROVE  /\ TypeOK /\ Base(own, pos) /\ AllUsed /\ todo = <<>> /\ Ahead = <<>>
         /\ job.call # "off"
<1>1. TypeOK /\ Base(own, pos) /\ IntactInv /\ todo = <<>> /\ job.at = ""
  BY DEF Inv, JobInv, Sound, Idle
<1>2. Ahead = <<>>
  BY <1>1 DEF Ahead
<1>3. QED
  BY <1>1, <1>2, AllAreUsed DEF Idle

\* A write or a touch begins: it has found the entry, or makes one.
LEMMA WriteFileSound ==
  ASSUME Inv, NEW own, NEW pos, Sound(own, pos), Idle, NEW call \in {"write", "touch"},
         NEW n \in Names, NEW size \in Nat, WriteFile(call, n, size)
  PROVE  ChainsInv'
<1>1. /\ TypeOK /\ Base(own, pos) /\ AllUsed /\ todo = <<>> /\ Ahead = <<>>
      /\ job.call # "off"
  BY IdleIsWhole
<1>2. PICK found, room, name :
        /\ found = FindEntry(cwd, BuildName(n)) /\ room = RoomIn(cwd)
        /\ name = BuildName(n)
  OBVIOUS
<1> DEFINE start == [NoJob EXCEPT !.call = call, !.at = "body", !.name = n, !.size = size]
           old == [start EXCEPT !.loc = found, !.first = Slot(found).first,
                                !.cluster = Slot(found).first]
           new == [start EXCEPT !.loc = room]
           writes == RoomWrites(cwd) \o SetSlot(room, Entry(name, FALSE, 0, 0))
<1>3. \/ \E r : Return(r)
      \/ found # NoPlace /\ ~Slot(found).dir /\ Begin(old, <<>>)
      \/ room # NoPlace /\ Begin(new, writes)
  BY <1>2 DEF WriteFile
<1>4. CASE \E r : Return(r)
  BY <1>1, <1>4, ReturnSound
<1>5. CASE found # NoPlace /\ ~Slot(found).dir /\ Begin(old, <<>>)
  <2>1. PICK j : j = old
    OBVIOUS
  <2>2. <<>> \in Seq(Fresh)
    BY EmptySeq
  <2>3. /\ SameView /\ cwd' = cwd /\ job' = j /\ Ahead' = <<>>
        /\ Base(own, pos)' /\ TornLands(own)' /\ AllUsed'
    <3>1. PICK writes2 : writes2 = <<>>
      OBVIOUS
    <3>2. Begin(j, writes2) /\ writes2 \in Seq(Fresh)
      BY <1>5, <2>1, <2>2, <3>1
    <3>3. QED
      BY <1>1, <3>1, <3>2, BeginFrame
  <2>4. PICK f : f = Slot(found).first
    OBVIOUS
  <2>5. /\ j.call = call /\ j.at = "body" /\ j.loc = found /\ j.first = f
        /\ j.cluster = f /\ j.prev = 0 /\ j.used = 0
    BY <2>1, <2>4 DEF NoJob
  <2>6. /\ found \in Places /\ own[found[1]] = cwd
        /\ Slot(found).state = "used" /\ ~IsDot(Slot(found))
        /\ f # 0 => found \in Named
    BY <1>1, <1>2, <1>5, <2>4, EntryFound
  <2>7. Slot(found)' = Slot(found)
    BY <2>3 DEF SameView, Slot
  <2>8. Slot(job.loc)' = Slot(found)
    BY <2>3, <2>5, <2>7 DEF Slot
  <2>9. OldEntry(own)'
    BY <1>5, <2>3, <2>5, <2>6, <2>8 DEF OldEntry, IsDot
  <2>10. f \in Firsts /\ (f # 0 => Used(f) /\ own[f] = f)
    BY <1>1, <2>4, <2>6, TableType DEF AllUsed, Base, HeadsInv, Starts
  <2>11. f # 0 => Used(f)'
    BY <2>3, <2>10 DEF SameView, Used, FatNext
  <2>12. Slot(job.loc)'.first = f /\ job.first' = f /\ job.cluster' = f /\ job.prev' = 0
    BY <2>3, <2>4, <2>5, <2>8
  <2>13. f # 0 => Used(job.first)'
    BY <2>11, <2>12 DEF Used, FatNext
  <2>14. FirstInv(own, pos)'
    BY <2>12, <2>13 DEF FirstInv
  <2>15. f \in Clusters => f # 0
    BY ClustersAre
  <2>16. BodyInv(own, pos)'
    BY <2>10, <2>12, <2>14, <2>15 DEF BodyInv, Firsts
  <2>17. PhaseInv(own, pos)'
    <3>1. WriteInv(own, pos)'
      BY <2>3, <2>5, <2>9, <2>16 DEF WriteInv
    <3>2. QED
      BY <2>3, <2>5, <3>1 DEF PhaseInv
  <2>18. IntactInv'
    BY <2>3 DEF AllUsed, IntactInv
  <2>19. QED
    BY <2>3, <2>17, <2>18 DEF ChainsInv, Sound
<1>6. CASE room # NoPlace /\ Begin(new, writes)
  <2>1. PICK j, e, w : j = new /\ e = Entry(name, FALSE, 0, 0) /\ w = writes
    OBVIOUS
  <2>2. /\ j.call = call /\ j.at = "body" /\ j.loc = room /\ j.first = 0
        /\ j.cluster = 0 /\ j.prev = 0 /\ j.used = 0 /\ j.name = n
    BY <2>1 DEF NoJob
  <2>3. e \in EntryType
    BY <1>2, <2>1, NameType, EntryIsEntry DEF Firsts
  <2>4. room \in Places
    BY <1>2, <1>6, RoomInFacts
  <2>5. cwd \in Clusters
    BY <1>1, TableType
  <2>6. w = RoomWrites(cwd) \o SetSlot(room, e) /\ w \in Seq(Fresh) /\ w # <<>>
    <3>1. RoomWrites(cwd) \in Seq(Fresh) /\ SetSlot(room, e) \in Seq(Fresh)
      BY <1>2, <1>6, <2>3, <2>4, <2>5, RoomWritesFresh, SetSlotFresh
    <3>2. SetSlot(room, e) # <<>>
      BY OneWrite DEF SetSlot
    <3>3. PICK a, b : a = RoomWrites(cwd) /\ b = SetSlot(room, e)
      OBVIOUS
    <3>4. a \o b \in Seq(Fresh)
      BY <3>1, <3>3, ConcatProperties
    <3>5. a \o b # <<>>
      BY <3>1, <3>2, <3>3, ConcatEqualIffEmpty
    <3>6. QED
      BY <2>1, <3>3, <3>4, <3>5
  <2>7. /\ SameView /\ cwd' = cwd /\ job' = j /\ Ahead' = w
        /\ Base(own, pos)' /\ TornLands(own)' /\ AllUsed'
    BY <1>1, <1>6, <2>1, <2>6, BeginFrame
  <2>8. Making(own, pos, e)'
    BY <1>1, <1>2, <1>6, <2>2, <2>6, <2>7, RoomMakes
  <2>9. NewEntry' = e
    BY <1>2, <2>1, <2>2, <2>7 DEF NewEntry
  <2>10. Making(own, pos, NewEntry)'
    BY <2>8, <2>9 DEF Making
  <2>11. PhaseInv(own, pos)'
    <3>1. WriteInv(own, pos)'
      BY <2>2, <2>6, <2>7, <2>10 DEF WriteInv
    <3>2. QED
      BY <2>2, <2>7, <3>1 DEF PhaseInv
  <2>12. IntactInv'
    BY <2>7 DEF AllUsed, IntactInv
  <2>13. QED
    BY <2>7, <2>11, <2>12 DEF ChainsInv, Sound
<1>7. QED
  BY <1>3, <1>4, <1>5, <1>6

\* A write between two rounds of its loop.
LEMMA BodyFacts ==
  ASSUME Inv, NEW own, NEW pos, Sound(own, pos), Ready("body")
  PROVE  /\ TypeOK /\ Base(own, pos) /\ todo = <<>> /\ job.at = "body" /\ Ahead = <<>>
         /\ job.call \in {"write", "touch"} /\ AllUsed
         /\ OldEntry(own) /\ BodyInv(own, pos) /\ (job.prev = 0 => job.used = 0)
<1>1. /\ TypeOK /\ Base(own, pos) /\ todo = <<>> /\ job.at = "body"
      /\ job.call \notin {"idle", "off"} /\ Ahead = <<>>
  <2>1. todo = <<>> /\ job.at = "body" /\ job.call \notin {"idle", "off"}
    BY ReadyFacts
  <2>2. QED
    BY <2>1 DEF Inv, Sound, Ahead
<1>2. IntactInv /\ PhaseInv(own, pos)
  BY <1>1 DEF Sound
<1>3. AllUsed
  BY <1>1, <1>2, AllAreUsed
<1>4. job.call \in {"write", "touch"}
  BY <1>1, <1>2 DEF TypeOK, JobType, PhaseInv, MkdirInv, DeleteInv
<1>5. QED
  BY <1>1, <1>2, <1>3, <1>4 DEF PhaseInv, WriteInv

\* A size of nought is written: the old chain is freed.
LEMMA WriteNothingSound ==
  ASSUME Inv, NEW own, NEW pos, Sound(own, pos), WriteNothing
  PROVE  ChainsInv'
<1>1. /\ TypeOK /\ Base(own, pos) /\ todo = <<>> /\ job.at = "body" /\ Ahead = <<>>
      /\ job.call \in {"write", "touch"} /\ AllUsed
      /\ OldEntry(own) /\ BodyInv(own, pos)
  BY BodyFacts DEF WriteNothing
<1>2. PICK j, f, loc, w : /\ j = [job EXCEPT !.at = "entry", !.first = 0]
                          /\ f = job.first /\ loc = job.loc /\ w = FreeChain(job.first)
  OBVIOUS
<1>3. /\ j.call = job.call /\ j.at = "entry" /\ j.first = 0 /\ j.loc = loc
  BY <1>1, <1>2 DEF TypeOK, JobType
<1>4. w = FreeAll(Chain(f)) /\ w \in Seq(Fresh) /\ w \in Seq(WriteType)
  BY <1>2, FreeChainIs, FreshAreWrites
<1>5. /\ SameView /\ cwd' = cwd /\ job' = j /\ Ahead' = w
      /\ Base(own, pos)' /\ TornLands(own)' /\ AllUsed'
  BY <1>1, <1>2, <1>4, BeginFrame DEF WriteNothing
<1>6. Doomed(own, Chain(f), {}, loc, TRUE, 0)
  <2>1. CASE f \in Clusters
    <3>1. /\ Starts(own, pos, f) /\ f # Root /\ f # cwd
          /\ \A l \in Named : Slot(l).first = f => l = loc
      BY <1>1, <1>2, <2>1, TargetFacts, ClustersAre DEF BodyInv
    <3>2. \A x \in Clusters : FatNext(x) # f
      BY <1>1, <2>1, <3>1, HeadsFollowNone DEF Starts
    <3>3. own[f] = f
      BY <3>1 DEF Starts
    <3>4. QED
      BY <1>1, <2>1, <3>1, <3>2, <3>3, ChainDoomed
  <2>2. CASE f \notin Clusters
    BY <2>2, ChainOfNone, NoneDoomed
  <2>3. QED
    BY <2>1, <2>2
<1>7. Doomed(own, Chain(f), {}, loc, TRUE, 0)'
  <2>1. PICK s : s = Chain(f)
    OBVIOUS
  <2>2. Doomed(own, s, {}, loc, TRUE, 0)'
    BY <1>5, <1>6, <2>1, ViewDoomed
  <2>3. Chain(f)' = s
    BY <1>5, <2>1, ViewChain
  <2>4. QED
    BY <2>2, <2>3 DEF Doomed
<1>8. Freeing(own, <<>>, job.first = 0, job.first)'
  <2>1. PICK s : s = Chain(f) /\ s = Chain(f)'
    BY <1>5, ViewChain
  <2>2. Doomed(own, s, {}, job.loc, job.first = 0, job.first)'
    BY <1>3, <1>5, <1>7, <2>1 DEF Doomed
  <2>3. Ahead' = FreeAll(s) \o <<>>
    BY <1>4, <1>5, <2>1, ConcatEmptySeq
  <2>4. QED
    BY <2>2, <2>3 DEF Freeing
<1>9. OldEntry(own)' /\ FirstInv(own, pos)'
  BY <1>1, <1>2, <1>3, <1>5 DEF SameView, OldEntry, IsDot, Slot, FirstInv
<1>10. PhaseInv(own, pos)'
  <2>1. WriteInv(own, pos)'
    BY <1>3, <1>5, <1>8, <1>9 DEF WriteInv
  <2>2. QED
    BY <1>1, <1>3, <1>5, <2>1 DEF PhaseInv
<1>11. IntactInv'
  BY <1>5 DEF AllUsed, IntactInv
<1>12. QED
  BY <1>5, <1>10, <1>11 DEF ChainsInv, Sound

\* A size takes at least one cluster, unless it is nought.
LEMMA SomeNeeded ==
  ASSUME NEW size \in Nat, size > 0 PROVE Needed(size) # 0
<1>1. ClusterBytes \in Nat \ {0}
  BY Fat32Assumption
<1>2. \A a, b \in Nat : b > 0 /\ a >= b => a \div b # 0
  OBVIOUS
<1>3. size + ClusterBytes - 1 \in Nat /\ size + ClusterBytes - 1 >= ClusterBytes
  BY <1>1
<1>4. QED
  BY <1>1, <1>2, <1>3 DEF Needed

\* The loop is over.
LEMMA WriteTrimSound ==
  ASSUME Inv, NEW own, NEW pos, Sound(own, pos), WriteTrim
  PROVE  ChainsInv'
<1>1. /\ TypeOK /\ Base(own, pos) /\ todo = <<>> /\ job.at = "body" /\ Ahead = <<>>
      /\ job.call \in {"write", "touch"} /\ AllUsed
      /\ OldEntry(own) /\ BodyInv(own, pos) /\ (job.prev = 0 => job.used = 0)
  BY BodyFacts DEF WriteTrim
<1>2. PICK j, f, loc, c, p, w :
        /\ j = [job EXCEPT !.at = "entry"] /\ f = job.first /\ loc = job.loc
        /\ c = job.cluster /\ p = job.prev
        /\ w = (IF job.prev # 0 THEN SetFat(job.prev, EOC) ELSE <<>>)
                 \o FreeChain(job.cluster)
  OBVIOUS
<1>3. /\ j.call = job.call /\ j.at = "entry" /\ j.first = f /\ j.loc = loc /\ j.prev = p
      /\ f \in Firsts /\ p \in Firsts
  BY <1>1, <1>2 DEF TypeOK, JobType
<1>4. FreeChain(c) = FreeAll(Chain(c)) /\ FreeChain(c) \in Seq(Fresh)
  BY FreeChainIs
<1>5. p \in Clusters => SetFat(p, EOC) \in Seq(Fresh)
  BY SetFatFresh DEF Links
<1>6. w \in Seq(Fresh) /\ (p = 0 => w = FreeAll(Chain(c)))
      /\ (p # 0 => w = SetFat(p, EOC) \o FreeAll(Chain(c)))
  <2>1. CASE p = 0
    <3>1. w = FreeAll(Chain(c))
      BY <1>2, <1>4, <2>1, ConcatEmptySeq
    <3>2. QED
      BY <1>4, <2>1, <3>1
  <2>2. CASE p # 0
    <3>1. w = SetFat(p, EOC) \o FreeAll(Chain(c)) /\ p \in Clusters
      BY <1>2, <1>3, <1>4, <2>2 DEF Firsts
    <3>2. QED
      BY <1>4, <1>5, <2>2, <3>1, ConcatProperties
  <2>3. QED
    BY <2>1, <2>2
<1>7. /\ SameView /\ cwd' = cwd /\ job' = j /\ Ahead' = w
      /\ Base(own, pos)' /\ TornLands(own)' /\ AllUsed'
  BY <1>1, <1>2, <1>6, BeginFrame DEF WriteTrim, Goto
<1>8. OldEntry(own)' /\ FirstInv(own, pos)'
  <2>1. OldEntry(own)' /\ Slot(job.loc)' = Slot(job.loc) /\ FatNext(job.first)' = FatNext(job.first)
    BY <1>1, <1>2, <1>3, <1>7 DEF SameView, OldEntry, IsDot, Slot, FatNext
  <2>2. Nobodys(own, pos, f) => Nobodys(own, pos, job.first)'
    <3>1. Nobodys(own, pos, f) => Nobodys(own, pos, f)'
      BY <1>7, NobodysFrame, ViewFacts
    <3>2. QED
      BY <1>3, <1>7, <3>1 DEF Nobodys, Starts
  <2>3. QED
    BY <1>1, <1>2, <1>3, <1>7, <2>1, <2>2 DEF BodyInv, FirstInv, Used
<1>9. CASE p = 0
  <2>1. c \notin Clusters
    <3>1. job.size \in Nat /\ job.size > 0
      BY <1>1 DEF WriteTrim, TypeOK, JobType
    <3>2. job.used # Needed(job.size)
      BY <1>1, <1>2, <1>9, <3>1, SomeNeeded
    <3>3. QED
      BY <1>2, <3>2 DEF WriteTrim, DiskFull
  <2>2. f = 0
    BY <1>1, <1>2, <1>9, <2>1 DEF BodyInv
  <2>3. w = FreeAll(<<>>) /\ Chain(c) = <<>>
    BY <1>6, <1>9, <2>1, ChainOfNone
  <2>4. w = FreeAll(<<>>) \o <<>>
    BY <1>6, <2>3, ConcatEmptySeq
  <2>5. PICK s : s = <<>>
    OBVIOUS
  <2>6. Doomed(own, s, {}, loc, TRUE, 0)
    BY <2>5, NoneDoomed
  <2>7. Doomed(own, s, {}, loc, TRUE, 0)'
    BY <1>7, <2>6, ViewDoomed
  <2>8. Doomed(own, s, {}, job.loc, job.first = 0, job.first)'
    BY <1>3, <1>7, <2>2, <2>7 DEF Doomed
  <2>9. Freeing(own, <<>>, job.first = 0, job.first)'
    BY <1>7, <2>4, <2>5, <2>8 DEF Freeing
  <2>10. WriteInv(own, pos)'
    BY <1>3, <1>7, <1>8, <2>9 DEF WriteInv
  <2>11. PhaseInv(own, pos)'
    BY <1>1, <1>3, <1>7, <2>10 DEF PhaseInv
  <2>12. IntactInv'
    BY <1>7 DEF AllUsed, IntactInv
  <2>13. QED
    BY <1>7, <2>11, <2>12 DEF ChainsInv, Sound
<1>10. CASE p # 0
  <2>1. p \in Clusters /\ f # 0 /\ own[p] = f /\ Used(p)
    <3>1. p \in Clusters /\ f # 0 /\ own[p] = f
      BY <1>1, <1>2, <1>3, <1>10 DEF BodyInv, Firsts
    <3>2. Used(p)
      BY <1>1, <1>2, <1>10, ClustersAre DEF BodyInv, Ends, Used
    <3>3. QED
      BY <3>1, <3>2
  <2>2. /\ f \in Clusters /\ Starts(own, pos, f) /\ f # Root /\ f # cwd
        /\ \A l \in Named : Slot(l).first = f => l = loc
    BY <1>1, <1>2, <2>1, TargetFacts DEF BodyInv
  <2>3. Doomed(own, Chain(c), {p}, loc, FALSE, f)
    <3>1. CASE c \in Clusters
      <4>1. FatNext(p) = c /\ own[c] = f
        BY <1>1, <1>2, <1>10, <3>1 DEF BodyInv
      <4>2. pos[c] > 0
        <5>1. pos[c] > pos[p] /\ pos[p] \in Nat /\ pos[c] \in Nat
          BY <1>1, <2>1, <3>1, <4>1 DEF Base, TableInv, Labels
        <5>2. QED
          BY <5>1
      <4>3. \A l \in Named : Slot(l).first # c
        <5>1. \A l \in Named : pos[Slot(l).first] = 0
          BY <1>1 DEF Base, HeadsInv, Starts
        <5>2. QED
          BY <4>2, <5>1
      <4>4. \A x \in Clusters : FatNext(x) = c => x \in {p}
        BY <1>1, <2>1, <3>1, <4>1 DEF Base, TableInv
      <4>5. f \in Clusters /\ pos[f] = 0
        BY <2>2 DEF Starts
      <4>6. QED
        BY <1>1, <2>2, <3>1, <4>1, <4>2, <4>3, <4>4, <4>5, ChainDoomed
    <3>2. CASE c \notin Clusters
      BY <3>2, ChainOfNone, NoneDoomed
    <3>3. QED
      BY <3>1, <3>2
  <2>4. PICK s : s = Chain(c)
    OBVIOUS
  <2>5. Doomed(own, s, {p}, loc, FALSE, f)'
    BY <1>7, <2>3, <2>4, ViewDoomed
  <2>6. Doomed(own, s, {job.prev}, job.loc, FALSE, job.first)'
    BY <1>3, <1>7, <2>5 DEF Doomed
  <2>7. Used(job.prev)'
    BY <1>2, <1>3, <1>7, <2>1 DEF SameView, Used, FatNext
  <2>8. Ahead' = SetFat(job.prev', EOC) \o FreeAll(s)
    BY <1>3, <1>6, <1>7, <1>10, <2>4
  <2>9. Cutting(own)'
    BY <1>3, <1>7, <2>1, <2>6, <2>7, <2>8 DEF Cutting, SetFat
  <2>10. WriteInv(own, pos)'
    BY <1>3, <1>7, <1>8, <2>9 DEF WriteInv
  <2>11. PhaseInv(own, pos)'
    BY <1>1, <1>3, <1>7, <2>10 DEF PhaseInv
  <2>12. IntactInv'
    BY <1>7 DEF AllUsed, IntactInv
  <2>13. QED
    BY <1>7, <2>11, <2>12 DEF ChainsInv, Sound
<1>11. QED
  BY <1>9, <1>10

\* The entry written to and its chain are left as they are.
LEMMA TargetKept ==
  ASSUME NEW own, NEW pos, OldEntry(own), SameView, cwd' = cwd, NEW j, job' = j,
         j.loc = job.loc, NEW f, j.first = f,
         f # 0 => /\ Used(f)
                  /\ \/ Slot(job.loc).first = 0 /\ Nobodys(own, pos, f)
                     \/ Slot(job.loc).first = f
  PROVE  OldEntry(own)' /\ FirstInv(own, pos)' /\ Slot(job.loc)' = Slot(job.loc)
<1>1. OldEntry(own)' /\ Slot(job.loc)' = Slot(job.loc)
  BY DEF SameView, OldEntry, IsDot, Slot
<1>2. Used(f) => Used(job.first)'
  BY DEF SameView, Used, FatNext
<1>3. Nobodys(own, pos, f) => Nobodys(own, pos, job.first)'
  <2>1. Nobodys(own, pos, f) => Nobodys(own, pos, f)'
    BY NobodysFrame, ViewFacts
  <2>2. QED
    BY <2>1 DEF Nobodys, Starts
<1>4. QED
  BY <1>1, <1>2, <1>3 DEF FirstInv

\* The writes of one round of the loop.
LEMMA RoundWrites ==
  ASSUME NEW a, NEW b, NEW c, NEW d
  PROVE  /\ (<<>> \o <<>>) \o <<a>> = <<a>>
         /\ ((<<b>> \o <<c>>) \o <<>>) \o <<a>> = (<<b>> \o <<c>>) \o <<a>>
         /\ ((<<b>> \o <<c>>) \o <<d>>) \o <<a>> = (<<b>> \o <<c>>) \o (<<d>> \o <<a>>)
         /\ (<<b>> \o <<c>>) \o <<a>> # <<>>
         /\ (<<b>> \o <<c>>) \o (<<d>> \o <<a>>) # <<>>
<1> DEFINE S == {a, b, c, d}
<1>1. <<a>> \in Seq(S) /\ <<b>> \in Seq(S) /\ <<c>> \in Seq(S) /\ <<d>> \in Seq(S)
  OBVIOUS
<1>2. <<>> \in Seq(S) /\ <<a>> # <<>>
  BY EmptySeq
<1> HIDE DEF S
<1>3. PICK u, v, y : u = <<b>> \o <<c>> /\ v = <<a>> /\ y = <<d>>
  OBVIOUS
<1>4. u \in Seq(S) /\ v \in Seq(S) /\ y \in Seq(S) /\ v # <<>>
  BY <1>1, <1>2, <1>3, ConcatProperties, SMTT(30)
<1>5. <<>> \o <<>> = <<>> /\ <<>> \o v = v /\ u \o <<>> = u
  BY <1>2, <1>4, ConcatEmptySeq
<1>6. (u \o y) \o v = u \o (y \o v)
  BY <1>4, ConcatAssociative
<1>7. u \o v # <<>> /\ y \o v # <<>> /\ y \o v \in Seq(S)
  BY <1>4, ConcatProperties, ConcatEqualIffEmpty
<1>8. u \o (y \o v) # <<>>
  BY <1>4, <1>7, ConcatEqualIffEmpty
<1>9. QED
  BY <1>3, <1>5, <1>6, <1>7, <1>8

\* One round of the loop: the next cluster of the old chain, or a fresh one.
LEMMA WriteClusterSound ==
  ASSUME Inv, NEW own, NEW pos, Sound(own, pos), WriteCluster
  PROVE  ChainsInv'
<1>1. /\ TypeOK /\ Base(own, pos) /\ todo = <<>> /\ job.at = "body" /\ Ahead = <<>>
      /\ job.call \in {"write", "touch"} /\ AllUsed
      /\ OldEntry(own) /\ BodyInv(own, pos)
  BY BodyFacts DEF WriteCluster
<1>2. PICK c : c = IF job.cluster \notin Clusters THEN FindFreeCluster ELSE job.cluster
  OBVIOUS
<1>3. PICK j, f, q, k, loc :
        /\ j = [job EXCEPT !.first = IF job.cluster \notin Clusters /\ job.prev = 0
                                     THEN c ELSE job.first,
                           !.prev = c, !.used = job.used + 1,
                           !.cluster = IF job.cluster \notin Clusters
                                       THEN EOC ELSE FatNext(c)]
        /\ f = job.first /\ q = job.prev /\ k = job.cluster /\ loc = job.loc
  OBVIOUS
<1>4. PICK store, w :
        /\ store = << <<"data", c, <<job.size, job.used + 1>> >> >>
        /\ w = (IF k \notin Clusters THEN Allocate(c) ELSE <<>>)
                 \o (IF k \notin Clusters /\ q # 0 THEN SetFat(q, c) ELSE <<>>)
                 \o store
  OBVIOUS
<1>5. c # 0 /\ Begin(j, w)
  BY <1>2, <1>3, <1>4 DEF WriteCluster
<1>6. /\ j.call = job.call /\ j.at = "body" /\ j.loc = loc /\ j.prev = c
      /\ j.first = (IF k \notin Clusters /\ q = 0 THEN c ELSE f)
      /\ j.cluster = (IF k \notin Clusters THEN EOC ELSE FatNext(c))
      /\ j.size = job.size /\ j.used = job.used + 1
  BY <1>1, <1>3 DEF TypeOK, JobType
<1>7. f \in Firsts /\ q \in Firsts /\ job.size \in Nat /\ job.used \in Nat
  BY <1>1, <1>3 DEF TypeOK, JobType
<1>8. c \in Clusters
  BY <1>2, <1>5, FindFreeClusterFacts DEF Firsts
<1>9. store \in Seq(Fresh)
  <2>1. <<"data", c, <<job.size, job.used + 1>> >> \in Fresh
    BY <1>7, <1>8 DEF Fresh, WriteType
  <2>2. QED
    BY <1>4, <2>1
<1>10. w \in Seq(Fresh)
  <2>1. PICK a, b : /\ a = (IF k \notin Clusters THEN Allocate(c) ELSE <<>>)
                    /\ b = (IF k \notin Clusters /\ q # 0 THEN SetFat(q, c) ELSE <<>>)
    OBVIOUS
  <2>2. a \in Seq(Fresh)
    BY <1>8, <2>1, AllocateFresh, EmptySeq
  <2>3. q # 0 => SetFat(q, c) \in Seq(Fresh)
    BY <1>7, <1>8, SetFatFresh DEF Firsts, Links
  <2>4. b \in Seq(Fresh)
    BY <2>1, <2>3, EmptySeq
  <2>5. (a \o b) \o store \in Seq(Fresh)
    BY <1>9, <2>2, <2>4, ConcatProperties
  <2>6. QED
    BY <1>4, <2>1, <2>5
<1>11. /\ SameView /\ cwd' = cwd /\ job' = j /\ Ahead' = w
       /\ Base(own, pos)' /\ TornLands(own)' /\ AllUsed'
  BY <1>1, <1>5, <1>10, BeginFrame
<1>12. Store' = store
  BY <1>4, <1>6, <1>11 DEF Store
<1>13. ASSUME w # <<>>, OldEntry(own)', Storing(own, pos)' PROVE ChainsInv'
  <2>1. job.prev' # 0
    BY <1>5, <1>6, <1>11
  <2>2. WriteInv(own, pos)'
    BY <1>6, <1>11, <1>13, <2>1 DEF WriteInv
  <2>3. PhaseInv(own, pos)'
    BY <1>1, <1>6, <1>11, <2>2 DEF PhaseInv
  <2>4. IntactInv'
    BY <1>11 DEF AllUsed, IntactInv
  <2>5. QED
    BY <1>11, <2>3, <2>4 DEF ChainsInv, Sound
<1>14. CASE k \in Clusters
  <2>1. c = k /\ f # 0 /\ own[k] = f /\ j.first = f /\ j.cluster = FatNext(k)
    BY <1>1, <1>2, <1>3, <1>6, <1>14 DEF BodyInv
  <2>2. OldEntry(own)' /\ FirstInv(own, pos)' /\ Slot(job.loc)' = Slot(job.loc)
    <3>1. /\ Used(f)
          /\ \/ Slot(job.loc).first = 0 /\ Nobodys(own, pos, f)
             \/ Slot(job.loc).first = f
      BY <1>1, <1>3, <2>1 DEF BodyInv, FirstInv
    <3>2. OldEntry(own) /\ SameView /\ cwd' = cwd /\ job' = j /\ j.loc = job.loc
      BY <1>1, <1>3, <1>6, <1>11
    <3>3. QED
      BY <2>1, <3>1, <3>2, TargetKept
  <2>3. Used(k)
    <3>1. CASE q = 0
      BY <1>1, <1>3, <1>14, <2>1, <3>1 DEF BodyInv, FirstInv
    <3>2. CASE q # 0
      BY <1>1, <1>3, <1>7, <1>14, <3>2 DEF BodyInv, Base, TableInv, Firsts
    <3>3. QED
      BY <3>1, <3>2
  <2>4. FatNext(k) \in Clusters => own[FatNext(k)] = f
    BY <1>1, <1>14, <2>1 DEF Base, TableInv
  <2>5. FatNext(k)' = FatNext(k)
    BY <1>11 DEF SameView, FatNext
  <2>6. /\ job.cluster' = FatNext(k) /\ job.prev' = k /\ job.first' = f
        /\ FatNext(job.prev)' = FatNext(k) /\ k # 0
    BY <1>6, <1>11, <1>14, <2>1, <2>5, ClustersAre DEF FatNext
  <2>7. FatNext(k) \notin Clusters => Ends(job.prev)'
    BY <2>3, <2>6 DEF Ends, Used
  <2>8. BodyInv(own, pos)'
    BY <2>1, <2>2, <2>4, <2>6, <2>7 DEF BodyInv
  <2>9. w = store /\ w # <<>>
    <3>1. PICK s : s = <<"data", c, <<job.size, job.used + 1>> >>
      OBVIOUS
    <3>2. w = (<<>> \o <<>>) \o <<s>> /\ store = <<s>>
      BY <1>4, <1>14, <3>1
    <3>3. (<<>> \o <<>>) \o <<s>> = <<s>> /\ <<s>> # <<>>
      BY RoundWrites
    <3>4. QED
      BY <3>2, <3>3
  <2>10. Storing(own, pos)'
    BY <1>11, <1>12, <1>14, <2>6, <2>8, <2>9 DEF Storing
  <2>11. QED
    BY <1>13, <2>2, <2>9, <2>10
<1>15. CASE k \notin Clusters
  <2>1. c = FindFreeCluster /\ j.cluster = EOC
    BY <1>2, <1>3, <1>6, <1>15
  <2>2. Nobodys(own, pos, c) /\ ~Used(c)
    BY <1>1, <1>5, <2>1, FreeIsNobodys
  <2>3. Nobodys(own, pos, c)' /\ ~Used(c)'
    <3>1. Nobodys(own, pos, c)'
      BY <1>11, <2>2, NobodysFrame, ViewFacts
    <3>2. QED
      BY <1>11, <2>2, <3>1 DEF SameView, Used, FatNext
  <2>4. Nobodys(own, pos, job.prev)'
    BY <1>6, <1>11, <2>3 DEF Nobodys, Starts
  <2>5. PICK y, z, s : /\ y = <<"fat", 1, c, EOC>> /\ z = <<"zero", c>>
                       /\ s = <<"data", c, <<job.size, job.used + 1>> >>
    OBVIOUS
  <2>6. Allocate(c) = <<y>> \o <<z>> /\ store = <<s>>
    BY <1>4, <2>5 DEF Allocate, SetFat
  <2>7. CASE q = 0
    <3>1. f = 0 /\ j.first = c
      BY <1>1, <1>3, <1>6, <1>15, <2>7 DEF BodyInv
    <3>2. Slot(loc).first = 0
      BY <1>1, <1>3, <3>1 DEF BodyInv
    <3>3. OldEntry(own)' /\ Slot(job.loc)' = Slot(job.loc)
      BY <1>1, <1>3, <1>6, <1>11 DEF SameView, OldEntry, IsDot, Slot
    <3>4. w = Allocate(c) \o store /\ w # <<>>
      <4>1. w = ((<<y>> \o <<z>>) \o <<>>) \o <<s>>
        BY <1>4, <1>15, <2>6, <2>7
      <4>2. QED
        BY <2>6, <4>1, RoundWrites
    <3>5. Grows(c, store)'
      BY <1>11, <2>3, <3>4 DEF Grows
    <3>6. Grows(job.prev, Store)'
      BY <1>6, <1>11, <1>12, <3>5 DEF Grows, Ends, Used, FatNext
    <3>7. Storing(own, pos)'
      BY <1>3, <1>6, <1>8, <1>11, <2>1, <2>4, <3>1, <3>2, <3>3, <3>6 DEF Storing
    <3>8. QED
      BY <1>13, <3>3, <3>4, <3>7
  <2>8. CASE q # 0
    <3>1. q \in Clusters /\ f # 0 /\ own[q] = f /\ Ends(q) /\ j.first = f
      BY <1>1, <1>3, <1>6, <1>7, <1>15, <2>8 DEF BodyInv, Firsts
    <3>2. OldEntry(own)' /\ FirstInv(own, pos)' /\ Slot(job.loc)' = Slot(job.loc)
      <4>1. /\ Used(f)
            /\ \/ Slot(job.loc).first = 0 /\ Nobodys(own, pos, f)
               \/ Slot(job.loc).first = f
        BY <1>1, <1>3, <3>1 DEF BodyInv, FirstInv
      <4>2. OldEntry(own) /\ SameView /\ cwd' = cwd /\ job' = j /\ j.loc = job.loc
        BY <1>1, <1>3, <1>6, <1>11
      <4>3. QED
        BY <3>1, <4>1, <4>2, TargetKept
    <3>3. Used(f) /\ Used(q)
      BY <1>1, <1>3, <3>1 DEF BodyInv, FirstInv, Ends, Used
    <3>4. f # c /\ q # c
      BY <2>2, <3>3
    <3>5. w = Allocate(c) \o (SetFat(q, c) \o store) /\ w # <<>>
      <4>1. PICK d : d = <<"fat", 1, q, c>>
        OBVIOUS
      <4>2. SetFat(q, c) = <<d>>
        BY <4>1 DEF SetFat
      <4>3. w = ((<<y>> \o <<z>>) \o <<d>>) \o <<s>>
        BY <1>4, <1>15, <2>6, <2>8, <4>2
      <4>4. QED
        BY <2>6, <4>2, <4>3, RoundWrites
    <3>6. Grows(c, SetFat(q, c) \o store)'
      BY <1>11, <2>3, <3>5 DEF Grows, SetFat
    <3>7. Grows(job.prev, SetFat(q, job.prev) \o Store)'
      BY <1>6, <1>11, <1>12, <3>6 DEF Grows, Ends, Used, FatNext, SetFat
    <3>8. Ends(q)'
      BY <1>11, <3>1 DEF SameView, Ends, FatNext
    <3>9. Storing(own, pos)'
      BY <1>3, <1>6, <1>8, <1>11, <2>1, <2>4, <3>1, <3>2, <3>4, <3>7, <3>8 DEF Storing
    <3>10. QED
      BY <1>13, <3>2, <3>5, <3>9
  <2>9. QED
    BY <2>7, <2>8
<1>16. QED
  BY <1>14, <1>15

\* The call that is in progress, between its writes.
LEMMA CallFacts ==
  ASSUME Inv, NEW own, NEW pos, Sound(own, pos), NEW at \in {"slot", "entry", "return"},
         Ready(at)
  PROVE  /\ TypeOK /\ Base(own, pos) /\ todo = <<>> /\ job.at = at /\ Ahead = <<>>
         /\ job.call \in {"write", "touch", "mkdir", "rmdir", "remove"}
         /\ IntactInv /\ (at # "entry" => AllUsed)
         /\ at = "entry" => job.call \in {"write", "touch"} /\ WriteInv(own, pos)
         /\ at = "slot" => job.call = "mkdir" /\ MkdirInv(own, pos)
<1>1. todo = <<>> /\ job.at = at /\ job.call \notin {"idle", "off"}
  BY ReadyFacts
<1>2. TypeOK /\ Base(own, pos) /\ IntactInv /\ PhaseInv(own, pos) /\ Ahead = <<>>
  BY <1>1 DEF Inv, Sound, Ahead
<1>3. job.call \in {"write", "touch", "mkdir", "rmdir", "remove"}
  BY <1>1, <1>2 DEF TypeOK, JobType
<1>4. at # "entry" => AllUsed
  BY <1>1, <1>2, AllAreUsed
<1>5. QED
  BY <1>1, <1>2, <1>3, <1>4 DEF PhaseInv, WriteInv, MkdirInv, DeleteInv

\* The entry is told of its chain.
LEMMA WriteEntrySound ==
  ASSUME Inv, NEW own, NEW pos, Sound(own, pos), WriteEntry
  PROVE  ChainsInv'
<1>1. /\ TypeOK /\ Base(own, pos) /\ todo = <<>> /\ job.at = "entry" /\ Ahead = <<>>
      /\ job.call \in {"write", "touch"} /\ IntactInv /\ WriteInv(own, pos)
  BY CallFacts DEF WriteEntry
<1>2. OldEntry(own) /\ FirstInv(own, pos)
  BY <1>1 DEF WriteInv
<1>3. PICK j, f, loc, e, w :
        /\ j = [job EXCEPT !.at = "return", !.ret = Written] /\ f = job.first
        /\ loc = job.loc /\ e = [Slot(job.loc) EXCEPT !.first = job.first, !.size = Written]
        /\ w = SetSlot(loc, e)
  OBVIOUS
<1>4. /\ j.call = job.call /\ j.at = "return" /\ j.first = f /\ j.loc = loc
      /\ j.ret = Written /\ f \in Firsts /\ Written \in Nat
  BY <1>1, <1>3, WrittenType DEF TypeOK, JobType
<1>5. loc \in Places /\ e \in EntryType
  <2>1. loc \in Places
    BY <1>2, <1>3 DEF OldEntry
  <2>2. QED
    BY <1>1, <1>3, <1>4, <2>1, SlotType DEF EntryType
<1>6. w \in Seq(Fresh) /\ w # <<>>
  BY <1>3, <1>5, SetSlotFresh, OneWrite DEF SetSlot
<1>7. Begin(j, w)
  BY <1>3 DEF WriteEntry
<1>8. /\ SameView /\ cwd' = cwd /\ job' = j /\ Ahead' = w
      /\ Base(own, pos)' /\ TornLands(own)'
  BY <1>1, <1>6, <1>7, BeginFrame
<1>9. OldEntry(own)' /\ FirstInv(own, pos)' /\ Slot(job.loc)' = Slot(job.loc)
  BY <1>2, <1>3, <1>4, <1>8, TargetKept DEF FirstInv
<1>10. Finished' = e
  BY <1>3, <1>4, <1>8, <1>9 DEF Finished
<1>11. Ahead' = SetSlot(job.loc, Finished)'
  BY <1>3, <1>4, <1>8, <1>10 DEF SetSlot
<1>12. WriteInv(own, pos)'
  BY <1>4, <1>8, <1>9, <1>11 DEF WriteInv
<1>13. PhaseInv(own, pos)'
  BY <1>1, <1>4, <1>8, <1>12 DEF PhaseInv
<1>14. Losing => Losing'
  BY <1>1, <1>3, <1>4, <1>6, <1>8 DEF Losing
<1>15. IntactInv'
  <2>1. ASSUME NEW l \in Named' PROVE (~Used(Slot(l).first) => l = job.loc /\ Losing)'
    <3>1. l \in Named /\ Slot(l)' = Slot(l)
      BY <1>8, ViewFacts DEF Fewer
    <3>2. Used(Slot(l).first)' = Used(Slot(l).first)
      BY <1>8, <3>1 DEF SameView, Used, FatNext
    <3>3. ~Used(Slot(l).first) => l = job.loc /\ Losing
      BY <1>1, <3>1 DEF IntactInv
    <3>4. QED
      BY <1>3, <1>4, <1>8, <1>14, <3>2, <3>3
  <2>2. QED
    BY <2>1 DEF IntactInv
<1>16. QED
  BY <1>8, <1>13, <1>15 DEF ChainsInv, Sound

\* The call returns.
LEMMA CallReturnSound ==
  ASSUME Inv, NEW own, NEW pos, Sound(own, pos), CallReturn
  PROVE  ChainsInv'
<1>1. Base(own, pos) /\ todo = <<>> /\ AllUsed
  BY CallFacts DEF CallReturn
<1>2. QED
  BY <1>1, ReturnSound DEF CallReturn

\* A directory is begun with a cluster of its own.
LEMMA MkdirSound ==
  ASSUME Inv, NEW own, NEW pos, Sound(own, pos), NEW n \in Names, Mkdir(n)
  PROVE  ChainsInv'
<1>1. /\ TypeOK /\ Base(own, pos) /\ AllUsed /\ todo = <<>> /\ Ahead = <<>>
      /\ job.call # "off"
  BY IdleIsWhole DEF Mkdir
<1>2. PICK c, j, seed :
        /\ c = FindFreeCluster /\ seed = <<"seed", c, Seed(c)>>
        /\ j = [NoJob EXCEPT !.call = "mkdir", !.at = "slot", !.name = n, !.first = c]
  OBVIOUS
<1>3. (\E r : Return(r)) \/ (c # 0 /\ Begin(j, Allocate(c) \o <<seed>>))
  BY <1>2 DEF Mkdir
<1>4. CASE \E r : Return(r)
  BY <1>1, <1>4, ReturnSound
<1>5. CASE c # 0 /\ Begin(j, Allocate(c) \o <<seed>>)
  <2>1. Nobodys(own, pos, c) /\ ~Used(c) /\ c \in Clusters
    BY <1>1, <1>2, <1>5, FreeIsNobodys DEF Nobodys
  <2>2. j.call = "mkdir" /\ j.at = "slot" /\ j.first = c
    BY <1>2 DEF NoJob
  <2>3. PICK w : w = Allocate(c) \o <<seed>>
    OBVIOUS
  <2>4. w \in Seq(Fresh) /\ w # <<>>
    <3>1. seed \in Fresh
      BY <1>1, <1>2, <2>1, SeedType DEF Fresh, WriteType, TypeOK
    <3>2. <<seed>> \in Seq(Fresh) /\ Allocate(c) \in Seq(Fresh)
      BY <2>1, <3>1, AllocateFresh
    <3>3. w \in Seq(Fresh)
      BY <2>3, <3>2, ConcatProperties
    <3>4. PICK a, b : a = <<"fat", 1, c, EOC>> /\ b = <<"zero", c>>
      OBVIOUS
    <3>5. w = (<<a>> \o <<b>>) \o <<seed>>
      BY <2>3, <3>4 DEF Allocate, SetFat
    <3>6. QED
      BY <3>3, <3>5, RoundWrites
  <2>5. /\ SameView /\ cwd' = cwd /\ job' = j /\ Ahead' = w
        /\ Base(own, pos)' /\ TornLands(own)' /\ AllUsed'
    BY <1>1, <1>5, <2>3, <2>4, BeginFrame
  <2>6. Nobodys(own, pos, c)' /\ ~Used(c)'
    <3>1. Nobodys(own, pos, c)'
      BY <2>1, <2>5, NobodysFrame, ViewFacts
    <3>2. QED
      BY <2>1, <2>5, <3>1 DEF SameView, Used, FatNext
  <2>7. Nobodys(own, pos, job.first)' /\ ~Used(job.first)'
    BY <2>2, <2>5, <2>6 DEF Nobodys, Starts, Used, FatNext
  <2>8. <<"seed", job.first', Seed(job.first)'>> = seed
    BY <1>2, <2>2, <2>5 DEF Seed
  <2>9. Grows(job.first, << <<"seed", job.first, Seed(job.first)>> >>)'
    BY <2>2, <2>3, <2>5, <2>7, <2>8 DEF Grows, Allocate, SetFat
  <2>10. MkdirInv(own, pos)'
    BY <2>2, <2>5, <2>7, <2>9 DEF MkdirInv
  <2>11. PhaseInv(own, pos)'
    BY <2>2, <2>5, <2>10 DEF PhaseInv
  <2>12. IntactInv'
    BY <2>5 DEF AllUsed, IntactInv
  <2>13. QED
    BY <2>5, <2>11, <2>12 DEF ChainsInv, Sound
<1>6. QED
  BY <1>3, <1>4, <1>5

\* The new directory has its cluster, which no entry names yet.
LEMMA MkdirFacts ==
  ASSUME Inv, NEW own, NEW pos, Sound(own, pos), Ready("slot")
  PROVE  /\ TypeOK /\ Base(own, pos) /\ todo = <<>> /\ Ahead = <<>> /\ AllUsed
         /\ job.call = "mkdir" /\ job.name \in Names
         /\ Nobodys(own, pos, job.first) /\ Used(job.first) /\ Ends(job.first)
<1>1. /\ TypeOK /\ Base(own, pos) /\ todo = <<>> /\ Ahead = <<>> /\ AllUsed
      /\ job.call = "mkdir" /\ job.at = "slot" /\ MkdirInv(own, pos)
  BY CallFacts
<1>2. PICK c, s, a, b : /\ c = job.first /\ s = <<"seed", job.first, Seed(job.first)>>
                        /\ a = <<"fat", 1, job.first, EOC>> /\ b = <<"zero", job.first>>
  OBVIOUS
<1>3. Allocate(job.first) = <<a>> \o <<b>>
  BY <1>2 DEF Allocate, SetFat
<1>4. (<<a>> \o <<b>>) \o <<s>> # <<>> /\ <<b>> \o <<s>> # <<>> /\ <<s>> # <<>>
  BY RoundWrites, TwoWrites
<1>5. ~Grows(job.first, <<s>>)
  BY <1>1, <1>2, <1>3, <1>4 DEF Grows
<1>6. Ends(job.first) /\ Nobodys(own, pos, job.first)
  BY <1>1, <1>2, <1>5 DEF MkdirInv
<1>7. Used(job.first)
  BY <1>6 DEF Ends, Used
<1>8. job.name \in Names
  BY <1>1 DEF Inv, JobInv
<1>9. QED
  BY <1>1, <1>6, <1>7, <1>8

\* Its entry is made.
LEMMA MkdirEntrySound ==
  ASSUME Inv, NEW own, NEW pos, Sound(own, pos), MkdirEntry
  PROVE  ChainsInv'
<1>1. /\ TypeOK /\ Base(own, pos) /\ todo = <<>> /\ Ahead = <<>> /\ AllUsed
      /\ job.call = "mkdir" /\ job.name \in Names
      /\ Nobodys(own, pos, job.first) /\ Used(job.first)
  BY MkdirFacts DEF MkdirEntry
<1>2. PICK j, f, n, room, e, w :
        /\ j = [job EXCEPT !.at = "return", !.loc = RoomIn(cwd)] /\ f = job.first
        /\ n = job.name /\ room = RoomIn(cwd)
        /\ e = Entry(BuildName(job.name), TRUE, job.first, 0)
        /\ w = RoomWrites(cwd) \o SetSlot(room, e)
  OBVIOUS
<1>3. j.call = "mkdir" /\ j.at = "return" /\ j.loc = room /\ j.first = f /\ j.name = n
  BY <1>1, <1>2 DEF TypeOK, JobType
<1>4. f \in Clusters /\ cwd \in Clusters /\ n \in Names
  BY <1>1, <1>2, TableType DEF Nobodys, TypeOK
<1>5. room # NoPlace /\ room \in Places
  BY <1>2, RoomInFacts DEF MkdirEntry
<1>6. e \in EntryType
  BY <1>2, <1>4, NameType, EntryIsEntry DEF Firsts
<1>7. w \in Seq(Fresh) /\ w # <<>>
  <2>1. PICK a, b : a = RoomWrites(cwd) /\ b = SetSlot(room, e)
    OBVIOUS
  <2>2. a \in Seq(Fresh) /\ b \in Seq(Fresh) /\ b # <<>>
    BY <1>2, <1>4, <1>5, <1>6, <2>1, RoomWritesFresh, SetSlotFresh, OneWrite DEF SetSlot
  <2>3. a \o b \in Seq(Fresh) /\ a \o b # <<>>
    BY <2>2, ConcatProperties, ConcatEqualIffEmpty
  <2>4. QED
    BY <1>2, <2>1, <2>3
<1>8. Begin(j, w)
  BY <1>2 DEF MkdirEntry
<1>9. /\ SameView /\ cwd' = cwd /\ job' = j /\ Ahead' = w
      /\ Base(own, pos)' /\ TornLands(own)' /\ AllUsed'
  BY <1>1, <1>7, <1>8, BeginFrame
<1>10. Making(own, pos, e)'
  BY <1>1, <1>2, <1>3, <1>5, <1>9, RoomMakes
<1>11. NewDir' = e
  BY <1>2, <1>3, <1>9 DEF NewDir
<1>12. Making(own, pos, NewDir)'
  BY <1>10, <1>11 DEF Making
<1>13. Nobodys(own, pos, job.first)' /\ Used(job.first)'
  <2>1. Nobodys(own, pos, f)'
    BY <1>1, <1>2, <1>9, NobodysFrame, ViewFacts
  <2>2. QED
    BY <1>1, <1>2, <1>3, <1>9, <2>1 DEF Nobodys, Starts, SameView, Used, FatNext
<1>14. MkdirInv(own, pos)'
  BY <1>3, <1>4, <1>9, <1>12, <1>13 DEF MkdirInv
<1>15. PhaseInv(own, pos)'
  BY <1>3, <1>9, <1>14 DEF PhaseInv
<1>16. IntactInv'
  BY <1>9 DEF AllUsed, IntactInv
<1>17. QED
  BY <1>9, <1>15, <1>16 DEF ChainsInv, Sound

\* There is no room for its entry: the cluster is given back.
LEMMA MkdirFullSound ==
  ASSUME Inv, NEW own, NEW pos, Sound(own, pos), MkdirFull
  PROVE  ChainsInv'
<1>1. /\ TypeOK /\ Base(own, pos) /\ todo = <<>> /\ Ahead = <<>> /\ AllUsed
      /\ job.call = "mkdir" /\ Nobodys(own, pos, job.first)
  BY MkdirFacts DEF MkdirFull
<1>2. PICK j, f, loc, w : /\ j = [job EXCEPT !.at = "return", !.ret = -2]
                          /\ f = job.first /\ loc = job.loc /\ w = FreeChain(job.first)
  OBVIOUS
<1>3. j.call = "mkdir" /\ j.at = "return" /\ j.loc = loc
  BY <1>1, <1>2 DEF TypeOK, JobType
<1>4. w = FreeAll(Chain(f)) /\ w \in Seq(Fresh) /\ w \in Seq(WriteType)
  BY <1>2, FreeChainIs, FreshAreWrites
<1>5. /\ SameView /\ cwd' = cwd /\ job' = j /\ Ahead' = w
      /\ Base(own, pos)' /\ TornLands(own)' /\ AllUsed'
  BY <1>1, <1>2, <1>4, BeginFrame DEF MkdirFull
<1>6. PICK s : s = Chain(f)
  OBVIOUS
<1>7. Doomed(own, s, {}, loc, FALSE, 0)
  <2>1. /\ f \in Clusters /\ own[f] = f /\ pos[f] = 0 /\ f # Root /\ f # cwd
        /\ \A l \in Named : Slot(l).first # f
    BY <1>1, <1>2 DEF Nobodys, Starts
  <2>2. \A x \in Clusters : FatNext(x) # f
    BY <1>1, <2>1, HeadsFollowNone
  <2>3. QED
    BY <1>1, <1>6, <2>1, <2>2, ChainDoomed
<1>8. Doomed(own, s, {}, loc, FALSE, 0)'
  BY <1>5, <1>7, ViewDoomed
<1>9. Doomed(own, s, {}, job.loc, FALSE, 0)'
  BY <1>3, <1>5, <1>8 DEF Doomed
<1>10. Ahead' = FreeAll(s) \o <<>>
  BY <1>4, <1>5, <1>6, ConcatEmptySeq
<1>11. Freeing(own, <<>>, FALSE, 0)'
  BY <1>9, <1>10 DEF Freeing
<1>12. MkdirInv(own, pos)'
  BY <1>3, <1>5, <1>11 DEF MkdirInv
<1>13. PhaseInv(own, pos)'
  BY <1>3, <1>5, <1>12 DEF PhaseInv
<1>14. IntactInv'
  BY <1>5 DEF AllUsed, IntactInv
<1>15. QED
  BY <1>5, <1>13, <1>14 DEF ChainsInv, Sound

\* A delete of what is not the current directory.
LEMMA DeleteSound ==
  ASSUME Inv, NEW own, NEW pos, Sound(own, pos), Idle, NEW call \in {"rmdir", "remove"},
         NEW n \in Names, NEW l, l = FindEntry(cwd, BuildName(n)), l # NoPlace,
         Slot(l).first # cwd, Delete(call, n, l)
  PROVE  ChainsInv'
<1>1. /\ TypeOK /\ Base(own, pos) /\ AllUsed /\ todo = <<>> /\ Ahead = <<>>
      /\ job.call # "off"
  BY IdleIsWhole
<1>2. l \in Places /\ (Slot(l).first # 0 => l \in Named)
  BY <1>1, EntryFound
<1>3. PICK j, f, w :
        /\ j = [NoJob EXCEPT !.call = call, !.at = "return", !.name = n, !.loc = l]
        /\ f = Slot(l).first /\ w = FreeChain(f) \o SetSlot(l, Deleted)
  OBVIOUS
<1>4. j.call = call /\ j.at = "return" /\ j.loc = l
  BY <1>3 DEF NoJob
<1>5. w = FreeAll(Chain(f)) \o SetSlot(l, Deleted) /\ w \in Seq(Fresh)
  <2>1. FreeChain(f) = FreeAll(Chain(f)) /\ FreeChain(f) \in Seq(Fresh)
    BY FreeChainIs
  <2>2. SetSlot(l, Deleted) \in Seq(Fresh)
    BY <1>2, EndMarkType, SetSlotFresh
  <2>3. QED
    BY <1>3, <2>1, <2>2, ConcatProperties
<1>6. /\ SameView /\ cwd' = cwd /\ job' = j /\ Ahead' = w
      /\ Base(own, pos)' /\ TornLands(own)' /\ AllUsed'
  BY <1>1, <1>3, <1>5, BeginFrame DEF Delete
<1>7. PICK s : s = Chain(f)
  OBVIOUS
<1>8. Doomed(own, s, {}, l, TRUE, 0)
  <2>1. CASE f = 0
    <3>1. f \notin Clusters
      BY <2>1, ClustersAre
    <3>2. QED
      BY <1>7, <3>1, ChainOfNone, NoneDoomed
  <2>2. CASE f # 0
    <3>1. l \in Named /\ f \in Clusters /\ own[f] = f /\ pos[f] = 0 /\ f # Root /\ f # cwd
      BY <1>1, <1>2, <1>3, <2>2, TableType DEF Base, HeadsInv, Starts
    <3>2. \A m \in Named : Slot(m).first = f => m = l
      BY <1>1, <1>3, <3>1 DEF Base, HeadsInv
    <3>3. \A x \in Clusters : FatNext(x) # f
      BY <1>1, <3>1, HeadsFollowNone
    <3>4. QED
      BY <1>1, <1>7, <3>1, <3>2, <3>3, ChainDoomed
  <2>3. QED
    BY <2>1, <2>2
<1>9. Doomed(own, s, {}, l, TRUE, 0)'
  BY <1>6, <1>8, ViewDoomed
<1>10. Doomed(own, s, {}, job.loc, TRUE, 0)'
  BY <1>4, <1>6, <1>9 DEF Doomed
<1>11. Ahead' = FreeAll(s) \o SetSlot(job.loc', Deleted)
  BY <1>4, <1>5, <1>6, <1>7
<1>12. Freeing(own, SetSlot(job.loc, Deleted), TRUE, 0)'
  BY <1>10, <1>11 DEF Freeing, SetSlot
<1>13. DeleteInv(own)'
  BY <1>2, <1>4, <1>6, <1>12 DEF DeleteInv
<1>14. PhaseInv(own, pos)'
  BY <1>4, <1>6, <1>13 DEF PhaseInv
<1>15. IntactInv'
  BY <1>6 DEF AllUsed, IntactInv
<1>16. QED
  BY <1>6, <1>14, <1>15 DEF ChainsInv, Sound

\* rmdir refuses the current directory, and remove any directory.
LEMMA RmdirSound ==
  ASSUME Inv, NEW own, NEW pos, Sound(own, pos), NEW n \in Names, Rmdir(n)
  PROVE  ChainsInv'
<1>1. PICK l : l = FindEntry(cwd, BuildName(n))
  OBVIOUS
<1>2. Idle
  BY DEF Rmdir
<1>3. /\ TypeOK /\ Base(own, pos) /\ AllUsed /\ todo = <<>>
  BY <1>2, IdleIsWhole
<1>4. CASE \E r : Return(r)
  BY <1>3, <1>4, ReturnSound
<1>5. CASE /\ l # NoPlace /\ (IF Slot(l).first = 0 THEN Root ELSE Slot(l).first) # cwd
           /\ Delete("rmdir", n, l)
  <2>1. Slot(l).first # cwd
    <3>1. cwd # 0
      BY <1>3, ClustersAre DEF TypeOK
    <3>2. QED
      BY <1>5, <3>1
  <2>2. QED
    BY <1>1, <1>2, <1>5, <2>1, DeleteSound
<1>6. QED
  BY <1>1, <1>4, <1>5 DEF Rmdir

LEMMA RemoveFileSound ==
  ASSUME Inv, NEW own, NEW pos, Sound(own, pos), NEW n \in Names, RemoveFile(n)
  PROVE  ChainsInv'
<1>1. PICK l : l = FindEntry(cwd, BuildName(n))
  OBVIOUS
<1>2. Idle
  BY DEF RemoveFile
<1>3. /\ TypeOK /\ Base(own, pos) /\ AllUsed /\ todo = <<>>
  BY <1>2, IdleIsWhole
<1>4. CASE \E r : Return(r)
  BY <1>3, <1>4, ReturnSound
<1>5. CASE l # NoPlace /\ ~Slot(l).dir /\ Delete("remove", n, l)
  <2>1. Slot(l).first # 0 => l \in Named
    BY <1>1, <1>3, <1>5, EntryFound
  <2>2. cwd # 0
    BY <1>3, ClustersAre DEF TypeOK
  <2>3. Slot(l).first # cwd
    BY <1>3, <1>5, <2>1, <2>2 DEF Base, CwdInv
  <2>4. QED
    BY <1>1, <1>2, <1>5, <2>3, DeleteSound
<1>6. QED
  BY <1>1, <1>4, <1>5 DEF RemoveFile

\* The current directory changes to the root or to a directory with a cluster.
LEMMA MoveSound ==
  ASSUME Inv, NEW own, NEW pos, Sound(own, pos), Idle,
         UNCHANGED <<fat, dirs, job, todo>>, NEW d, cwd' = d,
         Starts(own, pos, d), Used(d), \A l \in Named : Slot(l).first = d => Slot(l).dir
  PROVE  ChainsInv'
<1>1. TypeOK /\ Base(own, pos) /\ AllUsed /\ todo = <<>> /\ Ahead = <<>>
  BY IdleIsWhole
<1>2. SameView /\ todo' = <<>> /\ Ahead' = <<>> /\ job'.call = "idle"
  BY <1>1 DEF SameView, Ahead, Idle
<1>3. Labels(own, pos)' /\ TableInv(own, pos)' /\ HeadsInv(own, pos)'
  <2>1. Labels(own, pos) /\ TableInv(own, pos) /\ HeadsInv(own, pos)
    BY <1>1 DEF Base
  <2>2. Named' = Named /\ \A l \in Named : Slot(l)' = Slot(l)
    BY <1>2, ViewFacts DEF SameSlots, Named
  <2>3. QED
    BY <1>2, <2>1, <2>2 DEF Labels, TableInv, HeadsInv, Starts, Used, FatNext, SameView
<1>4. CwdInv(own, pos)'
  <2>1. Used(cwd)' /\ Starts(own, pos, cwd)'
    BY <1>2 DEF SameView, Used, FatNext, Starts
  <2>2. \A l \in Named' : l \in Named /\ Slot(l)' = Slot(l)
    BY <1>2, ViewFacts DEF Fewer
  <2>3. QED
    BY <2>1, <2>2 DEF CwdInv
<1>5. IntactInv'
  <2>1. ASSUME NEW l \in Named' PROVE Used(Slot(l).first)'
    <3>1. l \in Named /\ Slot(l)' = Slot(l)
      BY <1>2, <2>1, ViewFacts DEF Fewer
    <3>2. QED
      BY <1>1, <1>2, <3>1 DEF AllUsed, SameView, Used, FatNext
  <2>2. QED
    BY <2>1 DEF IntactInv
<1>6. PhaseInv(own, pos)' /\ TornLands(own)'
  BY <1>2 DEF PhaseInv, TornLands
<1>7. QED
  BY <1>3, <1>4, <1>5, <1>6 DEF ChainsInv, Sound, Base

LEMMA ChangeToRootSound ==
  ASSUME Inv, NEW own, NEW pos, Sound(own, pos), ChangeToRoot
  PROVE  ChainsInv'
<1>1. Idle /\ cwd' = Root /\ UNCHANGED <<fat, dirs, job, todo>>
  BY DEF ChangeToRoot
<1>2. /\ Starts(own, pos, Root) /\ Used(Root)
      /\ \A l \in Named : Slot(l).first # Root
  BY DEF Sound, Base, HeadsInv
<1>3. QED
  BY <1>1, <1>2, MoveSound

LEMMA ChangeDirSound ==
  ASSUME Inv, NEW own, NEW pos, Sound(own, pos), NEW n \in Names \cup {DotDot}, ChangeDir(n)
  PROVE  ChainsInv'
<1>1. PICK l : l = FindEntry(cwd, BuildName(n))
  OBVIOUS
<1>2. Idle /\ UNCHANGED <<fat, dirs, job, todo>>
  BY DEF ChangeDir
<1>3. TypeOK /\ Base(own, pos) /\ AllUsed
  BY <1>2, IdleIsWhole
<1>4. \/ cwd' = cwd \/ cwd' = Root
      \/ l # NoPlace /\ Slot(l).dir /\ Slot(l).first # 0 /\ cwd' = Slot(l).first
  BY <1>1 DEF ChangeDir
<1>5. CASE cwd' = cwd
  <2>1. PICK d : d = cwd
    OBVIOUS
  <2>2. /\ Starts(own, pos, d) /\ Used(d) /\ cwd' = d
        /\ \A m \in Named : Slot(m).first = d => Slot(m).dir
    BY <1>3, <1>5, <2>1 DEF Base, CwdInv
  <2>3. QED
    BY <1>2, <2>2, MoveSound
<1>6. CASE cwd' = Root
  <2>1. /\ Starts(own, pos, Root) /\ Used(Root)
        /\ \A m \in Named : Slot(m).first # Root
    BY <1>3 DEF Base, HeadsInv
  <2>2. QED
    BY <1>2, <1>6, <2>1, MoveSound
<1>7. CASE l # NoPlace /\ Slot(l).dir /\ Slot(l).first # 0 /\ cwd' = Slot(l).first
  <2>1. l \in Named
    BY <1>1, <1>3, <1>7, EntryFound
  <2>2. PICK d : d = Slot(l).first
    OBVIOUS
  <2>3. Starts(own, pos, d) /\ Used(d) /\ cwd' = d
    BY <1>3, <1>7, <2>1, <2>2 DEF Base, HeadsInv, AllUsed
  <2>4. \A m \in Named : Slot(m).first = d => Slot(m).dir
    BY <1>3, <1>7, <2>1, <2>2 DEF Base, HeadsInv
  <2>5. QED
    BY <1>2, <2>3, <2>4, MoveSound
<1>8. QED
  BY <1>4, <1>5, <1>6, <1>7

\* The power fails: the volume is left as it is, and the machine too when an entry
\* names a free cluster.
LEMMA CrashSound ==
  ASSUME Inv, NEW own, NEW pos, Sound(own, pos), Crash
  PROVE  ChainsInv'
<1>1. /\ TypeOK /\ Base(own, pos) /\ SameView /\ cwd' = Root /\ todo' = <<>>
      /\ job' = IF \E l \in Kept : Dangles(l) THEN Off ELSE NoJob
  BY DEF Inv, Sound, Crash, SameView, disk
<1>2. Named' = Named /\ \A l \in Named : Slot(l)' = Slot(l)
  BY <1>1, ViewFacts DEF SameSlots, Named
<1>3. Labels(own, pos)' /\ TableInv(own, pos)' /\ HeadsInv(own, pos)'
  <2>1. Labels(own, pos) /\ TableInv(own, pos) /\ HeadsInv(own, pos)
    BY <1>1 DEF Base
  <2>2. QED
    BY <1>1, <1>2, <2>1 DEF Labels, TableInv, HeadsInv, Starts, Used, FatNext, SameView
<1>4. CwdInv(own, pos)'
  BY <1>1, <1>3 DEF HeadsInv, CwdInv, Starts, Used, FatNext
<1>5. TornLands(own)' /\ Ahead' = <<>>
  BY <1>1 DEF TornLands, Ahead
<1>6. CASE \E l \in Kept : Dangles(l)
  <2>1. job'.call = "off"
    BY <1>1, <1>6 DEF Off, NoJob
  <2>2. QED
    BY <1>3, <1>4, <2>1 DEF ChainsInv, Sound, Base
<1>7. CASE ~ \E l \in Kept : Dangles(l)
  <2>1. job'.call = "idle"
    BY <1>1, <1>7 DEF NoJob
  <2>2. PhaseInv(own, pos)'
    BY <1>5, <2>1 DEF PhaseInv
  <2>3. ASSUME NEW l \in Named PROVE Used(Slot(l).first)
    <3>1. l \in Kept
      BY <2>3 DEF Named, Kept, Places
    <3>2. Slot(l).first \in Clusters
      BY <1>1, <2>3, TableType
    <3>3. Slot(l).first \in ToSet(ChainOf(l))
      <4>1. PICK c : c = Slot(l).first
        OBVIOUS
      <4>2. /\ Chain(c) \in Seq(Clusters) /\ Len(Chain(c)) >= 1 /\ Chain(c)[1] = c
        BY <3>2, <4>1, ChainFacts
      <4>3. 1 \in 1 .. Len(Chain(c))
        BY <4>2
      <4>4. QED
        BY <4>1, <4>2, <4>3, ToSetIs DEF ChainOf
    <3>4. QED
      BY <1>7, <3>1, <3>3 DEF Dangles, Used
  <2>4. IntactInv'
    BY <1>1, <1>2, <2>3 DEF IntactInv, SameView, Used, FatNext
  <2>5. QED
    BY <1>3, <1>4, <1>5, <2>2, <2>4 DEF ChainsInv, Sound, Base
<1>8. QED
  BY <1>6, <1>7

\* A formatted volume has one chain, the root's, and no entry.
LEMMA InitSound ==
  ASSUME Init PROVE ChainsInv
<1>1. PICK own, pos : own = [c \in Clusters |-> c] /\ pos = [c \in Clusters |-> 0]
  OBVIOUS
<1>2. 1 \in 1 .. Copies
  BY Fat32Assumption
<1>3. \A c \in Clusters : FatNext(c) = IF c = Root THEN EOC ELSE 0
  BY <1>2 DEF Init, FatNext
<1>4. \A l \in Places : Slot(l).first = 0
  <2>1. ASSUME NEW l \in Places PROVE Slot(l).first = 0
    <3>1. l[1] \in Clusters /\ l[2] \in 1 .. Slots
      BY <2>1 DEF Places
    <3>2. dirs[l[1]] \in {EmptyDir, StaleDir}
      BY <3>1 DEF Init
    <3>3. QED
      BY <3>1, <3>2, SlotsOfStale DEF Slot
  <2>2. QED
    BY <2>1
<1>5. Named = {}
  BY <1>4 DEF Named
<1>6. Labels(own, pos)
  BY <1>1 DEF Labels
<1>7. TableInv(own, pos) /\ HeadsInv(own, pos) /\ CwdInv(own, pos)
  BY <1>1, <1>3, <1>5, ClustersAre DEF TableInv, HeadsInv, CwdInv, Starts, Used, Init
<1>8. IntactInv /\ PhaseInv(own, pos) /\ TornLands(own)
  BY <1>5 DEF Init, IntactInv, PhaseInv, TornLands, NoJob, Ahead
<1>9. QED
  BY <1>6, <1>7, <1>8 DEF ChainsInv, Sound, Base

\* Nothing changes.
LEMMA StutterSound ==
  ASSUME Inv, NEW own, NEW pos, Sound(own, pos), UNCHANGED vars
  PROVE  ChainsInv'
<1>1. /\ TypeOK /\ Base(own, pos) /\ SameView /\ cwd' = cwd /\ job' = job
      /\ todo' = todo /\ Ahead' = Ahead
  BY DEF Inv, Sound, SameView, Ahead, vars
<1>2. Base(own, pos)'
  BY <1>1, BaseSame, ViewFacts
<1>3. CASE job.call = "off"
  BY <1>1, <1>2, <1>3 DEF ChainsInv, Sound
<1>4. CASE job.call # "off"
  <2>1. IntactInv /\ PhaseInv(own, pos) /\ TornLands(own)
    BY <1>4 DEF Sound
  <2>2. IntactInv'
    <3>1. Losing => Losing'
      BY <1>1 DEF Losing
    <3>2. QED
      BY <1>1, <2>1, <3>1, IntactFrame, ViewFacts
  <2>3. PhaseInv(own, pos)'
    BY <1>1, <2>1, ViewPhase
  <2>4. TornLands(own)'
    <3>1. PICK d, w : d = cwd /\ w = Head(todo)
      OBVIOUS
    <3>2. Chain(d)' = Chain(d)
      BY <1>1, ViewChain
    <3>3. Aside(own, w[3]) => Aside(own, w[3])'
      BY <1>1, ViewFacts DEF Aside, Fewer
    <3>4. Aside(own, w[3])' => Aside(own, Head(todo)[3])'
      BY <1>1, <3>1 DEF Aside
    <3>5. Extends(w) => Extends(Head(todo))'
      BY <1>1, <3>1, <3>2 DEF Extends
    <3>6. QED
      BY <1>1, <2>1, <3>1, <3>3, <3>4, <3>5 DEF TornLands, IsCopy
  <2>5. QED
    BY <1>2, <2>2, <2>3, <2>4 DEF ChainsInv, Sound
<1>5. QED
  BY <1>3, <1>4

\* No step breaks the chains.
LEMMA NextSound ==
  ASSUME Inv, ChainsInv, [Next]_vars PROVE ChainsInv'
<1>1. PICK own, pos : Sound(own, pos)
  BY DEF ChainsInv
<1>2. CASE Step
  BY <1>1, <1>2, SectorSound, WriteNothingSound, WriteClusterSound, WriteTrimSound,
     WriteEntrySound, MkdirEntrySound, MkdirFullSound, CallReturnSound DEF Step
<1>3. ASSUME NEW n \in Names, NEW size \in Sizes, Write(n, size) PROVE ChainsInv'
  <2>1. size \in Nat
    BY Fat32Assumption
  <2>2. QED
    BY <1>1, <1>3, <2>1, WriteFileSound DEF Write
<1>4. ASSUME NEW n \in Names, Touch(n) PROVE ChainsInv'
  BY <1>1, <1>4, WriteFileSound DEF Touch
<1>5. CASE Call
  BY <1>1, <1>3, <1>4, <1>5, MkdirSound, RmdirSound, RemoveFileSound, ChangeDirSound,
     ChangeToRootSound DEF Call
<1>6. QED
  BY <1>1, <1>2, <1>5, CrashSound, StutterSound DEF Next

-----------------------------------------------------------------------------
(***************************************************************************)
(* What the chains mean for the volume                                     *)
(***************************************************************************)
\* A listed entry is one on the medium.
LEMMA EntriesAre ==
  ASSUME NEW l \in Entries
  PROVE  /\ l \in Places /\ Slot(l).state = "used" /\ ~IsDot(Slot(l))
         /\ Slot(l).first # 0 => l \in Named
<1>1. PICK d : l \in Holds(d)
  BY DEF Entries
<1> DEFINE chain == Chain(d)
<1>2. ~IsDot(Slot(l)) /\ \E p \in Listed(chain) : l = Place(chain, p)
  BY <1>1 DEF Holds
<1>3. PICK p \in Listed(chain) : l = Place(chain, p)
  BY <1>2
<1>4. p \in Positions(chain) /\ Slot(l).state = "used"
  BY <1>3 DEF Listed
<1>5. chain \in Seq(Clusters)
  BY ChainFacts
<1> HIDE DEF chain
<1>6. l \in Places
  BY <1>3, <1>4, <1>5 DEF Positions, Place, Places
<1>7. QED
  BY <1>2, <1>4, <1>6 DEF Named

\* The clusters of an entry's chain carry its first cluster as their label, and are
\* in use when that one is.
LEMMA EntryLabels ==
  ASSUME TypeOK, NEW own, NEW pos, Base(own, pos), NEW l \in Entries, NEW c \in ToSet(ChainOf(l))
  PROVE  /\ l \in Named /\ c \in Clusters /\ own[c] = Slot(l).first
         /\ Used(Slot(l).first) => Used(c)
<1>1. PICK f : f = Slot(l).first
  OBVIOUS
<1>2. ChainOf(l) = Chain(f)
  BY <1>1 DEF ChainOf
<1>3. Chain(f) \in Seq(Clusters)
  BY ChainFacts
<1>4. PICK k \in 1 .. Len(Chain(f)) : c = Chain(f)[k]
  BY <1>2, <1>3, ToSetIs
<1>5. f # 0
  <2>1. CASE f = 0
    <3>1. Chain(f) = <<>>
      BY <2>1, ChainOfNone, ClustersAre
    <3>2. QED
      BY <1>4, <3>1
  <2>2. QED
    BY <2>1
<1>6. l \in Named
  BY <1>1, <1>5, EntriesAre
<1>7. f \in Clusters /\ own[f] = f
  BY <1>1, <1>6, TableType DEF Base, HeadsInv, Starts
<1>8. own[c] = f /\ (Used(f) => Used(c))
  BY <1>4, <1>7, ChainLabels DEF Base
<1>9. QED
  BY <1>1, <1>3, <1>4, <1>6, <1>8

\* The clusters of the root carry its label and are in use.
LEMMA RootLabels ==
  ASSUME TypeOK, NEW own, NEW pos, Base(own, pos), NEW c \in ToSet(Chain(Root))
  PROVE  own[c] = Root /\ Used(c)
<1>1. Chain(Root) \in Seq(Clusters) /\ Root \in Clusters /\ own[Root] = Root /\ Used(Root)
  BY ChainFacts, ClustersAre DEF Base, HeadsInv, Starts
<1>2. PICK k \in 1 .. Len(Chain(Root)) : c = Chain(Root)[k]
  BY <1>1, ToSetIs
<1>3. QED
  BY <1>1, <1>2, ChainLabels DEF Base

\* The three properties of the volume follow.
LEMMA ChainsAreApart ==
  ASSUME Inv, ChainsInv PROVE NoCrossLinks
<1>1. PICK own, pos : TypeOK /\ Base(own, pos)
  BY DEF Inv, ChainsInv, Sound
<1>2. ASSUME NEW l \in Entries, NEW m \in Entries, l # m
      PROVE  ToSet(ChainOf(l)) \cap ToSet(ChainOf(m)) = {}
  <2>1. ASSUME NEW c, c \in ToSet(ChainOf(l)), c \in ToSet(ChainOf(m)) PROVE FALSE
    <3>1. l \in Named /\ own[c] = Slot(l).first
      BY <1>1, <2>1, EntryLabels
    <3>2. m \in Named /\ own[c] = Slot(m).first
      BY <1>1, <2>1, EntryLabels
    <3>3. QED
      BY <1>1, <1>2, <3>1, <3>2 DEF Base, HeadsInv
  <2>2. QED
    BY <2>1
<1>3. ASSUME NEW l \in Entries PROVE ToSet(ChainOf(l)) \cap ToSet(Chain(Root)) = {}
  <2>1. ASSUME NEW c, c \in ToSet(ChainOf(l)), c \in ToSet(Chain(Root)) PROVE FALSE
    <3>1. l \in Named /\ own[c] = Slot(l).first
      BY <1>1, <2>1, EntryLabels
    <3>2. own[c] = Root
      BY <1>1, <2>1, RootLabels
    <3>3. QED
      BY <1>1, <3>1, <3>2 DEF Base, HeadsInv
  <2>2. QED
    BY <2>1
<1>4. ASSUME NEW l \in Entries PROVE IsInjective(ChainOf(l))
  <2>1. PICK f, chain : f = Slot(l).first /\ chain = Chain(f) /\ chain = ChainOf(l)
    BY DEF ChainOf
  <2>2. chain \in Seq(Clusters) /\ DOMAIN chain = 1 .. Len(chain) /\ Len(chain) \in Nat
    <3>1. chain \in Seq(Clusters)
      BY <2>1, ChainFacts
    <3>2. QED
      BY <3>1
  <2>3. ASSUME NEW j \in 1 .. Len(chain), NEW k \in 1 .. Len(chain), chain[j] = chain[k]
        PROVE  j = k
    <3>1. f \in Clusters
      <4>1. f \notin Clusters => chain = <<>>
        BY <2>1, ChainOfNone
      <4>2. QED
        BY <2>3, <4>1
    <3>2. \A a, b \in 1 .. Len(chain) : a < b => pos[chain[a]] < pos[chain[b]]
      <4>1. Labels(own, pos) /\ TableInv(own, pos)
        BY <1>1 DEF Base
      <4>2. QED
        <5>1. \A a, b \in 1 .. Len(Chain(f)) : a < b => pos[Chain(f)[a]] < pos[Chain(f)[b]]
          BY <1>1, <3>1, <4>1, ChainLabels
        <5>2. QED
          BY <2>1, <5>1
    <3>3. pos[chain[j]] \in Nat
      BY <1>1, <2>2 DEF Base, Labels
    <3>4. ~(j < k) /\ ~(k < j)
      BY <2>3, <3>2, <3>3
    <3>5. QED
      BY <3>4
  <2>4. IsInjective(chain)
    BY <2>2, <2>3 DEF IsInjective
  <2>5. QED
    BY <2>1, <2>4
<1>5. QED
  BY <1>2, <1>3, <1>4 DEF NoCrossLinks

LEMMA TargetDangles ==
  ASSUME Inv, ChainsInv PROVE OnlyTargetDangles
<1>1. PICK own, pos : TypeOK /\ Sound(own, pos)
  BY DEF Inv, ChainsInv
<1>2. ASSUME NEW l \in Entries, Dangles(l)
      PROVE  /\ job.call \in {"write", "touch", "rmdir", "remove", "off"}
             /\ job.call # "off" => l = job.loc
  <2>1. PICK c \in ToSet(ChainOf(l)) : FatNext(c) = 0
    BY <1>2 DEF Dangles
  <2>2. l \in Named /\ ~Used(Slot(l).first)
    BY <1>1, <2>1, EntryLabels DEF Sound, Used
  <2>3. CASE job.call # "off"
    <3>1. l = job.loc /\ Losing
      BY <1>1, <2>2, <2>3 DEF Sound, IntactInv
    <3>2. QED
      BY <3>1 DEF Losing
  <2>4. QED
    BY <2>3
<1>3. QED
  BY <1>2 DEF OnlyTargetDangles

LEMMA WritesLand ==
  ASSUME Inv, ChainsInv PROVE WritesStayOnTarget
<1> SUFFICES ASSUME todo # <<>> PROVE WritesStayOnTarget
  BY DEF WritesStayOnTarget
<1>1. PICK own, pos : TypeOK /\ Sound(own, pos)
  BY DEF Inv, ChainsInv
<1>2. /\ Base(own, pos) /\ job.call # "off"
      /\ IntactInv /\ PhaseInv(own, pos) /\ TornLands(own)
  BY <1>1 DEF Sound, Inv, JobInv
<1>3. PICK w : w = Head(todo)
  OBVIOUS
<1>4. ASSUME NEW c, Aside(own, c)
      PROVE  /\ c \notin ToSet(Chain(Root))
             /\ \A l \in Entries \ {job.loc} : c \notin ToSet(ChainOf(l))
  <2>1. c \notin ToSet(Chain(Root))
    BY <1>1, <1>2, <1>4, RootLabels DEF Aside
  <2>2. ASSUME NEW l \in Entries, c \in ToSet(ChainOf(l)) PROVE l = job.loc
    <3>1. l \in Named /\ own[c] = Slot(l).first
      BY <1>1, <1>2, <2>2, EntryLabels
    <3>2. QED
      BY <1>4, <3>1 DEF Aside
  <2>3. QED
    BY <2>1, <2>2
<1>5. CASE ~IsCopy(w)
  <2>1. Ahead = todo
    BY <1>3, <1>5 DEF Ahead, IsCopy
  <2>2. Lands(own, w)
    BY <1>1, <1>2, <1>3, <2>1, PhaseLands
  <2>3. QED
    BY <1>3, <1>4, <2>2 DEF WritesStayOnTarget, Lands, Extends
<1>6. CASE IsCopy(w) /\ w[4] # 0
  <2>1. w[1] # "slot" /\ Hit(w) = w[3]
    BY <1>6 DEF IsCopy, Hit
  <2>2. Extends(w) \/ Aside(own, w[3])
    BY <1>2, <1>3, <1>6 DEF TornLands
  <2>3. QED
    BY <1>3, <1>4, <2>1, <2>2 DEF WritesStayOnTarget, Extends
<1>7. CASE IsCopy(w) /\ w[4] = 0
  <2>1. w[1] = "fat" /\ w[2] > 1 /\ Hit(w) = w[3]
    BY <1>7 DEF IsCopy, Hit
  <2>2. ~Used(w[3])
    <3>1. \A j \in 1 .. w[2] - 1 : fat[j][w[3]] = w[4]
      BY <1>3, <2>1 DEF Inv, HeadInv
    <3>2. w[2] \in 1 .. Copies
      <4>1. w \in WriteType
        BY <1>1, <1>3 DEF TypeOK
      <4>2. QED
        BY <2>1, <4>1, WriteKinds
    <3>3. 1 \in 1 .. w[2] - 1
      BY <2>1, <3>2, Fat32Assumption
    <3>4. QED
      BY <1>7, <3>1, <3>3 DEF Used, FatNext
  <2>3. w[3] \notin ToSet(Chain(Root))
    BY <1>1, <1>2, <2>2, RootLabels
  <2>4. ASSUME NEW l \in Entries, w[3] \in ToSet(ChainOf(l)) PROVE l = job.loc
    <3>1. l \in Named /\ ~Used(Slot(l).first)
      BY <1>1, <1>2, <2>2, <2>4, EntryLabels
    <3>2. QED
      BY <1>2, <3>1 DEF IntactInv
  <2>5. QED
    BY <1>3, <2>1, <2>3, <2>4 DEF WritesStayOnTarget
<1>8. QED
  BY <1>5, <1>6, <1>7

\* The chains stay as described, through every sector write and power failure.
LEMMA ChainsHold == Spec => [](Inv /\ ChainsInv)
<1>1. Init => Inv /\ ChainsInv
  BY InitInv, InitSound
<1>2. (Inv /\ ChainsInv) /\ [Next]_vars => (Inv /\ ChainsInv)'
  BY NextKeeps, NextSound
<1>3. QED
  BY <1>1, <1>2, PTL DEF Spec

-----------------------------------------------------------------------------
\* After every single sector write, power failures included, no cluster belongs to
\* two files or directories, or to one and the root, and no chain runs in a circle.
THEOREM ChainsStayApart == Spec => []NoCrossLinks
<1>1. Inv /\ ChainsInv => NoCrossLinks
  BY ChainsAreApart
<1>2. QED
  BY <1>1, ChainsHold, PTL

\* A free cluster is named by no entry but the one that a delete or an overwrite is
\* working on, until that call returns.
THEOREM OnlyTheTargetDangles == Spec => []OnlyTargetDangles
<1>1. Inv /\ ChainsInv => OnlyTargetDangles
  BY TargetDangles
<1>2. QED
  BY <1>1, ChainsHold, PTL

\* Every sector write of every call lands on what the call is about: its entry, the
\* chain of its file, the end of the current directory's chain, or a cluster that
\* no file or directory has.
THEOREM WritesStay == Spec => []WritesStayOnTarget
<1>1. Inv /\ ChainsInv => WritesStayOnTarget
  BY WritesLand
<1>2. QED
  BY <1>1, ChainsHold, PTL

-----------------------------------------------------------------------------
(***************************************************************************)
(* The path                                                                *)
(***************************************************************************)
\* No typed name is read as "..", and none as the mark of what is stale.
PlainNames == \A n \in Names : BuildName(n) \notin {BuildName(DotDot), StaleName}

\* The directories on the way from the root to the current one: each is named by an
\* entry of the one before, none comes twice, and the call in progress works on an
\* entry of none but the last.
Way(way) ==
  /\ path \in Seq(Names)
  /\ way \in [0 .. Len(path) -> Clusters] /\ way[0] = Root /\ way[Len(path)] = cwd
  /\ \A j, k \in 0 .. Len(path) : way[j] = way[k] => j = k
  /\ \A k \in 1 .. Len(path) :
       /\ FindEntry(way[k-1], BuildName(path[k])) # NoPlace
       /\ Slot(FindEntry(way[k-1], BuildName(path[k]))).first = way[k]
  /\ ~Idle => \A k \in 0 .. Len(path) - 1 : job.loc[1] \notin ToSet(Chain(way[k]))

Located == \A l \in Places : Leads(Slot(l))
PathInv == Located /\ \E way : Way(way)

\* A directory whose clusters and slots stay as they are.
Still(d) ==
  /\ Chain(d)' = Chain(d)
  /\ \A l \in Places : l[1] \in ToSet(Chain(d)) => Slot(l)' = Slot(l)

\* What is found in a directory.
LEMMA FoundIn ==
  ASSUME NEW d, NEW name, NEW l, l = FindEntry(d, name), l # NoPlace
  PROVE  /\ l \in Places /\ l[1] \in ToSet(Chain(d))
         /\ Slot(l).state = "used" /\ Slot(l).name = name
<1> DEFINE chain == Chain(d)
           ps == {p \in Listed(chain) : Slot(Place(chain, p)).name = name}
<1>1. ps \in SUBSET Positions(chain)
  BY DEF Listed
<1>2. l = First(chain, ps)
  BY DEF FindEntry
<1>3. ps # {}
  BY <1>2 DEF First
<1>4. l \in Places /\ l \in {Place(chain, p) : p \in ps}
  BY <1>1, <1>2, <1>3, FirstFacts
<1>5. PICK p \in ps : l = Place(chain, p)
  BY <1>4
<1>6. p \in Positions(chain) /\ Slot(l).state = "used" /\ Slot(l).name = name
  BY <1>5 DEF Listed
<1>7. p[1] \in 1 .. Len(chain) /\ l[1] = chain[p[1]]
  BY <1>5, <1>6 DEF Positions, Place
<1>8. l[1] \in ToSet(chain)
  BY <1>7, ChainFacts, ToSetIs
<1>9. QED
  BY <1>4, <1>6, <1>8

\* A search of a directory that stays as it is finds what it found.
LEMMA FindStays ==
  ASSUME NEW d, NEW name, Still(d)
  PROVE  FindEntry(d, name)' = FindEntry(d, name)
<1>1. PICK chain : chain = Chain(d)
  OBVIOUS
<1>2. chain \in Seq(Clusters) /\ Chain(d)' = chain
  BY <1>1, ChainFacts DEF Still
<1>3. ASSUME NEW p \in Positions(chain)
      PROVE  Slot(Place(chain, p))' = Slot(Place(chain, p))
  <2>1. PICK l : l = Place(chain, p)
    OBVIOUS
  <2>2. l \in Places /\ l[1] \in ToSet(chain)
    BY <1>2, <1>3, <2>1, ToSetIs DEF Positions, Place, Places
  <2>3. Slot(l)' = Slot(l)
    BY <1>1, <2>2 DEF Still
  <2>4. QED
    BY <2>1, <2>3 DEF Slot
<1>4. Listed(chain)' = Listed(chain)
  BY <1>3 DEF Listed, Slot
<1>5. Listed(chain) \subseteq Positions(chain)
  BY DEF Listed
<1>6. FindEntry(d, name) = First(chain, {p \in Listed(chain) : Slot(Place(chain, p)).name = name})
  BY <1>1 DEF FindEntry
<1>7. FindEntry(d, name)'
        = First(chain, {p \in Listed(chain)' : Slot(Place(chain, p))'.name = name})
  BY <1>2 DEF FindEntry
<1>8. QED
  BY <1>3, <1>4, <1>5, <1>6, <1>7

\* A directory stays as it is when the view does.
LEMMA ViewStill ==
  ASSUME SameView, NEW d PROVE Still(d)
BY ViewChain, ViewFacts DEF SameSlots, Still

\* The clusters of a directory carry its label.
LEMMA ChainOwner ==
  ASSUME TypeOK, NEW own, NEW pos, Base(own, pos), NEW d \in Clusters, own[d] = d,
         NEW c \in ToSet(Chain(d))
  PROVE  c \in Clusters /\ own[c] = d /\ (Used(d) => Used(c))
<1>1. Chain(d) \in Seq(Clusters)
  BY ChainFacts
<1>2. PICK k \in 1 .. Len(Chain(d)) : c = Chain(d)[k]
  BY <1>1, ToSetIs
<1>3. own[c] = d /\ (Used(d) => Used(c))
  BY <1>2, ChainLabels DEF Base
<1>4. QED
  BY <1>1, <1>2, <1>3

\* The directories on the way are heads, named by the entries found.
LEMMA WayHeads ==
  ASSUME TypeOK, NEW own, NEW pos, Base(own, pos), NEW way, Way(way),
         NEW k \in 0 .. Len(path)
  PROVE  /\ way[k] \in Clusters /\ own[way[k]] = way[k]
         /\ AllUsed => Used(way[k])
         /\ k = 0 => way[k] = Root
         /\ k # 0 => \E l \in Named : /\ Slot(l).first = way[k]
                                      /\ l[1] \in ToSet(Chain(way[k-1]))
<1>1. way[k] \in Clusters /\ way[0] = Root /\ Len(path) \in Nat
  BY DEF Way
<1>2. CASE k = 0
  BY <1>1, <1>2 DEF Base, HeadsInv, Starts
<1>3. CASE k # 0
  <2>1. k \in 1 .. Len(path)
    BY <1>1, <1>3
  <2>2. PICK l : l = FindEntry(way[k-1], BuildName(path[k]))
    OBVIOUS
  <2>3. l # NoPlace /\ Slot(l).first = way[k] /\ path[k] \in Names
    BY <2>1, <2>2 DEF Way
  <2>4. /\ l \in Places /\ l[1] \in ToSet(Chain(way[k-1]))
        /\ Slot(l).state = "used" /\ Slot(l).name = BuildName(path[k])
    BY <2>2, <2>3, FoundIn
  <2>5. ~IsDot(Slot(l))
    BY <2>3, <2>4, NotDot DEF IsDot
  <2>6. l \in Named
    BY <1>1, <2>3, <2>4, <2>5, ClustersAre DEF Named
  <2>7. own[way[k]] = way[k] /\ (AllUsed => Used(way[k]))
    BY <2>3, <2>6 DEF Base, HeadsInv, Starts, AllUsed
  <2>8. QED
    BY <1>1, <1>3, <2>3, <2>4, <2>6, <2>7
<1>4. QED
  BY <1>2, <1>3

\* What is in the current directory is in none before it.
LEMMA CwdAway ==
  ASSUME TypeOK, NEW own, NEW pos, Base(own, pos), NEW way, Way(way),
         NEW k \in 0 .. Len(path) - 1, NEW c, own[c] = cwd
  PROVE  c \notin ToSet(Chain(way[k]))
<1>1. Len(path) \in Nat
  BY DEF Way
<1>2. k \in 0 .. Len(path) /\ Len(path) \in 0 .. Len(path) /\ k # Len(path)
  BY <1>1
<1>3. way[k] # cwd
  BY <1>2 DEF Way
<1>4. way[k] \in Clusters /\ own[way[k]] = way[k]
  BY <1>2, WayHeads
<1>5. QED
  BY <1>3, <1>4, ChainOwner

\* Nor is a free cluster, when every entry names a cluster in use.
LEMMA FreeAway ==
  ASSUME TypeOK, NEW own, NEW pos, Base(own, pos), AllUsed, NEW way, Way(way),
         NEW k \in 0 .. Len(path), NEW c, ~Used(c)
  PROVE  c \notin ToSet(Chain(way[k]))
BY WayHeads, ChainOwner

\* The place found or made for an entry is in none before the current directory.
LEMMA RoomAway ==
  ASSUME TypeOK, NEW own, NEW pos, Base(own, pos), AllUsed, NEW way, Way(way),
         NEW k \in 0 .. Len(path) - 1, RoomIn(cwd) # NoPlace
  PROVE  RoomIn(cwd)[1] \notin ToSet(Chain(way[k]))
<1>1. CASE FindFreeSlot(cwd) # NoPlace
  <2>1. own[RoomIn(cwd)[1]] = cwd
    BY <1>1, SlotFound DEF RoomIn
  <2>2. QED
    BY <2>1, CwdAway
<1>2. CASE FindFreeSlot(cwd) = NoPlace
  <2>1. FindFreeCluster # 0 /\ RoomIn(cwd) = <<FindFreeCluster, 1>>
    BY <1>2 DEF RoomIn
  <2>2. ~Used(RoomIn(cwd)[1])
    BY <2>1, FindFreeClusterFacts DEF FreeClusters, Used
  <2>3. Len(path) \in Nat
    BY DEF Way
  <2>4. k \in 0 .. Len(path)
    BY <2>3
  <2>5. QED
    BY <2>2, <2>4, FreeAway
<1>3. QED
  BY <1>1, <1>2

-----------------------------------------------------------------------------
(***************************************************************************)
(* The path, from one step to the next                                     *)
(***************************************************************************)
\* The way is the same when the directories on it stay as they are.
LEMMA WayStays ==
  ASSUME NEW way, Way(way), path' = path, cwd' = cwd,
         \A k \in 0 .. Len(path) - 1 : Still(way[k]),
         ~Idle' => \A k \in 0 .. Len(path) - 1 : job'.loc[1] \notin ToSet(Chain(way[k]))
  PROVE  Way(way)'
<1>1. Len(path) \in Nat
  BY DEF Way
<1>2. ASSUME NEW k \in 1 .. Len(path)
      PROVE  /\ FindEntry(way[k-1], BuildName(path[k]))' # NoPlace
             /\ Slot(FindEntry(way[k-1], BuildName(path[k])))'.first = way[k]
  <2>1. PICK d, name, l : d = way[k-1] /\ name = BuildName(path[k]) /\ l = FindEntry(d, name)
    OBVIOUS
  <2>2. l # NoPlace /\ Slot(l).first = way[k] /\ k - 1 \in 0 .. Len(path) - 1
    BY <1>1, <2>1 DEF Way
  <2>3. Still(d)
    BY <2>1, <2>2
  <2>4. FindEntry(d, name)' = l
    BY <2>1, <2>3, FindStays
  <2>5. Slot(l)' = Slot(l)
    BY <2>1, <2>2, <2>3, FoundIn DEF Still
  <2>6. FindEntry(way[k-1], BuildName(path[k]))' = l
    <3>1. FindEntry(way[k-1], BuildName(path[k]))' = FindEntry(d, name)'
      BY <2>1 DEF FindEntry
    <3>2. QED
      BY <2>4, <3>1
  <2>7. Slot(FindEntry(way[k-1], BuildName(path[k])))' = Slot(l)'
    BY <2>6 DEF Slot
  <2>8. QED
    BY <2>2, <2>5, <2>6, <2>7
<1>3. ASSUME ~Idle', NEW k \in 0 .. Len(path) - 1
      PROVE  (job.loc[1] \notin ToSet(Chain(way[k])))'
  <2>1. PICK d : d = way[k]
    OBVIOUS
  <2>2. Chain(d)' = Chain(d) /\ job'.loc[1] \notin ToSet(Chain(d))
    BY <1>3, <2>1 DEF Still
  <2>3. QED
    BY <2>1, <2>2
<1>4. QED
  BY <1>2, <1>3 DEF Way

\* A write of a call leaves the directories above the current one alone.
LEMMA WriteAway ==
  ASSUME TypeOK, NEW own, NEW pos, Base(own, pos), NEW w \in WriteType, Does(w),
         Lands(own, w), NEW d \in Clusters, own[d] = d, d # cwd,
         job.loc[1] \notin ToSet(Chain(d)),
         d = Root \/ \E l \in Named : Slot(l).first = d /\ l # job.loc
  PROVE  Still(d)
<1>1. Chain(d) \in Seq(Clusters) /\ \A c \in ToSet(Chain(d)) : c \in Clusters /\ own[c] = d
  BY ChainFacts, ChainOwner
<1>2. w[1] # "slot" => Hit(w) \notin ToSet(Chain(d))
  <2>1. CASE Extends(w)
    <3>1. cwd \in Clusters /\ own[cwd] = cwd
      BY TableType DEF Base, CwdInv, Starts
    <3>2. own[w[3]] = cwd
      BY <2>1, <3>1, ChainOwner DEF Extends
    <3>3. QED
      BY <1>1, <2>1, <3>2 DEF Extends, Hit
  <2>2. CASE Aside(own, Hit(w))
    BY <1>1, <2>2 DEF Aside
  <2>3. QED
    BY <2>1, <2>2 DEF Lands
<1>3. \A c \in ToSet(Chain(d)) : FatNext(c)' = FatNext(c)
  BY <1>1, <1>2 DEF Does, Tables, SameTable, Hit
<1>4. ASSUME NEW l \in Places, l[1] \in ToSet(Chain(d)) PROVE Slot(l)' = Slot(l)
  <2>1. w[1] \in {"fat", "slot", "zero", "seed", "data"}
    BY WriteKinds
  <2>2. CASE w[1] = "fat"
    BY <1>2, <1>4, <2>2 DEF Does, SameSlots, Blanks, Elsewhere, Hit
  <2>3. CASE w[1] = "slot"
    BY <1>4, <2>3 DEF Does, Lands
  <2>4. CASE w[1] \in {"zero", "data", "seed"}
    BY <1>2, <1>4, <2>4 DEF Does, Blanks, Elsewhere, Hit
  <2>5. QED
    BY <2>1, <2>2, <2>3, <2>4
<1>5. QED
  BY <1>3, <1>4, ChainStays DEF Still

\* What is ahead is a write.
LEMMA AheadType ==
  ASSUME Inv, Ahead # <<>>, todo # <<>> PROVE Head(Ahead) \in WriteType
<1>1. todo \in Seq(WriteType) /\ Tail(todo) \in Seq(WriteType)
  BY DEF Inv, TypeOK
<1>2. Ahead \in Seq(WriteType)
  BY <1>1 DEF Ahead
<1>3. QED
  BY <1>2

LEMMA SectorWay ==
  ASSUME Inv, NEW own, NEW pos, Sound(own, pos), NEW way, Way(way), WriteSector
  PROVE  Way(way)'
<1>1. /\ TypeOK /\ job' = job /\ cwd' = cwd /\ path' = path /\ todo # <<>> /\ Base(own, pos)
      /\ Len(path) \in Nat
  BY DEF Inv, WriteSector, Sound, Way
<1>2. /\ job.call # "off" /\ job.call # "idle" /\ IntactInv /\ PhaseInv(own, pos)
  BY DEF Inv, JobInv, WriteSector, Sound
<1>3. \A k \in 0 .. Len(path) - 1 : job.loc[1] \notin ToSet(Chain(way[k]))
  BY <1>2 DEF Way, Idle
<1>4. ASSUME NEW k \in 0 .. Len(path) - 1 PROVE Still(way[k])
  <2>1. CASE Repeats
    BY <2>1, ViewStill DEF Repeats, SameView
  <2>2. CASE Takes
    <3>1. PICK d, w : d = way[k] /\ w = Head(Ahead)
      OBVIOUS
    <3>2. w \in WriteType /\ Does(w) /\ Lands(own, w)
      BY <1>1, <1>2, <2>2, <3>1, AheadType, PhaseLands DEF Takes
    <3>3. k \in 0 .. Len(path) /\ Len(path) \in 0 .. Len(path) /\ k # Len(path)
      BY <1>1
    <3>4. d \in Clusters /\ own[d] = d
      BY <1>1, <3>1, <3>3, WayHeads
    <3>5. d # cwd
      BY <3>1, <3>3 DEF Way
    <3>6. job.loc[1] \notin ToSet(Chain(d))
      BY <1>3, <3>1
    <3>7. d = Root \/ \E l \in Named : Slot(l).first = d /\ l # job.loc
      <4>1. CASE k = 0
        BY <3>1, <4>1 DEF Way
      <4>2. CASE k # 0
        <5>1. PICK l \in Named : Slot(l).first = d /\ l[1] \in ToSet(Chain(way[k-1]))
          BY <1>1, <3>1, <3>3, <4>2, WayHeads
        <5>2. k - 1 \in 0 .. Len(path) - 1
          BY <1>1, <4>2
        <5>3. l # job.loc
          BY <1>3, <5>1, <5>2
        <5>4. QED
          BY <5>1, <5>3
      <4>3. QED
        BY <4>1, <4>2
    <3>8. Still(d)
      BY <1>1, <3>2, <3>4, <3>5, <3>6, <3>7, WriteAway
    <3>9. QED
      BY <3>1, <3>8
  <2>3. QED
    BY <2>1, <2>2, SectorDoes
<1>5. QED
  BY <1>1, <1>3, <1>4, WayStays

\* A call that sets out to write does so on an entry of the current directory.
LEMMA BeginWay ==
  ASSUME NEW way, Way(way), NEW j, NEW writes, Begin(j, writes),
         \A k \in 0 .. Len(path) - 1 : j.loc[1] \notin ToSet(Chain(way[k]))
  PROVE  Way(way)'
<1>1. SameView /\ path' = path /\ cwd' = cwd /\ job' = j
  BY DEF Begin, SameView
<1>2. \A k \in 0 .. Len(path) - 1 : Still(way[k])
  BY <1>1, ViewStill
<1>3. QED
  BY <1>1, <1>2, WayStays

LEMMA ReturnWay ==
  ASSUME NEW way, Way(way), NEW r, Return(r)
  PROVE  Way(way)'
<1>1. SameView /\ path' = path /\ cwd' = cwd /\ job' = NoJob
  BY DEF Return, SameView
<1>2. Idle'
  BY <1>1 DEF Idle, NoJob
<1>3. \A k \in 0 .. Len(path) - 1 : Still(way[k])
  BY <1>1, ViewStill
<1>4. QED
  BY <1>1, <1>2, <1>3, WayStays

\* A call that goes on with the same entry.
LEMMA SameLocWay ==
  ASSUME Inv, NEW way, Way(way), NEW at \in {"body", "slot", "entry", "return"}, Ready(at),
         NEW j, j.loc = job.loc, NEW writes, Begin(j, writes)
  PROVE  Way(way)'
<1>1. ~Idle
  BY ReadyFacts DEF Idle
<1>2. \A k \in 0 .. Len(path) - 1 : j.loc[1] \notin ToSet(Chain(way[k]))
  BY <1>1 DEF Way
<1>3. QED
  BY <1>2, BeginWay

\* The steps of a call that is in progress.
LEMMA StepWay ==
  ASSUME Inv, NEW own, NEW pos, Sound(own, pos), NEW way, Way(way), Step
  PROVE  Way(way)'
<1>1. CASE WriteSector
  BY <1>1, SectorWay
<1>2. CASE WriteNothing
  <2>1. PICK j, writes : j = [job EXCEPT !.at = "entry", !.first = 0] /\ Begin(j, writes)
    BY <1>2 DEF WriteNothing
  <2>2. j.loc = job.loc /\ Ready("body")
    BY <1>2, <2>1 DEF WriteNothing, Inv, TypeOK, JobType
  <2>3. QED
    BY <2>1, <2>2, SameLocWay
<1>3. CASE WriteCluster
  <2>1. PICK first, prev, used, cluster, writes :
          Begin([job EXCEPT !.first = first, !.prev = prev, !.used = used,
                            !.cluster = cluster], writes)
    BY <1>3 DEF WriteCluster
  <2>2. PICK j : j = [job EXCEPT !.first = first, !.prev = prev, !.used = used,
                                 !.cluster = cluster]
    OBVIOUS
  <2>3. j.loc = job.loc /\ Ready("body")
    BY <1>3, <2>2 DEF WriteCluster, Inv, TypeOK, JobType
  <2>4. QED
    BY <2>1, <2>2, <2>3, SameLocWay
<1>4. CASE WriteTrim
  <2>1. PICK j, writes : j = [job EXCEPT !.at = "entry"] /\ Begin(j, writes)
    BY <1>4 DEF WriteTrim, Goto
  <2>2. j.loc = job.loc /\ Ready("body")
    BY <1>4, <2>1 DEF WriteTrim, Inv, TypeOK, JobType
  <2>3. QED
    BY <2>1, <2>2, SameLocWay
<1>5. CASE WriteEntry
  <2>1. PICK j, writes : j = [job EXCEPT !.at = "return", !.ret = Written] /\ Begin(j, writes)
    BY <1>5 DEF WriteEntry
  <2>2. j.loc = job.loc /\ Ready("entry")
    BY <1>5, <2>1 DEF WriteEntry, Inv, TypeOK, JobType
  <2>3. QED
    BY <2>1, <2>2, SameLocWay
<1>6. CASE MkdirEntry
  <2>1. PICK j, writes :
          j = [job EXCEPT !.at = "return", !.loc = RoomIn(cwd)] /\ Begin(j, writes)
    BY <1>6 DEF MkdirEntry
  <2>2. TypeOK /\ Base(own, pos) /\ AllUsed /\ RoomIn(cwd) # NoPlace
    BY <1>6, CallFacts DEF MkdirEntry
  <2>3. j.loc = RoomIn(cwd)
    BY <2>1, <2>2 DEF TypeOK, JobType
  <2>4. \A k \in 0 .. Len(path) - 1 : j.loc[1] \notin ToSet(Chain(way[k]))
    BY <2>2, <2>3, RoomAway
  <2>5. QED
    BY <2>1, <2>4, BeginWay
<1>7. CASE MkdirFull
  <2>1. PICK j, writes : j = [job EXCEPT !.at = "return", !.ret = -2] /\ Begin(j, writes)
    BY <1>7 DEF MkdirFull
  <2>2. j.loc = job.loc /\ Ready("slot")
    BY <1>7, <2>1 DEF MkdirFull, Inv, TypeOK, JobType
  <2>3. QED
    BY <2>1, <2>2, SameLocWay
<1>8. CASE CallReturn
  BY <1>8, ReturnWay DEF CallReturn
<1>9. QED
  BY <1>1, <1>2, <1>3, <1>4, <1>5, <1>6, <1>7, <1>8 DEF Step

\* A call begins on an entry that is found.
LEMMA FoundWay ==
  ASSUME TypeOK, NEW own, NEW pos, Base(own, pos), NEW way, Way(way), NEW n \in Names,
         NEW l, l = FindEntry(cwd, BuildName(n)), l # NoPlace,
         NEW j, j.loc = l, NEW writes, Begin(j, writes)
  PROVE  Way(way)'
<1>1. own[l[1]] = cwd
  BY EntryFound
<1>2. QED
  BY <1>1, CwdAway, BeginWay

LEMMA WriteFileWay ==
  ASSUME Inv, NEW own, NEW pos, Sound(own, pos), NEW way, Way(way), Idle, NEW call,
         NEW n \in Names, NEW size, WriteFile(call, n, size)
  PROVE  Way(way)'
<1>1. TypeOK /\ Base(own, pos) /\ AllUsed
  BY IdleIsWhole
<1>2. PICK found, room : found = FindEntry(cwd, BuildName(n)) /\ room = RoomIn(cwd)
  OBVIOUS
<1> DEFINE start == [NoJob EXCEPT !.call = call, !.at = "body", !.name = n, !.size = size]
<1>3. \/ \E r : Return(r)
      \/ /\ found # NoPlace
         /\ Begin([start EXCEPT !.loc = found, !.first = Slot(found).first,
                                !.cluster = Slot(found).first], <<>>)
      \/ /\ room # NoPlace
         /\ Begin([start EXCEPT !.loc = room],
                  RoomWrites(cwd) \o SetSlot(room, Entry(BuildName(n), FALSE, 0, 0)))
  BY <1>2 DEF WriteFile
<1>4. CASE \E r : Return(r)
  BY <1>4, ReturnWay
<1>5. ASSUME found # NoPlace,
             Begin([start EXCEPT !.loc = found, !.first = Slot(found).first,
                                 !.cluster = Slot(found).first], <<>>)
      PROVE  Way(way)'
  <2>1. PICK j, writes :
          /\ writes = <<>>
          /\ j = [start EXCEPT !.loc = found, !.first = Slot(found).first,
                               !.cluster = Slot(found).first]
    OBVIOUS
  <2>2. j.loc = found
    BY <2>1 DEF NoJob
  <2>3. QED
    BY <1>1, <1>2, <1>5, <2>1, <2>2, FoundWay
<1>6. ASSUME room # NoPlace,
             Begin([start EXCEPT !.loc = room],
                   RoomWrites(cwd) \o SetSlot(room, Entry(BuildName(n), FALSE, 0, 0)))
      PROVE  Way(way)'
  <2>1. PICK j, writes :
          /\ j = [start EXCEPT !.loc = room]
          /\ writes = RoomWrites(cwd) \o SetSlot(room, Entry(BuildName(n), FALSE, 0, 0))
    OBVIOUS
  <2>2. j.loc = room
    BY <2>1 DEF NoJob
  <2>3. \A k \in 0 .. Len(path) - 1 : j.loc[1] \notin ToSet(Chain(way[k]))
    BY <1>1, <1>2, <1>6, <2>2, RoomAway
  <2>4. Begin(j, writes)
    BY <1>6, <2>1
  <2>5. QED
    BY <2>3, <2>4, BeginWay
<1>7. QED
  BY <1>3, <1>4, <1>5, <1>6

LEMMA MkdirWay ==
  ASSUME Inv, NEW way, Way(way), NEW n \in Names, Mkdir(n)
  PROVE  Way(way)'
<1>1. CASE \E r : Return(r)
  BY <1>1, ReturnWay
<1>2. ASSUME NEW c, NEW writes,
             Begin([NoJob EXCEPT !.call = "mkdir", !.at = "slot", !.name = n, !.first = c],
                   writes)
      PROVE  Way(way)'
  <2>1. PICK j : j = [NoJob EXCEPT !.call = "mkdir", !.at = "slot", !.name = n, !.first = c]
    OBVIOUS
  <2>2. j.loc[1] = 0
    BY <2>1 DEF NoJob, NoPlace
  <2>3. \A k \in 0 .. Len(path) - 1 : j.loc[1] \notin ToSet(Chain(way[k]))
    BY <2>2, ChainFacts, ToSetIs, ClustersAre
  <2>4. QED
    BY <1>2, <2>1, <2>3, BeginWay
<1>3. QED
  BY <1>1, <1>2 DEF Mkdir

LEMMA DeleteWay ==
  ASSUME TypeOK, NEW own, NEW pos, Base(own, pos), NEW way, Way(way), NEW n \in Names,
         NEW l, l = FindEntry(cwd, BuildName(n)), l # NoPlace, NEW call, Delete(call, n, l)
  PROVE  Way(way)'
<1>1. PICK j, writes :
        /\ j = [NoJob EXCEPT !.call = call, !.at = "return", !.name = n, !.loc = l]
        /\ Begin(j, writes)
  BY DEF Delete
<1>2. j.loc = l
  BY <1>1 DEF NoJob
<1>3. QED
  BY <1>1, <1>2, FoundWay

LEMMA DeletesWay ==
  ASSUME Inv, NEW own, NEW pos, Sound(own, pos), NEW way, Way(way), NEW n \in Names,
         Rmdir(n) \/ RemoveFile(n)
  PROVE  Way(way)'
<1>1. PICK l : l = FindEntry(cwd, BuildName(n))
  OBVIOUS
<1>2. TypeOK /\ Base(own, pos)
  BY DEF Inv, Sound
<1>3. \/ \E r : Return(r)
      \/ l # NoPlace /\ \E call : Delete(call, n, l)
  BY <1>1 DEF Rmdir, RemoveFile
<1>4. QED
  BY <1>1, <1>2, <1>3, ReturnWay, DeleteWay

\* Back at the root the path is empty.
LEMMA RootWay ==
  ASSUME path' = <<>>, cwd' = Root PROVE \E way : Way(way)'
<1>1. PICK way : way = [k \in 0 .. 0 |-> Root]
  OBVIOUS
<1>2. <<>> \in Seq(Names) /\ Len(<<>>) = 0
  BY EmptySeq
<1>3. Way(way)'
  BY <1>1, <1>2, ClustersAre DEF Way
<1>4. QED
  BY <1>3

\* No entry has the name that ".." is looked up by.
LEMMA NoParent ==
  ASSUME TypeOK, PlainNames, NEW d PROVE FindEntry(d, BuildName(DotDot)) = NoPlace
<1>1. PICK l : l = FindEntry(d, BuildName(DotDot))
  OBVIOUS
<1>2. SUFFICES ASSUME l # NoPlace PROVE FALSE
  BY <1>1
<1>3. l \in Places /\ Slot(l).name = BuildName(DotDot)
  BY <1>1, <1>2, FoundIn
<1>4. BuildName(DotDot) \in EntryNames
  BY <1>3, SlotType DEF EntryType
<1>5. BuildName(DotDot)[2] = "."
  BY Zenon DEF BuildName, DotDot
<1>6. ASSUME NEW empty, NEW e \in {<<empty, empty>>, <<".", empty>>, <<"..", empty>>, <<"?", empty>>}
      PROVE  e[2] = empty
  OBVIOUS
<1>7. BuildName(DotDot) \notin {NoName, <<".", "">>, <<"..", "">>, <<"?", "">>}
  <2>1. "" # "."
    BY Zenon
  <2>2. QED
    BY <1>5, <1>6, <2>1, Zenon DEF NoName
<1>8. BuildName(DotDot) \in {BuildName(n) : n \in Names}
  BY <1>4, <1>7, Zenon DEF EntryNames
<1>9. QED
  BY <1>8 DEF PlainNames

\* The current directory changes: one more directory on the way, or the same way.
LEMMA ChangeDirWay ==
  ASSUME Inv, PlainNames, Located, NEW own, NEW pos, Sound(own, pos), NEW way, Way(way),
         NEW n \in Names \cup {DotDot}, ChangeDir(n)
  PROVE  \E v : Way(v)'
<1>1. PICK l, m : l = FindEntry(cwd, BuildName(n)) /\ m = Len(path)
  OBVIOUS
<1>2. Idle /\ SameView /\ job' = job
  BY DEF ChangeDir, SameView
<1>3. TypeOK /\ Base(own, pos) /\ m \in Nat /\ path \in Seq(Names) /\ DOMAIN path = 1 .. m
  <2>1. path \in Seq(Names)
    BY DEF Way
  <2>2. QED
    BY <1>1, <1>2, <2>1, IdleIsWhole
<1>4. \/ path' = path /\ cwd' = cwd
      \/ /\ l # NoPlace /\ Slot(l).dir
         /\ cwd' = IF Slot(l).first = 0 THEN Root ELSE Slot(l).first
         /\ path' = IF n # DotDot THEN Append(path, n)
                    ELSE IF path = <<>> THEN path ELSE Front(path)
  BY <1>1 DEF ChangeDir
<1>5. CASE path' = path /\ cwd' = cwd
  <2>1. Idle' /\ \A k \in 0 .. Len(path) - 1 : Still(way[k])
    BY <1>2, ViewStill DEF Idle
  <2>2. QED
    BY <1>5, <2>1, WayStays
<1>6. CASE /\ l # NoPlace /\ Slot(l).dir
           /\ cwd' = IF Slot(l).first = 0 THEN Root ELSE Slot(l).first
           /\ path' = IF n # DotDot THEN Append(path, n)
                      ELSE IF path = <<>> THEN path ELSE Front(path)
  <2>1. n # DotDot /\ n \in Names
    BY <1>1, <1>3, <1>6, NoParent
  <2>2. /\ l \in Places /\ own[l[1]] = cwd /\ Slot(l).state = "used" /\ ~IsDot(Slot(l))
        /\ Slot(l).first # 0 => l \in Named
    BY <1>1, <1>3, <1>6, EntryFound
  <2>3. Slot(l).name = BuildName(n)
    BY <1>1, <1>6, FoundIn
  <2>4. Slot(l).first # 0
    BY <1>6, <2>1, <2>2, <2>3 DEF Located, Leads, PlainNames
  <2>5. PICK c : c = Slot(l).first
    OBVIOUS
  <2>6. c \in Clusters /\ c # Root /\ l \in Named /\ cwd' = c /\ path' = Append(path, n)
    BY <1>3, <1>6, <2>1, <2>2, <2>4, <2>5, TableType DEF Base, HeadsInv
  <2>7. PICK v : v = [k \in 0 .. m + 1 |-> IF k = m + 1 THEN c ELSE way[k]]
    OBVIOUS
  <2>8. /\ Len(path)' = m + 1 /\ path' \in Seq(Names) /\ path'[m + 1] = n
        /\ \A k \in 1 .. m : path'[k] = path[k]
    BY <1>1, <1>3, <2>1, <2>6
  <2>9. /\ \A k \in 0 .. m : v[k] = way[k] /\ way[k] \in Clusters
        /\ v[m + 1] = c /\ way[m] = cwd /\ way[0] = Root
    BY <1>1, <1>3, <2>7 DEF Way
  <2>10. v \in [0 .. m + 1 -> Clusters] /\ v[0] = Root /\ v[m + 1] = cwd'
    BY <1>3, <2>6, <2>7, <2>9, SMTT(30)
  <2>11. ASSUME NEW k \in 0 .. m PROVE way[k] # c
    <3>1. CASE k = 0
      BY <2>6, <2>9, <3>1
    <3>2. CASE k # 0
      <4>1. PICK e \in Named : Slot(e).first = way[k] /\ e[1] \in ToSet(Chain(way[k-1]))
        BY <1>1, <1>3, <3>2, WayHeads
      <4>2. k - 1 \in 0 .. Len(path) - 1
        BY <1>1, <1>3, <3>2
      <4>3. e # l
        BY <1>3, <2>2, <4>1, <4>2, CwdAway
      <4>4. QED
        BY <1>3, <2>5, <2>6, <4>1, <4>3 DEF Base, HeadsInv
    <3>3. QED
      BY <3>1, <3>2
  <2>12. ASSUME NEW j \in 0 .. m + 1, NEW k \in 0 .. m + 1, v[j] = v[k] PROVE j = k
    <3>1. \A a, b \in 0 .. m : way[a] = way[b] => a = b
      BY <1>1 DEF Way
    <3>2. (j \in 0 .. m \/ j = m + 1) /\ (k \in 0 .. m \/ k = m + 1)
      BY <1>3
    <3>3. QED
      BY <2>9, <2>11, <2>12, <3>1, <3>2
  <2>13. ASSUME NEW k \in 1 .. m + 1
         PROVE  /\ FindEntry(v[k-1], BuildName(path[k]))' # NoPlace
                /\ Slot(FindEntry(v[k-1], BuildName(path[k])))'.first = v[k]
    <3>1. PICK d, name, e : d = v[k-1] /\ name = BuildName(path'[k]) /\ e = FindEntry(d, name)
      OBVIOUS
    <3>2. e # NoPlace /\ Slot(e).first = v[k]
      <4>1. CASE k = m + 1
        <5>1. k - 1 = m /\ m \in 0 .. m
          BY <1>3, <4>1
        <5>2. d = cwd /\ name = BuildName(n)
          BY <2>8, <2>9, <3>1, <4>1, <5>1
        <5>3. e = l
          BY <1>1, <3>1, <5>2
        <5>4. QED
          BY <1>6, <2>5, <2>9, <4>1, <5>3
      <4>2. CASE k \in 1 .. m
        <5>1. k - 1 \in 0 .. m /\ k \in 0 .. m
          BY <1>3, <4>2
        <5>2. d = way[k-1] /\ name = BuildName(path[k]) /\ v[k] = way[k]
          BY <2>8, <2>9, <3>1, <4>2, <5>1
        <5>3. QED
          BY <1>1, <3>1, <4>2, <5>2 DEF Way
      <4>3. QED
        BY <1>3, <4>1, <4>2
    <3>3. FindEntry(d, name)' = e /\ Slot(e)' = Slot(e)
      <4>1. Still(d)
        BY <1>2, ViewStill
      <4>2. FindEntry(d, name)' = e
        BY <3>1, <4>1, FindStays
      <4>3. QED
        BY <1>2, <4>2 DEF SameView, Slot
    <3>4. FindEntry(v[k-1], BuildName(path[k]))' = e
      <4>1. FindEntry(v[k-1], BuildName(path[k]))' = FindEntry(d, name)'
        BY <3>1 DEF FindEntry
      <4>2. QED
        BY <3>3, <4>1
    <3>5. Slot(FindEntry(v[k-1], BuildName(path[k])))' = Slot(e)'
      BY <3>4 DEF Slot
    <3>6. QED
      BY <3>2, <3>3, <3>4, <3>5
  <2>14. Idle'
    BY <1>2 DEF Idle
  <2>15. Way(v)'
    BY <2>8, <2>10, <2>12, <2>13, <2>14 DEF Way
  <2>16. QED
    BY <2>15
<1>7. QED
  BY <1>4, <1>5, <1>6

-----------------------------------------------------------------------------
(***************************************************************************)
(* A directory's entry names its cluster                                   *)
(***************************************************************************)
LEMMA BlankLeads ==
  ASSUME NEW i \in 1 .. Slots PROVE Leads(EmptyDir[i]) /\ Leads(StaleDir[i])
<1>1. EmptyDir[i].state # "used"
  BY DEF EmptyDir, EndMark
<1>2. PICK name : name = StaleName
  OBVIOUS
<1>3. StaleDir = [k \in 1 .. Slots |-> Entry(name, TRUE, 0, 0)]
  BY <1>2, Zenon DEF StaleDir, StaleName
<1>4. StaleDir[i].name = name
  BY <1>3 DEF Entry
<1>5. QED
  BY <1>1, <1>2, <1>4 DEF Leads

\* A sector write keeps the entries so, when what it writes is.
LEMMA PutLocates ==
  ASSUME TypeOK, Located, NEW w \in WriteType, Put(w),
         w[1] = "slot" => Leads(w[3]),
         w[1] = "seed" => \A i \in 1 .. Slots : Leads(w[3][i])
  PROVE  Located'
<1>1. \/ dirs' = dirs
      \/ w[1] = "slot" /\ dirs' = [dirs EXCEPT ![w[2][1]][w[2][2]] = w[3]]
      \/ w[1] = "seed" /\ dirs' = [dirs EXCEPT ![w[2]] = w[3]]
      \/ \E c : dirs' = [dirs EXCEPT ![c] = EmptyDir] \/ dirs' = [dirs EXCEPT ![c] = StaleDir]
  <2>1. CASE w[1] = "fat"
    BY <2>1 DEF Put
  <2>2. CASE w[1] = "slot"
    BY <2>2 DEF Put, Frees
  <2>3. CASE w[1] = "seed"
    BY <2>3 DEF Put, Frees
  <2>4. CASE w[1] = "zero"
    BY <2>4 DEF Put, Frees
  <2>5. CASE w[1] = "data"
    BY <2>5 DEF Put, Frees
  <2>6. QED
    BY <2>1, <2>2, <2>3, <2>4, <2>5, WriteKinds
<1>2. \A a \in Clusters, i \in 1 .. Slots : Leads(dirs[a][i])
  <2>1. ASSUME NEW a \in Clusters, NEW i \in 1 .. Slots PROVE Leads(dirs[a][i])
    <3>1. <<a, i>> \in Places /\ Slot(<<a, i>>) = dirs[a][i]
      BY DEF Places, Slot
    <3>2. QED
      BY <3>1 DEF Located
  <2>2. QED
    BY <2>1
<1>3. \A a \in Clusters, i \in 1 .. Slots : Leads(dirs'[a][i])
  <2>0. dirs \in [Clusters -> [1 .. Slots -> EntryType]]
    BY DEF TypeOK
  <2>1. CASE dirs' = dirs
    BY <1>2, <2>1
  <2>2. CASE w[1] = "slot" /\ dirs' = [dirs EXCEPT ![w[2][1]][w[2][2]] = w[3]]
    <3>1. ASSUME NEW a \in Clusters, NEW i \in 1 .. Slots
          PROVE  dirs'[a][i] = dirs[a][i] \/ dirs'[a][i] = w[3]
      BY <2>0, <2>2
    <3>2. QED
      BY <1>2, <2>2, <3>1
  <2>3. CASE w[1] = "seed" /\ dirs' = [dirs EXCEPT ![w[2]] = w[3]]
    <3>1. ASSUME NEW a \in Clusters PROVE dirs'[a] = dirs[a] \/ dirs'[a] = w[3]
      BY <2>0, <2>3
    <3>2. QED
      BY <1>2, <2>3, <3>1
  <2>4. ASSUME NEW c, NEW s \in {EmptyDir, StaleDir}, dirs' = [dirs EXCEPT ![c] = s]
        PROVE  \A a \in Clusters, i \in 1 .. Slots : Leads(dirs'[a][i])
    <3>1. ASSUME NEW a \in Clusters PROVE dirs'[a] = dirs[a] \/ dirs'[a] = s
      BY <2>0, <2>4
    <3>2. \A i \in 1 .. Slots : Leads(s[i])
      BY <2>4, BlankLeads
    <3>3. QED
      BY <1>2, <3>1, <3>2
  <2>5. QED
    BY <1>1, <2>1, <2>2, <2>3, <2>4
<1>4. ASSUME NEW l \in Places PROVE Leads(dirs'[l[1]][l[2]])
  BY <1>3 DEF Places
<1>5. QED
  BY <1>4 DEF Located, Slot, Leads, IsDot

LEMMA SectorLocates ==
  ASSUME Inv, Located, NEW own, NEW pos, Sound(own, pos), WriteSector
  PROVE  Located'
<1>1. PICK w : w = Head(todo)
  OBVIOUS
<1>2. TypeOK /\ Put(w) /\ w \in WriteType /\ todo # <<>>
  BY <1>1 DEF Inv, TypeOK, WriteSector
<1>3. CASE IsCopy(w)
  BY <1>2, <1>3, PutLocates DEF IsCopy
<1>4. CASE ~IsCopy(w)
  <2>1. Ahead = todo
    BY <1>1, <1>4 DEF Ahead, IsCopy
  <2>2. job.call # "off" /\ Base(own, pos) /\ PhaseInv(own, pos)
    BY <1>2 DEF Inv, JobInv, Sound
  <2>3. Lands(own, w)
    BY <1>1, <1>2, <2>1, <2>2, PhaseLands
  <2>4. QED
    BY <1>2, <2>3, PutLocates DEF Lands
<1>5. QED
  BY <1>3, <1>4

\* The other steps leave the directories alone.
LEMMA OthersLocate ==
  ASSUME Located, dirs' = dirs PROVE Located'
<1>1. \A l \in Places : Slot(l)' = Slot(l)
  BY DEF Slot
<1>2. ASSUME NEW l \in Places, Leads(Slot(l)) PROVE Leads(Slot(l))'
  <2>1. PICK e : e = Slot(l)
    OBVIOUS
  <2>2. Leads(e) /\ Slot(l)' = e
    BY <1>1, <1>2, <2>1, SMTT(30)
  <2>3. QED
    BY <2>2 DEF Leads, IsDot
<1>3. QED
  BY <1>2 DEF Located

LEMMA OnlySectors ==
  ASSUME [Next]_vars, ~WriteSector PROVE dirs' = dirs
BY DEF Next, Step, Call, Crash, disk, vars, WriteNothing, WriteCluster, WriteTrim, WriteEntry,
       MkdirEntry, MkdirFull, CallReturn, Write, Touch, WriteFile, Mkdir, Rmdir, RemoveFile,
       Delete, ChangeDir, ChangeToRoot, Begin, Goto, Return

-----------------------------------------------------------------------------
(***************************************************************************)
(* The path names the current directory                                    *)
(***************************************************************************)
LEMMA InitPath ==
  ASSUME Init PROVE PathInv
<1>1. ASSUME NEW l \in Places PROVE Leads(Slot(l))
  <2>1. l[1] \in Clusters /\ l[2] \in 1 .. Slots
    BY DEF Places
  <2>2. dirs[l[1]] \in {EmptyDir, StaleDir}
    BY <2>1 DEF Init
  <2>3. QED
    BY <2>1, <2>2, BlankLeads DEF Slot
<1>2. PICK way : way = [k \in 0 .. 0 |-> Root]
  OBVIOUS
<1>3. <<>> \in Seq(Names) /\ Len(<<>>) = 0 /\ path = <<>> /\ cwd = Root
  BY EmptySeq DEF Init
<1>4. Way(way)
  BY <1>2, <1>3, ClustersAre DEF Way
<1>5. QED
  BY <1>1, <1>4 DEF PathInv, Located

LEMMA NextPath ==
  ASSUME PlainNames, Inv, ChainsInv, PathInv, [Next]_vars PROVE PathInv'
<1>1. PICK own, pos, way : Sound(own, pos) /\ Way(way) /\ Located
  BY DEF ChainsInv, PathInv
<1>2. Located'
  BY <1>1, SectorLocates, OnlySectors, OthersLocate
<1>3. CASE Step
  BY <1>1, <1>2, <1>3, StepWay DEF PathInv
<1>4. CASE Call
  <2>1. ASSUME NEW n \in Names, NEW size \in Sizes, Write(n, size) PROVE Way(way)'
    BY <1>1, <2>1, WriteFileWay DEF Write
  <2>2. ASSUME NEW n \in Names, Touch(n) PROVE Way(way)'
    BY <1>1, <2>2, WriteFileWay DEF Touch
  <2>3. ASSUME NEW n \in Names, Mkdir(n) \/ Rmdir(n) \/ RemoveFile(n) PROVE Way(way)'
    BY <1>1, <2>3, MkdirWay, DeletesWay
  <2>4. ASSUME NEW n \in Names \cup {DotDot}, ChangeDir(n) PROVE \E v : Way(v)'
    BY <1>1, <2>4, ChangeDirWay
  <2>5. ASSUME ChangeToRoot PROVE \E v : Way(v)'
    BY <2>5, RootWay DEF ChangeToRoot
  <2>6. QED
    BY <1>2, <1>4, <2>1, <2>2, <2>3, <2>4, <2>5 DEF Call, PathInv
<1>5. CASE Crash
  <2>1. \E v : Way(v)'
    BY <1>5, RootWay DEF Crash
  <2>2. QED
    BY <1>2, <2>1 DEF PathInv
<1>6. CASE UNCHANGED vars
  <2>1. SameView /\ path' = path /\ cwd' = cwd /\ job' = job
    BY <1>6 DEF vars, SameView
  <2>2. \A k \in 0 .. Len(path) - 1 : Still(way[k])
    BY <2>1, ViewStill
  <2>3. Way(way)'
    BY <1>1, <2>1, <2>2, WayStays DEF Way, Idle
  <2>4. QED
    BY <1>2, <2>3 DEF PathInv
<1>7. QED
  BY <1>3, <1>4, <1>5, <1>6 DEF Next

\* Following the path takes the way.
LEMMA PathLeads ==
  ASSUME PathInv PROVE PathNamesCwd
<1>1. PICK way : Way(way)
  BY DEF PathInv
<1>2. PICK m \in Nat : m = Len(path)
  BY <1>1 DEF Way
<1> DEFINE F(f) ==
      f = [k \in 0 .. m |->
             IF k = 0 THEN Root ELSE Slot(FindEntry(f[k-1], BuildName(path[k]))).first]
           at == CHOOSE f : F(f)
           off == {k \in 0 .. m : at[k] # way[k]}
<1>3. /\ way \in [0 .. m -> Clusters] /\ way[0] = Root /\ way[m] = cwd
      /\ \A k \in 1 .. m : Slot(FindEntry(way[k-1], BuildName(path[k]))).first = way[k]
  BY <1>1, <1>2 DEF Way
<1>4. F(way)
  BY <1>3
<1>5. F(at)
  <2> HIDE DEF F
  <2>1. QED
    BY <1>4
<1>6. /\ at[0] = Root
      /\ \A k \in 1 .. m : at[k] = Slot(FindEntry(at[k-1], BuildName(path[k]))).first
  <2> HIDE DEF at
  <2>1. QED
    BY <1>5
<1>7. off = {}
  <2>1. SUFFICES ASSUME off # {} PROVE FALSE
    OBVIOUS
  <2>2. off \subseteq Nat
    OBVIOUS
  <2> HIDE DEF at
  <2>3. PICK k \in off : \A j \in off : k <= j
    <3> HIDE DEF off
    <3>1. QED
      BY <2>1, <2>2, LeastNat
  <2>4. k \in 1 .. m /\ k - 1 \in 0 .. m /\ k - 1 \notin off
    BY <1>3, <1>6, <2>3
  <2>5. at[k-1] = way[k-1]
    BY <2>4
  <2>6. QED
    BY <1>3, <1>6, <2>3, <2>4, <2>5
<1>8. at[m] = cwd
  <2> HIDE DEF at
  <2>1. QED
    BY <1>3, <1>7
<1>9. QED
  BY <1>2, <1>8 DEF PathNamesCwd

\* As long as no name on the volume is one that ".." is looked up by, the prompt's path
\* leads from the root to the current directory, however calls and power failures are
\* mixed: no call takes away a directory on the way to the one the shell stands in.
THEOREM PathStaysTrue ==
  ASSUME PlainNames PROVE Spec => []PathNamesCwd
<1>1. Init => PathInv
  BY InitPath
<1>2. Inv /\ ChainsInv /\ PathInv /\ [Next]_vars => PathInv'
  BY NextPath
<1>3. PathInv => PathNamesCwd
  BY PathLeads
<1>4. QED
  BY <1>1, <1>2, <1>3, ChainsHold, PTL DEF Spec
=============================================================================
