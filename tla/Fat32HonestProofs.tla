------------------------- MODULE Fat32HonestProofs -------------------------
(***************************************************************************)
(* Proofs that the number a write returns is honest: as many bytes are on  *)
(* the disk, and fewer than were asked for only when the disk is full.     *)
(*                                                                         *)
(* The clusters of the file that is written are followed one by one, in    *)
(* the order in which the loop comes to them, and the entry it was begun   *)
(* with stays the one that a search of the directory finds.                *)
(***************************************************************************)
EXTENDS Fat32Proofs

\* No name is longer than a directory entry holds.
FittingNames == \A n \in Names : n.tail = ""

-----------------------------------------------------------------------------
(***************************************************************************)
(* The invariant                                                           *)
(***************************************************************************)
\* A search of d for the name goes on beyond the positions before p.
Passed(d, name, p) ==
  \A q \in Positions(Chain(d)) : Before(q, p) =>
    /\ Slot(Place(Chain(d), q)).state # "end"
    /\ Slot(Place(Chain(d), q)).state = "used" => Slot(Place(Chain(d), q)).name # name

\* It finds the entry at l.
Finds(d, name, l) ==
  \E p \in Positions(Chain(d)) :
    /\ l = Place(Chain(d), p) /\ Slot(l).state = "used" /\ Slot(l).name = name
    /\ Passed(d, name, p)

JobName == BuildName(job.name)
Rear(d) == Chain(d)[Len(Chain(d))]

\* An entry is being made where a search for its name will come to it first.
Placing(e) ==
  \/ /\ Ahead = SetSlot(job.loc, e)
     /\ \E p \in Positions(Chain(cwd)) :
          job.loc = Place(Chain(cwd), p) /\ Passed(cwd, JobName, p)
  \/ \E c \in Clusters :
       /\ job.loc = <<c, 1>> /\ c \notin ToSet(Chain(cwd))
       /\ Passed(cwd, JobName, <<Len(Chain(cwd)) + 1, 1>>)
       /\ Grows(c, SetFat(Rear(cwd), c) \o SetSlot(job.loc, e))

\* The clusters s have been written, in this order; the last of them may be new.
Laid(s) ==
  /\ s \in [1 .. job.used -> Clusters]
  /\ \A j, k \in 1 .. job.used : s[j] = s[k] => j = k
  /\ job.used = 0 => job.prev = 0
  /\ job.used > 0 => s[1] = job.first /\ s[job.used] = job.prev
  /\ \A k \in 1 .. job.used - 1 : data[s[k]] = <<job.size, k>>
  /\ \A k \in 1 .. job.used - 2 : FatNext(s[k]) = s[k + 1]
Linked(s) == job.used > 1 => FatNext(s[job.used - 1]) = job.prev
Stored == job.used > 0 => data[job.prev] = <<job.size, job.used>>

\* What is left of a round of the loop.
Laying(s) ==
  \/ Ahead = <<>> /\ Linked(s) /\ Stored
  \/ job.used > 0 /\ Ahead = Store /\ Linked(s)
  \/ job.used = 1 /\ Grows(job.prev, Store)
  \/ job.used > 1 /\ Grows(job.prev, SetFat(s[job.used - 1], job.prev) \o Store)

\* Of what follows the file is cut off, and other clusters are freed; when it is short
\* there is nothing to free.
Short == job.used < Needed(job.size)
Cut(w) == job.used > 0 /\ w = <<"fat", 1, job.prev, EOC>>
Spares(s, w) ==
  \E c \in Clusters : (\A k \in 1 .. job.used : s[k] # c) /\ w = <<"fat", 1, c, 0>>
Trimming(s) ==
  /\ Linked(s) /\ Stored
  /\ job.used > 0 => FatNext(job.prev) = EOC \/ (Ahead # <<>> /\ Cut(Head(Ahead)))
  /\ \A i \in 1 .. Len(Ahead) : Cut(Ahead[i]) \/ Spares(s, Ahead[i])
  /\ Short => FreeClusters = {} /\ \A i \in 1 .. Len(Ahead) : Cut(Ahead[i])

\* The chain from c holds n clusters of the text of that size.
Holding(c, size, n) ==
  /\ Len(Chain(c)) = n
  /\ \A k \in 1 .. n : data[Chain(c)[k]] = <<size, k>>

Telling ==
  /\ job.ret <= job.size /\ (job.ret < job.size => FreeClusters = {})
  /\ job.ret > 0 => Holding(job.first, job.size, Needed(job.ret))
  /\ Ahead = <<>> => Slot(job.loc).first = job.first

WritingInv ==
  /\ job.used <= Needed(job.size)
  /\ \/ job.at = "body" /\ job.used = 0 /\ job.prev = 0 /\ Ahead # <<>> /\ Placing(NewEntry)
     \/ /\ Finds(cwd, JobName, job.loc)
        /\ job.at = "body" => \E s \in [1 .. job.used -> Clusters] : Laid(s) /\ Laying(s)
        /\ job.at = "entry" => \E s \in [1 .. job.used -> Clusters] : Laid(s) /\ Trimming(s)
        /\ job.at = "return" => Telling

\* A mkdir without room leaves its own cluster free at most.
MakingInv ==
  /\ job.at = "slot" => job.ret = 0
  /\ job.at = "return" /\ job.ret = -2 =>
       /\ FreeClusters \subseteq {job.first}
       /\ \A i \in 1 .. Len(Ahead) : Ahead[i] = <<"fat", 1, job.first, 0>>

\* The promise, where it is made.
Honest == FittingNames => WriteIsHonest

HonestInv ==
  /\ DOMAIN data = Clusters
  /\ ~Idle => last = NoCall
  /\ Honest
  /\ job.call \in {"write", "touch"} => WritingInv
  /\ job.call = "mkdir" => MakingInv

-----------------------------------------------------------------------------
(***************************************************************************)
(* Chains and searches                                                     *)
(***************************************************************************)
\* The clusters s, none of them twice, are each followed by the next, the last by none.
Joined(s, n) ==
  /\ n \in Nat /\ n > 0 /\ s \in [1 .. n -> Clusters]
  /\ \A j, k \in 1 .. n : s[j] = s[k] => j = k
  /\ \A k \in 1 .. n - 1 : FatNext(s[k]) = s[k + 1]
  /\ FatNext(s[n]) \notin Clusters

\* They are a chain.
LEMMA ChainIs ==
  ASSUME NEW n, NEW s, Joined(s, n)
  PROVE  Chain(s[1]) = s
<1>1. LastCluster \in Nat /\ IsFiniteSet(Clusters) /\ Cardinality(Clusters) = LastCluster - 1
  BY ClustersAre, Fat32Assumption
<1>2. n \in Nat /\ n > 0 /\ s \in [1 .. n -> Clusters]
  BY DEF Joined
<1>3. n <= LastCluster - 1
  <2>1. SUFFICES ASSUME LastCluster - 1 < n PROVE FALSE
    BY <1>1, <1>2
  <2>2. IsFiniteSet(1 .. n) /\ Cardinality(1 .. n) = n
    BY <1>2, FS_Interval
  <2>3. \E x, y \in 1 .. n : x # y /\ s[x] = s[y]
    BY <1>1, <1>2, <2>1, <2>2, FS_PigeonHole
  <2>4. QED
    BY <2>3 DEF Joined
<1>4. /\ Walk(s[1])[1] = s[1]
      /\ \A k \in 2 .. LastCluster : Walk(s[1])[k] = Follow(Walk(s[1])[k-1])
  BY WalkFacts
<1> DEFINE odd == {k \in 1 .. n : Walk(s[1])[k] # s[k]}
<1>5. odd = {}
  <2>1. SUFFICES ASSUME odd # {} PROVE FALSE
    OBVIOUS
  <2>2. PICK k \in odd : \A j \in odd : k <= j
    <3>1. odd \subseteq Nat
      BY <1>2
    <3> HIDE DEF odd
    <3>2. QED
      BY <2>1, <3>1, LeastNat
  <2>3. k \in 1 .. n /\ k # 1 /\ Walk(s[1])[k] # s[k]
    BY <1>4
  <2>4. k \in 2 .. LastCluster /\ k - 1 \in 1 .. n - 1 /\ k - 1 \in 1 .. n /\ ~(k <= k - 1)
    BY <1>1, <1>2, <1>3, <2>3
  <2>5. k - 1 \notin odd
    <3> HIDE DEF odd
    <3>1. QED
      BY <2>2, <2>4
  <2>6. Walk(s[1])[k - 1] = s[k - 1] /\ s[k - 1] \in Clusters
    BY <1>2, <2>4, <2>5
  <2>7. FatNext(s[k - 1]) = s[(k - 1) + 1] /\ (k - 1) + 1 = k
    BY <2>3, <2>4 DEF Joined
  <2>8. QED
    BY <1>4, <2>3, <2>4, <2>6, <2>7 DEF Follow
<1>6. \A k \in 1 .. n : Walk(s[1])[k] = s[k]
  BY <1>5
<1>7. PICK m \in 0 .. LastCluster :
        /\ Chain(s[1]) = [k \in 1 .. m |-> Walk(s[1])[k]]
        /\ \A i \in 0 .. LastCluster :
             i <= m <=> \A k \in 1 .. i : Walk(s[1])[k] \in Clusters
  BY ChainReach
<1>8. n <= m
  BY <1>1, <1>2, <1>3, <1>6, <1>7
<1>9. ~(n + 1 <= m)
  <2>1. n \in 1 .. n /\ n + 1 \in 2 .. LastCluster /\ n + 1 \in 0 .. LastCluster /\ n + 1 \in 1 .. n + 1
        /\ (n + 1) - 1 = n
    BY <1>1, <1>2, <1>3
  <2>2. Walk(s[1])[n + 1] = FatNext(s[n])
    BY <1>2, <1>4, <1>6, <2>1 DEF Follow
  <2>3. Walk(s[1])[n + 1] \notin Clusters
    BY <2>2 DEF Joined
  <2>4. QED
    BY <1>7, <2>1, <2>3
<1>10. m = n
  BY <1>1, <1>2, <1>7, <1>8, <1>9
<1>11. QED
  BY <1>2, <1>6, <1>7, <1>10

LEMMA ChainsAre == \A n, s, c : Joined(s, n) /\ c = s[1] => Chain(c) = s
BY ChainIs

\* The same, after a step.
LEMMA ChainsAreNext == (\A n, s, c : Joined(s, n) /\ c = s[1] => Chain(c) = s)'
BY ChainsAre, PTL

\* The clusters of a chain are different ones.
LEMMA ChainApart ==
  ASSUME TypeOK, NEW own, NEW pos, Base(own, pos), NEW d \in Clusters
  PROVE  \A j, k \in 1 .. Len(Chain(d)) : Chain(d)[j] = Chain(d)[k] => j = k
<1> DEFINE s == Chain(d)
<1>1. s \in Seq(Clusters)
  BY ChainFacts
<1>2. \A j, k \in 1 .. Len(s) : j < k => pos[s[j]] < pos[s[k]]
  BY ChainLabels DEF Base
<1>3. \A k \in 1 .. Len(s) : pos[s[k]] \in Nat
  BY <1>1, ElementOfSeq DEF Base, Labels
<1> HIDE DEF s
<1>4. ASSUME NEW j \in 1 .. Len(s), NEW k \in 1 .. Len(s), s[j] = s[k] PROVE j = k
  <2>1. Len(s) \in Nat
    BY <1>1
  <2>2. ~(j < k) /\ ~(k < j)
    BY <1>2, <1>3, <1>4
  <2>3. QED
    BY <2>1, <2>2
<1>5. QED
  BY <1>4 DEF s

\* A search finds what the entry is the first of.
LEMMA FindsIs ==
  ASSUME TypeOK, NEW own, NEW pos, Base(own, pos), NEW d \in Clusters, NEW name, NEW l,
         Finds(d, name, l)
  PROVE  FindEntry(d, name) = l
<1> DEFINE chain == Chain(d)
           ps == {p \in Listed(chain) : Slot(Place(chain, p)).name = name}
<1>1. PICK p \in Positions(chain) :
        /\ l = Place(chain, p) /\ Slot(l).state = "used" /\ Slot(l).name = name
        /\ Passed(d, name, p)
  BY DEF Finds
<1>2. p \in Listed(chain)
  BY <1>1 DEF Listed, Passed
<1>3. p \in ps
  BY <1>1, <1>2
<1>4. chain \in Seq(Clusters) /\ ps \subseteq Nat \X Nat
  <2>1. chain \in Seq(Clusters)
    BY ChainFacts
  <2>2. Positions(chain) \subseteq Nat \X Nat
    BY <2>1, Fat32Assumption DEF Positions
  <2>3. QED
    BY <2>1, <2>2 DEF Listed
<1>5. \A q \in ps : ~Before(q, p)
  BY <1>1 DEF Listed, Passed
<1> DEFINE f == CHOOSE q \in ps : \A r \in ps : ~Before(r, q)
<1>6. f \in ps /\ \A r \in ps : ~Before(r, f)
  <2> HIDE DEF ps
  <2>1. QED
    BY <1>3, <1>4, FirstPosition
<1>7. f = p
  <2>1. f \in Nat \X Nat /\ p \in Nat \X Nat /\ ~Before(f, p) /\ ~Before(p, f)
    BY <1>3, <1>4, <1>5, <1>6
  <2> HIDE DEF f
  <2>2. QED
    BY <2>1 DEF Before
<1>8. FindEntry(d, name) = First(chain, ps)
  BY DEF FindEntry
<1>9. First(chain, ps) = Place(chain, f)
  BY <1>3 DEF First
<1>10. QED
  BY <1>1, <1>7, <1>8, <1>9

\* The positions of a directory have places on the volume, and an order.
LEMMA PositionsAre ==
  ASSUME NEW d
  PROVE  /\ Chain(d) \in Seq(Clusters) /\ Positions(Chain(d)) \subseteq Nat \X Nat
         /\ \A p \in Positions(Chain(d)) :
              /\ Place(Chain(d), p) \in Places
              /\ Place(Chain(d), p)[1] \in ToSet(Chain(d))
         /\ \A p, q, r \in Positions(Chain(d)) : Before(p, q) /\ Before(q, r) => Before(p, r)
<1>1. Chain(d) \in Seq(Clusters)
  BY ChainFacts
<1>2. Positions(Chain(d)) \subseteq Nat \X Nat
  BY <1>1, Fat32Assumption DEF Positions
<1>3. ASSUME NEW p \in Positions(Chain(d))
      PROVE  /\ Place(Chain(d), p) \in Places
             /\ Place(Chain(d), p)[1] \in ToSet(Chain(d))
  <2>1. p[1] \in 1 .. Len(Chain(d)) /\ p[2] \in 1 .. Slots
    BY DEF Positions
  <2>2. Chain(d)[p[1]] \in ToSet(Chain(d)) /\ Chain(d)[p[1]] \in Clusters
    BY <1>1, <2>1, ToSetIs, ElementOfSeq
  <2>3. QED
    BY <2>1, <2>2 DEF Place, Places
<1>4. ASSUME NEW p \in Nat \X Nat, NEW q \in Nat \X Nat, NEW r \in Nat \X Nat,
             Before(p, q), Before(q, r)
      PROVE  Before(p, r)
  BY <1>4 DEF Before
<1>5. QED
  BY <1>1, <1>2, <1>3, <1>4

\* What is found is found first.
LEMMA FoundFinds ==
  ASSUME NEW d, NEW name, NEW l, l = FindEntry(d, name), l # NoPlace
  PROVE  Finds(d, name, l)
<1> DEFINE chain == Chain(d)
           ps == {p \in Listed(chain) : Slot(Place(chain, p)).name = name}
           f == CHOOSE q \in ps : \A r \in ps : ~Before(r, q)
<1>1. l = First(chain, ps)
  BY DEF FindEntry
<1>2. ps # {} /\ l = Place(chain, f)
  BY <1>1 DEF First
<1>3. ps \subseteq Positions(chain)
  BY DEF Listed
<1>4. f \in ps /\ \A r \in ps : ~Before(r, f)
  <2>1. ps \subseteq Nat \X Nat
    BY <1>3, PositionsAre
  <2> HIDE DEF ps
  <2>2. QED
    BY <1>2, <2>1, FirstPosition
<1> HIDE DEF f
<1>5. f \in Positions(chain) /\ Slot(l).state = "used" /\ Slot(l).name = name
  BY <1>2, <1>3, <1>4 DEF Listed
<1>6. ASSUME NEW q \in Positions(chain), Before(q, f)
      PROVE  /\ Slot(Place(chain, q)).state # "end"
             /\ Slot(Place(chain, q)).state = "used" => Slot(Place(chain, q)).name # name
  <2>1. \A r \in Positions(chain) : Before(r, f) => Slot(Place(chain, r)).state # "end"
    BY <1>4 DEF Listed
  <2>2. \A r \in Positions(chain) : Before(r, q) => Slot(Place(chain, r)).state # "end"
    BY <1>5, <1>6, <2>1, PositionsAre
  <2>3. Slot(Place(chain, q)).state = "used" => q \in Listed(chain)
    BY <2>2 DEF Listed
  <2>4. QED
    BY <1>4, <1>6, <2>1, <2>3
<1>7. QED
  BY <1>2, <1>5, <1>6 DEF Finds, Passed

\* An entry of the name that is not found is at no position before which all are used.
LEMMA AllPassed ==
  ASSUME NEW d, NEW name, FindEntry(d, name) = NoPlace, NEW p,
         \A q, r \in Positions(Chain(d)) : Before(r, q) /\ Before(q, p) => Before(r, p),
         \A q \in Positions(Chain(d)) : Before(q, p) => Slot(Place(Chain(d), q)).state = "used"
  PROVE  Passed(d, name, p)
<1> DEFINE chain == Chain(d)
           ps == {q \in Listed(chain) : Slot(Place(chain, q)).name = name}
<1>1. ps = {}
  <2>1. ps \in SUBSET Positions(chain)
    BY DEF Listed
  <2>2. First(chain, ps) = NoPlace
    BY DEF FindEntry
  <2> HIDE DEF ps
  <2>3. QED
    BY <2>1, <2>2, FirstFacts, PlaceIsSome
<1>2. ASSUME NEW q \in Positions(chain), Before(q, p)
      PROVE  /\ Slot(Place(chain, q)).state # "end"
             /\ Slot(Place(chain, q)).state = "used" => Slot(Place(chain, q)).name # name
  <2>1. \A r \in Positions(chain) : Before(r, q) => Slot(Place(chain, r)).state = "used"
    BY <1>2
  <2>2. q \in Listed(chain)
    BY <1>2, <2>1 DEF Listed
  <2>3. QED
    BY <1>1, <1>2, <2>2
<1>3. QED
  BY <1>2 DEF Passed

\* The free slot that is found comes before another entry of that name.
LEMMA FreePassed ==
  ASSUME NEW d, NEW name, FindEntry(d, name) = NoPlace, NEW l, l = FindFreeSlot(d),
         l # NoPlace
  PROVE  \E p \in Positions(Chain(d)) : l = Place(Chain(d), p) /\ Passed(d, name, p)
<1> DEFINE chain == Chain(d)
           ps == {q \in Positions(chain) : Slot(Place(chain, q)).state # "used"}
           f == CHOOSE q \in ps : \A r \in ps : ~Before(r, q)
<1>1. l = First(chain, ps)
  BY DEF FindFreeSlot
<1>2. ps # {} /\ l = Place(chain, f)
  BY <1>1 DEF First
<1>3. f \in ps /\ \A r \in ps : ~Before(r, f)
  <2>1. ps \subseteq Nat \X Nat
    BY PositionsAre
  <2> HIDE DEF ps
  <2>2. QED
    BY <1>2, <2>1, FirstPosition
<1> HIDE DEF f
<1>4. f \in Positions(chain)
  BY <1>3
<1>5. \A q \in Positions(chain) : Before(q, f) => Slot(Place(chain, q)).state = "used"
  BY <1>3
<1>6. \A q, r \in Positions(chain) : Before(r, q) /\ Before(q, f) => Before(r, f)
  BY <1>4, PositionsAre
<1>7. Passed(d, name, f)
  BY <1>5, <1>6, AllPassed
<1>8. QED
  BY <1>2, <1>4, <1>7

\* With no free slot, an entry behind the last comes before another of that name.
LEMMA FullPassed ==
  ASSUME NEW d, NEW name, FindEntry(d, name) = NoPlace, FindFreeSlot(d) = NoPlace
  PROVE  Passed(d, name, <<Len(Chain(d)) + 1, 1>>)
<1> DEFINE chain == Chain(d)
           ps == {q \in Positions(chain) : Slot(Place(chain, q)).state # "used"}
           p == <<Len(chain) + 1, 1>>
<1>1. ps = {}
  <2>1. ps \in SUBSET Positions(chain)
    OBVIOUS
  <2>2. First(chain, ps) = NoPlace
    BY DEF FindFreeSlot
  <2> HIDE DEF ps
  <2>3. QED
    BY <2>1, <2>2, FirstFacts, PlaceIsSome
<1>2. \A q \in Positions(chain) : Slot(Place(chain, q)).state = "used"
  BY <1>1
<1>3. \A q \in Positions(chain) : Before(q, p)
  <2>1. Len(chain) \in Nat
    BY ChainFacts
  <2>2. QED
    BY <2>1 DEF Positions, Before
<1>4. QED
  BY <1>2, <1>3, AllPassed

-----------------------------------------------------------------------------
(***************************************************************************)
(* A directory, from one write to the next                                 *)
(***************************************************************************)
LEMMA PassedStill ==
  ASSUME NEW d, NEW name, NEW p, Still(d), Passed(d, name, p)
  PROVE  Passed(d, name, p)'
<1>1. Chain(d)' = Chain(d) /\ Positions(Chain(d))' = Positions(Chain(d))
  BY DEF Still, Positions
<1>2. ASSUME NEW q \in Positions(Chain(d))
      PROVE  Slot(Place(Chain(d), q))' = Slot(Place(Chain(d), q))
  <2>1. PICK l : l = Place(Chain(d), q)
    OBVIOUS
  <2>2. Slot(l)' = Slot(l)
    BY <2>1, PositionsAre DEF Still
  <2>3. Place(Chain(d), q)' = l
    BY <1>1, <2>1 DEF Place
  <2>4. QED
    BY <2>1, <2>2, <2>3 DEF Slot
<1>3. QED
  BY <1>1, <1>2 DEF Passed

LEMMA FindsStill ==
  ASSUME NEW d, NEW name, NEW l, Still(d), Finds(d, name, l)
  PROVE  Finds(d, name, l)'
<1>1. PICK p \in Positions(Chain(d)) :
        /\ l = Place(Chain(d), p) /\ Slot(l).state = "used" /\ Slot(l).name = name
        /\ Passed(d, name, p)
  BY DEF Finds
<1>2. Chain(d)' = Chain(d) /\ Positions(Chain(d))' = Positions(Chain(d))
  BY DEF Still, Positions
<1>3. Slot(l)' = Slot(l)
  BY <1>1, PositionsAre DEF Still
<1>4. l = Place(Chain(d), p)'
  BY <1>1, <1>2 DEF Place
<1>5. Passed(d, name, p)'
  BY <1>1, PassedStill
<1>6. QED
  BY <1>1, <1>2, <1>3, <1>4, <1>5 DEF Finds

\* The entry of the call in progress is found as before.
LEMMA FindsNext ==
  ASSUME Still(cwd), cwd' = cwd, job'.name = job.name, job'.loc = job.loc,
         Finds(cwd, JobName, job.loc)
  PROVE  Finds(cwd, JobName, job.loc)'
<1>1. PICK d, name, l : d = cwd /\ name = JobName /\ l = job.loc
  OBVIOUS
<1>2. Finds(d, name, l)'
  <2>1. Still(d)
    BY <1>1 DEF Still
  <2>2. Finds(d, name, l)
    BY <1>1 DEF Finds, Passed
  <2>3. QED
    BY <2>1, <2>2, FindsStill
<1>3. JobName' = name
  BY <1>1 DEF JobName
<1>4. cwd' = d /\ job'.loc = l
  BY <1>1
<1>5. QED
  BY <1>2, <1>3, <1>4 DEF Finds, Passed

\* A cluster that is not a directory's is written.
LEMMA StillAway ==
  ASSUME NEW d, NEW c, c \notin ToSet(Chain(d)), Elsewhere(c),
         \A x \in Clusters : x # c => FatNext(x)' = FatNext(x)
  PROVE  Still(d)
<1>1. \A x \in ToSet(Chain(d)) : x \in Clusters /\ x # c
  BY ChainFacts, ToSetIs
<1>2. Chain(d)' = Chain(d)
  <2>1. \A x \in ToSet(Chain(d)) : FatNext(x)' = FatNext(x)
    BY <1>1
  <2>2. QED
    BY <2>1, ChainStays
<1>3. QED
  BY <1>1, <1>2 DEF Still, Elsewhere

\* An entry is written at a place that is passed for it: it is found there.
LEMMA EntryFinds ==
  ASSUME TypeOK, NEW own, NEW pos, Base(own, pos), NEW d \in Clusters, NEW name,
         NEW p \in Positions(Chain(d)), NEW l, l = Place(Chain(d), p), Passed(d, name, p),
         SameTable, NEW e, \A m \in Places : Slot(m)' = IF m = l THEN e ELSE Slot(m),
         e.state = "used", e.name = name
  PROVE  Finds(d, name, l)'
<1>1. Chain(d)' = Chain(d)
  <2>1. \A x \in ToSet(Chain(d)) : FatNext(x)' = FatNext(x)
    BY ChainFacts, ToSetIs DEF SameTable
  <2>2. QED
    BY <2>1, ChainStays
<1>2. Positions(Chain(d))' = Positions(Chain(d)) /\ Place(Chain(d), p)' = l
  BY <1>1 DEF Positions, Place
<1>3. Slot(l)' = e
  BY PositionsAre
<1>4. ASSUME NEW q \in Positions(Chain(d)), Before(q, p)
      PROVE  Slot(Place(Chain(d), q))' = Slot(Place(Chain(d), q))
  <2>1. PICK m : m = Place(Chain(d), q)
    OBVIOUS
  <2>2. q[1] \in 1 .. Len(Chain(d)) /\ p[1] \in 1 .. Len(Chain(d)) /\ q \in Nat \X Nat /\ p \in Nat \X Nat
    BY PositionsAre DEF Positions
  <2>3. q[1] # p[1] \/ q[2] # p[2]
    BY <1>4, <2>2 DEF Before
  <2>4. m # l
    BY <2>1, <2>2, <2>3, ChainApart DEF Place
  <2>5. Slot(m)' = Slot(m)
    BY <2>1, <2>4, PositionsAre
  <2>6. Place(Chain(d), q)' = m
    BY <1>1, <2>1 DEF Place
  <2>7. QED
    BY <2>1, <2>5, <2>6 DEF Slot
<1>5. Passed(d, name, p)'
  BY <1>1, <1>2, <1>4 DEF Passed
<1>6. QED
  BY <1>2, <1>3, <1>5 DEF Finds

\* A cluster is linked to the end of a directory.
LEMMA LinkExtends ==
  ASSUME TypeOK, NEW own, NEW pos, Base(own, pos), NEW d \in Clusters,
         NEW c \in Clusters, c \notin ToSet(Chain(d)), FatNext(c) \notin Clusters,
         Tables(Rear(d), c)
  PROVE  Chain(d)' = Append(Chain(d), c)
<1>1. PICK s, n : s = Chain(d) /\ n = Len(s)
  OBVIOUS
<1>2. /\ s \in Seq(Clusters) /\ n \in Nat /\ n >= 1 /\ s \in [1 .. n -> Clusters]
      /\ s[1] = d
  BY <1>1, ChainFacts, SMTT(30)
<1>3. \A j, k \in 1 .. n : s[j] = s[k] => j = k
  BY <1>1, ChainApart
<1>4. \A k \in 1 .. n : s[k] # c
  BY <1>1, <1>2, ToSetIs
<1>5. \A k \in 1 .. n - 1 : s[k + 1] = FatNext(s[k])
  BY <1>1, ChainSteps
<1>6. \A x \in Clusters : FatNext(x)' = IF x = s[n] THEN c ELSE FatNext(x)
  BY <1>1 DEF Tables, Rear
<1>7. PICK t : t = Append(s, c)
  OBVIOUS
<1>8. /\ t \in [1 .. n + 1 -> Clusters] /\ t[n + 1] = c /\ \A k \in 1 .. n : t[k] = s[k]
  <2>1. t \in Seq(Clusters) /\ Len(t) = n + 1
    BY <1>1, <1>2, <1>7, AppendProperties
  <2>2. t[n + 1] = c /\ \A k \in 1 .. n : t[k] = s[k]
    BY <1>1, <1>2, <1>7, AppendProperties
  <2>3. QED
    BY <2>1, <2>2
<1>9. Joined(t, n + 1)'
  <2>1. \A j, k \in 1 .. n + 1 : t[j] = t[k] => j = k
    <3>1. \A k \in 1 .. n + 1 : k \in 1 .. n \/ k = n + 1
      BY <1>2
    <3>2. QED
      BY <1>3, <1>4, <1>8, <3>1
  <2>2. ASSUME NEW k \in 1 .. (n + 1) - 1 PROVE FatNext(t[k])' = t[k + 1]
    <3>1. k \in 1 .. n /\ t[k] = s[k] /\ s[k] \in Clusters
      BY <1>2, <1>8
    <3>2. CASE k = n
      BY <1>6, <1>8, <3>1, <3>2
    <3>3. CASE k # n
      <4>1. k \in 1 .. n - 1 /\ k + 1 \in 1 .. n /\ n \in 1 .. n
        BY <1>2, <3>1, <3>3
      <4>2. FatNext(s[k])' = FatNext(s[k])
        BY <1>3, <1>6, <3>1, <3>3, <4>1
      <4>3. QED
        BY <1>5, <1>8, <3>1, <4>1, <4>2
    <3>4. QED
      BY <3>2, <3>3
  <2>3. FatNext(t[n + 1])' = FatNext(c)
    BY <1>2, <1>4, <1>6, <1>8
  <2>4. n + 1 \in Nat /\ n + 1 > 0
    BY <1>2
  <2>5. QED
    BY <1>8, <2>1, <2>2, <2>3, <2>4 DEF Joined
<1>10. d = t[1]
  BY <1>2, <1>8
<1>11. Chain(d)' = t
  BY <1>9, <1>10, ChainsAreNext
<1>12. QED
  BY <1>1, <1>7, <1>11

\* So the position behind its last one has a place, and is passed as before.
LEMMA LinkPasses ==
  ASSUME TypeOK, NEW own, NEW pos, Base(own, pos), NEW d \in Clusters,
         NEW c \in Clusters, c \notin ToSet(Chain(d)), FatNext(c) \notin Clusters,
         Tables(Rear(d), c), SameSlots, NEW name,
         Passed(d, name, <<Len(Chain(d)) + 1, 1>>)
  PROVE  \E p \in Positions(Chain(d))' :
           <<c, 1>> = Place(Chain(d), p)' /\ Passed(d, name, p)'
<1>1. PICK s, n, p : s = Chain(d) /\ n = Len(s) /\ p = <<n + 1, 1>>
  OBVIOUS
<1>2. s \in Seq(Clusters) /\ n \in Nat
  BY <1>1, ChainFacts
<1>3. Chain(d)' = Append(s, c)
  BY <1>1, LinkExtends
<1>4. PICK t : t = Append(s, c)
  OBVIOUS
<1>5. Len(t) = n + 1 /\ t[n + 1] = c /\ \A k \in 1 .. n : t[k] = s[k]
  BY <1>1, <1>2, <1>4
<1>6. p \in Positions(t) /\ Place(t, p) = <<c, 1>>
  BY <1>1, <1>2, <1>5, Fat32Assumption DEF Positions, Place
<1>7. ASSUME NEW q \in Positions(t), Before(q, p)
      PROVE  q \in Positions(s) /\ Place(t, q) = Place(s, q)
  <2>1. q \in (1 .. n + 1) \X (1 .. Slots) /\ Slots \in Nat
    BY <1>5, Fat32Assumption DEF Positions
  <2>2. q[1] \in 1 .. n /\ q[2] \in 1 .. Slots
    BY <1>1, <1>2, <1>7, <2>1 DEF Before
  <2>3. q = <<q[1], q[2]>>
    BY <2>1
  <2>4. q \in Positions(s)
    BY <1>1, <2>2, <2>3 DEF Positions
  <2>5. QED
    BY <1>5, <2>2, <2>4 DEF Place
<1>8. Passed(d, name, p)'
  <2>1. ASSUME NEW q \in Positions(t), Before(q, p)
        PROVE  Slot(Place(t, q))' = Slot(Place(s, q))
    <3>1. PICK m : m = Place(s, q)
      OBVIOUS
    <3>2. m \in Places
      BY <1>1, <1>7, <2>1, <3>1, PositionsAre
    <3>3. Slot(m)' = Slot(m)
      BY <3>2 DEF SameSlots
    <3>4. QED
      BY <1>7, <2>1, <3>1, <3>3 DEF Slot
  <2>2. Chain(d)' = t
    BY <1>3, <1>4
  <2>3. \A q \in Positions(s) : Before(q, p) =>
          /\ Slot(Place(s, q)).state # "end"
          /\ Slot(Place(s, q)).state = "used" => Slot(Place(s, q)).name # name
    BY <1>1 DEF Passed
  <2>4. \A q \in Positions(t) : Before(q, p) =>
          /\ Slot(Place(t, q))'.state # "end"
          /\ Slot(Place(t, q))'.state = "used" => Slot(Place(t, q))'.name # name
    BY <1>7, <2>1, <2>3
  <2>5. QED
    BY <2>2, <2>4 DEF Passed, Positions, Place
<1>9. QED
  BY <1>3, <1>4, <1>6, <1>8 DEF Positions, Place

-----------------------------------------------------------------------------
(***************************************************************************)
(* What a sector write changes of the data                                 *)
(***************************************************************************)
\* No other cluster's data than c's.
DataElsewhere(c) == \A x \in Clusters : x # c => data'[x] = data[x]

PutsData(w) ==
  /\ DOMAIN data' = Clusters
  /\ w[1] = "slot" \/ (w[1] = "fat" /\ w[4] # 0) => data' = data
  /\ w[1] = "fat" /\ w[4] = 0 => DataElsewhere(w[3])
  /\ w[1] = "zero" => DataElsewhere(w[2])
  /\ w[1] = "data" => DataElsewhere(w[2]) /\ data'[w[2]] = w[3]

LEMMA PutData ==
  ASSUME NEW w \in WriteType, Put(w), w[1] = "fat" => w[2] = 1, DOMAIN data = Clusters,
         w[1] # "seed"
  PROVE  PutsData(w)
<1>1. CASE /\ w[1] = "fat" /\ w[3] \in Clusters /\ w[4] \in Links /\ w[4] # 0
  BY <1>1 DEF Put, Frees, PutsData
<1>2. CASE /\ w[1] = "fat" /\ w[3] \in Clusters /\ w[4] = 0
  <2>1. data' = [data EXCEPT ![w[3]] = StaleData]
    BY <1>2 DEF Put, Frees
  <2>2. QED
    BY <1>2, <2>1 DEF PutsData, DataElsewhere
<1>3. CASE w[1] = "slot"
  <2>1. data' = data
    BY <1>3 DEF Put, Frees
  <2>2. QED
    BY <1>3, <2>1 DEF PutsData
<1>4. CASE w[1] = "zero" /\ w[2] \in Clusters
  <2>1. data' = [data EXCEPT ![w[2]] = <<>>]
    BY <1>4 DEF Put, Frees
  <2>2. QED
    BY <1>4, <2>1 DEF PutsData, DataElsewhere
<1>5. CASE w[1] = "data" /\ w[2] \in Clusters
  <2>1. data' = [data EXCEPT ![w[2]] = w[3]]
    BY <1>5 DEF Put, Frees
  <2>2. QED
    BY <1>5, <2>1 DEF PutsData, DataElsewhere
<1>6. QED
  BY <1>1, <1>2, <1>3, <1>4, <1>5, WriteKinds

LEMMA SeedData ==
  ASSUME NEW w \in WriteType, Put(w), w[1] = "seed" PROVE data' = data
BY DEF Put, Frees

\* A sector write repeats the one under way, or takes the next one.
SectorPuts ==
  \/ Repeats /\ data' = data
  \/ /\ Takes /\ Head(Ahead) \in WriteType
     /\ Head(Ahead)[1] = "seed" => data' = data
     /\ Head(Ahead)[1] # "seed" => PutsData(Head(Ahead))

LEMMA SectorPutsData ==
  ASSUME Inv, DOMAIN data = Clusters, WriteSector PROVE SectorPuts
<1>1. /\ todo # <<>> /\ todo \in Seq(WriteType) /\ Put(Head(todo))
  BY DEF Inv, TypeOK, WriteSector
<1>2. PICK w : w = Head(todo)
  OBVIOUS
<1>3. w \in WriteType /\ Put(w)
  BY <1>1, <1>2
<1>4. CASE Repeats
  <2>1. w[1] = "fat" /\ w[2] > 1
    BY <1>2, <1>4 DEF Repeats, IsCopy
  <2>2. w[2] \in 1 .. Copies
    BY <1>3, <2>1, WriteKinds
  <2>3. ~Frees(w)
    BY <2>1, <2>2, Fat32Assumption DEF Frees
  <2>4. data' = data
    BY <1>3, <2>1, <2>3 DEF Put
  <2>5. QED
    BY <1>4, <2>4 DEF SectorPuts
<1>5. CASE Takes /\ Ahead = todo
  <2>1. w = Head(Ahead) /\ Ahead # <<>>
    BY <1>2, <1>5 DEF Takes
  <2>2. w[1] = "fat" => w[2] = 1
    BY <1>5, <2>1 DEF Takes, Does
  <2>3. QED
    BY <1>3, <1>5, <2>1, <2>2, PutData, SeedData DEF SectorPuts
<1>6. QED
  BY <1>4, <1>5, SectorDoes

\* A write is begun, and changes the data as it should.
TakesData ==
  /\ Takes /\ Head(Ahead) \in WriteType
  /\ Head(Ahead)[1] = "seed" => data' = data
  /\ Head(Ahead)[1] # "seed" => PutsData(Head(Ahead))

LEMMA AheadWrites ==
  ASSUME TypeOK PROVE Ahead \in Seq(WriteType)
<1>1. todo \in Seq(WriteType) /\ (todo # <<>> => Tail(todo) \in Seq(WriteType))
  BY DEF TypeOK
<1>2. QED
  BY <1>1 DEF Ahead

\* An entry of the table is written, and is not freed.
LEMMA FatStep ==
  ASSUME NEW c \in Clusters, NEW v, v # 0, TakesData, Head(Ahead) = <<"fat", 1, c, v>>
  PROVE  Tables(c, v) /\ SameSlots /\ data' = data
<1>1. Does(<<"fat", 1, c, v>>) /\ PutsData(<<"fat", 1, c, v>>)
  BY DEF TakesData, Takes
<1>2. QED
  BY <1>1 DEF Does, PutsData

\* It is freed.
LEMMA FreeStep ==
  ASSUME NEW c \in Clusters, TakesData, Head(Ahead) = <<"fat", 1, c, 0>>
  PROVE  Tables(c, 0) /\ Elsewhere(c) /\ DataElsewhere(c) /\ DOMAIN data' = Clusters
<1>1. Does(<<"fat", 1, c, 0>>) /\ PutsData(<<"fat", 1, c, 0>>)
  BY DEF TakesData, Takes
<1>2. QED
  BY <1>1 DEF Does, PutsData, Blanks

\* A cluster is zeroed.
LEMMA ZeroStep ==
  ASSUME NEW c \in Clusters, TakesData, Head(Ahead) = <<"zero", c>>
  PROVE  SameTable /\ Elsewhere(c) /\ DataElsewhere(c) /\ DOMAIN data' = Clusters
<1>1. Does(<<"zero", c>>) /\ PutsData(<<"zero", c>>)
  BY DEF TakesData, Takes
<1>2. QED
  BY <1>1 DEF Does, PutsData, Blanks

\* It is written to.
LEMMA StoreStep ==
  ASSUME NEW c \in Clusters, NEW v, TakesData, Head(Ahead) = <<"data", c, v>>
  PROVE  /\ SameTable /\ Elsewhere(c) /\ DataElsewhere(c) /\ DOMAIN data' = Clusters
         /\ data'[c] = v
<1>1. Does(<<"data", c, v>>) /\ PutsData(<<"data", c, v>>)
  BY DEF TakesData, Takes
<1>2. QED
  BY <1>1 DEF Does, PutsData, Blanks

\* An allocation goes on, and leaves other clusters alone.
LEMMA GrowStep ==
  ASSUME NEW c \in Clusters, NEW rest \in Seq(WriteType), rest # <<>>, TakesData,
         DOMAIN data = Clusters, Grows(c, rest)
  PROVE  \/ Ends(c) /\ Ahead = rest
         \/ /\ Elsewhere(c) /\ DataElsewhere(c) /\ DOMAIN data' = Clusters
            /\ \A x \in Clusters : x # c => FatNext(x)' = FatNext(x)
            /\ Grows(c, rest)' /\ Ends(c)' /\ Ahead' # <<>>
<1>1. EOC \notin Clusters /\ EOC # 0
  BY ClustersAre
<1> DEFINE zero == << <<"zero", c>> >> \o rest
<1>2. zero \in Seq(WriteType) /\ zero # <<>> /\ Head(zero) = <<"zero", c>> /\ Tail(zero) = rest
  <2>1. <<"zero", c>> \in WriteType
    BY DEF WriteType
  <2>2. << <<"zero", c>> >> \in Seq(WriteType)
    BY <2>1
  <2>3. zero \in Seq(WriteType)
    BY <2>2, ConcatProperties
  <2>4. QED
    BY <2>3, HeadTail
<1>3. CASE ~Used(c) /\ Ahead = Allocate(c) \o rest
  <2>1. Ahead = << <<"fat", 1, c, EOC>> >> \o zero
    BY <1>3 DEF Allocate, SetFat
  <2> HIDE DEF zero
  <2>2. Head(Ahead) = <<"fat", 1, c, EOC>> /\ Ahead' = zero
    BY <1>2, <2>1, HeadTail DEF Takes, TakesData
  <2>3. Tables(c, EOC) /\ SameSlots /\ data' = data
    BY <1>1, <2>2, FatStep
  <2>4. /\ Elsewhere(c) /\ DataElsewhere(c) /\ DOMAIN data' = Clusters
        /\ \A x \in Clusters : x # c => FatNext(x)' = FatNext(x)
    BY <2>3 DEF SameSlots, Elsewhere, Tables, DataElsewhere
  <2>5. Ends(c)'
    BY <1>1, <2>3 DEF Ends, Tables
  <2>6. Grows(c, rest)' /\ Ahead' # <<>>
    BY <1>2, <2>2, <2>5 DEF Grows, zero
  <2>7. QED
    BY <2>4, <2>5, <2>6
<1>4. CASE Ends(c) /\ Ahead = zero
  <2>1. Head(Ahead) = <<"zero", c>> /\ Ahead' = rest
    BY <1>2, <1>4 DEF Takes, TakesData
  <2>2. SameTable /\ Elsewhere(c) /\ DataElsewhere(c) /\ DOMAIN data' = Clusters
    BY <2>1, ZeroStep
  <2>3. /\ \A x \in Clusters : x # c => FatNext(x)' = FatNext(x)
        /\ Ends(c)'
    BY <1>4, <2>2 DEF SameTable, Ends
  <2>4. Grows(c, rest)'
    BY <2>1, <2>3 DEF Grows
  <2>5. QED
    BY <2>1, <2>2, <2>3, <2>4
<1>5. QED
  BY <1>3, <1>4 DEF Grows

\* A write that is not to the current directory leaves it alone.
LEMMA AwayStill ==
  ASSUME TypeOK, NEW own, NEW pos, Base(own, pos), NEW w \in WriteType, Does(w),
         w[1] # "slot", own[Hit(w)] # cwd, cwd' = cwd
  PROVE  Still(cwd)
<1>1. cwd \in Clusters /\ own[cwd] = cwd
  BY TableType DEF Base, CwdInv, Starts
<1>2. PICK d \in Clusters : d = cwd /\ own[d] = d
  BY <1>1
<1>3. PICK c : c = Hit(w)
  OBVIOUS
<1>4. c \notin ToSet(Chain(d))
  BY <1>2, <1>3, ChainOwner
<1>5. w[1] \in {"fat", "zero", "seed", "data"}
  BY WriteKinds
<1>6. Elsewhere(c)
  <2>1. CASE w[1] = "fat"
    BY <1>3, <2>1 DEF Does, Hit, SameSlots, Blanks, Elsewhere
  <2>2. CASE w[1] \in {"zero", "data", "seed"}
    BY <1>3, <2>2 DEF Does, Hit, Blanks, Elsewhere
  <2>3. QED
    BY <1>5, <2>1, <2>2
<1>7. \A x \in Clusters : x # c => FatNext(x)' = FatNext(x)
  BY <1>3, <1>5 DEF Does, Hit, Tables, SameTable
<1>8. Still(d)
  BY <1>4, <1>6, <1>7, StillAway
<1>9. QED
  BY <1>2, <1>8 DEF Still

-----------------------------------------------------------------------------
(***************************************************************************)
(* A sector write of a call that writes a file                             *)
(***************************************************************************)
\* The entry that is made comes to be found.
LEMMA PlacingStep ==
  ASSUME TypeOK, NEW own, NEW pos, Base(own, pos), DOMAIN data = Clusters, TakesData,
         job' = job, cwd' = cwd, NEW e \in EntryType, e.state = "used", e.name = JobName,
         Placing(e)
  PROVE  /\ DOMAIN data' = Clusters
         /\ \/ Ahead' # <<>> /\ Placing(e)'
            \/ /\ Ahead' = <<>> /\ Finds(cwd, JobName, job.loc)'
               /\ Slot(job.loc)' = e
<1>1. PICK d, name, l : d = cwd /\ name = JobName /\ l = job.loc
  OBVIOUS
<1>2. d \in Clusters /\ cwd' = d /\ JobName' = name /\ job'.loc = l
  BY <1>1, TableType DEF JobName
<1>3. e.state = "used" /\ e.name = name /\ e \in EntryType
  BY <1>1
<1>4. CASE Ahead = SetSlot(l, e) /\ \E p \in Positions(Chain(d)) :
             l = Place(Chain(d), p) /\ Passed(d, name, p)
  <2>1. PICK p \in Positions(Chain(d)) : l = Place(Chain(d), p) /\ Passed(d, name, p)
    BY <1>4
  <2>2. Takes /\ PutsData(Head(Ahead))
    <3>1. Head(Ahead) = <<"slot", l, e>>
      BY <1>4, SlotStep DEF TakesData
    <3>2. QED
      BY <3>1 DEF TakesData
  <2>3. /\ Ahead' = <<>> /\ Head(Ahead) = <<"slot", l, e>> /\ SameTable
        /\ \A m \in Places : Slot(m)' = IF m = l THEN e ELSE Slot(m)
    BY <1>4, <2>2, SlotStep
  <2>4. Finds(d, name, l)'
    BY <1>2, <1>3, <2>1, <2>3, EntryFinds
  <2>5. Finds(cwd, JobName, job.loc)'
    BY <1>2, <2>4 DEF Finds, Passed
  <2>6. Slot(l)' = e
    BY <2>1, <2>3, PositionsAre
  <2>7. Slot(job.loc)' = e
    BY <1>2, <2>6 DEF Slot
  <2>8. QED
    BY <2>2, <2>3, <2>5, <2>7 DEF PutsData
<1>5. ASSUME NEW c \in Clusters, l = <<c, 1>>, c \notin ToSet(Chain(d)),
             Passed(d, name, <<Len(Chain(d)) + 1, 1>>),
             Grows(c, SetFat(Rear(d), c) \o SetSlot(l, e))
      PROVE  DOMAIN data' = Clusters /\ Ahead' # <<>> /\ Placing(e)'
  <2>1. PICK r : r = Rear(d)
    OBVIOUS
  <2>2. r \in Clusters
    BY <1>2, <2>1, ChainFacts DEF Rear
  <2>3. PICK rest : rest = SetFat(r, c) \o SetSlot(l, e)
    OBVIOUS
  <2>4. l \in Places
    BY <1>5, Fat32Assumption DEF Places
  <2>5. SetSlot(l, e) \in Seq(WriteType) /\ SetFat(r, c) \in Seq(WriteType)
    <3>1. <<"slot", l, e>> \in WriteType /\ <<"fat", 1, r, c>> \in WriteType
      BY <1>3, <2>2, <2>4, Fat32Assumption DEF WriteType, Links
    <3>2. QED
      BY <3>1 DEF SetSlot, SetFat
  <2>6. /\ rest \in Seq(WriteType) /\ rest # <<>>
        /\ Head(rest) = <<"fat", 1, r, c>> /\ Tail(rest) = SetSlot(l, e)
    <3>1. rest \in Seq(WriteType)
      BY <2>3, <2>5, ConcatProperties
    <3>2. rest = << <<"fat", 1, r, c>> >> \o SetSlot(l, e)
      BY <2>3 DEF SetFat
    <3>3. QED
      BY <2>5, <3>1, <3>2, HeadTail
  <2>7. Grows(c, rest)
    BY <1>5, <2>1, <2>3
  <2>8. CASE Ends(c) /\ Ahead = rest
    <3>1. Ahead' = SetSlot(l, e) /\ Head(Ahead) = <<"fat", 1, r, c>>
      BY <2>6, <2>8 DEF TakesData, Takes
    <3>2. Tables(r, c) /\ SameSlots /\ data' = data
      BY <2>2, <3>1, ClustersAre, FatStep
    <3>3. \E p \in Positions(Chain(d))' : l = Place(Chain(d), p)' /\ Passed(d, name, p)'
      BY <1>2, <1>5, <2>1, <2>8, <3>2, LinkPasses DEF Ends
    <3>4. Placing(e)'
      BY <1>2, <3>1, <3>3 DEF Placing, Passed, Positions, Place
    <3>5. Ahead' # <<>>
      BY <3>1, OneWrite DEF SetSlot
    <3>6. QED
      BY <3>2, <3>4, <3>5
  <2>9. CASE /\ Elsewhere(c) /\ DOMAIN data' = Clusters
             /\ \A x \in Clusters : x # c => FatNext(x)' = FatNext(x)
             /\ Grows(c, rest)' /\ Ahead' # <<>>
    <3>1. Still(d)
      BY <1>5, <2>9, StillAway
    <3>2. Chain(d)' = Chain(d)
      BY <3>1 DEF Still
    <3>3. PICK p : p = <<Len(Chain(d)) + 1, 1>>
      OBVIOUS
    <3>4. Passed(d, name, p)'
      BY <1>5, <3>1, <3>3, PassedStill
    <3>5. Rear(d)' = r
      BY <2>1, <3>2 DEF Rear
    <3>6. Chain(cwd)' = Chain(d)
      BY <1>2, <3>2
    <3>7. /\ Rear(cwd)' = r /\ c \notin ToSet(Chain(cwd))'
          /\ Passed(cwd, JobName, <<Len(Chain(cwd)) + 1, 1>>)'
      BY <1>2, <1>5, <3>3, <3>4, <3>5, <3>6 DEF Rear, Passed
    <3>8. Grows(c, SetFat(Rear(cwd), c) \o SetSlot(job.loc, e))'
      BY <1>2, <2>3, <2>9, <3>7 DEF Grows
    <3>9. QED
      BY <1>2, <1>5, <2>9, <3>7, <3>8 DEF Placing
  <2>10. QED
    BY <2>6, <2>7, <2>8, <2>9, GrowStep
<1>6. QED
  BY <1>1, <1>4, <1>5 DEF Placing

\* The clusters written stay so when what changes is the last of them, or the link to it.
LEMMA LaidFrame ==
  ASSUME TypeOK, NEW s, Laid(s), job' = job, job.used > 0,
         \A x \in Clusters : x # job.prev => data'[x] = data[x],
         \A x \in Clusters : (\A k \in 1 .. job.used : k >= job.used - 1 => x # s[k])
                               => FatNext(x)' = FatNext(x)
  PROVE  Laid(s)'
<1>1. PICK u : u = job.used
  OBVIOUS
<1>2. u \in Nat /\ s \in [1 .. u -> Clusters] /\ s[u] = job.prev
      /\ \A j, k \in 1 .. u : s[j] = s[k] => j = k
  BY <1>1 DEF TypeOK, JobType, Laid
<1>3. ASSUME NEW k \in 1 .. u - 1 PROVE data'[s[k]] = data[s[k]]
  <2>1. k \in 1 .. u /\ u \in 1 .. u /\ k # u /\ s[k] \in Clusters
    BY <1>1, <1>2
  <2>2. s[k] # job.prev
    BY <1>2, <2>1
  <2>3. QED
    BY <2>1, <2>2
<1>4. ASSUME NEW k \in 1 .. u - 2 PROVE FatNext(s[k])' = FatNext(s[k])
  <2>1. k \in 1 .. u /\ k < u - 1 /\ s[k] \in Clusters
    BY <1>2
  <2>2. \A j \in 1 .. u : j >= u - 1 => s[k] # s[j]
    BY <1>2, <2>1
  <2>3. QED
    BY <1>1, <2>1, <2>2
<1>5. QED
  BY <1>1, <1>3, <1>4 DEF Laid

\* The numbers a call keeps.
LEMMA JobNumbers ==
  ASSUME TypeOK
  PROVE  /\ job.size \in Nat /\ job.used \in Nat /\ job.ret \in Int
         /\ job.first \in Firsts /\ job.prev \in Firsts /\ job.cluster \in Links
<1>1. job \in JobType
  BY DEF TypeOK
<1>2. job.size \in Nat /\ job.used \in Nat /\ job.ret \in Int
  BY <1>1, Zenon DEF JobType
<1>3. job.first \in Firsts /\ job.prev \in Firsts /\ job.cluster \in Links
  BY <1>1, Zenon DEF JobType
<1>4. QED
  BY <1>2, <1>3

\* A sector write of a round of the loop.
LEMMA LayingStep ==
  ASSUME TypeOK, DOMAIN data = Clusters, TakesData, job' = job, NEW s, Laid(s), Laying(s),
         Ahead # <<>>
  PROVE  DOMAIN data' = Clusters /\ Laid(s)' /\ Laying(s)'
<1>1. PICK u, c, v : u = job.used /\ c = job.prev /\ v = <<job.size, job.used>>
  OBVIOUS
<1>2. u \in Nat /\ u > 0 /\ v \in Nat \X Nat
  <2>1. job.size \in Nat /\ job.used \in Nat
    BY JobNumbers
  <2>2. job.used > 0
    BY <2>1 DEF Laying
  <2>3. QED
    BY <1>1, <2>1, <2>2
<1>3. /\ s \in [1 .. u -> Clusters] /\ s[u] = c /\ c \in Clusters
      /\ \A j, k \in 1 .. u : s[j] = s[k] => j = k
  BY <1>1, <1>2 DEF Laid
<1>4. PICK w : w = <<"data", c, v>>
  OBVIOUS
<1>5. Store = <<w>> /\ Store' = <<w>> /\ w \in WriteType
  BY <1>1, <1>2, <1>3, <1>4 DEF Store, WriteType
<1>6. PICK rest \in Seq(WriteType) : rest = Store /\ rest # <<>> /\ rest = <<w>>
  <2>1. <<w>> \in Seq(WriteType) /\ <<w>> # <<>>
    BY <1>5
  <2>2. QED
    BY <1>5, <2>1
<1>7. ASSUME Ahead = Store, Linked(s)
      PROVE  DOMAIN data' = Clusters /\ Laid(s)' /\ Laying(s)'
  <2>1. Head(Ahead) = w /\ Ahead' = <<>>
    BY <1>5, <1>7, OneWrite DEF TakesData, Takes
  <2>2. SameTable /\ DataElsewhere(c) /\ DOMAIN data' = Clusters /\ data'[c] = v
    BY <1>3, <1>4, <2>1, StoreStep
  <2>3. Laid(s)'
    BY <1>1, <1>2, <2>2, LaidFrame DEF SameTable, DataElsewhere
  <2>4. Linked(s)'
    <3>1. CASE u > 1
      <4>1. u - 1 \in 1 .. u
        BY <1>2, <3>1
      <4>2. s[u - 1] \in Clusters
        BY <1>3, <4>1
      <4>3. FatNext(s[u - 1])' = FatNext(s[u - 1])
        BY <2>2, <4>2 DEF SameTable
      <4>4. QED
        BY <1>1, <1>7, <4>3 DEF Linked
    <3>2. QED
      BY <1>1, <3>1 DEF Linked
  <2>5. Stored'
    BY <1>1, <2>2 DEF Stored
  <2>6. QED
    BY <2>1, <2>2, <2>3, <2>4, <2>5 DEF Laying
<1>8. CASE u = 1 /\ Grows(c, Store)
  <2>1. CASE Ends(c) /\ Ahead = rest
    BY <1>1, <1>6, <1>7, <1>8, <2>1 DEF Linked
  <2>2. CASE /\ DataElsewhere(c) /\ DOMAIN data' = Clusters
             /\ \A x \in Clusters : x # c => FatNext(x)' = FatNext(x)
             /\ Grows(c, rest)'
    <3>1. \A x \in Clusters : (\A k \in 1 .. u : k >= u - 1 => x # s[k])
                               => FatNext(x)' = FatNext(x)
      BY <1>2, <1>3, <2>2
    <3>2. Laid(s)'
      BY <1>1, <1>2, <2>2, <3>1, LaidFrame DEF DataElsewhere
    <3>3. Grows(job.prev, Store)'
      BY <1>1, <1>5, <1>6, <2>2 DEF Grows
    <3>4. QED
      BY <1>1, <1>8, <2>2, <3>2, <3>3 DEF Laying
  <2>3. Grows(c, rest)
    BY <1>6, <1>8
  <2>4. QED
    BY <1>3, <1>6, <2>1, <2>2, <2>3, GrowStep
<1>9. CASE u > 1 /\ Grows(c, SetFat(s[u - 1], c) \o Store)
  <2>1. PICK p : p = s[u - 1]
    OBVIOUS
  <2>2. u - 1 \in 1 .. u /\ u \in 1 .. u
    BY <1>2, <1>9
  <2>3. p \in Clusters /\ p # c
    BY <1>2, <1>3, <2>1, <2>2
  <2>4. PICK more : more = SetFat(p, c) \o Store
    OBVIOUS
  <2>5. more \in Seq(WriteType) /\ more # <<>> /\ Head(more) = <<"fat", 1, p, c>> /\ Tail(more) = Store
    <3>1. <<"fat", 1, p, c>> \in WriteType
      BY <1>3, <2>3, Fat32Assumption DEF WriteType, Links
    <3>2. << <<"fat", 1, p, c>> >> \in Seq(WriteType) /\ Store \in Seq(WriteType)
      BY <1>6, <3>1
    <3>3. more = << <<"fat", 1, p, c>> >> \o Store
      BY <2>4 DEF SetFat
    <3>4. more \in Seq(WriteType)
      BY <3>2, <3>3, ConcatProperties
    <3>5. QED
      BY <3>2, <3>3, <3>4, HeadTail
  <2>6. CASE Ahead = more
    <3>1. Head(Ahead) = <<"fat", 1, p, c>> /\ Ahead' = Store
      BY <2>5, <2>6 DEF TakesData, Takes
    <3>2. Tables(p, c) /\ data' = data
      BY <1>3, <2>3, <3>1, ClustersAre, FatStep
    <3>3. \A x \in Clusters : (\A k \in 1 .. u : k >= u - 1 => x # s[k])
                               => FatNext(x)' = FatNext(x)
      BY <1>2, <2>1, <2>2, <3>2 DEF Tables
    <3>4. Laid(s)'
      BY <1>1, <1>2, <3>2, <3>3, LaidFrame
    <3>5. Linked(s)'
      BY <1>1, <2>1, <2>3, <3>2 DEF Linked, Tables
    <3>6. QED
      BY <1>1, <1>2, <1>5, <3>1, <3>2, <3>4, <3>5 DEF Laying
  <2>7. CASE /\ DataElsewhere(c) /\ DOMAIN data' = Clusters
             /\ \A x \in Clusters : x # c => FatNext(x)' = FatNext(x)
             /\ Grows(c, more)'
    <3>1. \A x \in Clusters : (\A k \in 1 .. u : k >= u - 1 => x # s[k])
                               => FatNext(x)' = FatNext(x)
      <4>1. \A x \in Clusters : (\A k \in 1 .. u : k >= u - 1 => x # s[k]) => x # s[u]
        BY <1>2, <2>2
      <4>2. QED
        BY <1>3, <2>7, <4>1
    <3>2. Laid(s)'
      BY <1>1, <1>2, <2>7, <3>1, LaidFrame, SMTT(30) DEF DataElsewhere
    <3>3. Grows(job.prev, SetFat(s[job.used - 1], job.prev) \o Store)'
      BY <1>1, <1>5, <2>1, <2>4, <2>7 DEF Grows
    <3>4. QED
      BY <1>1, <1>9, <2>7, <3>2, <3>3 DEF Laying
  <2>8. Grows(c, more)
    BY <1>9, <2>1, <2>4
  <2>9. QED
    BY <1>3, <2>5, <2>6, <2>7, <2>8, GrowStep
<1>10. QED
  BY <1>1, <1>7, <1>8, <1>9 DEF Laying

\* A cluster is freed, or the file cut off, after the loop.
LEMMA TrimmingStep ==
  ASSUME TypeOK, DOMAIN data = Clusters, TakesData, job' = job, NEW s, Laid(s), Trimming(s)
  PROVE  DOMAIN data' = Clusters /\ Laid(s)' /\ Trimming(s)'
<1>1. PICK u, c, w : u = job.used /\ c = job.prev /\ w = Head(Ahead)
  OBVIOUS
<1>2. u \in Nat /\ s \in [1 .. u -> Clusters] /\ (u > 0 => s[u] = c /\ c \in Clusters)
      /\ \A j, k \in 1 .. u : s[j] = s[k] => j = k
  BY <1>1, JobNumbers DEF Laid
<1>3. Ahead \in Seq(WriteType) /\ Ahead # <<>> /\ Ahead' = Tail(Ahead)
  BY AheadWrites DEF TakesData, Takes
<1>4. w = Ahead[1] /\ 1 \in 1 .. Len(Ahead)
  BY <1>1, <1>3
<1>5. PICK a : a = Ahead' /\ \A i \in 1 .. Len(a) : i + 1 \in 1 .. Len(Ahead) /\ a[i] = Ahead[i + 1]
  BY <1>3
<1>6. EOC # 0
  BY ClustersAre
<1>7. ASSUME DOMAIN data' = Clusters, \A k \in 1 .. u : data'[s[k]] = data[s[k]],
             \A k \in 1 .. u : k # u => FatNext(s[k])' = FatNext(s[k]),
             u > 0 => FatNext(c)' = EOC,
             Short => \A x \in Clusters : FatNext(x) # 0 => FatNext(x)' # 0
      PROVE  DOMAIN data' = Clusters /\ Laid(s)' /\ Trimming(s)'
  <2>1. Laid(s)'
    <3>1. \A k \in 1 .. u - 1 : data'[s[k]] = data[s[k]]
      BY <1>2, <1>7
    <3>2. \A k \in 1 .. u - 2 : FatNext(s[k])' = FatNext(s[k])
      <4>1. \A k \in 1 .. u - 2 : k \in 1 .. u /\ k # u
        BY <1>2
      <4>2. QED
        BY <1>7, <4>1
    <3>3. QED
      BY <1>1, <3>1, <3>2 DEF Laid
  <2>2. Linked(s)'
    <3>1. CASE u > 1
      <4>1. u - 1 \in 1 .. u /\ u - 1 # u
        BY <1>2, <3>1
      <4>2. FatNext(s[u - 1])' = FatNext(s[u - 1])
        BY <1>7, <4>1
      <4>3. QED
        BY <1>1, <3>1, <4>2 DEF Trimming, Linked
    <3>2. QED
      BY <1>1, <3>1 DEF Linked
  <2>3. Stored'
    <3>1. CASE u > 0
      <4>1. u \in 1 .. u
        BY <1>2, <3>1
      <4>2. data'[c] = data[c]
        BY <1>2, <1>7, <3>1, <4>1
      <4>3. QED
        BY <1>1, <3>1, <4>2 DEF Trimming, Stored
    <3>2. QED
      BY <1>1, <3>1 DEF Stored
  <2>4. \A v : (Cut(v)' <=> Cut(v)) /\ (Spares(s, v)' <=> Spares(s, v))
    BY DEF Cut, Spares
  <2>5. \A i \in 1 .. Len(a) : Cut(a[i])' \/ Spares(s, a[i])'
    BY <1>5, <2>4 DEF Trimming
  <2>6. ASSUME Short'
        PROVE  FreeClusters' = {} /\ \A i \in 1 .. Len(a) : Cut(a[i])'
    <3>1. Short
      BY <2>6 DEF Short, Needed
    <3>2. FreeClusters = {} /\ \A i \in 1 .. Len(Ahead) : Cut(Ahead[i])
      BY <3>1 DEF Trimming
    <3>3. FreeClusters' = {}
      BY <1>7, <3>1, <3>2 DEF FreeClusters
    <3>4. QED
      BY <1>5, <2>4, <3>2, <3>3
  <2>7. Trimming(s)'
    BY <1>1, <1>5, <1>7, <2>2, <2>3, <2>5, <2>6 DEF Trimming
  <2>8. QED
    BY <1>7, <2>1, <2>7
<1>8. CASE Cut(w)
  <2>1. u > 0 /\ Head(Ahead) = <<"fat", 1, c, EOC>> /\ c \in Clusters
    BY <1>1, <1>2, <1>8 DEF Cut
  <2>2. Tables(c, EOC) /\ data' = data
    BY <1>6, <2>1, FatStep
  <2>3. \A k \in 1 .. u : k # u => FatNext(s[k])' = FatNext(s[k])
    <3>1. u \in 1 .. u
      BY <1>2, <2>1
    <3>2. \A k \in 1 .. u : k # u => s[k] # c /\ s[k] \in Clusters
      BY <1>2, <2>1, <3>1
    <3>3. QED
      BY <2>2, <3>2 DEF Tables
  <2>4. QED
    BY <1>6, <1>7, <2>1, <2>2, <2>3 DEF Tables
<1>9. CASE Spares(s, w)
  <2>1. PICK x \in Clusters : (\A k \in 1 .. u : s[k] # x) /\ w = <<"fat", 1, x, 0>>
    BY <1>1, <1>9 DEF Spares
  <2>2. Tables(x, 0) /\ DataElsewhere(x) /\ DOMAIN data' = Clusters
    BY <1>1, <2>1, FreeStep
  <2>3. \A k \in 1 .. u : data'[s[k]] = data[s[k]] /\ FatNext(s[k])' = FatNext(s[k])
    BY <1>2, <2>1, <2>2 DEF Tables, DataElsewhere
  <2>4. ~Cut(w)
    BY <1>6, <2>1 DEF Cut
  <2>5. u > 0 => FatNext(c)' = EOC
    <3>1. ASSUME u > 0 PROVE FatNext(c)' = EOC
      <4>1. FatNext(c) = EOC
        BY <1>1, <2>4, <3>1 DEF Trimming
      <4>2. u \in 1 .. u /\ s[u] = c
        BY <1>2, <3>1
      <4>3. QED
        BY <2>3, <4>1, <4>2
    <3>2. QED
      BY <3>1
  <2>6. ~Short
    BY <1>4, <2>4 DEF Trimming
  <2>7. QED
    BY <1>7, <2>2, <2>3, <2>5, <2>6
<1>10. QED
  BY <1>4, <1>8, <1>9 DEF Trimming

\* The entry is written with the new chain.
LEMMA TellingStep ==
  ASSUME TypeOK, NEW own, NEW pos, Base(own, pos), DOMAIN data = Clusters, TakesData,
         job' = job, cwd' = cwd, Telling, Finds(cwd, JobName, job.loc),
         Ahead = SetSlot(job.loc, Finished)
  PROVE  DOMAIN data' = Clusters /\ Telling' /\ Finds(cwd, JobName, job.loc)'
<1>1. PICK d, name, l, e, f :
        d = cwd /\ name = JobName /\ l = job.loc /\ e = Finished /\ f = job.first
  OBVIOUS
<1>2. d \in Clusters /\ cwd' = d /\ JobName' = name /\ job'.loc = l
  BY <1>1, TableType DEF JobName
<1>3. /\ Ahead' = <<>> /\ Head(Ahead) = <<"slot", l, e>> /\ SameTable
      /\ l \in Places /\ \A m \in Places : Slot(m)' = IF m = l THEN e ELSE Slot(m)
  BY <1>1, SlotStep DEF TakesData
<1>4. data' = data
  BY <1>3 DEF TakesData, PutsData
<1>5. PICK p \in Positions(Chain(d)) :
        /\ l = Place(Chain(d), p) /\ Slot(l).state = "used" /\ Slot(l).name = name
        /\ Passed(d, name, p)
  BY <1>1 DEF Finds
<1>6. e.first = f /\ e.state = "used" /\ e.name = name
  <2>1. Slot(l) \in EntryType
    BY <1>3, SlotType
  <2>2. e = [Slot(l) EXCEPT !.first = job.first, !.size = job.ret]
    BY <1>1 DEF Finished
  <2>3. QED
    BY <1>1, <1>5, <2>1, <2>2 DEF EntryType
<1>7. Finds(d, name, l)'
  BY <1>2, <1>3, <1>5, <1>6, EntryFinds
<1>8. Finds(cwd, JobName, job.loc)'
  BY <1>2, <1>7 DEF Finds, Passed
<1>9. Chain(f)' = Chain(f)
  <2>1. \A x \in ToSet(Chain(f)) : FatNext(x)' = FatNext(x)
    BY <1>3, ChainFacts, ToSetIs DEF SameTable
  <2>2. QED
    BY <2>1, ChainStays
<1>10. FreeClusters' = FreeClusters
  BY <1>3 DEF FreeClusters, SameTable
<1>11. Slot(job.loc)'.first = f
  BY <1>1, <1>3, <1>6
<1>12. Chain(job.first)' = Chain(job.first)
  BY <1>1, <1>9
<1>13. Telling'
  BY <1>1, <1>4, <1>10, <1>11, <1>12 DEF Telling, Holding, Needed
<1>14. QED
  BY <1>4, <1>8, <1>13

\* None of the writes of the loop, or after it, is to the current directory.
OffCwd(own) == Head(Ahead)[1] # "slot" /\ own[Hit(Head(Ahead))] # cwd

LEMMA StoringOff ==
  ASSUME TypeOK, NEW own, NEW pos, Base(own, pos), OldEntry(own), Storing(own, pos)
  PROVE  OffCwd(own)
<1>1. PICK c, d : c = job.prev /\ d = <<job.size, job.used>>
  OBVIOUS
<1>2. PICK w : w = <<"data", c, d>>
  OBVIOUS
<1>3. Store = <<w>> /\ <<w>> \in Seq({w}) /\ Head(<<w>>) = w
  BY <1>1, <1>2 DEF Store
<1>4. c \in Clusters /\ c # 0
  BY <1>1, ClustersAre DEF Storing
<1>5. CASE Ahead = Store /\ BodyInv(own, pos)
  <2>1. FirstInv(own, pos) /\ job.first # 0 /\ own[c] = job.first
    BY <1>1, <1>4, <1>5 DEF BodyInv
  <2>2. own[c] # cwd
    BY <2>1, TargetFacts
  <2>3. QED
    BY <1>2, <1>3, <1>5, <2>2 DEF OffCwd, Hit
<1>6. CASE Nobodys(own, pos, job.prev) /\ Grows(job.prev, Store)
  <2>1. \/ Ahead = <<w>>
        \/ Head(Ahead) = <<"fat", 1, c, EOC>> \/ Head(Ahead) = <<"zero", c>>
    BY <1>1, <1>3, <1>6, GrowsHead
  <2>2. own[c] # cwd
    BY <1>1, <1>6 DEF Nobodys, Starts
  <2>3. QED
    BY <1>2, <1>3, <2>1, <2>2 DEF OffCwd, Hit
<1>7. ASSUME NEW p \in Clusters, job.first # 0, FirstInv(own, pos), own[p] = job.first,
             Nobodys(own, pos, job.prev), Grows(job.prev, SetFat(p, job.prev) \o Store)
      PROVE  OffCwd(own)
  <2>1. PICK a : a = <<"fat", 1, p, c>>
    OBVIOUS
  <2>2. PICK rest : rest = <<a>> \o <<w>>
    OBVIOUS
  <2>3. rest \in Seq({a, w}) /\ Head(rest) = a
    BY <2>2, TwoWrites
  <2>4. Grows(c, rest)
    BY <1>1, <1>3, <1>7, <2>1, <2>2 DEF SetFat
  <2>5. \/ Ahead = rest
        \/ Head(Ahead) = <<"fat", 1, c, EOC>> \/ Head(Ahead) = <<"zero", c>>
    BY <2>3, <2>4, GrowsHead
  <2>6. own[c] # cwd
    BY <1>1, <1>7 DEF Nobodys, Starts
  <2>7. own[p] # cwd
    BY <1>7, TargetFacts
  <2>8. QED
    BY <2>1, <2>3, <2>5, <2>6, <2>7 DEF OffCwd, Hit
<1>8. QED
  BY <1>5, <1>6, <1>7 DEF Storing

LEMMA FreeingOff ==
  ASSUME NEW own, NEW lose, NEW keep, Freeing(own, <<>>, lose, keep), Ahead # <<>>
  PROVE  OffCwd(own)
<1>1. PICK s : Doomed(own, s, {}, job.loc, lose, keep) /\ Ahead = FreeAll(s) \o <<>>
  BY DEF Freeing
<1>2. PICK tail \in Seq(WriteType) : tail = <<>>
  <2>1. <<>> \in Seq(WriteType)
    BY EmptySeq
  <2>2. QED
    BY <2>1
<1>3. s # <<>>
  <2>1. ASSUME s = <<>> PROVE FALSE
    <3>1. FreeAll(s) = <<>>
      BY <2>1 DEF FreeAll
    <3>2. Ahead = <<>>
      BY <1>1, <3>1, ConcatEmptySeq
    <3>3. QED
      BY <3>2
  <2>2. QED
    BY <2>1
<1>4. s \in Seq(Clusters) /\ 1 \in 1 .. Len(s)
  <2>1. s \in Seq(Clusters)
    BY <1>1 DEF Doomed
  <2>2. QED
    BY <1>3, <2>1
<1>5. Head(Ahead) = <<"fat", 1, s[1], 0>>
  <2>1. /\ FreeAll(Tail(s)) \o tail \in Seq(WriteType)
        /\ FreeAll(s) \o tail = << <<"fat", 1, s[1], 0>> >> \o (FreeAll(Tail(s)) \o tail)
    BY <1>3, <1>4, FreeAllHead
  <2>2. QED
    BY <1>1, <1>2, <2>1, HeadTail
<1>6. own[s[1]] # cwd
  BY <1>1, <1>4 DEF Doomed
<1>7. QED
  BY <1>5, <1>6 DEF OffCwd, Hit

LEMMA CuttingOff ==
  ASSUME TypeOK, NEW own, NEW pos, Base(own, pos), OldEntry(own), FirstInv(own, pos),
         Cutting(own)
  PROVE  OffCwd(own) /\ Ahead # <<>>
<1>1. PICK s : s \in Seq(Clusters) /\ Ahead = SetFat(job.prev, EOC) \o FreeAll(s)
  BY DEF Cutting, Doomed
<1>2. FreeAll(s) \in Seq(WriteType)
  BY <1>1, FreeAllType
<1>3. Head(Ahead) = <<"fat", 1, job.prev, EOC>> /\ Ahead # <<>>
  BY <1>1, <1>2, HeadTail DEF SetFat
<1>4. own[job.prev] # cwd
  <2>1. job.prev \in Clusters /\ own[job.prev] = job.first
    BY DEF Cutting
  <2>2. job.first # 0
    <3>1. own[job.prev] \in Clusters
      BY <2>1 DEF Base, Labels
    <3>2. QED
      BY <2>1, <3>1, ClustersAre
  <2>3. QED
    BY <2>1, <2>2, TargetFacts
<1>5. QED
  BY <1>3, <1>4 DEF OffCwd, Hit

\* So the current directory stays as it is.
LEMMA OffStill ==
  ASSUME TypeOK, NEW own, NEW pos, Base(own, pos), TakesData, OffCwd(own), cwd' = cwd
  PROVE  Still(cwd)
<1>1. PICK w : w = Head(Ahead)
  OBVIOUS
<1>2. w \in WriteType /\ Does(w) /\ w[1] # "slot" /\ own[Hit(w)] # cwd
  BY <1>1 DEF TakesData, Takes, OffCwd
<1>3. QED
  BY <1>2, AwayStill

\* A write that is begun, of a call that writes a file.
LEMMA WritingStep ==
  ASSUME Inv, NEW own, NEW pos, Base(own, pos), WriteInv(own, pos), DOMAIN data = Clusters,
         TakesData, job' = job, cwd' = cwd, WritingInv
  PROVE  DOMAIN data' = Clusters /\ WritingInv'
<1>1. TypeOK /\ Ahead # <<>> /\ job.used <= Needed(job.size)
  BY DEF Inv, TakesData, Takes, WritingInv
<1>2. Needed(job.size)' = Needed(job.size) /\ job'.used <= Needed(job'.size)
  BY <1>1 DEF Needed
<1>3. CASE job.at = "body" /\ job.used = 0 /\ job.prev = 0 /\ Placing(NewEntry)
  <2>1. job.name \in Names \/ Storing(own, pos)
    BY <1>1, <1>3 DEF WriteInv
  <2>2. job.prev \notin Clusters
    BY <1>3, ClustersAre
  <2>3. job.name \in Names
    BY <2>1, <2>2 DEF Storing
  <2>4. /\ DOMAIN data' = Clusters
        /\ \/ Ahead' # <<>> /\ Placing(NewEntry)'
           \/ Ahead' = <<>> /\ Finds(cwd, JobName, job.loc)'
    <3>1. PICK e : e = NewEntry
      OBVIOUS
    <3>2. e \in EntryType /\ e.state = "used" /\ e.name = JobName /\ NewEntry' = e
      BY <2>3, <3>1, NameType, EntryIsEntry DEF NewEntry, JobName, Entry, Firsts
    <3>3. /\ DOMAIN data' = Clusters
          /\ \/ Ahead' # <<>> /\ Placing(e)'
             \/ Ahead' = <<>> /\ Finds(cwd, JobName, job.loc)'
      BY <1>1, <1>3, <3>1, <3>2, PlacingStep
    <3>4. Placing(e)' => Placing(NewEntry)'
      BY <3>2 DEF Placing
    <3>5. QED
      BY <3>3, <3>4
  <2>5. CASE Ahead' # <<>> /\ Placing(NewEntry)'
    BY <1>2, <1>3, <2>4, <2>5 DEF WritingInv
  <2>6. CASE Ahead' = <<>> /\ Finds(cwd, JobName, job.loc)'
    <3>1. PICK s : s = [k \in 1 .. 0 |-> 0]
      OBVIOUS
    <3>2. s \in [1 .. job.used -> Clusters]
      BY <1>3, <3>1
    <3>3. Laid(s)'
      BY <1>3, <3>2 DEF Laid
    <3>4. Laying(s)'
      BY <1>3, <2>6 DEF Laying, Linked, Stored
    <3>5. job'.at = "body"
      BY <1>3
    <3>6. QED
      BY <1>2, <2>4, <2>6, <3>2, <3>3, <3>4, <3>5 DEF WritingInv
  <2>7. QED
    BY <2>4, <2>5, <2>6
<1>4. ASSUME job.at = "body", Finds(cwd, JobName, job.loc),
             NEW s \in [1 .. job.used -> Clusters], Laid(s), Laying(s)
      PROVE  DOMAIN data' = Clusters /\ WritingInv'
  <2>1. DOMAIN data' = Clusters /\ Laid(s)' /\ Laying(s)'
    BY <1>1, <1>4, LayingStep
  <2>2. job.prev \in Clusters
    <3>1. job.used > 0 /\ job.used \in Nat
      BY <1>1, <1>4, JobNumbers DEF Laying
    <3>2. QED
      BY <1>4, <3>1 DEF Laid
  <2>3. OldEntry(own) /\ Storing(own, pos)
    BY <1>1, <1>4, <2>2, ClustersAre DEF WriteInv
  <2>4. Still(cwd)
    BY <1>1, <2>3, StoringOff, OffStill
  <2>5. Finds(cwd, JobName, job.loc)'
    BY <1>4, <2>4, FindsNext
  <2>6. job'.at = "body" /\ s \in [1 .. job'.used -> Clusters]
    BY <1>4
  <2>7. QED
    BY <1>2, <2>1, <2>5, <2>6 DEF WritingInv
<1>5. ASSUME job.at = "entry", Finds(cwd, JobName, job.loc),
             NEW s \in [1 .. job.used -> Clusters], Laid(s), Trimming(s)
      PROVE  DOMAIN data' = Clusters /\ WritingInv'
  <2>1. DOMAIN data' = Clusters /\ Laid(s)' /\ Trimming(s)'
    BY <1>1, <1>5, TrimmingStep
  <2>2. OffCwd(own)
    BY <1>1, <1>5, FreeingOff, CuttingOff DEF WriteInv
  <2>3. Still(cwd)
    BY <1>1, <2>2, OffStill
  <2>4. Finds(cwd, JobName, job.loc)'
    BY <1>5, <2>3, FindsNext
  <2>5. job'.at = "entry" /\ s \in [1 .. job'.used -> Clusters]
    BY <1>5
  <2>6. QED
    BY <1>2, <2>1, <2>4, <2>5 DEF WritingInv
<1>6. ASSUME job.at = "return", Finds(cwd, JobName, job.loc), Telling
      PROVE  DOMAIN data' = Clusters /\ WritingInv'
  <2>1. Ahead = SetSlot(job.loc, Finished)
    BY <1>1, <1>6 DEF WriteInv
  <2>2. DOMAIN data' = Clusters /\ Telling' /\ Finds(cwd, JobName, job.loc)'
    BY <1>1, <1>6, <2>1, TellingStep
  <2>3. job'.at = "return"
    BY <1>6
  <2>4. QED
    BY <1>2, <2>2, <2>3 DEF WritingInv
<1>7. QED
  BY <1>3, <1>4, <1>5, <1>6 DEF WritingInv, WriteInv

\* A write that is begun, of a call that makes a directory.
LEMMA MakingDirStep ==
  ASSUME TypeOK, TakesData, job' = job, MakingInv
  PROVE  MakingInv'
<1>1. CASE job.at = "return" /\ job.ret = -2
  <2>1. PICK w, f : w = Head(Ahead) /\ f = job.first
    OBVIOUS
  <2>2. Ahead \in Seq(WriteType) /\ Ahead # <<>> /\ Ahead' = Tail(Ahead)
    BY AheadWrites DEF TakesData, Takes
  <2>3. PICK a : a = Ahead' /\ \A i \in 1 .. Len(a) : i + 1 \in 1 .. Len(Ahead) /\ a[i] = Ahead[i + 1]
    BY <2>2
  <2>4. w = Ahead[1] /\ 1 \in 1 .. Len(Ahead)
    BY <2>1, <2>2
  <2>5. /\ FreeClusters \subseteq {f}
        /\ \A i \in 1 .. Len(Ahead) : Ahead[i] = <<"fat", 1, f, 0>>
    BY <1>1, <2>1 DEF MakingInv
  <2>6. Does(<<"fat", 1, f, 0>>)
    BY <2>1, <2>4, <2>5 DEF TakesData, Takes
  <2>7. Tables(f, 0)
    BY <2>6 DEF Does
  <2>8. FreeClusters' \subseteq {f}
    BY <2>5, <2>7 DEF FreeClusters, Tables
  <2>9. \A i \in 1 .. Len(a) : a[i] = <<"fat", 1, f, 0>>
    BY <2>3, <2>5
  <2>10. QED
    BY <1>1, <2>1, <2>3, <2>8, <2>9 DEF MakingInv
<1>2. CASE ~(job.at = "return" /\ job.ret = -2)
  BY <1>2 DEF MakingInv
<1>3. QED
  BY <1>1, <1>2

LEMMA TakesDomain ==
  ASSUME DOMAIN data = Clusters, TakesData PROVE DOMAIN data' = Clusters
BY DEF TakesData, PutsData

-----------------------------------------------------------------------------
(***************************************************************************)
(* The same view, and the same data                                        *)
(***************************************************************************)
SameSight == SameView /\ data' = data /\ cwd' = cwd /\ Ahead' = Ahead /\ job' = job

LEMMA SightFacts ==
  ASSUME SameView
  PROVE  /\ \A x : FatNext(x)' = FatNext(x)
         /\ \A l : Slot(l)' = Slot(l)
         /\ FreeClusters' = FreeClusters
         /\ \A c : (Ends(c)' <=> Ends(c)) /\ (Used(c)' <=> Used(c))
<1>1. \A x : FatNext(x)' = FatNext(x)
  BY DEF SameView, FatNext
<1>2. \A l : Slot(l)' = Slot(l)
  BY DEF SameView, Slot
<1>3. QED
  BY <1>1, <1>2 DEF FreeClusters, Ends, Used

LEMMA SightGrows ==
  ASSUME SameSight, NEW c, NEW rest, Grows(c, rest)
  PROVE  Grows(c, rest)'
BY SightFacts DEF SameSight, Grows

LEMMA SightPlacing ==
  ASSUME SameSight, NEW e, Placing(e) PROVE Placing(e)'
<1>1. PICK d, name, l : d = cwd /\ name = JobName /\ l = job.loc
  OBVIOUS
<1>2. cwd' = d /\ JobName' = name /\ job'.loc = l /\ Ahead' = Ahead
  BY <1>1 DEF JobName, SameSight
<1>3. Chain(d)' = Chain(d) /\ Still(d)
  BY ViewChain, ViewStill DEF SameSight
<1>4. Chain(cwd)' = Chain(d)
  BY <1>2, <1>3
<1>5. ASSUME Ahead = SetSlot(l, e), NEW p \in Positions(Chain(d)),
             l = Place(Chain(d), p), Passed(d, name, p)
      PROVE  Placing(e)'
  <2>1. Passed(d, name, p)'
    BY <1>3, <1>5, PassedStill
  <2>2. Positions(Chain(cwd))' = Positions(Chain(d)) /\ Place(Chain(cwd), p)' = Place(Chain(d), p)
    BY <1>4 DEF Positions, Place
  <2>3. Passed(cwd, JobName, p)'
    BY <1>2, <2>1 DEF Passed
  <2>4. QED
    BY <1>2, <1>5, <2>2, <2>3 DEF Placing
<1>6. ASSUME NEW c \in Clusters, l = <<c, 1>>, c \notin ToSet(Chain(d)),
             Passed(d, name, <<Len(Chain(d)) + 1, 1>>),
             Grows(c, SetFat(Rear(d), c) \o SetSlot(l, e))
      PROVE  Placing(e)'
  <2>1. PICK p, rest : p = <<Len(Chain(d)) + 1, 1>> /\ rest = SetFat(Rear(d), c) \o SetSlot(l, e)
    OBVIOUS
  <2>2. Passed(d, name, p)' /\ Grows(c, rest)'
    BY <1>3, <1>6, <2>1, PassedStill, SightGrows
  <2>3. Rear(cwd)' = Rear(d)
    BY <1>4 DEF Rear
  <2>4. Passed(cwd, JobName, <<Len(Chain(cwd)) + 1, 1>>)'
    BY <1>2, <1>4, <2>1, <2>2 DEF Passed
  <2>5. Grows(c, SetFat(Rear(cwd), c) \o SetSlot(job.loc, e))'
    BY <1>2, <2>1, <2>2, <2>3 DEF Grows
  <2>6. QED
    BY <1>2, <1>4, <1>6, <2>4, <2>5 DEF Placing
<1>7. QED
  BY <1>1, <1>5, <1>6 DEF Placing

LEMMA SightLaying ==
  ASSUME SameSight, NEW s, Laid(s)
  PROVE  Laid(s)' /\ (Laying(s) => Laying(s)') /\ (Trimming(s) => Trimming(s)')
<1>1. job' = job /\ data' = data /\ Ahead' = Ahead /\ \A x : FatNext(x)' = FatNext(x)
      /\ FreeClusters' = FreeClusters
  BY SightFacts DEF SameSight
<1>2. Laid(s)'
  BY <1>1 DEF Laid
<1>3. (Linked(s)' <=> Linked(s)) /\ (Stored' <=> Stored)
  BY <1>1 DEF Linked, Stored
<1>4. ASSUME Laying(s) PROVE Laying(s)'
  <2>1. PICK p, c, st : p = s[job.used - 1] /\ c = job.prev /\ st = Store
    OBVIOUS
  <2>2. s[job'.used - 1] = p /\ job'.prev = c /\ Store' = st
    BY <1>1, <2>1 DEF Store
  <2>3. Grows(c, st) => Grows(c, st)'
    BY SightGrows
  <2>4. Grows(c, SetFat(p, c) \o st) => Grows(c, SetFat(p, c) \o st)'
    BY SightGrows
  <2>5. Grows(job.prev, Store) => Grows(job.prev, Store)'
    BY <2>1, <2>2, <2>3 DEF Grows
  <2>6. Grows(job.prev, SetFat(s[job.used - 1], job.prev) \o Store)
          => Grows(job.prev, SetFat(s[job.used - 1], job.prev) \o Store)'
    BY <2>1, <2>2, <2>4 DEF Grows
  <2>7. QED
    BY <1>1, <1>3, <1>4, <2>1, <2>2, <2>5, <2>6 DEF Laying
<1>5. ASSUME Trimming(s) PROVE Trimming(s)'
  <2>1. \A v : (Cut(v)' <=> Cut(v)) /\ (Spares(s, v)' <=> Spares(s, v))
    BY <1>1 DEF Cut, Spares
  <2>2. PICK a : a = Ahead
    OBVIOUS
  <2>3. Cut(Head(a))' <=> Cut(Head(a))
    BY <2>1
  <2>4. Short' <=> Short
    BY <1>1 DEF Short, Needed
  <2>5. QED
    BY <1>1, <1>3, <1>5, <2>1, <2>2, <2>3, <2>4 DEF Trimming
<1>6. QED
  BY <1>2, <1>4, <1>5

LEMMA SightWriting ==
  ASSUME SameSight, WritingInv PROVE WritingInv'
<1>1. job' = job /\ data' = data /\ Ahead' = Ahead /\ cwd' = cwd
      /\ Needed(job.size)' = Needed(job.size) /\ FreeClusters' = FreeClusters
  BY SightFacts DEF SameSight, Needed
<1>2. CASE job.at = "body" /\ job.used = 0 /\ job.prev = 0 /\ Ahead # <<>> /\ Placing(NewEntry)
  <2>1. PICK e : e = NewEntry /\ NewEntry' = e
    BY DEF SameSight, NewEntry
  <2>2. Placing(e)'
    BY <1>2, <2>1, SightPlacing
  <2>3. Placing(NewEntry)'
    BY <2>1, <2>2 DEF Placing
  <2>4. QED
    BY <1>1, <1>2, <2>3 DEF WritingInv
<1>3. CASE /\ Finds(cwd, JobName, job.loc)
           /\ job.at = "body" => \E s \in [1 .. job.used -> Clusters] : Laid(s) /\ Laying(s)
           /\ job.at = "entry" => \E s \in [1 .. job.used -> Clusters] : Laid(s) /\ Trimming(s)
           /\ job.at = "return" => Telling
  <2>1. Finds(cwd, JobName, job.loc)'
    <3>1. Still(cwd)
      <4>1. PICK d : d = cwd
        OBVIOUS
      <4>2. Still(d)
        BY ViewStill DEF SameSight
      <4>3. QED
        BY <1>1, <4>1, <4>2 DEF Still
    <3>2. QED
      BY <1>1, <1>3, <3>1, FindsNext
  <2>2. (\E s \in [1 .. job.used -> Clusters] : Laid(s) /\ Laying(s))
          => (\E s \in [1 .. job.used -> Clusters] : Laid(s) /\ Laying(s))'
    BY <1>1, SightLaying
  <2>3. (\E s \in [1 .. job.used -> Clusters] : Laid(s) /\ Trimming(s))
          => (\E s \in [1 .. job.used -> Clusters] : Laid(s) /\ Trimming(s))'
    BY <1>1, SightLaying
  <2>4. Telling => Telling'
    <3>1. PICK f : f = job.first
      OBVIOUS
    <3>2. Chain(f)' = Chain(f)
      BY ViewChain DEF SameSight
    <3>3. Chain(job.first)' = Chain(job.first)
      BY <1>1, <3>1, <3>2
    <3>4. Slot(job.loc)' = Slot(job.loc)
      BY <1>1 DEF SameSight, SameView, Slot
    <3>5. QED
      BY <1>1, <3>3, <3>4 DEF Telling, Holding, Needed
  <2>5. QED
    <3>1. job'.used <= Needed(job'.size)
      BY <1>1 DEF WritingInv
    <3>2. QED
      BY <1>1, <1>3, <2>1, <2>2, <2>3, <2>4, <3>1, ZenonT(60) DEF WritingInv
<1>4. QED
  BY <1>2, <1>3, Zenon DEF WritingInv

LEMMA SightMaking ==
  ASSUME SameSight, MakingInv PROVE MakingInv'
BY SightFacts DEF SameSight, MakingInv

-----------------------------------------------------------------------------
(***************************************************************************)
(* The steps of a call                                                     *)
(***************************************************************************)
\* As long as no call has returned there is nothing to be honest about.
LEMMA NoCallHonest == (last = NoCall => Honest) /\ (WriteIsHonest => Honest)
BY DEF NoCall, Honest, WriteIsHonest, WrittenIsRead, ShortOnlyWhenFull

LEMMA NoCallHonestNext == ((last = NoCall => Honest) /\ (WriteIsHonest => Honest))'
BY NoCallHonest, PTL

\* Which names there are does not change.
LEMMA UnfitHonestNext == ~FittingNames => Honest'
<1>1. FittingNames' <=> FittingNames
  BY Zenon DEF FittingNames
<1>2. QED
  BY <1>1 DEF Honest

LEMMA SectorHonest ==
  ASSUME Inv, NEW own, NEW pos, Sound(own, pos), HonestInv, WriteSector
  PROVE  HonestInv'
<1>1. job' = job /\ cwd' = cwd /\ last' = last /\ todo # <<>> /\ TypeOK /\ DOMAIN data = Clusters
  BY DEF WriteSector, Inv, HonestInv
<1>2. job.call # "idle" /\ job.call # "off"
  BY <1>1 DEF Inv, JobInv
<1>3. last = NoCall /\ last' = NoCall
  BY <1>1, <1>2 DEF HonestInv, Idle
<1>4. Honest'
  BY <1>3, NoCallHonestNext
<1>5. Base(own, pos) /\ PhaseInv(own, pos)
  BY <1>2 DEF Sound
<1>6. CASE Repeats /\ data' = data
  <2>1. SameSight
    BY <1>1, <1>6 DEF SameSight, SameView, Repeats
  <2>2. job.call \in {"write", "touch"} => WritingInv'
    BY <2>1, SightWriting DEF HonestInv
  <2>3. job.call = "mkdir" => MakingInv'
    BY <2>1, SightMaking DEF HonestInv
  <2>4. QED
    BY <1>1, <1>3, <1>4, <1>6, <2>2, <2>3 DEF HonestInv
<1>7. CASE TakesData
  <2>1. DOMAIN data' = Clusters
    BY <1>1, <1>7, TakesDomain
  <2>2. job.call \in {"write", "touch"} => WritingInv'
    BY <1>1, <1>5, <1>7, WritingStep DEF HonestInv, PhaseInv
  <2>3. job.call = "mkdir" => MakingInv'
    BY <1>1, <1>7, MakingDirStep DEF HonestInv
  <2>4. QED
    BY <1>1, <1>3, <1>4, <2>1, <2>2, <2>3 DEF HonestInv
<1>8. SectorPuts
  BY <1>1, SectorPutsData
<1>9. QED
  BY <1>6, <1>7, <1>8 DEF SectorPuts, TakesData

\* A call that begins or goes on.
LEMMA BeginHonest ==
  ASSUME HonestInv, NEW j, NEW writes, Begin(j, writes),
         j.call \in {"write", "touch"} => WritingInv',
         j.call = "mkdir" => MakingInv'
  PROVE  HonestInv'
<1>1. last' = NoCall /\ data' = data /\ job' = j
  BY DEF Begin
<1>2. QED
  BY <1>1, NoCallHonestNext DEF HonestInv

\* What a read finds, and what is free, while the volume stays as it is.
LEMMA ReadSame ==
  ASSUME SameView, data' = data, cwd' = cwd, NEW n
  PROVE  ReadFile(n)' = ReadFile(n) /\ FreeClusters' = FreeClusters
<1>1. PICK d, name, l : d = cwd /\ name = ReadName(n) /\ l = FindEntry(d, name)
  OBVIOUS
<1>2. FindEntry(d, name)' = l
  BY <1>1, ViewStill, FindStays
<1>3. FindEntry(cwd, ReadName(n))' = l
  BY <1>1, <1>2 DEF FindEntry
<1>4. PICK f : f = Slot(l).first
  OBVIOUS
<1>5. Slot(l)'.first = f /\ Chain(f)' = Chain(f)
  BY <1>4, SightFacts, ViewChain
<1>6. ChainOf(l)' = ChainOf(l)
  BY <1>4, <1>5 DEF ChainOf
<1>7. FreeClusters' = FreeClusters
  BY SightFacts
<1>8. QED
  BY <1>1, <1>3, <1>6, <1>7 DEF ReadFile

\* A call that returns.
LEMMA ReturnHonest ==
  ASSUME HonestInv, NEW r, Return(r), Honest' \/ WriteIsHonest'
  PROVE  HonestInv'
<1>1. job' = NoJob /\ data' = data
  BY DEF Return
<1>2. NoJob.call = "idle"
  BY DEF NoJob
<1>3. QED
  BY <1>1, <1>2, NoCallHonestNext DEF HonestInv, Idle

\* A call of another sort returns.
LEMMA OtherHonest ==
  ASSUME NEW r, last' = r, r.call \notin {"write", "touch"},
         r.call = "mkdir" /\ r.ret = -2 => Cardinality(FreeClusters)' <= 1
  PROVE  WriteIsHonest'
BY DEF WriteIsHonest, WrittenIsRead, ShortOnlyWhenFull

\* There is no room for an entry only when no cluster is free.
LEMMA NoRoom ==
  ASSUME NEW d, RoomIn(d) = NoPlace PROVE FreeClusters = {} /\ FindFreeCluster = 0
<1>1. FindFreeSlot(d) = NoPlace
  BY DEF RoomIn
<1>2. FindFreeCluster = 0
  BY <1>1 DEF RoomIn, NoPlace
<1>3. ASSUME FreeClusters # {} PROVE FALSE
  <2>1. FreeClusters \subseteq Nat /\ 0 \notin FreeClusters
    BY ClustersAre DEF FreeClusters
  <2>2. Min(FreeClusters) \in FreeClusters
    BY <1>3, <2>1, MinIsIn
  <2>3. QED
    BY <1>2, <1>3, <2>1, <2>2 DEF FindFreeCluster
<1>4. QED
  BY <1>2, <1>3

\* How many clusters a size takes.
LEMMA NeededType ==
  ASSUME NEW size \in Nat PROVE Needed(size) \in Nat
<1>1. ClusterBytes \in Nat /\ ClusterBytes > 0
  BY Fat32Assumption
<1>2. PICK a : a = size + ClusterBytes - 1
  OBVIOUS
<1>3. a \in Nat
  BY <1>1, <1>2
<1>4. a \div ClusterBytes \in Nat
  BY <1>1, <1>3
<1>5. QED
  BY <1>2, <1>4 DEF Needed

\* The writes that make room for an entry and write it.
LEMMA RoomIs ==
  ASSUME NEW d, NEW l, l = RoomIn(d), l # NoPlace, NEW e
  PROVE  \/ /\ l = FindFreeSlot(d) /\ RoomWrites(d) \o SetSlot(l, e) = SetSlot(l, e)
         \/ /\ FindFreeSlot(d) = NoPlace /\ FindFreeCluster # 0 /\ l = <<FindFreeCluster, 1>>
            /\ RoomWrites(d) \o SetSlot(l, e)
                 = Allocate(FindFreeCluster) \o (SetFat(Rear(d), FindFreeCluster) \o SetSlot(l, e))
<1>1. CASE FindFreeSlot(d) # NoPlace
  <2>1. l = FindFreeSlot(d) /\ RoomWrites(d) = <<>>
    BY <1>1 DEF RoomIn, RoomWrites
  <2>2. SetSlot(l, e) \in Seq({<<"slot", l, e>>})
    BY DEF SetSlot
  <2>3. <<>> \o SetSlot(l, e) = SetSlot(l, e)
    BY <2>2, ConcatEmptySeq
  <2>4. QED
    BY <2>1, <2>3
<1>2. CASE FindFreeSlot(d) = NoPlace
  <2>1. PICK c, p : c = FindFreeCluster /\ p = Rear(d)
    OBVIOUS
  <2>2. c # 0 /\ l = <<c, 1>>
    BY <1>2, <2>1 DEF RoomIn
  <2>3. RoomWrites(d) = Allocate(c) \o SetFat(p, c)
    BY <1>2, <2>1 DEF RoomWrites, Extend, Rear
  <2>4. PICK a, b : a = <<"fat", 1, p, c>> /\ b = <<"slot", l, e>>
    OBVIOUS
  <2>5. PICK y, z : y = <<"fat", 1, c, EOC>> /\ z = <<"zero", c>>
    OBVIOUS
  <2>6. <<a>> \in Seq({a, b, y, z}) /\ <<b>> \in Seq({a, b, y, z})
        /\ <<y>> \in Seq({a, b, y, z}) /\ <<z>> \in Seq({a, b, y, z})
    OBVIOUS
  <2>7. ((<<y>> \o <<z>>) \o <<a>>) \o <<b>> = (<<y>> \o <<z>>) \o (<<a>> \o <<b>>)
    BY <2>6, ConcatAssociative, ConcatProperties
  <2>8. QED
    BY <1>2, <2>1, <2>2, <2>3, <2>4, <2>5, <2>7 DEF Allocate, SetFat, SetSlot
<1>3. QED
  BY <1>1, <1>2

\* With room found, the entry can be made where it will be found.
LEMMA RoomPlaces ==
  ASSUME TypeOK, NEW own, NEW pos, Base(own, pos), AllUsed, RoomIn(cwd) # NoPlace,
         SameView, cwd' = cwd, NEW e, NEW name, FindEntry(cwd, name) = NoPlace,
         JobName' = name, job'.loc = RoomIn(cwd),
         Ahead' = RoomWrites(cwd) \o SetSlot(RoomIn(cwd), e)
  PROVE  Placing(e)'
<1>1. PICK d, l, c : d = cwd /\ l = RoomIn(cwd) /\ c = FindFreeCluster
  OBVIOUS
<1>2. Chain(d)' = Chain(d) /\ Still(d) /\ cwd' = d /\ job'.loc = l
  BY <1>1, ViewChain, ViewStill
<1>3. Chain(cwd)' = Chain(d)
  BY <1>2
<1>4. CASE l = FindFreeSlot(d) /\ Ahead' = SetSlot(l, e)
  <2>1. PICK p \in Positions(Chain(d)) : l = Place(Chain(d), p) /\ Passed(d, name, p)
    BY <1>1, <1>4, FreePassed
  <2>2. Passed(d, name, p)'
    BY <1>2, <2>1, PassedStill
  <2>3. Positions(Chain(cwd))' = Positions(Chain(d)) /\ Place(Chain(cwd), p)' = Place(Chain(d), p)
    BY <1>3 DEF Positions, Place
  <2>4. Passed(cwd, JobName, p)'
    BY <1>2, <2>2 DEF Passed
  <2>5. QED
    BY <1>2, <1>4, <2>1, <2>3, <2>4 DEF Placing
<1>5. CASE /\ FindFreeSlot(d) = NoPlace /\ c # 0 /\ l = <<c, 1>>
           /\ Ahead' = Allocate(c) \o (SetFat(Rear(d), c) \o SetSlot(l, e))
  <2>1. c \in Clusters /\ ~Used(c)
    BY <1>1, <1>5, FreeIsNobodys DEF Nobodys
  <2>2. c \notin ToSet(Chain(d))
    <3>1. d \in Clusters /\ own[d] = d /\ Used(d)
      BY <1>1, TableType DEF Base, CwdInv, Starts
    <3>2. QED
      BY <2>1, <3>1, ChainOwner
  <2>3. PICK p, r : p = <<Len(Chain(d)) + 1, 1>> /\ r = Rear(d)
    OBVIOUS
  <2>4. Passed(d, name, p)
    BY <1>1, <1>5, <2>3, FullPassed
  <2>5. Passed(d, name, p)'
    BY <1>2, <2>4, PassedStill
  <2>6. Passed(cwd, JobName, <<Len(Chain(cwd)) + 1, 1>>)'
    BY <1>2, <1>3, <2>3, <2>5 DEF Passed
  <2>7. Rear(cwd)' = r
    BY <1>3, <2>3 DEF Rear
  <2>8. ~Used(c)'
    BY <2>1, SightFacts
  <2>9. Grows(c, SetFat(r, c) \o SetSlot(l, e))'
    BY <1>5, <2>3, <2>8 DEF Grows
  <2>10. Grows(c, SetFat(Rear(cwd), c) \o SetSlot(job.loc, e))'
    BY <1>2, <2>7, <2>9 DEF Grows
  <2>11. QED
    BY <1>2, <1>3, <1>5, <2>1, <2>2, <2>6, <2>10 DEF Placing
<1>6. \/ l = FindFreeSlot(d) /\ Ahead' = SetSlot(l, e)
      \/ /\ FindFreeSlot(d) = NoPlace /\ c # 0 /\ l = <<c, 1>>
         /\ Ahead' = Allocate(c) \o (SetFat(Rear(d), c) \o SetSlot(l, e))
  <2>1. l = RoomIn(d) /\ l # NoPlace /\ Ahead' = RoomWrites(d) \o SetSlot(l, e)
    BY <1>1
  <2>2. QED
    BY <1>1, <2>1, RoomIs
<1>7. QED
  BY <1>4, <1>5, <1>6

\* A loop that has not begun yet.
LEMMA LaidNone ==
  ASSUME job'.used = 0, job'.prev = 0, Ahead' = <<>>
  PROVE  \E s \in [1 .. job'.used -> Clusters] : Laid(s)' /\ Laying(s)'
<1>1. PICK s : s = [k \in 1 .. 0 |-> 0]
  OBVIOUS
<1>2. s \in [1 .. job'.used -> Clusters]
  BY <1>1
<1>3. Laid(s)' /\ Laying(s)'
  BY <1>2 DEF Laid, Laying, Linked, Stored
<1>4. QED
  BY <1>2, <1>3

\* A write or a touch begins: it has found the entry, or makes one.
LEMMA WriteFileHonest ==
  ASSUME Inv, NEW own, NEW pos, Sound(own, pos), HonestInv, Idle,
         NEW call \in {"write", "touch"}, NEW n \in Names, NEW size \in Nat,
         WriteFile(call, n, size)
  PROVE  HonestInv'
<1>1. TypeOK /\ Base(own, pos) /\ AllUsed /\ todo = <<>> /\ Ahead = <<>>
  BY IdleIsWhole
<1>2. PICK found, room, name :
        /\ found = FindEntry(cwd, BuildName(n)) /\ room = RoomIn(cwd)
        /\ name = BuildName(n)
  OBVIOUS
<1> DEFINE start == [NoJob EXCEPT !.call = call, !.at = "body", !.name = n, !.size = size]
           old == [start EXCEPT !.loc = found, !.first = Slot(found).first,
                                !.cluster = Slot(found).first]
           new == [start EXCEPT !.loc = room]
           writes == RoomWrites(cwd) \o SetSlot(room, Entry(name, FALSE, 0, 0))
           result(r) == [call |-> call, name |-> n, size |-> size, ret |-> r]
<1>3. \/ Return(result(-1))
      \/ found = NoPlace /\ room = NoPlace /\ Return(result(-2))
      \/ found # NoPlace /\ Begin(old, <<>>)
      \/ found = NoPlace /\ room # NoPlace /\ Begin(new, writes)
  BY <1>2 DEF WriteFile
<1>4. Needed(size) \in Nat
  BY NeededType
<1>5. CASE Return(result(-1))
  <2>1. PICK r : r = result(-1)
    OBVIOUS
  <2>2. last' = r /\ r.ret = -1 /\ r.call = call /\ r.size = size
    BY <1>5, <2>1 DEF Return
  <2>3. WriteIsHonest'
    BY <2>2 DEF WriteIsHonest, WrittenIsRead, ShortOnlyWhenFull
  <2>4. QED
    BY <1>5, <2>3, ReturnHonest
<1>6. CASE room = NoPlace /\ Return(result(-2))
  <2>1. PICK r : r = result(-2)
    OBVIOUS
  <2>2. last' = r /\ r.ret = -2 /\ r.call = call /\ r.size = size /\ SameView
    BY <1>6, <2>1 DEF Return, SameView
  <2>3. FreeClusters' = {}
    BY <1>2, <1>6, <2>2, NoRoom, SightFacts
  <2>4. WriteIsHonest'
    BY <2>2, <2>3 DEF WriteIsHonest, WrittenIsRead, ShortOnlyWhenFull
  <2>5. QED
    BY <1>6, <2>4, ReturnHonest
<1>7. CASE found # NoPlace /\ Begin(old, <<>>)
  <2>1. PICK j, w : j = old /\ w = <<>>
    OBVIOUS
  <2>2. w \in Seq(Fresh) /\ Begin(j, w)
    BY <1>7, <2>1, EmptySeq
  <2>3. SameView /\ cwd' = cwd /\ job' = j /\ Ahead' = <<>>
    BY <1>1, <2>1, <2>2, BeginFrame
  <2>4. /\ j.call = call /\ j.at = "body" /\ j.loc = found /\ j.name = n /\ j.size = size
        /\ j.prev = 0 /\ j.used = 0
    BY <2>1 DEF NoJob
  <2>5. PICK d : d = cwd
    OBVIOUS
  <2>6. Finds(d, name, found)'
    BY <1>2, <1>7, <2>3, <2>5, FoundFinds, ViewStill, FindsStill
  <2>7. Finds(cwd, JobName, job.loc)'
    BY <1>2, <2>3, <2>4, <2>5, <2>6 DEF Finds, Passed, JobName
  <2>8. \E s \in [1 .. job'.used -> Clusters] : Laid(s)' /\ Laying(s)'
    BY <2>3, <2>4, LaidNone
  <2>9. job'.used <= Needed(job'.size)
    BY <1>4, <2>3, <2>4
  <2>10. WritingInv'
    BY <2>3, <2>4, <2>7, <2>8, <2>9 DEF WritingInv, Needed
  <2>11. QED
    BY <2>2, <2>4, <2>10, BeginHonest
<1>8. CASE found = NoPlace /\ room # NoPlace /\ Begin(new, writes)
  <2>1. PICK j, e, w : j = new /\ e = Entry(name, FALSE, 0, 0) /\ w = writes
    OBVIOUS
  <2>2. /\ j.call = call /\ j.at = "body" /\ j.loc = room /\ j.size = size
        /\ j.prev = 0 /\ j.used = 0 /\ j.name = n
    BY <2>1 DEF NoJob
  <2>3. e \in EntryType
    BY <1>2, <2>1, NameType, EntryIsEntry DEF Firsts
  <2>4. room \in Places /\ cwd \in Clusters
    BY <1>1, <1>2, <1>8, RoomInFacts, TableType
  <2>5. w = RoomWrites(cwd) \o SetSlot(room, e) /\ w \in Seq(Fresh) /\ w # <<>>
    <3>1. RoomWrites(cwd) \in Seq(Fresh) /\ SetSlot(room, e) \in Seq(Fresh)
      BY <1>2, <1>8, <2>3, <2>4, RoomWritesFresh, SetSlotFresh
    <3>2. SetSlot(room, e) # <<>>
      BY OneWrite DEF SetSlot
    <3>3. PICK a, b : a = RoomWrites(cwd) /\ b = SetSlot(room, e)
      OBVIOUS
    <3>4. a \o b \in Seq(Fresh)
      BY <3>1, <3>3, ConcatProperties
    <3>5. a \o b # <<>>
      BY <3>1, <3>2, <3>3, ConcatEqualIffEmpty
    <3>6. QED
      BY <2>1, <3>3, <3>4, <3>5
  <2>6. SameView /\ cwd' = cwd /\ job' = j /\ Ahead' = w
    BY <1>1, <1>8, <2>1, <2>5, BeginFrame
  <2>7. NewEntry' = e /\ JobName' = name
    BY <1>2, <2>1, <2>2, <2>6 DEF NewEntry, JobName
  <2>8. Placing(NewEntry)'
    <3>1. Placing(e)'
      BY <1>1, <1>2, <1>8, <2>2, <2>5, <2>6, <2>7, RoomPlaces
    <3>2. QED
      BY <2>7, <3>1 DEF Placing
  <2>9. job'.used <= Needed(job'.size)
    BY <1>4, <2>2, <2>6
  <2>10. WritingInv'
    BY <2>2, <2>5, <2>6, <2>8, <2>9 DEF WritingInv, Needed
  <2>11. QED
    BY <1>8, <2>1, <2>2, <2>10, BeginHonest
<1>9. QED
  BY <1>3, <1>5, <1>6, <1>7, <1>8

\* A round of the loop that is through.
LEMMA LayingDone ==
  ASSUME TypeOK, NEW s, Laid(s), Laying(s), Ahead = <<>>
  PROVE  Linked(s) /\ Stored
<1>1. PICK a : Store = <<a>>
  BY DEF Store
<1>2. <<a>> # <<>> /\ <<a>> \in Seq({a})
  OBVIOUS
<1>3. ASSUME NEW c, NEW rest, rest \in Seq({a}) \/ \E d : rest = <<d>> \o <<a>>, rest # <<>>
      PROVE  ~Grows(c, rest)
  <2>1. PICK y, z : y = <<"fat", 1, c, EOC>> /\ z = <<"zero", c>>
    OBVIOUS
  <2>2. PICK S : rest \in Seq(S)
    <3>1. CASE \E d : rest = <<d>> \o <<a>>
      <4>1. PICK d : rest = <<d>> \o <<a>>
        BY <3>1
      <4>2. <<d>> \in Seq({a, d}) /\ <<a>> \in Seq({a, d})
        OBVIOUS
      <4>3. rest \in Seq({a, d})
        BY <4>1, <4>2, ConcatProperties
      <4>4. QED
        BY <4>3
    <3>2. QED
      BY <1>3, <3>1
  <2>3. PICK T : T = S \cup {y, z}
    OBVIOUS
  <2>4. rest \in Seq(T) /\ <<y>> \in Seq(T) /\ <<z>> \in Seq(T)
    BY <2>2, <2>3
  <2>5. <<y>> \o <<z>> \in Seq(T)
    BY <2>4, ConcatProperties
  <2>6. (<<y>> \o <<z>>) \o rest # <<>> /\ <<z>> \o rest # <<>>
    BY <1>3, <2>4, <2>5, ConcatEqualIffEmpty
  <2>7. QED
    BY <1>3, <2>1, <2>6 DEF Grows, Allocate, SetFat
<1>4. ~(Ahead = Store) /\ ~Grows(job.prev, Store)
  BY <1>1, <1>2, <1>3
<1>5. ~Grows(job.prev, SetFat(s[job.used - 1], job.prev) \o Store)
  <2>1. PICK d : d = <<"fat", 1, s[job.used - 1], job.prev>>
    OBVIOUS
  <2>2. PICK rest : rest = <<d>> \o <<a>>
    OBVIOUS
  <2>3. rest # <<>>
    BY <1>2, <2>2, HeadTail
  <2>4. ~Grows(job.prev, rest)
    BY <1>3, <2>2, <2>3
  <2>5. QED
    BY <1>1, <2>1, <2>2, <2>4 DEF SetFat
<1>6. QED
  BY <1>4, <1>5 DEF Laying

-----------------------------------------------------------------------------
(***************************************************************************)
(* How many clusters a size takes                                          *)
(***************************************************************************)
LEMMA Quotient ==
  ASSUME NEW a \in Nat, NEW b \in Nat, b > 0
  PROVE  a \div b \in Nat /\ b * (a \div b) <= a /\ a < b * (a \div b) + b
OBVIOUS

\* It takes no more than n clusters when n clusters hold it.
LEMMA NeededLeast ==
  ASSUME NEW size \in Nat, NEW n \in Nat
  PROVE  Needed(size) <= n <=> size <= n * ClusterBytes
<1>1. PICK b, a : b = ClusterBytes /\ a = size + ClusterBytes - 1
  OBVIOUS
<1>2. b \in Nat /\ b > 0 /\ a \in Nat /\ a = size + b - 1
  BY <1>1, Fat32Assumption
<1>3. PICK q : q = a \div b
  OBVIOUS
<1>4. q \in Nat /\ b * q <= a /\ a < b * q + b
  BY <1>2, <1>3, Quotient
<1>5. Needed(size) = q
  BY <1>1, <1>3 DEF Needed
<1>6. ASSUME q <= n PROVE size <= n * b
  <2>1. b * q <= b * n /\ b * n = n * b /\ b * n \in Nat /\ b * q \in Nat
    BY <1>2, <1>4, <1>6
  <2>2. PICK x, y : x = b * q /\ y = b * n
    OBVIOUS
  <2>3. QED
    BY <1>2, <1>4, <2>1, <2>2
<1>7. ASSUME size <= n * b, ~(q <= n) PROVE FALSE
  <2>1. q >= n + 1
    BY <1>4, <1>7
  <2>2. b * q >= b * (n + 1) /\ b * (n + 1) = n * b + b
    BY <1>2, <1>4, <2>1
  <2>3. PICK x, y : x = b * q /\ y = n * b
    OBVIOUS
  <2>4. x \in Nat /\ y \in Nat
    BY <1>2, <1>4, <2>3
  <2>5. QED
    BY <1>2, <1>4, <1>7, <2>2, <2>3, <2>4
<1>8. QED
  BY <1>1, <1>5, <1>6, <1>7

\* What u clusters hold of a size that takes no fewer: all of it, or less when it takes
\* more; and it takes u clusters, unless it is nought.
LEMMA WrittenIs ==
  ASSUME NEW size \in Nat, NEW u \in Nat, u <= Needed(size), NEW w,
         w = Min({size, u * ClusterBytes})
  PROVE  /\ w \in Nat /\ w <= size
         /\ w < size => u < Needed(size)
         /\ w > 0 => Needed(w) = u /\ u > 0
<1>1. PICK b, m : b = ClusterBytes /\ m = u * ClusterBytes
  OBVIOUS
<1>2. b \in Nat /\ b > 0 /\ m \in Nat
  BY <1>1, Fat32Assumption
<1>3. w \in {size, m} /\ w <= size /\ w <= m
  <2>1. {size, m} \subseteq Nat /\ {size, m} # {}
    BY <1>2
  <2>2. w \in {size, m} /\ \A j \in {size, m} : w <= j
    BY <1>1, <2>1, MinIsIn
  <2>3. QED
    BY <2>2
<1>4. w \in Nat /\ Needed(size) \in Nat /\ Needed(w) \in Nat
  BY <1>2, <1>3, NeededType
<1>5. w < size => u < Needed(size)
  <2>1. ASSUME w < size, Needed(size) <= u PROVE FALSE
    <3>1. size <= m
      BY <1>1, <2>1, NeededLeast
    <3>2. QED
      BY <1>3, <1>4, <2>1, <3>1
  <2>2. QED
    BY <1>4, <2>1
<1>6. ASSUME w > 0 PROVE Needed(w) = u /\ u > 0
  <2>1. Needed(w) <= u
    BY <1>1, <1>3, <1>4, NeededLeast
  <2>2. u <= Needed(w)
    <3>1. CASE w = size
      BY <3>1
    <3>2. CASE w = m
      <4>1. PICK n : n = Needed(w)
        OBVIOUS
      <4>2. n \in Nat /\ w <= n * b
        BY <1>1, <1>4, <4>1, NeededLeast
      <4>3. u * b <= n * b
        BY <1>1, <3>2, <4>2
      <4>4. u <= n
        BY <1>2, <4>2, <4>3
      <4>5. QED
        BY <4>1, <4>4
    <3>3. QED
      BY <1>3, <3>1, <3>2
  <2>3. u > 0
    <3>1. u # 0
      BY <1>1, <1>2, <1>3, <1>4, <1>6
    <3>2. QED
      BY <3>1
  <2>4. QED
    BY <1>4, <2>1, <2>2, <2>3
<1>7. QED
  BY <1>3, <1>4, <1>5, <1>6

-----------------------------------------------------------------------------
(***************************************************************************)
(* The loop of a write, and what follows it                                *)
(***************************************************************************)
\* Between two rounds of the loop.
LEMMA BodyHonest ==
  ASSUME Inv, NEW own, NEW pos, Sound(own, pos), HonestInv, Ready("body")
  PROVE  /\ Finds(cwd, JobName, job.loc) /\ job.used <= Needed(job.size)
         /\ \E s \in [1 .. job.used -> Clusters] : Laid(s) /\ Linked(s) /\ Stored
<1>1. TypeOK /\ Ahead = <<>> /\ job.at = "body" /\ job.call \in {"write", "touch"}
  BY BodyFacts
<1>2. WritingInv
  BY <1>1 DEF HonestInv
<1>3. PICK s \in [1 .. job.used -> Clusters] : Laid(s) /\ Laying(s)
  BY <1>1, <1>2 DEF WritingInv
<1>4. Linked(s) /\ Stored
  BY <1>1, <1>3, LayingDone
<1>5. QED
  BY <1>1, <1>2, <1>3, <1>4 DEF WritingInv

\* The clusters written lead to the last of them.
LEMMA LaidLeads ==
  ASSUME TypeOK, NEW own, NEW pos, Base(own, pos), NEW s, Laid(s), Linked(s), job.used > 0
  PROVE  /\ \A k \in 1 .. job.used - 1 : FatNext(s[k]) = s[k + 1]
         /\ \A k \in 1 .. job.used :
              /\ s[k] \in Clusters /\ own[s[k]] = own[job.prev]
              /\ pos[s[k]] <= pos[job.prev]
<1>1. PICK u, c : u = job.used /\ c = job.prev
  OBVIOUS
<1>2. u \in Nat /\ u > 0 /\ s \in [1 .. u -> Clusters] /\ s[u] = c
  BY <1>1, JobNumbers DEF Laid
<1>3. \A k \in 1 .. u - 1 : FatNext(s[k]) = s[k + 1]
  <2>1. ASSUME NEW k \in 1 .. u - 1 PROVE FatNext(s[k]) = s[k + 1]
    <3>1. CASE k \in 1 .. u - 2
      BY <1>1, <3>1 DEF Laid
    <3>2. CASE k = u - 1
      <4>1. u > 1 /\ k + 1 = u
        BY <1>2, <3>2
      <4>2. FatNext(s[k]) = c
        BY <1>1, <3>2, <4>1 DEF Linked
      <4>3. QED
        BY <1>2, <4>1, <4>2
    <3>3. QED
      BY <1>2, <3>1, <3>2
  <2>2. QED
    BY <2>1
<1>4. /\ own \in [Clusters -> Clusters] /\ pos \in [Clusters -> Nat]
      /\ \A x \in Clusters : FatNext(x) \in Clusters =>
           own[FatNext(x)] = own[x] /\ pos[FatNext(x)] > pos[x]
  BY DEF Base, Labels, TableInv
<1> DEFINE odd == {k \in 1 .. u : ~(own[s[k]] = own[c] /\ pos[s[k]] <= pos[c])}
<1>5. odd = {}
  <2>1. SUFFICES ASSUME odd # {} PROVE FALSE
    OBVIOUS
  <2>2. PICK k \in odd : \A j \in odd : j <= k
    <3>1. odd \subseteq 0 .. u
      BY <1>2
    <3> HIDE DEF odd
    <3>2. Max(odd) \in odd /\ \A j \in odd : Max(odd) >= j
      BY <1>2, <2>1, <3>1, MaxIsIn
    <3>3. QED
      BY <1>2, <3>1, <3>2
  <2>3. k \in 1 .. u /\ k # u
    <3>1. pos[s[u]] \in Nat
      BY <1>2, <1>4
    <3>2. u \notin odd
      BY <1>2, <3>1
    <3> HIDE DEF odd
    <3>3. k # u
      BY <2>2, <3>2
    <3>4. QED
      BY <2>2, <3>3 DEF odd
  <2>4. k \in 1 .. u - 1 /\ k + 1 \in 1 .. u /\ ~(k + 1 <= k)
    BY <1>2, <2>3
  <2>5. k + 1 \notin odd
    <3> HIDE DEF odd
    <3>1. QED
      BY <2>2, <2>4
  <2>6. own[s[k + 1]] = own[c] /\ pos[s[k + 1]] <= pos[c]
    BY <2>4, <2>5
  <2>7. s[k] \in Clusters /\ s[k + 1] \in Clusters /\ FatNext(s[k]) = s[k + 1]
    BY <1>2, <1>3, <2>3, <2>4
  <2>8. own[s[k + 1]] = own[s[k]] /\ pos[s[k + 1]] > pos[s[k]]
    BY <1>4, <2>7
  <2>9. pos[s[k]] \in Nat /\ pos[s[k + 1]] \in Nat /\ pos[c] \in Nat
    BY <1>2, <1>4, <2>7
  <2>10. QED
    BY <2>2, <2>6, <2>8, <2>9
<1>6. QED
  BY <1>1, <1>2, <1>3, <1>5

\* The entry is found after a step that begins more writes.
LEMMA BeginFinds ==
  ASSUME SameView, cwd' = cwd, NEW j, job' = j, j.name = job.name, j.loc = job.loc,
         Finds(cwd, JobName, job.loc)
  PROVE  Finds(cwd, JobName, job.loc)'
BY ViewStill, FindsNext

\* The clusters written stay so, as the volume does.
LEMMA BeginLaid ==
  ASSUME SameView, data' = data, NEW j, job' = j, j.used = job.used, j.prev = job.prev,
         j.size = job.size, j.first = job.first, NEW s, Laid(s), Linked(s), Stored
  PROVE  Laid(s)' /\ Linked(s)' /\ Stored'
<1>1. \A x : FatNext(x)' = FatNext(x)
  BY SightFacts
<1>2. Laid(s)'
  BY <1>1 DEF Laid
<1>3. Linked(s)'
  BY <1>1 DEF Linked
<1>4. Stored'
  BY DEF Stored
<1>5. QED
  BY <1>2, <1>3, <1>4

LEMMA NeededNone == Needed(0) = 0
<1>1. ClusterBytes \in Nat
  BY Fat32Assumption
<1>2. Needed(0) <= 0 /\ Needed(0) \in Nat
  BY <1>1, NeededLeast, NeededType
<1>3. QED
  BY <1>2

\* The loop of a write of nothing is none.
LEMMA WriteNothingHonest ==
  ASSUME Inv, NEW own, NEW pos, Sound(own, pos), HonestInv, WriteNothing
  PROVE  HonestInv'
<1>1. /\ TypeOK /\ Base(own, pos) /\ todo = <<>> /\ Ready("body")
      /\ job.call \in {"write", "touch"}
  BY BodyFacts DEF WriteNothing
<1>2. PICK j, w : /\ j = [job EXCEPT !.at = "entry", !.first = 0]
                  /\ w = FreeChain(job.first)
  OBVIOUS
<1>3. /\ j.call = job.call /\ j.at = "entry" /\ j.loc = job.loc /\ j.name = job.name
      /\ j.used = job.used /\ j.prev = job.prev /\ j.size = job.size
  BY <1>1, <1>2 DEF TypeOK, JobType
<1>4. PICK f : f = job.first
  OBVIOUS
<1>5. w = FreeAll(Chain(f)) /\ w \in Seq(Fresh) /\ Begin(j, w)
  BY <1>2, <1>4, FreeChainIs DEF WriteNothing
<1>6. SameView /\ cwd' = cwd /\ job' = j /\ Ahead' = w
  BY <1>1, <1>5, BeginFrame
<1>7. Finds(cwd, JobName, job.loc) /\ job.used <= Needed(job.size)
  BY <1>1, BodyHonest
<1>8. job.used = 0 /\ job.size = 0
  <2>1. job.size = 0
    BY DEF WriteNothing
  <2>2. job.used <= 0 /\ job.used \in Nat
    BY <1>1, <1>7, <2>1, NeededNone, JobNumbers
  <2>3. QED
    BY <2>1, <2>2
<1>9. job.prev = 0
  BY <1>1, <1>8, BodyHonest DEF Laid
<1>10. Finds(cwd, JobName, job.loc)'
  BY <1>3, <1>6, <1>7, BeginFinds
<1>11. PICK s : s = [k \in 1 .. 0 |-> 0]
  OBVIOUS
<1>12. Laid(s)' /\ s \in [1 .. job'.used -> Clusters]
  BY <1>3, <1>6, <1>8, <1>9, <1>11 DEF Laid
<1>13. \A i \in 1 .. Len(w) : \E c \in Clusters : w[i] = <<"fat", 1, c, 0>>
  <2>1. PICK t : t = Chain(f)
    OBVIOUS
  <2>2. t \in Seq(Clusters) /\ w = FreeAll(t)
    BY <1>5, <2>1, ChainFacts
  <2>3. Len(w) = Len(t) /\ \A i \in 1 .. Len(t) : w[i] = <<"fat", 1, t[i], 0>>
    BY <2>2 DEF FreeAll
  <2>4. QED
    BY <2>2, <2>3
<1>14. Trimming(s)'
  <2>1. ~Short'
    BY <1>3, <1>6, <1>8, NeededNone DEF Short, Needed
  <2>2. job'.used = 0
    BY <1>3, <1>6, <1>8
  <2>3. ASSUME NEW c \in Clusters, NEW x, x = <<"fat", 1, c, 0>> PROVE Spares(s, x)'
    BY <2>2, <2>3 DEF Spares
  <2>4. \A i \in 1 .. Len(w) : Spares(s, w[i])'
    BY <1>13, <2>3
  <2>5. (\A i \in 1 .. Len(Ahead) : Cut(Ahead[i]) \/ Spares(s, Ahead[i]))'
    BY <1>6, <2>4 DEF Spares
  <2>6. Linked(s)' /\ Stored' /\ (job.used > 0 => FatNext(job.prev) = EOC \/ (Ahead # <<>> /\ Cut(Head(Ahead))))'
    BY <2>2 DEF Linked, Stored
  <2>7. QED
    BY <2>1, <2>5, <2>6 DEF Trimming
<1>15. WritingInv'
  BY <1>3, <1>6, <1>7, <1>10, <1>12, <1>14 DEF WritingInv, Needed
<1>16. QED
  BY <1>1, <1>3, <1>5, <1>15, BeginHonest

\* No free cluster is found only when there is none.
LEMMA NoneFree ==
  ASSUME FindFreeCluster = 0 PROVE FreeClusters = {}
<1>1. SUFFICES ASSUME FreeClusters # {} PROVE FALSE
  OBVIOUS
<1>2. FreeClusters \subseteq Nat /\ 0 \notin FreeClusters
  BY ClustersAre DEF FreeClusters
<1>3. Min(FreeClusters) \in FreeClusters
  BY <1>1, <1>2, MinIsIn
<1>4. QED
  BY <1>1, <1>2, <1>3 DEF FindFreeCluster

\* What follows the clusters written is none of them.
LEMMA RestApart ==
  ASSUME TypeOK, NEW own, NEW pos, Base(own, pos), BodyInv(own, pos), NEW s, Laid(s),
         Linked(s), job.used > 0, job.cluster \in Clusters,
         NEW x \in ToSet(Chain(job.cluster))
  PROVE  \A k \in 1 .. job.used : s[k] # x
<1>1. PICK u, p, c : u = job.used /\ p = job.prev /\ c = job.cluster
  OBVIOUS
<1>2. u \in Nat /\ u > 0 /\ p \in Clusters /\ c \in Clusters
  BY <1>1, JobNumbers DEF Laid
<1>3. FatNext(p) = c
  BY <1>1, <1>2, ClustersAre DEF BodyInv
<1>4. pos \in [Clusters -> Nat] /\ pos[c] > pos[p]
  BY <1>2, <1>3 DEF Base, TableInv, Labels
<1>5. PICK t : t = Chain(c)
  OBVIOUS
<1>6. /\ t \in Seq(Clusters) /\ t[1] = c /\ Len(t) \in Nat /\ Len(t) >= 1
      /\ \A j, k \in 1 .. Len(t) : j < k => pos[t[j]] < pos[t[k]]
  <2>1. t \in Seq(Clusters) /\ t[1] = c /\ Len(t) >= 1
    BY <1>2, <1>5, ChainFacts
  <2>2. Labels(own, pos) /\ TableInv(own, pos)
    BY DEF Base
  <2>3. \A j, k \in 1 .. Len(t) : j < k => pos[t[j]] < pos[t[k]]
    BY <1>2, <1>5, <2>2, ChainLabels
  <2>4. QED
    BY <2>1, <2>3
<1>7. PICK i \in 1 .. Len(t) : x = t[i]
  BY <1>1, <1>5, <1>6, ToSetIs
<1>8. i = 1 \/ (1 \in 1 .. Len(t) /\ 1 < i)
  BY <1>6, <1>7
<1>9. x \in Clusters /\ (x = c \/ pos[c] < pos[x])
  BY <1>6, <1>7, <1>8
<1>10. pos[x] \in Nat /\ pos[c] \in Nat /\ pos[p] \in Nat
  BY <1>2, <1>4, <1>9
<1>11. pos[x] > pos[p]
  BY <1>4, <1>9, <1>10
<1>12. \A k \in 1 .. u : s[k] \in Clusters /\ pos[s[k]] <= pos[p]
  BY <1>1, <1>2, LaidLeads
<1>13. \A k \in 1 .. u : s[k] # x
  BY <1>10, <1>11, <1>12
<1>14. QED
  BY <1>1, <1>13

\* The loop is over.
LEMMA WriteTrimHonest ==
  ASSUME Inv, NEW own, NEW pos, Sound(own, pos), HonestInv, WriteTrim
  PROVE  HonestInv'
<1>1. /\ TypeOK /\ Base(own, pos) /\ todo = <<>> /\ Ready("body") /\ BodyInv(own, pos)
      /\ job.call \in {"write", "touch"}
  BY BodyFacts DEF WriteTrim
<1>2. PICK j, p, c, u, w :
        /\ j = [job EXCEPT !.at = "entry"] /\ p = job.prev /\ c = job.cluster
        /\ u = job.used
        /\ w = (IF job.prev # 0 THEN SetFat(job.prev, EOC) ELSE <<>>)
                 \o FreeChain(job.cluster)
  OBVIOUS
<1>3. /\ j.call = job.call /\ j.at = "entry" /\ j.loc = job.loc /\ j.name = job.name
      /\ j.used = job.used /\ j.prev = job.prev /\ j.size = job.size
      /\ j.first = job.first
  BY <1>1, <1>2 DEF TypeOK, JobType
<1>4. /\ Finds(cwd, JobName, job.loc) /\ job.used <= Needed(job.size)
      /\ u \in Nat /\ job.size \in Nat /\ job.size > 0 /\ p \in Firsts
  BY <1>1, <1>2, BodyHonest, JobNumbers DEF WriteTrim
<1>5. PICK s \in [1 .. u -> Clusters] : Laid(s) /\ Linked(s) /\ Stored
  BY <1>1, <1>2, BodyHonest
<1>6. (p = 0 <=> u = 0) /\ (u > 0 => p \in Clusters)
  BY <1>2, <1>4, <1>5, ClustersAre DEF Laid
<1>7. PICK t, z : t = Chain(c) /\ z = FreeAll(t)
  OBVIOUS
<1>8. t \in Seq(Clusters) /\ z = FreeChain(c) /\ z \in Seq(Fresh)
  BY <1>7, ChainFacts, FreeChainIs
<1>9. Len(z) = Len(t) /\ \A i \in 1 .. Len(t) : z[i] = <<"fat", 1, t[i], 0>>
  BY <1>7, <1>8 DEF FreeAll
<1>10. PICK a : a = <<"fat", 1, p, EOC>>
  OBVIOUS
<1>11. (u = 0 => w = z) /\ (u > 0 => w = <<a>> \o z)
  <2>1. CASE u = 0
    <3>1. w = <<>> \o z
      BY <1>2, <1>6, <1>8, <2>1
    <3>2. <<>> \o z = z
      BY <1>8, ConcatEmptySeq
    <3>3. QED
      BY <2>1, <3>1, <3>2
  <2>2. CASE u > 0
    BY <1>2, <1>6, <1>8, <1>10, <2>2, ClustersAre DEF SetFat
  <2>3. QED
    BY <1>4, <2>1, <2>2
<1>12. u > 0 => <<a>> \in Seq(Fresh)
  <2>1. u > 0 => SetFat(p, EOC) \in Seq(Fresh)
    BY <1>6, SetFatFresh DEF Links
  <2>2. QED
    BY <1>10, <2>1 DEF SetFat
<1>13. w \in Seq(Fresh)
  <2>1. ASSUME u > 0 PROVE <<a>> \o z \in Seq(Fresh)
    <3>1. PICK y : y = <<a>>
      OBVIOUS
    <3>2. y \in Seq(Fresh) /\ z \in Seq(Fresh)
      BY <1>8, <1>12, <2>1, <3>1
    <3>3. y \o z \in Seq(Fresh)
      BY <3>2, ConcatProperties
    <3>4. QED
      BY <3>1, <3>3
  <2>2. u > 0 => w \in Seq(Fresh)
    BY <1>11, <2>1, Zenon
  <2>3. QED
    BY <1>4, <1>8, <1>11, <2>2
<1>14. Begin(j, w)
  BY <1>2 DEF WriteTrim, Goto
<1>15. SameView /\ cwd' = cwd /\ job' = j /\ Ahead' = w /\ data' = data
  BY <1>1, <1>13, <1>14, BeginFrame DEF Begin
<1>16. Finds(cwd, JobName, job.loc)'
  BY <1>3, <1>4, <1>15, BeginFinds
<1>17. Laid(s)' /\ Linked(s)' /\ Stored'
  BY <1>3, <1>5, <1>15, BeginLaid
<1>18. /\ \A i \in 1 .. Len(w) : (u > 0 /\ w[i] = a) \/ \E k \in 1 .. Len(z) : w[i] = z[k]
       /\ u > 0 => w # <<>> /\ Head(w) = a
       /\ u > 0 /\ z = <<>> => \A i \in 1 .. Len(w) : w[i] = a
       /\ u = 0 /\ z = <<>> => w = <<>>
  <2>1. CASE u = 0
    BY <1>11, <2>1
  <2>2. CASE u > 0
    <3>1. w = <<a>> \o z /\ w # <<>> /\ Head(w) = a
      BY <1>8, <1>11, <2>2, HeadTail
    <3>2. /\ Len(w) = 1 + Len(z)
          /\ \A i \in 1 .. Len(w) : w[i] = IF i = 1 THEN a ELSE z[i - 1]
      BY <1>8, <3>1
    <3>3. \A i \in 1 .. Len(w) : i = 1 \/ i - 1 \in 1 .. Len(z)
      BY <1>8, <3>2
    <3>4. ASSUME z = <<>> PROVE \A i \in 1 .. Len(w) : w[i] = a
      <4>1. Len(w) = 1
        <5>1. Len(z) = 0
          BY <3>4
        <5>2. QED
          BY <3>2, <5>1
      <4>2. \A i \in 1 .. Len(w) : i = 1
        BY <4>1
      <4>3. QED
        BY <3>2, <4>2
    <3>5. QED
      BY <2>2, <3>1, <3>2, <3>3, <3>4
  <2>3. QED
    BY <1>4, <2>1, <2>2
<1>19. u < Needed(job.size) => FreeClusters = {} /\ z = <<>>
  <2>1. ASSUME u < Needed(job.size) PROVE FreeClusters = {} /\ z = <<>>
    <3>1. u # Needed(job.size)
      BY <1>4, <2>1, NeededType
    <3>2. c \notin Clusters /\ FindFreeCluster = 0
      BY <1>2, <3>1 DEF WriteTrim, DiskFull
    <3>3. t = <<>>
      BY <1>7, <3>2, ChainOfNone
    <3>4. z = <<>>
      BY <1>8, <1>9, <3>3
    <3>5. QED
      BY <3>2, <3>4, NoneFree
  <2>2. QED
    BY <2>1
<1>20. \A k \in 1 .. Len(z) : \E x \in Clusters :
         (\A i \in 1 .. u : s[i] # x) /\ z[k] = <<"fat", 1, x, 0>>
  <2>1. ASSUME NEW k \in 1 .. Len(z)
        PROVE  t[k] \in Clusters /\ \A i \in 1 .. u : s[i] # t[k]
    <3>1. t[k] \in Clusters /\ t[k] \in ToSet(t)
      BY <1>8, <1>9, <2>1, ToSetIs
    <3>2. CASE u = 0
      BY <3>1, <3>2
    <3>3. CASE u > 0
      <4>1. c \in Clusters
        <5>1. t # <<>>
          BY <1>8, <1>9, <2>1
        <5>2. QED
          BY <1>7, <5>1, ChainOfNone
      <4>2. QED
        BY <1>1, <1>2, <1>5, <1>7, <3>1, <3>3, <4>1, RestApart
    <3>4. QED
      BY <1>4, <3>2, <3>3
  <2>2. QED
    BY <1>9, <2>1
<1>21. Trimming(s)'
  <2>1. job'.used = u /\ job'.prev = p /\ job'.size = job.size
    BY <1>2, <1>3, <1>15
  <2>2. \A x : (Cut(x)' <=> u > 0 /\ x = a)
    BY <1>10, <2>1 DEF Cut
  <2>3. \A i \in 1 .. Len(w) : Cut(w[i])' \/ Spares(s, w[i])'
    <3>1. \A x \in Clusters : \A y : (\A i \in 1 .. u : s[i] # x) /\ y = <<"fat", 1, x, 0>>
                                => Spares(s, y)'
      BY <2>1 DEF Spares
    <3>2. \A k \in 1 .. Len(z) : Spares(s, z[k])'
      BY <1>20, <3>1
    <3>3. QED
      BY <1>18, <2>2, <3>2
  <2>4. (\A i \in 1 .. Len(Ahead) : Cut(Ahead[i]) \/ Spares(s, Ahead[i]))'
    BY <1>15, <2>3 DEF Spares, Cut
  <2>5. (job.used > 0 => FatNext(job.prev) = EOC \/ (Ahead # <<>> /\ Cut(Head(Ahead))))'
    BY <1>15, <1>18, <2>1, <2>2 DEF Cut
  <2>6. (Short => FreeClusters = {} /\ \A i \in 1 .. Len(Ahead) : Cut(Ahead[i]))'
    <3>1. FreeClusters' = FreeClusters /\ Needed(job.size)' = Needed(job.size)
      BY <1>15, <2>1, SightFacts DEF Needed
    <3>2. ASSUME u < Needed(job.size) PROVE \A i \in 1 .. Len(w) : Cut(w[i])'
      BY <1>4, <1>18, <1>19, <2>2, <3>2
    <3>3. QED
      BY <1>15, <1>19, <2>1, <3>1, <3>2 DEF Short, Cut
  <2>7. QED
    BY <1>17, <2>4, <2>5, <2>6 DEF Trimming
<1>22. WritingInv'
  BY <1>2, <1>3, <1>4, <1>15, <1>16, <1>17, <1>21 DEF WritingInv, Needed
<1>23. QED
  BY <1>1, <1>3, <1>14, <1>22, BeginHonest

\* The clusters written with one more, which is none of them.
LEMMA LaidMore ==
  ASSUME TypeOK, NEW own, NEW pos, Base(own, pos), NEW s, Laid(s), Linked(s), Stored,
         SameView, data' = data, NEW c \in Clusters, \A k \in 1 .. job.used : s[k] # c,
         job'.used = job.used + 1, job'.prev = c, job'.size = job.size,
         job'.first = IF job.used = 0 THEN c ELSE job.first, NEW s2,
         s2 = [k \in 1 .. job.used + 1 |-> IF k <= job.used THEN s[k] ELSE c]
  PROVE  Laid(s2)' /\ s2 \in [1 .. job'.used -> Clusters]
<1>1. PICK u, f, z : u = job.used /\ f = job.first /\ z = job.size
  OBVIOUS
<1>2. /\ u \in Nat /\ s \in [1 .. u -> Clusters]
      /\ \A j, k \in 1 .. u : s[j] = s[k] => j = k
      /\ u > 0 => s[1] = f /\ s[u] = job.prev
      /\ \A k \in 1 .. u - 1 : data[s[k]] = <<z, k>>
      /\ u > 0 => data[job.prev] = <<z, u>>
      /\ u > 0 => \A k \in 1 .. u - 1 : FatNext(s[k]) = s[k + 1]
  <2>1. u \in Nat
    BY <1>1, JobNumbers
  <2>2. u > 0 => \A k \in 1 .. u - 1 : FatNext(s[k]) = s[k + 1]
    BY <1>1, LaidLeads
  <2>3. QED
    BY <1>1, <2>1, <2>2 DEF Laid, Stored
<1>3. /\ u + 1 \in 1 .. u + 1 /\ \A k \in 1 .. u + 1 : k \in 1 .. u \/ k = u + 1
      /\ \A k \in 1 .. u : k \in 1 .. u + 1 /\ k <= u /\ k # u + 1
      /\ ~(u + 1 <= u)
  BY <1>2
<1>4. /\ s2 \in [1 .. u + 1 -> Clusters] /\ s2[u + 1] = c
      /\ \A k \in 1 .. u : s2[k] = s[k]
  <2>1. s2 = [k \in 1 .. u + 1 |-> IF k <= u THEN s[k] ELSE c]
    BY <1>1
  <2>2. s2[u + 1] = c
    BY <1>3, <2>1
  <2>3. \A k \in 1 .. u : s2[k] = s[k]
    BY <1>3, <2>1
  <2>4. \A k \in 1 .. u + 1 : s2[k] \in Clusters
    BY <1>2, <1>3, <2>2, <2>3
  <2>5. QED
    BY <2>1, <2>2, <2>3, <2>4
<1>5. \A j, k \in 1 .. u + 1 : s2[j] = s2[k] => j = k
  <2>1. ASSUME NEW j \in 1 .. u + 1, NEW k \in 1 .. u + 1, s2[j] = s2[k] PROVE j = k
    <3>1. \A i \in 1 .. u : s[i] # c
      BY <1>1
    <3>2. (j \in 1 .. u \/ j = u + 1) /\ (k \in 1 .. u \/ k = u + 1)
      BY <1>3
    <3>3. QED
      BY <1>2, <1>4, <2>1, <3>1, <3>2, ZenonT(60)
  <2>2. QED
    BY <2>1
<1>6. s2[1] = IF u = 0 THEN c ELSE f
  <2>1. CASE u = 0
    BY <1>4, <2>1
  <2>2. CASE u # 0
    <3>1. 1 \in 1 .. u /\ u > 0
      BY <1>2, <2>2
    <3>2. QED
      BY <1>2, <1>4, <2>2, <3>1
  <2>3. QED
    BY <2>1, <2>2
<1>7. \A k \in 1 .. u : data'[s2[k]] = <<z, k>>
  <2>1. ASSUME NEW k \in 1 .. u PROVE data[s[k]] = <<z, k>>
    <3>1. k \in 1 .. u - 1 \/ (k = u /\ u > 0)
      BY <1>2
    <3>2. QED
      BY <1>2, <3>1
  <2>2. QED
    BY <1>4, <2>1
<1>8. \A k \in 1 .. u - 1 : FatNext(s2[k])' = s2[k + 1]
  <2>1. ASSUME NEW k \in 1 .. u - 1 PROVE FatNext(s2[k])' = s2[k + 1]
    <3>1. k \in 1 .. u /\ k + 1 \in 1 .. u /\ u > 0
      BY <1>2
    <3>2. FatNext(s[k]) = s[k + 1]
      BY <1>2, <3>1
    <3>3. s2[k] = s[k] /\ s2[k + 1] = s[k + 1]
      BY <1>4, <3>1
    <3>4. FatNext(s2[k])' = FatNext(s[k])
      BY <3>3, SightFacts
    <3>5. QED
      BY <3>2, <3>3, <3>4
  <2>2. QED
    BY <2>1
<1>9. PICK n : n = u + 1
  OBVIOUS
<1>10. /\ job'.used = n /\ n \in Nat /\ n # 0 /\ n > 0 /\ n - 1 = u /\ n - 2 = u - 1
       /\ job'.prev = c /\ job'.size = z /\ job'.first = s2[1]
  BY <1>1, <1>2, <1>6, <1>9, SMTT(30)
<1>11. Laid(s2)'
  BY <1>4, <1>5, <1>7, <1>8, <1>9, <1>10, ZenonT(60) DEF Laid
<1>12. QED
  BY <1>4, <1>9, <1>10, <1>11

\* One round of the loop: the next cluster of the old chain, or a fresh one.
LEMMA WriteClusterHonest ==
  ASSUME Inv, NEW own, NEW pos, Sound(own, pos), HonestInv, WriteCluster
  PROVE  HonestInv'
<1>1. /\ TypeOK /\ Base(own, pos) /\ todo = <<>> /\ Ready("body") /\ AllUsed
      /\ job.call \in {"write", "touch"} /\ BodyInv(own, pos)
  BY BodyFacts DEF WriteCluster
<1>2. PICK c : c = IF job.cluster \notin Clusters THEN FindFreeCluster ELSE job.cluster
  OBVIOUS
<1>3. PICK j, f, q, k, u :
        /\ j = [job EXCEPT !.first = IF job.cluster \notin Clusters /\ job.prev = 0
                                     THEN c ELSE job.first,
                           !.prev = c, !.used = job.used + 1,
                           !.cluster = IF job.cluster \notin Clusters
                                       THEN EOC ELSE FatNext(c)]
        /\ f = job.first /\ q = job.prev /\ k = job.cluster /\ u = job.used
  OBVIOUS
<1>4. PICK s2, y, z, d : /\ s2 = <<"data", c, <<job.size, job.used + 1>> >>
                         /\ y = <<"fat", 1, c, EOC>> /\ z = <<"zero", c>>
                         /\ d = <<"fat", 1, q, c>>
  OBVIOUS
<1>5. PICK w :
        w = (IF k \notin Clusters THEN Allocate(c) ELSE <<>>)
              \o (IF k \notin Clusters /\ q # 0 THEN SetFat(q, c) ELSE <<>>)
              \o <<s2>>
  OBVIOUS
<1>6. c # 0 /\ Begin(j, w) /\ u < Needed(job.size)
  <2>1. w = (IF job.cluster \notin Clusters THEN Allocate(c) ELSE <<>>)
              \o (IF job.cluster \notin Clusters /\ job.prev # 0 THEN SetFat(job.prev, c) ELSE <<>>)
              \o << <<"data", c, <<job.size, job.used + 1>> >> >>
    BY <1>3, <1>4, <1>5
  <2>2. c # 0 /\ Begin(j, w)
    BY <1>2, <1>3, <2>1 DEF WriteCluster
  <2>3. QED
    BY <1>3, <2>2 DEF WriteCluster
<1>7. /\ j.call = job.call /\ j.at = "body" /\ j.loc = job.loc /\ j.prev = c
      /\ j.first = (IF k \notin Clusters /\ q = 0 THEN c ELSE f)
      /\ j.size = job.size /\ j.used = u + 1 /\ j.name = job.name
  BY <1>1, <1>3 DEF TypeOK, JobType, Ready
<1>8. f \in Firsts /\ q \in Firsts /\ job.size \in Nat /\ u \in Nat
  BY <1>1, <1>3, JobNumbers
<1>9. c \in Clusters
  BY <1>2, <1>6, FindFreeClusterFacts DEF Firsts
<1>10. /\ k \in Clusters => w = <<s2>>
       /\ k \notin Clusters /\ q = 0 => w = Allocate(c) \o <<s2>>
       /\ k \notin Clusters /\ q # 0 => w = Allocate(c) \o (SetFat(q, c) \o <<s2>>)
       /\ w # <<>>
  <2>1. Allocate(c) = <<y>> \o <<z>> /\ SetFat(q, c) = <<d>>
    BY <1>4 DEF Allocate, SetFat
  <2>2. CASE k \in Clusters
    <3>1. w = (<<>> \o <<>>) \o <<s2>>
      BY <1>5, <2>2
    <3>2. (<<>> \o <<>>) \o <<s2>> = <<s2>> /\ <<s2>> # <<>>
      BY RoundWrites
    <3>3. QED
      BY <2>2, <3>1, <3>2
  <2>3. CASE k \notin Clusters /\ q = 0
    <3>1. w = ((<<y>> \o <<z>>) \o <<>>) \o <<s2>>
      BY <1>5, <2>1, <2>3
    <3>2. /\ ((<<y>> \o <<z>>) \o <<>>) \o <<s2>> = (<<y>> \o <<z>>) \o <<s2>>
          /\ (<<y>> \o <<z>>) \o <<s2>> # <<>>
      BY RoundWrites
    <3>3. QED
      BY <2>1, <2>3, <3>1, <3>2
  <2>4. CASE k \notin Clusters /\ q # 0
    <3>1. w = ((<<y>> \o <<z>>) \o <<d>>) \o <<s2>>
      BY <1>5, <2>1, <2>4
    <3>2. /\ ((<<y>> \o <<z>>) \o <<d>>) \o <<s2>> = (<<y>> \o <<z>>) \o (<<d>> \o <<s2>>)
          /\ (<<y>> \o <<z>>) \o (<<d>> \o <<s2>>) # <<>>
      BY RoundWrites
    <3>3. QED
      BY <2>1, <2>4, <3>1, <3>2
  <2>5. QED
    BY <2>2, <2>3, <2>4
<1>11. w \in Seq(Fresh)
  <2>1. PICK a, b : /\ a = (IF k \notin Clusters THEN Allocate(c) ELSE <<>>)
                    /\ b = (IF k \notin Clusters /\ q # 0 THEN SetFat(q, c) ELSE <<>>)
    OBVIOUS
  <2>2. a \in Seq(Fresh)
    BY <1>9, <2>1, AllocateFresh, EmptySeq
  <2>3. q # 0 => SetFat(q, c) \in Seq(Fresh)
    BY <1>8, <1>9, SetFatFresh DEF Firsts, Links
  <2>4. b \in Seq(Fresh)
    BY <2>1, <2>3, EmptySeq
  <2>5. <<s2>> \in Seq(Fresh)
    <3>1. s2 \in Fresh
      BY <1>3, <1>4, <1>8, <1>9 DEF Fresh, WriteType
    <3>2. QED
      BY <3>1
  <2>6. (a \o b) \o <<s2>> \in Seq(Fresh)
    BY <2>2, <2>4, <2>5, ConcatProperties
  <2>7. QED
    BY <1>5, <2>1, <2>6
<1>12. SameView /\ cwd' = cwd /\ job' = j /\ Ahead' = w /\ data' = data
  BY <1>1, <1>6, <1>11, BeginFrame DEF Begin
<1>13. Finds(cwd, JobName, job.loc)'
  BY <1>1, <1>7, <1>12, BodyHonest, BeginFinds
<1>14. PICK s \in [1 .. u -> Clusters] : Laid(s) /\ Linked(s) /\ Stored
  BY <1>1, <1>3, BodyHonest
<1>15. /\ q = 0 <=> u = 0
       /\ u > 0 => s[u] = q /\ q \in Clusters
  BY <1>3, <1>8, <1>14, ClustersAre DEF Laid
<1>16. k \notin Clusters => c = FindFreeCluster /\ ~Used(c)
  BY <1>1, <1>2, <1>3, <1>6, FreeIsNobodys
<1>17. \A i \in 1 .. u : s[i] # c
  <2>1. CASE k \in Clusters /\ u > 0
    <3>1. PICK t : t = Chain(k)
      OBVIOUS
    <3>2. t \in Seq(Clusters) /\ Len(t) >= 1 /\ t[1] = k
      BY <2>1, <3>1, ChainFacts
    <3>3. 1 \in 1 .. Len(t)
      BY <3>2
    <3>4. c \in ToSet(t)
      BY <1>2, <1>3, <2>1, <3>2, <3>3, ToSetIs
    <3>5. c \in ToSet(Chain(job.cluster))
      BY <1>3, <3>1, <3>4
    <3>6. QED
      BY <1>1, <1>3, <1>14, <2>1, <3>5, RestApart
  <2>2. CASE k \notin Clusters /\ u > 0
    <3>1. Ends(q)
      BY <1>1, <1>3, <1>15, <2>2, ClustersAre DEF BodyInv
    <3>2. \A i \in 1 .. u - 1 : FatNext(s[i]) = s[i + 1]
      BY <1>1, <1>3, <1>14, <2>2, LaidLeads
    <3>3. ASSUME NEW i \in 1 .. u PROVE s[i] # c
      <4>1. CASE i = u
        BY <1>15, <1>16, <2>2, <3>1, <4>1 DEF Ends, Used
      <4>2. CASE i # u
        <5>1. i \in 1 .. u - 1 /\ i + 1 \in 1 .. u
          BY <1>8, <4>2
        <5>2. FatNext(s[i]) \in Clusters
          BY <3>2, <5>1
        <5>3. QED
          BY <1>16, <2>2, <5>2, ClustersAre DEF Used
      <4>3. QED
        BY <4>1, <4>2
    <3>4. QED
      BY <3>3
  <2>3. CASE u = 0
    BY <2>3
  <2>4. QED
    BY <1>8, <2>1, <2>2, <2>3
<1>18. PICK t : t = [i \in 1 .. u + 1 |-> IF i <= u THEN s[i] ELSE c]
  OBVIOUS
<1>19. Laid(t)' /\ t \in [1 .. job'.used -> Clusters]
  <2>1. k \in Clusters /\ q = 0 => c = f
    BY <1>1, <1>2, <1>3 DEF BodyInv
  <2>2. j.first = IF u = 0 THEN c ELSE f
    BY <1>7, <1>15, <2>1
  <2>3. /\ job'.used = job.used + 1 /\ job'.prev = c /\ job'.size = job.size
        /\ job'.first = IF job.used = 0 THEN c ELSE job.first
    BY <1>3, <1>7, <1>12, <2>2
  <2>4. t = [i \in 1 .. job.used + 1 |-> IF i <= job.used THEN s[i] ELSE c]
    BY <1>3, <1>18
  <2>5. \A i \in 1 .. job.used : s[i] # c
    BY <1>3, <1>17
  <2>6. QED
    BY <1>1, <1>9, <1>12, <1>14, <2>3, <2>4, <2>5, LaidMore
<1>20. u > 0 => t[u] = q
  <2>1. u > 0 => u \in 1 .. u + 1 /\ u <= u
    BY <1>8
  <2>2. QED
    BY <1>15, <1>18, <2>1
<1>21. /\ job'.used = u + 1 /\ job'.used - 1 = u /\ job'.prev = c
       /\ (job'.used > 1 <=> u > 0) /\ job'.used > 0 /\ (job'.used = 1 <=> u = 0)
  BY <1>7, <1>8, <1>12
<1>22. Store' = <<s2>>
  BY <1>3, <1>4, <1>7, <1>12 DEF Store
<1>23. Laying(t)'
  <2>1. CASE k \in Clusters
    <3>1. Ahead' = Store'
      BY <1>10, <1>12, <1>22, <2>1
    <3>2. Linked(t)'
      <4>1. u > 0 => FatNext(q) = c
        BY <1>1, <1>2, <1>3, <1>15, <2>1 DEF BodyInv
      <4>2. u > 0 => FatNext(q)' = c
        BY <1>12, <4>1, SightFacts
      <4>3. u > 0 => FatNext(t[u])' = c
        BY <1>20, <4>2 DEF FatNext
      <4>4. QED
        BY <1>21, <4>3 DEF Linked, FatNext
    <3>3. QED
      BY <1>21, <3>1, <3>2 DEF Laying
  <2>2. CASE k \notin Clusters
    <3>1. ~Used(c)'
      BY <1>12, <1>16, <2>2, SightFacts
    <3>2. CASE u = 0
      <4>1. Grows(c, <<s2>>)'
        BY <1>10, <1>12, <1>15, <2>2, <3>1, <3>2 DEF Grows
      <4>2. Grows(job.prev, Store)'
        BY <1>21, <1>22, <4>1 DEF Grows, Ends, Used, FatNext
      <4>3. QED
        BY <1>21, <3>2, <4>2 DEF Laying
    <3>3. CASE u > 0
      <4>1. Grows(c, SetFat(q, c) \o <<s2>>)'
        <5>1. q # 0
          BY <1>8, <1>15, <3>3
        <5>2. QED
          BY <1>10, <1>12, <2>2, <3>1, <5>1 DEF Grows, SetFat
      <4>2. Grows(job.prev, SetFat(t[job.used - 1], job.prev) \o Store)'
        BY <1>20, <1>21, <1>22, <3>3, <4>1 DEF Grows, Ends, Used, FatNext, SetFat
      <4>3. QED
        BY <1>21, <3>3, <4>2 DEF Laying
    <3>4. QED
      BY <1>8, <3>2, <3>3
  <2>3. QED
    BY <2>1, <2>2
<1>24. (job.used <= Needed(job.size))'
  <2>1. PICK n : n = Needed(job.size)
    OBVIOUS
  <2>2. n \in Nat /\ u + 1 <= n
    BY <1>6, <1>8, <2>1, NeededType
  <2>3. Needed(job.size)' = n /\ job'.used = u + 1
    BY <1>7, <1>12, <2>1 DEF Needed
  <2>4. QED
    BY <2>2, <2>3
<1>25. WritingInv'
  BY <1>7, <1>12, <1>13, <1>19, <1>23, <1>24 DEF WritingInv
<1>26. QED
  BY <1>1, <1>6, <1>7, <1>25, BeginHonest

\* The entry is told of its chain.
LEMMA WriteEntryHonest ==
  ASSUME Inv, NEW own, NEW pos, Sound(own, pos), HonestInv, WriteEntry
  PROVE  HonestInv'
<1>1. /\ TypeOK /\ Base(own, pos) /\ todo = <<>> /\ job.at = "entry" /\ Ahead = <<>>
      /\ job.call \in {"write", "touch"} /\ WriteInv(own, pos)
  BY CallFacts DEF WriteEntry
<1>2. PICK j, e, w, f, u, z, n :
        /\ j = [job EXCEPT !.at = "return", !.ret = Written]
        /\ e = [Slot(job.loc) EXCEPT !.first = job.first, !.size = Written]
        /\ w = SetSlot(job.loc, e) /\ f = job.first /\ u = job.used /\ z = job.size
        /\ n = Written
  OBVIOUS
<1>3. /\ j.call = job.call /\ j.at = "return" /\ j.loc = job.loc /\ j.name = job.name
      /\ j.used = u /\ j.size = z /\ j.first = f /\ j.ret = n
  BY <1>1, <1>2 DEF TypeOK, JobType
<1>4. f \in Firsts /\ u \in Nat /\ z \in Nat
  BY <1>1, <1>2, JobNumbers
<1>5. Finds(cwd, JobName, job.loc) /\ u <= Needed(z)
  BY <1>1, <1>2 DEF HonestInv, WritingInv
<1>6. PICK s \in [1 .. u -> Clusters] : Laid(s) /\ Trimming(s)
  BY <1>1, <1>2 DEF HonestInv, WritingInv
<1>7. /\ n \in Nat /\ n <= z
      /\ n < z => u < Needed(z)
      /\ n > 0 => Needed(n) = u /\ u > 0
  BY <1>2, <1>4, <1>5, WrittenIs DEF Written
<1>8. n < z => FreeClusters = {}
  BY <1>2, <1>6, <1>7 DEF Trimming, Short
<1>9. u > 0 => Chain(f) = s /\ \A k \in 1 .. u : data[s[k]] = <<z, k>>
  <2>1. SUFFICES ASSUME u > 0 PROVE Chain(f) = s /\ \A k \in 1 .. u : data[s[k]] = <<z, k>>
    OBVIOUS
  <2>2. /\ Linked(s) /\ Stored /\ FatNext(job.prev) = EOC
    BY <1>1, <1>2, <1>6, <2>1 DEF Trimming
  <2>3. \A k \in 1 .. u - 1 : FatNext(s[k]) = s[k + 1]
    BY <1>1, <1>2, <1>6, <2>1, <2>2, LaidLeads
  <2>4. /\ s[1] = f /\ s[u] = job.prev /\ \A k \in 1 .. u - 1 : data[s[k]] = <<z, k>>
        /\ \A i, k \in 1 .. u : s[i] = s[k] => i = k
    BY <1>2, <1>6, <2>1 DEF Laid
  <2>5. data[s[u]] = <<z, u>>
    BY <1>2, <2>1, <2>2, <2>4 DEF Stored
  <2>6. Joined(s, u)
    BY <1>4, <1>6, <2>1, <2>2, <2>3, <2>4, ClustersAre DEF Joined
  <2>7. Chain(f) = s
    BY <2>4, <2>6, ChainsAre
  <2>8. \A k \in 1 .. u : k \in 1 .. u - 1 \/ k = u
    BY <1>4
  <2>9. QED
    BY <2>4, <2>5, <2>7, <2>8
<1>10. job.loc \in Places /\ e \in EntryType
  <2>1. job.loc \in Places
    BY <1>1 DEF WriteInv, OldEntry
  <2>2. QED
    BY <1>1, <1>2, <1>4, <1>7, <2>1, SlotType DEF EntryType
<1>11. w \in Seq(Fresh) /\ w # <<>>
  BY <1>2, <1>10, SetSlotFresh, OneWrite DEF SetSlot
<1>12. Begin(j, w)
  BY <1>2 DEF WriteEntry
<1>13. SameView /\ cwd' = cwd /\ job' = j /\ Ahead' = w /\ data' = data
  BY <1>1, <1>11, <1>12, BeginFrame DEF Begin
<1>14. Finds(cwd, JobName, job.loc)'
  BY <1>3, <1>5, <1>13, BeginFinds
<1>15. Telling'
  <2>1. /\ job'.ret = n /\ job'.size = z /\ job'.first = f /\ Ahead' # <<>>
        /\ FreeClusters' = FreeClusters /\ Chain(f)' = Chain(f)
    BY <1>3, <1>11, <1>13, SightFacts, ViewChain
  <2>2. ASSUME n > 0 PROVE Holding(job.first, job.size, Needed(job.ret))'
    <3>1. u > 0 /\ Needed(n) = u
      BY <1>7, <2>2
    <3>2. Chain(f)' = s /\ Len(s) = u /\ \A k \in 1 .. u : data'[s[k]] = <<z, k>>
      BY <1>4, <1>9, <1>13, <2>1, <3>1
    <3>3. Holding(f, z, u)'
      BY <3>2 DEF Holding
    <3>4. Needed(job.ret)' = u
      BY <2>1, <3>1 DEF Needed
    <3>5. QED
      BY <2>1, <3>3, <3>4 DEF Holding, Chain
  <2>3. QED
    BY <1>7, <1>8, <2>1, <2>2 DEF Telling
<1>16. (job.used <= Needed(job.size))'
  BY <1>3, <1>5, <1>13 DEF Needed
<1>17. WritingInv'
  BY <1>3, <1>13, <1>14, <1>15, <1>16 DEF WritingInv
<1>18. QED
  BY <1>1, <1>3, <1>12, <1>17, BeginHonest

\* A name that fits is the same to a read as to a write.
LEMMA SameName ==
  ASSUME FittingNames, NEW n \in Names \cup {DotDot} PROVE ReadName(n) = BuildName(n)
<1>1. n.tail = ""
  <2>1. DotDot.tail = ""
    BY DEF DotDot
  <2>2. CASE n \in Names
    BY <2>2, Zenon DEF FittingNames
  <2>3. CASE n = DotDot
    BY <2>1, <2>3, Zenon
  <2>4. QED
    BY <2>2, <2>3, Zenon
<1>2. BuildName(n) = <<n.stem, n.ext>>
  BY <1>1, Zenon DEF BuildName
<1>3. ReadName(n) = <<n.stem, n.ext>>
  <2>1. CASE n.ext = ""
    BY <1>1, <2>1, Zenon DEF ReadName
  <2>2. CASE n.ext # ""
    BY <2>2, Zenon DEF ReadName
  <2>3. QED
    BY <2>1, <2>2, Zenon
<1>4. QED
  BY <1>2, <1>3

\* The call returns, and a read of the name returns what it has written.
LEMMA CallReturnHonest ==
  ASSUME Inv, NEW own, NEW pos, Sound(own, pos), HonestInv, CallReturn
  PROVE  HonestInv'
<1>1. /\ TypeOK /\ Base(own, pos) /\ todo = <<>> /\ job.at = "return" /\ Ahead = <<>>
      /\ job.call \in {"write", "touch", "mkdir", "rmdir", "remove"}
  BY CallFacts DEF CallReturn
<1>2. PICK r, n, z, m : /\ r = [call |-> job.call, name |-> job.name, size |-> job.size,
                                ret |-> job.ret]
                        /\ n = job.name /\ z = job.size /\ m = job.ret
  OBVIOUS
<1>3. Return(r) /\ r.call = job.call /\ r.name = n /\ r.size = z /\ r.ret = m
  BY <1>2 DEF CallReturn
<1>4. last' = r /\ SameView /\ data' = data /\ cwd' = cwd
  BY <1>3 DEF Return, SameView
<1>5. ReadFile(n)' = ReadFile(n) /\ FreeClusters' = FreeClusters
  BY <1>4, ReadSame
<1>6. z \in Nat /\ m \in Int
  BY <1>1, <1>2, JobNumbers
<1>7. CASE job.call \in {"write", "touch"}
  <2>1. Finds(cwd, JobName, job.loc) /\ Telling
    BY <1>1, <1>7 DEF HonestInv, WritingInv
  <2>2. m < z => FreeClusters = {}
    BY <1>2, <2>1 DEF Telling
  <2>3. ASSUME FittingNames, m > 0 PROVE ReadFile(n) = [k \in 1 .. Needed(m) |-> <<z, k>>]
    <3>1. PICK d, name, l, f : /\ d = cwd /\ name = JobName /\ l = job.loc
                               /\ f = job.first
      OBVIOUS
    <3>2. d \in Clusters
      BY <1>1, <3>1, TableType
    <3>3. FindEntry(d, name) = l
      BY <1>1, <2>1, <3>1, <3>2, FindsIs
    <3>4. n \in Names \cup {DotDot}
      BY <1>1, <1>2, Zenon DEF TypeOK, JobType
    <3>5. ReadName(n) = name
      BY <1>2, <2>3, <3>1, <3>4, SameName DEF JobName
    <3>6. Slot(l).first = f /\ Holding(f, z, Needed(m))
      BY <1>1, <1>2, <2>1, <2>3, <3>1 DEF Telling
    <3>7. ChainOf(l) = Chain(f)
      BY <3>6 DEF ChainOf
    <3>8. PICK q : q = Needed(m)
      OBVIOUS
    <3>9. Len(Chain(f)) = q /\ \A k \in 1 .. q : data[Chain(f)[k]] = <<z, k>>
      BY <3>6, <3>8 DEF Holding
    <3>10. ReadFile(n) = [k \in 1 .. Len(Chain(f)) |-> data[Chain(f)[k]]]
      BY <3>1, <3>3, <3>5, <3>7 DEF ReadFile
    <3>11. QED
      BY <3>8, <3>9, <3>10
  <2>4. ASSUME FittingNames PROVE WrittenIsRead'
    <3>1. m > 0 => ReadFile(n)' = [k \in 1 .. Needed(m) |-> <<z, k>>]
      BY <1>5, <2>3, <2>4
    <3>2. ReadFile(last.name)' = ReadFile(n)' /\ Needed(last.ret)' = Needed(m)
      BY <1>3, <1>4 DEF ReadFile, FindEntry, ReadName, Needed
    <3>3. QED
      BY <1>3, <1>4, <3>1, <3>2 DEF WrittenIsRead
  <2>5. ShortOnlyWhenFull'
    <3>1. m \in {-2} \cup 0 .. z - 1 => FreeClusters' = {}
      BY <1>5, <1>6, <2>2
    <3>2. QED
      BY <1>3, <1>4, <1>7, <3>1 DEF ShortOnlyWhenFull
  <2>6. QED
    BY <1>3, <2>4, <2>5, UnfitHonestNext, ReturnHonest DEF WriteIsHonest
<1>8. CASE job.call \notin {"write", "touch"}
  <2>1. ASSUME job.call = "mkdir", m = -2 PROVE Cardinality(FreeClusters)' <= 1
    <3>1. PICK f, s : f = job.first /\ s = FreeClusters
      OBVIOUS
    <3>2. s \subseteq {f}
      BY <1>1, <1>2, <2>1, <3>1 DEF HonestInv, MakingInv
    <3>3. Cardinality({f}) = 1 /\ IsFiniteSet({f})
      BY FS_Singleton
    <3>4. Cardinality(s) <= 1
      BY <3>2, <3>3, FS_Subset
    <3>5. QED
      BY <1>5, <3>1, <3>4
  <2>2. WriteIsHonest'
    BY <1>3, <1>4, <1>8, <2>1, OtherHonest
  <2>3. QED
    BY <1>3, <2>2, ReturnHonest
<1>9. QED
  BY <1>7, <1>8

-----------------------------------------------------------------------------
(***************************************************************************)
(* The other calls                                                         *)
(***************************************************************************)
\* A directory is begun with a cluster of its own, or there is none.
LEMMA MkdirHonest ==
  ASSUME Inv, NEW own, NEW pos, Sound(own, pos), HonestInv, NEW n \in Names, Mkdir(n)
  PROVE  HonestInv'
<1>1. PICK c, j, w :
        /\ c = FindFreeCluster
        /\ j = [NoJob EXCEPT !.call = "mkdir", !.at = "slot", !.name = n, !.first = c]
        /\ w = Allocate(c) \o << <<"seed", c, Seed(c)>> >>
  OBVIOUS
<1>2. PICK r, q : r = Result("mkdir", n, -1) /\ q = Result("mkdir", n, -2)
  OBVIOUS
<1>3. Return(r) \/ (c = 0 /\ Return(q)) \/ Begin(j, w)
  BY <1>1, <1>2 DEF Mkdir
<1>4. r.call = "mkdir" /\ r.ret = -1 /\ q.call = "mkdir"
  BY <1>2 DEF Result, NoCall
<1>5. CASE Return(r)
  <2>1. last' = r
    BY <1>5 DEF Return
  <2>2. WriteIsHonest'
    BY <1>4, <2>1, OtherHonest
  <2>3. QED
    BY <1>5, <2>2, ReturnHonest
<1>6. CASE c = 0 /\ Return(q)
  <2>1. last' = q /\ SameView
    BY <1>6 DEF Return, SameView
  <2>2. FreeClusters' = {}
    BY <1>1, <1>6, <2>1, NoneFree, SightFacts
  <2>3. Cardinality(FreeClusters)' <= 1
    BY <2>2, FS_EmptySet
  <2>4. WriteIsHonest'
    BY <1>4, <2>1, <2>3, OtherHonest
  <2>5. QED
    BY <1>6, <2>4, ReturnHonest
<1>7. CASE Begin(j, w)
  <2>1. j.call = "mkdir" /\ j.at = "slot" /\ j.ret = 0
    BY <1>1 DEF NoJob
  <2>2. job' = j
    BY <1>7 DEF Begin
  <2>3. MakingInv'
    BY <2>1, <2>2 DEF MakingInv
  <2>4. QED
    BY <1>7, <2>1, <2>3, BeginHonest
<1>8. QED
  BY <1>3, <1>5, <1>6, <1>7

\* Its entry is made.
LEMMA MkdirEntryHonest ==
  ASSUME Inv, NEW own, NEW pos, Sound(own, pos), HonestInv, MkdirEntry
  PROVE  HonestInv'
<1>1. /\ TypeOK /\ Ready("slot") /\ job.call = "mkdir"
  BY MkdirFacts DEF MkdirEntry
<1>2. job.ret = 0
  BY <1>1 DEF HonestInv, MakingInv, Ready
<1>3. PICK j, w : /\ j = [job EXCEPT !.at = "return", !.loc = RoomIn(cwd)]
                  /\ Begin(j, w)
  BY DEF MkdirEntry
<1>4. j.call = "mkdir" /\ j.at = "return" /\ j.ret = 0 /\ job' = j
  BY <1>1, <1>2, <1>3 DEF TypeOK, JobType, Begin
<1>5. MakingInv'
  BY <1>4 DEF MakingInv
<1>6. QED
  BY <1>3, <1>4, <1>5, BeginHonest

\* There is no room for its entry: the one free cluster is its own.
LEMMA MkdirFullHonest ==
  ASSUME Inv, NEW own, NEW pos, Sound(own, pos), HonestInv, MkdirFull
  PROVE  HonestInv'
<1>1. /\ TypeOK /\ Base(own, pos) /\ todo = <<>> /\ job.call = "mkdir"
      /\ Nobodys(own, pos, job.first) /\ Ends(job.first)
  BY MkdirFacts DEF MkdirFull
<1>2. PICK j, f, d, w : /\ j = [job EXCEPT !.at = "return", !.ret = -2]
                        /\ f = job.first /\ w = FreeChain(job.first) /\ d = cwd
  OBVIOUS
<1>3. j.call = "mkdir" /\ j.at = "return" /\ j.first = f
  BY <1>1, <1>2 DEF TypeOK, JobType
<1>4. f \in Clusters /\ FatNext(f) \notin Clusters
  BY <1>1, <1>2 DEF Nobodys, Ends
<1>5. PICK s : s = [k \in 1 .. 1 |-> f]
  OBVIOUS
<1>6. Joined(s, 1) /\ s[1] = f
  <2>1. s \in [1 .. 1 -> Clusters] /\ s[1] = f /\ \A k \in 1 .. 1 : k = 1
    BY <1>4, <1>5
  <2>2. QED
    BY <1>4, <2>1 DEF Joined
<1>7. Chain(f) = s
  BY <1>6, ChainsAre
<1>8. w = FreeAll(Chain(f)) /\ w \in Seq(Fresh)
  BY <1>2, FreeChainIs
<1>9. \A i \in 1 .. Len(w) : w[i] = <<"fat", 1, f, 0>>
  <2>1. Len(s) = 1 /\ \A k \in 1 .. 1 : s[k] = f
    BY <1>5
  <2>2. w = [k \in 1 .. 1 |-> <<"fat", 1, f, 0>>]
    BY <1>7, <1>8, <2>1 DEF FreeAll
  <2>3. Len(w) = 1
    BY <2>2
  <2>4. QED
    BY <2>2, <2>3
<1>10. Begin(j, w)
  BY <1>2 DEF MkdirFull
<1>11. SameView /\ cwd' = cwd /\ job' = j /\ Ahead' = w
  BY <1>1, <1>8, <1>10, BeginFrame
<1>12. FreeClusters' = {}
  <2>1. FreeClusters = {}
    BY <1>2, NoRoom DEF MkdirFull
  <2>2. QED
    BY <1>11, <2>1, SightFacts
<1>13. MakingInv'
  BY <1>3, <1>9, <1>11, <1>12 DEF MakingInv
<1>14. QED
  BY <1>3, <1>10, <1>13, BeginHonest

\* rmdir and remove.
LEMMA DeletesHonest ==
  ASSUME HonestInv, NEW n \in Names, Rmdir(n) \/ RemoveFile(n)
  PROVE  HonestInv'
<1>1. \E call \in {"rmdir", "remove"} :
          \/ \E r : Return(Result(call, n, r))
          \/ \E l : Delete(call, n, l)
  <2>1. CASE Rmdir(n)
    <3>1. (\E r : Return(Result("rmdir", n, r))) \/ (\E l : Delete("rmdir", n, l))
      BY <2>1, Zenon DEF Rmdir
    <3>2. QED
      BY <3>1, Zenon
  <2>2. CASE RemoveFile(n)
    <3>1. (\E r : Return(Result("remove", n, r))) \/ (\E l : Delete("remove", n, l))
      BY <2>2, Zenon DEF RemoveFile
    <3>2. QED
      BY <3>1, Zenon
  <2>3. QED
    BY <2>1, <2>2
<1>2. ASSUME NEW r, NEW call \in {"rmdir", "remove"}, Return(Result(call, n, r))
      PROVE  HonestInv'
  <2>1. PICK q : q = Result(call, n, r)
    OBVIOUS
  <2>2. q.call = call /\ last' = q
    BY <1>2, <2>1 DEF Result, NoCall, Return
  <2>3. WriteIsHonest'
    BY <2>2, OtherHonest
  <2>4. QED
    BY <1>2, <2>3, ReturnHonest
<1>3. ASSUME NEW l, NEW call \in {"rmdir", "remove"}, Delete(call, n, l)
      PROVE  HonestInv'
  <2>1. PICK j, w : /\ j = [NoJob EXCEPT !.call = call, !.at = "return", !.name = n, !.loc = l]
                    /\ Begin(j, w)
    BY <1>3 DEF Delete
  <2>2. j.call = call
    BY <2>1 DEF NoJob
  <2>3. QED
    BY <2>1, <2>2, BeginHonest
<1>4. QED
  BY <1>1, <1>2, <1>3

\* A change of directory, and a power failure.
LEMMA MoveHonest ==
  ASSUME HonestInv, ChangeToRoot \/ (\E n : ChangeDir(n)) \/ Crash
  PROVE  HonestInv'
<1>1. CASE ChangeToRoot
  BY <1>1, NoCallHonestNext DEF ChangeToRoot, HonestInv, Idle
<1>2. CASE \E n : ChangeDir(n)
  <2>1. PICK n : ChangeDir(n)
    BY <1>2
  <2>2. PICK r : last' = Result("cd", n, r)
    BY <2>1 DEF ChangeDir
  <2>3. PICK q : q = Result("cd", n, r)
    OBVIOUS
  <2>4. q.call = "cd" /\ last' = q
    BY <2>2, <2>3 DEF Result, NoCall
  <2>5. WriteIsHonest'
    BY <2>4, OtherHonest
  <2>6. job.call = "idle" /\ job' = job /\ data' = data
    BY <2>1 DEF ChangeDir, Idle
  <2>7. QED
    BY <2>5, <2>6, NoCallHonestNext DEF HonestInv, Idle
<1>3. CASE Crash
  <2>1. data' = data /\ last' = NoCall /\ job' \in {Off, NoJob}
    BY <1>3 DEF Crash, disk
  <2>2. "call" \in DOMAIN NoJob /\ NoJob.call = "idle"
    BY Zenon DEF NoJob
  <2>3. Off.call = "off"
    BY <2>2 DEF Off
  <2>4. job'.call \in {"off", "idle"}
    BY <2>1, <2>2, <2>3
  <2>5. QED
    BY <2>1, <2>4, NoCallHonestNext DEF HonestInv
<1>4. QED
  BY <1>1, <1>2, <1>3

\* No call, on a formatted volume.
LEMMA InitHonest ==
  ASSUME Init PROVE HonestInv
<1>1. DOMAIN data = Clusters /\ last = NoCall /\ job.call = "idle"
  BY DEF Init, NoJob
<1>2. QED
  BY <1>1, NoCallHonest DEF HonestInv

\* Nothing changes.
LEMMA StutterHonest ==
  ASSUME HonestInv, UNCHANGED vars PROVE HonestInv'
<1>1. SameSight /\ last' = last
  BY DEF vars, SameSight, SameView, Ahead
<1>2. PICK n, z, m : n = last.name /\ z = last.size /\ m = last.ret
  OBVIOUS
<1>3. ReadFile(n)' = ReadFile(n) /\ FreeClusters' = FreeClusters
  BY <1>1, ReadSame DEF SameSight
<1>4. ASSUME WriteIsHonest PROVE WrittenIsRead'
  <2>1. ReadFile(last.name)' = ReadFile(last.name) /\ Needed(last.ret)' = Needed(last.ret)
    BY <1>1, <1>2, <1>3 DEF ReadFile, FindEntry, ReadName, Needed
  <2>2. WrittenIsRead
    BY <1>4 DEF WriteIsHonest
  <2>3. QED
    BY <1>1, <2>1, <2>2 DEF WrittenIsRead
<1>5. ASSUME WriteIsHonest PROVE ShortOnlyWhenFull'
  <2>1. ShortOnlyWhenFull
    BY <1>5 DEF WriteIsHonest
  <2>2. QED
    BY <1>1, <1>3, <2>1 DEF ShortOnlyWhenFull
<1>6. job.call \in {"write", "touch"} => WritingInv'
  BY <1>1, SightWriting DEF HonestInv
<1>7. job.call = "mkdir" => MakingInv'
  BY <1>1, SightMaking DEF HonestInv
<1>8. data' = data /\ job' = job
  BY <1>1 DEF SameSight
<1>9. Honest'
  BY <1>4, <1>5, NoCallHonestNext, UnfitHonestNext DEF HonestInv, Honest, WriteIsHonest
<1>10. QED
  BY <1>1, <1>6, <1>7, <1>8, <1>9 DEF HonestInv, Idle

\* Every step keeps the writes honest.
LEMMA NextHonest ==
  ASSUME Inv, ChainsInv, HonestInv, [Next]_vars PROVE HonestInv'
<1>1. PICK own, pos : Sound(own, pos)
  BY DEF ChainsInv
<1>2. CASE Step
  BY <1>1, <1>2, SectorHonest, WriteNothingHonest, WriteClusterHonest, WriteTrimHonest,
     WriteEntryHonest, MkdirEntryHonest, MkdirFullHonest, CallReturnHonest DEF Step
<1>3. ASSUME NEW n \in Names, NEW size \in Sizes, Write(n, size) PROVE HonestInv'
  <2>1. size \in Nat
    BY Fat32Assumption
  <2>2. QED
    BY <1>1, <1>3, <2>1, WriteFileHonest DEF Write
<1>4. ASSUME NEW n \in Names, Touch(n) PROVE HonestInv'
  BY <1>1, <1>4, WriteFileHonest DEF Touch
<1>5. CASE Call
  BY <1>1, <1>3, <1>4, <1>5, MkdirHonest, DeletesHonest, MoveHonest DEF Call
<1>6. QED
  BY <1>1, <1>2, <1>5, MoveHonest, StutterHonest DEF Next

\* The writes stay as described, through every sector write and power failure.
LEMMA HonestHolds == Spec => []HonestInv
<1>1. Init => HonestInv
  BY InitHonest
<1>2. (Inv /\ ChainsInv) /\ HonestInv /\ [Next]_vars => HonestInv'
  BY NextHonest
<1>3. QED
  BY <1>1, <1>2, ChainsHold, PTL DEF Spec

-----------------------------------------------------------------------------
\* When no name is longer than an entry holds, the number a write returns is honest:
\* when it returns, a read of the name returns what was written, as many clusters of
\* it as the number takes, and fewer bytes than were asked for, or no room, mean that
\* no cluster is free.
THEOREM WritesAreHonest == ASSUME FittingNames PROVE Spec => []WriteIsHonest
<1>1. HonestInv => WriteIsHonest
  BY DEF HonestInv, Honest
<1>2. QED
  BY <1>1, HonestHolds, PTL

=============================================================================
