-------------------------- MODULE Fat32LeakProofs --------------------------
(***************************************************************************)
(* Proofs that nothing leaks: between calls every allocated cluster        *)
(* belongs to the root or to a file or directory that can be reached from  *)
(* it, and a file has as many clusters as its size takes.                  *)
(*                                                                         *)
(* Each entry is listed in a directory that is the root or is named in     *)
(* turn, and a rank that grows from a directory to those in it leads back  *)
(* to the root.  A cluster in use follows one, or is named by an entry or  *)
(* by the call in progress, or a write to come frees it or links to it.    *)
(***************************************************************************)
EXTENDS Fat32HonestProofs

-----------------------------------------------------------------------------
(***************************************************************************)
(* The invariant                                                           *)
(***************************************************************************)
\* The entries that name a cluster, but for the one that is worked on.
Others == {l \in Named : l # job.loc}

\* A directory that one of them names, or the root.
Anchored(d) == d = Root \/ \E m \in Others : Slot(m).dir /\ Slot(m).first = d

\* An entry is listed in such a directory; one of a directory leads away from the root.
Shown(rank, l) ==
  \E d \in Clusters : /\ Anchored(d) /\ l \in Holds(d)
                      /\ Slot(l).dir => rank[d] < rank[Slot(l).first]
TreeInv(rank) ==
  /\ rank \in [Clusters -> Nat] /\ Anchored(cwd)
  /\ \A l \in Others : Shown(rank, l)

\* The writes from the i-th on.
From(ws, i) == {ws[j] : j \in i .. Len(ws)}
Pending == From(Ahead, 1)

\* The call's cluster is its file's or its directory's, unless it gives it back.
Owes(j) == j.call \in {"write", "touch"} \/ (j.call = "mkdir" /\ j.ret # -2)
Owing == Owes(job)

\* What a cluster in use belongs to, or is about to; so does one that is about to be
\* in use.
Fed(c) ==
  \/ c = Root
  \/ \E b \in Clusters : FatNext(b) = c
  \/ \E l \in Others : Slot(l).first = c
  \/ Owing /\ job.first = c
  \/ <<"fat", 1, c, 0>> \in Pending
  \/ \E x \in Clusters : <<"fat", 1, x, c>> \in Pending
FedInv == \A c \in Clusters : Used(c) \/ <<"fat", 1, c, EOC>> \in Pending => Fed(c)

\* The order of the writes: a link to a cluster comes last in the table, nothing is
\* claimed once clusters are being freed, and what is cut off is freed later.
Tidy(w, rest) ==
  /\ w[1] = "fat" =>
       /\ w[4] \in Clusters => Ends(w[3]) /\ \A v \in rest : v[1] # "fat"
       /\ w[4] = 0 => \A v \in rest : v[1] = "fat" => v[4] = 0
       /\ w[4] \notin Clusters /\ FatNext(w[3]) \in Clusters
            => <<"fat", 1, FatNext(w[3]), 0>> \in rest
  /\ w[1] = "slot" => w[3].state # "end"
  /\ w[1] = "seed" =>
       \A k \in 1 .. Slots : w[3][k].state = "used" => w[3][k].dir /\ IsDot(w[3][k])
Plan(ws) == \A i \in 1 .. Len(ws) : Tidy(ws[i], From(ws, i + 1))

\* A file has as many clusters as its size takes.
Plain(e) == e.state = "used" /\ ~e.dir /\ ~IsDot(e)
Fits(e) == Plain(e) => Len(Chain(e.first)) = Needed(e.size)
LengthInv == \A l \in Places : l # job.loc => Fits(Slot(l))

\* What a call that is about to return has done.
WroteInv ==
  /\ job.at = "entry" /\ job.used = 0 => job.first = 0
  /\ job.at = "return" =>
       /\ job.ret >= 0 /\ (job.ret = 0 => job.first = 0)
       /\ Ahead = <<>> => Slot(job.loc).size = job.ret /\ ~Slot(job.loc).dir
MadeInv ==
  /\ job.at = "slot" =>
       job.loc = NoPlace /\ job.ret = 0 /\ FindEntry(cwd, JobName) = NoPlace
  /\ job.at = "return" /\ job.ret = -2 => job.loc = NoPlace
  /\ job.at = "return" /\ job.ret # -2 =>
       \/ Ahead # <<>> /\ job.name \in Names /\ Placing(NewDir)
       \/ Ahead = <<>> /\ Finds(cwd, JobName, job.loc) /\ Slot(job.loc) = NewDir
DeletedInv == Ahead = <<>> => job.loc \in Places /\ Slot(job.loc).state # "used"
DoneInv ==
  /\ job.call # "off"
  /\ Idle => job.loc = NoPlace
  /\ job.call \in {"write", "touch"} => WroteInv
  /\ job.call = "mkdir" => MadeInv
  /\ job.call \in {"rmdir", "remove"} => DeletedInv

Whole(rank) == TreeInv(rank) /\ FedInv /\ Plan(Ahead) /\ LengthInv /\ DoneInv
LeakInv == crashes = 0 => \E rank : Whole(rank)

-----------------------------------------------------------------------------
(***************************************************************************)
(* Directories and what they list                                          *)
(***************************************************************************)
\* A directory lists the used entries that no end mark comes before.
Listing(d, l) ==
  \E p \in Positions(Chain(d)) :
    /\ l = Place(Chain(d), p) /\ Slot(l).state = "used"
    /\ \A q \in Positions(Chain(d)) :
         Before(q, p) => Slot(Place(Chain(d), q)).state # "end"

LEMMA HoldsAre ==
  ASSUME NEW d, NEW l
  PROVE  l \in Holds(d) <=> Listing(d, l) /\ ~IsDot(Slot(l))
<1> DEFINE chain == Chain(d)
<1>1. Holds(d) = {m \in {Place(chain, p) : p \in Listed(chain)} : ~IsDot(Slot(m))}
  BY DEF Holds
<1>2. ASSUME l \in Holds(d) PROVE Listing(d, l) /\ ~IsDot(Slot(l))
  <2>1. PICK p \in Listed(chain) : l = Place(chain, p)
    BY <1>1, <1>2
  <2>2. ~IsDot(Slot(l))
    BY <1>1, <1>2
  <2>3. QED
    BY <2>1, <2>2 DEF Listed, Listing
<1>3. ASSUME Listing(d, l), ~IsDot(Slot(l)) PROVE l \in Holds(d)
  <2>1. PICK p \in Positions(chain) :
          /\ l = Place(chain, p) /\ Slot(l).state = "used"
          /\ \A q \in Positions(chain) :
               Before(q, p) => Slot(Place(chain, q)).state # "end"
    BY <1>3 DEF Listing
  <2>2. p \in Listed(chain)
    BY <2>1 DEF Listed
  <2>3. QED
    BY <1>1, <1>3, <2>1, <2>2
<1>4. QED
  BY <1>2, <1>3

\* The same, after a step.
LEMMA HoldsAreNext ==
  (\A d, l : l \in Holds(d) <=> Listing(d, l) /\ ~IsDot(Slot(l)))'
<1>1. \A d, l : l \in Holds(d) <=> Listing(d, l) /\ ~IsDot(Slot(l))
  BY HoldsAre
<1>2. QED
  BY <1>1, PTL

\* What is listed has a place in the directory's chain.
LEMMA HeldPlace ==
  ASSUME NEW d, NEW l \in Holds(d)
  PROVE  /\ l \in Places /\ l[1] \in ToSet(Chain(d))
         /\ Slot(l).state = "used" /\ ~IsDot(Slot(l))
<1>1. Listing(d, l) /\ ~IsDot(Slot(l))
  BY HoldsAre
<1>2. PICK p \in Positions(Chain(d)) : l = Place(Chain(d), p) /\ Slot(l).state = "used"
  BY <1>1 DEF Listing
<1>3. QED
  BY <1>1, <1>2, PositionsAre

\* A chain keeps its clusters when none but the last is written to.
LEMMA ChainPrefix ==
  ASSUME NEW d, \A y \in Clusters : FatNext(y)' = FatNext(y) \/ Ends(y)
  PROVE  /\ Len(Chain(d)) <= Len(Chain(d)')
         /\ \A k \in 1 .. Len(Chain(d)) : Chain(d)'[k] = Chain(d)[k]
<1>0. LastCluster \in Nat
  BY Fat32Assumption
<1>1. PICK m \in 0 .. LastCluster :
        /\ Chain(d) = [k \in 1 .. m |-> Walk(d)[k]]
        /\ \A n \in 0 .. LastCluster :
             n <= m <=> \A k \in 1 .. n : Walk(d)[k] \in Clusters
  BY ChainReach
<1>2. \A k \in 1 .. m : Walk(d)[k] \in Clusters
  <2>1. m <= m
    BY <1>0
  <2>2. QED
    BY <1>1, <2>1
<1>4. \A k \in 2 .. LastCluster : Walk(d)[k] = Follow(Walk(d)[k-1])
  BY WalkFacts
<1>5. \A k \in 2 .. LastCluster : Walk(d)'[k] = Follow(Walk(d)[k-1])'
  BY WalkFactsNext
<1>6. Walk(d)[1] = d /\ Walk(d)'[1] = d
  BY WalkFacts, WalkFactsNext
<1> DEFINE odd == {k \in 1 .. m : Walk(d)'[k] # Walk(d)[k]}
<1>7. odd = {}
  <2>1. SUFFICES ASSUME odd # {} PROVE FALSE
    OBVIOUS
  <2>2. PICK k \in odd : \A j \in odd : k <= j
    <3>1. odd \subseteq Nat
      OBVIOUS
    <3> HIDE DEF odd
    <3>2. QED
      BY <2>1, <3>1, LeastNat
  <2>3. k # 1 /\ k \in 1 .. m
    BY <1>6, <2>2
  <2>4. k \in 2 .. LastCluster /\ k - 1 \in 1 .. m /\ ~(k <= k - 1)
    BY <1>0, <1>1, <2>3
  <2>5. k - 1 \notin odd
    <3> HIDE DEF odd
    <3>1. QED
      BY <2>2, <2>4
  <2>6. Walk(d)'[k-1] = Walk(d)[k-1]
    BY <2>4, <2>5
  <2>7. Walk(d)[k-1] \in Clusters /\ FatNext(Walk(d)[k-1])' = fat'[1][Walk(d)[k-1]]
    BY <1>2, <2>4, <2>6 DEF FatNext
  <2>8. Walk(d)[k] = FatNext(Walk(d)[k-1]) /\ Walk(d)[k] \in Clusters
    BY <1>2, <1>4, <2>3, <2>4, <2>7 DEF Follow
  <2>9. fat'[1][Walk(d)[k-1]] = fat[1][Walk(d)[k-1]]
    <3>1. PICK y : y = Walk(d)[k-1]
      OBVIOUS
    <3>2. y \in Clusters /\ ~Ends(y)
      BY <2>7, <2>8, <3>1 DEF Ends
    <3>3. FatNext(y)' = FatNext(y)
      BY <3>2
    <3>4. QED
      BY <3>1, <3>3 DEF FatNext
  <2>10. Walk(d)'[k] = fat'[1][Walk(d)[k-1]]
    BY <1>5, <2>4, <2>6, <2>7 DEF Follow, FatNext
  <2>11. QED
    BY <2>2, <2>8, <2>9, <2>10 DEF FatNext
<1>8. \A k \in 1 .. m : Walk(d)'[k] = Walk(d)[k]
  BY <1>7
<1> DEFINE later == {i \in 0 .. LastCluster : \A k \in 1 .. i : Walk(d)'[k] \in Clusters}
<1>9. m \in later
  BY <1>0, <1>1, <1>2, <1>8
<1>10. Max(later) \in 0 .. LastCluster /\ Max(later) >= m
  <2>1. later \subseteq 0 .. LastCluster
    OBVIOUS
  <2> HIDE DEF later
  <2>2. QED
    BY <1>0, <1>9, <2>1, MaxIsIn
<1>11. Chain(d)' = [k \in 1 .. Max(later) |-> Walk(d)'[k]]
  BY DEF Chain
<1> HIDE DEF later
<1>12. PICK chain, hop, top, old : /\ chain = Chain(d)' /\ hop = Walk(d)' /\ top = Max(later)
                                   /\ old = Chain(d)
  OBVIOUS
<1>13. m <= top /\ top \in Nat /\ chain = [k \in 1 .. top |-> hop[k]]
  BY <1>0, <1>1, <1>10, <1>11, <1>12
<1>14. Len(chain) = top
  BY <1>13
<1>15. Len(old) = m
  BY <1>0, <1>1, <1>12
<1>16. \A k \in 1 .. m : chain[k] = old[k]
  BY <1>0, <1>1, <1>8, <1>12, <1>13
<1>17. QED
  BY <1>0, <1>12, <1>13, <1>14, <1>15, <1>16

LEMMA ChainLenNext == (\A c : Len(Chain(c)) \in Nat)'
<1>1. \A c : Len(Chain(c)) \in Nat
  BY ChainFacts
<1>2. QED
  BY <1>1, PTL

\* A directory goes on listing an entry as long as its chain only grows and no end mark
\* is set in it.
LEMMA HoldsOn ==
  ASSUME NEW d, NEW l \in Holds(d), Slot(l)' = Slot(l),
         Len(Chain(d)) <= Len(Chain(d)'),
         \A k \in 1 .. Len(Chain(d)) : Chain(d)'[k] = Chain(d)[k],
         \A m \in Places : m[1] \in ToSet(Chain(d)) /\ Slot(m)'.state = "end"
                             => Slot(m).state = "end"
  PROVE  l \in Holds(d)'
<1>1. PICK chain, next : chain = Chain(d) /\ next = Chain(d)'
  OBVIOUS
<1>2. PICK p \in Positions(chain) :
        /\ l = Place(chain, p) /\ Slot(l).state = "used"
        /\ \A q \in Positions(chain) : Before(q, p) => Slot(Place(chain, q)).state # "end"
  BY <1>1, HoldsAre DEF Listing
<1>3. chain \in Seq(Clusters) /\ Len(chain) \in Nat
  BY <1>1, ChainFacts
<1>4. Len(next) \in Nat
  BY <1>1, ChainLenNext
<1>5. p \in Positions(next) /\ Place(next, p) = l
  BY <1>1, <1>2, <1>3, <1>4 DEF Positions, Place
<1>6. ASSUME NEW q \in Positions(next), Before(q, p)
      PROVE  Slot(Place(next, q))'.state # "end"
  <2>1. /\ q[1] \in 1 .. Len(next) /\ p[1] \in 1 .. Len(chain) /\ q[2] \in 1 .. Slots
        /\ q = <<q[1], q[2]>> /\ Slots \in Nat /\ p[2] \in 1 .. Slots
    BY <1>2, Fat32Assumption DEF Positions
  <2>2. q[1] \in 1 .. Len(chain)
    BY <1>3, <1>4, <1>6, <2>1 DEF Before
  <2>3. q \in Positions(chain) /\ Place(next, q) = Place(chain, q)
    BY <1>1, <2>1, <2>2 DEF Positions, Place
  <2>4. PICK m : m = Place(chain, q)
    OBVIOUS
  <2>5. m \in Places /\ m[1] \in ToSet(Chain(d)) /\ Slot(m).state # "end"
    BY <1>1, <1>2, <1>6, <2>3, <2>4, PositionsAre
  <2>6. Slot(m)'.state # "end"
    BY <2>5
  <2>7. QED
    BY <2>3, <2>4, <2>6
<1>7. PICK e : e = Slot(l)
  OBVIOUS
<1>8. Slot(l)' = e /\ e.state = "used" /\ ~IsDot(e)
  BY <1>2, <1>7, HoldsAre
<1>9. \A q \in Positions(Chain(d))' : Before(q, p) => Slot(Place(Chain(d), q))'.state # "end"
  BY <1>1, <1>6 DEF Positions, Place, Slot
<1>10. p \in Positions(Chain(d))' /\ l = Place(Chain(d), p)'
  BY <1>1, <1>5 DEF Positions, Place
<1>11. Listing(d, l)'
  BY <1>8, <1>9, <1>10 DEF Listing
<1>12. ~IsDot(Slot(l))'
  BY <1>8 DEF IsDot
<1>13. QED
  BY <1>11, <1>12, HoldsAreNext

-----------------------------------------------------------------------------
(***************************************************************************)
(* The directories, from one write to the next                             *)
(***************************************************************************)
\* A directory of the tree is the head of a chain.
LEMMA AnchoredHead ==
  ASSUME TypeOK, NEW own, NEW pos, Base(own, pos), NEW d, Anchored(d)
  PROVE  d \in Clusters /\ own[d] = d
<1>1. CASE d = Root
  BY <1>1, ClustersAre DEF Base, HeadsInv, Starts
<1>2. CASE d # Root
  <2>1. PICK m \in Named : Slot(m).first = d
    BY <1>2 DEF Anchored, Others
  <2>2. QED
    BY <2>1, TableType DEF Base, HeadsInv, Starts
<1>3. QED
  BY <1>1, <1>2

\* A cluster of nobody but the call's target is on no chain of the root or of another
\* entry.
LEMMA AsideAway ==
  ASSUME TypeOK, NEW own, NEW pos, Base(own, pos), NEW c, Aside(own, c), NEW d \in Clusters,
         d = Root \/ \E m \in Others : Slot(m).first = d
  PROVE  c \notin ToSet(Chain(d))
<1>1. own[d] = d
  <2>1. CASE d = Root
    BY <2>1 DEF Base, HeadsInv, Starts
  <2>2. CASE \E m \in Others : Slot(m).first = d
    <3>1. PICK m \in Named : Slot(m).first = d
      BY <2>2 DEF Others
    <3>2. QED
      BY <3>1 DEF Base, HeadsInv, Starts
  <2>3. QED
    BY <2>1, <2>2
<1>2. c \in ToSet(Chain(d)) => own[c] = d
  BY <1>1, ChainOwner
<1>3. QED
  BY <1>2 DEF Aside, Others

\* What a write of a call does to the table and the slots of the other files and
\* directories: it leaves them alone, or makes the chain of the current one longer.
LEMMA LandsOn ==
  ASSUME TypeOK, NEW own, NEW pos, Base(own, pos), NEW w \in WriteType, Does(w),
         Lands(own, w), NEW d \in Clusters,
         d = Root \/ \E m \in Others : Slot(m).first = d
  PROVE  \/ Still(d)
         \/ w[1] = "slot" /\ Chain(d)' = Chain(d)
         \/ Extends(w) /\ SameSlots /\ \A y \in Clusters : FatNext(y)' = FatNext(y) \/ Ends(y)
<1>1. w[1] \in {"fat", "slot", "zero", "seed", "data"}
  BY WriteKinds
<1>2. CASE w[1] = "slot"
  <2>1. \A x \in ToSet(Chain(d)) : x \in Clusters
    BY ChainFacts, ToSetIs
  <2>2. QED
    BY <1>2, <2>1, ChainStays DEF Does, SameTable
<1>3. CASE w[1] # "slot" /\ Extends(w) /\ Ends(w[3])
  <2>1. w[1] = "fat" /\ w[4] # 0
    BY <1>3, ClustersAre DEF Extends
  <2>2. QED
    BY <1>3, <2>1 DEF Does, Tables
<1>4. CASE w[1] # "slot" /\ Aside(own, Hit(w))
  <2>1. PICK c : c = Hit(w)
    OBVIOUS
  <2>2. c \notin ToSet(Chain(d))
    BY <1>4, <2>1, AsideAway
  <2>3. Elsewhere(c) /\ \A x \in Clusters : x # c => FatNext(x)' = FatNext(x)
    <3>1. CASE w[1] = "fat"
      BY <2>1, <3>1 DEF Does, Tables, Hit, Blanks, SameSlots, Elsewhere
    <3>2. CASE w[1] \in {"zero", "data", "seed"}
      BY <2>1, <3>2 DEF Does, SameTable, Hit, Blanks
    <3>3. QED
      BY <1>1, <1>4, <3>1, <3>2
  <2>4. QED
    BY <2>2, <2>3, StillAway
<1>5. QED
  BY <1>2, <1>3, <1>4 DEF Lands

\* A directory of the tree goes on listing its entries, but for the one worked on.
LEMMA DirStays ==
  ASSUME TypeOK, NEW own, NEW pos, Base(own, pos), NEW w \in WriteType, Does(w),
         Lands(own, w), w[1] = "slot" => w[3].state # "end",
         NEW d, Anchored(d), NEW l \in Holds(d), l # job.loc
  PROVE  l \in Holds(d)' /\ Slot(l)' = Slot(l)
<1>1. d \in Clusters /\ (d = Root \/ \E m \in Others : Slot(m).first = d)
  BY AnchoredHead DEF Anchored
<1>2. l \in Places /\ l[1] \in ToSet(Chain(d))
  BY HeldPlace
<1>3. PICK chain : chain = Chain(d)
  OBVIOUS
<1>4. Len(chain) \in Nat
  BY <1>3, ChainFacts
<1>5. CASE Still(d)
  <2>1. Slot(l)' = Slot(l) /\ Chain(d)' = chain
    BY <1>2, <1>3, <1>5 DEF Still
  <2>2. \A m \in Places : m[1] \in ToSet(Chain(d)) => Slot(m)' = Slot(m)
    BY <1>5 DEF Still
  <2>3. QED
    BY <1>3, <1>4, <2>1, <2>2, HoldsOn
<1>6. CASE w[1] = "slot" /\ Chain(d)' = Chain(d)
  <2>1. Slot(l)' = Slot(l)
    BY <1>2, <1>6 DEF Does, Lands
  <2>2. \A m \in Places : Slot(m)'.state = "end" => Slot(m).state = "end"
    BY <1>6 DEF Does
  <2>3. QED
    BY <1>3, <1>4, <1>6, <2>1, <2>2, HoldsOn
<1>7. CASE SameSlots /\ \A y \in Clusters : FatNext(y)' = FatNext(y) \/ Ends(y)
  <2>1. \A m \in Places : Slot(m)' = Slot(m)
    BY <1>7 DEF SameSlots
  <2>2. QED
    BY <1>2, <1>7, <2>1, ChainPrefix, HoldsOn
<1>8. QED
  BY <1>1, <1>5, <1>6, <1>7, LandsOn

\* The chain of another file stays as it is.
LEMMA FileStays ==
  ASSUME TypeOK, NEW own, NEW pos, Base(own, pos), NEW w \in WriteType, Does(w),
         Lands(own, w), NEW l \in Others, ~Slot(l).dir,
         NEW f, f = Slot(l).first
  PROVE  Chain(f)' = Chain(f)
<1>1. f = Slot(l).first
  OBVIOUS
<1>2. f \in Clusters /\ l \in Named
  BY TableType DEF Others
<1>3. own[f] = f /\ own[cwd] = cwd /\ f # cwd /\ cwd \in Clusters
  BY <1>1, <1>2, TableType DEF Base, HeadsInv, CwdInv, Starts
<1>4. CASE Extends(w) /\ w[1] # "slot"
  <2>1. w[3] \notin ToSet(Chain(f)) /\ w[1] = "fat"
    BY <1>2, <1>3, <1>4, ChainOwner DEF Extends
  <2>2. \A x \in ToSet(Chain(f)) : x \in Clusters
    BY ChainFacts, ToSetIs
  <2>3. Chain(f)' = Chain(f)
    BY <2>1, <2>2, ChainStays DEF Does, Tables
  <2>4. QED
    BY <1>1, <2>3
<1>5. CASE ~Extends(w) \/ w[1] = "slot"
  <2>1. Still(f) \/ Chain(f)' = Chain(f)
    <3>1. \E m \in Others : Slot(m).first = f
      BY <1>1
    <3>2. QED
      BY <1>2, <1>5, <3>1, LandsOn DEF Extends
  <2>2. Chain(f)' = Chain(f)
    BY <2>1 DEF Still
  <2>3. QED
    BY <1>1, <2>2
<1>6. QED
  BY <1>4, <1>5

\* What names a cluster after a write did so before, but for the entry worked on.
LEMMA OthersBefore ==
  ASSUME NEW w \in WriteType, Does(w), w[1] = "slot" => w[2] = job.loc,
         NEW rest, Tidy(w, rest), job' = job, NEW l \in Others'
  PROVE  l \in Others /\ Slot(l)' = Slot(l)
<1>1. l \in Named' /\ l # job.loc /\ l \in Places
  BY DEF Others, Named, Places
<1>2. w[1] \in {"fat", "slot", "zero", "seed", "data"}
  BY WriteKinds
<1>3. ASSUME Slot(l)' = Slot(l) PROVE l \in Others
  <2>1. PICK e : e = Slot(l)
    OBVIOUS
  <2>2. Slot(l)' = e
    BY <1>3, <2>1
  <2>3. e.state = "used" /\ ~IsDot(e) /\ e.first # 0
    BY <1>1, <2>2 DEF Named, IsDot
  <2>4. QED
    BY <1>1, <2>1, <2>3 DEF Named, Others
<1>4. CASE Fewer
  BY <1>1, <1>4 DEF Fewer, Others
<1>5. CASE w[1] = "slot"
  BY <1>1, <1>3, <1>5 DEF Does
<1>6. CASE w[1] = "seed"
  <2>1. CASE l[1] # w[2]
    BY <1>1, <1>3, <1>6, <2>1 DEF Does, Elsewhere
  <2>2. CASE l[1] = w[2]
    <3>1. l[2] \in 1 .. Slots
      BY <1>1 DEF Places
    <3>2. PICK e : e = w[3][l[2]]
      OBVIOUS
    <3>3. Slot(l)' = e /\ (e.state = "used" => IsDot(e))
      BY <1>1, <1>6, <2>2, <3>1, <3>2 DEF Does, Tidy
    <3>4. e.state = "used" /\ ~IsDot(e)
      BY <1>1, <3>3 DEF Named, IsDot
    <3>5. QED
      BY <3>3, <3>4
  <2>3. QED
    BY <2>1, <2>2
<1>7. CASE w[1] \in {"fat", "zero", "data"}
  <2>1. CASE SameSlots
    BY <1>4, <2>1, SameSlotsFewer
  <2>2. CASE \E c : Blanks(c)
    BY <1>4, <2>2, BlanksFewer
  <2>3. QED
    BY <1>7, <2>1, <2>2 DEF Does
<1>8. QED
  BY <1>2, <1>5, <1>6, <1>7

\* What names a cluster and can be reached goes on doing so.
LEMMA OthersAfter ==
  ASSUME TypeOK, NEW own, NEW pos, Base(own, pos), NEW w \in WriteType, Does(w),
         Lands(own, w), NEW rest, Tidy(w, rest), job' = job, NEW rank, TreeInv(rank),
         NEW m \in Others
  PROVE  m \in Others' /\ Slot(m)' = Slot(m)
<1>1. w[1] = "slot" => w[3].state # "end"
  BY DEF Tidy
<1>2. PICK d \in Clusters : Anchored(d) /\ m \in Holds(d)
  BY DEF TreeInv, Shown
<1>3. m # job.loc /\ m \in Named
  BY DEF Others
<1>4. Slot(m)' = Slot(m)
  BY <1>1, <1>2, <1>3, DirStays
<1>5. PICK e : e = Slot(m)
  OBVIOUS
<1>6. Slot(m)' = e /\ e.state = "used" /\ ~IsDot(e) /\ e.first # 0
  BY <1>3, <1>4, <1>5 DEF Named
<1>7. m \in Named'
  BY <1>3, <1>6 DEF Named, Places, IsDot
<1>8. QED
  BY <1>3, <1>4, <1>7 DEF Others

\* The tree is as it was, but for the entry worked on.
LEMMA TreeStep ==
  ASSUME TypeOK, NEW own, NEW pos, Base(own, pos), NEW w \in WriteType, Does(w),
         Lands(own, w), NEW rest, Tidy(w, rest), job' = job, cwd' = cwd,
         NEW rank, TreeInv(rank)
  PROVE  TreeInv(rank)'
<1>1. \A l \in Others' : l \in Others /\ Slot(l)' = Slot(l)
  BY OthersBefore DEF Lands
<1>2. w[1] = "slot" => w[3].state # "end"
  BY DEF Tidy
<1>3. ASSUME NEW d, Anchored(d), NEW l \in Holds(d), l # job.loc
      PROVE  l \in Holds(d)' /\ Slot(l)' = Slot(l)
  BY <1>2, <1>3, DirStays
<1>4. ASSUME NEW m \in Others PROVE m \in Others' /\ Slot(m)' = Slot(m)
  BY <1>4, OthersAfter
<1>5. ASSUME NEW d, Anchored(d) PROVE Anchored(d)'
  <2>1. CASE d = Root
    BY <2>1 DEF Anchored
  <2>2. CASE \E m \in Others : Slot(m).dir /\ Slot(m).first = d
    <3>1. PICK m \in Others : Slot(m).dir /\ Slot(m).first = d
      BY <2>2
    <3>2. m \in Others' /\ Slot(m)' = Slot(m)
      BY <1>4
    <3>3. QED
      BY <3>1, <3>2 DEF Anchored
  <2>3. QED
    BY <1>5, <2>1, <2>2 DEF Anchored
<1>6. ASSUME NEW l \in Others' PROVE Shown(rank, l)'
  <2>1. l \in Others /\ Slot(l)' = Slot(l)
    BY <1>1
  <2>2. PICK d \in Clusters : /\ Anchored(d) /\ l \in Holds(d)
                              /\ Slot(l).dir => rank[d] < rank[Slot(l).first]
    BY <2>1 DEF TreeInv, Shown
  <2>3. l # job.loc
    BY <2>1 DEF Others
  <2>4. Anchored(d)' /\ l \in Holds(d)'
    BY <1>3, <1>5, <2>2, <2>3
  <2>5. Slot(l)'.dir => rank[d] < rank[Slot(l)'.first]
    BY <2>1, <2>2
  <2>6. QED
    BY <2>2, <2>4, <2>5 DEF Shown
<1>7. Anchored(cwd)'
  <2>1. PICK d : d = cwd
    OBVIOUS
  <2>2. Anchored(d)'
    BY <1>5, <2>1 DEF TreeInv
  <2>3. cwd' = d
    BY <2>1
  <2>4. QED
    BY <2>2, <2>3 DEF Anchored
<1>8. rank \in [Clusters -> Nat]
  BY DEF TreeInv
<1>9. QED
  BY <1>6, <1>7, <1>8 DEF TreeInv

-----------------------------------------------------------------------------
(***************************************************************************)
(* The writes to come                                                      *)
(***************************************************************************)
LEMMA FromTail ==
  ASSUME NEW S, NEW ws \in Seq(S), ws # <<>>
  PROVE  /\ From(ws, 1) = {Head(ws)} \cup From(ws, 2)
         /\ From(Tail(ws), 1) = From(ws, 2)
         /\ \A i \in 1 .. Len(Tail(ws)) :
              /\ Tail(ws)[i] = ws[i + 1] /\ i + 1 \in 1 .. Len(ws)
              /\ From(Tail(ws), i + 1) = From(ws, i + 2)
<1>1. /\ Len(ws) \in Nat /\ Len(ws) >= 1 /\ Len(Tail(ws)) = Len(ws) - 1 /\ Head(ws) = ws[1]
      /\ \A j \in 1 .. Len(ws) - 1 : Tail(ws)[j] = ws[j + 1]
  OBVIOUS
<1>2. ASSUME NEW i \in Nat, i >= 1 PROVE From(Tail(ws), i) = From(ws, i + 1)
  <2>1. ASSUME NEW v \in From(Tail(ws), i) PROVE v \in From(ws, i + 1)
    <3>1. PICK j \in i .. Len(Tail(ws)) : v = Tail(ws)[j]
      BY <2>1 DEF From
    <3>2. j \in 1 .. Len(ws) - 1 /\ j + 1 \in i + 1 .. Len(ws)
      BY <1>1, <1>2, <3>1
    <3>3. v = ws[j + 1]
      BY <1>1, <3>1, <3>2
    <3>4. QED
      BY <3>2, <3>3 DEF From
  <2>2. ASSUME NEW v \in From(ws, i + 1) PROVE v \in From(Tail(ws), i)
    <3>1. PICK j \in i + 1 .. Len(ws) : v = ws[j]
      BY <2>2 DEF From
    <3>2. j - 1 \in 1 .. Len(ws) - 1 /\ j - 1 \in i .. Len(Tail(ws)) /\ (j - 1) + 1 = j
      BY <1>1, <1>2, <3>1
    <3>3. v = Tail(ws)[j - 1]
      BY <1>1, <3>1, <3>2
    <3>4. QED
      BY <3>2, <3>3 DEF From
  <2>3. QED
    BY <2>1, <2>2
<1>3. From(ws, 1) = {Head(ws)} \cup From(ws, 2)
  <2>1. 1 .. Len(ws) = {1} \cup 2 .. Len(ws)
    BY <1>1
  <2>2. QED
    BY <1>1, <2>1 DEF From
<1>4. \A i \in 1 .. Len(Tail(ws)) : From(Tail(ws), i + 1) = From(ws, i + 2)
  <2>1. TAKE i \in 1 .. Len(Tail(ws))
  <2>2. i + 1 \in Nat /\ i + 1 >= 1 /\ (i + 1) + 1 = i + 2
    BY <1>1
  <2>3. QED
    BY <1>2, <2>2
<1>5. From(Tail(ws), 1) = From(ws, 2)
  BY <1>2
<1>6. \A i \in 1 .. Len(Tail(ws)) : Tail(ws)[i] = ws[i + 1] /\ i + 1 \in 1 .. Len(ws)
  BY <1>1
<1>7. QED
  BY <1>3, <1>4, <1>5, <1>6

\* A write to the table is what its parts say.
LEMMA FatWrite ==
  ASSUME NEW w \in WriteType, w[1] = "fat"
  PROVE  w = <<"fat", w[2], w[3], w[4]>> /\ w[3] \in Clusters /\ w[4] \in Links
BY DEF WriteType

\* The next write, and those that come after it.
LEMMA NextWrite ==
  ASSUME TypeOK, Takes, Plan(Ahead)
  PROVE  /\ Ahead \in Seq(WriteType) /\ Head(Ahead) \in WriteType /\ Does(Head(Ahead))
         /\ Pending = {Head(Ahead)} \cup From(Ahead, 2)
         /\ Pending' = From(Ahead, 2)
         /\ Tidy(Head(Ahead), From(Ahead, 2))
<1>1. Ahead \in Seq(WriteType) /\ Ahead # <<>> /\ Ahead' = Tail(Ahead)
  BY AheadWrites DEF Takes
<1>2. PICK ws : ws = Ahead
  OBVIOUS
<1>3. ws \in Seq(WriteType) /\ ws # <<>> /\ Head(ws) = ws[1] /\ 1 \in 1 .. Len(ws)
  BY <1>1, <1>2
<1>4. Pending' = From(Tail(ws), 1)
  BY <1>1, <1>2 DEF Pending, From
<1>5. Tidy(ws[1], From(ws, 1 + 1))
  BY <1>2, <1>3 DEF Plan
<1>6. Tidy(Head(ws), From(ws, 2))
  BY <1>3, <1>5
<1>7. Head(ws) \in WriteType
  BY <1>3
<1>8. QED
  BY <1>1, <1>2, <1>3, <1>4, <1>6, <1>7, FromTail DEF Pending, Takes

\* A cluster in use, or about to be, goes on belonging to what it did, or a write to
\* come sees to it.
LEMMA FedStep ==
  ASSUME TypeOK, NEW own, NEW pos, Base(own, pos), Takes, Plan(Ahead), job' = job,
         Lands(own, Head(Ahead)), NEW rank, TreeInv(rank), FedInv
  PROVE  FedInv'
<1>1. PICK w, rest : w = Head(Ahead) /\ rest = From(Ahead, 2)
  OBVIOUS
<1>2. /\ w \in WriteType /\ Does(w) /\ Pending = {w} \cup rest /\ Pending' = rest
      /\ Tidy(w, rest) /\ Lands(own, w)
  BY <1>1, NextWrite
<1>3. SUFFICES ASSUME NEW c \in Clusters, Used(c)' \/ <<"fat", 1, c, EOC>> \in Pending'
               PROVE  Fed(c)'
  BY DEF FedInv
<1>4. w[1] = "fat" => w = <<"fat", 1, w[3], w[4]>> /\ w[3] \in Clusters /\ w[4] \in Links
  BY <1>2, FatWrite DEF Does
<1>5. \A x \in Clusters : FatNext(x)' # FatNext(x) =>
        w[1] = "fat" /\ w[3] = x /\ FatNext(x)' = w[4]
  BY <1>2 DEF Does, Tables, SameTable
<1>6. Used(c) \/ <<"fat", 1, c, EOC>> \in Pending
  <2>1. CASE <<"fat", 1, c, EOC>> \in Pending'
    BY <1>2, <2>1
  <2>2. CASE Used(c)' /\ FatNext(c)' = FatNext(c)
    BY <2>2 DEF Used
  <2>3. CASE Used(c)' /\ FatNext(c)' # FatNext(c)
    <3>1. w = <<"fat", 1, c, w[4]>> /\ w[1] = "fat" /\ w[3] = c /\ w[4] \in Links /\ w[4] # 0
      BY <1>4, <1>5, <2>3 DEF Used
    <3>2. CASE w[4] = EOC
      BY <1>2, <3>1, <3>2
    <3>3. CASE w[4] \in Clusters
      BY <1>2, <3>1, <3>3 DEF Tidy, Ends, Used
    <3>4. QED
      BY <3>1, <3>2, <3>3 DEF Links
  <2>4. QED
    BY <1>3, <2>1, <2>2, <2>3
<1>7. Fed(c)
  BY <1>6 DEF FedInv
<1>8. CASE c = Root
  BY <1>8 DEF Fed
<1>9. CASE \E b \in Clusters : FatNext(b) = c
  <2>1. PICK b \in Clusters : FatNext(b) = c
    BY <1>9
  <2>2. CASE FatNext(b)' = FatNext(b)
    BY <2>1, <2>2 DEF Fed
  <2>3. CASE FatNext(b)' # FatNext(b)
    <3>1. w[1] = "fat" /\ w[3] = b
      BY <1>5, <2>3
    <3>2. w[4] \notin Clusters
      BY <1>2, <2>1, <3>1 DEF Tidy, Ends
    <3>3. <<"fat", 1, c, 0>> \in rest
      BY <1>2, <2>1, <3>1, <3>2 DEF Tidy
    <3>4. QED
      BY <1>2, <3>3 DEF Fed
  <2>4. QED
    BY <2>2, <2>3
<1>10. CASE \E l \in Others : Slot(l).first = c
  <2>1. PICK l \in Others : Slot(l).first = c
    BY <1>10
  <2>2. l \in Others' /\ Slot(l)' = Slot(l)
    BY <1>2, OthersAfter
  <2>3. QED
    BY <2>1, <2>2 DEF Fed
<1>11. CASE Owing /\ job.first = c
  BY <1>11 DEF Fed, Owing, Owes
<1>12. CASE <<"fat", 1, c, 0>> \in Pending
  <2>1. CASE <<"fat", 1, c, 0>> \in rest
    BY <1>2, <2>1 DEF Fed
  <2>2. CASE w = <<"fat", 1, c, 0>>
    <3>1. ~Used(c)'
      BY <1>2, <2>2 DEF Does, Tables, Used
    <3>2. <<"fat", 1, c, EOC>> \in rest
      BY <1>2, <1>3, <3>1
    <3>3. \A v \in rest : v[1] = "fat" => v[4] = 0
      BY <1>2, <2>2 DEF Tidy
    <3>4. EOC = 0
      BY <3>2, <3>3
    <3>5. QED
      BY <3>4, ClustersAre
  <2>3. QED
    BY <1>2, <1>12, <2>1, <2>2
<1>13. CASE \E x \in Clusters : <<"fat", 1, x, c>> \in Pending
  <2>1. PICK x \in Clusters : <<"fat", 1, x, c>> \in Pending
    BY <1>13
  <2>2. CASE <<"fat", 1, x, c>> \in rest
    BY <1>2, <2>2 DEF Fed
  <2>3. CASE w = <<"fat", 1, x, c>>
    <3>1. FatNext(x)' = c
      BY <1>2, <2>3 DEF Does, Tables
    <3>2. QED
      BY <3>1 DEF Fed
  <2>4. QED
    BY <1>2, <2>1, <2>2, <2>3
<1>14. QED
  BY <1>7, <1>8, <1>9, <1>10, <1>11, <1>12, <1>13 DEF Fed

\* The writes to come stay in order.
LEMMA PlanStep ==
  ASSUME TypeOK, Takes, Plan(Ahead) PROVE Plan(Ahead)'
<1>1. PICK ws, w, rest : ws = Ahead /\ w = Head(ws) /\ rest = From(ws, 2)
  OBVIOUS
<1>2. /\ ws \in Seq(WriteType) /\ ws # <<>> /\ Ahead' = Tail(ws) /\ Plan(ws)
      /\ w \in WriteType /\ Does(w) /\ Tidy(w, rest)
  BY <1>1, NextWrite DEF Takes
<1>3. w[1] = "fat" => w[3] \in Clusters /\ w[4] \in Links
  BY <1>2, FatWrite
<1>4. \A x : x \in Clusters /\ FatNext(x)' # FatNext(x) =>
        w[1] = "fat" /\ w[3] = x /\ FatNext(x)' = w[4]
  BY <1>2 DEF Does, Tables, SameTable
<1>5. ASSUME NEW v \in rest, v \in WriteType, NEW later, Tidy(v, later) PROVE Tidy(v, later)'
  <2>1. v[1] = "fat" => v[3] \in Clusters
    BY <1>5, FatWrite
  <2>2. ASSUME v[1] = "fat", v[4] \in Clusters PROVE Ends(v[3])'
    <3>1. Ends(v[3])
      BY <1>5, <2>2 DEF Tidy
    <3>2. CASE FatNext(v[3])' = FatNext(v[3])
      BY <3>1, <3>2 DEF Ends
    <3>3. CASE FatNext(v[3])' # FatNext(v[3])
      <4>1. w[1] = "fat" /\ FatNext(v[3])' = w[4]
        BY <1>4, <2>1, <2>2, <3>3
      <4>2. w[4] \notin Clusters
        BY <1>2, <1>5, <2>2, <4>1 DEF Tidy
      <4>3. w[4] # 0
        BY <1>2, <1>5, <2>2, <4>1, ClustersAre DEF Tidy
      <4>4. QED
        BY <4>1, <4>2, <4>3 DEF Ends
    <3>4. QED
      BY <3>2, <3>3
  <2>3. ASSUME v[1] = "fat", v[4] \notin Clusters, FatNext(v[3])' \in Clusters
        PROVE  <<"fat", 1, FatNext(v[3])', 0>> \in later
    <3>1. CASE FatNext(v[3])' = FatNext(v[3])
      BY <1>5, <2>3, <3>1 DEF Tidy
    <3>2. CASE FatNext(v[3])' # FatNext(v[3])
      <4>1. w[1] = "fat" /\ w[4] \in Clusters
        BY <1>4, <2>1, <2>3, <3>2
      <4>2. QED
        BY <1>2, <1>5, <2>3, <4>1 DEF Tidy
    <3>3. QED
      BY <3>1, <3>2
  <2>4. QED
    BY <1>5, <2>2, <2>3 DEF Tidy, IsDot
<1>6. ASSUME NEW i \in 1 .. Len(Ahead') PROVE Tidy(Ahead[i], From(Ahead, i + 1))'
  <2>1. PICK v, later : v = Ahead'[i] /\ later = From(Ahead, i + 1)'
    OBVIOUS
  <2>2. v = ws[i + 1] /\ i + 1 \in 1 .. Len(ws) /\ later = From(ws, i + 2)
    <3>1. i \in 1 .. Len(Tail(ws)) /\ v = Tail(ws)[i] /\ later = From(Tail(ws), i + 1)
      BY <1>2, <1>6, <2>1 DEF From
    <3>2. QED
      BY <1>2, <3>1, FromTail
  <2>3. Tidy(ws[i + 1], From(ws, (i + 1) + 1))
    BY <1>2, <2>2 DEF Plan
  <2>4. (i + 1) + 1 = i + 2 /\ i + 1 \in 2 .. Len(ws)
    BY <1>2, <2>2
  <2>5. Tidy(v, later) /\ v \in rest /\ v \in WriteType
    BY <1>1, <1>2, <2>2, <2>3, <2>4 DEF From
  <2>6. Tidy(v, later)'
    BY <1>5, <2>5
  <2>7. QED
    BY <2>1, <2>6 DEF Tidy, From, IsDot, Ends, FatNext
<1>7. QED
  BY <1>6 DEF Plan

-----------------------------------------------------------------------------
(***************************************************************************)
(* The lengths of the files, from one write to the next                    *)
(***************************************************************************)
\* No entry of a file comes about but by a write to it.
LEMMA PlainStays ==
  ASSUME TypeOK, NEW w \in WriteType, Put(w), NEW rest, Tidy(w, rest), NEW l \in Places,
         w[1] = "slot" => w[2] # l, Plain(Slot(l))'
  PROVE  Slot(l)' = Slot(l)
<1>0. /\ dirs \in [Clusters -> [1 .. Slots -> EntryType]]
      /\ l = <<l[1], l[2]>> /\ l[1] \in Clusters /\ l[2] \in 1 .. Slots
  BY DEF TypeOK, Places
<1>1. \/ dirs' = dirs
      \/ w[1] = "slot" /\ dirs' = [dirs EXCEPT ![w[2][1]][w[2][2]] = w[3]]
      \/ w[1] = "seed" /\ dirs' = [dirs EXCEPT ![w[2]] = w[3]]
      \/ \E c : dirs' = [dirs EXCEPT ![c] = EmptyDir] \/ dirs' = [dirs EXCEPT ![c] = StaleDir]
  <2>1. CASE w[1] = "fat"
    BY <2>1 DEF Put
  <2>2. CASE w[1] = "slot"
    BY <2>2 DEF Put, Frees
  <2>3. CASE w[1] = "seed"
    BY <2>3 DEF Put, Frees
  <2>4. CASE w[1] = "zero"
    BY <2>4 DEF Put, Frees
  <2>5. CASE w[1] = "data"
    BY <2>5 DEF Put, Frees
  <2>6. QED
    BY <2>1, <2>2, <2>3, <2>4, <2>5, WriteKinds
<1>2. ASSUME Slot(l)'.state = "used", Slot(l)'.dir PROVE FALSE
  BY <1>2 DEF Plain
<1>3. Slot(l)'.state = "used"
  BY DEF Plain
<1>4. CASE w[1] = "slot" /\ dirs' = [dirs EXCEPT ![w[2][1]][w[2][2]] = w[3]]
  <2>1. w[2] \in Places /\ w[2] # l
    BY <1>4 DEF WriteType
  <2>2. w[2] = <<w[2][1], w[2][2]>>
    BY <2>1 DEF Places
  <2>3. w[2][1] # l[1] \/ w[2][2] # l[2]
    BY <1>0, <2>1, <2>2
  <2>4. QED
    BY <1>0, <1>4, <2>3 DEF Slot
<1>5. ASSUME NEW c, NEW s, dirs' = [dirs EXCEPT ![c] = s], s[l[2]].state = "used" => s[l[2]].dir
      PROVE  Slot(l)' = Slot(l)
  <2>1. CASE c = l[1]
    BY <1>0, <1>2, <1>3, <1>5, <2>1 DEF Slot
  <2>2. CASE c # l[1]
    BY <1>0, <1>5, <2>2 DEF Slot
  <2>3. QED
    BY <2>1, <2>2
<1>6. CASE w[1] = "seed" /\ dirs' = [dirs EXCEPT ![w[2]] = w[3]]
  BY <1>0, <1>5, <1>6 DEF Tidy
<1>7. StaleDir[l[2]].dir /\ EmptyDir[l[2]].state # "used"
  BY <1>0 DEF StaleDir, EmptyDir, Entry, EndMark
<1>8. CASE \E c : dirs' = [dirs EXCEPT ![c] = EmptyDir] \/ dirs' = [dirs EXCEPT ![c] = StaleDir]
  BY <1>5, <1>7, <1>8
<1>9. QED
  BY <1>1, <1>4, <1>6, <1>8 DEF Slot

LEMMA ChainOfNoneNext == (\A c : c \notin Clusters => Chain(c) = <<>>)'
<1>1. \A c : c \notin Clusters => Chain(c) = <<>>
  BY ChainOfNone
<1>2. QED
  BY <1>1, PTL

\* The files keep their lengths, but for the one that is worked on.
LEMMA LengthStep ==
  ASSUME TypeOK, NEW own, NEW pos, Base(own, pos), NEW w \in WriteType, Does(w), Put(w),
         Lands(own, w), NEW rest, Tidy(w, rest), job' = job, LengthInv
  PROVE  LengthInv'
<1>1. SUFFICES ASSUME NEW l \in Places, l # job.loc, Plain(Slot(l))'
               PROVE  (Len(Chain(Slot(l).first)) = Needed(Slot(l).size))'
  BY DEF LengthInv, Fits, Places
<1>2. Slot(l)' = Slot(l)
  BY <1>1, PlainStays DEF Lands
<1>3. PICK e, f : e = Slot(l) /\ f = e.first
  OBVIOUS
<1>4. Slot(l)' = e /\ Plain(e)
  BY <1>1, <1>2, <1>3 DEF Plain, IsDot
<1>5. Len(Chain(f)) = Needed(e.size)
  BY <1>1, <1>3, <1>4 DEF LengthInv, Fits
<1>6. Chain(f)' = Chain(f)
  <2>1. CASE f \notin Clusters
    <3>1. Chain(f) = <<>> /\ Chain(f)' = <<>>
      BY <2>1, ChainOfNone, ChainOfNoneNext DEF Clusters
    <3>2. QED
      BY <3>1
  <2>2. CASE f \in Clusters
    <3>1. f # 0
      BY <2>2, ClustersAre
    <3>2. l \in Others /\ ~Slot(l).dir
      BY <1>1, <1>3, <1>4, <3>1 DEF Others, Named, Plain
    <3>3. QED
      BY <1>3, <3>2, FileStays
  <2>3. QED
    BY <2>1, <2>2
<1>7. Len(Chain(f)') = Needed(e.size)
  BY <1>5, <1>6
<1>8. QED
  BY <1>3, <1>4, <1>7 DEF Needed

-----------------------------------------------------------------------------
(***************************************************************************)
(* What a call has done, from one write to the next                        *)
(***************************************************************************)
LEMMA WroteStep ==
  ASSUME TypeOK, NEW own, NEW pos, WriteInv(own, pos), Takes, job' = job, WroteInv
  PROVE  WroteInv'
<1>1. ASSUME job.at = "return", Ahead' = <<>>
      PROVE  Slot(job.loc)'.size = job.ret /\ ~Slot(job.loc)'.dir
  <2>1. Ahead # <<>> /\ OldEntry(own) /\ Ahead = SetSlot(job.loc, Finished)
    BY <1>1 DEF WriteInv, Takes
  <2>2. PICK loc, e : loc = job.loc /\ e = Finished
    OBVIOUS
  <2>3. loc \in Places /\ Slot(loc)' = e
    BY <2>1, <2>2, SlotStep
  <2>4. Slot(loc) \in EntryType /\ ~Slot(loc).dir
    BY <2>1, <2>2, SlotType DEF OldEntry
  <2>5. e = [Slot(loc) EXCEPT !.first = job.first, !.size = job.ret]
    BY <2>2 DEF Finished
  <2>6. PICK old : old = Slot(loc)
    OBVIOUS
  <2>7. e.size = job.ret /\ e.dir = old.dir
    BY <2>4, <2>5, <2>6 DEF EntryType
  <2>8. QED
    BY <2>2, <2>3, <2>4, <2>6, <2>7
<1>2. QED
  BY <1>1 DEF WroteInv

LEMMA MadeStep ==
  ASSUME TypeOK, NEW own, NEW pos, Base(own, pos), MkdirInv(own, pos), DOMAIN data = Clusters,
         TakesData, job' = job, cwd' = cwd, MadeInv
  PROVE  MadeInv'
<1>0. Ahead # <<>> /\ Does(Head(Ahead)) /\ Head(Ahead) \in WriteType
  BY DEF TakesData, Takes
<1>1. ASSUME job.at = "slot"
      PROVE  job.loc = NoPlace /\ job.ret = 0 /\ (FindEntry(cwd, JobName) = NoPlace)'
  <2>1. PICK c, d, name : c = job.first /\ d = cwd /\ name = JobName
    OBVIOUS
  <2>2. PICK rest : rest = << <<"seed", job.first, Seed(job.first)>> >>
    OBVIOUS
  <2>3. Nobodys(own, pos, c) /\ Grows(c, rest)
    BY <1>0, <1>1, <2>1, <2>2 DEF MkdirInv
  <2>4. rest \in Seq({<<"seed", job.first, Seed(job.first)>>}) /\ rest[1][1] = "seed"
        /\ rest[1][2] = c /\ Head(rest) = rest[1]
    BY <2>1, <2>2
  <2>5. \/ Ahead = rest
        \/ Head(Ahead) = <<"fat", 1, c, EOC>>
        \/ Head(Ahead) = <<"zero", c>>
    BY <2>3, <2>4, GrowsHead
  <2>6. Head(Ahead)[1] # "slot" /\ Hit(Head(Ahead)) = c
    BY <2>4, <2>5 DEF Hit
  <2>7. own[c] = c /\ c # cwd
    BY <2>3 DEF Nobodys, Starts
  <2>8. Still(cwd)
    BY <1>0, <2>6, <2>7, AwayStill
  <2>9. Still(d)
    BY <2>1, <2>8
  <2>10. FindEntry(d, name)' = FindEntry(d, name)
    BY <2>9, FindStays
  <2>11. cwd' = d /\ JobName' = name
    BY <2>1 DEF JobName
  <2>12. FindEntry(d, name) = NoPlace /\ job.loc = NoPlace /\ job.ret = 0
    BY <1>1, <2>1 DEF MadeInv
  <2>13. QED
    BY <2>10, <2>11, <2>12
<1>2. ASSUME job.at = "return", job.ret # -2
      PROVE  \/ Ahead' # <<>> /\ job.name \in Names /\ Placing(NewDir)'
             \/ Ahead' = <<>> /\ Finds(cwd, JobName, job.loc)' /\ (Slot(job.loc) = NewDir)'
  <2>1. job.name \in Names /\ Placing(NewDir)
    BY <1>0, <1>2 DEF MadeInv
  <2>2. PICK e : e = NewDir
    OBVIOUS
  <2>3. Placing(e)
    BY <2>1, <2>2
  <2>4. e \in EntryType /\ e.state = "used" /\ e.name = JobName /\ NewDir' = e
    <3>1. BuildName(job.name) \in EntryNames /\ job.first \in Firsts
      BY <2>1, NameType, JobNumbers
    <3>2. QED
      BY <2>2, <3>1, EntryIsEntry DEF NewDir, Entry, JobName
  <2>5. \/ Ahead' # <<>> /\ Placing(e)'
        \/ Ahead' = <<>> /\ Finds(cwd, JobName, job.loc)' /\ Slot(job.loc)' = e
    BY <2>3, <2>4, PlacingStep
  <2>6. Placing(e)' => Placing(NewDir)'
    BY <2>4
  <2>7. QED
    BY <2>1, <2>4, <2>5, <2>6
<1>3. QED
  BY <1>1, <1>2 DEF MadeInv

LEMMA DeletedStep ==
  ASSUME TypeOK, NEW own, DeleteInv(own), Takes, job' = job PROVE DeletedInv'
<1>1. PICK loc, e, tail, lose, keep :
        /\ loc = job.loc /\ e = Deleted /\ tail = SetSlot(job.loc, Deleted)
        /\ lose = TRUE /\ keep = 0
  OBVIOUS
<1>2. loc \in Places /\ Freeing(own, tail, lose, keep)
  BY <1>1 DEF DeleteInv, Takes
<1>3. tail \in Seq(WriteType) /\ tail # <<>>
  <2>1. <<"slot", loc, e>> \in WriteType
    BY <1>1, <1>2, EndMarkType DEF WriteType
  <2>2. QED
    BY <1>1, <2>1 DEF SetSlot
<1>4. PICK s : Doomed(own, s, {}, job.loc, lose, keep) /\ Ahead = FreeAll(s) \o tail
  BY <1>2 DEF Freeing
<1>5. s \in Seq(Clusters)
  BY <1>4 DEF Doomed
<1>6. CASE s = <<>>
  <2>1. FreeAll(s) = <<>>
    BY <1>6 DEF FreeAll
  <2>2. Ahead = tail
    BY <1>3, <1>4, <2>1, ConcatEmptySeq
  <2>3. Slot(loc)' = e
    BY <1>1, <1>2, <2>2, SlotStep
  <2>4. e.state # "used"
    BY <1>1 DEF Deleted, EndMark
  <2>5. QED
    BY <1>1, <1>2, <2>3, <2>4 DEF DeletedInv, Places
<1>7. CASE s # <<>>
  <2>1. /\ Tail(s) \in Seq(Clusters)
        /\ FreeAll(Tail(s)) \o tail \in Seq(WriteType)
        /\ Ahead = << <<"fat", 1, s[1], 0>> >> \o (FreeAll(Tail(s)) \o tail)
    BY <1>3, <1>4, <1>5, <1>7, FreeAllHead
  <2>2. Ahead' = FreeAll(Tail(s)) \o tail
    BY <2>1, HeadTail DEF Takes
  <2>3. Ahead' # <<>>
    BY <1>3, <2>1, <2>2, FreeAllType, ConcatEqualIffEmpty
  <2>4. QED
    BY <2>3 DEF DeletedInv
<1>8. QED
  BY <1>6, <1>7

LEMMA DoneStep ==
  ASSUME Inv, NEW own, NEW pos, Sound(own, pos), DOMAIN data = Clusters, TakesData,
         job' = job, cwd' = cwd, DoneInv
  PROVE  DoneInv'
<1>1. TypeOK /\ Base(own, pos) /\ PhaseInv(own, pos) /\ job.call # "off" /\ Takes
  BY DEF Inv, DoneInv, Sound, TakesData
<1>2. job.call \in {"write", "touch"} => WroteInv'
  BY <1>1, WroteStep DEF PhaseInv, DoneInv
<1>3. job.call = "mkdir" => MadeInv'
  BY <1>1, MadeStep DEF PhaseInv, DoneInv
<1>4. job.call \in {"rmdir", "remove"} => DeletedInv'
  BY <1>1, DeletedStep DEF PhaseInv
<1>5. QED
  BY <1>1, <1>2, <1>3, <1>4 DEF DoneInv, Idle

-----------------------------------------------------------------------------
(***************************************************************************)
(* Steps that leave the volume as it is                                    *)
(***************************************************************************)
LEMMA HoldsSame ==
  ASSUME SameView, NEW d, NEW l \in Holds(d) PROVE l \in Holds(d)' /\ Slot(l)' = Slot(l)
<1>1. PICK chain : chain = Chain(d)
  OBVIOUS
<1>2. chain = Chain(d)' /\ Len(chain) \in Nat
  BY <1>1, ViewChain, ChainFacts
<1>3. \A m : Slot(m)' = Slot(m)
  BY SightFacts
<1>4. /\ Slot(l)' = Slot(l) /\ Len(Chain(d)) <= Len(Chain(d)')
      /\ \A k \in 1 .. Len(Chain(d)) : Chain(d)'[k] = Chain(d)[k]
      /\ \A m \in Places : m[1] \in ToSet(Chain(d)) /\ Slot(m)'.state = "end"
                            => Slot(m).state = "end"
  BY <1>1, <1>2, <1>3
<1>5. QED
  BY <1>4, HoldsOn

LEMMA NamedSame ==
  ASSUME SameView PROVE Named' = Named /\ \A l : Slot(l)' = Slot(l)
BY ViewFacts, SightFacts

LEMMA TreeFrame ==
  ASSUME SameView, NEW rank, TreeInv(rank), Others' \subseteq Others, Anchored(cwd)',
         \A d : Anchored(d) /\ Holds(d) # {} => Anchored(d)'
  PROVE  TreeInv(rank)'
<1>1. ASSUME NEW l \in Others' PROVE Shown(rank, l)'
  <2>1. PICK d \in Clusters : /\ Anchored(d) /\ l \in Holds(d)
                              /\ Slot(l).dir => rank[d] < rank[Slot(l).first]
    BY DEF TreeInv, Shown
  <2>2. Anchored(d)' /\ l \in Holds(d)' /\ Slot(l)' = Slot(l)
    BY <2>1, HoldsSame
  <2>3. QED
    BY <2>1, <2>2 DEF Shown
<1>2. rank \in [Clusters -> Nat]
  BY DEF TreeInv
<1>3. QED
  BY <1>1, <1>2 DEF TreeInv

\* When no entry comes to be worked on, the directories named stay so.
LEMMA AnchoredSame ==
  ASSUME SameView, Others \subseteq Others', NEW d, Anchored(d) PROVE Anchored(d)'
<1>1. CASE d = Root
  BY <1>1 DEF Anchored
<1>2. CASE \E m \in Others : Slot(m).dir /\ Slot(m).first = d
  <2>1. PICK m \in Others : Slot(m).dir /\ Slot(m).first = d
    BY <1>2
  <2>2. m \in Others' /\ Slot(m)' = Slot(m)
    BY <2>1, NamedSame
  <2>3. QED
    BY <2>1, <2>2 DEF Anchored
<1>3. QED
  BY <1>1, <1>2 DEF Anchored

\* A call begins to write: what belonged to the last one is taken over.
LEMMA FedFrame ==
  ASSUME SameView, Ahead = <<>>, FedInv,
         \A l \in Others : l \in Others' \/ Fed(Slot(l).first)',
         \A c \in Clusters : Owing /\ job.first = c => Fed(c)',
         \A c \in Clusters : <<"fat", 1, c, EOC>> \in Pending' => Used(c) \/ Fed(c)'
  PROVE  FedInv'
<1>1. SUFFICES ASSUME NEW c \in Clusters, Used(c)' \/ <<"fat", 1, c, EOC>> \in Pending',
                      ~Fed(c)'
               PROVE  FALSE
  BY DEF FedInv
<1>2. \A x : FatNext(x)' = FatNext(x)
  BY SightFacts
<1>3. Used(c)
  BY <1>1, <1>2 DEF Used
<1>4. Fed(c) /\ Pending = {}
  BY <1>3 DEF FedInv, Pending, From
<1>5. CASE c = Root \/ \E b \in Clusters : FatNext(b) = c
  BY <1>1, <1>2, <1>5 DEF Fed
<1>6. CASE \E l \in Others : Slot(l).first = c
  <2>1. PICK l \in Others : Slot(l).first = c
    BY <1>6
  <2>2. l \in Others'
    <3>1. PICK f : f = Slot(l).first
      OBVIOUS
    <3>2. Fed(Slot(l).first)' => Fed(c)'
      <4>1. Slot(l)' = Slot(l)
        BY NamedSame
      <4>2. QED
        BY <2>1, <4>1 DEF Fed
    <3>3. QED
      BY <1>1, <3>2
  <2>3. Slot(l)' = Slot(l)
    BY NamedSame
  <2>4. QED
    BY <1>1, <2>1, <2>2, <2>3 DEF Fed
<1>7. CASE Owing /\ job.first = c
  BY <1>1, <1>7
<1>8. QED
  BY <1>4, <1>5, <1>6, <1>7 DEF Fed

\* The writes to come, as they were laid out.
LEMMA PlanFrame ==
  ASSUME SameView, NEW ws, Ahead' = ws, Plan(ws) PROVE Plan(Ahead)'
<1>1. \A x : FatNext(x)' = FatNext(x)
  BY SightFacts
<1>2. ASSUME NEW v, NEW later, Tidy(v, later) PROVE Tidy(v, later)'
  BY <1>1, <1>2 DEF Tidy, Ends, IsDot
<1>3. ASSUME NEW i \in 1 .. Len(Ahead') PROVE Tidy(Ahead[i], From(Ahead, i + 1))'
  <2>1. PICK v, later : v = Ahead'[i] /\ later = From(Ahead, i + 1)'
    OBVIOUS
  <2>2. v = ws[i] /\ later = From(ws, i + 1) /\ i \in 1 .. Len(ws)
    BY <1>3, <2>1 DEF From
  <2>3. Tidy(v, later)
    BY <2>2 DEF Plan
  <2>4. Tidy(v, later)'
    BY <1>2, <2>3
  <2>5. QED
    BY <2>1, <2>4 DEF Tidy, From, IsDot, Ends, FatNext
<1>4. QED
  BY <1>3 DEF Plan

LEMMA LengthFrame ==
  ASSUME SameView, LengthInv,
         \A l \in Places : l = job.loc => l = job'.loc \/ Fits(Slot(l))
  PROVE  LengthInv'
<1>1. SUFFICES ASSUME NEW l \in Places, l # job'.loc PROVE Fits(Slot(l))'
  BY DEF LengthInv, Places
<1>2. PICK e, f : e = Slot(l) /\ f = e.first
  OBVIOUS
<1>3. Fits(e)
  BY <1>1, <1>2 DEF LengthInv
<1>4. Slot(l)' = e /\ Chain(f)' = Chain(f)
  BY <1>2, NamedSame, ViewChain
<1>5. PICK n : n = Len(Chain(f))
  OBVIOUS
<1>6. Len(Chain(f))' = n
  BY <1>4, <1>5
<1>7. Plain(e) => Len(Chain(f))' = Needed(e.size)
  BY <1>2, <1>3, <1>5, <1>6 DEF Fits
<1>8. QED
  BY <1>2, <1>4, <1>7 DEF Fits, Plain, IsDot, Needed

LEMMA DoneFrame ==
  ASSUME SameSight, DoneInv PROVE DoneInv'
<1>1. SameView /\ cwd' = cwd /\ Ahead' = Ahead /\ job' = job
  BY DEF SameSight
<1>2. \A l : Slot(l)' = Slot(l)
  BY <1>1, SightFacts
<1>3. WroteInv => WroteInv'
  <2>1. PICK loc, old : loc = job.loc /\ old = Slot(loc)
    OBVIOUS
  <2>2. job'.loc = loc /\ Slot(loc)' = old
    BY <1>1, <1>2, <2>1
  <2>3. QED
    BY <1>1, <2>1, <2>2 DEF WroteInv
<1>4. DeletedInv => DeletedInv'
  BY <1>1, <1>2 DEF DeletedInv, Places
<1>5. MadeInv => MadeInv'
  <2>1. PICK d, name, e : d = cwd /\ name = JobName /\ e = NewDir
    OBVIOUS
  <2>2. cwd' = d /\ JobName' = name /\ NewDir' = e
    BY <1>1, <2>1 DEF JobName, NewDir, Entry
  <2>3. FindEntry(d, name)' = FindEntry(d, name)
    BY <1>1, ViewStill, FindStays
  <2>4. (FindEntry(cwd, JobName) = NoPlace) => (FindEntry(cwd, JobName) = NoPlace)'
    BY <2>1, <2>2, <2>3
  <2>5. Placing(NewDir) => Placing(NewDir)'
    <3>1. Placing(e) => Placing(e)'
      BY SightPlacing
    <3>2. QED
      BY <2>1, <2>2, <3>1
  <2>6. Finds(cwd, JobName, job.loc) => Finds(cwd, JobName, job.loc)'
    <3>1. Still(cwd)
      BY <1>1, ViewStill
    <3>2. QED
      BY <1>1, <3>1, FindsNext
  <2>7. (Slot(job.loc) = NewDir) => (Slot(job.loc) = NewDir)'
    <3>1. PICK loc : loc = job.loc
      OBVIOUS
    <3>2. job'.loc = loc /\ Slot(loc)' = Slot(loc)
      BY <1>1, <1>2, <3>1
    <3>3. QED
      BY <2>1, <2>2, <3>1, <3>2
  <2>8. QED
    BY <1>1, <2>4, <2>5, <2>6, <2>7 DEF MadeInv
<1>6. QED
  BY <1>1, <1>3, <1>4, <1>5 DEF DoneInv, Idle

\* Nothing that the invariant speaks of changes.
LEMMA SightWhole ==
  ASSUME SameSight, NEW rank, Whole(rank) PROVE Whole(rank)'
<1>1. SameView /\ cwd' = cwd /\ Ahead' = Ahead /\ job' = job
  BY DEF SameSight
<1>2. Others' = Others /\ \A l : Slot(l)' = Slot(l)
  BY <1>1, NamedSame DEF Others
<1>3. TreeInv(rank)'
  <2>1. \A d : Anchored(d) => Anchored(d)'
    BY <1>1, <1>2, AnchoredSame
  <2>2. Anchored(cwd)'
    <3>1. PICK d : d = cwd
      OBVIOUS
    <3>2. Anchored(d)' /\ cwd' = d
      BY <1>1, <2>1, <3>1 DEF Whole, TreeInv
    <3>3. QED
      BY <3>2 DEF Anchored
  <2>3. QED
    BY <1>1, <1>2, <2>1, <2>2, TreeFrame DEF Whole
<1>4. FedInv'
  <2>1. \A x : FatNext(x)' = FatNext(x)
    BY <1>1, SightFacts
  <2>2. Pending' = Pending
    BY <1>1 DEF Pending, From
  <2>3. ASSUME NEW c, Fed(c) PROVE Fed(c)'
    BY <1>1, <1>2, <2>1, <2>2, <2>3 DEF Fed, Owing, Owes
  <2>4. QED
    BY <2>1, <2>2, <2>3 DEF Whole, FedInv, Used
<1>5. Plan(Ahead)'
  <2>1. PICK ws : ws = Ahead
    OBVIOUS
  <2>2. Plan(ws) /\ Ahead' = ws
    BY <1>1, <2>1 DEF Whole
  <2>3. QED
    BY <1>1, <2>2, PlanFrame
<1>6. LengthInv'
  BY <1>1, LengthFrame DEF Whole
<1>7. DoneInv'
  BY DoneFrame DEF Whole
<1>8. QED
  BY <1>3, <1>4, <1>5, <1>6, <1>7 DEF Whole

\* A sector write.
LEMMA SectorLeak ==
  ASSUME Inv, NEW own, NEW pos, Sound(own, pos), HonestInv, LeakInv, WriteSector
  PROVE  LeakInv'
<1>1. SUFFICES ASSUME crashes' = 0 PROVE \E rank : Whole(rank)'
  BY DEF LeakInv
<1>2. crashes = 0 /\ job' = job /\ cwd' = cwd
  BY <1>1 DEF WriteSector
<1>3. PICK rank : Whole(rank)
  BY <1>2 DEF LeakInv
<1>4. SectorPuts
  BY SectorPutsData DEF HonestInv
<1>5. CASE Repeats /\ data' = data
  <2>1. SameSight
    BY <1>2, <1>5 DEF Repeats, SameSight, SameView
  <2>2. QED
    BY <1>3, <2>1, SightWhole
<1>6. CASE TakesData /\ ~Repeats
  <2>1. PICK w, rest : w = Head(Ahead) /\ rest = From(Ahead, 2)
    OBVIOUS
  <2>2. Takes /\ Ahead # <<>> /\ TypeOK /\ Base(own, pos) /\ job.call # "off"
    BY <1>3, <1>6 DEF TakesData, Takes, Inv, Sound, Whole, DoneInv
  <2>3. Lands(own, w)
    BY <2>1, <2>2, PhaseLands DEF Sound
  <2>4. w \in WriteType /\ Does(w) /\ Tidy(w, rest)
    BY <1>3, <2>1, <2>2, NextWrite DEF Whole
  <2>5. Put(w)
    <3>1. Ahead = todo
      BY <1>6, SectorDoes
    <3>2. QED
      BY <2>1, <3>1 DEF WriteSector
  <2>6. TreeInv(rank)'
    BY <1>2, <1>3, <2>2, <2>3, <2>4, TreeStep DEF Whole
  <2>7. FedInv'
    BY <1>2, <1>3, <2>1, <2>2, <2>3, FedStep DEF Whole
  <2>8. Plan(Ahead)'
    BY <1>3, <2>2, PlanStep DEF Whole
  <2>9. LengthInv'
    BY <1>2, <1>3, <2>2, <2>3, <2>4, <2>5, LengthStep DEF Whole
  <2>10. DoneInv'
    BY <1>2, <1>3, <1>6, DoneStep DEF Whole, HonestInv
  <2>11. QED
    BY <2>6, <2>7, <2>8, <2>9, <2>10 DEF Whole
<1>7. CASE Repeats /\ TakesData
  <2>1. PICK ws : ws = Ahead
    OBVIOUS
  <2>2. ws \in Seq(WriteType) /\ ws # <<>> /\ ws = Tail(ws)
    <3>1. TypeOK
      BY DEF Inv
    <3>2. Ahead \in Seq(WriteType)
      BY <3>1, AheadWrites
    <3>3. Ahead' = ws
      BY <1>7, <2>1 DEF Repeats
    <3>4. Ahead # <<>> /\ Ahead' = Tail(Ahead)
      BY <1>7 DEF TakesData, Takes
    <3>5. QED
      BY <2>1, <3>2, <3>3, <3>4
  <2>3. \A s \in Seq(WriteType) : s # <<>> => Len(Tail(s)) = Len(s) - 1 /\ Len(s) \in Nat
    OBVIOUS
  <2>4. PICK n : n = Len(ws)
    OBVIOUS
  <2>5. n \in Nat /\ n = n - 1
    BY <2>2, <2>3, <2>4
  <2>6. QED
    BY <2>5
<1>8. QED
  BY <1>4, <1>5, <1>6, <1>7 DEF SectorPuts, TakesData

-----------------------------------------------------------------------------
(***************************************************************************)
(* The order of the writes that a call lays out                            *)
(***************************************************************************)
LEMMA FromNone == From(<<>>, 1) = {} /\ Plan(<<>>)
BY DEF From, Plan

\* One more write in front.
LEMMA PlanMore ==
  ASSUME NEW w, NEW S, NEW ws \in Seq(S), Plan(ws), Tidy(w, From(ws, 1))
  PROVE  Plan(<<w>> \o ws) /\ From(<<w>> \o ws, 1) = {w} \cup From(ws, 1)
<1>1. PICK all : all = <<w>> \o ws
  OBVIOUS
<1>2. ws \in Seq(S \cup {w}) /\ <<w>> \in Seq(S \cup {w})
  OBVIOUS
<1>3. all \in Seq(S \cup {w}) /\ all # <<>> /\ Head(all) = w /\ Tail(all) = ws
  BY <1>1, <1>2, HeadTail
<1>4. /\ From(all, 1) = {w} \cup From(all, 2) /\ From(ws, 1) = From(all, 2)
      /\ \A i \in 1 .. Len(ws) : ws[i] = all[i + 1] /\ From(ws, i + 1) = From(all, i + 2)
  BY <1>3, FromTail
<1>5. ASSUME NEW i \in 1 .. Len(all) PROVE Tidy(all[i], From(all, i + 1))
  <2>1. Len(all) = Len(ws) + 1 /\ Len(ws) \in Nat /\ all[1] = w
    BY <1>3
  <2>2. CASE i = 1
    BY <1>4, <2>1, <2>2
  <2>3. CASE i # 1
    <3>1. i - 1 \in 1 .. Len(ws) /\ (i - 1) + 1 = i /\ (i - 1) + 2 = i + 1
      BY <2>1, <2>3
    <3>2. ws[i - 1] = all[i] /\ From(ws, (i - 1) + 1) = From(all, i + 1)
      BY <1>4, <3>1
    <3>3. Tidy(ws[i - 1], From(ws, (i - 1) + 1))
      BY <3>1 DEF Plan
    <3>4. QED
      BY <3>2, <3>3
  <2>4. QED
    BY <2>2, <2>3
<1>6. QED
  BY <1>1, <1>4, <1>5 DEF Plan

LEMMA PlanOne ==
  ASSUME NEW w, Tidy(w, {}) PROVE Plan(<<w>>) /\ From(<<w>>, 1) = {w}
<1>1. /\ From(<<w>>, 1) = {w} /\ From(<<w>>, 2) = {} /\ From(<<w>>, 1 + 1) = {}
      /\ 1 .. Len(<<w>>) = {1} /\ <<w>>[1] = w
  <2>1. Len(<<w>>) = 1 /\ <<w>>[1] = w /\ 1 + 1 = 2 /\ 1 .. 1 = {1} /\ 2 .. 1 = {}
    OBVIOUS
  <2>2. QED
    BY <2>1 DEF From
<1>2. QED
  BY <1>1 DEF Plan

\* A chain is freed, and its entry written.
LEMMA PlanFree ==
  ASSUME TypeOK, NEW own, NEW pos, Base(own, pos), NEW h, NEW tail \in Seq(WriteType),
         \A k \in 1 .. Len(tail) : tail[k][1] = "slot" /\ tail[k][3].state # "end",
         NEW ws, ws = FreeAll(Chain(h)) \o tail
  PROVE  /\ Plan(ws)
         /\ \A c \in ToSet(Chain(h)) : <<"fat", 1, c, 0>> \in From(ws, 1)
         /\ \A v \in From(ws, 1) : v[1] = "fat" => v[4] = 0
<1>1. PICK chain, m, n : chain = Chain(h) /\ m = Len(chain) /\ n = Len(tail)
  OBVIOUS
<1>2. chain \in Seq(Clusters) /\ m \in Nat /\ n \in Nat
  BY <1>1, ChainFacts
<1>3. FreeAll(chain) \in Seq(WriteType) /\ Len(FreeAll(chain)) = m
  BY <1>1, <1>2, FreeAllType
<1>4. \A k \in 1 .. m : FreeAll(chain)[k] = <<"fat", 1, chain[k], 0>>
  BY <1>1 DEF FreeAll
<1>5. /\ Len(ws) = m + n
      /\ \A k \in 1 .. m : ws[k] = <<"fat", 1, chain[k], 0>>
      /\ \A k \in m + 1 .. m + n : ws[k] = tail[k - m]
  <2>1. PICK free : free = FreeAll(chain)
    OBVIOUS
  <2>2. free \in Seq(WriteType) /\ Len(free) = m /\ ws = free \o tail
    BY <1>1, <1>3, <2>1
  <2>3. /\ Len(ws) = m + n /\ \A k \in 1 .. m : ws[k] = free[k]
        /\ \A k \in m + 1 .. m + n : ws[k] = tail[k - m]
    <3>1. /\ Len(free \o tail) = Len(free) + Len(tail)
          /\ \A k \in 1 .. Len(free) + Len(tail) :
               (free \o tail)[k] = IF k <= Len(free) THEN free[k] ELSE tail[k - Len(free)]
      BY <2>2, ConcatProperties, Zenon
    <3>2. Len(ws) = m + n /\ \A k \in 1 .. m + n :
                               ws[k] = IF k <= m THEN free[k] ELSE tail[k - m]
      BY <1>1, <2>2, <3>1
    <3>3. QED
      BY <1>2, <3>2
  <2>4. QED
    BY <1>4, <2>1, <2>3
<1>6. \A k \in m + 1 .. m + n : ws[k][1] = "slot" /\ ws[k][3].state # "end"
  BY <1>1, <1>2, <1>5
<1>7. ASSUME NEW k \in 1 .. m + n, ws[k][1] = "fat" PROVE k \in 1 .. m /\ ws[k][4] = 0
  BY <1>2, <1>5, <1>6, <1>7
<1>8. ASSUME NEW i \in Nat, NEW v \in From(ws, i), i >= 1, v[1] = "fat" PROVE v[4] = 0
  <2>1. PICK j \in i .. Len(ws) : v = ws[j]
    BY <1>8 DEF From
  <2>2. j \in 1 .. m + n
    BY <1>2, <1>5, <1>8, <2>1
  <2>3. QED
    BY <1>7, <1>8, <2>1, <2>2
<1>9. ASSUME NEW c \in ToSet(Chain(h)) PROVE <<"fat", 1, c, 0>> \in From(ws, 1)
  <2>1. PICK k \in 1 .. m : c = chain[k]
    BY <1>1, <1>2, ToSetIs
  <2>2. k \in 1 .. Len(ws)
    BY <1>2, <1>5
  <2>3. QED
    BY <1>5, <2>1, <2>2 DEF From
<1>10. ASSUME NEW i \in 1 .. Len(ws) PROVE Tidy(ws[i], From(ws, i + 1))
  <2>1. CASE i \in 1 .. m
    <3>1. PICK c : c = chain[i]
      OBVIOUS
    <3>2. ws[i] = <<"fat", 1, c, 0>> /\ c \in Clusters
      BY <1>2, <1>5, <2>1, <3>1, <1>1
    <3>3. \A v \in From(ws, i + 1) : v[1] = "fat" => v[4] = 0
      BY <1>8
    <3>4. ASSUME FatNext(c) \in Clusters
          PROVE  <<"fat", 1, FatNext(c), 0>> \in From(ws, i + 1)
      <4>1. i # m
        <5>1. ASSUME i = m PROVE FALSE
          <6>1. h \in Clusters
            <7>1. ASSUME h \notin Clusters PROVE FALSE
              <8>1. chain = <<>>
                BY <1>1, <7>1, ChainOfNone
              <8>2. QED
                BY <1>1, <2>1, <8>1
            <7>2. QED
              BY <7>1
          <6>2. FatNext(Chain(h)[Len(Chain(h))]) \notin Clusters
            BY <6>1, ChainLast DEF Base
          <6>3. QED
            BY <1>1, <3>1, <3>4, <5>1, <6>2
        <5>2. QED
          BY <5>1
      <4>2. i \in 1 .. Len(Chain(h)) - 1 /\ i + 1 \in 1 .. m /\ i + 1 \in i + 1 .. Len(ws)
        BY <1>1, <1>2, <1>5, <2>1, <4>1
      <4>3. chain[i + 1] = FatNext(c)
        BY <1>1, <3>1, <4>2, ChainSteps
      <4>4. ws[i + 1] = <<"fat", 1, FatNext(c), 0>>
        BY <1>5, <4>2, <4>3
      <4>5. QED
        BY <4>2, <4>4 DEF From
    <3>5. 0 \notin Clusters
      BY ClustersAre
    <3>6. QED
      BY <3>2, <3>3, <3>4, <3>5 DEF Tidy
  <2>2. CASE i \notin 1 .. m
    <3>1. ws[i][1] = "slot" /\ ws[i][3].state # "end"
      BY <1>2, <1>5, <1>6, <2>2
    <3>2. QED
      BY <3>1 DEF Tidy
  <2>3. QED
    BY <2>1, <2>2
<1>11. \A v \in From(ws, 1) : v[1] = "fat" => v[4] = 0
  BY <1>8
<1>12. QED
  BY <1>9, <1>10, <1>11 DEF Plan

-----------------------------------------------------------------------------
(***************************************************************************)
(* A call begins or goes on                                                *)
(***************************************************************************)
\* It takes cluster c over, or is about to free it or to link to it.
Taken(j, w, c) ==
  \/ Owes(j) /\ j.first = c
  \/ <<"fat", 1, c, 0>> \in From(w, 1)
  \/ \E x \in Clusters : <<"fat", 1, x, c>> \in From(w, 1)

\* The directories that list something, and the current one, are still named by another
\* entry than the one to be worked on; no cluster is lost.
LEMMA BeginsWhole ==
  ASSUME Inv, NEW own, NEW pos, Base(own, pos), todo = <<>>, NEW rank, Whole(rank),
         NEW j, NEW w \in Seq(Fresh), Begin(j, w), Plan(w), DoneInv',
         j.loc = job.loc \/ job.loc = NoPlace,
         \A d : Anchored(d) /\ (d = cwd \/ Holds(d) # {})
                  => d = Root \/ \E m \in Others : m # j.loc /\ Slot(m).dir /\ Slot(m).first = d,
         \A c \in Clusters : Owing /\ job.first = c => Taken(j, w, c),
         \A l \in Others : l = j.loc => Taken(j, w, Slot(l).first),
         \A c \in Clusters : <<"fat", 1, c, EOC>> \in From(w, 1) => Used(c) \/ Taken(j, w, c)
  PROVE  Whole(rank)'
<1>1. SameView /\ cwd' = cwd /\ job' = j /\ Ahead = <<>> /\ Ahead' = w
  BY BeginFrame
<1>2. Named' = Named /\ \A l : Slot(l)' = Slot(l)
  BY <1>1, NamedSame
<1>3. Others' = {l \in Others : l # j.loc}
  <2>1. Others' = {l \in Named : l # j.loc}
    BY <1>1, <1>2 DEF Others
  <2>2. CASE j.loc = job.loc
    BY <2>1, <2>2 DEF Others
  <2>3. CASE job.loc = NoPlace
    <3>1. NoPlace \notin Named
      BY PlaceIsSome DEF Named
    <3>2. Others = Named
      BY <2>3, <3>1 DEF Others
    <3>3. QED
      BY <2>1, <3>2
  <2>4. QED
    BY <2>2, <2>3
<1>4. TreeInv(rank) /\ FedInv /\ LengthInv
  BY DEF Whole
<1>5. ASSUME NEW d, Anchored(d), d = cwd \/ Holds(d) # {} PROVE Anchored(d)'
  <2>1. CASE d = Root
    BY <2>1 DEF Anchored
  <2>2. CASE d # Root
    <3>1. PICK m \in Others : m # j.loc /\ Slot(m).dir /\ Slot(m).first = d
      BY <1>5, <2>2
    <3>2. m \in Others' /\ Slot(m)' = Slot(m)
      BY <1>2, <1>3, <3>1
    <3>3. QED
      BY <3>1, <3>2 DEF Anchored
  <2>3. QED
    BY <2>1, <2>2
<1>6. TreeInv(rank)'
  <2>1. Anchored(cwd)'
    <3>1. PICK d : d = cwd
      OBVIOUS
    <3>2. Anchored(d)' /\ cwd' = d
      BY <1>1, <1>4, <1>5, <3>1 DEF TreeInv
    <3>3. QED
      BY <3>2 DEF Anchored
  <2>2. Others' \subseteq Others
    BY <1>3
  <2>3. QED
    BY <1>1, <1>4, <1>5, <2>1, <2>2, TreeFrame
<1>7. ASSUME NEW c, Taken(j, w, c) PROVE Fed(c)'
  <2>1. Pending' = From(w, 1)
    BY <1>1 DEF Pending, From
  <2>2. QED
    BY <1>1, <1>7, <2>1 DEF Taken, Fed, Owing, Owes
<1>8. FedInv'
  <2>1. \A l \in Others : l \in Others' \/ Fed(Slot(l).first)'
    <3>1. ASSUME NEW l \in Others, l \notin Others' PROVE Fed(Slot(l).first)'
      <4>1. l = j.loc /\ Slot(l).first \in Clusters
        BY <1>3, <3>1, TableType DEF Others, Inv
      <4>2. PICK c \in Clusters : c = Slot(l).first
        BY <4>1
      <4>3. Fed(c)'
        BY <1>7, <3>1, <4>1, <4>2
      <4>4. PICK f : f = Slot(l)'.first
        OBVIOUS
      <4>5. f = c
        BY <1>2, <4>2, <4>4
      <4>6. Fed(f)'
        BY <4>3, <4>5
      <4>7. QED
        BY <4>4, <4>6 DEF Fed, Slot
    <3>2. QED
      BY <3>1
  <2>2. \A c \in Clusters : Owing /\ job.first = c => Fed(c)'
    BY <1>7
  <2>3. \A c \in Clusters : <<"fat", 1, c, EOC>> \in Pending' => Used(c) \/ Fed(c)'
    <3>1. Pending' = From(w, 1)
      BY <1>1 DEF Pending, From
    <3>2. QED
      BY <1>7, <3>1
  <2>4. QED
    BY <1>1, <1>4, <2>1, <2>2, <2>3, FedFrame
<1>9. Plan(Ahead)'
  BY <1>1, PlanFrame
<1>10. LengthInv'
  BY <1>1, <1>4, LengthFrame, PlaceIsSome
<1>11. QED
  BY <1>6, <1>8, <1>9, <1>10 DEF Whole

\* A call that goes on works on the same entry.
LEMMA GoesOnWhole ==
  ASSUME Inv, NEW own, NEW pos, Base(own, pos), todo = <<>>, NEW rank, Whole(rank),
         NEW j, NEW w \in Seq(Fresh), Begin(j, w), Plan(w), DoneInv', j.loc = job.loc,
         \A c \in Clusters : Owing /\ job.first = c => Taken(j, w, c),
         \A c \in Clusters : <<"fat", 1, c, EOC>> \in From(w, 1) => Used(c) \/ Taken(j, w, c)
  PROVE  Whole(rank)'
<1>1. \A d : Anchored(d) => d = Root \/ \E m \in Others : /\ m # j.loc /\ Slot(m).dir
                                                           /\ Slot(m).first = d
  BY DEF Anchored, Others
<1>2. \A l \in Others : l = j.loc => Taken(j, w, Slot(l).first)
  BY DEF Others
<1>3. QED
  BY <1>1, <1>2, BeginsWhole

\* A chain has its first cluster.
LEMMA HeadIsOn ==
  ASSUME NEW c \in Clusters PROVE c \in ToSet(Chain(c))
<1>1. Chain(c) \in Seq(Clusters) /\ Chain(c)[1] = c /\ 1 \in 1 .. Len(Chain(c))
  <2>1. Chain(c) \in Seq(Clusters) /\ Len(Chain(c)) >= 1 /\ Chain(c)[1] = c
    BY ChainFacts
  <2>2. \A n \in Nat : n >= 1 => 1 \in 1 .. n
    OBVIOUS
  <2>3. QED
    BY <2>1, <2>2
<1>2. QED
  BY <1>1, ToSetIs

\* A cluster is claimed and zeroed before the rest.
LEMMA PlanAllocate ==
  ASSUME NEW c \in Clusters, ~Used(c), NEW S, NEW rest \in Seq(S), Plan(rest)
  PROVE  /\ Plan(Allocate(c) \o rest)
         /\ From(Allocate(c) \o rest, 1)
              = {<<"fat", 1, c, EOC>>, <<"zero", c>>} \cup From(rest, 1)
<1>1. PICK y, z, W : /\ y = <<"fat", 1, c, EOC>> /\ z = <<"zero", c>>
                     /\ W = S \cup {y, z}
  OBVIOUS
<1>2. rest \in Seq(W) /\ <<y>> \in Seq(W) /\ <<z>> \in Seq(W)
  BY <1>1
<1>3. Allocate(c) = <<y>> \o <<z>>
  BY <1>1 DEF Allocate, SetFat
<1>4. (<<y>> \o <<z>>) \o rest = <<y>> \o (<<z>> \o rest)
  BY <1>2, ConcatAssociative
<1>5. PICK ws : ws = <<z>> \o rest
  OBVIOUS
<1>6. ws \in Seq(W)
  BY <1>2, <1>5, ConcatProperties
<1>7. Tidy(z, From(rest, 1))
  BY <1>1 DEF Tidy
<1>8. Plan(ws) /\ From(ws, 1) = {z} \cup From(rest, 1)
  BY <1>2, <1>5, <1>7, PlanMore
<1>9. Tidy(y, From(ws, 1))
  <2>1. FatNext(c) \notin Clusters /\ EOC # 0 /\ EOC \notin Clusters
    BY ClustersAre DEF Used
  <2>2. QED
    BY <1>1, <2>1 DEF Tidy
<1>10. Plan(<<y>> \o ws) /\ From(<<y>> \o ws, 1) = {y} \cup From(ws, 1)
  BY <1>6, <1>8, <1>9, PlanMore
<1>11. QED
  BY <1>1, <1>3, <1>4, <1>5, <1>8, <1>10

\* A chain is freed, and nothing else is written.
LEMMA PlanGivesBack ==
  ASSUME TypeOK, NEW own, NEW pos, Base(own, pos), NEW h,
         NEW ws \in Seq(WriteType), ws = FreeAll(Chain(h))
  PROVE  /\ Plan(ws)
         /\ \A c \in ToSet(Chain(h)) : <<"fat", 1, c, 0>> \in From(ws, 1)
         /\ \A v \in From(ws, 1) : v[1] = "fat" => v[4] = 0
<1>1. PICK tail \in Seq(WriteType) : tail = <<>>
  <2>1. <<>> \in Seq(WriteType)
    BY EmptySeq
  <2>2. QED
    BY <2>1
<1>2. 1 .. Len(tail) = {}
  BY <1>1
<1>3. \A k \in 1 .. Len(tail) : tail[k][1] = "slot" /\ tail[k][3].state # "end"
  BY <1>2
<1>4. ws = FreeAll(Chain(h)) \o tail
  BY <1>1, ConcatEmptySeq
<1>5. QED
  BY <1>3, <1>4, PlanFree

LEMMA WriteDone ==
  ASSUME NEW j, job' = j, j.call \in {"write", "touch"}, WroteInv' PROVE DoneInv'
BY DEF DoneInv, Idle

\* A size of nought is written: the old chain is freed.
LEMMA WriteNothingLeak ==
  ASSUME Inv, NEW own, NEW pos, Sound(own, pos), NEW rank, Whole(rank), WriteNothing
  PROVE  Whole(rank)'
<1>1. /\ TypeOK /\ Base(own, pos) /\ todo = <<>> /\ job.call \in {"write", "touch"}
  BY BodyFacts DEF WriteNothing
<1>2. PICK j, f, w : /\ j = [job EXCEPT !.at = "entry", !.first = 0]
                     /\ f = job.first /\ w = FreeChain(f)
  OBVIOUS
<1>3. j.call = job.call /\ j.at = "entry" /\ j.first = 0 /\ j.loc = job.loc
  BY <1>1, <1>2 DEF TypeOK, JobType
<1>4. w = FreeAll(Chain(f)) /\ w \in Seq(Fresh) /\ w \in Seq(WriteType)
  BY <1>2, FreeChainIs, FreshAreWrites
<1>6. /\ Plan(w) /\ \A c \in ToSet(Chain(f)) : <<"fat", 1, c, 0>> \in From(w, 1)
      /\ \A v \in From(w, 1) : v[1] = "fat" => v[4] = 0
  BY <1>1, <1>4, PlanGivesBack
<1>7. Begin(j, w)
  BY <1>2 DEF WriteNothing
<1>8. job' = j
  BY <1>7 DEF Begin
<1>9. DoneInv'
  <2>1. WroteInv'
    BY <1>3, <1>8 DEF WroteInv
  <2>2. QED
    BY <1>1, <1>3, <1>8, <2>1, WriteDone
<1>10. \A c \in Clusters : Owing /\ job.first = c => Taken(j, w, c)
  BY <1>2, <1>6, HeadIsOn DEF Taken
<1>11. \A c \in Clusters : <<"fat", 1, c, EOC>> \notin From(w, 1)
  BY <1>6, ClustersAre
<1>12. QED
  BY <1>1, <1>3, <1>4, <1>6, <1>7, <1>9, <1>10, <1>11, GoesOnWhole

\* The loop is over.
LEMMA WriteTrimLeak ==
  ASSUME Inv, NEW own, NEW pos, Sound(own, pos), HonestInv, NEW rank, Whole(rank), WriteTrim
  PROVE  Whole(rank)'
<1>1. /\ TypeOK /\ Base(own, pos) /\ todo = <<>> /\ job.call \in {"write", "touch"}
      /\ BodyInv(own, pos)
  BY BodyFacts DEF WriteTrim
<1>2. PICK j, f, c, p, w :
        /\ j = [job EXCEPT !.at = "entry"] /\ f = job.first
        /\ c = job.cluster /\ p = job.prev
        /\ w = (IF p # 0 THEN SetFat(p, EOC) ELSE <<>>) \o FreeChain(c)
  OBVIOUS
<1>3. /\ j.call = job.call /\ j.at = "entry" /\ j.first = f /\ j.loc = job.loc
      /\ j.used = job.used /\ p \in Firsts
  BY <1>1, <1>2 DEF TypeOK, JobType
<1>4. PICK free : /\ free = FreeChain(c) /\ free = FreeAll(Chain(c)) /\ free \in Seq(Fresh)
                  /\ free \in Seq(WriteType)
  BY FreeChainIs, FreshAreWrites
<1>5. <<>> \o free = free
  BY <1>4, ConcatEmptySeq
<1>6. /\ Plan(free) /\ \A x \in ToSet(Chain(c)) : <<"fat", 1, x, 0>> \in From(free, 1)
      /\ \A v \in From(free, 1) : v[1] = "fat" => v[4] = 0
  BY <1>1, <1>4, PlanGivesBack
<1>7. Begin(j, w)
  BY <1>2 DEF WriteTrim, Goto
<1>8. job' = j
  BY <1>7 DEF Begin
<1>9. DoneInv'
  <2>1. ASSUME job.used = 0 PROVE job.first = 0
    <3>1. job.prev = 0
      BY <1>1, <2>1, BodyHonest DEF Laid, WriteTrim
    <3>2. job.size \in Nat /\ job.size > 0
      BY <1>1 DEF WriteTrim, TypeOK, JobType
    <3>3. job.used # Needed(job.size)
      BY <2>1, <3>2, SomeNeeded
    <3>4. job.cluster \notin Clusters
      BY <3>3 DEF WriteTrim, DiskFull
    <3>5. QED
      BY <1>1, <3>1, <3>4 DEF BodyInv
  <2>2. WroteInv'
    BY <1>2, <1>3, <1>8, <2>1 DEF WroteInv
  <2>3. QED
    BY <1>1, <1>3, <1>8, <2>2, WriteDone
<1>10. \A x \in Clusters : Owing /\ job.first = x => Taken(j, w, x)
  BY <1>1, <1>2, <1>3 DEF Taken, Owes
<1>11. w \in Seq(Fresh) /\ Plan(w)
       /\ \A x \in Clusters : <<"fat", 1, x, EOC>> \in From(w, 1) => Used(x)
  <2>1. \A x \in Clusters : <<"fat", 1, x, EOC>> \notin From(free, 1)
    BY <1>6, ClustersAre
  <2>2. CASE p = 0
    <3>1. w = free
      BY <1>2, <1>4, <1>5, <2>2
    <3>2. QED
      BY <1>4, <1>6, <2>1, <3>1
  <2>3. CASE p # 0
    <3>1. PICK y : y = <<"fat", 1, p, EOC>>
      OBVIOUS
    <3>2. w = <<y>> \o free /\ p \in Clusters
      BY <1>2, <1>3, <1>4, <2>3, <3>1 DEF SetFat, Firsts
    <3>3. <<y>> \in Seq(Fresh)
      BY <3>1, <3>2, SetFatFresh DEF SetFat, Links
    <3>4. w \in Seq(Fresh)
      BY <1>4, <3>2, <3>3, ConcatProperties
    <3>5. Used(p) /\ (FatNext(p) \in Clusters => FatNext(p) = c)
      BY <1>1, <1>2, <2>3, ClustersAre DEF BodyInv, Ends, Used
    <3>6. FatNext(p) \in Clusters => <<"fat", 1, FatNext(p), 0>> \in From(free, 1)
      BY <1>6, <3>5, HeadIsOn
    <3>7. Tidy(y, From(free, 1))
      BY <3>1, <3>6, ClustersAre DEF Tidy
    <3>8. Plan(w) /\ From(w, 1) = {y} \cup From(free, 1)
      BY <1>4, <1>6, <3>2, <3>7, PlanMore
    <3>9. ASSUME NEW x \in Clusters, <<"fat", 1, x, EOC>> \in From(w, 1) PROVE Used(x)
      BY <2>1, <3>1, <3>5, <3>8, <3>9
    <3>10. QED
      BY <3>4, <3>8, <3>9
  <2>4. QED
    BY <2>2, <2>3
<1>12. QED
  BY <1>1, <1>3, <1>7, <1>9, <1>10, <1>11, GoesOnWhole

\* One round of the loop.
LEMMA WriteClusterLeak ==
  ASSUME Inv, NEW own, NEW pos, Sound(own, pos), NEW rank, Whole(rank), WriteCluster
  PROVE  Whole(rank)'
<1>1. /\ TypeOK /\ Base(own, pos) /\ todo = <<>> /\ job.at = "body"
      /\ job.call \in {"write", "touch"} /\ AllUsed /\ BodyInv(own, pos)
  BY BodyFacts DEF WriteCluster
<1>2. PICK c : c = IF job.cluster \notin Clusters THEN FindFreeCluster ELSE job.cluster
  OBVIOUS
<1>3. PICK j, f, q, k :
        /\ j = [job EXCEPT !.first = IF job.cluster \notin Clusters /\ job.prev = 0
                                     THEN c ELSE job.first,
                           !.prev = c, !.used = job.used + 1,
                           !.cluster = IF job.cluster \notin Clusters
                                       THEN EOC ELSE FatNext(c)]
        /\ f = job.first /\ q = job.prev /\ k = job.cluster
  OBVIOUS
<1>4. PICK s, w :
        /\ s = <<"data", c, <<job.size, job.used + 1>> >>
        /\ w = (IF k \notin Clusters THEN Allocate(c) ELSE <<>>)
                 \o (IF k \notin Clusters /\ q # 0 THEN SetFat(q, c) ELSE <<>>)
                 \o <<s>>
  OBVIOUS
<1>5. c # 0 /\ Begin(j, w)
  BY <1>2, <1>3, <1>4 DEF WriteCluster
<1>6. /\ j.call = job.call /\ j.at = "body" /\ j.loc = job.loc
      /\ j.first = (IF k \notin Clusters /\ q = 0 THEN c ELSE f)
  BY <1>1, <1>3 DEF TypeOK, JobType
<1>7. f \in Firsts /\ q \in Firsts /\ job.size \in Nat /\ job.used \in Nat
  BY <1>1, <1>3 DEF TypeOK, JobType
<1>8. c \in Clusters
  BY <1>2, <1>5, FindFreeClusterFacts DEF Firsts
<1>9. s \in Fresh /\ <<s>> \in Seq(Fresh)
  <2>1. s \in Fresh
    BY <1>4, <1>7, <1>8 DEF Fresh, WriteType
  <2>2. QED
    BY <2>1
<1>10. Plan(<<s>>) /\ From(<<s>>, 1) = {s}
  <2>1. Tidy(s, {})
    BY <1>4 DEF Tidy
  <2>2. QED
    BY <2>1, PlanOne
<1>11. job' = j
  BY <1>5 DEF Begin
<1>12. DoneInv'
  <2>1. WroteInv'
    BY <1>6, <1>11 DEF WroteInv
  <2>2. QED
    BY <1>1, <1>6, <1>11, <2>1, WriteDone
<1>13. \A x \in Clusters : j.first = x => Taken(j, w, x)
  BY <1>1, <1>6 DEF Taken, Owes
<1>14. CASE k \in Clusters
  <2>1. w = <<s>>
    BY <1>4, <1>14, RoundWrites
  <2>2. \A x \in Clusters : <<"fat", 1, x, EOC>> \notin From(w, 1)
    <3>1. From(w, 1) = {s} /\ s[1] = "data"
      BY <1>4, <1>10, <2>1
    <3>2. \A x : <<"fat", 1, x, EOC>>[1] = "fat"
      OBVIOUS
    <3>3. QED
      BY <3>1, <3>2
  <2>3. \A x \in Clusters : Owing /\ job.first = x => Taken(j, w, x)
    BY <1>3, <1>6, <1>13, <1>14
  <2>4. QED
    BY <1>1, <1>5, <1>6, <1>9, <1>10, <1>12, <2>1, <2>2, <2>3, GoesOnWhole
<1>15. CASE k \notin Clusters
  <2>1. ~Used(c)
    BY <1>1, <1>2, <1>3, <1>5, <1>15, FreeIsNobodys
  <2>2. PICK y, z : y = <<"fat", 1, c, EOC>> /\ z = <<"zero", c>>
    OBVIOUS
  <2>3. Allocate(c) = <<y>> \o <<z>>
    BY <2>2 DEF Allocate, SetFat
  <2>4. CASE q = 0
    <3>1. f = 0 /\ j.first = c
      BY <1>1, <1>3, <1>6, <1>15, <2>4 DEF BodyInv
    <3>2. w = Allocate(c) \o <<s>>
      <4>1. w = ((<<y>> \o <<z>>) \o <<>>) \o <<s>>
        BY <1>4, <1>15, <2>3, <2>4
      <4>2. QED
        BY <2>3, <4>1, RoundWrites
    <3>3. w \in Seq(Fresh)
      BY <1>8, <1>9, <3>2, AllocateFresh, ConcatProperties
    <3>4. Plan(w) /\ From(w, 1) = {y, z} \cup {s}
      BY <1>8, <1>9, <1>10, <2>1, <2>2, <3>2, PlanAllocate
    <3>5. \A x \in Clusters : <<"fat", 1, x, EOC>> \in From(w, 1) => x = c
      BY <1>4, <2>2, <3>4
    <3>6. \A x \in Clusters : <<"fat", 1, x, EOC>> \in From(w, 1) => Taken(j, w, x)
      BY <1>13, <3>1, <3>5
    <3>7. \A x \in Clusters : Owing /\ job.first = x => Taken(j, w, x)
      BY <1>3, <3>1, ClustersAre
    <3>8. QED
      BY <1>1, <1>5, <1>6, <1>12, <3>3, <3>4, <3>6, <3>7, GoesOnWhole
  <2>5. CASE q # 0
    <3>1. q \in Clusters /\ Ends(q) /\ j.first = f
      BY <1>1, <1>3, <1>6, <1>7, <1>15, <2>5 DEF BodyInv, Firsts
    <3>2. PICK d : d = <<"fat", 1, q, c>>
      OBVIOUS
    <3>3. SetFat(q, c) = <<d>> /\ <<d>> \in Seq(Fresh)
      <4>1. c \in Links
        BY <1>8 DEF Links
      <4>2. QED
        BY <3>1, <3>2, <4>1, SetFatFresh DEF SetFat
    <3>4. PICK rest : rest = <<d>> \o <<s>>
      OBVIOUS
    <3>5. rest \in Seq(Fresh)
      BY <1>9, <3>3, <3>4, ConcatProperties
    <3>6. w = Allocate(c) \o rest
      <4>1. w = ((<<y>> \o <<z>>) \o <<d>>) \o <<s>>
        BY <1>4, <1>15, <2>3, <2>5, <3>3
      <4>2. QED
        BY <2>3, <3>4, <4>1, RoundWrites
    <3>7. w \in Seq(Fresh)
      BY <1>8, <3>5, <3>6, AllocateFresh, ConcatProperties
    <3>8. Tidy(d, {s})
      <4>1. d[1] = "fat" /\ d[3] = q /\ d[4] = c /\ s[1] = "data"
        BY <1>4, <3>2
      <4>2. \A v \in {s} : v[1] # "fat"
        BY <4>1
      <4>3. c # 0
        BY <1>8, ClustersAre
      <4>4. QED
        BY <1>8, <3>1, <4>1, <4>2, <4>3 DEF Tidy
    <3>9. Plan(rest) /\ From(rest, 1) = {d} \cup {s}
      <4>1. PICK ws : ws = <<s>>
        OBVIOUS
      <4>2. /\ ws \in Seq(Fresh) /\ Plan(ws) /\ From(ws, 1) = {s} /\ Tidy(d, From(ws, 1))
            /\ rest = <<d>> \o ws
        BY <1>9, <1>10, <3>4, <3>8, <4>1, Zenon
      <4>3. QED
        BY <4>2, PlanMore
    <3>10. Plan(w) /\ From(w, 1) = {y, z} \cup ({d} \cup {s})
      BY <1>8, <2>1, <2>2, <3>5, <3>6, <3>9, PlanAllocate
    <3>11. \A x \in Clusters : <<"fat", 1, x, EOC>> \in From(w, 1) => x = c
      BY <1>4, <1>8, <2>2, <3>2, <3>10, ClustersAre
    <3>12. <<"fat", 1, q, c>> \in From(w, 1)
      BY <3>2, <3>10
    <3>13. \A x \in Clusters : <<"fat", 1, x, EOC>> \in From(w, 1) => Taken(j, w, x)
      BY <3>1, <3>11, <3>12 DEF Taken
    <3>14. \A x \in Clusters : Owing /\ job.first = x => Taken(j, w, x)
      BY <1>3, <1>13, <3>1
    <3>15. QED
      BY <1>1, <1>5, <1>6, <1>12, <3>7, <3>10, <3>13, <3>14, GoesOnWhole
  <2>6. QED
    BY <2>4, <2>5
<1>16. QED
  BY <1>14, <1>15

\* Nothing is written only when no cluster was.
LEMMA NothingWritten ==
  ASSUME TypeOK, job.used <= Needed(job.size), Written = 0 PROVE job.used = 0
<1>1. PICK u, size : u = job.used /\ size = job.size /\ u \in Nat /\ size \in Nat
  BY JobNumbers
<1>2. SUFFICES ASSUME u # 0 PROVE FALSE
  BY <1>1
<1>3. size # 0
  BY <1>1, <1>2, NeededNone
<1>4. ClusterBytes \in Nat \ {0}
  BY Fat32Assumption
<1>5. u * ClusterBytes \in Nat \ {0}
  <2>1. Needed(1) <= 1
    <3>1. 1 <= 1 * ClusterBytes
      BY <1>4
    <3>2. QED
      BY <3>1, NeededLeast
  <2>2. Needed(1) \in Nat
    BY NeededType
  <2>3. Needed(1) <= u
    BY <1>1, <1>2, <2>1, <2>2
  <2>4. 1 <= u * ClusterBytes
    BY <1>1, <2>3, NeededLeast
  <2>5. u * ClusterBytes \in Nat
    BY <1>1, <1>4
  <2>6. QED
    BY <2>4, <2>5
<1>6. Min({size, u * ClusterBytes}) \in {size, u * ClusterBytes}
  <2>1. {size, u * ClusterBytes} \subseteq Nat /\ {size, u * ClusterBytes} # {}
    BY <1>1, <1>5
  <2>2. QED
    BY <2>1, MinIsIn
<1>7. QED
  BY <1>1, <1>3, <1>5, <1>6 DEF Written

\* The entry is told of its chain.
LEMMA WriteEntryLeak ==
  ASSUME Inv, NEW own, NEW pos, Sound(own, pos), HonestInv, NEW rank, Whole(rank), WriteEntry
  PROVE  Whole(rank)'
<1>1. /\ TypeOK /\ Base(own, pos) /\ todo = <<>> /\ job.at = "entry"
      /\ job.call \in {"write", "touch"} /\ WriteInv(own, pos)
  BY CallFacts DEF WriteEntry
<1>2. OldEntry(own)
  BY <1>1 DEF WriteInv
<1>3. PICK j, loc, e, y, w :
        /\ j = [job EXCEPT !.at = "return", !.ret = Written]
        /\ loc = job.loc /\ e = [Slot(job.loc) EXCEPT !.first = job.first, !.size = Written]
        /\ y = <<"slot", loc, e>> /\ w = <<y>>
  OBVIOUS
<1>4. /\ j.call = job.call /\ j.at = "return" /\ j.first = job.first /\ j.loc = loc
      /\ j.ret = Written /\ Written \in Nat
  BY <1>1, <1>3, WrittenType DEF TypeOK, JobType
<1>5. loc \in Places /\ e \in EntryType /\ e.state = "used"
  <2>1. loc \in Places /\ Slot(loc).state = "used" /\ job.first \in Firsts
    BY <1>1, <1>2, <1>3 DEF OldEntry, TypeOK, JobType
  <2>2. QED
    BY <1>1, <1>3, <1>4, <2>1, SlotType DEF EntryType
<1>6. w \in Seq(Fresh) /\ w # <<>> /\ w = SetSlot(loc, e)
  BY <1>3, <1>5, SetSlotFresh, OneWrite DEF SetSlot
<1>7. Begin(j, w)
  BY <1>3, <1>6 DEF WriteEntry
<1>8. job' = j /\ Ahead' = w
  BY <1>1, <1>6, <1>7, BeginFrame
<1>9. Plan(w) /\ From(w, 1) = {y}
  <2>1. Tidy(y, {})
    BY <1>3, <1>5 DEF Tidy
  <2>2. QED
    BY <1>3, <2>1, PlanOne
<1>10. DoneInv'
  <2>1. WroteInv
    BY <1>1 DEF Whole, DoneInv
  <2>2. ASSUME Written = 0 PROVE job.first = 0
    <3>1. job.used <= Needed(job.size)
      BY <1>1 DEF HonestInv, WritingInv
    <3>2. job.used = 0
      BY <1>1, <2>2, <3>1, NothingWritten
    <3>3. QED
      BY <1>1, <2>1, <3>2 DEF WroteInv
  <2>3. WroteInv'
    BY <1>4, <1>6, <1>8, <2>2 DEF WroteInv
  <2>4. QED
    BY <1>1, <1>4, <1>8, <2>3, WriteDone
<1>11. \A c \in Clusters : Owing /\ job.first = c => Taken(j, w, c)
  BY <1>1, <1>4 DEF Taken, Owes
<1>12. \A c \in Clusters : <<"fat", 1, c, EOC>> \notin From(w, 1)
  BY <1>3, <1>9
<1>13. QED
  BY <1>1, <1>3, <1>4, <1>6, <1>7, <1>9, <1>10, <1>11, <1>12, GoesOnWhole

-----------------------------------------------------------------------------
(***************************************************************************)
(* Room for an entry, and a new directory                                  *)
(***************************************************************************)
\* The free slot that is found is free.
LEMMA FreeSlotIsFree ==
  ASSUME NEW d, NEW l, l = FindFreeSlot(d), l # NoPlace PROVE Slot(l).state # "used"
<1> DEFINE chain == Chain(d)
           ps == {p \in Positions(chain) : Slot(Place(chain, p)).state # "used"}
<1>1. ps \in SUBSET Positions(chain)
  OBVIOUS
<1>2. l = First(chain, ps)
  BY DEF FindFreeSlot
<1>3. ps # {}
  BY <1>2 DEF First
<1>4. PICK p \in ps : l = Place(chain, p)
  BY <1>1, <1>2, <1>3, FirstFacts
<1>5. QED
  BY <1>4

\* A free cluster is none of a directory that a listed entry is in.
LEMMA FreeIsUnlisted ==
  ASSUME TypeOK, NEW own, NEW pos, Base(own, pos), AllUsed, NEW c \in Clusters, ~Used(c),
         NEW d, Anchored(d)
  PROVE  c \notin ToSet(Chain(d))
<1>1. d \in Clusters /\ own[d] = d
  BY AnchoredHead
<1>2. Used(d)
  <2>1. CASE d = Root
    BY <2>1 DEF Base, HeadsInv
  <2>2. CASE d # Root
    BY <2>2 DEF Anchored, Others, AllUsed
  <2>3. QED
    BY <2>1, <2>2
<1>3. QED
  BY <1>1, <1>2, ChainOwner

\* No entry that names a cluster is where there is room.
LEMMA RoomUnnamed ==
  ASSUME TypeOK, NEW own, NEW pos, Base(own, pos), AllUsed, NEW rank, TreeInv(rank),
         NEW l, l = RoomIn(cwd), l # NoPlace, l \in Others
  PROVE  FALSE
<1>1. Slot(l).state = "used"
  BY DEF Others, Named
<1>2. PICK d : Anchored(d) /\ l \in Holds(d)
  BY DEF TreeInv, Shown
<1>3. CASE FindFreeSlot(cwd) # NoPlace
  BY <1>1, <1>3, FreeSlotIsFree DEF RoomIn
<1>4. CASE FindFreeSlot(cwd) = NoPlace
  <2>1. FindFreeCluster # 0 /\ l[1] = FindFreeCluster
    BY <1>4 DEF RoomIn
  <2>2. l[1] \in Clusters /\ ~Used(l[1])
    BY <2>1, FreeIsNobodys DEF Nobodys
  <2>3. l[1] \in ToSet(Chain(d))
    BY <1>2, HeldPlace
  <2>4. QED
    BY <1>2, <2>2, <2>3, FreeIsUnlisted
<1>5. QED
  BY <1>3, <1>4

\* The last cluster of the current directory ends its chain.
LEMMA RearEnds ==
  ASSUME TypeOK, NEW own, NEW pos, Base(own, pos)
  PROVE  Rear(cwd) \in Clusters /\ Ends(Rear(cwd))
<1>1. cwd \in Clusters /\ own[cwd] = cwd /\ Used(cwd)
  BY TableType DEF Base, CwdInv, Starts
<1>2. PICK d, chain, m : d = cwd /\ chain = Chain(cwd) /\ m = Len(chain)
  OBVIOUS
<1>3. chain \in Seq(Clusters) /\ m \in 1 .. Len(chain)
  BY <1>1, <1>2, ChainFacts
<1>4. chain[m] \in ToSet(chain)
  BY <1>2, <1>3, ToSetIs
<1>5. chain[m] \in Clusters /\ Used(chain[m])
  BY <1>1, <1>2, <1>4, ChainOwner
<1>6. FatNext(chain[m]) \notin Clusters
  BY <1>1, <1>2, ChainLast DEF Base
<1>7. QED
  BY <1>2, <1>5, <1>6 DEF Rear, Ends, Used

\* An entry is made where there is room: a cluster claimed for it is linked.
LEMMA RoomPlan ==
  ASSUME TypeOK, NEW own, NEW pos, Base(own, pos), AllUsed, NEW l, l = RoomIn(cwd),
         l # NoPlace, NEW e \in EntryType, e.state = "used",
         NEW w, w = RoomWrites(cwd) \o SetSlot(l, e)
  PROVE  /\ w \in Seq(Fresh) /\ w # <<>> /\ Plan(w)
         /\ \A c \in Clusters : <<"fat", 1, c, EOC>> \in From(w, 1) =>
              \E x \in Clusters : <<"fat", 1, x, c>> \in From(w, 1)
<1>1. l \in Places /\ cwd \in Clusters
  BY RoomInFacts, TableType
<1>2. PICK v, entry : v = <<"slot", l, e>> /\ entry = SetSlot(l, e)
  OBVIOUS
<1>3. entry \in Seq(Fresh) /\ entry = <<v>> /\ entry # <<>>
  BY <1>1, <1>2, SetSlotFresh, OneWrite DEF SetSlot
<1>4. w \in Seq(Fresh) /\ w # <<>>
  <2>1. PICK a : a = RoomWrites(cwd)
    OBVIOUS
  <2>2. a \in Seq(Fresh)
    BY <1>1, <2>1, RoomWritesFresh
  <2>3. a \o entry \in Seq(Fresh) /\ a \o entry # <<>>
    BY <1>3, <2>2, ConcatProperties, ConcatEqualIffEmpty
  <2>4. QED
    BY <1>2, <2>1, <2>3
<1>5. Plan(entry) /\ From(entry, 1) = {v}
  <2>1. Tidy(v, {})
    BY <1>2 DEF Tidy
  <2>2. QED
    BY <1>3, <2>1, PlanOne
<1>6. CASE w = entry
  <2>1. \A c : <<"fat", 1, c, EOC>> \notin From(w, 1)
    <3>1. From(w, 1) = {v} /\ v[1] = "slot"
      BY <1>2, <1>5, <1>6
    <3>2. \A c : <<"fat", 1, c, EOC>>[1] = "fat"
      OBVIOUS
    <3>3. QED
      BY <3>1, <3>2
  <2>2. QED
    BY <1>4, <1>5, <1>6, <2>1
<1>7. CASE /\ FindFreeCluster # 0
           /\ w = Allocate(FindFreeCluster) \o (SetFat(Rear(cwd), FindFreeCluster) \o entry)
  <2>1. PICK c, r, d, rest : /\ c = FindFreeCluster /\ r = Rear(cwd)
                             /\ d = <<"fat", 1, r, c>> /\ rest = <<d>> \o entry
    OBVIOUS
  <2>2. c \in Clusters /\ ~Used(c)
    BY <1>7, <2>1, FreeIsNobodys DEF Nobodys
  <2>3. r \in Clusters /\ Ends(r)
    BY <2>1, RearEnds
  <2>4. w = Allocate(c) \o rest
    BY <1>7, <2>1 DEF SetFat
  <2>5. <<d>> \in Seq(Fresh)
    <3>1. c \in Links
      BY <2>2 DEF Links
    <3>2. QED
      BY <2>1, <2>3, <3>1, SetFatFresh DEF SetFat
  <2>6. rest \in Seq(Fresh)
    BY <1>3, <2>1, <2>5, ConcatProperties
  <2>7. Tidy(d, From(entry, 1))
    <3>1. d[1] = "fat" /\ d[3] = r /\ d[4] = c /\ v[1] = "slot"
      BY <1>2, <2>1
    <3>2. \A u \in From(entry, 1) : u[1] # "fat"
      BY <1>5, <3>1
    <3>3. c # 0
      BY <2>2, ClustersAre
    <3>4. QED
      BY <2>2, <2>3, <3>1, <3>2, <3>3 DEF Tidy
  <2>8. Plan(rest) /\ From(rest, 1) = {d} \cup {v}
    <3>1. /\ entry \in Seq(Fresh) /\ Plan(entry) /\ From(entry, 1) = {v}
          /\ Tidy(d, From(entry, 1)) /\ rest = <<d>> \o entry
      BY <1>3, <1>5, <2>1, <2>7, Zenon
    <3>2. QED
      BY <3>1, PlanMore
  <2>9. Plan(w)
        /\ From(w, 1) = {<<"fat", 1, c, EOC>>, <<"zero", c>>} \cup ({d} \cup {v})
    BY <2>2, <2>4, <2>6, <2>8, PlanAllocate
  <2>10. d \in From(w, 1)
    BY <2>9
  <2>11. ASSUME NEW x \in Clusters, <<"fat", 1, x, EOC>> \in From(w, 1) PROVE x = c
    <3>1. PICK u : u = <<"fat", 1, x, EOC>>
      OBVIOUS
    <3>2. u[1] = "fat" /\ u[3] = x /\ u[4] = EOC
      BY <3>1
    <3>3. u # v /\ u # <<"zero", c>>
      BY <1>2, <3>2
    <3>4. u # d
      BY <2>1, <2>2, <3>2, ClustersAre
    <3>5. u = <<"fat", 1, c, EOC>>
      BY <2>9, <2>11, <3>1, <3>3, <3>4
    <3>6. QED
      BY <3>2, <3>5
  <2>12. \A x \in Clusters : <<"fat", 1, x, EOC>> \in From(w, 1) =>
           <<"fat", 1, r, x>> \in From(w, 1)
    BY <2>1, <2>10, <2>11
  <2>13. QED
    BY <1>4, <2>3, <2>9, <2>12
<1>8. QED
  BY <1>2, <1>6, <1>7, RoomIs

\* Its entry is made.
LEMMA MkdirEntryLeak ==
  ASSUME Inv, NEW own, NEW pos, Sound(own, pos), NEW rank, Whole(rank), MkdirEntry
  PROVE  Whole(rank)'
<1>1. /\ TypeOK /\ Base(own, pos) /\ todo = <<>> /\ Ahead = <<>> /\ AllUsed
      /\ job.call = "mkdir" /\ job.name \in Names
      /\ Nobodys(own, pos, job.first) /\ Used(job.first)
  BY MkdirFacts DEF MkdirEntry
<1>2. job.loc = NoPlace /\ job.ret = 0 /\ FindEntry(cwd, JobName) = NoPlace
  BY <1>1 DEF Whole, DoneInv, MadeInv, MkdirEntry, Ready
<1>3. PICK j, room, e, w :
        /\ j = [job EXCEPT !.at = "return", !.loc = RoomIn(cwd)]
        /\ room = RoomIn(cwd) /\ e = Entry(BuildName(job.name), TRUE, job.first, 0)
        /\ w = RoomWrites(cwd) \o SetSlot(room, e)
  OBVIOUS
<1>4. /\ j.call = "mkdir" /\ j.at = "return" /\ j.loc = room /\ j.first = job.first
      /\ j.name = job.name /\ j.ret = 0
  BY <1>1, <1>2, <1>3 DEF TypeOK, JobType
<1>5. room # NoPlace /\ e \in EntryType /\ e.state = "used"
  <2>1. job.first \in Firsts /\ BuildName(job.name) \in EntryNames
    BY <1>1, NameType DEF TypeOK, JobType
  <2>2. QED
    BY <1>3, <2>1, EntryIsEntry DEF MkdirEntry, Entry
<1>6. /\ w \in Seq(Fresh) /\ w # <<>> /\ Plan(w)
      /\ \A c \in Clusters : <<"fat", 1, c, EOC>> \in From(w, 1) =>
           \E x \in Clusters : <<"fat", 1, x, c>> \in From(w, 1)
  BY <1>1, <1>3, <1>5, RoomPlan
<1>7. Begin(j, w)
  BY <1>3 DEF MkdirEntry
<1>8. SameView /\ cwd' = cwd /\ job' = j /\ Ahead' = w
  BY <1>1, <1>6, <1>7, BeginFrame
<1>9. Placing(NewDir)'
  <2>1. NewDir' = e
    BY <1>3, <1>4, <1>8 DEF NewDir
  <2>2. PICK name : name = JobName /\ JobName' = name
    BY <1>4, <1>8 DEF JobName
  <2>3. Placing(e)'
    BY <1>1, <1>2, <1>3, <1>4, <1>5, <1>8, <2>2, RoomPlaces
  <2>4. QED
    BY <2>1, <2>3 DEF Placing
<1>10. DoneInv'
  BY <1>1, <1>4, <1>6, <1>8, <1>9 DEF DoneInv, MadeInv, Idle
<1>11. TreeInv(rank)
  BY DEF Whole
<1>12. \A l \in Others : l # j.loc
  BY <1>1, <1>3, <1>4, <1>5, <1>11, RoomUnnamed
<1>13. \A d : Anchored(d) => d = Root \/ \E m \in Others : /\ m # j.loc /\ Slot(m).dir
                                                            /\ Slot(m).first = d
  BY <1>12 DEF Anchored
<1>14. \A c \in Clusters : Owing /\ job.first = c => Taken(j, w, c)
  BY <1>4 DEF Taken, Owes
<1>15. \A c \in Clusters : <<"fat", 1, c, EOC>> \in From(w, 1) => Taken(j, w, c)
  BY <1>6 DEF Taken
<1>16. QED
  BY <1>1, <1>2, <1>6, <1>7, <1>10, <1>12, <1>13, <1>14, <1>15, BeginsWhole

\* There is no room for its entry: the cluster is given back.
LEMMA MkdirFullLeak ==
  ASSUME Inv, NEW own, NEW pos, Sound(own, pos), NEW rank, Whole(rank), MkdirFull
  PROVE  Whole(rank)'
<1>1. TypeOK /\ Base(own, pos) /\ todo = <<>> /\ job.call = "mkdir"
  BY MkdirFacts DEF MkdirFull
<1>2. job.loc = NoPlace
  BY <1>1 DEF Whole, DoneInv, MadeInv, MkdirFull, Ready
<1>3. PICK j, f, w : /\ j = [job EXCEPT !.at = "return", !.ret = -2]
                     /\ f = job.first /\ w = FreeChain(f)
  OBVIOUS
<1>4. j.call = "mkdir" /\ j.at = "return" /\ j.loc = job.loc /\ j.ret = -2
  BY <1>1, <1>3 DEF TypeOK, JobType
<1>5. w = FreeAll(Chain(f)) /\ w \in Seq(Fresh) /\ w \in Seq(WriteType)
  BY <1>3, FreeChainIs, FreshAreWrites
<1>6. /\ Plan(w) /\ \A c \in ToSet(Chain(f)) : <<"fat", 1, c, 0>> \in From(w, 1)
      /\ \A v \in From(w, 1) : v[1] = "fat" => v[4] = 0
  BY <1>1, <1>5, PlanGivesBack
<1>7. Begin(j, w)
  BY <1>3 DEF MkdirFull
<1>8. job' = j
  BY <1>7 DEF Begin
<1>9. DoneInv'
  BY <1>2, <1>4, <1>8 DEF DoneInv, MadeInv, Idle
<1>10. \A c \in Clusters : Owing /\ job.first = c => Taken(j, w, c)
  BY <1>3, <1>6, HeadIsOn DEF Taken
<1>11. \A c \in Clusters : <<"fat", 1, c, EOC>> \notin From(w, 1)
  BY <1>6, ClustersAre
<1>12. QED
  BY <1>1, <1>4, <1>5, <1>6, <1>7, <1>9, <1>10, <1>11, GoesOnWhole

-----------------------------------------------------------------------------
(***************************************************************************)
(* The calls begin, or are refused                                         *)
(***************************************************************************)
\* Between calls no entry is worked on.
LEMMA IdleOthers ==
  ASSUME job.loc = NoPlace PROVE Others = Named
BY PlaceIsSome DEF Others, Named

\* The same, after a step.
LEMMA IdleOthersNext == (job.loc = NoPlace => Others = Named)'
<1>1. job.loc = NoPlace => Others = Named
  BY IdleOthers
<1>2. QED
  BY <1>1, PTL

\* No call begins, and the volume stays as it is.
LEMMA IdleKeeps ==
  ASSUME Inv, NEW own, NEW pos, Sound(own, pos), Idle, NEW rank, Whole(rank), SameView,
         NEW j, job' = j, j.call = "idle", j.loc = NoPlace, Ahead' = <<>>, Anchored(cwd)'
  PROVE  Whole(rank)'
<1>1. Ahead = <<>>
  BY IdleIsWhole
<1>2. job.loc = NoPlace
  BY DEF Whole, DoneInv
<1>3. Others = Named /\ Others' = Named'
  BY <1>2, IdleOthers, IdleOthersNext
<1>4. Others' = Others
  BY <1>3, NamedSame
<1>5. TreeInv(rank)'
  <2>1. \A d : Anchored(d) => Anchored(d)'
    BY <1>4, AnchoredSame
  <2>2. TreeInv(rank)
    BY DEF Whole
  <2>3. QED
    BY <1>4, <2>1, <2>2, TreeFrame
<1>6. FedInv'
  <2>1. Pending' = {}
    <3>1. Pending' = From(<<>>, 1)
      BY DEF Pending, From
    <3>2. QED
      BY <3>1, FromNone
  <2>2. ~Owing
    BY DEF Owing, Owes, Idle
  <2>3. FedInv
    BY DEF Whole
  <2>4. QED
    BY <1>1, <1>4, <2>1, <2>2, <2>3, FedFrame
<1>7. Plan(Ahead)'
  <2>1. PICK ws : ws = <<>>
    OBVIOUS
  <2>2. Plan(ws)
    BY <2>1, FromNone
  <2>3. QED
    BY <2>1, <2>2, PlanFrame
<1>8. LengthInv'
  <2>1. LengthInv
    BY DEF Whole
  <2>2. QED
    BY <1>2, <2>1, PlaceIsSome, LengthFrame
<1>9. DoneInv'
  BY DEF DoneInv, Idle
<1>10. QED
  BY <1>5, <1>6, <1>7, <1>8, <1>9 DEF Whole

\* A call is refused.
LEMMA ReturnLeak ==
  ASSUME Inv, NEW own, NEW pos, Sound(own, pos), Idle, NEW rank, Whole(rank),
         NEW r, Return(r)
  PROVE  Whole(rank)'
<1>1. SameView /\ cwd' = cwd /\ job' = NoJob /\ todo' = <<>>
  BY DEF Return, SameView
<1>2. NoJob.call = "idle" /\ NoJob.loc = NoPlace
  BY DEF NoJob
<1>3. Ahead' = <<>>
  BY <1>1 DEF Ahead
<1>4. job.loc = NoPlace /\ Anchored(cwd)
  BY DEF Whole, DoneInv, TreeInv
<1>5. Others' = Others
  BY <1>1, <1>2, <1>4, IdleOthers, IdleOthersNext, NamedSame
<1>6. Anchored(cwd)'
  <2>1. PICK d : d = cwd
    OBVIOUS
  <2>2. Anchored(d)'
    BY <1>1, <1>4, <1>5, <2>1, AnchoredSame
  <2>3. QED
    BY <1>1, <2>1, <2>2 DEF Anchored
<1>7. QED
  BY <1>1, <1>2, <1>3, <1>6, IdleKeeps

\* Another directory becomes the current one.
LEMMA MoveLeak ==
  ASSUME Inv, NEW own, NEW pos, Sound(own, pos), Idle, NEW rank, Whole(rank),
         NEW d, cwd' = d, Anchored(d), UNCHANGED <<fat, dirs, data, job, todo>>
  PROVE  Whole(rank)'
<1>1. SameView /\ Ahead' = <<>>
  <2>1. todo = <<>>
    BY IdleIsWhole
  <2>2. QED
    BY <2>1 DEF SameView, Ahead
<1>2. PICK j : j = job
  OBVIOUS
<1>3. j.call = "idle" /\ j.loc = NoPlace /\ job' = j
  BY <1>2 DEF Whole, DoneInv, Idle
<1>4. Others' = Others
  BY <1>1, <1>2, <1>3, IdleOthers, IdleOthersNext, NamedSame
<1>5. Anchored(d)'
  BY <1>1, <1>4, AnchoredSame
<1>6. Anchored(cwd)'
  BY <1>5 DEF Anchored
<1>7. QED
  BY <1>1, <1>3, <1>6, IdleKeeps

\* It is the root, or one that an entry names.
LEMMA MovesLeak ==
  ASSUME Inv, NEW own, NEW pos, Sound(own, pos), NEW rank, Whole(rank),
         ChangeToRoot \/ \E n \in Names \cup {DotDot} : ChangeDir(n)
  PROVE  Whole(rank)'
<1>1. Idle /\ UNCHANGED <<fat, dirs, data, job, todo>>
  BY DEF ChangeToRoot, ChangeDir
<1>2. job.loc = NoPlace /\ Anchored(cwd)
  BY <1>1 DEF Whole, DoneInv, TreeInv
<1>3. CASE ChangeToRoot
  <2>1. Anchored(Root)
    BY DEF Anchored
  <2>2. QED
    BY <1>1, <1>3, <2>1, MoveLeak DEF ChangeToRoot
<1>4. ASSUME NEW n \in Names \cup {DotDot}, ChangeDir(n) PROVE Whole(rank)'
  <2>1. CASE cwd' = cwd
    <3>1. PICK d : d = cwd
      OBVIOUS
    <3>2. QED
      BY <1>1, <1>2, <2>1, <3>1, MoveLeak
  <2>2. CASE cwd' # cwd
    <3>1. PICK l, d : /\ l = FindEntry(cwd, BuildName(n))
                      /\ d = IF Slot(l).first = 0 THEN Root ELSE Slot(l).first
      OBVIOUS
    <3>2. l # NoPlace /\ Slot(l).dir /\ cwd' = d
      BY <1>4, <2>2, <3>1 DEF ChangeDir
    <3>3. TypeOK /\ Base(own, pos)
      BY <1>1, IdleIsWhole
    <3>4. Slot(l).first # 0 => l \in Named
      BY <3>1, <3>2, <3>3, EntryFound
    <3>5. Anchored(d)
      BY <1>2, <3>1, <3>2, <3>4, IdleOthers DEF Anchored
    <3>6. QED
      BY <1>1, <3>2, <3>5, MoveLeak
  <2>3. QED
    BY <2>1, <2>2
<1>5. QED
  BY <1>3, <1>4

\* A write or a touch begins: it has found the entry, or makes one.
LEMMA WriteFileLeak ==
  ASSUME Inv, NEW own, NEW pos, Sound(own, pos), Idle, NEW rank, Whole(rank),
         NEW call \in {"write", "touch"}, NEW n \in Names, NEW size \in Nat,
         WriteFile(call, n, size)
  PROVE  Whole(rank)'
<1>1. TypeOK /\ Base(own, pos) /\ AllUsed /\ todo = <<>> /\ Ahead = <<>>
  BY IdleIsWhole
<1>2. job.loc = NoPlace /\ TreeInv(rank) /\ ~Owing
  BY DEF Whole, DoneInv, Idle, Owing, Owes
<1>3. PICK found, room, name :
        /\ found = FindEntry(cwd, BuildName(n)) /\ room = RoomIn(cwd)
        /\ name = BuildName(n)
  OBVIOUS
<1> DEFINE start == [NoJob EXCEPT !.call = call, !.at = "body", !.name = n, !.size = size]
           old == [start EXCEPT !.loc = found, !.first = Slot(found).first,
                                !.cluster = Slot(found).first]
           new == [start EXCEPT !.loc = room]
           writes == RoomWrites(cwd) \o SetSlot(room, Entry(name, FALSE, 0, 0))
<1>4. \/ \E r : Return(r)
      \/ found # NoPlace /\ ~Slot(found).dir /\ Begin(old, <<>>)
      \/ room # NoPlace /\ Begin(new, writes)
  BY <1>3 DEF WriteFile
<1>5. ASSUME NEW j, j.call = call, j.at = "body", job' = j PROVE DoneInv'
  <2>1. WroteInv'
    BY <1>5 DEF WroteInv
  <2>2. QED
    BY <1>5, <2>1, WriteDone
<1>6. CASE \E r : Return(r)
  BY <1>6, ReturnLeak
<1>7. CASE found # NoPlace /\ ~Slot(found).dir /\ Begin(old, <<>>)
  <2>1. PICK j, w : j = old /\ w = <<>>
    OBVIOUS
  <2>2. /\ j.call = call /\ j.at = "body" /\ j.loc = found /\ j.first = Slot(found).first
    BY <2>1 DEF NoJob
  <2>3. w \in Seq(Fresh) /\ Begin(j, w) /\ Plan(w) /\ From(w, 1) = {}
    BY <1>7, <2>1, EmptySeq, FromNone
  <2>4. DoneInv'
    BY <1>5, <2>2, <2>3 DEF Begin
  <2>5. \A d : Anchored(d) => d = Root \/ \E m \in Others : /\ m # j.loc /\ Slot(m).dir
                                                             /\ Slot(m).first = d
    BY <1>7, <2>2 DEF Anchored
  <2>6. \A l \in Others : l = j.loc => Taken(j, w, Slot(l).first)
    BY <2>2 DEF Taken, Owes
  <2>7. QED
    BY <1>1, <1>2, <2>3, <2>4, <2>5, <2>6, BeginsWhole
<1>8. CASE room # NoPlace /\ Begin(new, writes)
  <2>1. PICK j, e, w : j = new /\ e = Entry(name, FALSE, 0, 0) /\ w = writes
    OBVIOUS
  <2>2. j.call = call /\ j.at = "body" /\ j.loc = room
    BY <2>1 DEF NoJob
  <2>3. Begin(j, w)
    BY <1>8, <2>1
  <2>4. e \in EntryType /\ e.state = "used"
    BY <1>3, <2>1, NameType, EntryIsEntry DEF Firsts, Entry
  <2>5. /\ w \in Seq(Fresh) /\ w # <<>> /\ Plan(w)
        /\ \A c \in Clusters : <<"fat", 1, c, EOC>> \in From(w, 1) =>
             \E x \in Clusters : <<"fat", 1, x, c>> \in From(w, 1)
    <3>1. w = RoomWrites(cwd) \o SetSlot(room, e)
      BY <2>1
    <3>2. QED
      BY <1>1, <1>3, <1>8, <2>4, <3>1, RoomPlan
  <2>6. DoneInv'
    BY <1>5, <2>2, <2>3 DEF Begin
  <2>7. \A l \in Others : l # j.loc
    BY <1>1, <1>2, <1>3, <1>8, <2>2, RoomUnnamed
  <2>8. \A d : Anchored(d) => d = Root \/ \E m \in Others : /\ m # j.loc /\ Slot(m).dir
                                                             /\ Slot(m).first = d
    BY <2>7 DEF Anchored
  <2>9. \A c \in Clusters : <<"fat", 1, c, EOC>> \in From(w, 1) => Taken(j, w, c)
    BY <2>5 DEF Taken
  <2>10. QED
    BY <1>1, <1>2, <2>3, <2>5, <2>6, <2>7, <2>8, <2>9, BeginsWhole
<1>9. QED
  BY <1>4, <1>6, <1>7, <1>8

\* A directory is begun with a cluster of its own.
LEMMA MkdirLeak ==
  ASSUME Inv, NEW own, NEW pos, Sound(own, pos), NEW rank, Whole(rank),
         NEW n \in Names, Mkdir(n)
  PROVE  Whole(rank)'
<1>1. TypeOK /\ Base(own, pos) /\ AllUsed /\ todo = <<>> /\ Ahead = <<>> /\ Idle
  BY IdleIsWhole DEF Mkdir
<1>2. job.loc = NoPlace /\ ~Owing
  BY <1>1 DEF Whole, DoneInv, Idle, Owing, Owes
<1>3. PICK c, j, seed, name :
        /\ c = FindFreeCluster /\ seed = <<"seed", c, Seed(c)>> /\ name = BuildName(n)
        /\ j = [NoJob EXCEPT !.call = "mkdir", !.at = "slot", !.name = n, !.first = c]
  OBVIOUS
<1>4. \/ \E r : Return(r)
      \/ FindEntry(cwd, name) = NoPlace /\ c # 0 /\ Begin(j, Allocate(c) \o <<seed>>)
  BY <1>3 DEF Mkdir
<1>5. CASE \E r : Return(r)
  BY <1>1, <1>5, ReturnLeak
<1>6. CASE FindEntry(cwd, name) = NoPlace /\ c # 0 /\ Begin(j, Allocate(c) \o <<seed>>)
  <2>1. ~Used(c) /\ c \in Clusters
    BY <1>1, <1>3, <1>6, FreeIsNobodys DEF Nobodys
  <2>2. /\ j.call = "mkdir" /\ j.at = "slot" /\ j.first = c /\ j.loc = NoPlace
        /\ j.ret = 0 /\ j.name = n
    BY <1>3 DEF NoJob
  <2>3. seed \in Fresh /\ <<seed>> \in Seq(Fresh)
    <3>1. seed \in Fresh
      BY <1>1, <1>3, <2>1, SeedType DEF Fresh, WriteType, TypeOK
    <3>2. QED
      BY <3>1
  <2>4. PICK w : w = Allocate(c) \o <<seed>>
    OBVIOUS
  <2>5. w \in Seq(Fresh) /\ Begin(j, w)
    BY <1>6, <2>1, <2>3, <2>4, AllocateFresh, ConcatProperties
  <2>6. Plan(<<seed>>) /\ From(<<seed>>, 1) = {seed}
    <3>1. ASSUME NEW k \in 1 .. Slots, Seed(c)[k].state = "used"
          PROVE  Seed(c)[k].dir /\ IsDot(Seed(c)[k])
      BY <3>1 DEF Seed, EmptyDir, EndMark, Entry, IsDot
    <3>2. seed[1] = "seed" /\ seed[3] = Seed(c)
      BY <1>3
    <3>3. Tidy(seed, {})
      BY <3>1, <3>2 DEF Tidy
    <3>4. QED
      BY <3>3, PlanOne
  <2>7. /\ Plan(w)
        /\ From(w, 1) = {<<"fat", 1, c, EOC>>, <<"zero", c>>} \cup {seed}
    <3>1. PICK rest : rest = <<seed>>
      OBVIOUS
    <3>2. /\ rest \in Seq(Fresh) /\ Plan(rest) /\ From(rest, 1) = {seed}
          /\ w = Allocate(c) \o rest
      BY <2>3, <2>4, <2>6, <3>1, Zenon
    <3>3. QED
      BY <2>1, <3>2, PlanAllocate
  <2>8. \A x \in Clusters : <<"fat", 1, x, EOC>> \in From(w, 1) => Taken(j, w, x)
    <3>1. ASSUME NEW x \in Clusters, <<"fat", 1, x, EOC>> \in From(w, 1) PROVE x = c
      <4>1. PICK u : u = <<"fat", 1, x, EOC>>
        OBVIOUS
      <4>2. u[1] = "fat" /\ u[3] = x
        BY <4>1
      <4>3. u # seed /\ u # <<"zero", c>>
        BY <1>3, <4>2
      <4>4. u = <<"fat", 1, c, EOC>>
        BY <2>7, <3>1, <4>1, <4>3
      <4>5. QED
        BY <4>2, <4>4
    <3>2. QED
      BY <2>2, <3>1 DEF Taken, Owes
  <2>9. SameView /\ cwd' = cwd /\ job' = j
    BY <1>1, <2>5, BeginFrame
  <2>10. DoneInv'
    <3>1. PICK d : d = cwd
      OBVIOUS
    <3>2. FindEntry(d, name)' = FindEntry(d, name)
      BY <2>9, FindStays, ViewStill
    <3>3. FindEntry(cwd, JobName)' = NoPlace
      <4>1. FindEntry(d, name)' = NoPlace /\ cwd' = d /\ JobName' = name
        BY <1>3, <1>6, <2>2, <2>9, <3>1, <3>2 DEF JobName
      <4>2. QED
        BY <4>1 DEF FindEntry
    <3>4. MadeInv'
      BY <2>2, <2>9, <3>3 DEF MadeInv
    <3>5. QED
      BY <2>2, <2>9, <3>4 DEF DoneInv, Idle
  <2>11. QED
    BY <1>1, <1>2, <2>2, <2>5, <2>7, <2>8, <2>10, GoesOnWhole
<1>7. QED
  BY <1>4, <1>5, <1>6

\* A delete begins, of what no other entry is in.
LEMMA DeleteLeak ==
  ASSUME Inv, NEW own, NEW pos, Sound(own, pos), Idle, NEW rank, Whole(rank),
         NEW call \in {"rmdir", "remove"}, NEW n \in Names, NEW l,
         l = FindEntry(cwd, BuildName(n)), l # NoPlace, Delete(call, n, l),
         \A d : Slot(l).dir /\ Slot(l).first = d /\ d # Root => d # cwd /\ Holds(d) = {}
  PROVE  Whole(rank)'
<1>1. TypeOK /\ Base(own, pos) /\ AllUsed /\ todo = <<>> /\ Ahead = <<>>
  BY IdleIsWhole
<1>2. job.loc = NoPlace /\ ~Owing
  BY DEF Whole, DoneInv, Idle, Owing, Owes
<1>3. l \in Places
  BY <1>1, EntryFound
<1>4. PICK j, f, tail, w :
        /\ j = [NoJob EXCEPT !.call = call, !.at = "return", !.name = n, !.loc = l]
        /\ f = Slot(l).first /\ tail = SetSlot(l, Deleted) /\ w = FreeChain(f) \o tail
  OBVIOUS
<1>5. j.call = call /\ j.at = "return" /\ j.loc = l
  BY <1>4 DEF NoJob
<1>6. tail \in Seq(Fresh) /\ tail \in Seq(WriteType) /\ tail # <<>>
  BY <1>3, <1>4, EndMarkType, SetSlotFresh, FreshAreWrites, OneWrite DEF SetSlot
<1>7. w = FreeAll(Chain(f)) \o tail /\ w \in Seq(Fresh) /\ w # <<>>
  <2>1. PICK free : free = FreeChain(f) /\ free = FreeAll(Chain(f)) /\ free \in Seq(Fresh)
    BY FreeChainIs
  <2>2. free \o tail \in Seq(Fresh) /\ free \o tail # <<>>
    BY <1>6, <2>1, ConcatProperties, ConcatEqualIffEmpty
  <2>3. QED
    BY <1>4, <2>1, <2>2
<1>8. /\ Plan(w) /\ \A c \in ToSet(Chain(f)) : <<"fat", 1, c, 0>> \in From(w, 1)
      /\ \A v \in From(w, 1) : v[1] = "fat" => v[4] = 0
  <2>1. \A k \in 1 .. Len(tail) : tail[k][1] = "slot" /\ tail[k][3].state # "end"
    BY <1>4 DEF SetSlot, Deleted, EndMark
  <2>2. QED
    BY <1>1, <1>6, <1>7, <2>1, PlanFree
<1>9. Begin(j, w)
  BY <1>4 DEF Delete
<1>10. SameView /\ cwd' = cwd /\ job' = j /\ Ahead' = w
  BY <1>1, <1>7, <1>9, BeginFrame
<1>11. DoneInv'
  BY <1>5, <1>7, <1>10 DEF DoneInv, DeletedInv, Idle
<1>12. \A d : Anchored(d) /\ (d = cwd \/ Holds(d) # {})
          => d = Root \/ \E m \in Others : m # j.loc /\ Slot(m).dir /\ Slot(m).first = d
  BY <1>5 DEF Anchored
<1>13. \A m \in Others : m = j.loc => Taken(j, w, Slot(m).first)
  <2>1. ASSUME NEW m \in Others, m = l PROVE Taken(j, w, f)
    <3>1. f \in Clusters
      BY <1>1, <1>4, <2>1, TableType DEF Others
    <3>2. QED
      BY <1>8, <3>1, HeadIsOn DEF Taken
  <2>2. QED
    BY <1>4, <1>5, <2>1
<1>14. \A c \in Clusters : <<"fat", 1, c, EOC>> \notin From(w, 1)
  BY <1>8, ClustersAre
<1>15. QED
  BY <1>1, <1>2, <1>7, <1>8, <1>9, <1>11, <1>12, <1>13, <1>14, BeginsWhole

LEMMA ToSetNone == ToSet(<<>>) = {}
<1>1. SUFFICES ASSUME NEW x \in ToSet(<<>>) PROVE FALSE
  OBVIOUS
<1>2. PICK s : s = <<>>
  OBVIOUS
<1>3. s \in Seq({}) /\ x \in ToSet(s)
  BY <1>2
<1>4. x \in {}
  BY <1>3, ToSetIs, Zenon
<1>5. QED
  BY <1>4

\* A file is removed, or a directory that lists nothing.
LEMMA DeletesLeak ==
  ASSUME Inv, NEW own, NEW pos, Sound(own, pos), NEW rank, Whole(rank),
         NEW n \in Names, Rmdir(n) \/ RemoveFile(n)
  PROVE  Whole(rank)'
<1>1. PICK l : l = FindEntry(cwd, BuildName(n))
  OBVIOUS
<1>2. Idle
  BY DEF Rmdir, RemoveFile
<1>3. CASE \E r : Return(r)
  BY <1>2, <1>3, ReturnLeak
<1>4. CASE l # NoPlace /\ ~Slot(l).dir /\ Delete("remove", n, l)
  BY <1>1, <1>2, <1>4, DeleteLeak
<1>5. CASE /\ l # NoPlace /\ (IF Slot(l).first = 0 THEN Root ELSE Slot(l).first) # cwd
           /\ DirIsEmpty(IF Slot(l).first = 0 THEN Root ELSE Slot(l).first)
           /\ Delete("rmdir", n, l)
  <2>1. TypeOK /\ Base(own, pos)
    BY <1>2, IdleIsWhole
  <2>2. CASE Slot(l).first = 0
    <3>1. \A d : Slot(l).dir /\ Slot(l).first = d /\ d # Root => d # cwd /\ Holds(d) = {}
      <4>1. Holds(0) = {}
        <5>1. ~\E m : m \in Holds(0)
          <6>1. SUFFICES ASSUME NEW m \in Holds(0) PROVE FALSE
            OBVIOUS
          <6>2. Chain(0) = <<>>
            BY ChainOfNone, ClustersAre
          <6>3. QED
            BY <6>2, HeldPlace, ToSetNone
        <5>2. QED
          BY <5>1
      <4>2. cwd # 0
        BY <2>1, ClustersAre DEF TypeOK
      <4>3. QED
        BY <2>2, <4>1, <4>2
    <3>2. QED
      BY <1>1, <1>2, <1>5, <3>1, DeleteLeak
  <2>3. CASE Slot(l).first # 0
    <3>1. \A d : Slot(l).dir /\ Slot(l).first = d /\ d # Root => d # cwd /\ Holds(d) = {}
      BY <1>5, <2>3 DEF DirIsEmpty
    <3>2. QED
      BY <1>1, <1>2, <1>5, <3>1, DeleteLeak
  <2>4. QED
    BY <2>2, <2>3
<1>6. QED
  BY <1>1, <1>3, <1>4, <1>5 DEF Rmdir, RemoveFile

-----------------------------------------------------------------------------
(***************************************************************************)
(* A call returns                                                          *)
(***************************************************************************)
\* What a search finds is listed.
LEMMA FoundHeld ==
  ASSUME TypeOK, NEW d, NEW l, Finds(d, JobName, l) PROVE l \in Holds(d)
<1>1. PICK p \in Positions(Chain(d)) :
        /\ l = Place(Chain(d), p) /\ Slot(l).state = "used" /\ Slot(l).name = JobName
        /\ Passed(d, JobName, p)
  BY DEF Finds
<1>2. Listing(d, l)
  BY <1>1 DEF Listing, Passed
<1>3. job.name \in Names \cup {DotDot}
  BY DEF TypeOK, JobType
<1>4. ~IsDot(Slot(l))
  BY <1>1, <1>3, NotDot DEF IsDot, JobName
<1>5. QED
  BY <1>2, <1>4, HoldsAre

\* The entry that was worked on is one of the others: it is listed in the current
\* directory, and below it if it is a directory itself.
LEMMA BackWhole ==
  ASSUME Inv, NEW own, NEW pos, Sound(own, pos), NEW rank, Whole(rank), CallReturn,
         NEW r \in [Clusters -> Nat], \A d : Anchored(d) => r[d] = rank[d],
         job.loc \in Named =>
           job.loc \in Holds(cwd) /\ (Slot(job.loc).dir => r[cwd] < r[Slot(job.loc).first]),
         \A c \in Clusters : Owing /\ job.first = c
                               => job.loc \in Named /\ Slot(job.loc).first = c,
         job.loc \in Places => Fits(Slot(job.loc))
  PROVE  Whole(r)'
<1>1. Ready("return") /\ job' = NoJob /\ cwd' = cwd /\ SameView /\ Ahead' = <<>>
  BY DEF CallReturn, Return, SameView, Ahead
<1>2. Ahead = <<>> /\ TypeOK
  BY <1>1, CallFacts
<1>3. NoJob.call = "idle" /\ NoJob.loc = NoPlace
  BY DEF NoJob
<1>4. Named' = Named /\ \A l : Slot(l)' = Slot(l)
  BY <1>1, NamedSame
<1>5. Others' = Named /\ \A l \in Named : l \in Others \/ l = job.loc
  BY <1>1, <1>3, <1>4, IdleOthersNext DEF Others
<1>6. Others \subseteq Others'
  BY <1>5 DEF Others
<1>7. \A d : Anchored(d) => Anchored(d)'
  BY <1>1, <1>6, AnchoredSame
<1>8. rank \in [Clusters -> Nat] /\ Anchored(cwd) /\ \A l \in Others : Shown(rank, l)
  BY DEF Whole, TreeInv
<1>9. Anchored(cwd)'
  <2>1. PICK d : d = cwd
    OBVIOUS
  <2>2. Anchored(d)' /\ cwd' = d
    BY <1>1, <1>7, <1>8, <2>1
  <2>3. QED
    BY <2>2 DEF Anchored
<1>10. ASSUME NEW l \in Others' PROVE Shown(r, l)'
  <2>1. CASE l \in Others
    <3>1. PICK d \in Clusters : /\ Anchored(d) /\ l \in Holds(d)
                                /\ Slot(l).dir => rank[d] < rank[Slot(l).first]
      BY <1>8, <2>1 DEF Shown
    <3>2. Slot(l).dir => Anchored(Slot(l).first)
      BY <2>1 DEF Anchored
    <3>3. Slot(l).dir => r[d] < r[Slot(l).first]
      BY <3>1, <3>2
    <3>4. Anchored(d)' /\ l \in Holds(d)' /\ Slot(l)' = Slot(l)
      BY <1>1, <1>7, <3>1, HoldsSame
    <3>5. QED
      BY <3>3, <3>4 DEF Shown
  <2>2. CASE l = job.loc /\ l \in Named
    <3>1. PICK d : d = cwd
      OBVIOUS
    <3>2. d \in Clusters /\ Anchored(d) /\ l \in Holds(d)
          /\ (Slot(l).dir => r[d] < r[Slot(l).first])
      BY <1>2, <1>8, <2>2, <3>1 DEF TypeOK
    <3>3. Anchored(d)' /\ l \in Holds(d)' /\ Slot(l)' = Slot(l)
      BY <1>1, <1>7, <3>2, HoldsSame
    <3>4. QED
      BY <3>2, <3>3 DEF Shown
  <2>3. QED
    BY <1>5, <2>1, <2>2
<1>11. TreeInv(r)'
  BY <1>9, <1>10 DEF TreeInv
<1>12. FedInv'
  <2>1. Pending' = {}
    <3>1. Pending' = From(<<>>, 1)
      BY <1>1 DEF Pending, From
    <3>2. QED
      BY <3>1, FromNone
  <2>2. ASSUME NEW c \in Clusters, Owing, job.first = c PROVE Fed(c)'
    <3>1. PICK l : l = job.loc
      OBVIOUS
    <3>2. l \in Others' /\ Slot(l)'.first = c
      BY <1>4, <1>5, <2>2, <3>1
    <3>3. QED
      BY <3>2 DEF Fed
  <2>3. FedInv
    BY DEF Whole
  <2>4. QED
    BY <1>1, <1>2, <1>6, <2>1, <2>2, <2>3, FedFrame
<1>13. Plan(Ahead)'
  <2>1. PICK ws : ws = <<>>
    OBVIOUS
  <2>2. Plan(ws)
    BY <2>1, FromNone
  <2>3. QED
    BY <1>1, <2>1, <2>2, PlanFrame
<1>14. LengthInv'
  <2>1. LengthInv
    BY DEF Whole
  <2>2. \A l \in Places : l = job.loc => Fits(Slot(l))
    OBVIOUS
  <2>3. QED
    BY <1>1, <2>1, <2>2, LengthFrame
<1>15. DoneInv'
  BY <1>1, <1>3 DEF DoneInv, Idle
<1>16. QED
  BY <1>11, <1>12, <1>13, <1>14, <1>15 DEF Whole

\* The entry is told of its chain by now.
LEMMA WriteReturnLeak ==
  ASSUME Inv, NEW own, NEW pos, Sound(own, pos), HonestInv, NEW rank, Whole(rank), CallReturn,
         job.call \in {"write", "touch"}
  PROVE  Whole(rank)'
<1>1. TypeOK /\ Base(own, pos) /\ job.at = "return" /\ Ahead = <<>>
  BY CallFacts DEF CallReturn
<1>2. Finds(cwd, JobName, job.loc) /\ Telling
  BY <1>1 DEF HonestInv, WritingInv
<1>3. PICK l, e, f, m : l = job.loc /\ e = Slot(l) /\ f = job.first /\ m = job.ret
  OBVIOUS
<1>4. l \in Holds(cwd) /\ l \in Places /\ e.state = "used" /\ ~IsDot(e)
  BY <1>1, <1>2, <1>3, FoundHeld, HeldPlace
<1>5. ~e.dir /\ e.size = m /\ m >= 0 /\ (m = 0 => f = 0)
  BY <1>1, <1>3 DEF Whole, DoneInv, WroteInv
<1>6. e.first = f
  BY <1>1, <1>2, <1>3 DEF Telling
<1>7. \A c \in Clusters : job.first = c => l \in Named /\ e.first = c
  BY <1>3, <1>4, <1>6, ClustersAre DEF Named
<1>8. Fits(e)
  <2>1. CASE m = 0
    <3>1. Chain(f) = <<>>
      BY <1>5, <2>1, ChainOfNone, ClustersAre
    <3>2. Len(Chain(f)) = 0
      BY <3>1
    <3>3. Needed(m) = 0
      BY <2>1, NeededNone
    <3>4. QED
      BY <1>5, <1>6, <3>2, <3>3 DEF Fits
  <2>2. CASE m # 0
    <3>1. m > 0
      BY <1>1, <1>3, <1>5, <2>2, JobNumbers
    <3>2. Len(Chain(f)) = Needed(m)
      BY <1>2, <1>3, <3>1 DEF Telling, Holding
    <3>3. QED
      BY <1>5, <1>6, <3>2 DEF Fits
  <2>3. QED
    BY <2>1, <2>2
<1>9. rank \in [Clusters -> Nat]
  BY DEF Whole, TreeInv
<1>10. QED
  BY <1>3, <1>4, <1>5, <1>7, <1>8, <1>9, BackWhole

\* The new directory is below the current one.
LEMMA MkdirReturnLeak ==
  ASSUME Inv, NEW own, NEW pos, Sound(own, pos), NEW rank, Whole(rank), CallReturn,
         job.call = "mkdir"
  PROVE  \E r : Whole(r)'
<1>1. TypeOK /\ Base(own, pos) /\ job.at = "return" /\ Ahead = <<>>
  BY CallFacts DEF CallReturn
<1>2. rank \in [Clusters -> Nat] /\ Anchored(cwd) /\ cwd \in Clusters
  BY <1>1 DEF Whole, TreeInv, TypeOK
<1>3. CASE job.ret = -2
  <2>1. job.loc = NoPlace
    BY <1>1, <1>3 DEF Whole, DoneInv, MadeInv
  <2>2. job.loc \notin Places /\ job.loc \notin Named
    BY <2>1, PlaceIsSome DEF Named
  <2>3. ~Owing
    BY <1>3 DEF Owing, Owes
  <2>4. Whole(rank)'
    BY <1>2, <2>2, <2>3, BackWhole
  <2>5. QED
    BY <2>4
<1>4. CASE job.ret # -2
  <2>1. PICK l, f : l = job.loc /\ f = job.first
    OBVIOUS
  <2>2. Finds(cwd, JobName, l) /\ Slot(l) = NewDir
    BY <1>1, <1>4, <2>1 DEF Whole, DoneInv, MadeInv
  <2>3. l \in Holds(cwd) /\ l \in Places /\ Slot(l).state = "used" /\ ~IsDot(Slot(l))
    BY <1>1, <2>2, FoundHeld, HeldPlace
  <2>4. Slot(l).dir /\ Slot(l).first = f
    BY <2>1, <2>2 DEF NewDir, Entry
  <2>5. Fits(Slot(l))
    BY <2>4 DEF Fits, Plain
  <2>6. \A c \in Clusters : job.first = c => l \in Named /\ Slot(l).first = c
    BY <2>1, <2>3, <2>4, ClustersAre DEF Named
  <2>7. ASSUME l \in Named PROVE f \in Clusters /\ ~Anchored(f)
    <3>1. f \in Clusters
      BY <1>1, <2>4, <2>7, TableType
    <3>2. f # Root /\ \A m \in Named : Slot(m).first = f => m = l
      BY <1>1, <2>4, <2>7 DEF Base, HeadsInv
    <3>3. QED
      BY <2>1, <3>1, <3>2 DEF Anchored, Others
  <2>8. PICK r : r = IF f \in Clusters THEN [rank EXCEPT ![f] = rank[cwd] + 1] ELSE rank
    OBVIOUS
  <2>9. r \in [Clusters -> Nat]
    BY <1>2, <2>8
  <2>10. \A d : Anchored(d) => r[d] = rank[d]
    <3>1. CASE f \in Clusters
      <4>1. ~Anchored(f)
        BY <2>1, <2>6, <2>7, <3>1
      <4>2. \A d : Anchored(d) => d \in Clusters
        BY <1>1, AnchoredHead
      <4>3. QED
        BY <1>2, <2>8, <3>1, <4>1, <4>2
    <3>2. CASE f \notin Clusters
      BY <2>8, <3>2
    <3>3. QED
      BY <3>1, <3>2
  <2>11. l \in Named => r[cwd] < r[f]
    <3>1. SUFFICES ASSUME l \in Named PROVE r[cwd] < r[f]
      OBVIOUS
    <3>2. f \in Clusters /\ f # cwd
      BY <1>2, <2>7, <3>1
    <3>3. r[f] = rank[cwd] + 1 /\ r[cwd] = rank[cwd] /\ rank[cwd] \in Nat
      BY <1>2, <2>8, <3>2
    <3>4. QED
      BY <3>3
  <2>12. Whole(r)'
    BY <2>1, <2>3, <2>4, <2>5, <2>6, <2>9, <2>10, <2>11, BackWhole
  <2>13. QED
    BY <2>12
<1>5. QED
  BY <1>3, <1>4

\* The entry was deleted.
LEMMA DeleteReturnLeak ==
  ASSUME Inv, NEW own, NEW pos, Sound(own, pos), NEW rank, Whole(rank), CallReturn,
         job.call \in {"rmdir", "remove"}
  PROVE  Whole(rank)'
<1>1. Ahead = <<>>
  BY CallFacts DEF CallReturn
<1>2. Slot(job.loc).state # "used"
  BY <1>1 DEF Whole, DoneInv, DeletedInv
<1>3. job.loc \notin Named /\ Fits(Slot(job.loc)) /\ ~Owing
  BY <1>2 DEF Named, Fits, Plain, Owing, Owes
<1>4. rank \in [Clusters -> Nat]
  BY DEF Whole, TreeInv
<1>5. QED
  BY <1>3, <1>4, BackWhole

LEMMA CallReturnLeak ==
  ASSUME Inv, NEW own, NEW pos, Sound(own, pos), HonestInv, NEW rank, Whole(rank), CallReturn
  PROVE  \E r : Whole(r)'
<1>1. job.call \in {"write", "touch", "mkdir", "rmdir", "remove"}
  BY CallFacts DEF CallReturn
<1>2. QED
  BY <1>1, WriteReturnLeak, MkdirReturnLeak, DeleteReturnLeak

-----------------------------------------------------------------------------
(***************************************************************************)
(* Every step                                                              *)
(***************************************************************************)
\* On a formatted volume only the root's cluster is in use.
LEMMA InitLeak ==
  ASSUME Init PROVE LeakInv
<1>1. /\ Ahead = <<>> /\ cwd = Root /\ job.call = "idle" /\ job.loc = NoPlace
      /\ \A c \in Clusters : FatNext(c) = IF c = Root THEN EOC ELSE 0
  <2>1. 1 \in 1 .. Copies
    BY Fat32Assumption
  <2>2. QED
    BY <2>1 DEF Init, NoJob, Ahead, FatNext
<1>2. \A l \in Places : Slot(l) \in {EndMark, Entry(<<"?", "">>, TRUE, 0, 0)}
  <2>1. SUFFICES ASSUME NEW c \in Clusters, NEW i \in 1 .. Slots
                 PROVE  dirs[c][i] \in {EndMark, Entry(<<"?", "">>, TRUE, 0, 0)}
    BY DEF Places, Slot
  <2>2. QED
    BY DEF Init, EmptyDir, StaleDir
<1>3. \A l \in Places : ~(Slot(l).state = "used" /\ Slot(l).first # 0) /\ ~Plain(Slot(l))
  <2>1. SUFFICES ASSUME NEW e \in {EndMark, Entry(<<"?", "">>, TRUE, 0, 0)}
                 PROVE  ~(e.state = "used" /\ e.first # 0) /\ ~(e.state = "used" /\ ~e.dir)
    BY <1>2 DEF Plain
  <2>2. CASE e = EndMark
    BY <2>2 DEF EndMark
  <2>3. CASE e = Entry(<<"?", "">>, TRUE, 0, 0)
    BY <2>3 DEF Entry
  <2>4. QED
    BY <2>1, <2>2, <2>3
<1>4. Named = {} /\ Others = {}
  BY <1>3 DEF Named, Others
<1>5. PICK rank : rank = [c \in Clusters |-> 0]
  OBVIOUS
<1>6. TreeInv(rank)
  BY <1>1, <1>4, <1>5 DEF TreeInv, Anchored
<1>7. Pending = {} /\ Plan(Ahead)
  BY <1>1, FromNone DEF Pending
<1>8. FedInv
  BY <1>1, <1>7 DEF FedInv, Fed, Used
<1>9. LengthInv
  BY <1>3 DEF LengthInv, Fits
<1>10. DoneInv
  BY <1>1 DEF DoneInv
<1>11. QED
  BY <1>6, <1>7, <1>8, <1>9, <1>10 DEF LeakInv, Whole

\* Nothing leaks in any step, as long as the power does not fail.
LEMMA NextLeak ==
  ASSUME Inv, ChainsInv, HonestInv, LeakInv, [Next]_vars PROVE LeakInv'
<1>1. PICK own, pos : Sound(own, pos)
  BY DEF ChainsInv
<1>2. CASE WriteSector
  BY <1>1, <1>2, SectorLeak
<1>3. CASE crashes' # 0
  BY <1>3 DEF LeakInv
<1>4. ASSUME crashes' = 0, crashes = 0, ~WriteSector PROVE LeakInv'
  <2>1. PICK rank : Whole(rank)
    BY <1>4 DEF LeakInv
  <2>2. ASSUME NEW r, Whole(r)' PROVE LeakInv'
    BY <2>2 DEF LeakInv
  <2>3. CASE Step
    <3>1. CASE CallReturn
      <4>1. PICK r : Whole(r)'
        BY <1>1, <2>1, <3>1, CallReturnLeak
      <4>2. QED
        BY <2>2, <4>1
    <3>2. CASE ~CallReturn
      BY <1>1, <1>4, <2>1, <2>2, <2>3, <3>2, WriteNothingLeak, WriteClusterLeak, WriteTrimLeak,
         WriteEntryLeak, MkdirEntryLeak, MkdirFullLeak DEF Step
    <3>3. QED
      BY <3>1, <3>2
  <2>4. ASSUME NEW n \in Names, NEW size \in Sizes, Write(n, size) PROVE LeakInv'
    <3>1. size \in Nat /\ Idle /\ WriteFile("write", n, size)
      BY <2>4, Fat32Assumption DEF Write
    <3>2. Whole(rank)'
      BY <1>1, <2>1, <3>1, WriteFileLeak
    <3>3. QED
      BY <2>2, <3>2
  <2>5. ASSUME NEW n \in Names, Touch(n) PROVE LeakInv'
    <3>1. Idle /\ WriteFile("touch", n, 0)
      BY <2>5 DEF Touch
    <3>2. Whole(rank)'
      BY <1>1, <2>1, <3>1, WriteFileLeak
    <3>3. QED
      BY <2>2, <3>2
  <2>6. ASSUME NEW n \in Names, Mkdir(n) \/ Rmdir(n) \/ RemoveFile(n) PROVE LeakInv'
    <3>1. Whole(rank)'
      BY <1>1, <2>1, <2>6, MkdirLeak, DeletesLeak
    <3>2. QED
      BY <2>2, <3>1
  <2>7. CASE ChangeToRoot \/ \E n \in Names \cup {DotDot} : ChangeDir(n)
    BY <1>1, <2>1, <2>2, <2>7, MovesLeak
  <2>8. CASE Call
    BY <2>4, <2>5, <2>6, <2>7, <2>8 DEF Call
  <2>9. CASE UNCHANGED vars
    <3>1. SameSight
      BY <2>9 DEF vars, SameSight, SameView, Ahead
    <3>2. QED
      BY <2>1, <2>2, <3>1, SightWhole
  <2>10. CASE Crash
    <3>1. crashes' = crashes + 1
      BY <2>10 DEF Crash
    <3>2. QED
      BY <1>4, <3>1
  <2>11. QED
    BY <2>3, <2>8, <2>9, <2>10 DEF Next
<1>5. crashes \in Nat
  BY Fat32Assumption DEF Inv, TypeOK
<1>6. crashes' = crashes \/ crashes' = crashes + 1
  <2>1. CASE WriteSector
    BY <2>1 DEF WriteSector
  <2>2. CASE WriteNothing \/ WriteEntry
    BY <2>2 DEF WriteNothing, WriteEntry, Begin
  <2>3. CASE WriteCluster
    BY <2>3 DEF WriteCluster, Begin
  <2>4. CASE WriteTrim
    BY <2>4 DEF WriteTrim, Goto, Begin
  <2>5. CASE MkdirEntry \/ MkdirFull
    BY <2>5 DEF MkdirEntry, MkdirFull, Begin
  <2>6. CASE CallReturn
    BY <2>6 DEF CallReturn, Return
  <2>7. ASSUME NEW call, NEW n, NEW size, WriteFile(call, n, size) PROVE crashes' = crashes
    BY <2>7 DEF WriteFile, Begin, Return
  <2>8. ASSUME NEW n, Mkdir(n) PROVE crashes' = crashes
    BY <2>8 DEF Mkdir, Begin, Return
  <2>9. ASSUME NEW n, Rmdir(n) \/ RemoveFile(n) PROVE crashes' = crashes
    BY <2>9 DEF Rmdir, RemoveFile, Delete, Begin, Return
  <2>10. CASE Call
    BY <2>7, <2>8, <2>9, <2>10 DEF Call, Write, Touch, ChangeDir, ChangeToRoot
  <2>11. CASE Crash
    BY <2>11 DEF Crash
  <2>12. CASE UNCHANGED vars
    BY <2>12 DEF vars
  <2>13. QED
    BY <2>1, <2>2, <2>3, <2>4, <2>5, <2>6, <2>10, <2>11, <2>12 DEF Next, Step
<1>7. QED
  BY <1>2, <1>3, <1>4, <1>5, <1>6

\* The tree stays whole.
LEMMA LeakHolds == Spec => []LeakInv
<1>1. Init => LeakInv
  BY InitLeak
<1>2. (Inv /\ ChainsInv /\ HonestInv) /\ LeakInv /\ [Next]_vars => LeakInv'
  BY NextLeak
<1>3. QED
  BY <1>1, <1>2, ChainsHold, HonestHolds, PTL DEF Spec

-----------------------------------------------------------------------------
(***************************************************************************)
(* What can be reached from the root                                       *)
(***************************************************************************)
\* The sets that are reached one step after another from a first one.
Steps(S, below, n, f) ==
  f = [k \in 0 .. n |-> IF k = 0 THEN S ELSE UNION {below[d] : d \in f[k-1]}]

LEMMA StepsExist ==
  ASSUME NEW S, NEW below, NEW n \in Nat PROVE \E f : Steps(S, below, n, f)
<1> DEFINE F(m, f) ==
             f = [k \in 0 .. m |-> IF k = 0 THEN S ELSE UNION {below[d] : d \in f[k-1]}]
           bad == {m \in Nat : ~\E f : F(m, f)}
<1>0. bad \subseteq Nat /\ \A m \in Nat : m \notin bad => \E f : F(m, f)
  OBVIOUS
<1>1. bad = {}
  <2>1. SUFFICES ASSUME bad # {} PROVE FALSE
    OBVIOUS
  <2>2. PICK m \in bad : \A j \in bad : m <= j
    <3> HIDE DEF bad
    <3>1. QED
      BY <1>0, <2>1, LeastNat
  <2>3. m # 0
    <3>1. F(0, [k \in 0 .. 0 |-> S])
      OBVIOUS
    <3>2. QED
      BY <2>2, <3>1
  <2>4. m \in Nat /\ m - 1 \in Nat /\ m - 1 \notin bad
    <3> HIDE DEF bad
    <3>1. QED
      BY <1>0, <2>2, <2>3
  <2>5. PICK f : F(m - 1, f)
    <3> HIDE DEF bad
    <3>1. QED
      BY <1>0, <2>4
  <2> DEFINE g == [k \in 0 .. m |-> IF k = 0 THEN S ELSE UNION {below[d] : d \in f[k-1]}]
  <2>6. \A j \in 0 .. m - 1 : f[j] = g[j]
    BY <2>4, <2>5
  <2>7. ASSUME NEW k \in 0 .. m
        PROVE  g[k] = IF k = 0 THEN S ELSE UNION {below[d] : d \in g[k-1]}
    <3>1. k # 0 => k - 1 \in 0 .. m - 1
      BY <2>4
    <3>2. k # 0 => f[k-1] = g[k-1]
      BY <2>6, <3>1
    <3>3. g[k] = IF k = 0 THEN S ELSE UNION {below[d] : d \in f[k-1]}
      OBVIOUS
    <3> HIDE DEF g
    <3>4. QED
      BY <3>2, <3>3
  <2>8. F(m, g)
    <3>1. g = [k \in 0 .. m |-> IF k = 0 THEN S ELSE UNION {below[d] : d \in g[k-1]}]
      BY <2>7
    <3>2. QED
      BY <3>1
  <2>9. QED
    BY <2>2, <2>8
<1>2. QED
  BY <1>0, <1>1 DEF Steps

\* A directory is reached one step after the one it is listed in, and stays reached.
LEMMA LiveSteps ==
  \E reach :
    /\ reach[0] = {Root} /\ LiveDirs = reach[LastCluster]
    /\ \A k \in 1 .. LastCluster, d \in Clusters : d \in reach[k-1] =>
         /\ d \in reach[k]
         /\ \A l \in Holds(d) : Slot(l).dir /\ FatNext(Slot(l).first) # 0
                                  => Slot(l).first \in reach[k]
<1> DEFINE below == [d \in Clusters |->
                       {d} \cup {Slot(l).first : l \in {m \in Holds(d) :
                                     Slot(m).dir /\ FatNext(Slot(m).first) # 0}}]
           reach == CHOOSE f : f = [k \in 0 .. LastCluster |->
                                      IF k = 0 THEN {Root} ELSE UNION {below[d] : d \in f[k-1]}]
<1>1. LastCluster \in Nat
  BY Fat32Assumption
<1>2. \E f : Steps({Root}, below, LastCluster, f)
  <2> HIDE DEF below
  <2>1. QED
    BY <1>1, StepsExist
<1>3. Steps({Root}, below, LastCluster, reach)
  <2> HIDE DEF below
  <2>1. QED
    BY <1>2, Zenon DEF Steps
<1>4. LiveDirs = reach[LastCluster]
  BY DEF LiveDirs
<1>5. /\ reach[0] = {Root}
      /\ \A k \in 1 .. LastCluster : reach[k] = UNION {below[d] : d \in reach[k-1]}
  <2> HIDE DEF reach, below
  <2>1. QED
    BY <1>1, <1>3 DEF Steps
<1>6. ASSUME NEW k \in 1 .. LastCluster, NEW d \in Clusters, d \in reach[k-1]
      PROVE  /\ d \in reach[k]
             /\ \A l \in Holds(d) : Slot(l).dir /\ FatNext(Slot(l).first) # 0
                                      => Slot(l).first \in reach[k]
  <2> HIDE DEF reach
  <2>1. below[d] \subseteq reach[k]
    <3> HIDE DEF below
    <3>1. QED
      BY <1>5, <1>6
  <2>2. /\ d \in below[d]
        /\ \A l \in Holds(d) : Slot(l).dir /\ FatNext(Slot(l).first) # 0
                                 => Slot(l).first \in below[d]
    OBVIOUS
  <2> HIDE DEF below
  <2>3. QED
    BY <2>1, <2>2
<1> HIDE DEF reach
<1>7. QED
  BY <1>4, <1>5, <1>6

\* Every directory of the tree is reached: with each step one more of them is.
LEMMA TreeIsLive ==
  ASSUME TypeOK, NEW own, NEW pos, Base(own, pos), AllUsed, NEW rank, TreeInv(rank)
  PROVE  \A d : Anchored(d) => d \in LiveDirs
<1>1. PICK reach :
        /\ reach[0] = {Root} /\ LiveDirs = reach[LastCluster]
        /\ \A k \in 1 .. LastCluster, d \in Clusters : d \in reach[k-1] =>
             /\ d \in reach[k]
             /\ \A l \in Holds(d) : Slot(l).dir /\ FatNext(Slot(l).first) # 0
                                      => Slot(l).first \in reach[k]
  BY LiveSteps
<1>2. LastCluster \in Nat /\ IsFiniteSet(Clusters) /\ Cardinality(Clusters) = LastCluster - 1
  BY ClustersAre, Fat32Assumption
<1> DEFINE tree == {d \in Clusters : Anchored(d)}
           part(k) == tree \cap reach[k]
<1>3. \A d : Anchored(d) => d \in tree
  BY AnchoredHead
<1>4. \A k : IsFiniteSet(part(k)) /\ Cardinality(part(k)) \in Nat
             /\ Cardinality(part(k)) <= LastCluster - 1
  <2>1. ASSUME NEW k PROVE part(k) \subseteq Clusters
    OBVIOUS
  <2> HIDE DEF part
  <2>2. QED
    BY <1>2, <2>1, FS_Subset, FS_CardinalityType
<1>5. ASSUME NEW k \in 1 .. LastCluster PROVE part(k-1) \subseteq part(k)
  BY <1>1
<1>6. ASSUME NEW k \in 1 .. LastCluster, tree \ reach[k-1] # {}
      PROVE  Cardinality(part(k)) >= Cardinality(part(k-1)) + 1
  <2> DEFINE far == {rank[d] : d \in tree \ reach[k-1]}
  <2>1. far \subseteq Nat /\ far # {}
    BY <1>6 DEF TreeInv
  <2>2. PICK r \in far : \A s \in far : r <= s
    <3> HIDE DEF far
    <3>1. QED
      BY <2>1, LeastNat
  <2>3. PICK d \in tree \ reach[k-1] : r = rank[d]
    BY <2>2
  <2>4. Root \in reach[k-1]
    <3> DEFINE lost == {i \in 0 .. LastCluster : Root \notin reach[i]}
    <3>1. lost = {}
      <4>1. SUFFICES ASSUME lost # {} PROVE FALSE
        OBVIOUS
      <4>2. PICK i \in lost : \A j \in lost : i <= j
        <5>1. lost \subseteq Nat
          OBVIOUS
        <5> HIDE DEF lost
        <5>2. QED
          BY <4>1, <5>1, LeastNat
      <4>3. i # 0 /\ i \in 1 .. LastCluster /\ i - 1 \in 0 .. LastCluster /\ ~(i <= i - 1)
        BY <1>1, <1>2, <4>2
      <4>4. i - 1 \notin lost
        <5> HIDE DEF lost
        <5>1. QED
          BY <4>2, <4>3
      <4>5. Root \in reach[i-1]
        BY <4>3, <4>4
      <4>6. QED
        BY <1>1, <4>2, <4>3, <4>5, ClustersAre
    <3>2. k - 1 \in 0 .. LastCluster
      BY <1>2
    <3>3. QED
      BY <3>1, <3>2
  <2>5. PICK m \in Others : Slot(m).dir /\ Slot(m).first = d
    BY <2>3, <2>4 DEF Anchored
  <2>6. PICK e \in Clusters : Anchored(e) /\ m \in Holds(e) /\ rank[e] < rank[d]
    BY <2>5 DEF TreeInv, Shown
  <2>7. e \in reach[k-1]
    <3>1. SUFFICES ASSUME e \notin reach[k-1] PROVE FALSE
      OBVIOUS
    <3>2. rank[e] \in far
      BY <2>6, <3>1
    <3>3. rank[d] <= rank[e] /\ rank[d] \in Nat /\ rank[e] \in Nat
      <4> HIDE DEF far
      <4>1. QED
        BY <2>1, <2>2, <2>3, <3>2
    <3>4. QED
      BY <2>6, <3>3
  <2>8. FatNext(Slot(m).first) # 0
    BY <2>5 DEF AllUsed, Others, Used
  <2>9. d \in reach[k]
    BY <1>1, <2>5, <2>6, <2>7, <2>8
  <2>10. d \in part(k) /\ d \notin part(k-1)
    BY <2>3, <2>9
  <2> HIDE DEF part
  <2>11. part(k-1) \cup {d} \subseteq part(k)
    BY <1>5, <2>10
  <2>12. Cardinality(part(k-1) \cup {d}) = Cardinality(part(k-1)) + 1
    BY <1>4, <2>10, FS_AddElement
  <2>13. Cardinality(part(k-1) \cup {d}) <= Cardinality(part(k))
    BY <1>4, <2>11, FS_Subset
  <2>14. QED
    BY <1>4, <2>12, <2>13
<1>7. SUFFICES ASSUME NEW d \in tree, d \notin reach[LastCluster] PROVE FALSE
  BY <1>1, <1>3
<1> DEFINE back == {i \in 0 .. LastCluster : d \in reach[LastCluster - i]}
           low == {k \in 0 .. LastCluster : ~(Cardinality(part(k)) >= k)}
<1>8. \A k \in 0 .. LastCluster : d \notin reach[k]
  <2>1. back = {}
    <3>1. SUFFICES ASSUME back # {} PROVE FALSE
      OBVIOUS
    <3>2. PICK i \in back : \A j \in back : i <= j
      <4>1. back \subseteq Nat
        OBVIOUS
      <4> HIDE DEF back
      <4>2. QED
        BY <3>1, <4>1, LeastNat
    <3>3. i # 0
      BY <1>2, <1>7, <3>2
    <3>4. i - 1 \in 0 .. LastCluster /\ ~(i <= i - 1)
      BY <1>2, <3>2, <3>3
    <3>5. i - 1 \notin back
      <4> HIDE DEF back
      <4>1. QED
        BY <3>2, <3>4
    <3>6. d \notin reach[LastCluster - (i - 1)]
      BY <3>4, <3>5
    <3>7. PICK k : k = LastCluster - (i - 1)
      OBVIOUS
    <3>8. k \in 1 .. LastCluster /\ k - 1 = LastCluster - i
      BY <1>2, <3>2, <3>3, <3>7
    <3>9. d \in reach[k-1]
      BY <3>2, <3>8
    <3>10. QED
      BY <1>1, <3>6, <3>7, <3>8, <3>9
  <2>2. ASSUME NEW k \in 0 .. LastCluster, d \in reach[k] PROVE FALSE
    <3>1. PICK i : i = LastCluster - k
      OBVIOUS
    <3>2. i \in 0 .. LastCluster /\ LastCluster - i = k
      BY <1>2, <3>1
    <3>3. i \in back
      BY <2>2, <3>2
    <3>4. QED
      BY <2>1, <3>3
  <2>3. QED
    BY <2>2
<1>9. low = {}
  <2>1. SUFFICES ASSUME low # {} PROVE FALSE
    OBVIOUS
  <2>2. PICK k \in low : \A j \in low : k <= j
    <3>1. low \subseteq Nat
      OBVIOUS
    <3> HIDE DEF low
    <3>2. QED
      BY <2>1, <3>1, LeastNat
  <2>3. k # 0
    <3>1. k \in Nat /\ ~(Cardinality(part(k)) >= k)
      BY <2>2
    <3> HIDE DEF part, low
    <3>2. Cardinality(part(k)) \in Nat
      BY <1>4
    <3>3. QED
      BY <3>1, <3>2
  <2>4. k \in 1 .. LastCluster /\ k - 1 \in 0 .. LastCluster /\ ~(k <= k - 1)
    BY <1>2, <2>2, <2>3
  <2>5. k - 1 \notin low
    <3> HIDE DEF low
    <3>1. QED
      BY <2>2, <2>4
  <2>6. Cardinality(part(k-1)) >= k - 1
    BY <2>4, <2>5
  <2>7. tree \ reach[k-1] # {}
    BY <1>8, <2>4
  <2>8. Cardinality(part(k)) >= Cardinality(part(k-1)) + 1
    BY <1>6, <2>4, <2>7
  <2> HIDE DEF part
  <2>9. Cardinality(part(k)) >= k
    BY <1>4, <2>4, <2>6, <2>8
  <2>10. QED
    BY <2>2, <2>9
<1>10. Cardinality(part(LastCluster)) >= LastCluster
  <2>1. LastCluster \in 0 .. LastCluster
    BY <1>2
  <2> HIDE DEF part
  <2>2. QED
    BY <1>9, <2>1
<1> HIDE DEF part
<1>11. QED
  BY <1>2, <1>4, <1>10

\* Every entry that names a cluster can be reached.
LEMMA NamedIsEntry ==
  ASSUME Inv, NEW own, NEW pos, Sound(own, pos), Idle, NEW rank, Whole(rank)
  PROVE  Named \subseteq Entries
<1>1. SUFFICES ASSUME NEW l \in Named PROVE l \in Entries
  OBVIOUS
<1>2. TypeOK /\ Base(own, pos) /\ AllUsed
  BY IdleIsWhole
<1>3. TreeInv(rank) /\ l \in Others
  BY IdleOthers DEF Whole, DoneInv
<1>4. PICK d \in Clusters : Anchored(d) /\ l \in Holds(d)
  BY <1>3 DEF TreeInv, Shown
<1>5. d \in LiveDirs
  BY <1>2, <1>3, <1>4, TreeIsLive
<1>6. QED
  BY <1>4, <1>5 DEF Entries

\* A chain goes on to what follows each of its clusters.
LEMMA ChainGoesOn ==
  ASSUME TypeOK, NEW own, NEW pos, Base(own, pos), NEW h \in Clusters,
         NEW b \in ToSet(Chain(h)), FatNext(b) \in Clusters
  PROVE  FatNext(b) \in ToSet(Chain(h))
<1>1. PICK s, m : s = Chain(h) /\ m = Len(s)
  OBVIOUS
<1>2. s \in Seq(Clusters) /\ m \in Nat
  BY <1>1, ChainFacts
<1>3. PICK k \in 1 .. m : b = s[k]
  BY <1>1, <1>2, ToSetIs
<1>4. k # m
  BY <1>1, <1>3, ChainLast DEF Base
<1>5. k \in 1 .. m - 1 /\ k + 1 \in 1 .. m
  BY <1>2, <1>3, <1>4
<1>6. s[k + 1] = FatNext(b)
  BY <1>1, <1>3, <1>5, ChainSteps
<1>7. s[k + 1] \in ToSet(s)
  BY <1>1, <1>2, <1>5, ToSetIs
<1>8. QED
  BY <1>1, <1>6, <1>7

\* A cluster in use is on the chain of the root or of an entry: the first of its chain
\* that is not would belong to nothing.
LEMMA UsedIsOwned ==
  ASSUME Inv, NEW own, NEW pos, Sound(own, pos), Idle, NEW rank, Whole(rank),
         NEW c \in Clusters, Used(c)
  PROVE  c \in ToSet(Chain(Root)) \/ \E l \in Named : c \in ToSet(ChainOf(l))
<1> DEFINE On(x) == x \in ToSet(Chain(Root)) \/ \E l \in Named : x \in ToSet(ChainOf(l))
           lost == {x \in Clusters : Used(x) /\ ~On(x)}
           places == {pos[x] : x \in lost}
<1>1. TypeOK /\ Base(own, pos) /\ Ahead = <<>>
  BY IdleIsWhole
<1>2. SUFFICES ASSUME c \in lost PROVE FALSE
  OBVIOUS
<1>3. pos \in [Clusters -> Nat] /\ TableInv(own, pos)
  BY <1>1 DEF Base, Labels
<1>4. places \subseteq Nat /\ places # {}
  BY <1>2, <1>3
<1>5. PICK p \in places : \A q \in places : p <= q
  <2> HIDE DEF places
  <2>1. QED
    BY <1>4, LeastNat
<1>6. PICK x \in lost : p = pos[x]
  BY <1>5
<1>7. x \in Clusters /\ Used(x) /\ ~On(x)
  BY <1>6
<1>8. Fed(x) /\ Pending = {} /\ ~Owing
  <2>1. Pending = {}
    BY <1>1, FromNone DEF Pending
  <2>2. QED
    BY <1>7, <2>1 DEF Whole, FedInv, Owing, Owes, Idle
<1>9. x # Root
  BY <1>7, HeadIsOn
<1>10. \A l \in Others : Slot(l).first # x
  <2>1. ASSUME NEW l \in Named, Slot(l).first = x PROVE On(x)
    <3>1. ChainOf(l) = Chain(x)
      BY <2>1 DEF ChainOf
    <3>2. x \in ToSet(Chain(x))
      BY <1>7, HeadIsOn
    <3>3. QED
      BY <3>1, <3>2
  <2>2. QED
    BY <1>7, <2>1 DEF Others
<1>11. PICK b \in Clusters : FatNext(b) = x
  BY <1>8, <1>9, <1>10 DEF Fed
<1>12. Used(b) /\ pos[b] < pos[x] /\ pos[b] \in Nat /\ pos[x] \in Nat
  BY <1>3, <1>7, <1>11, ClustersAre DEF TableInv, Used
<1>13. On(b)
  <2>1. SUFFICES ASSUME ~On(b) PROVE FALSE
    OBVIOUS
  <2>2. pos[b] \in places
    BY <1>12, <2>1
  <2>3. pos[x] <= pos[b]
    <3> HIDE DEF places
    <3>1. QED
      BY <1>5, <1>6, <2>2
  <2>4. QED
    BY <1>12, <2>3
<1>14. CASE b \in ToSet(Chain(Root))
  BY <1>1, <1>7, <1>11, <1>14, ChainGoesOn, ClustersAre
<1>15. CASE \E l \in Named : b \in ToSet(ChainOf(l))
  <2>1. PICK l \in Named : b \in ToSet(ChainOf(l))
    BY <1>15
  <2>2. PICK h : h = Slot(l).first
    OBVIOUS
  <2>3. h \in Clusters /\ ChainOf(l) = Chain(h)
    BY <1>1, <2>2, TableType DEF ChainOf
  <2>4. x \in ToSet(Chain(h))
    BY <1>1, <1>7, <1>11, <2>1, <2>3, ChainGoesOn
  <2>5. QED
    BY <1>7, <2>3, <2>4
<1>16. QED
  BY <1>13, <1>14, <1>15

\* What the invariant says between calls.
LEMMA WholeLeaksNothing ==
  ASSUME Inv, ChainsInv, LeakInv PROVE NothingLeaks
<1>1. SUFFICES ASSUME Idle, crashes = 0
               PROVE  /\ Clusters \ FreeClusters
                           = ToSet(Chain(Root)) \cup UNION {ToSet(ChainOf(l)) : l \in Entries}
                      /\ \A l \in Entries :
                           ~Slot(l).dir => Len(ChainOf(l)) = Needed(Slot(l).size)
  BY DEF NothingLeaks
<1>2. PICK own, pos : Sound(own, pos)
  BY DEF ChainsInv
<1>3. PICK rank : Whole(rank)
  BY <1>1 DEF LeakInv
<1>4. TypeOK /\ Base(own, pos) /\ AllUsed
  BY <1>1, <1>2, IdleIsWhole
<1>5. \A c \in Clusters : c \notin FreeClusters <=> Used(c)
  BY DEF FreeClusters, Used
<1>6. ASSUME NEW c \in Clusters, Used(c)
      PROVE  c \in ToSet(Chain(Root)) \/ \E l \in Entries : c \in ToSet(ChainOf(l))
  BY <1>1, <1>2, <1>3, <1>6, UsedIsOwned, NamedIsEntry
<1>7. ASSUME NEW c \in ToSet(Chain(Root)) PROVE c \in Clusters /\ Used(c)
  <2>1. PICK s : s = Chain(Root)
    OBVIOUS
  <2>2. s \in Seq(Clusters) /\ c \in ToSet(s)
    BY <1>7, <2>1, ChainFacts
  <2>3. c \in Clusters
    BY <2>2, ToSetIs
  <2>4. QED
    BY <1>4, <1>7, <2>3, RootLabels
<1>8. ASSUME NEW l \in Entries, NEW c \in ToSet(ChainOf(l)) PROVE c \in Clusters /\ Used(c)
  BY <1>4, <1>8, EntryLabels DEF AllUsed
<1>9. ASSUME NEW l \in Entries, ~Slot(l).dir PROVE Len(ChainOf(l)) = Needed(Slot(l).size)
  <2>1. l \in Places /\ Plain(Slot(l))
    BY <1>9, EntriesAre DEF Plain
  <2>2. l # job.loc
    BY <1>1, <1>3, <2>1, PlaceIsSome DEF Whole, DoneInv
  <2>3. Fits(Slot(l))
    BY <1>3, <2>1, <2>2 DEF Whole, LengthInv
  <2>4. QED
    BY <2>1, <2>3 DEF Fits, ChainOf
<1>10. QED
  BY <1>5, <1>6, <1>7, <1>8, <1>9

-----------------------------------------------------------------------------
\* As long as the power does not fail, nothing leaks: between calls each allocated
\* cluster is on the chain of the root or of a file or directory that is reached from
\* it, and a file has exactly the clusters that its size takes.
THEOREM NothingIsLost == Spec => []NothingLeaks
<1>1. (Inv /\ ChainsInv) /\ LeakInv => NothingLeaks
  BY WholeLeaksNothing
<1>2. QED
  BY <1>1, ChainsHold, LeakHolds, PTL

=============================================================================
