------------------------------- MODULE Fat32 -------------------------------
(***************************************************************************)
(* The FAT32 driver (fat32.c): files and directories of one volume.  A     *)
(* call computes from what it reads which sectors to write, and the writes *)
(* reach the medium one at a time: the unit of atomicity here is the       *)
(* sector, so the power may fail between any two of them.  Calls do not    *)
(* overlap: only process 0 touches the disk.                               *)
(*                                                                         *)
(* A cluster is one sector.  It is seen both as a directory (dirs) and as  *)
(* file data (data); what it holds in the other role, or while it is free, *)
(* is the one value Stale, for the code never looks there.                 *)
(***************************************************************************)
EXTENDS Integers, Sequences, SequencesExt, FiniteSetsExt

CONSTANTS LastCluster,    \* the volume has clusters 2 .. LastCluster
          Root,           \* bpb.root_cluster
          Copies,         \* bpb.fat_count
          Slots,          \* directory entries to a cluster
          ClusterBytes,   \* bytes to a cluster
          Names,          \* the names users type
          Sizes,          \* how many bytes they write; a size has one text
          MaxCrashes      \* bound: power failures in a behaviour

EOC == 268435455     \* 0x0FFFFFFF: no cluster has this number

ASSUME Fat32Assumption ==
  /\ LastCluster \in Nat /\ LastCluster < EOC /\ Root \in 2 .. LastCluster
  /\ Copies \in Nat \ {0} /\ Slots \in Nat \ {0, 1} /\ ClusterBytes \in Nat \ {0}
  /\ Sizes \subseteq Nat /\ MaxCrashes \in Nat
  /\ \A n \in Names : n.stem \notin {".", ".."}   \* a stem ends at the first dot

VARIABLES
  fat,      \* the FAT copies: copy |-> cluster |-> 0, the next cluster or EOC
  dirs,     \* cluster |-> its directory entries
  data,     \* cluster |-> its file data
  cwd,      \* current_dir_cluster
  path,     \* cwd_path, a component at a time
  job,      \* the call in progress and its local variables
  todo,     \* the sector writes it has yet to issue before it reads again
  last,     \* the last call that returned, and what it returned
  crashes   \* how often the power failed

vars == <<fat, dirs, data, cwd, path, job, todo, last, crashes>>
disk == <<fat, dirs, data>>

Clusters == 2 .. LastCluster

(***************************************************************************)
(* Names.  A typed name has a stem of up to 8 characters, a tail (what is  *)
(* longer than 8, up to 3 characters) and an extension; on disk a name is  *)
(* a stem and an extension.                                                *)
(***************************************************************************)
NoName == <<"", "">>
DotDot == [stem |-> "", tail |-> "", ext |-> "."]

\* build_fat_name stops at 8 characters; what follows is then not a dot.
BuildName(n) == <<n.stem, IF n.tail = "" THEN n.ext ELSE "">>

\* The matching inside fat32_read_file lets the stem run on into the extension.
ReadName(n) == <<n.stem, IF n.ext = "" THEN n.tail ELSE n.ext>>

(***************************************************************************)
(* What the code reads: FAT copy 1 only, entries up to the first end mark. *)
(***************************************************************************)
EndMark == [state |-> "end", name |-> NoName, dir |-> FALSE, first |-> 0, size |-> 0]
Deleted == [EndMark EXCEPT !.state = "deleted"]
Entry(name, dir, first, size) ==
  [state |-> "used", name |-> name, dir |-> dir, first |-> first, size |-> size]
EmptyDir == [i \in 1 .. Slots |-> EndMark]
StaleDir == [i \in 1 .. Slots |-> Entry(<<"?", "">>, TRUE, 0, 0)]
StaleData == <<"?">>

FatNext(c) == fat[1][c]

\* The walk along the chain from c: it stays where the chain ends.
Follow(x) == IF x \in Clusters THEN FatNext(x) ELSE x
Walk(c) ==
  LET hop[k \in 1 .. LastCluster] == IF k = 1 THEN c ELSE Follow(hop[k-1])
  IN  hop

\* The clusters of the chain from c, in order.
Chain(c) ==
  LET hop == Walk(c)
      inside == {n \in 0 .. LastCluster : \A k \in 1 .. n : hop[k] \in Clusters}
  IN  [k \in 1 .. Max(inside) |-> hop[k]]

\* The entry slots along a chain: which of its clusters, and which slot of that.
Positions(chain) == (1 .. Len(chain)) \X (1 .. Slots)
Before(p, q) == p[1] < q[1] \/ (p[1] = q[1] /\ p[2] < q[2])

\* Where a slot is on the disk: <<cluster, index>>.
Place(chain, p) == <<chain[p[1]], p[2]>>
Slot(l) == dirs[l[1]][l[2]]
NoPlace == <<0, 0>>

\* The place of the first of the positions ps.
First(chain, ps) ==
  IF ps = {} THEN NoPlace
  ELSE Place(chain, CHOOSE p \in ps : \A q \in ps : ~Before(q, p))

\* The used entries of a directory, up to the end mark.
Listed(chain) ==
  LET state(p) == Slot(Place(chain, p)).state
  IN  {p \in Positions(chain) :
         /\ state(p) = "used"
         /\ \A q \in Positions(chain) : Before(q, p) => state(q) # "end"}

FindEntry(d, name) ==
  LET chain == Chain(d)
  IN  First(chain, {p \in Listed(chain) : Slot(Place(chain, p)).name = name})
FindFreeSlot(d) ==
  LET chain == Chain(d)
  IN  First(chain, {p \in Positions(chain) : Slot(Place(chain, p)).state # "used"})

IsDot(e) == e.name \in {<<".", "">>, <<"..", "">>}
Holds(d) ==
  LET chain == Chain(d)
  IN  {l \in {Place(chain, p) : p \in Listed(chain)} : ~IsDot(Slot(l))}
DirIsEmpty(d) == Holds(d) = {}

FreeClusters == {c \in Clusters : FatNext(c) = 0}
FindFreeCluster == IF FreeClusters = {} THEN 0 ELSE Min(FreeClusters)

(***************************************************************************)
(* What it writes, as sequences of sector writes.  An entry of the table   *)
(* is written to the first copy, then to the next, and so on.              *)
(***************************************************************************)
SetFat(c, v) == << <<"fat", 1, c, v>> >>
SetSlot(l, e) == << <<"slot", l, e>> >>

\* Mutant: the cluster is zeroed and not claimed.
Allocate_Unclaimed(c) == << <<"zero", c>> >>
Allocate(c) == SetFat(c, EOC) \o << <<"zero", c>> >>
Extend(lastOf, c) == Allocate(c) \o SetFat(lastOf, c)

FreeChain(c) ==
  LET chain == Chain(c)
  IN  [k \in 1 .. Len(chain) |-> <<"fat", 1, chain[k], 0>>]

\* Mutant: only the first copy is kept up to date.
Rest_FirstCopy(writes) == Tail(writes)

\* What is left to write after the first of these.
Rest(writes) ==
  LET w == Head(writes)
  IN  (IF w[1] = "fat" /\ w[2] < Copies THEN << <<"fat", w[2] + 1, w[3], w[4]>> >>
                                        ELSE <<>>) \o Tail(writes)

Frees(w) == w[1] = "fat" /\ w[2] = 1 /\ w[4] = 0
Put(w) ==
  /\ fat' = IF w[1] = "fat" THEN [fat EXCEPT ![w[2]][w[3]] = w[4]] ELSE fat
  /\ dirs' = CASE w[1] = "slot" -> [dirs EXCEPT ![w[2][1]][w[2][2]] = w[3]]
               [] w[1] = "zero" -> [dirs EXCEPT ![w[2]] = EmptyDir]
               [] w[1] = "seed" -> [dirs EXCEPT ![w[2]] = w[3]]
               [] w[1] = "data" -> [dirs EXCEPT ![w[2]] = StaleDir]
               [] Frees(w) -> [dirs EXCEPT ![w[3]] = StaleDir]
               [] OTHER -> dirs
  /\ data' = CASE w[1] = "data" -> [data EXCEPT ![w[2]] = w[3]]
               [] w[1] = "zero" -> [data EXCEPT ![w[2]] = <<>>]
               [] Frees(w) -> [data EXCEPT ![w[3]] = StaleData]
               [] OTHER -> data

-----------------------------------------------------------------------------
(***************************************************************************)
(* Calls.  job.at is where the call goes on once todo is empty.            *)
(***************************************************************************)
NoJob == [call |-> "idle", at |-> "", name |-> DotDot, size |-> 0, loc |-> NoPlace,
          first |-> 0, prev |-> 0, cluster |-> 0, used |-> 0, ret |-> 0]
NoCall == [call |-> "none", name |-> DotDot, size |-> 0, ret |-> 0]

\* A formatted volume with no files.
Init ==
  /\ fat = [k \in 1 .. Copies |-> [c \in Clusters |-> IF c = Root THEN EOC ELSE 0]]
  /\ dirs = [c \in Clusters |-> IF c = Root THEN EmptyDir ELSE StaleDir]
  /\ data = [c \in Clusters |-> IF c = Root THEN <<>> ELSE StaleData]
  /\ cwd = Root /\ path = <<>>
  /\ job = NoJob /\ todo = <<>>
  /\ last = NoCall
  /\ crashes = 0

Begin(j, writes) == /\ job' = j /\ todo' = writes /\ last' = NoCall
                    /\ UNCHANGED <<fat, dirs, data, cwd, path, crashes>>

Goto(at, writes) == Begin([job EXCEPT !.at = at], writes)

Return(result) ==
  /\ job' = NoJob /\ todo' = <<>> /\ last' = result
  /\ UNCHANGED <<fat, dirs, data, cwd, path, crashes>>

Idle == job.call = "idle"
Ready(at) == job.at = at /\ todo = <<>>

\* Issue the next sector write.
WriteSector ==
  /\ todo # <<>>
  /\ Put(Head(todo))
  /\ todo' = Rest(todo)
  /\ UNCHANGED <<cwd, path, job, last, crashes>>

\* find_free_dir_slot: a free slot, or else the first slot of a new cluster.
RoomIn(d) ==
  IF FindFreeSlot(d) # NoPlace THEN FindFreeSlot(d)
  ELSE IF FindFreeCluster # 0 THEN <<FindFreeCluster, 1>> ELSE NoPlace

RoomWrites(d) ==
  IF FindFreeSlot(d) # NoPlace THEN <<>>
  ELSE Extend(Chain(d)[Len(Chain(d))], FindFreeCluster)

-----------------------------------------------------------------------------
(***************************************************************************)
(* fat32_write_file                                                        *)
(***************************************************************************)
Needed(size) == (size + ClusterBytes - 1) \div ClusterBytes
Written == Min({job.size, job.used * ClusterBytes})

WriteFile(call, n, size) ==
  LET name == BuildName(n)
      found == FindEntry(cwd, name)
      start == [NoJob EXCEPT !.call = call, !.at = "body", !.name = n,
                             !.size = size]
      result(r) == [call |-> call, name |-> n, size |-> size, ret |-> r]
  IN  \/ /\ found # NoPlace /\ Slot(found).dir
         /\ Return(result(-1))
      \/ /\ found # NoPlace /\ ~Slot(found).dir
         /\ Begin([start EXCEPT !.loc = found, !.first = Slot(found).first,
                                !.cluster = Slot(found).first], <<>>)
      \/ /\ found = NoPlace /\ RoomIn(cwd) # NoPlace
         /\ Begin([start EXCEPT !.loc = RoomIn(cwd)],
                  RoomWrites(cwd) \o SetSlot(RoomIn(cwd), Entry(name, FALSE, 0, 0)))
      \/ /\ found = NoPlace /\ RoomIn(cwd) = NoPlace
         /\ Return(result(-2))

Write(n, size) == Idle /\ WriteFile("write", n, size)

\* cmd_touch: leave the file alone if a read finds it, else write no bytes.
Touch(n) ==
  /\ Idle
  /\ FindEntry(cwd, ReadName(n)) = NoPlace
  /\ WriteFile("touch", n, 0)

WriteNothing ==
  /\ Ready("body") /\ job.size = 0
  /\ Begin([job EXCEPT !.at = "entry", !.first = 0], FreeChain(job.first))

\* Mutant: a fresh cluster is not linked to the one before it.
WriteCluster_Unlinked ==
  /\ Ready("body") /\ job.used < Needed(job.size)
  /\ LET fresh == job.cluster \notin Clusters
         c == IF fresh THEN FindFreeCluster ELSE job.cluster
     IN  /\ c # 0
         /\ Begin([job EXCEPT !.first = IF fresh /\ job.prev = 0 THEN c ELSE job.first,
                              !.prev = c, !.used = job.used + 1,
                              !.cluster = IF fresh THEN EOC ELSE FatNext(c)],
                  (IF fresh THEN Allocate(c) ELSE <<>>)
                    \o << <<"data", c, <<job.size, job.used + 1>> >> >>)

\* One round of the loop: the next cluster of the old chain, or a fresh one.
WriteCluster ==
  /\ Ready("body") /\ job.used < Needed(job.size)
  /\ LET fresh == job.cluster \notin Clusters
         c == IF fresh THEN FindFreeCluster ELSE job.cluster
     IN  /\ c # 0
         /\ Begin([job EXCEPT !.first = IF fresh /\ job.prev = 0 THEN c ELSE job.first,
                              !.prev = c, !.used = job.used + 1,
                              !.cluster = IF fresh THEN EOC ELSE FatNext(c)],
                  (IF fresh THEN Allocate(c) ELSE <<>>)
                    \o (IF fresh /\ job.prev # 0 THEN SetFat(job.prev, c) ELSE <<>>)
                    \o << <<"data", c, <<job.size, job.used + 1>> >> >>)

DiskFull == job.cluster \notin Clusters /\ FindFreeCluster = 0

\* Mutants: the rest is freed and not cut off; a full disk does not end the loop.
WriteTrim_NotCut ==
  /\ Ready("body") /\ job.size > 0
  /\ job.used = Needed(job.size) \/ DiskFull
  /\ Goto("entry", FreeChain(job.cluster))
WriteTrim_FullSpins ==
  /\ Ready("body") /\ job.size > 0
  /\ job.used = Needed(job.size)
  /\ Goto("entry", (IF job.prev # 0 THEN SetFat(job.prev, EOC) ELSE <<>>)
                     \o FreeChain(job.cluster))

\* The loop is over: cut the old chain here and free the rest of it.
WriteTrim ==
  /\ Ready("body") /\ job.size > 0
  /\ job.used = Needed(job.size) \/ DiskFull
  /\ Goto("entry", (IF job.prev # 0 THEN SetFat(job.prev, EOC) ELSE <<>>)
                     \o FreeChain(job.cluster))

\* Mutant: the entry is given the last cluster, not the first.
WriteEntry_LastCluster ==
  /\ Ready("entry")
  /\ Begin([job EXCEPT !.at = "return", !.ret = Written],
           SetSlot(job.loc, [Slot(job.loc) EXCEPT !.first = job.cluster,
                                                  !.size = Written]))

WriteEntry ==
  /\ Ready("entry")
  /\ Begin([job EXCEPT !.at = "return", !.ret = Written],
           SetSlot(job.loc, [Slot(job.loc) EXCEPT !.first = job.first,
                                                  !.size = Written]))

CallReturn ==
  /\ Ready("return")
  /\ Return([call |-> job.call, name |-> job.name, size |-> job.size,
             ret |-> job.ret])

-----------------------------------------------------------------------------
(***************************************************************************)
(* fat32_mkdir, fat32_rmdir, fat32_remove_file                             *)
(***************************************************************************)
Result(call, n, r) == [NoCall EXCEPT !.call = call, !.name = n, !.ret = r]

\* The two entries a new directory at c starts with.
Seed(c) == [EmptyDir EXCEPT
              ![1] = Entry(<<".", "">>, TRUE, c, 0),
              ![2] = Entry(<<"..", "">>, TRUE, IF cwd = Root THEN 0 ELSE cwd, 0)]

Mkdir(n) ==
  /\ Idle
  /\ LET c == FindFreeCluster
     IN  \/ /\ FindEntry(cwd, BuildName(n)) # NoPlace
            /\ Return(Result("mkdir", n, -1))
         \/ /\ FindEntry(cwd, BuildName(n)) = NoPlace /\ c = 0
            /\ Return(Result("mkdir", n, -2))
         \/ /\ FindEntry(cwd, BuildName(n)) = NoPlace /\ c # 0
            /\ Begin([NoJob EXCEPT !.call = "mkdir", !.at = "slot", !.name = n,
                                   !.first = c],
                     Allocate(c) \o << <<"seed", c, Seed(c)>> >>)

MkdirEntry ==
  /\ Ready("slot") /\ RoomIn(cwd) # NoPlace
  /\ Begin([job EXCEPT !.at = "return", !.loc = RoomIn(cwd)],
           RoomWrites(cwd)
             \o SetSlot(RoomIn(cwd), Entry(BuildName(job.name), TRUE, job.first, 0)))

\* Mutant: the new directory's cluster is not given back.
MkdirFull_Leaks ==
  /\ Ready("slot") /\ RoomIn(cwd) = NoPlace
  /\ Begin([job EXCEPT !.at = "return", !.ret = -2], <<>>)

MkdirFull ==
  /\ Ready("slot") /\ RoomIn(cwd) = NoPlace
  /\ Begin([job EXCEPT !.at = "return", !.ret = -2], FreeChain(job.first))

\* Mutant: the entry is not written back.
Delete_EntryStays(call, n, l) ==
  Begin([NoJob EXCEPT !.call = call, !.at = "return", !.name = n, !.loc = l],
        FreeChain(Slot(l).first))

\* Both calls free the chain first and then mark the entry deleted.
Delete(call, n, l) ==
  Begin([NoJob EXCEPT !.call = call, !.at = "return", !.name = n, !.loc = l],
        FreeChain(Slot(l).first) \o SetSlot(l, Deleted))

Rmdir(n) ==
  LET l == FindEntry(cwd, BuildName(n))
      target == IF Slot(l).first = 0 THEN Root ELSE Slot(l).first
      refused == IF l = NoPlace THEN -1
                 ELSE IF ~Slot(l).dir THEN -2
                 ELSE IF target = cwd THEN -4
                 ELSE IF ~DirIsEmpty(target) THEN -3 ELSE 0
  IN  /\ Idle
      /\ \/ refused # 0 /\ Return(Result("rmdir", n, refused))
         \/ refused = 0 /\ Delete("rmdir", n, l)

RemoveFile(n) ==
  LET l == FindEntry(cwd, BuildName(n))
      refused == IF l = NoPlace THEN -1 ELSE IF Slot(l).dir THEN -2 ELSE 0
  IN  /\ Idle
      /\ \/ refused # 0 /\ Return(Result("remove", n, refused))
         \/ refused = 0 /\ Delete("remove", n, l)

-----------------------------------------------------------------------------
(***************************************************************************)
(* fat32_change_dir                                                        *)
(***************************************************************************)
\* Mutant: the prompt's path is forgotten.
ChangeToRoot_KeepsPath ==
  /\ Idle
  /\ cwd' = Root
  /\ last' = NoCall
  /\ UNCHANGED <<fat, dirs, data, path, job, todo, crashes>>

ChangeToRoot ==
  /\ Idle
  /\ cwd' = Root /\ path' = <<>>
  /\ last' = NoCall
  /\ UNCHANGED <<fat, dirs, data, job, todo, crashes>>

\* A ".." takes a component off the path, any other name is added as typed.
ChangeDir(n) ==
  LET l == FindEntry(cwd, BuildName(n))
      refused == IF l = NoPlace THEN -1 ELSE IF ~Slot(l).dir THEN -2 ELSE 0
  IN  /\ Idle
      /\ last' = Result("cd", n, refused)
      /\ IF refused # 0 THEN UNCHANGED <<cwd, path>>
         ELSE /\ cwd' = IF Slot(l).first = 0 THEN Root ELSE Slot(l).first
              /\ path' = IF n # DotDot THEN Append(path, n)
                         ELSE IF path = <<>> THEN path ELSE Front(path)
      /\ UNCHANGED <<fat, dirs, data, job, todo, crashes>>

-----------------------------------------------------------------------------
(***************************************************************************)
(* What is on the volume.                                                  *)
(***************************************************************************)
\* The directories reachable from the root, and the entries they list.  One that
\* rmdir has begun to free is empty.
LiveDirs ==
  LET below == [d \in Clusters |->
                  {d} \cup {Slot(l).first : l \in {m \in Holds(d) :
                                Slot(m).dir /\ FatNext(Slot(m).first) # 0}}]
      reach[k \in 0 .. LastCluster] ==
        IF k = 0 THEN {Root} ELSE UNION {below[d] : d \in reach[k-1]}
  IN  reach[LastCluster]
Entries == UNION {Holds(d) : d \in LiveDirs}

\* The entries on the medium, in a live directory or in the remains of one.
Kept == {l \in Clusters \X (1 .. Slots) : Slot(l).state = "used" /\ ~IsDot(Slot(l))}

ChainOf(l) == Chain(Slot(l).first)
Dangles(l) == \E c \in ToSet(ChainOf(l)) : FatNext(c) = 0

\* fat32_read_file: the clusters it copies to the buffer.
ReadFile(n) ==
  LET l == FindEntry(cwd, ReadName(n))
  IN  [k \in 1 .. Len(ChainOf(l)) |-> data[ChainOf(l)[k]]]

(***************************************************************************)
(* The power fails and the machine is booted again.  When an entry is left *)
(* naming free clusters the next allocation may hand them out twice: such  *)
(* a volume wants repair, and the model leaves the machine off.            *)
(***************************************************************************)
Off == [NoJob EXCEPT !.call = "off"]

Crash ==
  /\ job.call # "off" /\ crashes < MaxCrashes
  /\ crashes' = crashes + 1
  /\ job' = IF \E l \in Kept : Dangles(l) THEN Off ELSE NoJob
  /\ todo' = <<>> /\ cwd' = Root /\ path' = <<>> /\ last' = NoCall
  /\ UNCHANGED disk

-----------------------------------------------------------------------------
Step == \/ WriteSector \/ WriteNothing \/ WriteCluster \/ WriteTrim
        \/ WriteEntry \/ MkdirEntry \/ MkdirFull \/ CallReturn

Call == \/ \E n \in Names, size \in Sizes : Write(n, size)
        \/ \E n \in Names : \/ Touch(n) \/ Mkdir(n) \/ Rmdir(n) \/ RemoveFile(n)
        \/ \E n \in Names \cup {DotDot} : ChangeDir(n)
        \/ ChangeToRoot

Next == Step \/ Call \/ Crash

Spec == Init /\ [][Next]_vars

\* The driver is straight code of process 0, which does not starve (ReadyRuns).
FairSpec == Spec /\ WF_vars(Step)

-----------------------------------------------------------------------------
(***************************************************************************)
(* Properties                                                              *)
(***************************************************************************)

Places == Clusters \X (1 .. Slots)
Links == {0, EOC} \cup Clusters
Firsts == {0} \cup Clusters
EntryNames == {NoName, <<".", "">>, <<"..", "">>, <<"?", "">>}
                \cup {BuildName(n) : n \in Names}
EntryType == [state : {"end", "deleted", "used"}, name : EntryNames,
              dir : BOOLEAN, first : Firsts, size : Nat]
JobType == [call : {"idle", "off", "write", "touch", "mkdir", "rmdir", "remove"},
            at : {"", "body", "slot", "entry", "return"},
            name : Names \cup {DotDot}, size : Nat, loc : Places \cup {NoPlace},
            first : Firsts, prev : Firsts, cluster : Links, used : Nat, ret : Int]
WriteType == ({"fat"} \X (1 .. Copies) \X Clusters \X Links)
               \cup ({"slot"} \X Places \X EntryType)
               \cup ({"zero"} \X Clusters)
               \cup ({"seed"} \X Clusters \X [1 .. Slots -> EntryType])
               \cup ({"data"} \X Clusters \X (Nat \X Nat))

\* FAT entries, directory entries, and the entries a call is about to write, name
\* clusters of the volume.
TypeOK ==
  /\ fat \in [1 .. Copies -> [Clusters -> Links]]
  /\ dirs \in [Clusters -> [1 .. Slots -> EntryType]]
  /\ cwd \in Clusters
  /\ job \in JobType
  /\ todo \in Seq(WriteType)
  /\ crashes \in 0 .. MaxCrashes

\* After every single sector write, power failures included, no cluster belongs
\* to two files or directories, and no chain runs in a circle.
NoCrossLinks ==
  /\ \A l, m \in Entries :
       l # m => ToSet(ChainOf(l)) \cap ToSet(ChainOf(m)) = {}
  /\ \A l \in Entries : ToSet(ChainOf(l)) \cap ToSet(Chain(Root)) = {}
  /\ \A l \in Entries : IsInjective(ChainOf(l))

\* Only the entry that a delete or an overwrite is working on may name free
\* clusters, and only until that call returns.  The same power failure that is
\* harmless everywhere else loses the volume in this window.
OnlyTargetDangles ==
  \A l \in Entries :
    Dangles(l) => /\ job.call \in {"write", "touch", "rmdir", "remove", "off"}
                  /\ job.call # "off" => l = job.loc

\* Without a power failure, between calls every allocated cluster belongs to
\* something, and a file's chain is exactly as long as its size says.
NothingLeaks ==
  Idle /\ crashes = 0 =>
    /\ Clusters \ FreeClusters
         = ToSet(Chain(Root)) \cup UNION {ToSet(ChainOf(l)) : l \in Entries}
    /\ \A l \in Entries : ~Slot(l).dir => Len(ChainOf(l)) = Needed(Slot(l).size)

\* The FAT copies are in lockstep: they differ in at most the entry being
\* written, and in one more entry for each power failure.
Apart == {c \in Clusters : \E k \in 1 .. Copies : fat[k][c] # fat[1][c]}
CopiesAgree == Cardinality(Apart) <= crashes + (IF Idle THEN 0 ELSE 1)

\* The volume is well formed: its entries name clusters of it, and its copies of
\* the table are in lockstep.
VolumeWellFormed == TypeOK /\ CopiesAgree

\* No sector write lands on a cluster of a file or directory, nor on a FAT or
\* directory entry, other than those of the call's target; extending the current
\* directory changes its own chain as well.
Hit(w) == IF w[1] = "fat" THEN w[3] ELSE w[2]
WritesStayOnTarget ==
  todo # <<>> =>
    LET w == Head(todo)
        extends == w[1] = "fat" /\ w[3] \in ToSet(Chain(cwd)) /\ w[4] \in Clusters
    IN  IF w[1] = "slot" THEN w[2] = job.loc
        ELSE extends \/ /\ Hit(w) \notin ToSet(Chain(Root))
                        /\ \A l \in Entries \ {job.loc} : Hit(w) \notin ToSet(ChainOf(l))

\* What a write stored, or the part of it that fitted, is what a read returns.
WrittenIsRead ==
  last.call = "write" /\ last.ret > 0
    => ReadFile(last.name) = [k \in 1 .. Needed(last.ret) |-> <<last.size, k>>]

\* A call falls short, or finds no room, only on a full volume; a mkdir that
\* gave its own cluster back may leave that one.
ShortOnlyWhenFull ==
  /\ last.call \in {"write", "touch"} /\ last.ret \in {-2} \cup 0 .. last.size - 1
       => FreeClusters = {}
  /\ last.call = "mkdir" /\ last.ret = -2 => Cardinality(FreeClusters) <= 1

\* The prompt's path, followed from the root, leads to the current directory,
\* which is therefore never one that was removed.
PathNamesCwd ==
  LET at[k \in 0 .. Len(path)] ==
        IF k = 0 THEN Root ELSE Slot(FindEntry(at[k-1], BuildName(path[k]))).first
  IN  at[Len(path)] = cwd

\* The number a write returns is honest both ways: as many bytes are on the disk,
\* and fewer than were asked for only because the disk is full.
WriteIsHonest == WrittenIsRead /\ ShortOnlyWhenFull

\* Every call returns.
CallsReturn == job.call \notin {"idle", "off"} ~> job.call \in {"idle", "off"}

\* fat32.c:466-469: ".." is one of the names change_dir takes; below the root it
\* is always there.
ParentIsReachable ==
  last.call = "cd" /\ last.name = DotDot /\ cwd # Root => last.ret = 0

\* shell.c:300-301: touch does not clobber an existing file's contents just
\* because it already exists.
Contents(l) == [k \in 1 .. Len(ChainOf(l)) |-> data[ChainOf(l)[k]]]
Intact(l) == /\ Slot(l)' = Slot(l)
             /\ ~Slot(l).dir => Contents(l)' = Contents(l)
TouchClobbersNothing ==
  [][job.call = "touch" => /\ Entries \subseteq Entries'
                          /\ \A l \in Entries : Intact(l)]_vars
=============================================================================
