------------------------------- MODULE Mount --------------------------------
(***************************************************************************)
(* Where the file system lies on the disk: the search for the EFI system   *)
(* partition (gpt.c), the values fat32_init takes from the boot sector,    *)
(* and the arithmetic from a cluster to its sectors and from the table to  *)
(* a free cluster (fat32.c).  Module Fat32 takes all this for granted.     *)
(*                                                                         *)
(* A partition table is what partitioning tools write, with the unused     *)
(* entries of its last sector zero, and a volume what a formatting program *)
(* makes: its table has room for its clusters, and more.                   *)
(***************************************************************************)
EXTENDS Integers, Sequences, FiniteSetsExt

CONSTANTS
  PartitionTables,    \* [per_sector, entries]: entries in a sector, and all of them
  Volumes,            \* the fields of the boot sector that are used
  TableEntries        \* entries in a sector of the FAT

\* fat32_init's data_start, of a boot sector.
DataStart(b) == b.reserved + b.fats * b.fat_sectors

\* A volume has room for its tables, and its tables for all its clusters; an entry
\* of the partition table is not larger than a sector (gpt.c refuses others).
ASSUME VolumesAssumption ==
  /\ TableEntries \in Nat \ {0}
  /\ \A b \in Volumes :
       /\ b.reserved \in Nat /\ b.fats \in Nat /\ b.fat_sectors \in Nat
       /\ b.cluster_sectors \in Nat \ {0}
       /\ b.total \in Nat /\ DataStart(b) <= b.total
       /\ (b.total - DataStart(b)) \div b.cluster_sectors + 2
            <= b.fat_sectors * TableEntries
  /\ \A t \in PartitionTables :
       /\ t.per_sector \in Nat \ {0}
       /\ t.entries \in Seq([type : STRING, start : Nat])

VARIABLES
  mounted,
  gpt,                \* the disk: its partition table, or NoGpt
  bpb,                \* the boot sector of the volume that was found
  partition_base, fat_start, data_start,
  used                \* the clusters whose table entry is not 0

mountVars == <<mounted, gpt, bpb, partition_base, fat_start, data_start, used>>

NoGpt == [per_sector |-> 1, entries |-> << >>]
NoVolume == [reserved |-> 0, fats |-> 0, fat_sectors |-> 0,
             cluster_sectors |-> 1, total |-> 0]
Unused == [type |-> "unused", start |-> 0]

MountInit ==
  /\ mounted = FALSE
  /\ gpt = NoGpt /\ bpb = NoVolume
  /\ partition_base = 0 /\ fat_start = 0 /\ data_start = 0
  /\ used = {}

-----------------------------------------------------------------------------
(* gpt_find_esp.                                                           *)

\* The entry at a place of the table's sectors.
EntryAt(table, s, i) ==
  LET k == s * table.per_sector + i + 1
  IN  IF k \in DOMAIN table.entries THEN table.entries[k] ELSE Unused

\* Mutant: a last sector that is not full is not looked at.
sectors_to_scan_Down(table) == Len(table.entries) \div table.per_sector

sectors_to_scan(table) ==
  (Len(table.entries) + table.per_sector - 1) \div table.per_sector

\* Sector by sector and entry by entry, the first one of the type; 0 stands for
\* the volume that begins with the disk.
gpt_find_esp(table) ==
  LET Hits(s) == {i \in 0 .. table.per_sector - 1 : EntryAt(table, s, i).type = "esp"}
      sectors == {s \in 0 .. sectors_to_scan(table) - 1 : Hits(s) # {}}
  IN  IF sectors = {} THEN 0
      ELSE EntryAt(table, Min(sectors), Min(Hits(Min(sectors)))).start

-----------------------------------------------------------------------------
(* fat32.c.                                                                *)

fat32_init ==
  /\ ~mounted
  /\ gpt' \in PartitionTables \cup {NoGpt}
  /\ bpb' \in Volumes
  /\ partition_base' = gpt_find_esp(gpt')
  /\ fat_start' = bpb'.reserved
  /\ data_start' = DataStart(bpb')
  /\ mounted' = TRUE
  /\ UNCHANGED used

cluster_to_lba(cluster) == data_start + (cluster - 2) * bpb.cluster_sectors

\* Mutant: the reserved entries 0 and 1 are counted as clusters.
total_clusters_All == bpb.total \div bpb.cluster_sectors

total_clusters == (bpb.total - data_start) \div bpb.cluster_sectors

\* The scan of the whole table, which ends at the volume's last cluster; the
\* entries behind it are 0 as well.
find_free_cluster ==
  LET entries == 0 .. bpb.fat_sectors * TableEntries - 1
      free == {c \in entries : c >= 2 /\ c \notin used}
  IN  IF free = {} \/ Min(free) >= total_clusters + 2 THEN 0 ELSE Min(free)

\* allocate_cluster marks what it found; a full disk leaves everything alone.
Allocate ==
  /\ mounted
  /\ used' = used \cup ({find_free_cluster} \ {0})
  /\ UNCHANGED <<mounted, gpt, bpb, partition_base, fat_start, data_start>>

\* free_chain_from, of a chain of one.
Free(cluster) ==
  /\ mounted /\ cluster \in used
  /\ used' = used \ {cluster}
  /\ UNCHANGED <<mounted, gpt, bpb, partition_base, fat_start, data_start>>

MountNext == fat32_init \/ Allocate \/ \E cluster \in used : Free(cluster)

MountSpec == MountInit /\ [][MountNext]_mountVars

-----------------------------------------------------------------------------
(* Properties                                                              *)

\* The variables stay in their types.
MountTypeOK ==
  /\ mounted \in BOOLEAN
  /\ gpt \in PartitionTables \cup {NoGpt}
  /\ bpb \in Volumes \cup {NoVolume}
  /\ partition_base \in Nat /\ fat_start \in Nat /\ data_start \in Nat
  /\ used \subseteq 2 .. bpb.fat_sectors * TableEntries - 1

\* The first partition of that type that the table lists, by its numbering.
Listed(table) == {k \in DOMAIN table.entries : table.entries[k].type = "esp"}

\* The volume is the first system partition of the disk, or the whole disk.
PartitionIsFirst ==
  partition_base = IF Listed(gpt) = {} THEN 0 ELSE gpt.entries[Min(Listed(gpt))].start

\* The sectors of a cluster and of the volume's data, on the disk.
Sectors(cluster) ==
  {partition_base + cluster_to_lba(cluster) + s : s \in 0 .. bpb.cluster_sectors - 1}
Data == partition_base + data_start .. partition_base + bpb.total - 1

\* The clusters that are given out have sectors of their own, behind the tables
\* and before the end of the volume, though the table goes on behind it.
ClustersApart ==
  \A c \in used :
    /\ Sectors(c) \subseteq Data
    /\ \A d \in used : c # d => Sectors(c) \cap Sectors(d) = {}

\* No cluster is given out twice, and the disk is called full only when every
\* cluster that lies in it is used.
FullMeansFull ==
  /\ find_free_cluster \notin used
  /\ find_free_cluster = 0 =>
       \A c \in 2 .. bpb.total + 1 : Sectors(c) \subseteq Data => c \in used

\* What fat32.c takes for its volume is one, and what it takes for a cluster lies
\* in it.
ClustersInVolume == mounted => PartitionIsFirst /\ ClustersApart /\ FullMeansFull
=============================================================================
