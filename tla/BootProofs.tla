----------------------------- MODULE BootProofs ------------------------------
(***************************************************************************)
(* Proofs about the parts that run while the machine comes up: Mount, for  *)
(* every partition table, volume and sector size that VolumesAssumption    *)
(* allows, Memory, for every memory map and every size of a page, Disk,    *)
(* for any limits of the waits, and Acpi, for every table with a package   *)
(* of the compiler's; and about Loader, for every disk of linked files.    *)
(***************************************************************************)
EXTENDS Mount, Memory, Disk, Acpi, Loader,
  FiniteSetTheorems, WellFoundedInduction, SequenceTheorems, TLAPS

-----------------------------------------------------------------------------
(* Arithmetic.                                                             *)

LEMMA Division ==
  ASSUME NEW a \in Nat, NEW b \in Nat \ {0}
  PROVE  /\ a \div b \in Nat
         /\ (a \div b) * b <= a
         /\ a < (a \div b) * b + b
BY SMT

LEMMA Product ==
  ASSUME NEW a \in Nat, NEW b \in Nat, NEW n \in Nat, a <= b
  PROVE  a * n \in Nat /\ b * n \in Nat /\ a * n <= b * n
BY SMT

LEMMA ProductStep ==
  ASSUME NEW a \in Nat, NEW n \in Nat
  PROVE  (a + 1) * n = a * n + n
BY SMT

LEMMA Divides ==
  ASSUME NEW a \in Nat, NEW b \in Nat \ {0}, a % b = 0
  PROVE  a \div b \in Nat /\ a = (a \div b) * b
BY SMT

LEMMA SumIs ==
  ASSUME NEW a \in Nat, NEW b \in Nat, NEW n \in Nat, a < n, b < n
  PROVE  (a + b) % n = IF a + b < n THEN a + b ELSE a + b - n
<1>1. CASE a + b < n
  BY <1>1
<1>2. CASE a + b >= n
  BY <1>2
<1>3. QED
  BY <1>1, <1>2

LEMMA DivGrows ==
  ASSUME NEW a \in Nat, NEW d \in Nat, NEW n \in Nat \ {0}
  PROVE  a \div n <= (a + d) \div n
<1> DEFINE p == a \div n
           q == (a + d) \div n
<1>1. p \in Nat /\ p * n <= a /\ q \in Nat /\ a + d < q * n + n
  BY Division
<1> HIDE DEF p, q
<1>2. SUFFICES ASSUME q + 1 <= p PROVE FALSE
  BY <1>1 DEF p, q
<1>3. (q + 1) * n = q * n + n /\ (q + 1) * n <= p * n
  BY <1>1, <1>2, Product, ProductStep
<1>4. q * n \in Nat /\ p * n \in Nat
  BY <1>1, Product
<1>5. QED
  BY <1>1, <1>3, <1>4

\* Every set of naturals has a least element,
LEMMA LeastNat ==
  ASSUME NEW S, S \subseteq Nat, S # {}
  PROVE  \E i \in S : \A j \in S : i <= j
<1>1. \E i \in S : \A j \in S : ~(<<j, i>> \in OpToRel(<, Nat))
  BY WFMin, NatLessThanWellFounded
<1>2. PICK i \in S : \A j \in S : ~(<<j, i>> \in OpToRel(<, Nat))
  BY <1>1
<1>3. ASSUME NEW j \in S PROVE i <= j
  <2>1. <<j, i>> \notin {ss \in Nat \X Nat : ss[1] < ss[2]}
    BY <1>2, <1>3, Zenon DEF OpToRel
  <2>2. QED
    BY <2>1
<1>4. QED
  BY <1>2, <1>3

\* which is its Min.
LEMMA MinNat ==
  ASSUME NEW S, S \subseteq Nat, S # {}
  PROVE  Min(S) \in S /\ \A j \in S : Min(S) <= j
BY LeastNat DEF Min

\* Max is in its set and above the rest of it, when the set has a bound.
LEMMA MaxIsIn ==
  ASSUME NEW n \in Nat, NEW S, S \subseteq 0 .. n, S # {}
  PROVE  Max(S) \in S /\ \A j \in S : Max(S) >= j
<1> DEFINE gaps == {n - i : i \in S}
<1>1. gaps \subseteq Nat /\ gaps # {}
  <2>1. PICK e \in S : TRUE
    OBVIOUS
  <2>2. n - e \in gaps
    BY <2>1
  <2>3. gaps # {}
    BY <2>2
  <2>4. \A i \in S : n - i \in Nat
    OBVIOUS
  <2>5. QED
    BY <2>3, <2>4
<1>2. PICK g \in gaps : \A h \in gaps : g <= h
  <2> HIDE DEF gaps
  <2>1. QED
    BY <1>1, LeastNat
<1>3. PICK i \in S : g = n - i
  BY <1>2
<1>4. \A j \in S : i >= j
  BY <1>2, <1>3
<1>5. QED
  BY <1>3, <1>4 DEF Max

-----------------------------------------------------------------------------
(* gpt_find_esp: the scan by sectors finds what the table lists first.     *)

IsTable(t) ==
  /\ t.per_sector \in Nat \ {0}
  /\ t.entries \in Seq([type : STRING, start : Nat])

LEMMA EntryFacts ==
  ASSUME NEW t, IsTable(t), NEW s \in Nat, NEW i \in Nat
  PROVE  /\ s * t.per_sector + i + 1 \in Nat
         /\ EntryAt(t, s, i).type = "esp" <=> s * t.per_sector + i + 1 \in Listed(t)
         /\ EntryAt(t, s, i).type = "esp"
              => EntryAt(t, s, i) = t.entries[s * t.per_sector + i + 1]
<1>1. s * t.per_sector \in Nat
  BY Product DEF IsTable
<1>2. QED
  BY <1>1 DEF EntryAt, Listed, Unused

LEMMA FindEsp ==
  ASSUME NEW t, IsTable(t)
  PROVE  gpt_find_esp(t) = IF Listed(t) = {} THEN 0 ELSE t.entries[Min(Listed(t))].start
<1> DEFINE P == t.per_sector
           L == Len(t.entries)
           N == sectors_to_scan(t)
           Hits(s) == {i \in 0 .. P - 1 : EntryAt(t, s, i).type = "esp"}
           sectors == {s \in 0 .. N - 1 : Hits(s) # {}}
<1>1. /\ P \in Nat \ {0} /\ L \in Nat /\ DOMAIN t.entries = 1 .. L
      /\ Listed(t) \subseteq 1 .. L
  BY DEF IsTable, Listed
<1>2. N \in Nat /\ L - 1 < N * P
  <2>1. L + P - 1 \in Nat
    BY <1>1
  <2>2. L + P - 1 < ((L + P - 1) \div P) * P + P /\ (L + P - 1) \div P \in Nat
    BY <1>1, <2>1, Division
  <2>3. N = (L + P - 1) \div P
    BY DEF sectors_to_scan
  <2>4. N * P \in Nat
    BY <1>1, <2>2, <2>3, Product
  <2>5. QED
    BY <1>1, <2>2, <2>3, <2>4
<1>3. gpt_find_esp(t) = IF sectors = {} THEN 0
                        ELSE EntryAt(t, Min(sectors), Min(Hits(Min(sectors)))).start
  BY DEF gpt_find_esp
<1>4. ASSUME NEW s \in Nat, NEW i \in Nat
      PROVE  /\ EntryAt(t, s, i).type = "esp" <=> s * P + i + 1 \in Listed(t)
             /\ EntryAt(t, s, i).type = "esp" => EntryAt(t, s, i) = t.entries[s * P + i + 1]
  BY EntryFacts
<1> HIDE DEF N, P, L
<1>5. CASE Listed(t) = {}
  <2>1. ASSUME NEW s \in 0 .. N - 1 PROVE Hits(s) = {}
    <3>1. ASSUME NEW i \in Hits(s) PROVE FALSE
      <4>1. s \in Nat /\ i \in Nat /\ EntryAt(t, s, i).type = "esp"
        BY <1>1, <1>2
      <4>2. QED
        BY <1>4, <1>5, <4>1
    <3>2. QED
      BY <3>1
  <2>2. QED
    BY <1>3, <1>5, <2>1
<1>6. CASE Listed(t) # {}
  <2> DEFINE m == Min(Listed(t))
             s0 == (m - 1) \div P
             i0 == (m - 1) - s0 * P
             S == Min(sectors)
             I == Min(Hits(S))
             k == S * P + I + 1
  <2>1. m \in Listed(t) /\ m \in 1 .. L /\ \A j \in Listed(t) : m <= j
    BY <1>1, <1>6, MinNat
  <2> HIDE DEF m
  <2>2. /\ s0 \in Nat /\ s0 * P \in Nat
        /\ s0 * P <= m - 1 /\ m - 1 < s0 * P + P
    <3>1. m - 1 \in Nat
      BY <1>1, <2>1
    <3>2. QED
      <4>1. s0 \in Nat /\ s0 * P <= m - 1 /\ m - 1 < s0 * P + P
        BY <1>1, <3>1, Division
      <4>2. s0 * P \in Nat
        BY <1>1, <4>1, Product
      <4>3. QED
        BY <4>1, <4>2
  <2> HIDE DEF s0
  <2>3. i0 \in 0 .. P - 1 /\ s0 * P + i0 + 1 = m
    BY <1>1, <2>1, <2>2
  <2> HIDE DEF i0
  <2>4. i0 \in Hits(s0)
    <3>1. i0 \in Nat /\ s0 * P + i0 + 1 \in Listed(t)
      BY <1>1, <2>1, <2>3
    <3>2. EntryAt(t, s0, i0).type = "esp"
      BY <1>4, <2>2, <3>1
    <3>3. QED
      BY <2>3, <3>2
  <2>5. s0 < N
    <3>1. ASSUME N <= s0 PROVE FALSE
      <4>1. N * P \in Nat /\ N * P <= s0 * P
        BY <1>1, <1>2, <2>2, <3>1, Product
      <4>2. QED
        BY <1>1, <1>2, <2>1, <2>2, <4>1
    <3>2. QED
      BY <1>2, <2>2, <3>1
  <2>6. s0 \in sectors
    BY <1>2, <2>2, <2>4, <2>5
  <2>7. S \in sectors /\ S \in Nat /\ S <= s0
    <3>1. sectors \subseteq Nat
      BY <1>2
    <3> HIDE DEF sectors
    <3>2. QED
      BY <2>6, <3>1, MinNat
  <2> HIDE DEF S
  <2>8. I \in Hits(S) /\ I \in 0 .. P - 1 /\ \A j \in Hits(S) : I <= j
    <3>1. Hits(S) # {} /\ Hits(S) \subseteq Nat /\ Hits(S) \subseteq 0 .. P - 1
      BY <1>1, <2>7
    <3> HIDE DEF Hits
    <3>2. QED
      BY <3>1, MinNat
  <2> HIDE DEF I
  <2>9. k \in Listed(t) /\ EntryAt(t, S, I) = t.entries[k]
    <3>1. S \in Nat /\ I \in Nat /\ EntryAt(t, S, I).type = "esp"
      BY <1>1, <2>7, <2>8
    <3>2. QED
      BY <1>4, <3>1
  <2>10. S * P \in Nat
    BY <1>1, <2>7, Product
  <2>11. S = s0
    <3>1. ASSUME S + 1 <= s0 PROVE FALSE
      <4>1. S * P + P <= s0 * P
        <5>1. (S + 1) * P = S * P + P
          BY <1>1, <2>7, ProductStep
        <5>2. (S + 1) * P <= s0 * P
          BY <1>1, <2>2, <2>7, <3>1, Product
        <5>3. QED
          BY <5>1, <5>2
      <4>2. k < m
        BY <1>1, <2>1, <2>2, <2>8, <2>10, <4>1
      <4>3. m <= k
        BY <2>1, <2>9
      <4>4. QED
        BY <1>1, <2>1, <2>8, <2>10, <4>2, <4>3
    <3>2. QED
      BY <2>2, <2>7, <3>1
  <2>12. I <= i0
    BY <2>4, <2>8, <2>11
  <2>13. k = m
    <3>1. m <= k
      BY <2>1, <2>9
    <3>2. k <= m
      BY <1>1, <2>2, <2>3, <2>8, <2>11, <2>12
    <3>3. QED
      BY <1>1, <2>1, <2>8, <2>10, <3>1, <3>2
  <2>14. sectors # {}
    BY <2>6
  <2>15. gpt_find_esp(t) = EntryAt(t, S, I).start
    BY <1>3, <2>14 DEF S, I
  <2>16. QED
    BY <1>6, <2>9, <2>13, <2>15 DEF m
<1>7. QED
  BY <1>5, <1>6

-----------------------------------------------------------------------------
(* The geometry of the clusters.                                           *)

\* What fat32_init leaves behind.
MountedInv ==
  /\ bpb \in Volumes
  /\ gpt \in PartitionTables \cup {NoGpt}
  /\ partition_base = gpt_find_esp(gpt)
  /\ data_start = DataStart(bpb)

Clusters == 2 .. total_clusters + 1

LEMMA ElementOf ==
  ASSUME NEW T, NEW q \in Seq(T), NEW i \in DOMAIN q
  PROVE  q[i] \in T
OBVIOUS

LEMMA PartitionFound ==
  ASSUME MountedInv
  PROVE  PartitionIsFirst /\ partition_base \in Nat
<1>1. IsTable(gpt)
  <2>1. CASE gpt \in PartitionTables
    BY <2>1, VolumesAssumption DEF IsTable
  <2>2. CASE gpt = NoGpt
    <3>1. gpt.per_sector = 1 /\ gpt.entries = << >>
      BY <2>2 DEF NoGpt
    <3>2. << >> \in Seq([type : STRING, start : Nat])
      OBVIOUS
    <3>3. QED
      BY <3>1, <3>2 DEF IsTable
  <2>3. QED
    BY <2>1, <2>2 DEF MountedInv
<1>2. PartitionIsFirst
  BY <1>1, FindEsp DEF MountedInv, PartitionIsFirst
<1>3. CASE Listed(gpt) # {}
  <2>1. Listed(gpt) \subseteq Nat /\ Listed(gpt) \subseteq DOMAIN gpt.entries
    <3>1. DOMAIN gpt.entries = 1 .. Len(gpt.entries) /\ Len(gpt.entries) \in Nat
      BY <1>1 DEF IsTable
    <3>2. QED
      BY <3>1 DEF Listed
  <2>2. Min(Listed(gpt)) \in DOMAIN gpt.entries
    BY <1>3, <2>1, MinNat
  <2>3. gpt.entries[Min(Listed(gpt))] \in [type : STRING, start : Nat]
    BY <1>1, <2>2, ElementOf DEF IsTable
  <2>4. QED
    BY <1>2, <1>3, <2>3 DEF PartitionIsFirst
<1>4. QED
  BY <1>2, <1>3 DEF PartitionIsFirst

\* The numbers that the volume's sectors are counted with.
LEMMA VolumeNumbers ==
  ASSUME MountedInv
  PROVE  /\ data_start \in Nat /\ bpb.total \in Nat /\ data_start <= bpb.total
         /\ bpb.cluster_sectors \in Nat \ {0}
         /\ total_clusters \in Nat
         /\ total_clusters * bpb.cluster_sectors \in Nat
         /\ total_clusters * bpb.cluster_sectors <= bpb.total - data_start
         /\ bpb.total - data_start
              < total_clusters * bpb.cluster_sectors + bpb.cluster_sectors
         /\ bpb.fat_sectors * TableEntries \in Nat
         /\ total_clusters + 2 <= bpb.fat_sectors * TableEntries
<1>1. /\ bpb.total \in Nat /\ data_start <= bpb.total
      /\ bpb.cluster_sectors \in Nat \ {0}
      /\ total_clusters + 2 <= bpb.fat_sectors * TableEntries
      /\ bpb.fat_sectors \in Nat /\ TableEntries \in Nat
      /\ bpb.reserved \in Nat /\ bpb.fats \in Nat
  BY VolumesAssumption DEF MountedInv, total_clusters
<1>2. data_start \in Nat
  <2>1. bpb.fats * bpb.fat_sectors \in Nat
    BY <1>1, Product
  <2>2. QED
    BY <1>1, <2>1 DEF MountedInv, DataStart
<1>3. bpb.total - data_start \in Nat
  BY <1>1, <1>2
<1>4. /\ total_clusters \in Nat
      /\ total_clusters * bpb.cluster_sectors <= bpb.total - data_start
      /\ bpb.total - data_start
           < total_clusters * bpb.cluster_sectors + bpb.cluster_sectors
  BY <1>1, <1>3, Division DEF total_clusters
<1>5. total_clusters * bpb.cluster_sectors \in Nat
  BY <1>1, <1>4, Product
<1>6. bpb.fat_sectors * TableEntries \in Nat
  BY <1>1, Product
<1>7. QED
  BY <1>1, <1>2, <1>4, <1>5, <1>6

\* The first sector of a cluster, counted from the data area.
Offset(c) == (c - 2) * bpb.cluster_sectors

LEMMA Sector ==
  ASSUME MountedInv, NEW c \in Nat, 2 <= c
  PROVE  /\ Offset(c) \in Nat
         /\ Sectors(c) = {partition_base + data_start + Offset(c) + s :
                            s \in 0 .. bpb.cluster_sectors - 1}
<1>1. c - 2 \in Nat /\ bpb.cluster_sectors \in Nat
  BY VolumeNumbers
<1>2. Offset(c) \in Nat
  BY <1>1, Product DEF Offset
<1>3. cluster_to_lba(c) = data_start + Offset(c)
  BY DEF cluster_to_lba, Offset
<1>4. \A s \in 0 .. bpb.cluster_sectors - 1 :
        partition_base + cluster_to_lba(c) + s = partition_base + data_start + Offset(c) + s
  BY <1>1, <1>2, <1>3, VolumeNumbers, PartitionFound
<1>5. QED
  BY <1>2, <1>4 DEF Sectors

\* A cluster ends before the next one begins.
LEMMA OffsetGrows ==
  ASSUME MountedInv, NEW c \in Nat, NEW d \in Nat, 2 <= c, c < d
  PROVE  Offset(c) + bpb.cluster_sectors <= Offset(d)
<1>1. c - 2 \in Nat /\ d - 2 \in Nat /\ (c - 2) + 1 <= d - 2 /\ bpb.cluster_sectors \in Nat
  BY VolumeNumbers
<1>2. ((c - 2) + 1) * bpb.cluster_sectors = (c - 2) * bpb.cluster_sectors + bpb.cluster_sectors
  BY <1>1, ProductStep
<1>3. ((c - 2) + 1) * bpb.cluster_sectors <= (d - 2) * bpb.cluster_sectors
  BY <1>1, Product
<1>4. QED
  BY <1>2, <1>3 DEF Offset

\* The clusters that there are lie apart in the data area, and no other does.
LEMMA ClusterInData ==
  ASSUME MountedInv, NEW c \in Clusters
  PROVE  Sectors(c) \subseteq Data
<1> DEFINE n == bpb.cluster_sectors
           base == partition_base + data_start
<1>1. /\ c \in Nat /\ 2 <= c /\ c < total_clusters + 2
      /\ total_clusters \in Nat /\ total_clusters + 2 \in Nat
  BY VolumeNumbers DEF Clusters
<1>2. Offset(c) + n <= Offset(total_clusters + 2)
  BY <1>1, OffsetGrows
<1>3. (total_clusters + 2) - 2 = total_clusters
  BY <1>1
<1>4. Offset(total_clusters + 2) = total_clusters * n
  BY <1>3 DEF Offset
<1>5. Offset(c) + n <= bpb.total - data_start /\ Offset(c) \in Nat
  BY <1>1, <1>2, <1>4, VolumeNumbers, Sector
<1>6. ASSUME NEW s \in 0 .. n - 1
      PROVE  base + Offset(c) + s \in Data
  BY <1>5, VolumeNumbers, PartitionFound DEF Data
<1>7. Sectors(c) = {base + Offset(c) + s : s \in 0 .. n - 1}
  BY <1>1, Sector
<1>8. QED
  BY <1>6, <1>7

LEMMA SmallerApart ==
  ASSUME MountedInv, NEW c \in Nat, NEW d \in Nat, 2 <= c, c < d
  PROVE  Sectors(c) \cap Sectors(d) = {}
<1> DEFINE n == bpb.cluster_sectors
           base == partition_base + data_start
<1>1. /\ Offset(c) + n <= Offset(d)
      /\ Offset(c) \in Nat /\ Offset(d) \in Nat
  BY OffsetGrows, Sector
<1>2. ASSUME NEW s \in 0 .. n - 1, NEW r \in 0 .. n - 1
      PROVE  base + Offset(c) + s # base + Offset(d) + r
  BY <1>1, VolumeNumbers, PartitionFound
<1>3. /\ Sectors(c) = {base + Offset(c) + s : s \in 0 .. n - 1}
      /\ Sectors(d) = {base + Offset(d) + s : s \in 0 .. n - 1}
  BY Sector
<1>4. QED
  BY <1>2, <1>3

LEMMA NoOtherInData ==
  ASSUME MountedInv, NEW c \in Nat, 2 <= c, Sectors(c) \subseteq Data
  PROVE  c \in Clusters
<1> DEFINE n == bpb.cluster_sectors
           base == partition_base + data_start
<1>1. /\ n \in Nat \ {0} /\ n - 1 \in 0 .. n - 1
      /\ Offset(c) \in Nat /\ partition_base \in Nat /\ data_start \in Nat
  BY VolumeNumbers, PartitionFound, Sector
<1>2. base + Offset(c) + (n - 1) \in Data
  BY <1>1, Sector
<1>3. Offset(c) + n <= bpb.total - data_start
  BY <1>1, <1>2, VolumeNumbers DEF Data
<1>4. ASSUME total_clusters + 2 <= c PROVE FALSE
  <2>1. total_clusters \in Nat /\ c - 2 \in Nat /\ total_clusters <= c - 2
    BY <1>4, VolumeNumbers
  <2>2. total_clusters * n <= (c - 2) * n
    BY <1>1, <2>1, Product
  <2>3. total_clusters * n <= Offset(c)
    BY <2>2 DEF Offset
  <2>4. QED
    BY <1>1, <1>3, <2>3, VolumeNumbers
<1>5. QED
  BY <1>4, VolumeNumbers DEF Clusters

-----------------------------------------------------------------------------
(* The scan for a free cluster.                                            *)

LEMMA ScanFinds ==
  ASSUME MountedInv
  PROVE  /\ find_free_cluster # 0 => find_free_cluster \in Clusters \ used
         /\ find_free_cluster = 0 => Clusters \subseteq used
<1> DEFINE unused == {c \in 0 .. bpb.fat_sectors * TableEntries - 1 : c >= 2 /\ c \notin used}
<1>1. unused \subseteq Nat /\ \A c \in unused : 2 <= c /\ c \notin used
  BY VolumeNumbers
<1>2. \A c \in Clusters \ used : c \in unused
  BY VolumeNumbers DEF Clusters
<1>3. find_free_cluster = IF unused = {} \/ Min(unused) >= total_clusters + 2 THEN 0
                          ELSE Min(unused)
  BY DEF find_free_cluster
<1> HIDE DEF unused
<1>4. CASE unused = {}
  BY <1>2, <1>3, <1>4
<1>5. CASE unused # {}
  <2>1. Min(unused) \in unused /\ \A c \in unused : Min(unused) <= c
    BY <1>1, <1>5, MinNat
  <2>2. Min(unused) \in Nat /\ 2 <= Min(unused) /\ Min(unused) \notin used
    BY <1>1, <2>1
  <2>3. CASE Min(unused) >= total_clusters + 2
    <3>1. ASSUME NEW c \in Clusters \ used PROVE FALSE
      <4>1. Min(unused) <= c
        BY <1>2, <2>1, <3>1
      <4>2. QED
        BY <2>2, <2>3, <3>1, <4>1, VolumeNumbers DEF Clusters
    <3>2. QED
      BY <1>3, <2>3, <3>1
  <2>4. CASE ~(Min(unused) >= total_clusters + 2)
    <3>1. Min(unused) \in Clusters
      BY <2>2, <2>4, VolumeNumbers DEF Clusters
    <3>2. QED
      BY <1>3, <1>5, <2>2, <2>4, <3>1
  <2>5. QED
    BY <2>3, <2>4
<1>6. QED
  BY <1>4, <1>5

-----------------------------------------------------------------------------
(* The invariant.                                                          *)

MountInv ==
  /\ mounted \in BOOLEAN
  /\ mounted => MountedInv /\ used \subseteq Clusters
  /\ ~mounted => used = {}

THEOREM MountInvariance == MountSpec => []MountInv
<1>1. MountInit => MountInv
  BY DEF MountInit, MountInv
<1>2. MountInv /\ [MountNext]_mountVars => MountInv'
  <2> SUFFICES ASSUME MountInv, [MountNext]_mountVars PROVE MountInv'
    OBVIOUS
  <2>1. CASE fat32_init
    <3>1. MountedInv'
      BY <2>1 DEF fat32_init, MountedInv, gpt_find_esp
    <3>2. used' = {} /\ mounted' = TRUE
      BY <2>1 DEF fat32_init, MountInv
    <3>3. QED
      BY <3>1, <3>2 DEF MountInv
  <2>2. ASSUME mounted, UNCHANGED <<mounted, gpt, bpb, partition_base, fat_start, data_start>>
        PROVE  MountedInv' /\ Clusters' = Clusters /\ mounted'
    BY <2>2 DEF MountInv, MountedInv, Clusters, total_clusters
  <2>3. CASE Allocate
    <3>1. /\ mounted /\ used' = used \cup ({find_free_cluster} \ {0})
          /\ UNCHANGED <<mounted, gpt, bpb, partition_base, fat_start, data_start>>
      BY <2>3 DEF Allocate
    <3>2. used' \subseteq Clusters
      BY <3>1, ScanFinds DEF MountInv
    <3>3. QED
      BY <2>2, <3>1, <3>2 DEF MountInv
  <2>4. ASSUME NEW c \in used, Free(c) PROVE MountInv'
    <3>1. /\ mounted /\ used' \subseteq used
          /\ UNCHANGED <<mounted, gpt, bpb, partition_base, fat_start, data_start>>
      BY <2>4 DEF Free
    <3>2. QED
      BY <2>2, <3>1 DEF MountInv
  <2>5. CASE UNCHANGED mountVars
    BY <2>5 DEF mountVars, MountInv, MountedInv, Clusters, total_clusters
  <2>6. QED
    BY <2>1, <2>3, <2>4, <2>5 DEF MountNext
<1>3. QED
  BY <1>1, <1>2, PTL DEF MountSpec

\* The volume is the first system partition of the disk (gpt.c:74-87), its
\* clusters are handed out inside it and apart from each other (fat32.c:79-81,
\* 115-130), and all of them are, before the disk is called full.
THEOREM ClustersStayInVolume == MountSpec => []ClustersInVolume
<1>1. MountInv => ClustersInVolume
  <2> SUFFICES ASSUME MountInv, mounted
               PROVE  PartitionIsFirst /\ ClustersApart /\ FullMeansFull
    BY DEF ClustersInVolume
  <2>1. MountedInv /\ used \subseteq Clusters
    BY DEF MountInv
  <2>2. \A c \in used : c \in Nat /\ 2 <= c
    BY <2>1, VolumeNumbers DEF Clusters
  <2>3. ClustersApart
    <3>1. ASSUME NEW c \in used PROVE Sectors(c) \subseteq Data
      BY <2>1, <3>1, ClusterInData
    <3>2. ASSUME NEW c \in used, NEW d \in used, c # d
          PROVE  Sectors(c) \cap Sectors(d) = {}
      <4>1. CASE c < d
        BY <2>1, <2>2, <4>1, SmallerApart
      <4>2. CASE d < c
        BY <2>1, <2>2, <4>2, SmallerApart
      <4>3. QED
        BY <2>2, <3>2, <4>1, <4>2
    <3>3. QED
      BY <3>1, <3>2 DEF ClustersApart
  <2>4. FullMeansFull
    <3>1. find_free_cluster \notin used
      BY <2>1, <2>2, ScanFinds
    <3>2. ASSUME find_free_cluster = 0, NEW c \in 2 .. bpb.total + 1, Sectors(c) \subseteq Data
          PROVE  c \in used
      <4>1. c \in Nat /\ 2 <= c
        BY <2>1, VolumeNumbers
      <4>2. QED
        BY <2>1, <3>2, <4>1, NoOtherInData, ScanFinds
    <3>3. QED
      BY <3>1, <3>2 DEF FullMeansFull
  <2>5. QED
    BY <2>1, <2>3, <2>4, PartitionFound
<1>2. QED
  BY <1>1, MountInvariance, PTL

-----------------------------------------------------------------------------
(* Memory, for every memory map of disjoint regions, however many there are *)
(* and wherever they begin and end.                                        *)

(***************************************************************************)
(* That the heap is given all the pages it lives in is a matter of         *)
(* counting: the free pages below its end are never more than those it has *)
(* still to ask for, and it is given the lowest one each time.             *)
(***************************************************************************)
Above(address) == (address + PAGE_SIZE - 1) \div PAGE_SIZE
HeapEnd == Above(HEAP_START + HEAP_SIZE)
HeapPages == HEAP_SIZE \div PAGE_SIZE

MemoryInv ==
  /\ MemoryTypeOK
  /\ free_page_count = Cardinality(free)
  /\ boot = "pmm_init" => free = {}
  /\ boot # "pmm_init" => free \cap (0 .. KernelEnd \div PAGE_SIZE) = {}
  /\ boot \in {"pmm_init", "pmm_reserve_region"} => left = HeapPages
  /\ boot \in {"heap_init", "up"} =>
       /\ free \cap Window(UserMin, UserMax) = {}
       /\ Cardinality(Below(free, HeapEnd)) <= left
  /\ boot = "up" => left = 0

\* The pages of the bitmap are numbers from 0 on, and finitely many.
LEMMA PagesAreFinite ==
  ASSUME NEW total \in Nat, NEW pages, pages \subseteq 0 .. total - 1
  PROVE  IsFiniteSet(pages) /\ Cardinality(pages) \in Nat
<1>1. IsFiniteSet(0 .. total - 1)
  BY FS_Interval
<1>2. IsFiniteSet(pages)
  BY <1>1, FS_Subset
<1>3. QED
  BY <1>2, FS_CardinalityType

LEMMA PageNumbers ==
  /\ \A address \in Nat : address \div PAGE_SIZE \in Nat /\ Above(address) \in Nat
  /\ HeapEnd \in Nat /\ HeapPages \in Nat
<1>1. ASSUME NEW address \in Nat
      PROVE  address \div PAGE_SIZE \in Nat /\ Above(address) \in Nat
  <2>1. address + PAGE_SIZE - 1 \in Nat
    BY MemoryAssumption
  <2>2. QED
    BY <2>1, Division, MemoryAssumption DEF Above
<1>2. QED
  BY <1>1, MemoryAssumption DEF HeapEnd, HeapPages

LEMMA RegionNumbers ==
  ASSUME NEW r \in Region
  PROVE  r[1] \in Nat /\ r[2] \in Nat /\ r[2] - r[1] \in Nat
<1>1. r \in Edges \X Edges /\ r[1] < r[2]
  BY DEF Region
<1>2. r[1] \in Edges /\ r[2] \in Edges
  BY <1>1
<1>3. r[1] \in Nat /\ r[2] \in Nat
  BY <1>2, MemoryAssumption
<1>4. QED
  BY <1>1, <1>3

\* A region that ends before another begins has its pages before the other's,
\* although the length of each is rounded down.
LEMMA PagesApart ==
  ASSUME NEW r \in Region, NEW s \in Region, r[2] <= s[1]
  PROVE  Pages(r) \cap Pages(s) = {}
<1> DEFINE P == PAGE_SIZE
           start == r[1] \div P
           count == (r[2] - r[1]) \div P
           next  == s[1] \div P
<1>1. /\ P \in Nat \ {0} /\ r[1] \in Nat /\ r[2] \in Nat /\ s[1] \in Nat /\ s[2] \in Nat
      /\ r[2] - r[1] \in Nat /\ s[2] - s[1] \in Nat
  BY RegionNumbers, MemoryAssumption
<1>2. /\ start \in Nat /\ start * P <= r[1]
      /\ count \in Nat /\ count * P <= r[2] - r[1]
      /\ next \in Nat /\ s[1] < next * P + P
      /\ (s[2] - s[1]) \div P \in Nat
  BY <1>1, Division
<1> HIDE DEF start, count, next
<1>3. (start + count) * P <= s[1]
  BY <1>1, <1>2
<1>4. start + count <= next
  <2>1. SUFFICES ASSUME next + 1 <= start + count PROVE FALSE
    BY <1>2
  <2>2. (next + 1) * P <= (start + count) * P
    BY <1>1, <1>2, <2>1, Product
  <2>3. (next + 1) * P = next * P + P
    BY <1>1, <1>2, ProductStep
  <2>4. (start + count) * P \in Nat /\ next * P \in Nat
    BY <1>1, <1>2, Product
  <2>5. QED
    BY <1>1, <1>2, <1>3, <2>2, <2>3, <2>4
<1>5. Pages(r) = start .. start + count - 1
  BY DEF Pages, start, count
<1>6. \A p \in Pages(s) : p >= next
  BY <1>1, <1>2 DEF Pages, next
<1>7. QED
  BY <1>2, <1>4, <1>5, <1>6

\* So many regions end somewhere.
LEMMA RegionsBounded ==
  ASSUME NEW n \in Nat, NEW map, \A i \in 1 .. n : map[i] \in Region
  PROVE  \E u \in Nat : \A i \in 1 .. n : map[i][2] <= u
<1> DEFINE Bound(m) == \E u \in Nat : \A i \in 1 .. m : map[i][2] <= u
           bad == {m \in 0 .. n : ~Bound(m)}
<1>0. bad \subseteq Nat /\ \A m \in 0 .. n : m \notin bad => Bound(m)
  OBVIOUS
<1>1. bad = {}
  <2>1. SUFFICES ASSUME bad # {} PROVE FALSE
    OBVIOUS
  <2>2. PICK m \in bad : \A k \in bad : m <= k
    <3> HIDE DEF bad
    <3>1. QED
      BY <1>0, <2>1, LeastNat
  <2>3. m \in 0 .. n /\ ~Bound(m)
    BY <2>2
  <2>4. m # 0
    <3>1. Bound(0)
      OBVIOUS
    <3>2. QED
      BY <2>3, <3>1
  <2>5. m - 1 \in 0 .. n /\ m - 1 \notin bad
    <3> HIDE DEF bad
    <3>1. QED
      BY <2>2, <2>3, <2>4
  <2>6. PICK u \in Nat : \A i \in 1 .. m - 1 : map[i][2] <= u
    <3> HIDE DEF bad
    <3>1. QED
      BY <1>0, <2>5
  <2>7. map[m][2] \in Nat
    BY <2>3, <2>4, RegionNumbers
  <2> DEFINE v == u + map[m][2]
  <2>8. v \in Nat /\ \A i \in 1 .. m : map[i][2] <= v
    <3>1. ASSUME NEW i \in 1 .. m PROVE map[i][2] <= v
      <4>1. map[i][2] \in Nat
        BY <2>3, RegionNumbers
      <4>2. CASE i = m
        BY <2>7, <4>2
      <4>3. CASE i # m
        <5>1. i \in 1 .. m - 1
          BY <2>3, <4>3
        <5>2. map[i][2] <= u
          BY <2>6, <5>1
        <5>3. QED
          BY <2>7, <4>1, <5>2
      <4>4. QED
        BY <4>2, <4>3
    <3>2. QED
      BY <2>7, <3>1
  <2>9. Bound(m)
    BY <2>8
  <2>10. QED
    BY <2>3, <2>9
<1>2. n \in 0 .. n /\ n \notin bad
  <2> HIDE DEF bad
  <2>1. QED
    BY <1>1
<1>3. QED
  <2> HIDE DEF bad
  <2>1. QED
    BY <1>0, <1>2

\* The numbers of a memory map: its end, and what a region has of it.
LEMMA MapFacts ==
  ASSUME NEW map \in Maps
  PROVE  /\ Len(map) \in Nat /\ DOMAIN map = 1 .. Len(map)
         /\ \A i \in DOMAIN map : map[i] \in Region
         /\ Total(map) \in Nat
         /\ \A i \in DOMAIN map : Usable(map, i) \subseteq 0 .. Total(map) - 1
         /\ \A i, j \in DOMAIN map : i # j => Usable(map, i) \cap Usable(map, j) = {}
         /\ \A p \in 0 .. KernelEnd \div PAGE_SIZE : p \in Taken(Total(map))
<1>1. PICK n \in 1 .. MaxRegions : map \in [1 .. n -> Region]
  BY DEF Maps
<1>2. n \in Nat
  BY <1>1, MemoryAssumption
<1>3. Len(map) = n /\ DOMAIN map = 1 .. n
  BY <1>1, <1>2
<1>4. \A i \in DOMAIN map : map[i] \in Region
  BY <1>1, <1>3
<1>5. Total(map) \in Nat
  <2> DEFINE ends == {map[i][2] : i \in DOMAIN map}
  <2>1. ends \subseteq Nat
    BY <1>4, RegionNumbers
  <2>2. map[1][2] \in ends
    BY <1>1, <1>3
  <2>3. PICK u \in Nat : \A i \in 1 .. n : map[i][2] <= u
    BY <1>2, <1>3, <1>4, RegionsBounded
  <2>4. ends \subseteq 0 .. u
    BY <1>3, <2>1, <2>3
  <2>5. Max(ends) \in Nat
    <3> HIDE DEF ends
    <3>1. QED
      BY <2>1, <2>2, <2>4, MaxIsIn
  <2>6. QED
    BY <2>5, Division, MemoryAssumption DEF Total
<1>6. ASSUME NEW i \in DOMAIN map PROVE Usable(map, i) \subseteq 0 .. Total(map) - 1
  <2>1. map[i][1] \in Nat /\ map[i][2] - map[i][1] \in Nat
    BY <1>4, RegionNumbers
  <2>2. map[i][1] \div PAGE_SIZE \in Nat /\ (map[i][2] - map[i][1]) \div PAGE_SIZE \in Nat
    BY <2>1, Division, MemoryAssumption
  <2>3. QED
    BY <1>5, <2>2 DEF Usable, Below, Pages
<1>7. ASSUME NEW i \in DOMAIN map, NEW j \in DOMAIN map, i # j
      PROVE  Usable(map, i) \cap Usable(map, j) = {}
  <2>1. map[i][2] <= map[j][1] \/ map[j][2] <= map[i][1]
    BY <1>7 DEF Maps
  <2>2. Pages(map[i]) \cap Pages(map[j]) = {}
    BY <1>4, <2>1, PagesApart
  <2>3. QED
    BY <2>2 DEF Usable, Below
<1>8. ASSUME NEW p \in 0 .. KernelEnd \div PAGE_SIZE PROVE p \in Taken(Total(map))
  <2> DEFINE length == bitmap_size(Total(map))
  <2>1. length \in Nat
    <3>1. Total(map) \div 32 \in Nat
      BY <1>5, Division
    <3>2. QED
      BY <3>1 DEF bitmap_size
  <2> HIDE DEF length
  <2>2. KernelEnd \div PAGE_SIZE \in Nat /\ (KernelEnd + length) \div PAGE_SIZE \in Nat
    BY <2>1, Division, MemoryAssumption
  <2>3. KernelEnd \div PAGE_SIZE <= (KernelEnd + length) \div PAGE_SIZE
    BY <2>1, DivGrows, MemoryAssumption
  <2>4. QED
    BY <2>2, <2>3 DEF Taken, bitmap_end, length
<1>9. QED
  BY <1>2, <1>3, <1>4, <1>5, <1>6, <1>7, <1>8

\* What has been counted after each region.
LEMMA CountedFacts ==
  ASSUME NEW map, Len(map) \in Nat
  PROVE  /\ Counted(map)[0] = 0
         /\ \A i \in 1 .. Len(map) :
              Counted(map)[i] = Counted(map)[i-1] + Cardinality(Usable(map, i))
<1> DEFINE N == Len(map)
           Sum(f, i) == IF i = 0 THEN 0 ELSE f[i-1] + Cardinality(Usable(map, i))
           F(n, f) == f = [i \in 0 .. n |-> Sum(f, i)]
           bad == {n \in Nat : ~ \E f : F(n, f)}
<1>0. bad \subseteq Nat /\ \A n \in Nat : n \notin bad => \E f : F(n, f)
  OBVIOUS
<1>1. bad = {}
  <2>1. SUFFICES ASSUME bad # {} PROVE FALSE
    OBVIOUS
  <2>2. PICK n \in bad : \A m \in bad : n <= m
    <3> HIDE DEF bad
    <3>1. QED
      BY <1>0, <2>1, LeastNat
  <2>3. n # 0
    <3>1. F(0, [i \in 0 .. 0 |-> 0])
      OBVIOUS
    <3>2. QED
      BY <2>2, <3>1
  <2>4. n \in Nat /\ n - 1 \in Nat /\ n - 1 \notin bad
    <3> HIDE DEF bad
    <3>1. QED
      BY <1>0, <2>2, <2>3
  <2>5. PICK f : F(n - 1, f)
    <3> HIDE DEF bad
    <3>1. QED
      BY <1>0, <2>4
  <2> DEFINE g == [i \in 0 .. n |-> Sum(f, i)]
  <2>6. \A j \in 0 .. n - 1 : f[j] = g[j]
    BY <2>4, <2>5
  <2>7. ASSUME NEW i \in 0 .. n PROVE g[i] = Sum(g, i)
    <3>1. i # 0 => i - 1 \in 0 .. n - 1
      BY <2>4
    <3>2. i # 0 => f[i-1] = g[i-1]
      BY <2>6, <3>1
    <3>3. g[i] = Sum(f, i)
      OBVIOUS
    <3> HIDE DEF g
    <3>4. QED
      BY <3>2, <3>3
  <2>8. F(n, g)
    <3>1. g = [i \in 0 .. n |-> Sum(g, i)]
      BY <2>7
    <3>2. QED
      BY <3>1
  <2>9. QED
    BY <2>2, <2>8
<1>2. \E f : F(N, f)
  <2>1. N \in Nat /\ N \notin bad
    BY <1>1
  <2> HIDE DEF bad, F
  <2>2. QED
    BY <1>0, <2>1
<1> DEFINE h == CHOOSE f : F(N, f)
<1>3. F(N, h)
  <2> HIDE DEF F
  <2>1. QED
    BY <1>2
<1>4. Counted(map) = h
  BY DEF Counted
<1> HIDE DEF h
<1>5. \A i \in 0 .. N : h[i] = Sum(h, i)
  BY <1>3
<1>6. QED
  <2>1. h[0] = 0
    BY <1>5
  <2>2. \A i \in 1 .. N : h[i] = h[i-1] + Cardinality(Usable(map, i))
    BY <1>5
  <2>3. QED
    BY <1>4, <2>1, <2>2

\* The count is right, because no page is in two regions.
LEMMA CountedIsCardinality ==
  ASSUME NEW map \in Maps
  PROVE  Counted(map)[Len(map)] = Cardinality(UNION {Usable(map, i) : i \in DOMAIN map})
<1> DEFINE N == Len(map)
           U(n) == UNION {Usable(map, i) : i \in 1 .. n}
           Right(n) == Counted(map)[n] = Cardinality(U(n))
           bad == {n \in 0 .. N : ~Right(n)}
<1>0. bad \subseteq 0 .. N /\ \A n \in 0 .. N : n \notin bad <=> Right(n)
  OBVIOUS
<1>1. N \in Nat /\ DOMAIN map = 1 .. N /\ Total(map) \in Nat
  BY MapFacts
<1>2. ASSUME NEW n \in 0 .. N PROVE U(n) \subseteq 0 .. Total(map) - 1
  BY <1>1, MapFacts
<1>3. Right(0)
  <2>1. U(0) = {}
    OBVIOUS
  <2>2. QED
    BY <1>1, <2>1, CountedFacts, FS_EmptySet
<1>4. ASSUME NEW n \in 1 .. N, Right(n-1) PROVE Right(n)
  <2>1. U(n) = U(n-1) \cup Usable(map, n)
    BY <1>1
  <2>2. U(n-1) \cap Usable(map, n) = {}
    <3>1. \A i \in 1 .. n - 1 : i \in DOMAIN map /\ n \in DOMAIN map /\ i # n
      BY <1>1
    <3>2. QED
      BY <3>1, MapFacts
  <2>3. U(n-1) \subseteq 0 .. Total(map) - 1 /\ Usable(map, n) \subseteq 0 .. Total(map) - 1
    BY <1>1, <1>2, MapFacts
  <2> DEFINE Before == U(n-1)
             Here == Usable(map, n)
  <2>4. /\ IsFiniteSet(Before) /\ Cardinality(Before) \in Nat
        /\ IsFiniteSet(Here) /\ Cardinality(Here) \in Nat
    <3>1. Before \subseteq 0 .. Total(map) - 1 /\ Here \subseteq 0 .. Total(map) - 1
      BY <2>3
    <3> HIDE DEF Before, Here
    <3>2. QED
      BY <1>1, <3>1, PagesAreFinite
  <2>5. Cardinality(Before \cup Here) = Cardinality(Before) + Cardinality(Here)
    <3>1. Before \cap Here = {}
      BY <2>2
    <3> HIDE DEF Before, Here
    <3>2. Cardinality(Before \cap Here) = 0
      BY <3>1, FS_EmptySet
    <3>3. Cardinality(Before \cup Here) = Cardinality(Before) + Cardinality(Here) - Cardinality(Before \cap Here)
      BY <2>4, FS_Union
    <3>4. QED
      BY <2>4, <3>2, <3>3
  <2>6. Counted(map)[n] = Counted(map)[n-1] + Cardinality(Here)
    BY <1>1, CountedFacts
  <2>7. Counted(map)[n-1] = Cardinality(Before)
    BY <1>4
  <2>8. U(n) = Before \cup Here
    BY <2>1
  <2> HIDE DEF Before, Here, U
  <2>9. QED
    BY <2>5, <2>6, <2>7, <2>8
<1> HIDE DEF Right
<1>5. bad = {}
  <2>1. SUFFICES ASSUME bad # {} PROVE FALSE
    OBVIOUS
  <2>2. bad \subseteq Nat
    BY <1>0, <1>1
  <2> HIDE DEF bad
  <2>3. PICK n \in bad : \A m \in bad : n <= m
    BY <2>1, <2>2, LeastNat
  <2>4. n \in 0 .. N /\ n # 0 /\ ~Right(n)
    BY <1>0, <1>3, <2>3
  <2>5. n - 1 \in 0 .. N /\ n - 1 \notin bad /\ n \in 1 .. N
    BY <1>1, <2>3, <2>4
  <2>6. Right(n-1)
    BY <1>0, <2>5
  <2>7. QED
    BY <1>4, <2>4, <2>5, <2>6
<1>6. Right(N)
  <2>1. N \in 0 .. N
    BY <1>1
  <2> HIDE DEF bad
  <2>2. QED
    BY <1>0, <1>5, <2>1
<1>7. QED
  BY <1>1, <1>6 DEF Right

-----------------------------------------------------------------------------
LEMMA MapInv ==
  ASSUME MemoryInv, NEW map \in Maps, pmm_init(map)
  PROVE  MemoryInv'
<1> DEFINE cleared == UNION {Usable(map, i) : i \in DOMAIN map}
           taken == Taken(Total(map))
<1>1. Total(map) \in Nat /\ cleared \subseteq 0 .. Total(map) - 1
  BY MapFacts
<1>2. Counted(map)[Len(map)] = Cardinality(cleared)
  BY CountedIsCardinality
<1>3. /\ boot = "pmm_init" /\ boot' = "pmm_reserve_region"
      /\ total_pages' = Total(map)
      /\ free' = cleared \ taken
      /\ free_page_count' = Cardinality(cleared) - Cardinality(cleared \cap taken)
      /\ left' = left
  BY <1>2 DEF pmm_init
<1>4. \A p \in 0 .. KernelEnd \div PAGE_SIZE : p \in taken
  BY MapFacts
<1> HIDE DEF cleared, taken
<1>5. /\ IsFiniteSet(cleared) /\ Cardinality(cleared) \in Nat
      /\ IsFiniteSet(cleared \ taken) /\ Cardinality(cleared \ taken) \in Nat
  BY <1>1, PagesAreFinite
<1>6. Cardinality(cleared \ taken) = Cardinality(cleared) - Cardinality(cleared \cap taken)
  BY <1>5, FS_Difference
<1>7. MemoryTypeOK'
  BY <1>1, <1>3, <1>5, <1>6 DEF MemoryInv, MemoryTypeOK
<1>8. free' \cap (0 .. KernelEnd \div PAGE_SIZE) = {}
  BY <1>3, <1>4
<1>9. QED
  BY <1>3, <1>6, <1>7, <1>8 DEF MemoryInv

LEMMA ReserveInv ==
  ASSUME MemoryInv, pmm_reserve_region
  PROVE  MemoryInv'
<1> DEFINE pages == Below(Window(UserMin, UserMax), total_pages)
<1>1. /\ boot = "pmm_reserve_region" /\ boot' = "heap_init"
      /\ free' = free \ pages
      /\ free_page_count' = free_page_count - Cardinality(free \cap pages)
      /\ total_pages' = total_pages /\ left' = left
  BY DEF pmm_reserve_region
<1>2. free \subseteq 0 .. total_pages - 1 /\ total_pages \in Nat
  BY DEF MemoryInv, MemoryTypeOK
<1>3. free' \cap Window(UserMin, UserMax) = {}
  <2>1. \A p \in free \cap Window(UserMin, UserMax) : p \in pages
    BY <1>2 DEF Below
  <2>2. QED
    BY <1>1, <2>1
<1>4. free' \cap (0 .. KernelEnd \div PAGE_SIZE) = {}
  BY <1>1 DEF MemoryInv
<1> HIDE DEF pages
<1>5. IsFiniteSet(free) /\ Cardinality(free \ pages) \in Nat
  BY <1>2, PagesAreFinite
<1>6. Cardinality(free \ pages) = free_page_count - Cardinality(free \cap pages)
  BY <1>5, FS_Difference DEF MemoryInv
<1>7. MemoryTypeOK'
  BY <1>1, <1>2, <1>5, <1>6 DEF MemoryInv, MemoryTypeOK
<1>8. Cardinality(Below(free', HeapEnd)) <= left'
  <2> DEFINE open == {p \in 0 .. HeapEnd - 1 :
                        /\ p > KernelEnd \div PAGE_SIZE
                        /\ ~(UserMin \div PAGE_SIZE <= p /\ p < Above(UserMax))}
  <2>1. Cardinality(open) <= HeapPages
    BY MemoryAssumption DEF HeapPages, HeapEnd, Above
  <2>2. HeapEnd \in Nat /\ open \subseteq 0 .. HeapEnd - 1
    BY PageNumbers
  <2>3. ASSUME NEW p \in Below(free', HeapEnd) PROVE p \in open
    <3>1. p \in Nat /\ p \in free' /\ p < HeapEnd
      BY <1>1, <1>2, <2>3 DEF Below
    <3>2. p > KernelEnd \div PAGE_SIZE
      <4>1. KernelEnd \div PAGE_SIZE \in Nat
        BY PageNumbers, MemoryAssumption
      <4>2. QED
        BY <1>4, <3>1, <4>1
    <3>3. ~(UserMin \div PAGE_SIZE <= p /\ p < Above(UserMax))
      <4>1. UserMin \div PAGE_SIZE \in Nat /\ Above(UserMax) \in Nat
        BY PageNumbers, MemoryAssumption
      <4>2. p \notin UserMin \div PAGE_SIZE .. Above(UserMax) - 1
        BY <1>3, <3>1 DEF Window, Above
      <4>3. QED
        BY <3>1, <4>1, <4>2
    <3>4. QED
      BY <2>2, <3>1, <3>2, <3>3
  <2>4. left' = HeapPages
    BY <1>1 DEF MemoryInv
  <2> HIDE DEF open
  <2>5. IsFiniteSet(open) /\ Cardinality(open) \in Nat
    BY <2>2, PagesAreFinite
  <2>6. Below(free', HeapEnd) \in SUBSET open
    BY <2>3
  <2>7. Cardinality(Below(free', HeapEnd)) <= Cardinality(open)
    BY <2>5, <2>6, FS_Subset
  <2>8. Cardinality(Below(free', HeapEnd)) \in Nat
    BY <2>5, <2>6, FS_Subset, FS_CardinalityType
  <2>9. QED
    BY <2>1, <2>4, <2>5, <2>7, <2>8, PageNumbers
<1>9. QED
  BY <1>1, <1>3, <1>4, <1>6, <1>7, <1>8 DEF MemoryInv

LEMMA HeapPageInv ==
  ASSUME MemoryInv, heap_init
  PROVE  MemoryInv'
<1>1. /\ boot = "heap_init" /\ left > 0 /\ left' = left - 1
      /\ boot' = IF left = 1 THEN "up" ELSE boot
      /\ total_pages' = total_pages
  BY DEF heap_init
<1>2. /\ free \subseteq 0 .. total_pages - 1 /\ total_pages \in Nat
      /\ left \in 0 .. HeapPages /\ HeapPages \in Nat
      /\ free_page_count = Cardinality(free)
      /\ Cardinality(Below(free, HeapEnd)) <= left
      /\ HeapEnd \in Nat
  BY <1>1, PageNumbers DEF MemoryInv, MemoryTypeOK, HeapPages
<1>3. IsFiniteSet(free) /\ Cardinality(free) \in Nat
  BY <1>2, PagesAreFinite
<1>4. /\ free' \subseteq free /\ free_page_count' = Cardinality(free')
      /\ free_page_count' \in Nat
      /\ Cardinality(Below(free', HeapEnd)) <= left'
  <2>1. CASE free = {}
    <3>1. free' = free /\ free_page_count' = free_page_count
      BY <2>1 DEF heap_init, pmm_alloc_page
    <3>2. Below(free', HeapEnd) = {}
      BY <2>1, <3>1 DEF Below
    <3>3. Cardinality(Below(free', HeapEnd)) = 0
      BY <3>2, FS_EmptySet
    <3>4. QED
      BY <1>1, <1>2, <1>3, <3>1, <3>3
  <2>2. CASE free # {}
    <3> DEFINE p == Min(free)
    <3>0. free \subseteq Nat
      BY <1>2
    <3>1. p \in free /\ \A q \in free : p <= q
      BY <2>2, <3>0, MinNat
    <3>2. free' = free \ {p} /\ free_page_count' = free_page_count - 1
      BY <2>2 DEF heap_init, pmm_alloc_page
    <3> HIDE DEF p
    <3>3. Cardinality(free \ {p}) = Cardinality(free) - 1 /\ Cardinality(free \ {p}) \in Nat
      <4>1. free \ {p} \subseteq 0 .. total_pages - 1
        BY <1>2
      <4>2. QED
        BY <1>2, <1>3, <3>1, <4>1, FS_RemoveElement, PagesAreFinite
    <3> DEFINE low == Below(free, HeapEnd)
    <3>4. low \subseteq 0 .. total_pages - 1
      BY <1>2 DEF Below
    <3>5. Below(free', HeapEnd) = low \ {p}
      BY <3>2 DEF Below
    <3>6. low # {} => p \in low
      <4>1. ASSUME NEW q \in low PROVE p \in low
        <5>1. q \in free /\ q < HeapEnd /\ q \in Nat /\ p \in Nat
          BY <1>2, <3>1, <4>1 DEF Below
        <5>2. p <= q
          BY <3>1, <5>1
        <5>3. QED
          BY <1>2, <3>1, <5>1, <5>2 DEF Below
      <4>2. QED
        BY <4>1
    <3>7. Cardinality(low) <= left
      BY <1>2
    <3> HIDE DEF low
    <3>8. IsFiniteSet(low) /\ Cardinality(low) \in Nat
      BY <1>2, <3>4, PagesAreFinite
    <3>9. Cardinality(low \ {p}) <= left'
      <4>1. CASE low = {}
        <5>1. low \ {p} = {}
          BY <4>1
        <5>2. Cardinality(low \ {p}) = 0
          BY <5>1, FS_EmptySet
        <5>3. QED
          BY <1>1, <1>2, <5>2
      <4>2. CASE low # {}
        <5>1. Cardinality(low \ {p}) = Cardinality(low) - 1
          BY <3>6, <3>8, <4>2, FS_RemoveElement
        <5>2. QED
          BY <1>1, <1>2, <3>7, <3>8, <5>1
      <4>3. QED
        BY <4>1, <4>2
    <3>10. QED
      BY <1>2, <3>2, <3>3, <3>5, <3>9
  <2>3. QED
    BY <2>1, <2>2
<1>5. MemoryTypeOK'
  BY <1>1, <1>2, <1>4 DEF MemoryTypeOK, HeapPages
<1>6. /\ free' \cap (0 .. KernelEnd \div PAGE_SIZE) = {}
      /\ free' \cap Window(UserMin, UserMax) = {}
  BY <1>1, <1>4 DEF MemoryInv
<1>7. boot' = "up" => left' = 0
  BY <1>1, <1>2
<1>8. boot' \in {"heap_init", "up"}
  BY <1>1
<1>9. QED
  BY <1>4, <1>5, <1>6, <1>7, <1>8 DEF MemoryInv

THEOREM MemoryInvariance == MemorySpec => []MemoryInv
<1>1. MemoryInit => MemoryInv
  <2>1. SUFFICES ASSUME MemoryInit PROVE MemoryInv
    OBVIOUS
  <2>2. Cardinality({}) = 0
    BY FS_EmptySet
  <2>3. HeapPages \in Nat
    BY PageNumbers
  <2>4. QED
    BY <2>1, <2>2, <2>3 DEF MemoryInit, MemoryInv, MemoryTypeOK, HeapPages
<1>2. MemoryInv /\ [MemoryNext]_memoryVars => MemoryInv'
  <2>1. SUFFICES ASSUME MemoryInv, [MemoryNext]_memoryVars PROVE MemoryInv'
    OBVIOUS
  <2>2. CASE MemoryNext
    BY <2>1, <2>2, MapInv, ReserveInv, HeapPageInv DEF MemoryNext
  <2>3. CASE UNCHANGED memoryVars
    BY <2>1, <2>3 DEF memoryVars, MemoryInv, MemoryTypeOK
  <2>4. QED
    BY <2>1, <2>2, <2>3
<1>3. QED
  BY <1>1, <1>2, PTL DEF MemorySpec

(***************************************************************************)
(* The count that "meminfo" shows is that of the bitmap, and after         *)
(* heap_init no page of the kernel, of the user window or of the heap is   *)
(* free, although pmm_alloc_page was never told where the heap is: of the  *)
(* pages that heap_init asks for none can be missing below the heap's end. *)
(***************************************************************************)
THEOREM PagesStayKept == MemorySpec => []PagesKept
<1>1. MemoryInv => PagesKept
  <2>1. SUFFICES ASSUME MemoryInv PROVE PagesKept
    OBVIOUS
  <2>2. SUFFICES ASSUME boot = "up"
                 PROVE  free \cap Window(HEAP_START, HEAP_START + HEAP_SIZE) = {}
    BY <2>1, <2>2 DEF MemoryInv, PagesKept
  <2>3. Cardinality(Below(free, HeapEnd)) <= 0 /\ free \subseteq 0 .. total_pages - 1
        /\ total_pages \in Nat
    BY <2>1, <2>2 DEF MemoryInv, MemoryTypeOK
  <2>4. Below(free, HeapEnd) \subseteq 0 .. total_pages - 1
    BY <2>3 DEF Below
  <2>5. IsFiniteSet(Below(free, HeapEnd)) /\ Cardinality(Below(free, HeapEnd)) \in Nat
    BY <2>3, <2>4, PagesAreFinite
  <2>6. Below(free, HeapEnd) = {}
    BY <2>3, <2>5, FS_EmptySet
  <2>7. \A p \in Window(HEAP_START, HEAP_START + HEAP_SIZE) : p < HeapEnd
    <3>1. HEAP_START \div PAGE_SIZE \in Nat
      BY Division, MemoryAssumption
    <3>2. Window(HEAP_START, HEAP_START + HEAP_SIZE) = HEAP_START \div PAGE_SIZE .. HeapEnd - 1
      BY DEF Window, HeapEnd, Above
    <3>3. QED
      BY <3>1, <3>2, PageNumbers
  <2>8. QED
    BY <2>6, <2>7 DEF Below
<1>2. QED
  BY <1>1, MemoryInvariance, PTL

-----------------------------------------------------------------------------
(***************************************************************************)
(* Disk.  Both drivers look at bits that say that something has been done, *)
(* and not for which call.  That it was for this one is because the AHCI   *)
(* driver stays with a command until it is gone or the port is halted, and *)
(* because the eMMC driver lets no command out while the lines it needs    *)
(* are taken: what the card does is for the last sector command.  Where the *)
(* data go is another matter; the address is the call's own if no transfer  *)
(* was on its way when it was written.                                      *)
(***************************************************************************)
EmmcCommands == {"CMD0", "CMD1", "CMD2", "CMD3", "CMD7", "sector"}

\* One driver is active, and the others' commands are not on their way.
OneDriver ==
  /\ stage # "settled" => active = "DISK_NONE" /\ outcome = "none"
  /\ a_pc \in {"busy", "poll"} => active = "DISK_AHCI"
  /\ cmd = "sector" => active = "DISK_EMMC"
  /\ ata # "idle" => active = "DISK_IDE"

PortInv == a_pc = "poll" => slot = req /\ (ci \/ req \in moved)

LinesInv ==
  /\ answering # E!NoCmd => moving = 0 /\ "cmd" \in inhibit
  /\ answering[1] = "sector" \/ moving # 0 => cmd = "sector" /\ "dat" \in inhibit

\* From the command to the result.
CardInv ==
  /\ e_pc \in {"inhibit", "poll", "answer"} => cmd \in EmmcCommands
  /\ e_pc \in {"data", "result"} => cmd = "sector"
  /\ cmd = "sector" /\ e_pc \in {"poll", "answer", "data", "result"} =>
       /\ answering \in {E!NoCmd, <<"sector", req>>}
       /\ moving \in {0, req}
       /\ "transfer" \in status => req \in finished
  /\ e_pc = "result" => "transfer" \in status \/ error

\* The address, when it was written with the data line free.
AddressInv ==
  cmd = "sector" /\ ~hurried =>
    /\ e_pc = "inhibit" => loaded = req /\ moving = 0 /\ answering[1] # "sector"
    /\ e_pc \in {"poll", "answer", "data", "result"} =>
         /\ answering # E!NoCmd \/ moving # 0 => loaded = req
         /\ "transfer" \in status => req \in moved

EmmcInvs == LinesInv /\ CardInv /\ AddressInv

DiskInv == OneDriver /\ PortInv /\ EmmcInvs /\ QuietMeansDone

LEMMA EmmcKept ==
  ASSUME EmmcInvs, cmd # "sector", UNCHANGED emmc
  PROVE  EmmcInvs'
BY DEF EmmcInvs, LinesInv, CardInv, AddressInv, emmc, E!NoCmd

LEMMA ScanInv == ASSUME DiskInv, pci_scan PROVE DiskInv'
<1>1. /\ stage' # "settled" /\ active' = active /\ stage # "settled"
      /\ UNCHANGED <<ata, ahci, emmc, sectorCall>>
  BY DEF pci_scan, Pass
<1>2. cmd # "sector" /\ active = "DISK_NONE"
  BY <1>1 DEF DiskInv, OneDriver
<1>3. QED
  BY <1>1, <1>2, EmmcKept
     DEF DiskInv, OneDriver, PortInv, QuietMeansDone, ahci, emmc, sectorCall

LEMMA AhciInv ==
  ASSUME DiskInv, Ahci \/ AhciSector PROVE DiskInv'
<1>1. UNCHANGED <<stage, active, ata, emmc>>
  BY DEF Ahci, AhciSector, own
<1>2. (stage = "ahci" /\ (A!Setup \/ A!Stop)) \/ (active = "DISK_AHCI" /\ (A!Sectors \/ A!Hardware))
  BY DEF Ahci, AhciSector, A!Sectors
<1>3. cmd # "sector"
  <2>1. active # "DISK_EMMC"
    BY <1>2 DEF DiskInv, OneDriver
  <2>2. QED
    BY <2>1 DEF DiskInv, OneDriver
<1>4. EmmcInvs'
  BY <1>1, <1>3, EmmcKept DEF DiskInv
<1>5. CASE stage = "ahci" /\ (A!Setup \/ A!Stop)
  <2>1. UNCHANGED <<req, outcome, moved>> /\ a_pc' \notin {"busy", "poll"}
    BY <1>5 DEF DiskInv, OneDriver, A!Setup, A!ahci_init, A!PortStart, A!Stop, A!call
  <2>2. QED
    BY <1>1, <1>4, <1>5, <2>1 DEF DiskInv, OneDriver, PortInv, QuietMeansDone, emmc
<1>6. CASE active = "DISK_AHCI" /\ (A!Sectors \/ A!Hardware)
  <2>1. stage = "settled" /\ cmd' # "sector" /\ active' = "DISK_AHCI"
    BY <1>1, <1>3, <1>6 DEF DiskInv, OneDriver, emmc
  <2>2. OneDriver'
    BY <1>1, <1>6, <2>1 DEF DiskInv, OneDriver, emmc
  <2>3. CASE A!Sector \/ A!Issue
    BY <1>1, <1>4, <2>1, <2>2, <2>3
       DEF DiskInv, PortInv, QuietMeansDone, A!Sector, A!Issue, A!port, A!call
  <2>4. CASE A!Polled \/ A!Failed
    BY <1>1, <1>4, <2>1, <2>2, <2>4
       DEF DiskInv, PortInv, QuietMeansDone, A!Polled, A!Failed, A!Done, A!port
  <2>5. CASE A!Move \/ A!MoveError
    BY <1>1, <1>4, <2>1, <2>2, <2>5
       DEF DiskInv, PortInv, QuietMeansDone, A!Move, A!MoveError, A!call
  <2>6. QED
    BY <1>6, <2>3, <2>4, <2>5 DEF A!Sectors, A!Hardware
<1>7. QED
  BY <1>2, <1>5, <1>6

\* The steps of disk_init that move on, and the calls to the other drivers.
LEMMA PassInv ==
  ASSUME DiskInv, AhciDone \/ Nvme \/ EmmcDone PROVE DiskInv'
<1>1. UNCHANGED <<ata, ahci, emmc, sectorCall>> /\ stage # "settled"
  BY DEF AhciDone, Nvme, EmmcDone
<1>2. cmd # "sector" /\ active = "DISK_NONE" /\ outcome = "none"
  BY <1>1 DEF DiskInv, OneDriver
<1>3. EmmcInvs'
  BY <1>1, <1>2, EmmcKept DEF DiskInv
<1>4. \/ stage' # "settled" /\ active' = active
      \/ stage' = "settled"
  BY DEF AhciDone, Nvme, EmmcDone, Pass, Settle
<1>5. QED
  BY <1>1, <1>2, <1>3, <1>4
     DEF DiskInv, OneDriver, PortInv, QuietMeansDone, ahci, emmc, sectorCall

LEMMA OtherInv ==
  ASSUME DiskInv, AtaSector \/ AtaData \/ AtaFlush \/ NvmeSector \/ NoSector PROVE DiskInv'
<1>1. UNCHANGED <<stage, active, ahci, emmc>> /\ active \notin {"DISK_AHCI", "DISK_EMMC"}
  BY DEF AtaSector, AtaData, AtaFlush, NvmeSector, NoSector, own, DiskInv, OneDriver
<1>2. stage = "settled"
  BY DEF AtaSector, AtaData, AtaFlush, NvmeSector, NoSector, DiskInv, OneDriver
<1>3. cmd # "sector" /\ a_pc \notin {"busy", "poll"}
  BY <1>1 DEF DiskInv, OneDriver
<1>4. EmmcInvs'
  BY <1>1, <1>3, EmmcKept DEF DiskInv
<1>5. CASE AtaSector
  BY <1>1, <1>2, <1>3, <1>4, <1>5
     DEF AtaSector, DiskInv, OneDriver, PortInv, QuietMeansDone, ahci, emmc
<1>6. CASE AtaData \/ AtaFlush
  BY <1>1, <1>2, <1>3, <1>4, <1>6
     DEF AtaData, AtaFlush, DiskInv, OneDriver, PortInv, QuietMeansDone, ahci, emmc
<1>7. CASE NvmeSector
  BY <1>1, <1>2, <1>3, <1>4, <1>7
     DEF NvmeSector, DiskInv, OneDriver, PortInv, QuietMeansDone, ahci, emmc
<1>8. CASE NoSector
  BY <1>1, <1>2, <1>3, <1>4, <1>8
     DEF NoSector, DiskInv, OneDriver, PortInv, QuietMeansDone, ahci, emmc, own
<1>9. QED
  BY <1>5, <1>6, <1>7, <1>8

\* What emmc_send_cmd's return leads to: another command, or not, and only a
\* sector call's own command ever leads to its data.
LEMMA ReturnedTo ==
  ASSUME NEW ok \in BOOLEAN, cmd \in EmmcCommands, E!Returned(ok)
  PROVE  /\ cmd' = cmd \/ (cmd # "sector" /\ cmd' \in EmmcCommands \ {"sector"})
         /\ \/ e_pc' = "inhibit"
            \/ e_pc' = "data" /\ cmd = "sector" /\ ok
            \/ e_pc' \in {"idle", "failed"}
         /\ cmd = "sector" => e_pc' # "inhibit"
<1>1. CASE cmd = "CMD1"
  BY <1>1 DEF E!Returned, E!Retry, E!Send, EmmcCommands
<1>2. CASE cmd = "sector"
  BY <1>2 DEF E!Returned
<1>3. CASE cmd \notin {"CMD1", "sector"}
  <2>1. \/ e_pc' = "failed" /\ cmd' = cmd
        \/ e_pc' = "idle" /\ cmd' = cmd
        \/ cmd # "CMD7" /\ e_pc' = "inhibit"
             /\ cmd' = [CMD0 |-> "CMD1", CMD2 |-> "CMD3", CMD3 |-> "CMD7"][cmd]
    BY <1>3 DEF E!Returned, E!Send
  <2>2. cmd # "CMD7" => [CMD0 |-> "CMD1", CMD2 |-> "CMD3", CMD3 |-> "CMD7"][cmd] \in EmmcCommands \ {"sector"}
    BY <1>3 DEF EmmcCommands
  <2>3. QED
    BY <1>3, <2>1, <2>2
<1>4. QED
  BY <1>1, <1>2, <1>3

\* A step of the eMMC driver or of its controller.
EmmcStep == Emmc \/ EmmcStart \/ EmmcSector

EmmcSetup == E!Start \/ E!BringUp \/ E!SendCmd \/ E!Hardware
EmmcCall  == E!SendCmd \/ E!Sectors \/ E!Hardware

LEMMA EmmcStepIs ==
  ASSUME DiskInv, EmmcStep
  PROVE  /\ UNCHANGED <<stage, active, ata, ahci>>
         /\ \/ stage # "settled" /\ EmmcSetup
            \/ stage = "settled" /\ active = "DISK_EMMC" /\ EmmcCall
         /\ a_pc \notin {"busy", "poll"}
<1>1. /\ UNCHANGED <<stage, active, ata, ahci>>
      /\ \/ stage = "emmc" /\ EmmcSetup
         \/ active = "DISK_EMMC" /\ EmmcCall
  BY DEF EmmcStep, Emmc, EmmcStart, EmmcSector, own, EmmcSetup, EmmcCall, E!Sectors
<1>2. QED
  BY <1>1 DEF DiskInv, OneDriver

LEMMA CommandInv ==
  ASSUME OneDriver, EmmcInvs, QuietMeansDone, E!SendCmd, UNCHANGED active
  PROVE  EmmcInvs' /\ QuietMeansDone' /\ (cmd # "sector" => outcome' = outcome /\ cmd' # "sector")
<1> USE DEF EmmcInvs
<1>1. CASE E!Issue
  <2>1. /\ e_pc = "inhibit" /\ E!Idle /\ status' = {} /\ inhibit' = inhibit \cup E!Needed
        /\ answering' = <<cmd, req>> /\ e_pc' = "poll"
        /\ UNCHANGED <<cmd, tries, error, moving, loaded, req, outcome, moved, finished, hurried>>
    BY <1>1 DEF E!Issue, E!call, E!history
  <2>2. cmd \in EmmcCommands
    BY <2>1 DEF CardInv
  <2>3. E!Needed = IF cmd = "sector" THEN {"cmd", "dat"} ELSE {"cmd"}
    BY DEF E!Needed
  <2>4. "cmd" \notin inhibit /\ (cmd = "sector" => "dat" \notin inhibit)
    BY <2>1, <2>3 DEF E!Idle
  <2>5. inhibit' = IF cmd = "sector" THEN inhibit \cup {"cmd", "dat"} ELSE inhibit \cup {"cmd"}
    BY <2>1, <2>3
  <2>6. /\ "cmd" \in inhibit' /\ ("dat" \in inhibit => "dat" \in inhibit')
        /\ cmd = "sector" => "dat" \in inhibit'
    BY <2>5
  <2>7. moving = 0
    BY <2>4 DEF LinesInv
  <2>8. LinesInv'
    BY <2>1, <2>6, <2>7 DEF E!NoCmd, LinesInv
  <2>9. CardInv' /\ QuietMeansDone'
    BY <2>1, <2>2, <2>7 DEF E!NoCmd, CardInv, QuietMeansDone
  <2>10. AddressInv'
    BY <2>1, <2>7 DEF AddressInv
  <2>11. QED
    BY <2>1, <2>8, <2>9, <2>10
<1>2. CASE E!GiveUp
  <2>1. /\ e_pc \in {"inhibit", "poll"} /\ E!Returned(FALSE)
        /\ outcome' = IF cmd = "sector" THEN "message" ELSE outcome
        /\ UNCHANGED <<inhibit, status, error, answering, moving, loaded, req, moved, finished, hurried>>
    BY <1>2 DEF E!GiveUp, E!Ends, E!controller, E!history
  <2>2. cmd \in EmmcCommands
    BY <2>1 DEF CardInv
  <2>3. cmd' \in EmmcCommands /\ (cmd # "sector" => cmd' # "sector")
    BY <2>1, <2>2, ReturnedTo
  <2>4. e_pc' \in {"inhibit", "idle", "failed"} /\ (cmd = "sector" => e_pc' # "inhibit" /\ cmd' = cmd)
    BY <2>1, <2>2, ReturnedTo
  <2>5. QED
    BY <2>1, <2>3, <2>4 DEF E!NoCmd, LinesInv, CardInv, AddressInv, QuietMeansDone
<1>3. CASE E!Polled
  BY <1>3 DEF E!Polled, E!controller, E!call, E!history, E!NoCmd, LinesInv, CardInv, AddressInv, QuietMeansDone
<1>4. CASE E!Answer
  <2>1. /\ e_pc = "answer" /\ status' \subseteq status /\ ("transfer" \in status' => "transfer" \in status)
        /\ E!Returned(~error)
        /\ outcome' = IF cmd = "sector" /\ error THEN "message" ELSE outcome
        /\ UNCHANGED <<inhibit, answering, moving, loaded, req, moved, finished, hurried>>
    BY <1>4 DEF E!Answer, E!Ends, E!history
  <2>2. cmd \in EmmcCommands
    BY <2>1 DEF CardInv
  <2>3. cmd' \in EmmcCommands /\ (cmd # "sector" => cmd' # "sector")
    BY <2>1, <2>2, ReturnedTo
  <2>4. /\ e_pc' \in {"inhibit", "idle", "failed"} \/ (e_pc' = "data" /\ cmd = "sector")
        /\ cmd = "sector" => e_pc' # "inhibit" /\ cmd' = cmd
    BY <2>1, <2>2, ReturnedTo
  <2>5. QED
    BY <2>1, <2>3, <2>4 DEF E!NoCmd, LinesInv, CardInv, AddressInv, QuietMeansDone
<1>5. QED
  BY <1>1, <1>2, <1>3, <1>4 DEF E!SendCmd

LEMMA SectorsInv ==
  ASSUME EmmcInvs, QuietMeansDone, E!Sectors, active = "DISK_EMMC", UNCHANGED active
  PROVE  EmmcInvs' /\ QuietMeansDone'
<1>1. CASE E!Sector
  BY <1>1 DEF E!Sector, E!Send, E!NoCmd, EmmcInvs, LinesInv, CardInv, AddressInv, QuietMeansDone, EmmcCommands
<1>2. CASE E!DataGiveUp
  BY <1>2 DEF E!DataGiveUp, E!controller, E!history, E!NoCmd, EmmcInvs, LinesInv, CardInv, AddressInv, QuietMeansDone
<1>3. CASE E!DataPolled
  BY <1>3 DEF E!DataPolled, E!Transfer, E!controller, E!call, E!history, E!NoCmd, EmmcInvs, LinesInv, CardInv, AddressInv, QuietMeansDone
<1>4. CASE E!Result
  BY <1>4 DEF E!Result, E!history, E!NoCmd, EmmcInvs, LinesInv, CardInv, AddressInv, QuietMeansDone
<1>5. QED
  BY <1>1, <1>2, <1>3, <1>4 DEF E!Sectors

LEMMA HardwareInv ==
  ASSUME EmmcInvs, QuietMeansDone, E!Hardware, UNCHANGED active
  PROVE  EmmcInvs' /\ QuietMeansDone'
<1>1. CASE E!Respond
  BY <1>1 DEF E!Respond, E!NoCmd, E!driver, E!call, E!history, EmmcInvs, LinesInv, CardInv, AddressInv, QuietMeansDone
<1>2. CASE E!RespondError
  BY <1>2 DEF E!RespondError, E!NoCmd, E!driver, E!call, E!history, EmmcInvs, LinesInv, CardInv, AddressInv, QuietMeansDone
<1>3. CASE E!Move
  <2>1. /\ moving # 0 /\ moving' = 0 /\ finished' = finished \cup {moving}
        /\ moved \subseteq moved' /\ (loaded = moving => moving \in moved')
        /\ status' = status \cup {"transfer"}
        /\ "cmd" \in inhibit => "cmd" \in inhibit'
        /\ UNCHANGED <<e_pc, cmd, error, answering, req, outcome, hurried>>
    BY <1>3 DEF E!Move, E!driver
  <2>2. answering = E!NoCmd /\ cmd = "sector"
    BY <2>1 DEF EmmcInvs, LinesInv
  <2>3. answering'[1] # "sector"
    BY <2>1, <2>2 DEF E!NoCmd
  <2>4. LinesInv' /\ CardInv'
    BY <2>1, <2>2, <2>3 DEF EmmcInvs, LinesInv, CardInv
  <2>5. AddressInv'
    BY <2>1, <2>2, <2>3 DEF EmmcInvs, CardInv, AddressInv
  <2>6. QuietMeansDone'
    BY <2>1 DEF QuietMeansDone
  <2>7. QED
    BY <2>4, <2>5, <2>6 DEF EmmcInvs
<1>4. CASE E!MoveError
  BY <1>4 DEF E!MoveError, E!NoCmd, E!driver, E!call, E!history, EmmcInvs, LinesInv, CardInv, AddressInv, QuietMeansDone
<1>5. QED
  BY <1>1, <1>2, <1>3, <1>4 DEF E!Hardware

LEMMA StartInv ==
  ASSUME EmmcInvs, E!Start \/ E!BringUp, cmd # "sector"
  PROVE  EmmcInvs' /\ cmd' # "sector" /\ UNCHANGED <<req, outcome, moved, finished, hurried>>
<1>1. CASE E!Start
  BY <1>1 DEF E!Start, E!NoCmd, E!call, E!history, EmmcInvs, LinesInv, CardInv, AddressInv
<1>2. CASE E!BringUp
  <2>1. \/ e_pc' = "failed" /\ cmd' = cmd
        \/ e_pc' \in {"power", "clock", "card clock"} /\ cmd' = cmd
        \/ e_pc' = "inhibit" /\ cmd' = "CMD0"
    <3>1. PICK i \in DOMAIN E!Stages :
            \/ e_pc' = "failed" /\ UNCHANGED cmd
            \/ IF i < 4 THEN e_pc' = E!Stages[i + 1] /\ UNCHANGED cmd ELSE E!Send("CMD0")
      BY <1>2 DEF E!BringUp
    <3>2. i \in {1, 2, 3, 4}
      <4>1. DOMAIN E!Stages = 1 .. 4
        BY DEF E!Stages
      <4>2. QED
        BY <4>1
    <3>3. \A j \in {2, 3, 4} : E!Stages[j] \in {"power", "clock", "card clock"}
      <4>1. E!Stages[2] = "power" /\ E!Stages[3] = "clock" /\ E!Stages[4] = "card clock"
        BY DEF E!Stages
      <4>2. QED
        BY <4>1
    <3>4. i < 4 => E!Stages[i + 1] \in {"power", "clock", "card clock"}
      <4>1. i < 4 => i + 1 \in {2, 3, 4}
        BY <3>2
      <4>2. QED
        BY <3>3, <4>1
    <3>5. QED
      BY <3>1, <3>4 DEF E!Send
  <2>2. UNCHANGED <<inhibit, status, error, answering, moving, req, outcome, moved, finished, hurried>>
    BY <1>2 DEF E!BringUp, E!controller, E!call, E!history
  <2>3. QED
    BY <2>1, <2>2 DEF EmmcInvs, LinesInv, CardInv, AddressInv, EmmcCommands, E!NoCmd
<1>3. QED
  BY <1>1, <1>2

LEMMA EmmcInv == ASSUME DiskInv, EmmcStep PROVE DiskInv'
<1>1. /\ UNCHANGED <<stage, active, ata, ahci>>
      /\ \/ stage # "settled" /\ EmmcSetup
         \/ stage = "settled" /\ active = "DISK_EMMC" /\ EmmcCall
      /\ a_pc \notin {"busy", "poll"}
  BY EmmcStepIs
<1>2. /\ OneDriver /\ PortInv /\ EmmcInvs /\ QuietMeansDone
      /\ cmd = "sector" => active = "DISK_EMMC" /\ stage = "settled"
  BY DEF DiskInv, OneDriver
<1>3. /\ EmmcInvs' /\ QuietMeansDone'
      /\ cmd' = "sector" => active = "DISK_EMMC"
      /\ stage # "settled" => outcome' = "none"
  <2>1. CASE stage # "settled" /\ (E!Start \/ E!BringUp)
    BY <1>1, <1>2, <2>1, StartInv DEF OneDriver, QuietMeansDone
  <2>2. CASE E!SendCmd
    BY <1>1, <1>2, <2>2, CommandInv DEF OneDriver
  <2>3. CASE stage = "settled" /\ E!Sectors
    BY <1>1, <1>2, <2>3, SectorsInv
  <2>4. CASE E!Hardware
    <3>1. cmd' = cmd /\ outcome' = outcome
      BY <2>4 DEF E!Hardware, E!Respond, E!RespondError, E!Move, E!MoveError, E!driver, E!call
    <3>2. QED
      BY <1>1, <1>2, <2>4, <3>1, HardwareInv DEF OneDriver
  <2>5. QED
    BY <1>1, <2>1, <2>2, <2>3, <2>4 DEF EmmcSetup, EmmcCall
<1>4. OneDriver' /\ PortInv'
  BY <1>1, <1>2, <1>3 DEF OneDriver, PortInv, ahci
<1>5. QED
  BY <1>3, <1>4 DEF DiskInv

THEOREM DiskInvariance == DiskSpec => []DiskInv
<1>1. DiskInit => DiskInv
  BY DEF DiskInit, A!Init, E!Init, E!NoCmd, DiskInv, OneDriver, PortInv, EmmcInvs,
         LinesInv, CardInv, AddressInv,
         QuietMeansDone
<1>2. DiskInv /\ [DiskNext]_diskVars => DiskInv'
  <2>1. SUFFICES ASSUME DiskInv, [DiskNext]_diskVars PROVE DiskInv'
    OBVIOUS
  <2>2. CASE DiskNext
    BY <2>1, <2>2, ScanInv, AhciInv, PassInv, OtherInv, EmmcInv DEF DiskNext, EmmcStep
  <2>3. CASE UNCHANGED diskVars
    BY <2>1, <2>3
       DEF diskVars, own, ahci, emmc, sectorCall, DiskInv, OneDriver, PortInv, EmmcInvs,
           LinesInv, CardInv, AddressInv, QuietMeansDone, E!NoCmd
  <2>4. QED
    BY <2>1, <2>2, <2>3
<1>3. QED
  BY <1>1, <1>2, PTL DEF DiskSpec

(***************************************************************************)
(* A sector call of the AHCI driver that ends without a message has        *)
(* transferred its sector.  One of the eMMC driver had its own transfer    *)
(* ended by the controller, whatever limits the waits of emmc.c have and   *)
(* however late the card answers; and unless it wrote the address of its   *)
(* buffer while the data line was taken, the data went to or from there.   *)
(***************************************************************************)
THEOREM QuietCallsAreDone == DiskSpec => []QuietMeansDone
<1>1. DiskInv => QuietMeansDone
  BY DEF DiskInv
<1>2. QED
  BY <1>1, DiskInvariance, PTL

-----------------------------------------------------------------------------
(***************************************************************************)
(* Acpi.  The parser finds in a table what the table's compiler has put    *)
(* there: byte by byte, from the name on.                                  *)
(***************************************************************************)
LEMMA ConcatAt ==
  ASSUME NEW s \in Seq(Int), NEW t \in Seq(Int)
  PROVE  /\ s \o t \in Seq(Int) /\ Len(s \o t) = Len(s) + Len(t)
         /\ \A i \in 1 .. Len(s) : (s \o t)[i] = s[i]
         /\ \A i \in 1 .. Len(t) : (s \o t)[Len(s) + i] = t[i]
<1>1. Len(s) \in Nat /\ Len(t) \in Nat
  OBVIOUS
<1>2. /\ s \o t \in Seq(Int) /\ Len(s \o t) = Len(s) + Len(t)
      /\ \A i \in 1 .. Len(s) + Len(t) :
           (s \o t)[i] = IF i <= Len(s) THEN s[i] ELSE t[i - Len(s)]
  BY ConcatProperties
<1>3. \A i \in 1 .. Len(s) : i \in 1 .. Len(s) + Len(t) /\ i <= Len(s)
  BY <1>1
<1>4. \A i \in 1 .. Len(t) : /\ Len(s) + i \in 1 .. Len(s) + Len(t)
                             /\ ~(Len(s) + i <= Len(s)) /\ (Len(s) + i) - Len(s) = i
  BY <1>1
<1>5. QED
  BY <1>2, <1>3, <1>4

LEMMA AppendToOne == ASSUME NEW u, NEW v PROVE Append(<<u>>, v) = <<u, v>>
<1> DEFINE s == <<u>>
           t == <<u, v>>
<1>1. s \in Seq({u, v}) /\ Len(s) = 1 /\ s[1] = u
  OBVIOUS
<1>2. t \in Seq({u, v}) /\ Len(t) = 2 /\ t[1] = u /\ t[2] = v
  OBVIOUS
<1> HIDE DEF s, t
<1>3. /\ Append(s, v) \in Seq({u, v}) /\ Len(Append(s, v)) = 2
      /\ Append(s, v)[1] = u /\ Append(s, v)[2] = v
  <2> DEFINE S == {u, v}
  <2>1. s \in Seq(S) /\ v \in S
    BY <1>1
  <2> HIDE DEF S
  <2>2. /\ Append(s, v) \in Seq(S) /\ Len(Append(s, v)) = Len(s) + 1
        /\ \A i \in 1 .. Len(s) : Append(s, v)[i] = s[i]
        /\ Append(s, v)[Len(s) + 1] = v
    BY <2>1, AppendProperties
  <2>3. QED
    BY <1>1, <2>2 DEF S
<1>4. \A i \in 1 .. 2 : Append(s, v)[i] = t[i]
  BY <1>2, <1>3
<1>5. Append(s, v) = t
  BY <1>2, <1>3, <1>4, SeqEqual
<1>6. QED
  BY <1>5 DEF s, t

LEMMA BytesAreInts ==
  ASSUME NEW s \in Seq(0 .. 255)
  PROVE  s \in Seq(Int) /\ Len(s) \in Nat /\ \A i \in 1 .. Len(s) : s[i] \in 0 .. 255
<1>1. Len(s) \in Nat /\ 0 .. 255 \subseteq Int
  BY LenProperties
<1>2. s \in Seq(Int)
  BY <1>1, SeqMonotonic
<1>3. \A i \in 1 .. Len(s) : s[i] \in 0 .. 255
  BY ElementOfSeq
<1>4. QED
  BY <1>1, <1>2, <1>3

LEMMA ElementIs ==
  ASSUME NEW v \in 0 .. 7
  PROVE  /\ Element(v) \in Seq(Int) /\ Len(Element(v)) \in {1, 2}
         /\ Len(Element(v)) = 1 => Element(v)[1] = v /\ v # BytePrefix
         /\ Len(Element(v)) = 2 => Element(v)[1] = BytePrefix /\ Element(v)[2] = v
<1>1. CASE v \in {0, 1}
  <2>1. Element(v) = <<v>>
    BY <1>1 DEF Element
  <2>2. QED
    BY <2>1 DEF BytePrefix
<1>2. CASE v \notin {0, 1}
  <2>1. Element(v) = <<BytePrefix, v>>
    BY <1>2 DEF Element
  <2>2. QED
    BY <2>1 DEF BytePrefix
<1>3. QED
  BY <1>1, <1>2

\* Where the bytes of a package are, with Ll for the length of its length.
LEMMA PackageIs ==
  ASSUME NEW a \in 0 .. 7, NEW b \in 0 .. 7, NEW length \in Seq(Int)
  PROVE  LET k == Package(a, b, length)
             Ll == Len(length)
             La == Len(Element(a))
         IN  /\ k \in Seq(Int) /\ Len(k) \in Nat /\ Len(k) >= 4 + Ll + La + Len(Element(b))
             /\ k[1] = S5 /\ k[2] = PackageOp /\ k[3] = 64 * Ll + 8
             /\ \A i \in 1 .. La : k[4 + Ll + i] = Element(a)[i]
             /\ \A i \in 1 .. Len(Element(b)) : k[4 + Ll + La + i] = Element(b)[i]
<1> DEFINE head == <<S5, PackageOp, 64 * Len(length) + 8>>
           k1 == head \o length
           k2 == k1 \o <<4>>
           k3 == k2 \o Element(a)
           k4 == k3 \o Element(b)
           k5 == k4 \o Element(0)
           k6 == k5 \o Element(0)
           Ll == Len(length)
           La == Len(Element(a))
           Lb == Len(Element(b))
           Lz == Len(Element(0))
<1>1. Package(a, b, length) = k6
  BY DEF Package
<1>2. Ll \in Nat
  OBVIOUS
<1>3. head \in Seq(Int) /\ Len(head) = 3 /\ head[1] = S5 /\ head[2] = PackageOp /\ head[3] = 64 * Ll + 8
  BY <1>2 DEF S5, PackageOp
<1>4. <<4>> \in Seq(Int) /\ Len(<<4>>) = 1
  OBVIOUS
<1>5. /\ Element(a) \in Seq(Int) /\ La \in {1, 2} /\ Element(b) \in Seq(Int) /\ Lb \in {1, 2}
      /\ Element(0) \in Seq(Int) /\ Lz \in {1, 2}
  <2>1. 0 \in 0 .. 7
    OBVIOUS
  <2>2. QED
    BY <2>1, ElementIs
<1> HIDE DEF head
<1>6. k1 \in Seq(Int) /\ Len(k1) = 3 + Ll /\ \A i \in 1 .. 3 : k1[i] = head[i]
  <2>1. k1 \in Seq(Int) /\ Len(k1) = Len(head) + Ll /\ \A i \in 1 .. Len(head) : k1[i] = head[i]
    BY <1>3, ConcatAt
  <2> HIDE DEF k1
  <2>2. QED
    BY <1>3, <2>1
<1> HIDE DEF k1
<1>7. k2 \in Seq(Int) /\ Len(k2) = 4 + Ll /\ \A i \in 1 .. 3 : k2[i] = head[i]
  <2>1. k2 \in Seq(Int) /\ Len(k2) = Len(k1) + 1 /\ \A i \in 1 .. Len(k1) : k2[i] = k1[i]
    BY <1>4, <1>6, ConcatAt
  <2> HIDE DEF k2
  <2>2. QED
    BY <1>2, <1>6, <2>1
<1> HIDE DEF k2, La, Lb, Lz
<1>8. /\ k3 \in Seq(Int) /\ Len(k3) = 4 + Ll + La /\ \A i \in 1 .. 3 : k3[i] = head[i]
      /\ \A i \in 1 .. La : k3[4 + Ll + i] = Element(a)[i]
  <2>1. /\ k3 \in Seq(Int) /\ Len(k3) = Len(k2) + La /\ \A i \in 1 .. Len(k2) : k3[i] = k2[i]
        /\ \A i \in 1 .. La : k3[Len(k2) + i] = Element(a)[i]
    BY <1>5, <1>7, ConcatAt DEF La
  <2> HIDE DEF k3
  <2>2. QED
    BY <1>2, <1>7, <2>1
<1> HIDE DEF k3
<1>9. /\ k4 \in Seq(Int) /\ Len(k4) = 4 + Ll + La + Lb /\ \A i \in 1 .. 4 + Ll + La : k4[i] = k3[i]
      /\ \A i \in 1 .. Lb : k4[4 + Ll + La + i] = Element(b)[i]
  <2>1. /\ k4 \in Seq(Int) /\ Len(k4) = Len(k3) + Lb /\ \A i \in 1 .. Len(k3) : k4[i] = k3[i]
        /\ \A i \in 1 .. Lb : k4[Len(k3) + i] = Element(b)[i]
    BY <1>5, <1>8, ConcatAt DEF Lb
  <2> HIDE DEF k4
  <2>2. QED
    BY <1>8, <2>1
<1> HIDE DEF k4
<1>10. k5 \in Seq(Int) /\ Len(k5) = 4 + Ll + La + Lb + Lz /\ \A i \in 1 .. 4 + Ll + La + Lb : k5[i] = k4[i]
  <2>1. k5 \in Seq(Int) /\ Len(k5) = Len(k4) + Lz /\ \A i \in 1 .. Len(k4) : k5[i] = k4[i]
    BY <1>5, <1>9, ConcatAt DEF Lz
  <2> HIDE DEF k5
  <2>2. QED
    BY <1>9, <2>1
<1> HIDE DEF k5
<1>11. /\ k6 \in Seq(Int) /\ Len(k6) = 4 + Ll + La + Lb + Lz + Lz
       /\ \A i \in 1 .. 4 + Ll + La + Lb + Lz : k6[i] = k5[i]
  <2>1. k6 \in Seq(Int) /\ Len(k6) = Len(k5) + Lz /\ \A i \in 1 .. Len(k5) : k6[i] = k5[i]
    BY <1>5, <1>10, ConcatAt DEF Lz
  <2> HIDE DEF k6
  <2>2. QED
    BY <1>10, <2>1
<1> HIDE DEF k6, Ll
<1>12. Ll \in Nat /\ La \in Nat /\ Lb \in Nat /\ Lz \in Nat
  BY <1>2, <1>5
<1>13. \A i \in 1 .. 4 + Ll + La + Lb : k6[i] = k4[i]
  <2>1. \A i \in 1 .. 4 + Ll + La + Lb : i \in 1 .. 4 + Ll + La + Lb + Lz
    BY <1>12
  <2>2. QED
    BY <1>10, <1>11, <2>1
<1>14. \A i \in 1 .. 4 + Ll + La : k6[i] = k3[i]
  <2>1. \A i \in 1 .. 4 + Ll + La : i \in 1 .. 4 + Ll + La + Lb
    BY <1>12
  <2>2. QED
    BY <1>9, <1>13, <2>1
<1>15. \A i \in 1 .. Lb : k6[4 + Ll + La + i] = Element(b)[i]
  <2>1. ASSUME NEW i \in 1 .. Lb PROVE k6[4 + Ll + La + i] = Element(b)[i]
    <3>1. 4 + Ll + La + i \in 1 .. 4 + Ll + La + Lb
      BY <1>12
    <3>2. QED
      BY <1>9, <1>13, <3>1
  <2>2. QED
    BY <2>1
<1>16. \A i \in 1 .. La : k6[4 + Ll + i] = Element(a)[i]
  <2>1. ASSUME NEW i \in 1 .. La PROVE k6[4 + Ll + i] = Element(a)[i]
    <3>1. 4 + Ll + i \in 1 .. 4 + Ll + La
      BY <1>12
    <3>2. QED
      BY <1>8, <1>14, <3>1
  <2>2. QED
    BY <2>1
<1>17. \A i \in 1 .. 3 : k6[i] = head[i]
  BY <1>8, <1>12, <1>14
<1>18. k6[1] = S5 /\ k6[2] = PackageOp /\ k6[3] = 64 * Ll + 8
  BY <1>3, <1>17
<1>19. Len(k6) \in Nat /\ Len(k6) >= 4 + Ll + La + Lb
  BY <1>11, <1>12
<1>20. QED
  BY <1>1, <1>11, <1>15, <1>16, <1>18, <1>19 DEF Ll, La, Lb

Names(bytes) == {p \in DOMAIN bytes : bytes[p] = S5 /\ p < Len(bytes)}

LEMMA PreludeIs ==
  ASSUME NEW p \in Preludes
  PROVE  /\ p \in Seq(Int) /\ Len(p) \in Nat /\ DOMAIN p = 1 .. Len(p)
         /\ \A i \in 1 .. Len(p) - 1 : p[i] = S5 => p[i + 1] # PackageOp
         /\ ~Mentions(p) => \A i \in 1 .. Len(p) : p[i] # S5
<1> DEFINE Bytes == (0 .. 255) \cup {S5}
<1>1. p \in Seq(Bytes)
  BY AcpiAssumption
<1>2. Bytes \subseteq Int
  BY DEF S5
<1> HIDE DEF Bytes
<1>3. p \in Seq(Int) /\ Len(p) \in Nat /\ DOMAIN p = 1 .. Len(p)
  BY <1>1, <1>2, SeqMonotonic, LenProperties
<1>4. QED
  BY <1>3, AcpiAssumption DEF Mentions

\* The first name is one that no package follows, so parse_s5 goes no further.
LEMMA EarlyMention ==
  ASSUME NEW p \in Preludes, NEW bytes \in Seq(Int), Len(p) <= Len(bytes),
         \A i \in 1 .. Len(p) : bytes[i] = p[i],
         Len(p) < Len(bytes) => bytes[Len(p) + 1] # PackageOp,
         Mentions(p)
  PROVE  parse_s5(bytes) = << >>
<1> DEFINE n == Len(p)
           m == Min(Names(bytes))
<1>1. /\ n \in Nat /\ DOMAIN p = 1 .. n /\ Len(bytes) \in Nat /\ DOMAIN bytes = 1 .. Len(bytes)
      /\ \A i \in 1 .. n - 1 : p[i] = S5 => p[i + 1] # PackageOp
  BY PreludeIs
<1>2. PICK i \in 1 .. n : p[i] = S5
  BY <1>1 DEF Mentions
<1>3. CASE Names(bytes) = {}
  BY <1>3 DEF parse_s5, Names
<1>4. CASE Names(bytes) # {}
  <2>1. \A j \in Names(bytes) : j \in 1 .. Len(bytes) /\ j < Len(bytes) /\ bytes[j] = S5
    BY <1>1 DEF Names
  <2>2. \E x \in Names(bytes) : \A y \in Names(bytes) : x <= y
    <3>1. Names(bytes) \subseteq Nat
      BY <1>1, <2>1
    <3>2. QED
      BY <1>4, <3>1, LeastNat
  <2>3. m \in Names(bytes) /\ \A y \in Names(bytes) : m <= y
    BY <2>2 DEF Min
  <2> HIDE DEF m
  <2>4. m <= n
    <3>1. CASE i < Len(bytes)
      <4>1. i \in Names(bytes)
        BY <1>1, <1>2, <3>1 DEF Names
      <4>2. QED
        BY <1>1, <1>2, <2>1, <2>3, <4>1
    <3>2. CASE ~(i < Len(bytes))
      BY <1>1, <1>2, <2>1, <2>3, <3>2
    <3>3. QED
      BY <3>1, <3>2
  <2>5. m \in 1 .. n /\ m < Len(bytes) /\ p[m] = S5
    BY <1>1, <2>1, <2>3, <2>4
  <2>6. bytes[m + 1] # PackageOp
    <3>1. CASE m < n
      <4>1. m \in 1 .. n - 1 /\ m + 1 \in 1 .. n
        BY <1>1, <2>5, <3>1
      <4>2. p[m + 1] # PackageOp
        BY <1>1, <2>5, <4>1
      <4>3. bytes[m + 1] = p[m + 1]
        BY <4>1
      <4>4. QED
        BY <4>2, <4>3
    <3>2. CASE m = n
      BY <1>1, <2>5, <3>2
    <3>3. m < n \/ m = n
      <4>1. n \in Nat /\ m \in 1 .. n
        BY <1>1, <2>5
      <4> HIDE DEF n
      <4>2. QED
        BY <4>1
    <3>4. QED
      BY <3>1, <3>2, <3>3
  <2>7. QED
    BY <2>6 DEF parse_s5, Names, m
<1>5. QED
  BY <1>3, <1>4

LEMMA NameIsFound ==
  ASSUME NEW p \in Seq(Int), \A i \in 1 .. Len(p) : p[i] # S5,
         NEW k \in Seq(Int), Len(k) >= 2, k[1] = S5
  PROVE  /\ Names(p \o k) # {} /\ Min(Names(p \o k)) = Len(p) + 1
         /\ Len(p) \in Nat /\ Len(k) \in Nat
         /\ \A i \in 1 .. Len(k) : (p \o k)[Len(p) + i] = k[i]
<1> DEFINE bytes == p \o k
           n == Len(p)
<1>1. n \in Nat /\ Len(k) \in Nat /\ p \in Seq(Int) /\ \A i \in 1 .. n : p[i] # S5
  OBVIOUS
<1>2. /\ bytes \in Seq(Int) /\ Len(bytes) = n + Len(k)
      /\ \A i \in 1 .. n : bytes[i] = p[i]
      /\ \A i \in 1 .. Len(k) : bytes[n + i] = k[i]
  BY <1>1, ConcatAt
<1> HIDE DEF bytes, n
<1>3. DOMAIN bytes = 1 .. n + Len(k)
  BY <1>2
<1>4. n + 1 \in Names(bytes)
  <2>1. n + 1 \in 1 .. n + Len(k) /\ n + 1 < n + Len(k) /\ 1 \in 1 .. Len(k)
    BY <1>1
  <2>2. QED
    BY <1>2, <1>3, <2>1 DEF Names
<1>5. \A j \in Names(bytes) : n + 1 <= j /\ j \in Nat
  <2>1. SUFFICES ASSUME NEW j \in Names(bytes), j < n + 1 PROVE FALSE
    BY <1>1, <1>3 DEF Names
  <2>2. j \in 1 .. n /\ bytes[j] = S5
    BY <1>1, <1>3, <2>1 DEF Names
  <2>3. QED
    BY <1>1, <1>2, <2>2
<1>6. Min(Names(bytes)) = n + 1
  <2>1. \E x \in Names(bytes) : \A y \in Names(bytes) : x <= y
    BY <1>4, <1>5
  <2>2. Min(Names(bytes)) \in Names(bytes) /\ \A y \in Names(bytes) : Min(Names(bytes)) <= y
    BY <2>1 DEF Min
  <2>3. QED
    BY <1>1, <1>4, <1>5, <2>2
<1>7. QED
  BY <1>1, <1>2, <1>4, <1>6 DEF bytes, n

\* The first byte of an element says where its value is.
PlaceOf(bytes, q) == IF bytes[q] = BytePrefix THEN q + 1 ELSE q

Holds(bytes, at, v) == \A i \in 1 .. Len(Element(v)) : bytes[at + i] = Element(v)[i]

LEMMA ValueIs ==
  ASSUME NEW bytes, NEW at \in Nat, NEW v \in 0 .. 7, Holds(bytes, at, v)
  PROVE  /\ bytes[PlaceOf(bytes, at + 1)] = v
         /\ PlaceOf(bytes, at + 1) = at + Len(Element(v))
<1> DEFINE n == Len(Element(v))
           e == Element(v)
<1>1. /\ n \in {1, 2} /\ (n = 1 => e[1] = v /\ v # BytePrefix)
      /\ n = 2 => e[1] = BytePrefix /\ e[2] = v
  BY ElementIs
<1>2. \A i \in 1 .. n : bytes[at + i] = e[i]
  BY DEF Holds
<1> HIDE DEF n, e
<1>3. bytes[at + 1] = e[1] /\ (n = 2 => bytes[at + 2] = e[2])
  BY <1>1, <1>2
<1>4. CASE n = 1
  BY <1>1, <1>3, <1>4 DEF n, PlaceOf
<1>5. CASE n = 2
  <2>1. at + 1 + 1 = at + 2
    OBVIOUS
  <2>2. QED
    BY <1>1, <1>3, <1>5, <2>1 DEF n, PlaceOf
<1>6. QED
  BY <1>1, <1>4, <1>5

LEMMA ParseFinds ==
  ASSUME NEW t \in Tables
  PROVE  /\ parse_s5(t.bytes) = IF t.early THEN << >> ELSE t.s5
         /\ \/ t.s5 = << >>
            \/ \E a, b \in SleepTypes : t.s5 = <<a, b>>
<1> DEFINE Defining == {[bytes |-> p \o Package(a, b, l), s5 |-> <<a, b>>, early |-> Mentions(p)] :
                         p \in Preludes, a \in SleepTypes, b \in SleepTypes, l \in LengthBytes}
           Naming == {[bytes |-> p \o <<S5, 0>>, s5 |-> << >>, early |-> Mentions(p)] : p \in Preludes}
           Without == {[bytes |-> p, s5 |-> << >>, early |-> Mentions(p)] : p \in Preludes}
<1>1. CASE t \in Defining
  <2>1. PICK p \in Preludes, a \in SleepTypes, b \in SleepTypes, l \in LengthBytes :
               t = [bytes |-> p \o Package(a, b, l), s5 |-> <<a, b>>, early |-> Mentions(p)]
    BY <1>1
  <2> DEFINE k == Package(a, b, l)
             bytes == p \o k
             n == Len(p)
             Ll == Len(l)
             La == Len(Element(a))
             Lb == Len(Element(b))
  <2>2. a \in 0 .. 7 /\ b \in 0 .. 7 /\ p \in Seq(Int) /\ l \in Seq(Int)
        /\ Ll \in Nat /\ Ll <= 3
    <3>1. a \in 0 .. 7 /\ b \in 0 .. 7 /\ l \in Seq(0 .. 255) /\ Ll <= 3
      BY AcpiAssumption
    <3>2. QED
      BY <3>1, BytesAreInts, PreludeIs
  <2>3. La \in {1, 2} /\ Lb \in {1, 2}
    BY <2>2, ElementIs
  <2>4. /\ k \in Seq(Int) /\ Len(k) \in Nat /\ Len(k) >= 4 + Ll + La + Lb
        /\ k[1] = S5 /\ k[2] = PackageOp /\ k[3] = 64 * Ll + 8
        /\ \A i \in 1 .. La : k[4 + Ll + i] = Element(a)[i]
        /\ \A i \in 1 .. Lb : k[4 + Ll + La + i] = Element(b)[i]
    BY <2>2, PackageIs
  <2>5. Len(k) >= 2
    BY <2>2, <2>3, <2>4
  <2> HIDE DEF k
  <2>0. CASE Mentions(p)
    <3>1. /\ bytes \in Seq(Int) /\ Len(bytes) = n + Len(k) /\ n \in Nat
          /\ \A i \in 1 .. n : bytes[i] = p[i]
          /\ \A i \in 1 .. Len(k) : bytes[n + i] = k[i]
      BY <2>2, <2>4, ConcatAt, PreludeIs
    <3> HIDE DEF bytes, n
    <3>2. n <= Len(bytes) /\ bytes[n + 1] # PackageOp
      <4>1. 1 \in 1 .. Len(k) /\ n <= Len(bytes)
        <5>1. Len(k) \in Nat /\ Len(k) >= 2 /\ n \in Nat /\ Len(bytes) = n + Len(k)
          BY <2>4, <2>5, <3>1
        <5>2. QED
          BY <5>1
      <4>2. bytes[n + 1] = k[1]
        BY <3>1, <4>1
      <4>3. QED
        BY <2>4, <4>1, <4>2 DEF S5, PackageOp
    <3>3. parse_s5(bytes) = << >>
      BY <2>0, <3>1, <3>2, EarlyMention DEF n
    <3>4. QED
      BY <2>0, <2>1, <3>3 DEF k, bytes
  <2> SUFFICES ASSUME ~Mentions(p) PROVE parse_s5(t.bytes) = <<a, b>>
    BY <2>0, <2>1
  <2>6. /\ Names(bytes) # {} /\ Min(Names(bytes)) = n + 1 /\ n \in Nat
        /\ \A i \in 1 .. Len(k) : bytes[n + i] = k[i]
    BY <2>2, <2>4, <2>5, NameIsFound, PreludeIs
  <2>7. t.bytes = bytes /\ t.s5 = <<a, b>>
    BY <2>1 DEF k
  <2> HIDE DEF bytes, n, Ll, La, Lb
  <2>8. bytes[n + 2] = PackageOp /\ bytes[n + 3] = 64 * Ll + 8
    <3>1. 2 \in 1 .. Len(k) /\ 3 \in 1 .. Len(k)
      BY <2>2, <2>3, <2>4
    <3>2. QED
      BY <2>4, <2>6, <3>1
  <2>9. pkglength_encoding_size(bytes[n + 3]) = Ll + 1
    BY <2>2, <2>8 DEF pkglength_encoding_size
  <2> DEFINE at == n + 4 + Ll
             then == at + La
  <2>10. at \in Nat /\ then \in Nat
    BY <2>2, <2>3, <2>6
  <2>11. Holds(bytes, at, a)
    <3>1. ASSUME NEW i \in 1 .. La PROVE bytes[at + i] = Element(a)[i]
      <4>1. 4 + Ll + i \in 1 .. Len(k) /\ at + i = n + (4 + Ll + i)
        BY <2>2, <2>3, <2>4, <2>6
      <4>2. QED
        BY <2>4, <2>6, <4>1
    <3>2. QED
      BY <3>1 DEF Holds, La
  <2>12. Holds(bytes, then, b)
    <3>1. ASSUME NEW i \in 1 .. Lb PROVE bytes[then + i] = Element(b)[i]
      <4>1. 4 + Ll + La + i \in 1 .. Len(k)
        <5>1. Ll \in Nat /\ La \in Nat /\ Lb \in Nat /\ Len(k) \in Nat /\ Len(k) >= 4 + Ll + La + Lb
          BY <2>2, <2>3, <2>4
        <5>2. QED
          BY <5>1
      <4>2. then + i = n + (4 + Ll + La + i)
        BY <2>2, <2>3, <2>6
      <4>3. bytes[n + (4 + Ll + La + i)] = k[4 + Ll + La + i]
        BY <2>6, <4>1
      <4>4. QED
        BY <2>4, <4>2, <4>3
    <3>2. QED
      BY <3>1 DEF Holds, Lb
  <2> HIDE DEF at, then
  <2>13. bytes[PlaceOf(bytes, at + 1)] = a /\ PlaceOf(bytes, at + 1) = then
    <3>1. then = at + Len(Element(a))
      BY DEF La, then
    <3>2. QED
      BY <2>2, <2>10, <2>11, <3>1, ValueIs
  <2>14. bytes[PlaceOf(bytes, then + 1)] = b
    BY <2>2, <2>10, <2>12, ValueIs
  <2>15. /\ (n + 1) + 1 = n + 2 /\ (n + 2) + 1 = n + 3
         /\ (n + 2) + 1 + (Ll + 1) + 1 = at + 1
    BY <2>2, <2>6 DEF at
  <2>16. parse_s5(bytes) = <<bytes[PlaceOf(bytes, at + 1)], bytes[PlaceOf(bytes, then + 1)]>>
    <3>1. parse_s5(bytes) =
            LET op == Min(Names(bytes)) + 1
                first == op + 1 + pkglength_encoding_size(bytes[op + 1]) + 1
                second == PlaceOf(bytes, first) + 1
            IN  IF Names(bytes) = {} \/ bytes[op] # PackageOp THEN << >>
                ELSE <<bytes[PlaceOf(bytes, first)], bytes[PlaceOf(bytes, second)]>>
      BY DEF parse_s5, Names, PlaceOf
    <3>2. QED
      BY <2>6, <2>8, <2>9, <2>13, <2>15, <3>1
  <2>17. QED
    BY <2>7, <2>13, <2>14, <2>16
<1>2. CASE t \in Naming
  <2>1. PICK p \in Preludes : t = [bytes |-> p \o <<S5, 0>>, s5 |-> << >>, early |-> Mentions(p)]
    BY <1>2
  <2> DEFINE k == <<S5, 0>>
             bytes == p \o k
  <2>2. p \in Seq(Int) /\ k \in Seq(Int) /\ Len(k) = 2 /\ k[1] = S5 /\ k[2] = 0
    BY PreludeIs DEF S5
  <2> HIDE DEF k
  <2>3. ASSUME Mentions(p) PROVE parse_s5(bytes) = << >>
    <3>1. /\ bytes \in Seq(Int) /\ Len(bytes) = Len(p) + Len(k) /\ Len(p) \in Nat
          /\ \A i \in 1 .. Len(p) : bytes[i] = p[i]
          /\ \A i \in 1 .. Len(k) : bytes[Len(p) + i] = k[i]
      BY <2>2, ConcatAt, PreludeIs
    <3> HIDE DEF bytes
    <3>2. Len(p) <= Len(bytes) /\ bytes[Len(p) + 1] # PackageOp
      <4>1. 1 \in 1 .. Len(k) /\ Len(p) <= Len(bytes)
        BY <2>2, <3>1
      <4>2. bytes[Len(p) + 1] = k[1]
        BY <3>1, <4>1
      <4>3. QED
        BY <2>2, <4>1, <4>2 DEF S5, PackageOp
    <3>3. QED
      BY <2>3, <3>1, <3>2, EarlyMention
  <2>4. ASSUME ~Mentions(p) PROVE parse_s5(bytes) = << >>
    <3>1. /\ Min(Names(bytes)) = Len(p) + 1 /\ Len(p) \in Nat
          /\ \A i \in 1 .. 2 : bytes[Len(p) + i] = k[i]
      <4>1. Len(k) >= 2
        BY <2>2
      <4>2. QED
        BY <2>2, <2>4, <4>1, NameIsFound, PreludeIs
    <3> HIDE DEF bytes
    <3>2. (Len(p) + 1) + 1 = Len(p) + 2 /\ 2 \in 1 .. 2
      BY <3>1
    <3>3. bytes[Min(Names(bytes)) + 1] # PackageOp
      BY <2>2, <3>1, <3>2 DEF PackageOp
    <3>4. QED
      BY <3>3 DEF parse_s5, Names
  <2>5. parse_s5(bytes) = << >>
    BY <2>3, <2>4
  <2>6. QED
    BY <2>1, <2>5 DEF bytes, k
<1>3. CASE t \in Without
  <2>1. PICK p \in Preludes : t = [bytes |-> p, s5 |-> << >>, early |-> Mentions(p)]
    BY <1>3
  <2>2. ASSUME Mentions(p) PROVE parse_s5(p) = << >>
    <3>1. p \in Seq(Int) /\ Len(p) \in Nat
      BY PreludeIs
    <3>2. QED
      BY <2>2, <3>1, EarlyMention
  <2>3. ASSUME ~Mentions(p) PROVE parse_s5(p) = << >>
    <3>1. Names(p) = {}
      BY <2>3, PreludeIs DEF Names
    <3>2. QED
      BY <3>1 DEF parse_s5, Names
  <2>4. parse_s5(p) = << >>
    BY <2>2, <2>3
  <2>5. QED
    BY <2>1, <2>4
<1>4. Tables = Defining \cup Naming \cup Without
  BY DEF Tables
<1> HIDE DEF Defining, Naming, Without
<1>5. QED
  BY <1>1, <1>2, <1>3, <1>4

LEMMA WordIs == \A typ \in 0 .. 7 : Word(typ) = typ * 1024 + SLP_EN
BY DEF Word, SLP_EN

\* acpi_poweroff is past its test of "ready".
Going == {"wait", "write a", "write b", "after", "off", "halted"}

ReadyInv ==
  /\ phase \in {"boot", "up"} \cup Going /\ ready \in BOOLEAN
  /\ phase \in Going => ready
  /\ phase = "boot" => dsdt = NoTable /\ ~ready
  /\ ready => /\ registers \in {{1}, {1, 2}}
              /\ slp_typ = dsdt.s5
              /\ \E a, b \in 0 .. 7 : slp_typ = <<a, b>>
  /\ phase # "boot" /\ dsdt # NoTable => ready = (dsdt.s5 # << >> /\ ~dsdt.early)
  /\ phase = "halted" \/ (phase = "up" /\ ~ready) => said

WordsInv ==
  /\ phase \in {"boot", "up", "wait", "write a"} => pm1 = << >>
  /\ phase = "write b" => pm1 = <<Word(slp_typ[1])>> /\ 2 \in registers
  /\ phase \in {"after", "off", "halted"} =>
       pm1 = IF 2 \in registers THEN <<Word(slp_typ[1]), Word(slp_typ[2])>>
             ELSE <<Word(slp_typ[1])>>

AcpiInv == ReadyInv /\ WordsInv

LEMMA AcpiInitInv == ASSUME AcpiInv, acpi_init PROVE AcpiInv'
<1>1. /\ phase = "boot" /\ phase' = "up" /\ dsdt = NoTable /\ ~ready /\ pm1 = << >> /\ pm1' = pm1
  BY DEF AcpiInv, ReadyInv, WordsInv, acpi_init, Fail
<1>2. WordsInv'
  BY <1>1 DEF WordsInv
<1>3. CASE UNCHANGED dsdt /\ Fail
  BY <1>1, <1>2, <1>3 DEF AcpiInv, ReadyInv, Fail, NoTable, Going
<1>4. CASE /\ dsdt' \in Tables /\ registers' \in {{1}, {1, 2}}
           /\ IF parse_s5(dsdt'.bytes) = << >> THEN Fail
              ELSE slp_typ' = parse_s5(dsdt'.bytes) /\ ready' = TRUE /\ UNCHANGED said
  <2>1. /\ parse_s5(dsdt'.bytes) = IF dsdt'.early THEN << >> ELSE dsdt'.s5
        /\ dsdt'.s5 = << >> \/ \E a, b \in SleepTypes : dsdt'.s5 = <<a, b>>
    BY <1>4, ParseFinds
  <2>2. CASE dsdt'.s5 = << >> \/ dsdt'.early
    BY <1>1, <1>2, <1>4, <2>1, <2>2 DEF AcpiInv, ReadyInv, Fail, Going
  <2>3. CASE dsdt'.s5 # << >> /\ ~dsdt'.early
    <3>1. slp_typ' = dsdt'.s5 /\ ready' = TRUE
      BY <1>4, <2>1, <2>3
    <3>2. \E a, b \in 0 .. 7 : dsdt'.s5 = <<a, b>>
      BY <2>1, <2>3, AcpiAssumption
    <3>3. QED
      BY <1>1, <1>2, <1>4, <2>3, <3>1, <3>2 DEF AcpiInv, ReadyInv, Going
  <2>4. QED
    BY <2>2, <2>3
<1>5. QED
  BY <1>3, <1>4 DEF acpi_init

LEMMA PowerOffInv ==
  ASSUME AcpiInv, acpi_poweroff \/ Enabled \/ Wait \/ WriteA \/ WriteB \/ Off \/ Halt
  PROVE  AcpiInv'
<1>1. /\ ReadyInv /\ WordsInv
      /\ UNCHANGED <<dsdt, registers, slp_typ, ready>>
  BY DEF AcpiInv, acpi_poweroff, Enabled, Wait, WriteA, WriteB, Off, Halt, Goto
<1>2. phase # "boot" /\ phase' # "boot"
  BY DEF acpi_poweroff, Enabled, Wait, WriteA, WriteB, Off, Halt, Goto
<1>3. phase' \in {"up"} \cup Going /\ (phase' \in Going => ready)
  BY <1>1, <1>2
     DEF ReadyInv, Going, acpi_poweroff, Enabled, Wait, WriteA, WriteB, Off, Halt, Goto
<1>4. (phase' = "halted" \/ (phase' = "up" /\ ~ready)) => said'
  BY <1>1, <1>2
     DEF ReadyInv, Going, acpi_poweroff, Enabled, Wait, WriteA, WriteB, Off, Halt, Goto
<1>5. ReadyInv'
  BY <1>1, <1>2, <1>3, <1>4 DEF ReadyInv
<1>6. WordsInv'
  <2>1. CASE acpi_poweroff
    BY <1>1, <2>1 DEF WordsInv, acpi_poweroff, Goto
  <2>2. CASE Enabled
    BY <1>1, <2>2 DEF WordsInv, Enabled
  <2>3. CASE Wait
    BY <1>1, <2>3 DEF WordsInv, Wait, Goto
  <2>4. CASE WriteA
    <3>1. pm1' = <<Word(slp_typ'[1])>> /\ phase' = IF 2 \in registers' THEN "write b" ELSE "after"
      BY <1>1, <2>4 DEF WriteA, Goto
    <3>2. QED
      BY <3>1 DEF WordsInv
  <2>5. CASE WriteB
    <3>1. pm1 = <<Word(slp_typ'[1])>> /\ 2 \in registers'
      BY <1>1, <2>5 DEF WordsInv, WriteB
    <3>2. pm1' = Append(<<Word(slp_typ'[1])>>, Word(slp_typ'[2])) /\ phase' = "after"
      BY <1>1, <2>5, <3>1 DEF WriteB, Goto
    <3>3. pm1' = <<Word(slp_typ'[1]), Word(slp_typ'[2])>>
      <4> DEFINE u == Word(slp_typ'[1])
                 v == Word(slp_typ'[2])
      <4> HIDE DEF u, v
      <4>1. Append(<<u>>, v) = <<u, v>>
        BY AppendToOne
      <4>2. QED
        BY <3>2, <4>1 DEF u, v
    <3>4. QED
      BY <3>1, <3>2, <3>3 DEF WordsInv
  <2>6. CASE Off
    BY <1>1, <2>6 DEF WordsInv, Off, Goto
  <2>7. CASE Halt
    BY <1>1, <2>7 DEF WordsInv, Halt, Goto
  <2>8. QED
    BY <2>1, <2>2, <2>3, <2>4, <2>5, <2>6, <2>7
<1>7. QED
  BY <1>5, <1>6 DEF AcpiInv

THEOREM AcpiInvariance == AcpiSpec => []AcpiInv
<1>1. AcpiInit => AcpiInv
  BY DEF AcpiInit, AcpiInv, ReadyInv, WordsInv, Going
<1>2. AcpiInv /\ [AcpiNext]_acpiVars => AcpiInv'
  <2>1. SUFFICES ASSUME AcpiInv, [AcpiNext]_acpiVars PROVE AcpiInv'
    OBVIOUS
  <2>2. CASE AcpiNext
    BY <2>1, <2>2, AcpiInitInv, PowerOffInv DEF AcpiNext
  <2>3. CASE UNCHANGED acpiVars
    BY <2>1, <2>3 DEF acpiVars, AcpiInv, ReadyInv, WordsInv
  <2>4. QED
    BY <2>1, <2>2, <2>3
<1>3. QED
  BY <1>1, <1>2, PTL DEF AcpiSpec

(***************************************************************************)
(* However a firmware's tables encode \_S5, and whatever they hold before   *)
(* it except its name, acpi.c reads its values, and tells every register   *)
(* of the machine the one that the tables have for it.  Of tables that use *)
(* the name before, or never define it, it reads none, and says so.        *)
(***************************************************************************)
THEOREM PoweroffTellsS5 == AcpiSpec => []PoweroffIsS5
<1>1. AcpiInv => PoweroffIsS5
  <2>1. SUFFICES ASSUME AcpiInv PROVE PoweroffIsS5
    OBVIOUS
  <2>2. /\ phase # "boot" /\ dsdt # NoTable => ready = (dsdt.s5 # << >> /\ ~dsdt.early)
        /\ (phase = "halted" \/ (phase = "up" /\ ~ready)) => said
    BY <2>1 DEF AcpiInv, ReadyInv
  <2>3. CASE phase \in {"boot", "up", "wait", "write a"}
    <3>1. pm1 = << >>
      BY <2>1, <2>3 DEF AcpiInv, WordsInv
    <3>2. DOMAIN pm1 = {}
      BY <3>1
    <3>3. QED
      BY <2>2, <2>3, <3>2 DEF PoweroffIsS5
  <2>4. CASE phase \in {"write b", "after", "off", "halted"}
    <3>1. ready /\ registers \in {{1}, {1, 2}} /\ slp_typ = dsdt.s5
      BY <2>1, <2>4 DEF AcpiInv, ReadyInv, Going
    <3>2. PICK a \in 0 .. 7, b \in 0 .. 7 : slp_typ = <<a, b>>
      BY <2>1, <3>1 DEF AcpiInv, ReadyInv
    <3>3. Word(slp_typ[1]) = dsdt.s5[1] * 1024 + SLP_EN /\ Word(slp_typ[2]) = dsdt.s5[2] * 1024 + SLP_EN
      BY <3>1, <3>2, WordIs
    <3> DEFINE u == Word(slp_typ[1])
               v == Word(slp_typ[2])
    <3>4. /\ phase = "write b" => pm1 = <<u>>
          /\ phase # "write b" => pm1 = IF 2 \in registers THEN <<u, v>> ELSE <<u>>
      BY <2>1, <2>4 DEF AcpiInv, WordsInv
    <3> HIDE DEF u, v
    <3>5. pm1 = <<u>> \/ pm1 = <<u, v>>
      BY <2>4, <3>4
    <3>6. \A k \in DOMAIN pm1 : pm1[k] = dsdt.s5[k] * 1024 + SLP_EN
      <4>1. CASE pm1 = <<u>>
        BY <3>3, <4>1 DEF u
      <4>2. CASE pm1 = <<u, v>>
        BY <3>3, <4>2 DEF u, v
      <4>3. QED
        BY <3>5, <4>1, <4>2
    <3>7. phase # "write b" => DOMAIN pm1 = registers
      <4>1. DOMAIN <<u>> = {1} /\ DOMAIN <<u, v>> = {1, 2}
        OBVIOUS
      <4>2. CASE registers = {1}
        BY <3>4, <4>1, <4>2
      <4>3. CASE registers = {1, 2}
        BY <3>4, <4>1, <4>3
      <4>4. QED
        BY <3>1, <4>2, <4>3
    <3>8. QED
      BY <2>2, <2>4, <3>6, <3>7 DEF PoweroffIsS5
  <2>5. QED
    BY <2>1, <2>3, <2>4 DEF AcpiInv, ReadyInv, Going
<1>2. QED
  BY <1>1, AcpiInvariance, PTL

-----------------------------------------------------------------------------
(***************************************************************************)
(* Loader.  A segment that is accepted does not wrap around, so it lies in *)
(* the window; what is in it stays there while the others are laid beside  *)
(* it and the buffer is given back.                                        *)
(***************************************************************************)

\* Segment ph has its place in the window, without wrapping around.
Placed(ph) ==
  /\ ph.vaddr \in Addr /\ ph.memsz \in Addr /\ ph.filesz \in Addr /\ ph.offset \in Addr
  /\ ELF_USER_MIN_ADDR <= ph.vaddr
  /\ ph.vaddr + ph.memsz <= ELF_USER_MAX_ADDR
  /\ ph.vaddr + ph.memsz < WORD
  /\ ph.filesz <= ph.memsz

\* Memory m holds segment ph of the file of this name: InMemory of any memory.
Laid(m, name, ph) ==
  \A k \in 0 .. ph.memsz - 1 :
    m[Plus(ph.vaddr, k)] = IF k < ph.filesz THEN <<name, ph.offset + k>> ELSE Zero

\* The cells from base on, in a memory where they do not wrap around.
LEMMA SpanIs ==
  ASSUME NEW base \in Nat, NEW length \in Nat, base + length <= WORD
  PROVE  /\ At(base, length) = base .. base + length - 1
         /\ \A k \in 0 .. length - 1 : Plus(base, k) = base + k
<1>1. WORD \in Nat \ {0}
  BY LoaderAssumption
<1>2. ASSUME NEW k \in 0 .. length - 1 PROVE Plus(base, k) = base + k
  <2>1. base + k \in Nat /\ base + k < WORD
    BY <1>1
  <2>2. QED
    BY <2>1, <1>1 DEF Plus
<1>3. ASSUME NEW a \in base .. base + length - 1 PROVE a \in At(base, length)
  <2>1. a - base \in 0 .. length - 1 /\ base + (a - base) = a
    OBVIOUS
  <2>2. QED
    BY <2>1, <1>2 DEF At
<1>4. ASSUME NEW a \in At(base, length) PROVE a \in base .. base + length - 1
  <2>1. PICK k \in 0 .. length - 1 : a = Plus(base, k)
    BY DEF At
  <2>2. QED
    BY <2>1, <1>2
<1>5. QED
  BY <1>2, <1>3, <1>4

LEMMA BufferIs ==
  ASSUME NEW b \in BufferPlaces
  PROVE  /\ b \in Nat /\ b # Null /\ b + ELF_MAX_FILE_SIZE <= WORD
         /\ BufferAt(b) = b .. b + ELF_MAX_FILE_SIZE - 1
         /\ \A n \in 0 .. ELF_MAX_FILE_SIZE : At(b, n) = b .. b + n - 1
<1>1. /\ b \in Nat /\ b # Null /\ b + ELF_MAX_FILE_SIZE <= WORD
      /\ ELF_MAX_FILE_SIZE \in Nat /\ WORD \in Nat
  BY LoaderAssumption
<1>2. ASSUME NEW n \in 0 .. ELF_MAX_FILE_SIZE PROVE At(b, n) = b .. b + n - 1
  <2>1. n \in Nat /\ b + n <= WORD
    BY <1>1
  <2>2. QED
    BY <2>1, <1>1, SpanIs
<1>3. ELF_MAX_FILE_SIZE \in 0 .. ELF_MAX_FILE_SIZE
  BY <1>1
<1>4. QED
  BY <1>1, <1>2, <1>3 DEF BufferAt

LEMMA PlacedSpan ==
  ASSUME NEW ph, Placed(ph)
  PROVE  /\ At(ph.vaddr, ph.memsz) = ph.vaddr .. ph.vaddr + ph.memsz - 1
         /\ At(ph.vaddr, ph.filesz) = ph.vaddr .. ph.vaddr + ph.filesz - 1
         /\ \A k \in 0 .. ph.memsz - 1 : Plus(ph.vaddr, k) = ph.vaddr + k
         /\ At(ph.vaddr, ph.memsz) \subseteq User
         /\ At(ph.vaddr, ph.memsz) \subseteq Addr
<1>1. WORD \in Nat \ {0} /\ ELF_USER_MIN_ADDR \in Nat /\ ELF_USER_MAX_ADDR \in Nat
  BY LoaderAssumption
<1> DEFINE v == ph.vaddr
           n == ph.memsz
           d == ph.filesz
<1>2. /\ v \in Nat /\ n \in Nat /\ d \in Nat /\ v + n <= WORD /\ v + d <= WORD
      /\ ELF_USER_MIN_ADDR <= v /\ v + n <= ELF_USER_MAX_ADDR
  BY <1>1 DEF Placed, Addr
<1> HIDE DEF v, n, d
<1>3. /\ At(v, n) = v .. v + n - 1 /\ At(v, d) = v .. v + d - 1
      /\ \A k \in 0 .. n - 1 : Plus(v, k) = v + k
  BY <1>2, SpanIs
<1>4. v .. v + n - 1 \subseteq User /\ v .. v + n - 1 \subseteq Addr
  BY <1>1, <1>2 DEF User, Addr
<1>5. QED
  BY <1>3, <1>4 DEF v, n, d

\* What is laid stays laid while its cells keep what they hold.
LEMMA LaidStays ==
  ASSUME NEW m, NEW m2, NEW name, NEW ph, Laid(m, name, ph),
         \A a \in At(ph.vaddr, ph.memsz) : m2[a] = m[a]
  PROVE  Laid(m2, name, ph)
<1>1. \A k \in 0 .. ph.memsz - 1 : Plus(ph.vaddr, k) \in At(ph.vaddr, ph.memsz)
  BY DEF At
<1>2. QED
  BY <1>1 DEF Laid

LEMMA HeaderFacts ==
  ASSUME NEW f \in ElfFiles, NEW i \in DOMAIN f.segments
  PROVE  LET ph == f.segments[i]
         IN  /\ ph.vaddr \in Addr /\ ph.memsz \in Addr /\ ph.filesz \in Addr
             /\ ph.offset \in Addr
             /\ ph.offset + ph.filesz < WORD
             /\ f.size % ClusterSize = 0 \/ ph.offset + ph.filesz <= f.size
<1>1. Segments(f)
  BY LoaderAssumption
<1>2. f.segments[i] \in ProgramHeaders
  BY <1>1 DEF Segments
<1>3. QED
  BY <1>1, <1>2 DEF Segments, ProgramHeaders

\* The file is read to its end, or to the end of the buffer; what comes behind
\* its end is the rest of a cluster.
LEMMA ReadIs ==
  ASSUME NEW f \in ElfFiles
  PROVE  /\ BytesRead(f) \in 0 .. ELF_MAX_FILE_SIZE
         /\ f.size % ClusterSize = 0 => BytesRead(f) <= f.size
<1> DEFINE c == ClusterSize
           s == f.size
           q == (s + c - 1) \div c
<1>1. c \in Nat \ {0} /\ s \in Nat /\ ELF_MAX_FILE_SIZE \in Nat
  BY LoaderAssumption
<1>2. s + c - 1 \in Nat
  BY <1>1
<1>3. q \in Nat /\ q * c <= s + c - 1
  BY <1>1, <1>2, Division
<1>4. BytesRead(f) = IF q * c > ELF_MAX_FILE_SIZE THEN ELF_MAX_FILE_SIZE ELSE q * c
  BY DEF BytesRead
<1> HIDE DEF q
<1>5. q * c \in Nat
  BY <1>1, <1>3, Product
<1>6. ASSUME s % c = 0 PROVE q * c <= s
  <2> DEFINE d == s \div c
  <2>1. d \in Nat /\ s = d * c
    BY <1>1, <1>6, Divides
  <2> HIDE DEF d
  <2>3. SUFFICES ASSUME d + 1 <= q PROVE FALSE
    BY <2>1, <1>1, <1>3, Product
  <2>4. (d + 1) * c <= q * c
    BY <2>1, <2>3, <1>1, <1>3, Product
  <2>5. (d + 1) * c = d * c + c
    BY <2>1, <1>1, SMT
  <2>6. QED
    BY <2>1, <2>4, <2>5, <1>1, <1>3, <1>5
<1>7. CASE q * c > ELF_MAX_FILE_SIZE
  BY <1>7, <1>1, <1>4, <1>5, <1>6 DEF c, s
<1>8. CASE q * c <= ELF_MAX_FILE_SIZE
  BY <1>8, <1>1, <1>4, <1>5, <1>6 DEF c, s
<1>9. QED
  BY <1>7, <1>8, <1>1, <1>5

LEMMA AcceptedIsPlaced ==
  ASSUME NEW f \in ElfFiles, NEW i \in DOMAIN f.segments, Accepted(f.segments[i])
  PROVE  /\ Placed(f.segments[i])
         /\ f.segments[i].offset + f.segments[i].filesz <= size
<1> DEFINE ph == f.segments[i]
           v == ph.vaddr
           n == ph.memsz
           e == Plus(v, n)
<1>1. /\ WORD \in Nat \ {0} /\ v \in Addr /\ n \in Addr /\ ph.filesz \in Addr /\ ph.offset \in Addr
      /\ ph.offset + ph.filesz < WORD
  BY HeaderFacts, LoaderAssumption
<1>2. /\ Plus(ph.offset, ph.filesz) <= size /\ ph.filesz <= n /\ v >= ELF_USER_MIN_ADDR
      /\ e <= ELF_USER_MAX_ADDR /\ e >= v
  BY DEF Accepted
<1>3. Plus(ph.offset, ph.filesz) = ph.offset + ph.filesz
  BY <1>1 DEF Plus, Addr
<1> HIDE DEF v, n
<1>4. v + n < WORD /\ e = v + n
  <2>1. v \in Nat /\ n \in Nat /\ v < WORD /\ n < WORD /\ e >= v
    BY <1>1, <1>2 DEF Addr
  <2>2. e = IF v + n < WORD THEN v + n ELSE v + n - WORD
    BY <2>1, <1>1, SumIs DEF Plus
  <2>3. QED
    BY <2>1, <2>2, <1>1
<1>5. QED
  BY <1>1, <1>2, <1>3, <1>4, LoaderAssumption DEF Placed, v, n

\* elf_load has this segment done, or has none to lay.
Done(ph) == Placed(ph) /\ InMemory(ph)

BufferInv ==
  /\ loading \in {"idle", "read", "check", "segment", "running", "garbled"}
  /\ loading \in {"idle", "running"} => buffer = Null
  /\ loading \in {"read", "check", "segment", "garbled"} => buffer \in BufferPlaces
  /\ loading \in {"check", "segment", "running"} => file \in ElfFiles
  /\ loading \in {"idle", "read", "check", "running"} => seg = 1
  /\ seg \in Nat \ {0}

ReadInv ==
  loading \in {"check", "segment"} =>
    /\ size = BytesRead(file)
    /\ \A k \in 0 .. size - 1 : mem[buffer + k] = Byte(file, k)

LaidInv ==
  /\ loading = "segment" =>
       \A j \in DOMAIN file.segments : j < seg =>
         LET ph == file.segments[j]
         IN  \/ Skipped(ph)
             \/ Done(ph) /\ At(ph.vaddr, ph.memsz) \cap BufferAt(buffer) = {}
  /\ loading = "running" =>
       \A j \in DOMAIN file.segments : Skipped(file.segments[j]) \/ Done(file.segments[j])

OutsideInv ==
  \A a \in Addr : mem[a] # Old => a \in User \cup UNION {BufferAt(b) : b \in BufferPlaces}

LoaderInv == BufferInv /\ ReadInv /\ LaidInv /\ OutsideInv

LEMMA InMemoryIs == \A ph : InMemory(ph) <=> Laid(mem, file.name, ph)
BY DEF InMemory, Laid

LEMMA ReturnInv ==
  ASSUME LoaderInv, loading \in {"read", "check", "segment"}, Return("idle")
  PROVE  LoaderInv'
<1>1. buffer' = Null /\ seg' = 1 /\ loading' = "idle"
  BY DEF Return
<1>2. BufferInv' /\ ReadInv' /\ LaidInv'
  BY <1>1 DEF BufferInv, ReadInv, LaidInv
<1>3. \A a \in Addr : mem'[a] # Old => mem[a] # Old
  BY DEF Return
<1>4. OutsideInv'
  BY <1>3 DEF LoaderInv, OutsideInv
<1>5. QED
  BY <1>2, <1>4 DEF LoaderInv

LEMMA ReadStepInv == ASSUME LoaderInv, Read PROVE LoaderInv'
<1>1. /\ loading = "read" /\ loading' = "check" /\ buffer' = buffer /\ seg' = seg
      /\ buffer \in BufferPlaces
  BY DEF Read, LoaderInv, BufferInv
<1>2. PICK f \in ElfFiles :
        /\ file' = f
        /\ size' = BytesRead(f)
        /\ mem' = [a \in Addr |-> IF a \in At(buffer, BytesRead(f))
                                  THEN Byte(f, (a - buffer) % WORD) ELSE mem[a]]
  BY DEF Read
<1> DEFINE n == BytesRead(f)
<1>3. /\ n \in 0 .. ELF_MAX_FILE_SIZE /\ ELF_MAX_FILE_SIZE \in Nat
      /\ buffer \in Nat /\ buffer + ELF_MAX_FILE_SIZE <= WORD /\ WORD \in Nat \ {0}
      /\ BufferAt(buffer) = buffer .. buffer + ELF_MAX_FILE_SIZE - 1
      /\ At(buffer, n) = buffer .. buffer + n - 1
  BY <1>1, ReadIs, BufferIs, LoaderAssumption
<1> HIDE DEF n
<1>4. ASSUME NEW k \in 0 .. n - 1 PROVE mem'[buffer + k] = Byte(f, k)
  <2>1. /\ buffer + k \in Addr /\ buffer + k \in At(buffer, n)
        /\ (buffer + k) - buffer = k /\ k \in Nat /\ k < WORD
    BY <1>3 DEF Addr
  <2>2. k % WORD = k
    BY <2>1, <1>3
  <2>3. QED
    BY <2>1, <2>2, <1>2 DEF n
<1>5. \A a \in Addr : mem'[a] # Old => mem[a] # Old \/ a \in BufferAt(buffer)
  BY <1>2, <1>3 DEF n
<1>6. OutsideInv'
  BY <1>5, <1>1 DEF LoaderInv, OutsideInv
<1>7. BufferInv' /\ LaidInv'
  BY <1>1, <1>2 DEF LoaderInv, BufferInv, LaidInv
<1>8. ReadInv'
  BY <1>1, <1>2, <1>4 DEF ReadInv, n
<1>9. QED
  BY <1>6, <1>7, <1>8 DEF LoaderInv

LEMMA SkipInv ==
  ASSUME LoaderInv, loading = "segment", Skipped(file.segments[seg]), seg' = seg + 1,
         UNCHANGED <<mem, buffer, file, size, loading>>
  PROVE  LoaderInv'
<1>1. BufferInv' /\ ReadInv' /\ OutsideInv'
  BY DEF LoaderInv, BufferInv, ReadInv, OutsideInv
<1>2. seg \in Nat
  BY DEF LoaderInv, BufferInv
<1>3. \A ph : Done(ph)' <=> Done(ph)
  BY DEF Done, InMemory
<1>4. ASSUME NEW j \in DOMAIN file.segments, j < seg + 1
      PROVE  LET ph == file.segments[j]
             IN  \/ Skipped(ph)
                 \/ Done(ph) /\ At(ph.vaddr, ph.memsz) \cap BufferAt(buffer) = {}
  <2>1. j \in Nat
    BY LoaderAssumption DEF LoaderInv, BufferInv, Segments
  <2>2. j < seg \/ j = seg
    BY <2>1, <1>2, <1>4
  <2>3. QED
    BY <2>2 DEF LoaderInv, LaidInv
<1>5. LaidInv'
  BY <1>3, <1>4 DEF LaidInv
<1>6. QED
  BY <1>1, <1>5 DEF LoaderInv

\* The two loops lay the segment, and write nothing outside of it.
LEMMA CopyLays ==
  ASSUME LoaderInv, loading = "segment", seg \in DOMAIN file.segments,
         Accepted(file.segments[seg]),
         At(file.segments[seg].vaddr, file.segments[seg].memsz) \cap BufferAt(buffer) = {}
  PROVE  /\ Placed(file.segments[seg])
         /\ Laid(Copied(file.segments[seg]), file.name, file.segments[seg])
         /\ \A a \in Addr : a \notin At(file.segments[seg].vaddr, file.segments[seg].memsz)
              => Copied(file.segments[seg])[a] = mem[a]
<1> DEFINE ph == file.segments[seg]
           v == ph.vaddr
           n == ph.memsz
           d == ph.filesz
           o == ph.offset
           m == Copied(ph)
<1>1. /\ file \in ElfFiles /\ buffer \in BufferPlaces /\ size = BytesRead(file)
      /\ \A k \in 0 .. size - 1 : mem[buffer + k] = Byte(file, k)
  BY DEF LoaderInv, BufferInv, ReadInv
<1>2. Placed(ph) /\ o + d <= size
  BY <1>1, AcceptedIsPlaced
<1>3. /\ At(v, n) = v .. v + n - 1 /\ At(v, d) = v .. v + d - 1
      /\ \A k \in 0 .. n - 1 : Plus(v, k) = v + k
      /\ At(v, n) \subseteq Addr
  BY <1>2, PlacedSpan
<1>4. /\ v \in Nat /\ n \in Nat /\ d \in Nat /\ o \in Nat /\ d <= n /\ WORD \in Nat \ {0}
  BY <1>2, LoaderAssumption DEF Placed, Addr
<1>5. /\ size \in Nat /\ size <= ELF_MAX_FILE_SIZE /\ ELF_MAX_FILE_SIZE \in Nat
      /\ file.size \in Nat
      /\ file.size % ClusterSize = 0 => size <= file.size
      /\ file.size % ClusterSize = 0 \/ o + d <= file.size
      /\ buffer \in Nat /\ buffer + ELF_MAX_FILE_SIZE <= WORD
  BY <1>1, ReadIs, HeaderFacts, BufferIs, LoaderAssumption
<1>6. m = [a \in Addr |->
            CASE a \in At(v, d) -> mem[Plus(buffer, o + a - v)]
              [] a \in At(v, n) \ At(v, d) -> Zero
              [] OTHER -> mem[a]]
  BY DEF Copied
<1> HIDE DEF ph, v, n, d, o, m
<1>7. At(v, d) \subseteq At(v, n)
  BY <1>3, <1>4
<1>8. ASSUME NEW a \in Addr, a \notin At(v, n) PROVE m[a] = mem[a]
  BY <1>6, <1>7, <1>8
<1>9. ASSUME NEW k \in 0 .. n - 1, k < d PROVE m[v + k] = <<file.name, o + k>>
  <2>1. k \in Nat /\ v + k \in At(v, d) /\ v + k \in Addr /\ o + (v + k) - v = o + k
    BY <1>3, <1>4, <1>7, <1>9
  <2>2. m[v + k] = mem[Plus(buffer, o + k)]
    BY <2>1, <1>6
  <2>3. o + k \in 0 .. size - 1 /\ o + k < file.size
    BY <2>1, <1>2, <1>4, <1>5, <1>9 DEF o, d
  <2>4. buffer + (o + k) \in Nat /\ buffer + (o + k) < WORD
    BY <2>3, <1>5, <1>4
  <2>5. Plus(buffer, o + k) = buffer + (o + k)
    BY <2>4, <1>4 DEF Plus
  <2>6. mem[buffer + (o + k)] = Byte(file, o + k)
    BY <2>3, <1>1
  <2>7. Byte(file, o + k) = <<file.name, o + k>>
    BY <2>3 DEF Byte
  <2>8. QED
    BY <2>2, <2>5, <2>6, <2>7
<1>10. ASSUME NEW k \in 0 .. n - 1, ~(k < d) PROVE m[v + k] = Zero
  <2>1. v + k \in At(v, n) /\ v + k \notin At(v, d) /\ v + k \in Addr
    BY <1>3, <1>4, <1>10
  <2>2. QED
    BY <2>1, <1>6
<1>11. Laid(m, file.name, ph)
  BY <1>3, <1>9, <1>10 DEF Laid, v, n, d, o
<1>12. QED
  BY <1>2, <1>8, <1>11 DEF ph, v, n, m

LEMMA CopyInv ==
  ASSUME LoaderInv, loading = "segment", seg \in DOMAIN file.segments,
         Accepted(file.segments[seg]), ~Skipped(file.segments[seg]),
         At(file.segments[seg].vaddr, file.segments[seg].memsz) \cap BufferAt(buffer) = {},
         mem' = Copied(file.segments[seg]), seg' = seg + 1,
         UNCHANGED <<buffer, file, size, loading>>
  PROVE  LoaderInv'
<1> DEFINE ph == file.segments[seg]
           Span(p) == At(p.vaddr, p.memsz)
<1>1. /\ Placed(ph) /\ Laid(mem', file.name, ph)
      /\ \A a \in Addr : a \notin Span(ph) => mem'[a] = mem[a]
      /\ Span(ph) \cap BufferAt(buffer) = {}
      /\ Span(ph) \subseteq User
  BY CopyLays, PlacedSpan
<1>2. /\ file \in ElfFiles /\ buffer \in BufferPlaces /\ seg \in Nat /\ size = BytesRead(file)
      /\ \A k \in 0 .. size - 1 : mem[buffer + k] = Byte(file, k)
      /\ \A j \in DOMAIN file.segments : j < seg =>
           \/ Skipped(file.segments[j])
           \/ Done(file.segments[j]) /\ Span(file.segments[j]) \cap BufferAt(buffer) = {}
  BY DEF LoaderInv, BufferInv, ReadInv, LaidInv
<1>3. /\ size \in 0 .. ELF_MAX_FILE_SIZE /\ ELF_MAX_FILE_SIZE \in Nat
      /\ buffer \in Nat /\ buffer + ELF_MAX_FILE_SIZE <= WORD
      /\ BufferAt(buffer) = buffer .. buffer + ELF_MAX_FILE_SIZE - 1 /\ WORD \in Nat
  BY <1>2, ReadIs, BufferIs, LoaderAssumption
<1>4. BufferInv'
  BY DEF LoaderInv, BufferInv
<1>5. ReadInv'
  <2>1. ASSUME NEW k \in 0 .. size - 1 PROVE mem'[buffer + k] = Byte(file, k)
    <3>1. buffer + k \in BufferAt(buffer) /\ buffer + k \in Addr
      BY <1>3 DEF Addr
    <3>2. buffer + k \notin Span(ph)
      BY <3>1, <1>1
    <3>3. mem'[buffer + k] = mem[buffer + k]
      BY <3>1, <3>2, <1>1
    <3>4. QED
      BY <3>3, <1>2
  <2>2. QED
    BY <2>1, <1>2 DEF ReadInv
<1>6. OutsideInv'
  <2>1. \A a \in Addr : mem'[a] # Old => mem[a] # Old \/ a \in User
    BY <1>1
  <2>2. QED
    BY <2>1 DEF LoaderInv, OutsideInv
<1>7. LaidInv'
  <2>1. ASSUME NEW j \in DOMAIN file.segments, j < seg + 1, ~Skipped(file.segments[j])
        PROVE  /\ Placed(file.segments[j]) /\ Laid(mem', file.name, file.segments[j])
               /\ Span(file.segments[j]) \cap BufferAt(buffer) = {}
    <3> DEFINE q == file.segments[j]
    <3>1. j \in Nat
      BY <1>2, LoaderAssumption DEF Segments
    <3>2. CASE j = seg
      BY <3>2, <1>1
    <3>3. CASE j # seg
      <4>1. j < seg
        BY <3>1, <3>3, <1>2, <2>1
      <4>2. Placed(q) /\ Laid(mem, file.name, q) /\ Span(q) \cap BufferAt(buffer) = {}
        BY <4>1, <1>2, <2>1, InMemoryIs DEF Done
      <4>3. Span(q) \cap Span(ph) = {}
        BY <3>3, <1>2, <2>1, LoaderAssumption DEF Segments
      <4>4. Span(q) \subseteq Addr
        BY <4>2, PlacedSpan
      <4>5. \A a \in Span(q) : mem'[a] = mem[a]
        BY <4>3, <4>4, <1>1
      <4>6. Laid(mem', file.name, q)
        BY <4>2, <4>5, LaidStays
      <4>7. QED
        BY <4>2, <4>6
    <3>4. QED
      BY <3>2, <3>3
  <2>2. \A p : InMemory(p)' <=> Laid(mem', file.name, p)
    BY DEF InMemory, Laid
  <2>3. QED
    BY <2>1, <2>2 DEF LaidInv, Done
<1>8. QED
  BY <1>4, <1>5, <1>6, <1>7 DEF LoaderInv

LEMMA FinishInv == ASSUME LoaderInv, Finish PROVE LoaderInv'
<1>1. CASE Return("idle")
  BY <1>1, ReturnInv DEF Finish
<1>2. CASE Return("running") /\ file' = file
  <2>1. /\ loading = "segment" /\ seg > Len(file.segments) /\ file \in ElfFiles /\ seg \in Nat \ {0}
        /\ buffer' = Null /\ seg' = 1 /\ loading' = "running"
        /\ mem' = [a \in Addr |-> IF a \in BufferAt(buffer) /\ mem[a] # Old THEN Used
                                  ELSE mem[a]]
    BY <1>2 DEF Finish, Return, LoaderInv, BufferInv
  <2>2. BufferInv' /\ ReadInv'
    BY <1>2, <2>1 DEF BufferInv, ReadInv
  <2>3. OutsideInv'
    BY <2>1 DEF LoaderInv, OutsideInv
  <2>4. ASSUME NEW j \in DOMAIN file.segments, ~Skipped(file.segments[j])
        PROVE  Placed(file.segments[j]) /\ Laid(mem', file.name, file.segments[j])
    <3> DEFINE q == file.segments[j]
    <3>1. j < seg
      BY <2>1, LoaderAssumption DEF Segments
    <3>2. /\ Placed(q) /\ Laid(mem, file.name, q)
          /\ At(q.vaddr, q.memsz) \cap BufferAt(buffer) = {}
      BY <3>1, <2>1, <2>4, InMemoryIs DEF LoaderInv, LaidInv, Done
    <3>3. At(q.vaddr, q.memsz) \subseteq Addr
      BY <3>2, PlacedSpan
    <3>4. \A a \in At(q.vaddr, q.memsz) : mem'[a] = mem[a]
      BY <3>2, <3>3, <2>1
    <3>5. QED
      BY <3>2, <3>4, LaidStays
  <2>5. \A p : InMemory(p)' <=> Laid(mem', file.name, p)
    BY <1>2 DEF InMemory, Laid
  <2>6. LaidInv'
    BY <1>2, <2>1, <2>4, <2>5 DEF LaidInv, Done
  <2>7. QED
    BY <2>2, <2>3, <2>6 DEF LoaderInv
<1>3. QED
  BY <1>1, <1>2 DEF Finish

LEMMA KillInv == ASSUME LoaderInv, Kill PROVE LoaderInv'
<1>1. /\ loading = "running" /\ loading' = "idle" /\ buffer' = buffer /\ seg' = seg
      /\ buffer = Null /\ seg = 1 /\ file \in ElfFiles
  BY DEF Kill, LoaderInv, BufferInv
<1>2. BufferInv' /\ ReadInv' /\ LaidInv'
  BY <1>1 DEF BufferInv, ReadInv, LaidInv
<1>3. ASSUME NEW k \in DOMAIN file.segments, ~Skipped(file.segments[k])
      PROVE  At(file.segments[k].vaddr, file.segments[k].memsz) \subseteq User
  <2>1. Placed(file.segments[k])
    BY <1>1, <1>3 DEF LoaderInv, LaidInv, Done
  <2>2. QED
    BY <2>1, PlacedSpan
<1>4. \A a \in Addr : mem'[a] # Old => mem[a] # Old \/ a \in User
  BY <1>3 DEF Kill
<1>5. OutsideInv'
  BY <1>4 DEF LoaderInv, OutsideInv
<1>6. QED
  BY <1>2, <1>5 DEF LoaderInv

LEMMA SegmentInv == ASSUME LoaderInv, Segment PROVE LoaderInv'
<1> DEFINE ph == file.segments[seg]
<1>1. loading = "segment" /\ seg <= Len(file.segments) /\ file \in ElfFiles /\ seg \in Nat \ {0}
  BY DEF Segment, LoaderInv, BufferInv
<1>2. CASE Skipped(ph) /\ seg' = seg + 1 /\ UNCHANGED <<mem, buffer, file, size, loading>>
  BY <1>1, <1>2, SkipInv
<1>3. CASE Return("idle")
  BY <1>1, <1>3, ReturnInv
<1>4. CASE /\ ~Skipped(ph) /\ Accepted(ph)
           /\ At(ph.vaddr, ph.memsz) \cap BufferAt(buffer) = {}
           /\ mem' = Copied(ph) /\ seg' = seg + 1
           /\ UNCHANGED <<buffer, file, size, loading>>
  <2>1. seg \in DOMAIN file.segments
    BY <1>1, LoaderAssumption DEF Segments
  <2>2. QED
    BY <1>1, <1>4, <2>1, CopyInv
<1>5. CASE loading' = "garbled" /\ UNCHANGED <<mem, buffer, file, size, seg>>
  BY <1>1, <1>5 DEF LoaderInv, BufferInv, ReadInv, LaidInv, OutsideInv
<1>6. QED
  BY <1>2, <1>3, <1>4, <1>5 DEF Segment

\* Between its actions the loader has each segment that it has passed in its
\* place, from the file, and out of the buffer's way.
THEOREM LoaderInvariance == LoaderSpec => []LoaderInv
<1>1. LoaderInit => LoaderInv
  BY DEF LoaderInit, LoaderInv, BufferInv, ReadInv, LaidInv, OutsideInv
<1>2. ASSUME LoaderInv, [LoaderNext]_loaderVars PROVE LoaderInv'
  <2>1. CASE Alloc
    BY <1>2, <2>1 DEF Alloc, LoaderInv, BufferInv, ReadInv, LaidInv, OutsideInv
  <2>2. CASE Read
    BY <1>2, <2>2, ReadStepInv
  <2>3. CASE Missing
    BY <1>2, <2>3, ReturnInv DEF Missing
  <2>4. CASE Check
    <3>1. CASE Return("idle")
      BY <1>2, <2>4, <3>1, ReturnInv DEF Check
    <3>2. CASE loading' = "segment" /\ UNCHANGED <<mem, buffer, file, size, seg>>
      <4>1. loading = "check" /\ seg = 1
        BY <1>2, <2>4 DEF Check, LoaderInv, BufferInv
      <4>2. \A j \in DOMAIN file.segments : ~(j < 1)
        BY <1>2, <4>1, LoaderAssumption DEF LoaderInv, BufferInv, Segments
      <4>3. BufferInv' /\ ReadInv' /\ OutsideInv'
        BY <1>2, <3>2, <4>1 DEF LoaderInv, BufferInv, ReadInv, OutsideInv
      <4>4. LaidInv'
        BY <3>2, <4>1, <4>2 DEF LaidInv
      <4>5. QED
        BY <4>3, <4>4 DEF LoaderInv
    <3>3. QED
      BY <2>4, <3>1, <3>2 DEF Check
  <2>5. CASE Segment
    BY <1>2, <2>5, SegmentInv
  <2>6. CASE Finish
    BY <1>2, <2>6, FinishInv
  <2>7. CASE Kill
    BY <1>2, <2>7, KillInv
  <2>8. CASE UNCHANGED loaderVars
    BY <1>2, <2>8 DEF loaderVars, LoaderInv, BufferInv, ReadInv, LaidInv, OutsideInv,
       Done, InMemory
  <2>9. QED
    BY <1>2, <2>1, <2>2, <2>3, <2>4, <2>5, <2>6, <2>7, <2>8 DEF LoaderNext
<1>3. QED
  BY <1>1, <1>2, PTL DEF LoaderSpec

\* elf_load and elf_exec: a program that runs is all there, and nothing else has
\* been written to, for every memory, every heap and every disk of linked files.
THEOREM ProgramsAreWhole == LoaderSpec => []ProgramIsWhole
<1>1. LoaderInv => ProgramIsWhole
  BY DEF LoaderInv, BufferInv, LaidInv, OutsideInv, Done, ProgramIsWhole
<1>2. QED
  BY <1>1, LoaderInvariance, PTL
=============================================================================
