------------------------------ MODULE FatTable ------------------------------
(***************************************************************************)
(* The layout of a FAT12 volume as kernel/fs/fat12.c computes it from the  *)
(* BPB (fat12_init), and the packed table of 12-bit entries: two entries   *)
(* share three bytes, so writing one entry rewrites a byte that belongs to *)
(* its neighbour too. A table is a function from byte offsets, counted     *)
(* from the start of the FAT, to bytes.                                    *)
(***************************************************************************)
EXTENDS Integers

CONSTANTS  \* The BPB fields, under fat12.c's names.
  bytes_per_sector, sectors_per_cluster, reserved_sectors, num_fats,
  root_entry_count, total_sectors, sectors_per_fat

Byte == 0 .. 255
Entry == 0 .. 4095

root_dir_offset == (reserved_sectors + num_fats * sectors_per_fat) * bytes_per_sector
root_dir_sectors ==
  ((root_entry_count * 32) + bytes_per_sector - 1) \div bytes_per_sector
data_start_offset == root_dir_offset + root_dir_sectors * bytes_per_sector
cluster_bytes == sectors_per_cluster * bytes_per_sector
max_clusters == (total_sectors * bytes_per_sector - data_start_offset) \div cluster_bytes

\* A formatted volume has every part.
ASSUME BpbAssumption ==
  /\ bytes_per_sector \in Nat \ {0} /\ sectors_per_cluster \in Nat \ {0}
  /\ reserved_sectors \in Nat \ {0} /\ num_fats \in Nat \ {0}
  /\ root_entry_count \in Nat \ {0} /\ total_sectors \in Nat
  /\ sectors_per_fat \in Nat \ {0}

\* The clusters fat12_alloc_cluster tries, and the values that continue a chain.
Clusters == 2 .. max_clusters + 1
Continues(v) == 2 <= v /\ v < 4088

\* Bytes of the first FAT, and how many the entries of all clusters take up.
FatBytes == sectors_per_fat * bytes_per_sector
EntryOffset(cluster) == cluster + cluster \div 2
TableBytes == EntryOffset(max_clusters + 1) + 2

read16(f, o) == f[o] + 256 * f[o + 1]

fat12_read_fat(f, cluster) ==
  IF cluster % 2 = 1 THEN read16(f, EntryOffset(cluster)) \div 16
                     ELSE read16(f, EntryOffset(cluster)) % 4096

\* Mutant: the byte shared with the neighbour is overwritten whole.
fat12_write_fat_clobber(f, cluster, value) ==
  LET o == EntryOffset(cluster)
  IN  IF cluster % 2 = 1
      THEN [f EXCEPT ![o] = (value % 16) * 16, ![o + 1] = (value \div 16) % 256]
      ELSE [f EXCEPT ![o] = value % 256, ![o + 1] = (value \div 256) % 16]

\* Mutant: the entry's top four bits take the neighbour's place.
fat12_write_fat_shifted(f, cluster, value) ==
  LET o == EntryOffset(cluster)
  IN  IF cluster % 2 = 1
      THEN [f EXCEPT ![o]     = (f[o] % 16) + ((value % 16) * 16),
                     ![o + 1] = (value \div 16) % 256]
      ELSE [f EXCEPT ![o]     = value % 256,
                     ![o + 1] = (f[o + 1] % 16) + (((value \div 256) % 16) * 16)]

fat12_write_fat(f, cluster, value) ==
  LET o == EntryOffset(cluster)
  IN  IF cluster % 2 = 1
      THEN [f EXCEPT ![o]     = (f[o] % 16) + ((value % 16) * 16),
                     ![o + 1] = (value \div 16) % 256]
      ELSE [f EXCEPT ![o]     = value % 256,
                     ![o + 1] = (f[o + 1] \div 16) * 16 + ((value \div 256) % 16)]

\* Mutant: the search runs one entry too far.
fat12_alloc_cluster_past_end(f) ==
  LET free == {cl \in 2 .. max_clusters + 2 : fat12_read_fat(f, cl) = 0}
  IN  IF free = {} THEN 0 ELSE CHOOSE cl \in free : \A d \in free : cl <= d

\* The cluster fat12_alloc_cluster returns: the first whose entry is 0, or 0.
fat12_alloc_cluster(f) ==
  LET free == {cl \in Clusters : fat12_read_fat(f, cl) = 0}
  IN  IF free = {} THEN 0 ELSE CHOOSE cl \in free : \A d \in free : cl <= d
=============================================================================
