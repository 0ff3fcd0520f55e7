----------------------------- MODULE FatOverlap -----------------------------
(***************************************************************************)
(* The table and the root directory as fat12.c sees them: one array of     *)
(* bytes, the FAT's sectors with the directory right behind them, and no   *)
(* test that an entry lies in the FAT. One large file is on the volume and *)
(* fat12_write_file allocates cluster after cluster for another.           *)
(***************************************************************************)
EXTENDS FatTable

CONSTANT Prefill  \* clusters of the file that is there already

VARIABLES
  vol,           \* bytes from the start of the FAT to the end of the root directory
  prev_cluster

vars == <<vol, prev_cluster>>

VolBytes == FatBytes + root_dir_sectors * bytes_per_sector

\* A fresh volume's table (format_volume's reserved entries) with one file in
\* clusters 2 to Prefill + 1.
EntryOf(cl) ==
  IF cl = 0 THEN 4088
  ELSE IF cl = 1 \/ cl = Prefill + 1 THEN 4095
  ELSE IF cl <= Prefill THEN cl + 1 ELSE 0

TableByte(o) ==
  LET even == EntryOf(2 * (o \div 3))
      odd  == EntryOf(2 * (o \div 3) + 1)
  IN  IF o % 3 = 0 THEN even % 256
      ELSE IF o % 3 = 1 THEN (even \div 256) + 16 * (odd % 16)
      ELSE odd \div 16

\* The raw 32 bytes of that file's entry: BIG.BIN, archive, cluster 2, size.
RawEntry ==
  LET size == Prefill * cluster_bytes
  IN  <<66, 73, 71, 32, 32, 32, 32, 32, 66, 73, 78, 32,
        0, 0, 0, 0, 0, 0, 0, 0, 0, 0, 0, 0, 0, 0, 2, 0,
        size % 256, (size \div 256) % 256, (size \div 65536) % 256, 0>>

DirByte(o) == IF o < 32 THEN RawEntry[o + 1] ELSE 0

Init ==
  /\ vol = [o \in 0 .. VolBytes - 1 |->
              IF o < FatBytes THEN TableByte(o) ELSE DirByte(o - FatBytes)]
  /\ prev_cluster = 0

\* One iteration of fat12_write_file's allocating loop.
AllocCluster ==
  LET cluster == fat12_alloc_cluster(vol)
      linked  == IF prev_cluster = 0 THEN vol
                 ELSE fat12_write_fat(vol, prev_cluster, cluster)
  IN  /\ cluster # 0
      /\ vol' = fat12_write_fat(linked, cluster, 4095)
      /\ prev_cluster' = cluster

Next == AllocCluster

Spec == Init /\ [][Next]_vars

-----------------------------------------------------------------------------
\* Allocating clusters changes nothing of the root directory: the FAT of the
\* volume that format_volume makes has an entry for every cluster, as the
\* persistence plan says ("Sectors per FAT: 3 (supports ~2000 clusters)").
DirectoryUntouched ==
  \A o \in FatBytes .. VolBytes - 1 : vol[o] = DirByte(o - FatBytes)
=============================================================================
