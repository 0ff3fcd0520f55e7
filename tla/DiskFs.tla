------------------------------- MODULE DiskFs -------------------------------
(***************************************************************************)
(* kernel/fs/diskfs.c over fat12.c and ata.c: the volume is read from the  *)
(* hard disk at boot, changed in memory, and written back whole after      *)
(* every call that succeeds. Power may be cut at any moment and the drive  *)
(* may report an error; without a readable drive the system runs from the  *)
(* ramdisk (ramdisk.c).                                                    *)
(*                                                                         *)
(* The partition is written in chunks, one WRITE SECTORS command and one   *)
(* cache flush each. When power is cut or the drive reports an error, any  *)
(* of the current chunk's sectors may have reached the medium; and a drive *)
(* may lose sectors without ata.c's noticing. Sectors that it still caches *)
(* when the flush returns count as lost if they are lost in the end.       *)
(* A cluster is one sector (format_volume), and one FAT.                   *)
(***************************************************************************)
EXTENDS Fat12

CONSTANTS
  ChunkSectors,  \* most sectors of one ATA command (255)
  Defaults,      \* the sample files of ramdisk_init: <<name, content>> pairs
  MaxCalls,      \* bound: calls that change files
  MaxFaults      \* bound: power cuts and drive errors

ASSUME DiskAssumption ==
  /\ sectors_per_cluster = 1 /\ num_fats = 1
  /\ ChunkSectors \in Nat \ {0}
  /\ MaxCalls \in Nat /\ MaxFaults \in Nat

VARIABLES
  disk,            \* the partition on the medium
  phase,           \* "off", booting ("probe", "read"), "run", or "sync"
  disk_available,
  lba,             \* write_partition's next sector
  calls, faults,   \* for the bounds
  \* History.
  synced,          \* name -> content, when the partition was last written whole
  dirty,           \* names changed since
  torn,            \* the partition may be a mixture of volumes since
  lost,            \* the running, or else the last, write_partition has missed
                   \* an error
  damaged          \* the volume in memory came from a torn partition

diskVars == <<disk, phase, disk_available, lba, calls, faults, synced, dirty,
              torn, lost, damaged>>
vars == <<fatVars, diskVars>>

Phases == {"off", "probe", "read", "run", "sync"}

-----------------------------------------------------------------------------
(* Sectors, counted from the start of the partition.                       *)

Sectors == 0 .. total_sectors - 1
FatSector(o) == reserved_sectors + o \div bytes_per_sector
DirSector(i) == (root_dir_offset + i * 32) \div bytes_per_sector
DataSector(cl) == data_start_offset \div bytes_per_sector + (cl - 2)

\* Mutant: the table's sectors are not written back.
Overwritten_no_fat(S) ==
  [bpb  |-> disk.bpb \/ 0 \in S,
   fat  |-> disk.fat,
   dir  |-> [i \in Slots |-> IF DirSector(i) \in S THEN dir[i] ELSE disk.dir[i]],
   data |-> [cl \in Clusters |-> IF DataSector(cl) \in S THEN data[cl] ELSE disk.data[cl]]]

\* The partition after the sectors in S were written from memory. The volume
\* in memory has a valid BPB whenever it is written.
Overwritten(S) ==
  [bpb  |-> disk.bpb \/ 0 \in S,
   fat  |-> [o \in DOMAIN fat |-> IF FatSector(o) \in S THEN fat[o] ELSE disk.fat[o]],
   dir  |-> [i \in Slots |-> IF DirSector(i) \in S THEN dir[i] ELSE disk.dir[i]],
   data |-> [cl \in Clusters |-> IF DataSector(cl) \in S THEN data[cl] ELSE disk.data[cl]]]

\* What a boot from the partition would read. Without a valid BPB it formats.
OnDisk(n) == IF disk.bpb THEN fat12_read_file(disk, n) ELSE NoFile
InMemory == [n \in Names83 |-> fat12_read_file(Volume, n)]

-----------------------------------------------------------------------------
(* Volumes that come into memory at boot.                                  *)

\* The clusters that entry i's first cluster leads to. After a failed write
\* there can be more of them than the entry's size says.
Linked(v, i) == {Walk(v, i)[k] : k \in 0 .. max_clusters} \cap Clusters

\* Who owns which cluster of a volume that was read.
OwnerOf(v) ==
  [cl \in Clusters |->
     IF fat12_read_fat(v.fat, cl) = 0 THEN Free
     ELSE LeastOr({i \in Slots : v.dir[i].st = "used" /\ cl \in Linked(v, i)}, Lost)]

Load(v) ==
  /\ fat' = v.fat /\ dir' = v.dir /\ data' = v.data
  /\ owner' = OwnerOf(v)

\* Memory is zero before the boot: no volume.
Fresh == [fat |-> FreshFat, dir |-> FreshDir, data |-> FreshData]
NoVolume == [Fresh EXCEPT !.fat = [o \in DOMAIN FreshFat |-> 0]]

\* add_file: the sample files lie one behind the other.
FirstOf[k \in 1 .. Len(Defaults)] ==
  IF k = 1 THEN 2 ELSE FirstOf[k - 1] + Len(Defaults[k - 1][2])

\* The file and the block of it in a cluster.
Holds(cl, k) == FirstOf[k] <= cl /\ cl < FirstOf[k] + Len(Defaults[k][2])

\* The sample files have different names, none of Hidden; none is empty, and they
\* fit.
ASSUME DefaultsAssumption ==
  /\ Defaults \in Seq((Names83 \ Hidden) \X (Seq(Blocks) \ {<< >>}))
  /\ Len(Defaults) <= root_entry_count
  /\ \A j, k \in 1 .. Len(Defaults) : Defaults[j][1] = Defaults[k][1] => j = k
  /\ \A k \in 1 .. Len(Defaults) :
       FirstOf[k] + Len(Defaults[k][2]) <= max_clusters + 2

DefaultEntry(cl) ==
  IF \E k \in 1 .. Len(Defaults) : Holds(cl, k) /\ Holds(cl + 1, k) THEN cl + 1
  ELSE IF \E k \in 1 .. Len(Defaults) : Holds(cl, k) THEN 4095 ELSE 0

\* fat12_set_fat for every cluster up to cl.
DefaultFat ==
  LET f[cl \in 1 .. max_clusters + 1] ==
        IF cl = 1
        THEN fat12_write_fat(fat12_write_fat(NoVolume.fat, 0, 4080), 1, 4095)
        ELSE fat12_write_fat(f[cl - 1], cl, DefaultEntry(cl))
  IN  f[max_clusters + 1]

ramdisk ==
  [fat  |-> DefaultFat,
   dir  |-> [i \in Slots |->
               IF i < Len(Defaults)
               THEN FileSlot(Defaults[i + 1][1], FirstOf[i + 1], Len(Defaults[i + 1][2]))
               ELSE EndSlot],
   data |-> [cl \in Clusters |->
               LET S == {k \in 1 .. Len(Defaults) : Holds(cl, k)}
               IN  IF S = {} THEN Zero
                   ELSE Defaults[Least(S)][2][cl - FirstOf[Least(S)] + 1]]]

-----------------------------------------------------------------------------
Init ==
  /\ fat = NoVolume.fat /\ dir = NoVolume.dir /\ data = NoVolume.data
  /\ pc = "idle" /\ op = NoOp /\ result = 0 /\ old = NoFile /\ failed = FALSE
  /\ owner = [cl \in Clusters |-> Free]
  /\ disk = [bpb |-> FALSE, fat |-> NoVolume.fat, dir |-> FreshDir, data |-> FreshData]
  /\ phase = "off" /\ disk_available = FALSE /\ lba = 0
  /\ calls = 0 /\ faults = 0
  /\ synced = [n \in Names83 |-> NoFile] /\ dirty = {}
  /\ torn = FALSE /\ lost = FALSE /\ damaged = FALSE

Fault == faults < MaxFaults /\ faults' = faults + 1

callVars == <<pc, op, result, old, failed>>

\* The machine starts: the boot reaches diskfs_init.
PowerOn ==
  /\ phase = "off"
  /\ phase' = "probe"
  /\ UNCHANGED <<fatVars, disk, disk_available, lba, calls, faults, synced,
                 dirty, torn, lost, damaged>>

\* A drive answers; one that does not is RamdiskFallback's.
ata_init ==
  /\ phase = "probe"
  /\ phase' = "read"
  /\ UNCHANGED <<fatVars, disk, disk_available, lba, calls, faults, synced,
                 dirty, torn, lost, damaged>>

\* Mutant: the disk counts as available before it was read.
RamdiskFallback_early_flag ==
  /\ phase \in {"probe", "read"} /\ Fault
  /\ Load(ramdisk)
  /\ phase' = "run"
  /\ disk_available' = (phase = "read")
  /\ UNCHANGED <<callVars, disk, lba, calls, synced, dirty, torn, lost, damaged>>

\* ata_init or read_partition fails: ramdisk_init.
RamdiskFallback ==
  /\ phase \in {"probe", "read"} /\ Fault
  /\ Load(ramdisk)
  /\ phase' = "run"
  /\ UNCHANGED <<callVars, disk, disk_available, lba, calls, synced, dirty,
                 torn, lost, damaged>>

\* read_partition succeeds; a volume without a valid BPB is formatted and
\* written out.
ReadPartition ==
  /\ phase = "read"
  /\ disk_available' = TRUE
  /\ lba' = 0
  /\ IF disk.bpb THEN Load(disk) /\ phase' = "run"
                 ELSE Load(Fresh) /\ phase' = "sync"
  /\ damaged' = (damaged \/ torn)
  /\ UNCHANGED <<callVars, disk, calls, faults, synced, dirty, torn, lost>>

\* diskfs_write_file and diskfs_delete_file: the call into fat12.c ...
Call ==
  /\ phase = "run" /\ calls < MaxCalls
  /\ calls' = calls + 1
  /\ FatCall
  /\ UNCHANGED <<disk, phase, disk_available, lba, faults, synced, dirty,
                 torn, lost, damaged>>

\* Mutant: the sync does not ask for a disk.
Step_no_disk_test ==
  /\ phase = "run"
  /\ FatStep
  /\ IF pc' = "idle"
     THEN /\ dirty' = dirty \cup {op.name83}
          /\ phase' = IF result' = 0 THEN "sync" ELSE phase
          /\ lba' = 0
     ELSE UNCHANGED <<dirty, phase, lba>>
  /\ UNCHANGED <<disk, disk_available, calls, faults, synced, torn, lost, damaged>>

\* ... its steps, and the sync when it has returned 0.
Step ==
  /\ phase = "run"
  /\ FatStep
  /\ IF pc' = "idle" /\ disk_available
     THEN /\ dirty' = dirty \cup {op.name83}
          /\ phase' = IF result' = 0 THEN "sync" ELSE phase
          /\ lba' = 0
     ELSE UNCHANGED <<dirty, phase, lba>>
  /\ UNCHANGED <<disk, disk_available, calls, faults, synced, torn, lost, damaged>>

\* The shell's sync command.
diskfs_sync ==
  /\ phase = "run" /\ pc = "idle" /\ disk_available
  /\ phase' = "sync" /\ lba' = 0
  /\ UNCHANGED <<fatVars, disk, disk_available, calls, faults, synced, dirty,
                 torn, lost, damaged>>

\* Mutant: a last chunk that is not full is left out.
Chunk_full_only ==
  IF total_sectors - lba >= ChunkSectors THEN lba .. lba + ChunkSectors - 1 ELSE {}

\* The sectors of write_partition's next command.
Chunk ==
  lba .. (IF total_sectors - lba > ChunkSectors THEN lba + ChunkSectors
          ELSE total_sectors) - 1

\* write_partition goes on behind a chunk, or returns 0.
Advance(missing) ==
  /\ lost' = (missing \/ (lba > 0 /\ lost))
  /\ IF lba + ChunkSectors < total_sectors
     THEN /\ lba' = lba + ChunkSectors
          /\ UNCHANGED <<phase, synced, dirty, torn>>
     ELSE /\ lba' = 0 /\ phase' = "run"
          /\ torn' = lost'
          /\ IF lost' THEN UNCHANGED <<synced, dirty>>
                      ELSE synced' = InMemory /\ dirty' = {}

\* One iteration of write_partition that succeeds.
WriteChunk ==
  /\ phase = "sync"
  /\ disk' = Overwritten(Chunk)
  /\ Advance(FALSE)
  /\ UNCHANGED <<fatVars, disk_available, calls, faults, damaged>>

\* The drive fails on the command's last sector, or in or before the flush:
\* behind that sector ata_write_sectors waits for BSY only and never looks at
\* ERR, so it returns 0.
UnreportedError ==
  /\ phase = "sync" /\ Fault
  /\ \E S \in (SUBSET Chunk) \ {Chunk} : disk' = Overwritten(S)
  /\ Advance(TRUE)
  /\ UNCHANGED <<fatVars, disk_available, calls, damaged>>

\* ata_wait_drq sees ERR in front of a sector, or a wait times out:
\* write_partition returns -1, and nobody looks at it.
WriteError ==
  /\ phase = "sync" /\ Fault
  /\ \E S \in SUBSET Chunk : disk' = Overwritten(S)
  /\ torn' = TRUE
  /\ phase' = "run" /\ lba' = 0
  /\ UNCHANGED <<fatVars, disk_available, calls, synced, dirty, lost, damaged>>

\* Power is cut, or the machine is reset: memory is lost.
PowerCut ==
  /\ phase # "off" /\ Fault
  /\ IF phase = "sync"
     THEN /\ \E S \in SUBSET Chunk : disk' = Overwritten(S)
          /\ torn' = TRUE
     ELSE UNCHANGED <<disk, torn>>
  /\ fat' = NoVolume.fat /\ dir' = NoVolume.dir /\ data' = NoVolume.data
  /\ pc' = "idle" /\ op' = NoOp /\ result' = 0 /\ old' = NoFile /\ failed' = FALSE
  /\ owner' = [cl \in Clusters |-> Free]
  /\ phase' = "off" /\ disk_available' = FALSE /\ lba' = 0 /\ lost' = FALSE
  /\ UNCHANGED <<calls, synced, dirty, damaged>>

Next ==
  \/ PowerOn \/ ata_init \/ RamdiskFallback \/ ReadPartition
  \/ Call \/ Step \/ diskfs_sync
  \/ WriteChunk \/ UnreportedError \/ WriteError \/ PowerCut

Spec == Init /\ [][Next]_vars

-----------------------------------------------------------------------------
(* Properties.                                                             *)

\* The partition's parts have the types of the volume's, and write_partition
\* stays inside the partition.
DiskTypeOK ==
  /\ phase \in Phases /\ disk_available \in BOOLEAN
  /\ lba \in Sectors /\ (phase = "sync" => disk_available)
  /\ disk.bpb \in BOOLEAN /\ disk.fat \in [0 .. FatBytes - 1 -> Byte]
  /\ disk.data \in [Clusters -> Blocks] /\ DOMAIN disk.dir = Slots
  /\ dirty \subseteq Names83 /\ lost \in BOOLEAN

\* Whenever power is cut or the drive fails, noticed or not, also half way through
\* writing the partition out, the next boot finds every file that no call touched
\* since the partition was last written whole as it was then; a session on the
\* ramdisk changes nothing on the disk.
CrashSparesOthers ==
  ~damaged => \A n \in Names83 \ dirty : OnDisk(n) = synced[n]

\* Once write_partition has returned 0, and the drive has lost no sector without
\* ata_write_sectors' noticing, the partition is the volume in memory, sector for
\* sector, however the chunks divide it.
SyncIsComplete ==
  (phase = "run" /\ pc = "idle" /\ disk_available /\ dirty = {} /\ ~torn) =>
    disk = [bpb |-> TRUE, fat |-> fat, dir |-> dir, data |-> data]

\* A boot from a partition that was written whole gives fat12.c a consistent
\* table, also when writes had failed and leaked clusters before.
CleanBootSound ==
  (phase = "run" /\ ~damaged) => FreeIffZero /\ ChainsApart

\* "Write file and auto-sync to disk", "Delete file and auto-sync to disk"
\* (diskfs.h): after a call that returned 0, the disk has what memory has, if the
\* drive reported every error there was.
AckedIsOnDisk ==
  (phase = "run" /\ pc = "idle" /\ disk_available /\ result = 0 /\ ~failed /\ ~lost /\ calls > 0) =>
    \A n \in Names83 : OnDisk(n) = InMemory[n]
=============================================================================
