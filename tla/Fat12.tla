------------------------------- MODULE Fat12 -------------------------------
(***************************************************************************)
(* kernel/fs/fat12.c: writing, overwriting, deleting and reading files on  *)
(* a FAT12 volume in memory. The loops that free and allocate clusters     *)
(* take one step per iteration; the directory scans are expressions.       *)
(*                                                                         *)
(* A file's bytes are taken in cluster-sized blocks, so a directory        *)
(* entry's size counts blocks. The volume's three regions are separate     *)
(* variables: that the table's entries fit in the FAT's sectors is assumed *)
(* here (FatFits) and is the subject of module FatOverlap.                 *)
(***************************************************************************)
EXTENDS FatTable, Sequences

CONSTANTS
  FileNames,  \* names as callers spell them
  Names83,    \* names as the directory holds them
  NoName,     \* the name of an entry that names no file
  Hidden,     \* those of Names83 whose first byte is 0xE5
  name_to_83, \* upper-cased, cut to 8 + 3: different spellings may coincide
  Blocks,     \* what a cluster can hold
  Zero,       \* the content of a cluster of a fresh volume
  Contents,   \* what gets written: sequences of blocks
  NoFile      \* what reading a missing file gives

ASSUME NamesAssumption ==
  /\ name_to_83 \in [FileNames -> Names83] /\ NoName \notin Names83
  /\ Hidden \subseteq Names83
ASSUME ContentsAssumption ==
  Contents \subseteq Seq(Blocks) /\ Zero \in Blocks /\ NoFile \notin Seq(Blocks)
ASSUME FatFits == TableBytes <= FatBytes /\ max_clusters \in 1 .. 4086

VARIABLES
  fat,      \* the bytes of the table
  dir,      \* the root directory
  data,     \* cluster -> block
  pc,       \* where the running call is, "idle" between calls
  op,       \* the running call's arguments and locals
  result,   \* the last call's return value
  \* History.
  owner,    \* cluster -> the slot of the file it was last allocated to, ...
  old,      \* what the running call's file held when the call began
  failed    \* some write has stored no file: it has returned -1, or 0 for a
            \* name of Hidden

fatVars == <<fat, dir, data, pc, op, result, owner, old, failed>>

Slots == 0 .. root_entry_count - 1
PcStates == {"idle", "free", "alloc", "unlink"}

\* ... or one of these: free, in no file's chain any more, in the chain that
\* the running write is building, or in the one the running call frees.
Free  == -1
Lost  == -2
New   == -3
Dying == -4
Owners == Slots \cup {Free, Lost, New, Dying}

\* A directory entry, by the class of its first name byte (0x00, 0xE5, else).
\* Nothing reads the rest of a deleted entry. Every entry the kernel creates
\* has the archive attribute, so the attribute tests never skip one. A FileSlot
\* is one that the scans see, so its name is not in Hidden.
EndSlot == [st |-> "end", name |-> NoName, first_cluster |-> 0, size |-> 0]
DeletedSlot == [EndSlot EXCEPT !.st = "deleted"]
FileSlot(n, first, size) ==
  [st |-> "used", name |-> n, first_cluster |-> first, size |-> size]

Least(S) == CHOOSE i \in S : \A j \in S : i <= j
LeastOr(S, none) == IF S = {} THEN none ELSE Least(S)

\* The entries a directory scan considers: it stops at the first 0x00.
Scanned(d, i) == d[i].st = "used" /\ \A j \in 0 .. i : d[j].st # "end"

Find(d, n) == LeastOr({i \in Slots : Scanned(d, i) /\ d[i].name = n}, -1)

\* Mutant: the search keeps the last match.
FindFree_last ==
  LET free == {i \in Slots : dir[i].st # "used"}
  IN  IF free = {} THEN -1 ELSE CHOOSE i \in free : \A j \in free : j <= i

FindFree == LeastOr({i \in Slots : dir[i].st # "used"}, -1)

NoOp == [kind |-> "none", name83 |-> NoName, content |-> << >>,
         existing_idx |-> -1, cluster |-> 0, iterations |-> 0,
         first_cluster |-> 0, prev_cluster |-> 0, written |-> 0]

-----------------------------------------------------------------------------
(* fat12_read_file on a volume v, with a buffer large enough for the file. *)

\* The value of cluster after k iterations of the reading loop.
Walk(v, i) ==
  LET w[k \in 0 .. max_clusters] ==
        IF k = 0 THEN v.dir[i].first_cluster
        ELSE IF w[k - 1] \in Clusters THEN fat12_read_fat(v.fat, w[k - 1]) ELSE 0
  IN  w

\* How many iterations the loop makes.
Reads(v, i) ==
  LET w == Walk(v, i)
  IN  Least({k \in 0 .. max_clusters :
               k = v.dir[i].size \/ k = max_clusters \/ ~Continues(w[k])})

ReadEntry(v, i) ==
  LET w == Walk(v, i) IN [k \in 1 .. Reads(v, i) |-> v.data[w[k - 1]]]

fat12_read_file(v, n) ==
  IF Find(v.dir, n) = -1 THEN NoFile ELSE ReadEntry(v, Find(v.dir, n))

\* The clusters of entry i's file.
Chain(v, i) == LET w == Walk(v, i) IN {w[k] : k \in 0 .. Reads(v, i) - 1}

\* The volume in memory, and a freshly formatted one.
Volume == [fat |-> fat, dir |-> dir, data |-> data]
FreshFat ==
  [o \in 0 .. FatBytes - 1 |-> IF o = 0 THEN 248 ELSE IF o < 3 THEN 255 ELSE 0]
FreshDir == [i \in Slots |-> EndSlot]
FreshData == [cl \in Clusters |-> Zero]

-----------------------------------------------------------------------------
FatInit ==
  /\ fat = FreshFat /\ dir = FreshDir /\ data = FreshData
  /\ pc = "idle" /\ op = NoOp /\ result = 0
  /\ owner = [cl \in Clusters |-> Free]
  /\ old = NoFile /\ failed = FALSE

\* A call returns r.
Return(r) ==
  /\ pc' = "idle"
  /\ op' = NoOp
  /\ result' = r
  /\ old' = NoFile

\* The call looks its file up, and starts on its chain if it has one.
Start(locals, next) ==
  LET i == locals.existing_idx
      first == IF i = -1 THEN 0 ELSE dir[i].first_cluster
  IN  /\ pc = "idle"
      /\ op' = [locals EXCEPT !.cluster = first]
      /\ pc' = IF first >= 2 THEN "free" ELSE next
      /\ old' = fat12_read_file(Volume, locals.name83)
      /\ owner' = [cl \in Clusters |->
                     IF i = -1 \/ owner[cl] # i THEN owner[cl]
                     ELSE IF first >= 2 THEN Dying ELSE Lost]
      /\ UNCHANGED <<fat, dir, data, result, failed>>

fat12_write_file(name, content) ==
  LET n == name_to_83[name]
  IN  Start([NoOp EXCEPT !.kind = "write", !.name83 = n, !.content = content,
                         !.existing_idx = Find(dir, n)], "alloc")

\* fat12_delete_file of a missing file changes nothing.
DeleteMissing(name) ==
  /\ pc = "idle" /\ Find(dir, name_to_83[name]) = -1
  /\ result' = -1
  /\ UNCHANGED <<fat, dir, data, pc, op, owner, old, failed>>

fat12_delete_file(name) ==
  LET n == name_to_83[name]
  IN  /\ Find(dir, n) # -1
      /\ Start([NoOp EXCEPT !.kind = "delete", !.name83 = n,
                            !.existing_idx = Find(dir, n)], "unlink")

\* Mutant: the next cluster is read after the entry was cleared.
fat12_free_chain_late_read ==
  /\ pc = "free"
  /\ IF Continues(op.cluster) /\ op.iterations < max_clusters
     THEN /\ fat' = fat12_write_fat(fat, op.cluster, 0)
          /\ op' = [op EXCEPT !.cluster = fat12_read_fat(fat', op.cluster),
                              !.iterations = @ + 1]
          /\ owner' = [owner EXCEPT ![op.cluster] = Free]
          /\ UNCHANGED pc
     ELSE /\ pc' = IF op.kind = "write" THEN "alloc" ELSE "unlink"
          /\ owner' = [cl \in Clusters |->
                         IF owner[cl] = Dying THEN Lost ELSE owner[cl]]
          /\ UNCHANGED <<fat, op>>
  /\ UNCHANGED <<dir, data, result, old, failed>>

\* One iteration of the freeing loop, or its end.
fat12_free_chain ==
  /\ pc = "free"
  /\ IF Continues(op.cluster) /\ op.iterations < max_clusters
     THEN /\ fat' = fat12_write_fat(fat, op.cluster, 0)
          /\ op' = [op EXCEPT !.cluster = fat12_read_fat(fat, op.cluster),
                              !.iterations = @ + 1]
          /\ owner' = [owner EXCEPT ![op.cluster] = Free]
          /\ UNCHANGED pc
     ELSE /\ pc' = IF op.kind = "write" THEN "alloc" ELSE "unlink"
          /\ owner' = [cl \in Clusters |->
                         IF owner[cl] = Dying THEN Lost ELSE owner[cl]]
          /\ UNCHANGED <<fat, op>>
  /\ UNCHANGED <<dir, data, result, old, failed>>

\* Mutant: the new cluster is not marked as the end of the chain.
Link_unterminated(cluster) ==
  IF op.prev_cluster = 0 THEN fat
  ELSE fat12_write_fat(fat, op.prev_cluster, cluster)

\* The table once cluster is the chain's last.
Link(cluster) ==
  LET f == IF op.prev_cluster = 0 THEN fat
           ELSE fat12_write_fat(fat, op.prev_cluster, cluster)
  IN  fat12_write_fat(f, cluster, 4095)

\* One iteration of the allocating loop that finds a cluster.
AllocCluster ==
  LET cluster == fat12_alloc_cluster(fat)
  IN  /\ pc = "alloc" /\ op.written < Len(op.content)
      /\ cluster # 0
      /\ fat' = Link(cluster)
      /\ data' = [data EXCEPT ![cluster] = op.content[op.written + 1]]
      /\ op' = [op EXCEPT
                  !.first_cluster = IF @ = 0 THEN cluster ELSE @,
                  !.prev_cluster = cluster, !.written = @ + 1]
      /\ owner' = [owner EXCEPT ![cluster] = New]
      /\ UNCHANGED <<dir, pc, result, old, failed>>

\* The early returns leave the new chain allocated. What was built in place
\* of an old file's chain counts as that file's.
FailWrite ==
  /\ Return(-1)
  /\ failed' = TRUE
  /\ owner' = [cl \in Clusters |->
                 IF owner[cl] # New THEN owner[cl]
                 ELSE IF op.existing_idx = -1 THEN Lost ELSE op.existing_idx]
  /\ UNCHANGED <<fat, dir, data>>

DiskFull ==
  /\ pc = "alloc" /\ op.written < Len(op.content)
  /\ fat12_alloc_cluster(fat) = 0
  /\ FailWrite

EntryIndex == IF op.existing_idx # -1 THEN op.existing_idx ELSE FindFree

DirectoryFull ==
  /\ pc = "alloc" /\ op.written = Len(op.content)
  /\ EntryIndex = -1
  /\ FailWrite

WriteEntry ==
  /\ pc = "alloc" /\ op.written = Len(op.content)
  /\ EntryIndex # -1 /\ op.name83 \notin Hidden
  /\ dir' = [dir EXCEPT ![EntryIndex] =
               FileSlot(op.name83, op.first_cluster, Len(op.content))]
  /\ owner' = [cl \in Clusters |-> IF owner[cl] = New THEN EntryIndex ELSE owner[cl]]
  /\ Return(0)
  /\ UNCHANGED <<fat, data, failed>>

\* The name goes into the entry as it is: with 0xE5 in front, every scan takes
\* the entry for deleted. The call returns 0, there is no file, and the chain
\* stays allocated.
WriteHidden ==
  /\ pc = "alloc" /\ op.written = Len(op.content)
  /\ EntryIndex # -1 /\ op.name83 \in Hidden
  /\ dir' = [dir EXCEPT ![EntryIndex] = DeletedSlot]
  /\ owner' = [cl \in Clusters |-> IF owner[cl] = New THEN Lost ELSE owner[cl]]
  /\ failed' = TRUE
  /\ Return(0)
  /\ UNCHANGED <<fat, data>>

DeleteEntry ==
  /\ pc = "unlink"
  /\ dir' = [dir EXCEPT ![op.existing_idx] = DeletedSlot]
  /\ Return(0)
  /\ UNCHANGED <<fat, data, owner, failed>>

FatCall ==
  \E name \in FileNames :
    \/ \E content \in Contents : fat12_write_file(name, content)
    \/ fat12_delete_file(name)
    \/ DeleteMissing(name)

FatStep ==
  \/ fat12_free_chain
  \/ AllocCluster \/ DiskFull
  \/ DirectoryFull \/ WriteEntry \/ WriteHidden
  \/ DeleteEntry

FatNext == FatCall \/ FatStep

FatSpec == FatInit /\ [][FatNext]_fatVars

-----------------------------------------------------------------------------
(* Properties.                                                             *)

\* The caller's view: until a call returns, its file is what it was.
Stored(n) == IF pc # "idle" /\ n = op.name83 THEN old ELSE fat12_read_file(Volume, n)

Store == INSTANCE FileStore
           WITH Names <- Names83, store <- [n \in Names83 |-> Stored(n)]

\* The driver implements a store of independent files: a write that returns 0
\* is read back whole (or, under a name of Hidden, stores nothing at all), one
\* that returns -1 creates nothing, and no operation, successful or not, changes
\* what any other name reads as.
RefinesFileStore == Store!Spec

DirEntries ==
  [st : {"end", "deleted", "used"}, name : Names83 \cup {NoName},
   first_cluster : {0} \cup Clusters, size : Nat]
Calls ==
  [kind : {"none", "write", "delete"}, name83 : Names83 \cup {NoName},
   content : Contents \cup {<< >>}, existing_idx : Slots \cup {-1},
   cluster : Entry, iterations : Nat, first_cluster : {0} \cup Clusters,
   prev_cluster : {0} \cup Clusters, written : Nat]

\* The table holds bytes, entries hold cluster numbers, and the locals of a
\* running call stay in range.
FatTypeOK ==
  /\ fat \in [0 .. FatBytes - 1 -> Byte]
  /\ dir \in [Slots -> DirEntries]
  /\ data \in [Clusters -> Blocks]
  /\ pc \in PcStates
  /\ op \in Calls /\ op.iterations <= max_clusters /\ op.written <= Len(op.content)
  /\ result \in {0, -1} /\ owner \in [Clusters -> Owners] /\ failed \in BOOLEAN

\* An entry is zero exactly when no file, live or lost, holds its cluster.
FreeIffZero ==
  \A cl \in Clusters : (fat12_read_fat(fat, cl) = 0) <=> (owner[cl] = Free)

\* A live file starts in a cluster of its own and its chain stays in its
\* own clusters: no two files are ever cross-linked, and no chain runs into
\* free space, not even after a write failed half way.
ChainsApart ==
  /\ \A i \in Slots :
       (dir[i].st = "used" /\ dir[i].first_cluster # 0 /\ op.existing_idx # i)
          => owner[dir[i].first_cluster] = i
  /\ \A cl \in Clusters :
       LET next == fat12_read_fat(fat, cl)
       IN  owner[cl] \in Slots /\ Continues(next)
             => next \in Clusters /\ owner[next] = owner[cl]

\* What a step leaves alone.
SparesOthers ==
  /\ \A cl \in Clusters : owner[cl] \in Slots =>
       /\ fat12_read_fat(fat', cl) = fat12_read_fat(fat, cl)
       /\ data'[cl] = data[cl]
  /\ \A i \in Slots :
       dir[i].st = "used" /\ op.existing_idx # i => dir'[i] = dir[i]

\* No step writes a table entry or a block of a cluster that belongs to a
\* file the running call is not about, nor that file's directory entry.
NoStrayWrites == [][SparesOthers]_fatVars

\* Between calls, as long as no write has failed and none was under a name of
\* Hidden, every allocated cluster is in the chain of a file and every chain is
\* as long as its file.
NoLeak ==
  (pc = "idle" /\ ~failed) =>
    /\ Lost \notin {owner[cl] : cl \in Clusters}
    /\ \A i \in Slots : dir[i].st = "used" =>
         /\ Reads(Volume, i) = dir[i].size
         /\ {cl \in Clusters : owner[cl] = i} = Chain(Volume, i)

\* No name is in the directory twice, and no file lies behind the entry that
\* stops the scans.
DirectorySound ==
  \A i \in Slots : dir[i].st = "used" =>
    /\ Scanned(dir, i)
    /\ \A j \in Slots : dir[j].st = "used" /\ dir[j].name = dir[i].name => j = i
=============================================================================
