---------------------------- MODULE Fat12Proofs ----------------------------
(***************************************************************************)
(* Theorems about Fat12, for every geometry that leaves room for the table,*)
(* every set of names and every content: the packed table of 12-bit        *)
(* entries and the allocator; and what a caller sees, that the directory   *)
(* stays sound, a chain is as long as its file and is read back block by   *)
(* block, and the driver implements the store of independent files         *)
(* (FileStore).                                                            *)
(***************************************************************************)
EXTENDS Fat12, NatLemmas, SequenceTheorems

Tables == [0 .. FatBytes - 1 -> Byte]

-----------------------------------------------------------------------------
(* Arithmetic.                                                             *)

\* Entries 2k and 2k + 1 occupy the bytes 3k, 3k + 1 and 3k + 2.
LEMMA EntryPlace ==
  ASSUME NEW cl \in Nat
  PROVE  \E k \in Nat :
           \/ cl = 2 * k /\ cl % 2 = 0 /\ EntryOffset(cl) = 3 * k
           \/ cl = 2 * k + 1 /\ cl % 2 = 1 /\ EntryOffset(cl) = 3 * k + 1
<1>1. PICK k \in Nat : k = cl \div 2
  OBVIOUS
<1>2. (cl = 2 * k /\ cl % 2 = 0) \/ (cl = 2 * k + 1 /\ cl % 2 = 1)
  BY <1>1
<1> QED BY <1>1, <1>2 DEF EntryOffset

\* What the packing arithmetic does to two bytes.
LEMMA PackEven ==
  ASSUME NEW v \in Entry, NEW y \in Byte
  PROVE  LET lo == v % 256
             hi == (y \div 16) * 16 + ((v \div 256) % 16)
         IN  /\ lo \in Byte /\ hi \in Byte
             /\ (lo + 256 * hi) % 4096 = v
             /\ hi \div 16 = y \div 16
BY DEF Entry, Byte

LEMMA PackOdd ==
  ASSUME NEW v \in Entry, NEW x \in Byte
  PROVE  LET lo == (x % 16) + ((v % 16) * 16)
             hi == (v \div 16) % 256
         IN  /\ lo \in Byte /\ hi \in Byte
             /\ (lo + 256 * hi) \div 16 = v
             /\ lo % 16 = x % 16
BY DEF Entry, Byte

\* An entry is read from one whole byte and half of another.
LEMMA EvenReadsHalf ==
  ASSUME NEW x \in Byte, NEW y \in Byte
  PROVE  (x + 256 * y) % 4096 = x + 256 * (y % 16) /\ (x + 256 * y) % 4096 \in Entry
BY DEF Entry, Byte

LEMMA OddReadsHalf ==
  ASSUME NEW x \in Byte, NEW y \in Byte
  PROVE  (x + 256 * y) \div 16 = (x \div 16) + 16 * y /\ (x + 256 * y) \div 16 \in Entry
BY DEF Entry, Byte

-----------------------------------------------------------------------------
(* The table.                                                              *)

LEMMA Geometry ==
  /\ FatBytes \in Nat /\ max_clusters \in Nat /\ max_clusters >= 1
  /\ \A cl \in Clusters : /\ cl \in Nat /\ cl >= 2 /\ cl < 4088 /\ cl \in Entry
                          /\ EntryOffset(cl) \in Nat
                          /\ EntryOffset(cl) + 1 < FatBytes
<1>1. FatBytes \in Nat
  BY BpbAssumption DEF FatBytes
<1>2. max_clusters \in Nat /\ max_clusters >= 1 /\ max_clusters < 4087
  BY FatFits
<1>3. ASSUME NEW cl \in Clusters
      PROVE  /\ cl \in Nat /\ cl >= 2 /\ cl < 4088 /\ cl \in Entry
             /\ EntryOffset(cl) \in Nat /\ EntryOffset(cl) + 1 < FatBytes
  <2>1. cl \in Nat /\ cl >= 2 /\ cl <= max_clusters + 1 /\ max_clusters + 1 < 4088
    BY <1>2 DEF Clusters
  <2>2. cl + (cl \div 2) <= (max_clusters + 1) + ((max_clusters + 1) \div 2)
    BY <1>2, <2>1
  <2>3. EntryOffset(max_clusters + 1) + 2 <= FatBytes
    BY FatFits DEF TableBytes
  <2> QED BY <1>1, <1>2, <2>1, <2>2, <2>3 DEF EntryOffset, Entry
<1> QED BY <1>1, <1>2, <1>3

\* A table entry is a 12-bit number.
LEMMA ReadType ==
  ASSUME NEW f \in Tables, NEW cl \in Clusters
  PROVE  fat12_read_fat(f, cl) \in Entry
<1> DEFINE o == EntryOffset(cl)
<1>1. f[o] \in Byte /\ f[o + 1] \in Byte
  BY Geometry DEF Tables
<1>2. read16(f, o) = f[o] + 256 * f[o + 1]
  BY DEF read16
<1> QED BY <1>1, <1>2, EvenReadsHalf, OddReadsHalf DEF fat12_read_fat

\* Writing an entry sets that entry and no other, although neighbours share
\* a byte: fat12_read_fat and fat12_write_fat are a table of 12-bit numbers.
THEOREM WriteSetsOneEntry ==
  ASSUME NEW f \in Tables, NEW cl \in Clusters, NEW v \in Entry
  PROVE  /\ fat12_write_fat(f, cl, v) \in Tables
         /\ \A d \in Clusters :
              fat12_read_fat(fat12_write_fat(f, cl, v), d) =
                IF d = cl THEN v ELSE fat12_read_fat(f, d)
<1> DEFINE o == EntryOffset(cl)
           g == fat12_write_fat(f, cl, v)
<1>1. o \in Nat /\ o + 1 < FatBytes /\ FatBytes \in Nat /\ cl \in Nat
  BY Geometry
<1>2. f[o] \in Byte /\ f[o + 1] \in Byte
  BY <1>1 DEF Tables
<1>3. CASE cl % 2 = 0
  <2> DEFINE hi == (f[o + 1] \div 16) * 16 + ((v \div 256) % 16)
  <2>1. v % 256 \in Byte /\ hi \in Byte /\ ((v % 256) + 256 * hi) % 4096 = v
        /\ hi \div 16 = f[o + 1] \div 16
    BY <1>2, PackEven
  <2>2. g = [f EXCEPT ![o] = v % 256, ![o + 1] = hi]
    BY <1>3 DEF fat12_write_fat
  <2> HIDE DEF hi, g
  <2>3. /\ g \in Tables /\ g[o] = v % 256 /\ g[o + 1] = hi
        /\ \A b \in 0 .. FatBytes - 1 : b # o /\ b # o + 1 => g[b] = f[b]
    BY <1>1, <2>1, <2>2 DEF Tables
  <2>4. fat12_read_fat(g, cl) = v
    BY <1>3, <2>1, <2>3 DEF fat12_read_fat, read16
  <2>5. ASSUME NEW d \in Clusters, d # cl
        PROVE  fat12_read_fat(g, d) = fat12_read_fat(f, d)
    <3> DEFINE e == EntryOffset(d)
    <3>1. e \in Nat /\ e + 1 < FatBytes /\ d \in Nat
      BY Geometry
    <3>2. CASE d % 2 = 0
      <4>1. e # o /\ e # o + 1 /\ e + 1 # o
        BY <1>1, <1>3, <2>5, <3>1, <3>2 DEF EntryOffset
      <4>2. g[e] = f[e] /\ g[e + 1] = f[e + 1]
        BY <1>1, <2>3, <3>1, <4>1
      <4> QED BY <3>2, <4>2 DEF fat12_read_fat, read16
    <3>3. CASE d % 2 = 1
      <4>1. e # o /\ e + 1 # o /\ e + 1 # o + 1
        BY <1>1, <1>3, <3>1, <3>3 DEF EntryOffset
      <4>2. g[e + 1] = f[e + 1]
        BY <1>1, <2>3, <3>1, <4>1
      <4>3. g[e] \in Byte /\ f[e] \in Byte /\ f[e + 1] \in Byte
        BY <1>1, <2>3, <3>1 DEF Tables
      <4>4. g[e] \div 16 = f[e] \div 16
        BY <1>1, <2>1, <2>3, <3>1, <4>1
      <4>5. (g[e] + 256 * g[e + 1]) \div 16 = (f[e] + 256 * f[e + 1]) \div 16
        BY <4>2, <4>3, <4>4, OddReadsHalf
      <4> QED BY <3>3, <4>5 DEF fat12_read_fat, read16
    <3> QED BY <3>1, <3>2, <3>3
  <2> QED BY <2>3, <2>4, <2>5 DEF g
<1>4. CASE cl % 2 = 1
  <2> DEFINE lo == (f[o] % 16) + ((v % 16) * 16)
             hi == (v \div 16) % 256
  <2>1. lo \in Byte /\ hi \in Byte /\ (lo + 256 * hi) \div 16 = v
        /\ lo % 16 = f[o] % 16
    BY <1>2, PackOdd
  <2>2. g = [f EXCEPT ![o] = lo, ![o + 1] = hi]
    BY <1>4 DEF fat12_write_fat
  <2> HIDE DEF lo, hi, g
  <2>3. /\ g \in Tables /\ g[o] = lo /\ g[o + 1] = hi
        /\ \A b \in 0 .. FatBytes - 1 : b # o /\ b # o + 1 => g[b] = f[b]
    BY <1>1, <2>1, <2>2 DEF Tables
  <2>4. fat12_read_fat(g, cl) = v
    BY <1>4, <2>1, <2>3 DEF fat12_read_fat, read16
  <2>5. ASSUME NEW d \in Clusters, d # cl
        PROVE  fat12_read_fat(g, d) = fat12_read_fat(f, d)
    <3> DEFINE e == EntryOffset(d)
    <3>1. e \in Nat /\ e + 1 < FatBytes /\ d \in Nat
      BY Geometry
    <3>2. CASE d % 2 = 1
      <4>1. e # o /\ e # o + 1 /\ e + 1 # o
        BY <1>1, <1>4, <2>5, <3>1, <3>2 DEF EntryOffset
      <4>2. g[e] = f[e] /\ g[e + 1] = f[e + 1]
        BY <1>1, <2>3, <3>1, <4>1
      <4> QED BY <3>2, <4>2 DEF fat12_read_fat, read16
    <3>3. CASE d % 2 = 0
      <4>1. e # o /\ e # o + 1
        BY <1>1, <1>4, <3>1, <3>3 DEF EntryOffset
      <4>2. g[e] = f[e]
        BY <1>1, <2>3, <3>1, <4>1
      <4>3. g[e + 1] \in Byte /\ f[e] \in Byte /\ f[e + 1] \in Byte
        BY <1>1, <2>3, <3>1 DEF Tables
      <4>4. g[e + 1] % 16 = f[e + 1] % 16
        BY <1>1, <2>1, <2>3, <3>1, <4>1
      <4>5. (g[e] + 256 * g[e + 1]) % 4096 = (f[e] + 256 * f[e + 1]) % 4096
        BY <4>2, <4>3, <4>4, EvenReadsHalf
      <4> QED BY <3>3, <4>5 DEF fat12_read_fat, read16
    <3> QED BY <3>1, <3>2, <3>3
  <2> QED BY <2>3, <2>4, <2>5 DEF g
<1> QED BY <1>1, <1>3, <1>4

-----------------------------------------------------------------------------
(* Searches.                                                               *)

LEMMA LeastOrType ==
  ASSUME NEW S, S \subseteq Nat, NEW none
  PROVE  LeastOr(S, none) \in S \cup {none} /\ (S # {} => LeastOr(S, none) \in S)
<1>1. CASE S = {}
  BY <1>1 DEF LeastOr
<1>2. CASE S # {}
  <2>1. \E i \in S : \A j \in S : i <= j
    BY <1>2, HasLeast
  <2>2. Least(S) \in S
    BY <2>1 DEF Least
  <2> QED BY <1>2, <2>2 DEF LeastOr
<1> QED BY <1>1, <1>2

LEMMA FindType ==
  ASSUME NEW n
  PROVE  /\ Find(dir, n) \in Slots \cup {-1}
         /\ Find(dir, n) # -1 => dir[Find(dir, n)].st = "used"
<1> DEFINE S == {i \in Slots : Scanned(dir, i) /\ dir[i].name = n}
<1>1. S \subseteq Nat /\ S \subseteq Slots
  BY BpbAssumption DEF Slots
<1>2. Find(dir, n) = LeastOr(S, -1)
  BY DEF Find
<1>3. LeastOr(S, -1) \in S \cup {-1}
  <2> HIDE DEF S
  <2> QED BY <1>1, LeastOrType
<1>4. \A i \in S : dir[i].st = "used"
  BY DEF Scanned
<1> HIDE DEF S
<1> QED BY <1>1, <1>2, <1>3, <1>4

LEMMA FindFreeType ==
  FindFree = -1 \/ (FindFree \in Slots /\ dir[FindFree].st # "used")
<1> DEFINE S == {i \in Slots : dir[i].st # "used"}
<1>1. S \subseteq Nat
  BY BpbAssumption DEF Slots
<1>2. FindFree = LeastOr(S, -1)
  BY DEF FindFree
<1>3. FindFree \in S \cup {-1}
  <2> HIDE DEF S
  <2> QED BY <1>1, <1>2, LeastOrType
<1> QED BY <1>3

\* The allocator returns a cluster whose entry is zero, or 0 if none is.
LEMMA AllocFindsFree ==
  ASSUME NEW f
  PROVE  LET cl == fat12_alloc_cluster(f)
         IN  \/ cl = 0 /\ \A d \in Clusters : fat12_read_fat(f, d) # 0
             \/ cl \in Clusters /\ fat12_read_fat(f, cl) = 0
<1> DEFINE free == {cl \in Clusters : fat12_read_fat(f, cl) = 0}
<1>1. free \subseteq Nat
  BY Geometry
<1>2. CASE free = {}
  BY <1>2 DEF fat12_alloc_cluster
<1>3. CASE free # {}
  <2>1. \E i \in free : \A j \in free : i <= j
    <3> HIDE DEF free
    <3> QED BY <1>1, <1>3, HasLeast
  <2>2. fat12_alloc_cluster(f) \in free
    BY <1>3, <2>1 DEF fat12_alloc_cluster
  <2> QED BY <2>2
<1> QED BY <1>2, <1>3

\* It is the first such cluster.
LEMMA AllocLeast ==
  ASSUME NEW f, NEW cl \in Clusters, cl < fat12_alloc_cluster(f)
  PROVE  fat12_read_fat(f, cl) # 0
<1> DEFINE free == {d \in Clusters : fat12_read_fat(f, d) = 0}
           x == fat12_alloc_cluster(f)
<1> SUFFICES ASSUME cl \in free PROVE FALSE
  OBVIOUS
<1>1. free # {} /\ free \subseteq Nat
  BY Geometry
<1>2. x = CHOOSE d \in free : \A j \in free : d <= j
  BY <1>1 DEF fat12_alloc_cluster
<1> HIDE DEF free, x
<1>3. \E d \in free : \A j \in free : d <= j
  BY <1>1, HasLeast
<1>4. x \in free /\ x <= cl
  BY <1>2, <1>3
<1>5. cl < x /\ x \in Nat /\ cl \in Nat
  BY <1>1, <1>4 DEF x
<1> QED BY <1>4, <1>5

-----------------------------------------------------------------------------
(* The inductive invariant.                                                *)

EntryAt(cl) == fat12_read_fat(fat, cl)

\* Following an entry of a cluster in A leads to a cluster in B.
Leads(A, B) ==
  \A cl \in Clusters : owner[cl] \in A /\ Continues(EntryAt(cl))
     => EntryAt(cl) \in Clusters /\ owner[EntryAt(cl)] \in B

\* What the marks of a running call say, and what it has not touched yet.
CallInv ==
  /\ pc = "idle" => op = NoOp
  /\ pc # "alloc" => op.first_cluster = 0 /\ op.prev_cluster = 0 /\ op.written = 0
  /\ pc \in {"free", "unlink"} => op.existing_idx # -1
  /\ \A cl \in Clusters : (owner[cl] = New => pc = "alloc")
                          /\ (owner[cl] = Dying => pc = "free")

\* The write's new chain is closed, and an old chain's first cluster is free
\* or in the new chain: a failed write can leave it in no other.
BuildInv ==
  /\ Leads({New}, {New})
  /\ pc = "alloc" =>
       /\ op.first_cluster # 0 => owner[op.first_cluster] = New
       /\ op.prev_cluster # 0 => owner[op.prev_cluster] = New
       /\ op.existing_idx # -1 /\ dir[op.existing_idx].first_cluster # 0
             => owner[dir[op.existing_idx].first_cluster] \in {Free, New}

\* The freeing loop never leaves the chain it frees.
FreeInv ==
  pc = "free" =>
    LET first == dir[op.existing_idx].first_cluster
    IN  /\ first # 0
        /\ Leads({Dying}, {Dying, Free})
        /\ Continues(op.cluster) =>
             op.cluster \in Clusters /\ owner[op.cluster] \in {Dying, Free}
        /\ op.iterations = 0 => op.cluster = first
        /\ op.iterations # 0 => owner[first] = Free

FatInv ==
  FatTypeOK /\ FreeIffZero /\ ChainsApart /\ CallInv /\ BuildInv /\ FreeInv

LEMMA ContentLength ==
  \A content \in Contents \cup {<< >>} :
     Len(content) \in Nat /\ \A k \in 1 .. Len(content) : content[k] \in Blocks
<1>1. << >> \in Seq(Blocks)
  OBVIOUS
<1>2. Contents \cup {<< >>} \subseteq Seq(Blocks)
  BY <1>1, ContentsAssumption
<1> QED BY <1>2

LEMMA InitFatInv == FatInit => FatInv
<1> SUFFICES ASSUME FatInit PROVE FatInv
  OBVIOUS
<1>1. fat \in Tables
  BY Geometry DEF FatInit, FreshFat, Tables, Byte
<1>2. ASSUME NEW cl \in Clusters PROVE EntryAt(cl) = 0
  <2>1. EntryOffset(cl) \in Nat /\ EntryOffset(cl) >= 3 /\ EntryOffset(cl) + 1 < FatBytes
    BY Geometry DEF EntryOffset
  <2>2. fat[EntryOffset(cl)] = 0 /\ fat[EntryOffset(cl) + 1] = 0
    BY <2>1, Geometry DEF FatInit, FreshFat
  <2> QED BY <2>2 DEF EntryAt, fat12_read_fat, read16
<1>3. dir \in [Slots -> DirEntries] /\ \A i \in Slots : dir[i].st = "end"
  BY DEF FatInit, FreshDir, EndSlot, DirEntries
<1>4. data \in [Clusters -> Blocks]
  BY ContentsAssumption DEF FatInit, FreshData
<1>5. op \in Calls /\ op.iterations <= max_clusters /\ op.written <= Len(op.content)
  <2>1. op \in Calls
    BY DEF FatInit, NoOp, Calls, Entry
  <2>2. Len(<< >>) = 0
    OBVIOUS
  <2>3. op.iterations = 0 /\ op.written = 0 /\ op.content = << >>
    BY DEF FatInit, NoOp
  <2> QED BY <2>1, <2>2, <2>3, Geometry
<1>6. owner \in [Clusters -> Owners] /\ \A cl \in Clusters : owner[cl] = Free
  BY DEF FatInit, Owners
<1>7. FatTypeOK
  BY <1>1, <1>3, <1>4, <1>5, <1>6 DEF FatInit, FatTypeOK, Tables, PcStates
<1>8. FreeIffZero
  BY <1>2, <1>6 DEF FreeIffZero, EntryAt
<1>9. ChainsApart
  BY <1>3, <1>6, BpbAssumption DEF ChainsApart, Free, Slots
<1>10. CallInv
  BY <1>6 DEF CallInv, FatInit, NoOp, Free, New, Dying
<1>11. BuildInv /\ FreeInv
  BY <1>6 DEF BuildInv, FreeInv, Leads, FatInit, Free, New
<1> QED BY <1>7, <1>8, <1>9, <1>10, <1>11 DEF FatInv

-----------------------------------------------------------------------------
(* Every step keeps it.                                                    *)

\* A call begins: the old chain's clusters are marked, nothing is written.
LEMMA StartFatInv ==
  ASSUME FatInv, NEW locals \in Calls, NEW next \in {"alloc", "unlink"},
         Start(locals, next),
         locals.iterations = 0, locals.first_cluster = 0, locals.prev_cluster = 0,
         locals.written = 0, next = "unlink" => locals.existing_idx # -1,
         locals.existing_idx # -1 => dir[locals.existing_idx].st = "used"
  PROVE  FatInv'
<1> DEFINE i == locals.existing_idx
           first == IF i = -1 THEN 0 ELSE dir[i].first_cluster
<1>1. /\ pc = "idle" /\ pc' = IF first >= 2 THEN "free" ELSE next
      /\ op' = [locals EXCEPT !.cluster = first]
      /\ owner' = [cl \in Clusters |->
                     IF i = -1 \/ owner[cl] # i THEN owner[cl]
                     ELSE IF first >= 2 THEN Dying ELSE Lost]
      /\ UNCHANGED <<fat, dir, data, result, failed>>
  BY DEF Start
<1>2. /\ FatTypeOK /\ FreeIffZero /\ ChainsApart /\ CallInv /\ BuildInv /\ FreeInv
      /\ op.existing_idx = -1
      /\ i \in Slots \cup {-1} /\ -1 \notin Slots /\ Slots \subseteq Nat
  BY <1>1, BpbAssumption DEF FatInv, CallInv, NoOp, Calls, Slots
<1>3. first \in {0} \cup Clusters /\ first \in Entry /\ first \in Nat
  <2>1. 0 \in Entry /\ 0 \in Nat
    BY DEF Entry
  <2>2. i # -1 => dir[i] \in DirEntries
    BY <1>2 DEF FatTypeOK
  <2>3. first \in {0} \cup Clusters
    BY <2>2 DEF DirEntries
  <2> HIDE DEF first
  <2> QED BY <2>1, <2>3, Geometry
<1>4. /\ op' \in Calls
      /\ op'.existing_idx = i /\ op'.cluster = first /\ op'.iterations = 0
      /\ op'.first_cluster = 0 /\ op'.prev_cluster = 0 /\ op'.written = 0
      /\ op'.content = locals.content
  <2> HIDE DEF first
  <2> QED BY <1>1, <1>3 DEF Calls
<1>5. /\ owner' \in [Clusters -> Owners]
      /\ \A cl \in Clusters :
           IF i # -1 /\ owner[cl] = i
           THEN owner'[cl] = IF first >= 2 THEN Dying ELSE Lost
           ELSE owner'[cl] = owner[cl]
  BY <1>1, <1>2 DEF FatTypeOK, Owners
<1>6. \A cl \in Clusters : owner[cl] # New /\ owner[cl] # Dying
  BY <1>1, <1>2 DEF CallInv
<1>7. pc' = "free" <=> first >= 2
  BY <1>1
<1>8. i # -1 /\ first # 0 => first \in Clusters /\ owner[first] = i
                             /\ first = dir[i].first_cluster
  BY <1>2, <1>3 DEF ChainsApart
<1>9. first # 0 <=> first >= 2
  BY <1>3, Geometry
<1>10. pc' \in PcStates /\ pc' # "idle"
  BY <1>1 DEF PcStates
<1> USE DEF Free, Lost, New, Dying
<1>11. FatTypeOK'
  <2>1. Len(locals.content) \in Nat
    BY ContentLength DEF Calls
  <2> QED BY <1>1, <1>2, <1>4, <1>5, <1>10, <2>1, Geometry DEF FatTypeOK
<1> HIDE DEF first, i
<1>12. FreeIffZero'
  BY <1>1, <1>2, <1>5 DEF FreeIffZero
<1>13. ChainsApart'
  <2>1. ASSUME NEW k \in Slots, dir[k].st = "used", dir[k].first_cluster # 0, i # k
        PROVE  owner'[dir[k].first_cluster] = k
    <3>1. dir[k].first_cluster \in Clusters
      BY <1>2, <2>1 DEF FatTypeOK, DirEntries
    <3>2. owner[dir[k].first_cluster] = k
      BY <1>2, <2>1 DEF ChainsApart
    <3> QED BY <1>5, <2>1, <3>1, <3>2
  <2>2. ASSUME NEW cl \in Clusters, owner'[cl] \in Slots,
               Continues(fat12_read_fat(fat, cl))
        PROVE  /\ fat12_read_fat(fat, cl) \in Clusters
               /\ owner'[fat12_read_fat(fat, cl)] = owner'[cl]
    <3>1. owner'[cl] = owner[cl] /\ ~(i # -1 /\ owner[cl] = i)
      BY <1>2, <1>5, <2>2
    <3>2. fat12_read_fat(fat, cl) \in Clusters /\ owner[fat12_read_fat(fat, cl)] = owner[cl]
      BY <1>2, <2>2, <3>1 DEF ChainsApart
    <3> QED BY <1>5, <3>1, <3>2
  <2> QED BY <1>1, <1>4, <2>1, <2>2 DEF ChainsApart
<1>14. CallInv'
  BY <1>1, <1>2, <1>4, <1>5, <1>6, <1>7, <1>9, <1>10 DEF CallInv, i, first
<1>15. BuildInv'
  <2>1. \A cl \in Clusters : owner'[cl] # New
    BY <1>2, <1>5, <1>6
  <2>2. pc' = "alloc" /\ i # -1 => dir[i].first_cluster = 0
    BY <1>7, <1>9 DEF first
  <2> QED BY <1>1, <1>4, <2>1, <2>2 DEF BuildInv, Leads
<1>16. FreeInv'
  <2> SUFFICES ASSUME first >= 2 PROVE FreeInv'
    BY <1>7 DEF FreeInv
  <2>1. i # -1 /\ first # 0 /\ first \in Clusters /\ owner'[first] = Dying
        /\ first = dir[i].first_cluster
    BY <1>5, <1>8, <1>9 DEF first
  <2>2. ASSUME NEW cl \in Clusters, owner'[cl] = Dying,
               Continues(fat12_read_fat(fat, cl))
        PROVE  /\ fat12_read_fat(fat, cl) \in Clusters
               /\ owner'[fat12_read_fat(fat, cl)] = Dying
    <3>1. owner[cl] = i /\ i \in Slots
      BY <1>2, <1>5, <1>6, <2>1, <2>2
    <3>2. fat12_read_fat(fat, cl) \in Clusters /\ owner[fat12_read_fat(fat, cl)] = i
      BY <1>2, <2>2, <3>1 DEF ChainsApart
    <3> QED BY <1>5, <2>1, <3>2
  <2> QED BY <1>1, <1>4, <2>1, <2>2 DEF FreeInv, Leads, EntryAt
<1> QED BY <1>11, <1>12, <1>13, <1>14, <1>15, <1>16 DEF FatInv

\* What one iteration of the freeing loop changes.
LEMMA FreeEffect ==
  ASSUME FatInv, fat12_free_chain, Continues(op.cluster), op.iterations < max_clusters
  PROVE  LET c == op.cluster
             n == fat12_read_fat(fat, c)
         IN  /\ c \in Clusters /\ owner[c] \in {Dying, Free} /\ n \in Entry
             /\ fat' \in Tables
             /\ fat12_read_fat(fat', c) = 0
             /\ \A d \in Clusters : d # c => fat12_read_fat(fat', d) = fat12_read_fat(fat, d)
             /\ op' \in Calls /\ op'.cluster = n /\ op'.iterations = op.iterations + 1
             /\ op'.existing_idx = op.existing_idx /\ op'.first_cluster = 0
             /\ op'.prev_cluster = 0 /\ op'.written = 0 /\ op'.content = op.content
             /\ op'.kind = op.kind /\ op'.name83 = op.name83
             /\ op.iterations \in Nat /\ pc' = "free"
             /\ owner' \in [Clusters -> Owners] /\ owner'[c] = Free
             /\ \A d \in Clusters : d # c => owner'[d] = owner[d]
<1> DEFINE c == op.cluster
           n == fat12_read_fat(fat, c)
<1> USE DEF Free, Lost, New, Dying
<1>1. /\ fat' = fat12_write_fat(fat, c, 0) /\ pc' = "free"
      /\ op' = [op EXCEPT !.cluster = n, !.iterations = @ + 1]
      /\ owner' = [owner EXCEPT ![c] = Free]
      /\ fat \in Tables /\ owner \in [Clusters -> Owners] /\ op \in Calls
      /\ op.first_cluster = 0 /\ op.prev_cluster = 0 /\ op.written = 0
  BY DEF fat12_free_chain, FatInv, FatTypeOK, CallInv, Tables
<1>2. c \in Clusters /\ owner[c] \in {Dying, Free}
  BY DEF FatInv, FreeInv, fat12_free_chain
<1>3. n \in Entry
  BY <1>1, <1>2, ReadType
<1> HIDE DEF c, n
<1>4. /\ fat' \in Tables
      /\ fat12_read_fat(fat', c) = 0
      /\ \A d \in Clusters : d # c => fat12_read_fat(fat', d) = fat12_read_fat(fat, d)
  <2>1. 0 \in Entry
    BY DEF Entry
  <2> QED BY <1>1, <1>2, <2>1, WriteSetsOneEntry
<1>5. /\ op' \in Calls /\ op'.cluster = n /\ op'.iterations = op.iterations + 1
      /\ op'.existing_idx = op.existing_idx /\ op'.first_cluster = 0
      /\ op'.prev_cluster = 0 /\ op'.written = 0 /\ op'.content = op.content
      /\ op'.kind = op.kind /\ op'.name83 = op.name83
      /\ op.iterations \in Nat
  <2>1. op.iterations \in Nat /\ op.iterations + 1 \in Nat
    BY <1>1 DEF Calls
  <2> QED BY <1>1, <1>3, <2>1 DEF Calls
<1>6. /\ owner' \in [Clusters -> Owners] /\ owner'[c] = Free
      /\ \A d \in Clusters : d # c => owner'[d] = owner[d]
  BY <1>1, <1>2 DEF Owners
<1> QED BY <1>1, <1>2, <1>3, <1>4, <1>5, <1>6 DEF c, n

\* Freeing a cluster of the marked chain, or leaving the loop.
LEMMA FreeFatInv ==
  ASSUME FatInv, fat12_free_chain
  PROVE  FatInv'
<1> DEFINE c == op.cluster
           n == fat12_read_fat(fat, c)
           first == dir[op.existing_idx].first_cluster
<1> USE DEF Free, Lost, New, Dying
<1>1. /\ FatTypeOK /\ FreeIffZero /\ ChainsApart /\ CallInv /\ BuildInv /\ FreeInv
      /\ pc = "free" /\ UNCHANGED <<dir, data, result, old, failed>>
      /\ op.existing_idx \in Slots /\ Slots \subseteq Nat /\ op \in Calls
  BY BpbAssumption DEF FatInv, fat12_free_chain, CallInv, FatTypeOK, Calls, Slots
<1>2. /\ first # 0 /\ first \in Clusters /\ first \in Nat /\ Continues(first)
      /\ Leads({Dying}, {Dying, Free})
      /\ Continues(c) => c \in Clusters /\ owner[c] \in {Dying, Free}
      /\ op.iterations = 0 => c = first
      /\ op.iterations # 0 => owner[first] = Free
  <2>1. dir[op.existing_idx] \in DirEntries
    BY <1>1 DEF FatTypeOK
  <2>2. first \in {0} \cup Clusters
    BY <2>1 DEF DirEntries
  <2>3. /\ first # 0 /\ Leads({Dying}, {Dying, Free})
        /\ Continues(c) => c \in Clusters /\ owner[c] \in {Dying, Free}
        /\ op.iterations = 0 => c = first
        /\ op.iterations # 0 => owner[first] = Free
    BY <1>1 DEF FreeInv
  <2> HIDE DEF first, c
  <2> QED BY <2>2, <2>3, Geometry DEF Continues
<1>3. /\ \A cl \in Clusters : owner[cl] # New
      /\ op.first_cluster = 0 /\ op.prev_cluster = 0 /\ op.written = 0
      /\ op.existing_idx # -1 /\ fat \in Tables /\ owner \in [Clusters -> Owners]
  BY <1>1 DEF CallInv, FatTypeOK, Tables
<1>4. CASE Continues(c) /\ op.iterations < max_clusters
  <2>1. /\ fat' = fat12_write_fat(fat, c, 0) /\ pc' = "free"
        /\ op' = [op EXCEPT !.cluster = n, !.iterations = @ + 1]
        /\ owner' = [owner EXCEPT ![c] = Free]
    BY <1>1, <1>4 DEF fat12_free_chain
  <2> HIDE DEF c, n, first
  <2>2. c \in Clusters /\ owner[c] \in {Dying, Free} /\ n \in Entry
    BY <1>4, FreeEffect DEF c, n
  <2>3. /\ fat' \in Tables
        /\ fat12_read_fat(fat', c) = 0
        /\ \A d \in Clusters : d # c => fat12_read_fat(fat', d) = fat12_read_fat(fat, d)
    BY <1>4, FreeEffect DEF c, n
  <2>4. /\ op' \in Calls /\ op'.cluster = n /\ op'.iterations = op.iterations + 1
        /\ op'.existing_idx = op.existing_idx /\ op'.first_cluster = 0
        /\ op'.prev_cluster = 0 /\ op'.written = 0 /\ op'.content = op.content
        /\ op.iterations \in Nat
    BY <1>4, FreeEffect DEF c, n
  <2>5. /\ owner' \in [Clusters -> Owners] /\ owner'[c] = Free
        /\ \A d \in Clusters : d # c => owner'[d] = owner[d]
    BY <1>4, FreeEffect DEF c, n
  <2>6. FatTypeOK'
    BY <1>1, <1>3, <1>4, <2>1, <2>3, <2>4, <2>5, Geometry DEF FatTypeOK, Tables, PcStates
  <2>7. FreeIffZero'
    BY <1>1, <2>3, <2>5 DEF FreeIffZero
  <2>8. ChainsApart'
    <3>1. ASSUME NEW k \in Slots, dir[k].st = "used", dir[k].first_cluster # 0,
                 op.existing_idx # k
          PROVE  owner'[dir[k].first_cluster] = k
      <4>1. dir[k].first_cluster \in Clusters /\ owner[dir[k].first_cluster] = k
        BY <1>1, <3>1 DEF FatTypeOK, DirEntries, ChainsApart
      <4>2. dir[k].first_cluster # c
        BY <1>1, <2>2, <4>1
      <4> QED BY <2>5, <4>1, <4>2
    <3>2. ASSUME NEW cl \in Clusters, owner'[cl] \in Slots,
                 Continues(fat12_read_fat(fat', cl))
          PROVE  /\ fat12_read_fat(fat', cl) \in Clusters
                 /\ owner'[fat12_read_fat(fat', cl)] = owner'[cl]
      <4>1. cl # c /\ owner'[cl] = owner[cl]
            /\ fat12_read_fat(fat', cl) = fat12_read_fat(fat, cl)
        BY <1>1, <2>3, <2>5, <3>2
      <4>2. /\ fat12_read_fat(fat, cl) \in Clusters
            /\ owner[fat12_read_fat(fat, cl)] = owner[cl]
        BY <1>1, <3>2, <4>1 DEF ChainsApart
      <4>3. fat12_read_fat(fat, cl) # c
        BY <1>1, <2>2, <3>2, <4>1, <4>2
      <4> QED BY <2>5, <4>1, <4>2, <4>3
    <3> QED BY <1>1, <2>4, <3>1, <3>2 DEF ChainsApart
  <2>9. CallInv'
    BY <1>1, <1>3, <2>1, <2>4, <2>5 DEF CallInv
  <2>10. BuildInv'
    BY <1>3, <2>1, <2>5 DEF BuildInv, Leads
  <2>11. FreeInv'
    <3>1. Leads({Dying}, {Dying, Free})'
      <4>1. ASSUME NEW cl \in Clusters, owner'[cl] = Dying,
                   Continues(fat12_read_fat(fat', cl))
            PROVE  /\ fat12_read_fat(fat', cl) \in Clusters
                   /\ owner'[fat12_read_fat(fat', cl)] \in {Dying, Free}
        <5>1. owner[cl] = Dying /\ fat12_read_fat(fat', cl) = fat12_read_fat(fat, cl)
          BY <2>3, <2>5, <4>1
        <5>2. /\ fat12_read_fat(fat, cl) \in Clusters
              /\ owner[fat12_read_fat(fat, cl)] \in {Dying, Free}
          BY <1>2, <4>1, <5>1 DEF Leads, EntryAt
        <5> QED BY <2>5, <5>1, <5>2
      <4> QED BY <4>1 DEF Leads, EntryAt
    <3>2. Continues(n) => n \in Clusters /\ owner'[n] \in {Dying, Free}
      <4>1. ASSUME Continues(n) PROVE owner[c] = Dying
        <5>1. n # 0
          BY <4>1 DEF Continues
        <5> QED BY <1>1, <2>2, <5>1 DEF FreeIffZero, n
      <4>2. Continues(n) => n \in Clusters /\ owner[n] \in {Dying, Free}
        BY <1>2, <2>2, <4>1 DEF Leads, EntryAt, n
      <4> QED BY <2>5, <4>2
    <3>3. owner'[first] = Free
      BY <1>2, <2>5
    <3>4. op'.iterations # 0
      BY <2>4
    <3> QED BY <1>1, <1>2, <2>1, <2>4, <3>1, <3>2, <3>3, <3>4 DEF FreeInv, first
  <2> QED BY <2>6, <2>7, <2>8, <2>9, <2>10, <2>11 DEF FatInv
<1>5. CASE ~(Continues(c) /\ op.iterations < max_clusters)
  <2>1. /\ pc' = IF op.kind = "write" THEN "alloc" ELSE "unlink"
        /\ owner' = [cl \in Clusters |->
                       IF owner[cl] = Dying THEN Lost ELSE owner[cl]]
        /\ fat' = fat /\ op' = op
    BY <1>1, <1>5 DEF fat12_free_chain
  <2>2. op.iterations # 0
    BY <1>1, <1>2, <1>5, Geometry
  <2>3. owner[first] = Free
    BY <1>2, <2>2
  <2>4. /\ owner' \in [Clusters -> Owners]
        /\ \A d \in Clusters : owner[d] # Dying => owner'[d] = owner[d]
        /\ \A d \in Clusters : owner[d] = Dying => owner'[d] = Lost
    BY <1>3, <2>1 DEF Owners
  <2> HIDE DEF c, n, first
  <2>5. FatTypeOK'
    BY <1>1, <2>1, <2>4 DEF FatTypeOK, PcStates
  <2>6. FreeIffZero'
    BY <1>1, <2>1, <2>4 DEF FreeIffZero
  <2>7. ChainsApart'
    <3>1. ASSUME NEW k \in Slots, dir[k].st = "used", dir[k].first_cluster # 0,
                 op.existing_idx # k
          PROVE  owner'[dir[k].first_cluster] = k
      <4>1. dir[k].first_cluster \in Clusters /\ owner[dir[k].first_cluster] = k
        BY <1>1, <3>1 DEF FatTypeOK, DirEntries, ChainsApart
      <4> QED BY <1>1, <2>4, <4>1
    <3>2. ASSUME NEW cl \in Clusters, owner'[cl] \in Slots,
                 Continues(fat12_read_fat(fat, cl))
          PROVE  /\ fat12_read_fat(fat, cl) \in Clusters
                 /\ owner'[fat12_read_fat(fat, cl)] = owner'[cl]
      <4>1. owner'[cl] = owner[cl]
        BY <1>1, <2>4, <3>2
      <4>2. /\ fat12_read_fat(fat, cl) \in Clusters
            /\ owner[fat12_read_fat(fat, cl)] = owner[cl]
        BY <1>1, <3>2, <4>1 DEF ChainsApart
      <4> QED BY <1>1, <2>4, <3>2, <4>1, <4>2
    <3> QED BY <1>1, <2>1, <3>1, <3>2 DEF ChainsApart
  <2>8. CallInv'
    BY <1>1, <1>3, <2>1, <2>4 DEF CallInv
  <2>9. BuildInv'
    <3>1. \A cl \in Clusters : owner'[cl] # New
      BY <1>3, <2>4
    <3>2. owner'[first] = Free
      BY <1>2, <2>3, <2>4
    <3> QED BY <1>1, <1>3, <2>1, <3>1, <3>2 DEF BuildInv, Leads, first
  <2>10. FreeInv'
    BY <2>1 DEF FreeInv
  <2> QED BY <2>5, <2>6, <2>7, <2>8, <2>9, <2>10 DEF FatInv
<1> QED BY <1>4, <1>5

\* What allocating a cluster changes.
LEMMA AllocEffect ==
  ASSUME FatInv, AllocCluster
  PROVE  LET c == fat12_alloc_cluster(fat)
             p == op.prev_cluster
         IN  /\ c \in Clusters /\ fat12_read_fat(fat, c) = 0 /\ c \in Entry /\ c # 0
             /\ owner[c] = Free
             /\ p \in {0} \cup Clusters /\ (p # 0 => p \in Clusters /\ owner[p] = New /\ p # c)
             /\ fat' \in Tables
             /\ fat12_read_fat(fat', c) = 4095
             /\ p # 0 => fat12_read_fat(fat', p) = c
             /\ \A d \in Clusters : d # c /\ d # p =>
                   fat12_read_fat(fat', d) = fat12_read_fat(fat, d)
             /\ op' \in Calls /\ op'.prev_cluster = c /\ op'.written = op.written + 1
             /\ op'.first_cluster = (IF op.first_cluster = 0 THEN c ELSE op.first_cluster)
             /\ op'.existing_idx = op.existing_idx /\ op'.content = op.content
             /\ op'.iterations = op.iterations
             /\ op'.kind = op.kind /\ op'.name83 = op.name83
             /\ op.written \in Nat /\ op.existing_idx \in Slots \cup {-1}
             /\ op.content \in Contents \cup {<< >>} /\ op.first_cluster \in {0} \cup Clusters
             /\ owner' \in [Clusters -> Owners] /\ owner'[c] = New
             /\ \A d \in Clusters : d # c => owner'[d] = owner[d]
             /\ op.content[op.written + 1] \in Blocks
             /\ data' \in [Clusters -> Blocks] /\ data'[c] = op.content[op.written + 1]
             /\ \A d \in Clusters : d # c => data'[d] = data[d]
<1> DEFINE c == fat12_alloc_cluster(fat)
           p == op.prev_cluster
<1> USE DEF Free, Lost, New, Dying
<1>1. /\ FatTypeOK /\ FreeIffZero /\ ChainsApart /\ CallInv /\ BuildInv
      /\ pc = "alloc" /\ op.written < Len(op.content) /\ c # 0
      /\ fat' = Link(c)
      /\ data' = [data EXCEPT ![c] = op.content[op.written + 1]]
      /\ op' = [op EXCEPT !.first_cluster = IF @ = 0 THEN c ELSE @,
                          !.prev_cluster = c, !.written = @ + 1]
      /\ owner' = [owner EXCEPT ![c] = New]
      /\ UNCHANGED <<dir, pc, result, old, failed>>
      /\ op \in Calls /\ fat \in Tables /\ owner \in [Clusters -> Owners]
      /\ Slots \subseteq Nat
  BY BpbAssumption DEF FatInv, AllocCluster, FatTypeOK, Tables, Slots
<1>2. c \in Clusters /\ fat12_read_fat(fat, c) = 0 /\ c \in Entry /\ c # 0
  <2>1. c \in Clusters /\ fat12_read_fat(fat, c) = 0
    BY <1>1, AllocFindsFree
  <2> HIDE DEF c
  <2> QED BY <1>1, <2>1, Geometry
<1> HIDE DEF c
<1>3. owner[c] = Free
  BY <1>1, <1>2 DEF FreeIffZero
<1>4. p \in {0} \cup Clusters /\ (p # 0 => p \in Clusters /\ owner[p] = New /\ p # c)
  <2>1. p \in {0} \cup Clusters
    BY <1>1 DEF Calls
  <2>2. p # 0 => owner[p] = New
    BY <1>1 DEF BuildInv
  <2> QED BY <1>3, <2>1, <2>2
<1>5. /\ fat' \in Tables
      /\ fat12_read_fat(fat', c) = 4095
      /\ p # 0 => fat12_read_fat(fat', p) = c
      /\ \A d \in Clusters : d # c /\ d # p =>
            fat12_read_fat(fat', d) = fat12_read_fat(fat, d)
  <2>1. 4095 \in Entry
    BY DEF Entry
  <2> DEFINE f == IF p = 0 THEN fat ELSE fat12_write_fat(fat, p, c)
  <2>2. fat' = fat12_write_fat(f, c, 4095)
    BY <1>1 DEF Link
  <2>3. /\ f \in Tables
        /\ p # 0 => fat12_read_fat(f, p) = c
        /\ \A d \in Clusters : d # p => fat12_read_fat(f, d) = fat12_read_fat(fat, d)
    <3>1. CASE p = 0
      BY <1>1, <3>1
    <3>2. CASE p # 0
      <4>1. p \in Clusters /\ f = fat12_write_fat(fat, p, c)
        BY <1>4, <3>2
      <4> HIDE DEF f, p
      <4> QED BY <1>1, <1>2, <4>1, WriteSetsOneEntry
    <3> QED BY <3>1, <3>2
  <2> HIDE DEF f, p
  <2> QED BY <1>2, <1>4, <2>1, <2>2, <2>3, WriteSetsOneEntry
<1>6. /\ op' \in Calls /\ op'.prev_cluster = c /\ op'.written = op.written + 1
      /\ op'.first_cluster = (IF op.first_cluster = 0 THEN c ELSE op.first_cluster)
      /\ op'.existing_idx = op.existing_idx /\ op'.content = op.content
      /\ op'.iterations = op.iterations /\ op'.kind = op.kind /\ op'.name83 = op.name83
      /\ op.written \in Nat /\ op.existing_idx \in Slots \cup {-1}
      /\ op.content \in Contents \cup {<< >>} /\ op.first_cluster \in {0} \cup Clusters
  <2> DEFINE first == IF op.first_cluster = 0 THEN c ELSE op.first_cluster
  <2>1. /\ op.written \in Nat /\ op.existing_idx \in Slots \cup {-1}
        /\ op.content \in Contents \cup {<< >>} /\ op.first_cluster \in {0} \cup Clusters
    BY <1>1 DEF Calls
  <2>2. first \in {0} \cup Clusters /\ op.written + 1 \in Nat
    BY <1>2, <2>1
  <2>3. op' = [op EXCEPT !.first_cluster = first, !.prev_cluster = c,
                         !.written = op.written + 1]
    BY <1>1
  <2>4. first = IF op.first_cluster = 0 THEN c ELSE op.first_cluster
    OBVIOUS
  <2> HIDE DEF first
  <2>5. /\ op' \in Calls /\ op'.prev_cluster = c /\ op'.written = op.written + 1
        /\ op'.first_cluster = first
        /\ op'.existing_idx = op.existing_idx /\ op'.content = op.content
        /\ op'.iterations = op.iterations /\ op'.kind = op.kind /\ op'.name83 = op.name83
    BY <1>1, <1>2, <2>2, <2>3 DEF Calls
  <2> QED BY <2>1, <2>4, <2>5
<1>7. /\ owner' \in [Clusters -> Owners] /\ owner'[c] = New
      /\ \A d \in Clusters : d # c => owner'[d] = owner[d]
  BY <1>1, <1>2 DEF Owners
<1>8. op.content[op.written + 1] \in Blocks
  <2>1. Len(op.content) \in Nat /\ \A k \in 1 .. Len(op.content) : op.content[k] \in Blocks
    BY <1>6, ContentLength
  <2>2. op.written + 1 \in 1 .. Len(op.content)
    BY <1>1, <1>6, <2>1
  <2> QED BY <2>1, <2>2
<1>9. /\ data' \in [Clusters -> Blocks] /\ data'[c] = op.content[op.written + 1]
      /\ \A d \in Clusters : d # c => data'[d] = data[d]
  BY <1>1, <1>2, <1>8 DEF FatTypeOK
<1> HIDE DEF p
<1> QED BY <1>2, <1>3, <1>4, <1>5, <1>6, <1>7, <1>8, <1>9 DEF c, p

\* Linking a free cluster into the chain that the write builds.
LEMMA AllocFatInv ==
  ASSUME FatInv, AllocCluster
  PROVE  FatInv'
<1> DEFINE c == fat12_alloc_cluster(fat)
           p == op.prev_cluster
<1> USE DEF Free, Lost, New, Dying
<1>1. /\ FatTypeOK /\ FreeIffZero /\ ChainsApart /\ CallInv /\ BuildInv
      /\ pc = "alloc" /\ op.written < Len(op.content) /\ c # 0
      /\ fat' = Link(c)
      /\ data' = [data EXCEPT ![c] = op.content[op.written + 1]]
      /\ op' = [op EXCEPT !.first_cluster = IF @ = 0 THEN c ELSE @,
                          !.prev_cluster = c, !.written = @ + 1]
      /\ owner' = [owner EXCEPT ![c] = New]
      /\ UNCHANGED <<dir, pc, result, old, failed>>
      /\ op \in Calls /\ fat \in Tables /\ owner \in [Clusters -> Owners]
      /\ Slots \subseteq Nat
  BY BpbAssumption DEF FatInv, AllocCluster, FatTypeOK, Tables, Slots
<1> HIDE DEF c, p
<1>2. c \in Clusters /\ fat12_read_fat(fat, c) = 0 /\ c \in Entry /\ c # 0
  BY AllocEffect DEF c, p
<1>3. owner[c] = Free
  BY AllocEffect DEF c, p
<1>4. p \in {0} \cup Clusters /\ (p # 0 => p \in Clusters /\ owner[p] = New /\ p # c)
  BY AllocEffect DEF c, p
<1>5. /\ fat' \in Tables
      /\ fat12_read_fat(fat', c) = 4095
      /\ p # 0 => fat12_read_fat(fat', p) = c
      /\ \A d \in Clusters : d # c /\ d # p =>
            fat12_read_fat(fat', d) = fat12_read_fat(fat, d)
  BY AllocEffect DEF c, p
<1>6. /\ op' \in Calls /\ op'.prev_cluster = c /\ op'.written = op.written + 1
      /\ op'.first_cluster = (IF op.first_cluster = 0 THEN c ELSE op.first_cluster)
      /\ op'.existing_idx = op.existing_idx /\ op'.content = op.content
      /\ op'.iterations = op.iterations
      /\ op.written \in Nat /\ op.existing_idx \in Slots \cup {-1}
      /\ op.content \in Contents \cup {<< >>} /\ op.first_cluster \in {0} \cup Clusters
  BY AllocEffect DEF c, p
<1>7. /\ owner' \in [Clusters -> Owners] /\ owner'[c] = New
      /\ \A d \in Clusters : d # c => owner'[d] = owner[d]
  BY AllocEffect DEF c, p
<1>8. FatTypeOK'
  <2>1. /\ Len(op.content) \in Nat
        /\ op.content[op.written + 1] \in Blocks
    BY <1>1, <1>6, ContentLength
  <2>2. data' \in [Clusters -> Blocks]
    BY AllocEffect
  <2>3. op'.iterations <= max_clusters /\ op'.written <= Len(op'.content)
    BY <1>1, <1>6, <2>1 DEF FatTypeOK
  <2> QED BY <1>1, <1>5, <1>6, <1>7, <2>2, <2>3 DEF FatTypeOK, Tables
<1>9. FreeIffZero'
  <2>1. ASSUME NEW d \in Clusters
        PROVE  (fat12_read_fat(fat', d) = 0) <=> (owner'[d] = Free)
    <3>1. CASE d = c
      BY <1>5, <1>7, <3>1
    <3>2. CASE d = p /\ d # c
      <4>1. p # 0 /\ owner[d] = New
        BY <1>4, <3>2, Geometry
      <4> QED BY <1>2, <1>5, <1>7, <3>2, <4>1
    <3>3. CASE d # p /\ d # c
      BY <1>1, <1>5, <1>7, <3>3 DEF FreeIffZero
    <3> QED BY <3>1, <3>2, <3>3
  <2> QED BY <2>1 DEF FreeIffZero
<1>10. ChainsApart'
  <2>1. ASSUME NEW k \in Slots, dir[k].st = "used", dir[k].first_cluster # 0,
               op.existing_idx # k
        PROVE  owner'[dir[k].first_cluster] = k
    <3>1. dir[k].first_cluster \in Clusters /\ owner[dir[k].first_cluster] = k
      BY <1>1, <2>1 DEF FatTypeOK, DirEntries, ChainsApart
    <3>2. dir[k].first_cluster # c
      BY <1>1, <1>3, <3>1
    <3> QED BY <1>7, <3>1, <3>2
  <2>2. ASSUME NEW cl \in Clusters, owner'[cl] \in Slots,
               Continues(fat12_read_fat(fat', cl))
        PROVE  /\ fat12_read_fat(fat', cl) \in Clusters
               /\ owner'[fat12_read_fat(fat', cl)] = owner'[cl]
    <3>1. cl # c /\ owner'[cl] = owner[cl]
      BY <1>1, <1>7, <2>2
    <3>2. cl # p
      BY <1>1, <1>4, <2>2, <3>1, Geometry
    <3>3. fat12_read_fat(fat', cl) = fat12_read_fat(fat, cl)
      BY <1>5, <3>1, <3>2
    <3>4. /\ fat12_read_fat(fat, cl) \in Clusters
          /\ owner[fat12_read_fat(fat, cl)] = owner[cl]
      BY <1>1, <2>2, <3>1, <3>3 DEF ChainsApart
    <3>5. fat12_read_fat(fat, cl) # c
      BY <1>1, <1>3, <2>2, <3>1, <3>4
    <3> QED BY <1>7, <3>1, <3>3, <3>4, <3>5
  <2> QED BY <1>1, <1>6, <2>1, <2>2 DEF ChainsApart
<1>11. CallInv'
  BY <1>1, <1>7 DEF CallInv
<1>12. BuildInv'
  <2>1. ASSUME NEW cl \in Clusters, owner'[cl] = New,
               Continues(fat12_read_fat(fat', cl))
        PROVE  /\ fat12_read_fat(fat', cl) \in Clusters
               /\ owner'[fat12_read_fat(fat', cl)] = New
    <3>1. cl # c
      BY <1>5, <2>1 DEF Continues
    <3>2. CASE cl = p
      BY <1>2, <1>4, <1>5, <1>7, <3>2, Geometry
    <3>3. CASE cl # p
      <4>1. owner[cl] = New /\ fat12_read_fat(fat', cl) = fat12_read_fat(fat, cl)
        BY <1>5, <1>7, <2>1, <3>1, <3>3
      <4>2. /\ fat12_read_fat(fat, cl) \in Clusters
            /\ owner[fat12_read_fat(fat, cl)] = New
        BY <1>1, <2>1, <4>1 DEF BuildInv, Leads, EntryAt
      <4> QED BY <1>7, <4>1, <4>2
    <3> QED BY <3>2, <3>3
  <2>2. Leads({New}, {New})'
    BY <2>1 DEF Leads, EntryAt
  <2>3. op'.first_cluster # 0 => owner'[op'.first_cluster] = New
    BY <1>1, <1>6, <1>7 DEF BuildInv
  <2>4. op'.prev_cluster # 0 => owner'[op'.prev_cluster] = New
    BY <1>6, <1>7
  <2>5. op.existing_idx # -1 /\ dir[op.existing_idx].first_cluster # 0
          => owner'[dir[op.existing_idx].first_cluster] \in {Free, New}
    <3> SUFFICES ASSUME op.existing_idx # -1, dir[op.existing_idx].first_cluster # 0
                 PROVE  owner'[dir[op.existing_idx].first_cluster] \in {Free, New}
      OBVIOUS
    <3>1. /\ dir[op.existing_idx].first_cluster \in Clusters
          /\ owner[dir[op.existing_idx].first_cluster] \in {Free, New}
      BY <1>1, <1>6 DEF FatTypeOK, DirEntries, BuildInv
    <3> QED BY <1>7, <3>1
  <2> QED BY <1>1, <1>6, <2>2, <2>3, <2>4, <2>5 DEF BuildInv
<1>13. FreeInv'
  BY <1>1 DEF FreeInv
<1> QED BY <1>8, <1>9, <1>10, <1>11, <1>12, <1>13 DEF FatInv

\* A call ends: the new chain's clusters go to slot k or are lost, and every
\* file's first cluster is its own again.
LEMMA EndFatInv ==
  ASSUME FatInv, pc \in {"alloc", "unlink"}, NEW k \in Slots \cup {Lost},
         pc' = "idle", op' = NoOp, result' \in {0, -1}, failed' \in BOOLEAN,
         fat' = fat, data' = data, dir' \in [Slots -> DirEntries],
         owner' \in [Clusters -> Owners],
         \A cl \in Clusters : owner'[cl] = IF owner[cl] = New THEN k ELSE owner[cl],
         \A j \in Slots : dir'[j].st = "used" /\ dir'[j].first_cluster # 0
                            => owner'[dir'[j].first_cluster] = j
  PROVE  FatInv'
<1> USE DEF Free, Lost, New, Dying
<1>1. /\ FatTypeOK /\ FreeIffZero /\ ChainsApart /\ CallInv /\ BuildInv
      /\ Slots \subseteq Nat /\ -1 \notin Slots
  BY BpbAssumption DEF FatInv, Slots
<1>2. /\ op' \in Calls /\ op'.existing_idx = -1 /\ op'.first_cluster = 0
      /\ op'.prev_cluster = 0 /\ op'.written = 0 /\ op'.iterations = 0
      /\ op'.content = << >>
  BY DEF NoOp, Calls, Entry
<1>3. FatTypeOK'
  <2>1. Len(<< >>) = 0
    OBVIOUS
  <2> QED BY <1>1, <1>2, <2>1, Geometry DEF FatTypeOK, PcStates
<1>4. FreeIffZero'
  BY <1>1 DEF FreeIffZero
<1>5. ChainsApart'
  <2>1. ASSUME NEW cl \in Clusters, owner'[cl] \in Slots,
               Continues(fat12_read_fat(fat, cl))
        PROVE  /\ fat12_read_fat(fat, cl) \in Clusters
               /\ owner'[fat12_read_fat(fat, cl)] = owner'[cl]
    <3>1. CASE owner[cl] = New
      <4>1. /\ fat12_read_fat(fat, cl) \in Clusters
            /\ owner[fat12_read_fat(fat, cl)] = New
        BY <1>1, <2>1, <3>1 DEF BuildInv, Leads, EntryAt
      <4> QED BY <3>1, <4>1
    <3>2. CASE owner[cl] # New
      <4>1. owner[cl] \in Slots /\ owner'[cl] = owner[cl]
        BY <2>1, <3>2
      <4>2. /\ fat12_read_fat(fat, cl) \in Clusters
            /\ owner[fat12_read_fat(fat, cl)] = owner[cl]
        BY <1>1, <2>1, <4>1 DEF ChainsApart
      <4> QED BY <3>2, <4>1, <4>2
    <3> QED BY <3>1, <3>2
  <2> QED BY <2>1 DEF ChainsApart
<1>6. CallInv'
  BY <1>1, <1>2 DEF CallInv
<1>7. BuildInv'
  BY <1>1 DEF BuildInv, Leads
<1>8. FreeInv'
  BY DEF FreeInv
<1> QED BY <1>3, <1>4, <1>5, <1>6, <1>7, <1>8 DEF FatInv

\* The early returns of a write.
LEMMA FailFatInv ==
  ASSUME FatInv, DiskFull \/ DirectoryFull
  PROVE  FatInv'
<1> DEFINE e == op.existing_idx
           k == IF e = -1 THEN Lost ELSE e
<1> USE DEF Free, Lost, New, Dying
<1>1. /\ FatTypeOK /\ FreeIffZero /\ ChainsApart /\ BuildInv
      /\ pc = "alloc" /\ pc' = "idle" /\ op' = NoOp /\ result' = -1 /\ failed' = TRUE
      /\ owner' = [cl \in Clusters |-> IF owner[cl] # New THEN owner[cl] ELSE k]
      /\ fat' = fat /\ dir' = dir /\ data' = data
      /\ e \in Slots \cup {-1} /\ Slots \subseteq Nat /\ owner \in [Clusters -> Owners]
  BY BpbAssumption DEF FatInv, DiskFull, DirectoryFull, FailWrite, Return,
                       FatTypeOK, Calls, Slots
<1>2. k \in Slots \cup {Lost} /\ (e # -1 => k = e) /\ (e = -1 => k = Lost)
  BY <1>1
<1>3. e # -1 => \A cl \in Clusters : fat12_read_fat(fat, cl) # 0
  <2>1. DirectoryFull => e = -1
    BY <1>1 DEF DirectoryFull, EntryIndex
  <2>2. DiskFull => fat12_alloc_cluster(fat) = 0
    BY DEF DiskFull
  <2>3. 0 \notin Clusters
    BY Geometry
  <2> QED BY <2>1, <2>2, <2>3, AllocFindsFree
<1>4. dir \in [Slots -> DirEntries]
  BY <1>1 DEF FatTypeOK
<1> HIDE DEF e, k
<1>5. /\ owner' \in [Clusters -> Owners]
      /\ \A cl \in Clusters : owner'[cl] = IF owner[cl] = New THEN k ELSE owner[cl]
  BY <1>1, <1>2 DEF Owners
<1>6. ASSUME NEW j \in Slots, dir[j].st = "used", dir[j].first_cluster # 0
      PROVE  owner'[dir[j].first_cluster] = j
  <2>1. dir[j].first_cluster \in Clusters
    BY <1>4, <1>6 DEF DirEntries
  <2>2. CASE e = j
    <3>1. owner[dir[j].first_cluster] \in {Free, New} /\ e # -1
      BY <1>1, <1>6, <2>2 DEF BuildInv, e
    <3>2. owner[dir[j].first_cluster] # Free
      BY <1>1, <1>3, <2>1, <3>1 DEF FreeIffZero
    <3> QED BY <1>2, <1>5, <2>1, <2>2, <3>1, <3>2
  <2>3. CASE e # j
    <3>1. owner[dir[j].first_cluster] = j
      BY <1>1, <1>6, <2>3 DEF ChainsApart, e
    <3> QED BY <1>1, <1>5, <2>1, <3>1
  <2> QED BY <2>2, <2>3
<1>7. \A j \in Slots : dir'[j].st = "used" /\ dir'[j].first_cluster # 0
                         => owner'[dir'[j].first_cluster] = j
  BY <1>1, <1>6
<1> QED BY <1>1, <1>2, <1>4, <1>5, <1>7, EndFatInv

\* A write commits its directory entry.
LEMMA WriteEntryFatInv ==
  ASSUME FatInv, WriteEntry
  PROVE  FatInv'
<1> DEFINE e == op.existing_idx
           k == EntryIndex
           slot == FileSlot(op.name83, op.first_cluster, Len(op.content))
<1> USE DEF Free, Lost, New, Dying
<1>1. /\ FatTypeOK /\ ChainsApart /\ BuildInv
      /\ pc = "alloc" /\ pc' = "idle" /\ op' = NoOp /\ result' = 0 /\ failed' = failed
      /\ owner' = [cl \in Clusters |-> IF owner[cl] = New THEN k ELSE owner[cl]]
      /\ fat' = fat /\ data' = data /\ dir' = [dir EXCEPT ![k] = slot] /\ k # -1
      /\ e \in Slots \cup {-1} /\ Slots \subseteq Nat /\ owner \in [Clusters -> Owners]
      /\ op \in Calls /\ dir \in [Slots -> DirEntries] /\ failed \in BOOLEAN
  BY BpbAssumption DEF FatInv, WriteEntry, Return, FatTypeOK, Calls, Slots
<1>2. k \in Slots /\ (e # -1 => k = e)
  BY <1>1, FindFreeType DEF EntryIndex
<1>3. slot \in DirEntries /\ slot.first_cluster = op.first_cluster
  <2>1. /\ op.name83 \in Names83 \cup {NoName} /\ op.first_cluster \in {0} \cup Clusters
        /\ op.content \in Contents \cup {<< >>}
    BY <1>1 DEF Calls
  <2>2. Len(op.content) \in Nat
    BY <2>1, ContentLength
  <2> QED BY <2>1, <2>2 DEF FileSlot, DirEntries
<1>4. op.first_cluster # 0 => op.first_cluster \in Clusters /\ owner[op.first_cluster] = New
  BY <1>1 DEF Calls, BuildInv
<1> HIDE DEF e, k, slot
<1>5. /\ dir' \in [Slots -> DirEntries] /\ dir'[k] = slot
      /\ \A j \in Slots : j # k => dir'[j] = dir[j]
  BY <1>1, <1>2, <1>3
<1>6. /\ owner' \in [Clusters -> Owners]
      /\ \A cl \in Clusters : owner'[cl] = IF owner[cl] = New THEN k ELSE owner[cl]
  BY <1>1, <1>2 DEF Owners
<1>7. ASSUME NEW j \in Slots, dir'[j].st = "used", dir'[j].first_cluster # 0
      PROVE  owner'[dir'[j].first_cluster] = j
  <2>1. CASE j = k
    BY <1>3, <1>4, <1>5, <1>6, <1>7, <2>1
  <2>2. CASE j # k
    <3>1. dir'[j] = dir[j] /\ dir[j].first_cluster \in Clusters /\ e # j
      BY <1>1, <1>2, <1>5, <1>7, <2>2 DEF DirEntries
    <3>2. owner[dir[j].first_cluster] = j
      BY <1>1, <1>7, <3>1 DEF ChainsApart, e
    <3> QED BY <1>1, <1>6, <3>1, <3>2
  <2> QED BY <2>1, <2>2
<1> QED BY <1>1, <1>2, <1>5, <1>6, <1>7, EndFatInv

\* A write under a name of Hidden leaves a deleted entry and a lost chain.
LEMMA WriteHiddenFatInv ==
  ASSUME FatInv, WriteHidden
  PROVE  FatInv'
<1> DEFINE e == op.existing_idx
           k == EntryIndex
<1> USE DEF Free, Lost, New, Dying
<1>1. /\ FatTypeOK /\ ChainsApart /\ BuildInv
      /\ pc = "alloc" /\ pc' = "idle" /\ op' = NoOp /\ result' = 0 /\ failed' = TRUE
      /\ owner' = [cl \in Clusters |-> IF owner[cl] = New THEN Lost ELSE owner[cl]]
      /\ fat' = fat /\ data' = data /\ dir' = [dir EXCEPT ![k] = DeletedSlot] /\ k # -1
      /\ e \in Slots \cup {-1} /\ Slots \subseteq Nat /\ owner \in [Clusters -> Owners]
      /\ dir \in [Slots -> DirEntries]
  BY BpbAssumption DEF FatInv, WriteHidden, Return, FatTypeOK, Calls, Slots
<1>2. k \in Slots /\ (e # -1 => k = e) /\ Lost \in Slots \cup {Lost}
  BY <1>1, FindFreeType DEF EntryIndex
<1>3. DeletedSlot \in DirEntries /\ DeletedSlot.st # "used"
  BY DEF DeletedSlot, EndSlot, DirEntries
<1> HIDE DEF e, k
<1>4. /\ dir' \in [Slots -> DirEntries] /\ dir'[k] = DeletedSlot
      /\ \A j \in Slots : j # k => dir'[j] = dir[j]
  BY <1>1, <1>2, <1>3
<1>5. /\ owner' \in [Clusters -> Owners]
      /\ \A cl \in Clusters : owner'[cl] = IF owner[cl] = New THEN Lost ELSE owner[cl]
  BY <1>1 DEF Owners
<1>6. ASSUME NEW j \in Slots, dir'[j].st = "used", dir'[j].first_cluster # 0
      PROVE  owner'[dir'[j].first_cluster] = j
  <2>1. j # k /\ dir'[j] = dir[j]
    BY <1>3, <1>4, <1>6
  <2>2. dir[j].first_cluster \in Clusters /\ e # j
    BY <1>1, <1>2, <1>6, <2>1 DEF DirEntries
  <2>3. owner[dir[j].first_cluster] = j
    BY <1>1, <1>6, <2>1, <2>2 DEF ChainsApart, e
  <2> QED BY <1>1, <1>5, <2>1, <2>2, <2>3
<1> QED BY <1>1, <1>2, <1>4, <1>5, <1>6, EndFatInv

\* A delete clears its directory entry.
LEMMA DeleteEntryFatInv ==
  ASSUME FatInv, DeleteEntry
  PROVE  FatInv'
<1> DEFINE e == op.existing_idx
<1> USE DEF Free, Lost, New, Dying
<1>1. /\ FatTypeOK /\ ChainsApart /\ CallInv
      /\ pc = "unlink" /\ pc' = "idle" /\ op' = NoOp /\ result' = 0 /\ failed' = failed
      /\ fat' = fat /\ data' = data /\ dir' = [dir EXCEPT ![e] = DeletedSlot]
      /\ owner' = owner /\ owner \in [Clusters -> Owners]
      /\ e \in Slots /\ Slots \subseteq Nat /\ dir \in [Slots -> DirEntries]
      /\ failed \in BOOLEAN /\ Lost \in Slots \cup {Lost}
  BY BpbAssumption DEF FatInv, DeleteEntry, Return, FatTypeOK, Calls, Slots, CallInv
<1>2. DeletedSlot \in DirEntries /\ DeletedSlot.st # "used"
  BY DEF DeletedSlot, EndSlot, DirEntries
<1> HIDE DEF e
<1>3. /\ dir' \in [Slots -> DirEntries] /\ dir'[e] = DeletedSlot
      /\ \A j \in Slots : j # e => dir'[j] = dir[j]
  BY <1>1, <1>2
<1>4. \A cl \in Clusters : owner'[cl] = IF owner[cl] = New THEN Lost ELSE owner[cl]
  BY <1>1 DEF CallInv
<1>5. ASSUME NEW j \in Slots, dir'[j].st = "used", dir'[j].first_cluster # 0
      PROVE  owner'[dir'[j].first_cluster] = j
  <2>1. j # e /\ dir'[j] = dir[j]
    BY <1>2, <1>3, <1>5
  <2> QED BY <1>1, <1>5, <2>1 DEF ChainsApart, e
<1> QED BY <1>1, <1>3, <1>4, <1>5, EndFatInv

\* A step that changes nothing but the last result.
LEMMA SameFatInv ==
  ASSUME FatInv, UNCHANGED <<fat, dir, data, pc, op, owner, failed>>,
         result' \in {0, -1}
  PROVE  FatInv'
BY DEF FatInv, FatTypeOK, FreeIffZero, ChainsApart, CallInv, BuildInv, FreeInv,
       Leads, EntryAt

LEMMA NoOpType ==
  /\ NoOp \in Calls /\ NoOp.iterations = 0 /\ NoOp.first_cluster = 0
  /\ NoOp.prev_cluster = 0 /\ NoOp.written = 0
BY DEF NoOp, Calls, Entry

\* The callers start with locals of the right type.
LEMMA CallFatInv ==
  ASSUME FatInv, FatCall
  PROVE  FatInv'
<1>1. PICK name \in FileNames :
        \/ \E content \in Contents : fat12_write_file(name, content)
        \/ fat12_delete_file(name)
        \/ DeleteMissing(name)
  BY DEF FatCall
<1> DEFINE n == name_to_83[name]
           e == Find(dir, n)
<1>2. n \in Names83 /\ e \in Slots \cup {-1} /\ (e # -1 => dir[e].st = "used")
  BY NamesAssumption, FindType
<1> HIDE DEF n, e
<1>3. ASSUME NEW kind \in {"write", "delete"}, NEW content \in Contents \cup {<< >>},
             NEW locals,
             locals = [NoOp EXCEPT !.kind = kind, !.name83 = n, !.content = content,
                                   !.existing_idx = e]
      PROVE  /\ locals \in Calls /\ locals.existing_idx = e /\ locals.iterations = 0
             /\ locals.first_cluster = 0 /\ locals.prev_cluster = 0
             /\ locals.written = 0
  BY <1>2, <1>3, NoOpType DEF Calls
<1>4. ASSUME NEW content \in Contents, fat12_write_file(name, content)
      PROVE  FatInv'
  <2> DEFINE locals == [NoOp EXCEPT !.kind = "write", !.name83 = n,
                                    !.content = content, !.existing_idx = e]
  <2>1. Start(locals, "alloc")
    BY <1>4 DEF fat12_write_file, n, e
  <2>2. /\ locals \in Calls /\ locals.existing_idx = e /\ locals.iterations = 0
        /\ locals.first_cluster = 0 /\ locals.prev_cluster = 0
        /\ locals.written = 0
    BY <1>3
  <2> HIDE DEF locals
  <2> QED BY <1>2, <2>1, <2>2, StartFatInv
<1>5. ASSUME fat12_delete_file(name) PROVE FatInv'
  <2> DEFINE locals == [NoOp EXCEPT !.kind = "delete", !.name83 = n, !.existing_idx = e]
  <2>1. Start(locals, "unlink") /\ e # -1
    BY <1>5 DEF fat12_delete_file, n, e
  <2>2. /\ locals \in Calls /\ locals.existing_idx = e /\ locals.iterations = 0
        /\ locals.first_cluster = 0 /\ locals.prev_cluster = 0
        /\ locals.written = 0
    BY <1>2, NoOpType DEF Calls
  <2> HIDE DEF locals
  <2> QED BY <1>2, <2>1, <2>2, StartFatInv
<1>6. ASSUME DeleteMissing(name) PROVE FatInv'
  BY <1>6, SameFatInv DEF DeleteMissing
<1> QED BY <1>1, <1>4, <1>5, <1>6

LEMMA NextFatInv ==
  ASSUME FatInv, [FatNext]_fatVars
  PROVE  FatInv'
<1>1. CASE FatCall
  BY <1>1, CallFatInv
<1>2. CASE fat12_free_chain
  BY <1>2, FreeFatInv
<1>3. CASE AllocCluster
  BY <1>3, AllocFatInv
<1>4. CASE DiskFull \/ DirectoryFull
  BY <1>4, FailFatInv
<1>5. CASE WriteEntry
  BY <1>5, WriteEntryFatInv
<1>6. CASE WriteHidden
  BY <1>6, WriteHiddenFatInv
<1>7. CASE DeleteEntry
  BY <1>7, DeleteEntryFatInv
<1>8. CASE UNCHANGED fatVars
  <2>1. result' = result /\ result \in {0, -1}
    BY <1>8 DEF fatVars, FatInv, FatTypeOK
  <2> QED BY <1>8, <2>1, SameFatInv DEF fatVars
<1> QED BY <1>1, <1>2, <1>3, <1>4, <1>5, <1>6, <1>7, <1>8 DEF FatNext, FatStep

-----------------------------------------------------------------------------
(* What follows for every behaviour.                                       *)

LEMMA FatInvariance == FatSpec => []FatInv
<1>1. FatInit => FatInv
  BY InitFatInv
<1>2. FatInv /\ [FatNext]_fatVars => FatInv'
  BY NextFatInv
<1> QED BY <1>1, <1>2, PTL DEF FatSpec

\* Table bytes stay bytes, directory entries name clusters of the volume, and
\* the locals of fat12.c's loops stay in range.
THEOREM FatTypeCorrect == FatSpec => []FatTypeOK
<1>1. FatInv => FatTypeOK
  BY DEF FatInv
<1> QED BY <1>1, FatInvariance, PTL

\* fat12_alloc_cluster hands out exactly the clusters no file holds.
THEOREM ZeroMeansFree == FatSpec => []FreeIffZero
<1>1. FatInv => FreeIffZero
  BY DEF FatInv
<1> QED BY <1>1, FatInvariance, PTL

\* No sequence of fat12_write_file and fat12_delete_file calls, failing ones
\* included, cross-links two files or runs a chain into free space.
THEOREM NoCrossLinks == FatSpec => []ChainsApart
<1>1. FatInv => ChainsApart
  BY DEF FatInv
<1> QED BY <1>1, FatInvariance, PTL

\* The steps of a call keep off every other file.
LEMMA StepSparesOthers ==
  ASSUME FatInv, FatNext
  PROVE  SparesOthers
<1> USE DEF Free, Lost, New, Dying
<1>1. /\ FatTypeOK /\ FreeIffZero /\ BuildInv /\ CallInv /\ FreeInv
      /\ Slots \subseteq Nat /\ op \in Calls /\ fat \in Tables
      /\ dir \in [Slots -> DirEntries] /\ data \in [Clusters -> Blocks]
  BY BpbAssumption DEF FatInv, FatTypeOK, Slots, Tables
<1>2. CASE fat' = fat /\ data' = data /\ dir' = dir
  BY <1>2 DEF SparesOthers
<1>3. CASE fat12_free_chain /\ fat' # fat
  <2> DEFINE c == op.cluster
  <2>1. /\ pc = "free" /\ fat' = fat12_write_fat(fat, c, 0) /\ Continues(c)
        /\ dir' = dir /\ data' = data
    BY <1>3 DEF fat12_free_chain
  <2>2. c \in Clusters /\ owner[c] \notin Slots
    BY <1>1, <2>1 DEF FreeInv
  <2>3. 0 \in Entry
    BY DEF Entry
  <2> HIDE DEF c
  <2>4. \A cl \in Clusters : cl # c => fat12_read_fat(fat', cl) = fat12_read_fat(fat, cl)
    BY <1>1, <2>1, <2>2, <2>3, WriteSetsOneEntry
  <2> QED BY <2>1, <2>2, <2>4 DEF SparesOthers
<1>4. CASE AllocCluster
  <2> DEFINE c == fat12_alloc_cluster(fat)
             p == op.prev_cluster
             f == IF p = 0 THEN fat ELSE fat12_write_fat(fat, p, c)
  <2>1. /\ pc = "alloc" /\ c # 0 /\ fat' = fat12_write_fat(f, c, 4095) /\ dir' = dir
        /\ data' = [data EXCEPT ![c] = op.content[op.written + 1]]
    BY <1>4 DEF AllocCluster, Link
  <2>2. c \in Clusters /\ fat12_read_fat(fat, c) = 0
    BY <2>1, AllocFindsFree
  <2>3. p # 0 => p \in Clusters /\ owner[p] = New
    BY <1>1, <2>1 DEF BuildInv, Calls
  <2> HIDE DEF c, p
  <2>4. owner[c] \notin Slots /\ c \in Entry /\ 4095 \in Entry
    BY <1>1, <2>2, Geometry DEF FreeIffZero, Entry
  <2>5. f \in Tables /\ \A d \in Clusters :
                          d # p => fat12_read_fat(f, d) = fat12_read_fat(fat, d)
    <3>1. CASE p = 0
      BY <1>1, <3>1
    <3>2. CASE p # 0
      <4>1. p \in Clusters /\ f = fat12_write_fat(fat, p, c)
        BY <2>3, <3>2
      <4> HIDE DEF f
      <4> QED BY <1>1, <2>4, <4>1, WriteSetsOneEntry
    <3> QED BY <3>1, <3>2
  <2> HIDE DEF f
  <2>6. \A d \in Clusters : d # c => fat12_read_fat(fat', d) = fat12_read_fat(f, d)
    BY <2>1, <2>2, <2>4, <2>5, WriteSetsOneEntry
  <2>7. ASSUME NEW cl \in Clusters, owner[cl] \in Slots
        PROVE  fat12_read_fat(fat', cl) = fat12_read_fat(fat, cl) /\ data'[cl] = data[cl]
    <3>1. cl # c /\ cl # p
      BY <1>1, <2>3, <2>4, <2>7, Geometry
    <3> QED BY <1>1, <2>1, <2>5, <2>6, <3>1
  <2> QED BY <2>1, <2>7 DEF SparesOthers
<1>5. CASE WriteEntry
  <2> DEFINE k == EntryIndex
             slot == FileSlot(op.name83, op.first_cluster, Len(op.content))
  <2>1. fat' = fat /\ data' = data /\ dir' = [dir EXCEPT ![k] = slot] /\ k # -1
    BY <1>5 DEF WriteEntry
  <2>2. k = op.existing_idx \/ dir[k].st # "used"
    BY <2>1, FindFreeType DEF EntryIndex
  <2> HIDE DEF k, slot
  <2> QED BY <1>1, <2>1, <2>2 DEF SparesOthers
<1>6. CASE DeleteEntry
  BY <1>1, <1>6 DEF DeleteEntry, SparesOthers
<1>7. ASSUME FatCall \/ DiskFull \/ DirectoryFull
      PROVE  fat' = fat /\ data' = data /\ dir' = dir
  BY <1>7 DEF FatCall, fat12_write_file, fat12_delete_file, DeleteMissing, Start,
              DiskFull, DirectoryFull, FailWrite
<1>8. fat12_free_chain => dir' = dir /\ data' = data
  BY DEF fat12_free_chain
<1>9. CASE WriteHidden
  <2> DEFINE k == EntryIndex
  <2>1. fat' = fat /\ data' = data /\ dir' = [dir EXCEPT ![k] = DeletedSlot] /\ k # -1
    BY <1>9 DEF WriteHidden
  <2>2. k = op.existing_idx \/ dir[k].st # "used"
    BY <2>1, FindFreeType DEF EntryIndex
  <2> HIDE DEF k
  <2> QED BY <1>1, <2>1, <2>2 DEF SparesOthers
<1> QED BY <1>2, <1>3, <1>4, <1>5, <1>6, <1>7, <1>8, <1>9 DEF FatNext, FatStep

\* No step of a write or a delete touches a table entry, a block or the
\* directory entry of a file it is not about.
THEOREM OthersUntouched == FatSpec => NoStrayWrites
<1>1. FatInv /\ [FatNext]_fatVars => [SparesOthers]_fatVars
  BY StepSparesOthers
<1> QED BY <1>1, FatInvariance, PTL DEF FatSpec, NoStrayWrites

-----------------------------------------------------------------------------
(* The root directory. Scans stop at the first entry that was never used,  *)
(* so nothing may lie behind one; and the slot a call found when it began  *)
(* is still the one its name is found in when the call ends.               *)

EndsLast ==
  \A i, j \in Slots : i < j /\ dir[i].st = "end" => dir[j].st = "end"

NamesUnique ==
  \A i, j \in Slots :
    dir[i].st = "used" /\ dir[j].st = "used" /\ dir[i].name = dir[j].name => i = j

\* A call under a name of Hidden never finds a file.
HiddenUnseen == \A i \in Slots : dir[i].st = "used" => dir[i].name \notin Hidden

FoundAtStart == pc # "idle" => op.existing_idx = Find(dir, op.name83)

DirInv == EndsLast /\ NamesUnique /\ HiddenUnseen /\ FoundAtStart

LEMMA SlotsNat == Slots \subseteq Nat /\ -1 \notin Slots
BY BpbAssumption DEF Slots

\* In a directory without a gap the scan sees every file.
LEMMA AllScanned ==
  ASSUME EndsLast, NEW i \in Slots
  PROVE  Scanned(dir, i) <=> dir[i].st = "used"
<1>1. \A j \in 0 .. i : j \in Slots /\ (j = i \/ j < i)
  BY BpbAssumption DEF Slots
<1>2. ASSUME dir[i].st = "used", NEW j \in 0 .. i PROVE dir[j].st # "end"
  BY <1>1, <1>2 DEF EndsLast
<1> QED BY <1>2 DEF Scanned

\* Find returns the slot of the file of that name, if there is one.
LEMMA FindSpec ==
  ASSUME EndsLast, NEW n
  PROVE  \/ /\ Find(dir, n) \in Slots /\ dir[Find(dir, n)].st = "used"
            /\ dir[Find(dir, n)].name = n
         \/ /\ Find(dir, n) = -1
            /\ \A i \in Slots : ~(dir[i].st = "used" /\ dir[i].name = n)
<1> DEFINE S == {i \in Slots : Scanned(dir, i) /\ dir[i].name = n}
<1>1. S \subseteq Nat
  BY SlotsNat
<1>2. Find(dir, n) = LeastOr(S, -1)
  BY DEF Find
<1>3. Find(dir, n) \in S \/ (S = {} /\ Find(dir, n) = -1)
  <2>1. S = {} => LeastOr(S, -1) = -1
    BY DEF LeastOr
  <2>2. S # {} => LeastOr(S, -1) \in S
    <3> HIDE DEF S
    <3> QED BY <1>1, LeastOrType
  <2> HIDE DEF S
  <2> QED BY <1>2, <2>1, <2>2
<1>4. \A i \in Slots : i \in S <=> dir[i].st = "used" /\ dir[i].name = n
  BY AllScanned
<1>5. S \subseteq Slots
  OBVIOUS
<1> HIDE DEF S
<1> QED BY <1>3, <1>4, <1>5

\* A file is found in its own slot.
LEMMA FindIt ==
  ASSUME EndsLast, NamesUnique, NEW i \in Slots, dir[i].st = "used"
  PROVE  Find(dir, dir[i].name) = i
BY FindSpec DEF NamesUnique

\* The slot a new file gets is the first that holds none.
LEMMA FindFreeSpec ==
  \/ FindFree = -1 /\ \A i \in Slots : dir[i].st = "used"
  \/ /\ FindFree \in Slots /\ dir[FindFree].st # "used"
     /\ \A i \in Slots : i < FindFree => dir[i].st = "used"
<1> DEFINE S == {i \in Slots : dir[i].st # "used"}
<1>1. S \subseteq Nat /\ S \subseteq Slots
  BY SlotsNat
<1>2. CASE S = {}
  BY <1>2 DEF FindFree, LeastOr
<1>3. CASE S # {}
  <2>1. \E i \in S : \A j \in S : i <= j
    <3> HIDE DEF S
    <3> QED BY <1>1, <1>3, HasLeast
  <2>2. FindFree = Least(S)
    BY <1>3 DEF FindFree, LeastOr
  <2>3. Least(S) \in S /\ \A j \in S : Least(S) <= j
    BY <2>1 DEF Least
  <2> HIDE DEF S
  <2>4. FindFree \in S /\ \A j \in S : FindFree <= j
    BY <2>2, <2>3
  <2>5. \A i \in Slots : i < FindFree => i \notin S
    BY <1>1, <2>4, SlotsNat
  <2> USE DEF S
  <2> QED BY <2>4, <2>5
<1> QED BY <1>2, <1>3

LEMMA InitDirInv == FatInit => DirInv
BY DEF FatInit, FreshDir, EndSlot, DirInv, EndsLast, NamesUnique, HiddenUnseen, FoundAtStart

\* The directory changes only when a call ends.
LEMMA SameDirInv ==
  ASSUME DirInv, dir' = dir,
         \/ pc' = "idle"
         \/ pc # "idle" /\ op'.name83 = op.name83 /\ op'.existing_idx = op.existing_idx
         \/ op'.existing_idx = Find(dir, op'.name83)
  PROVE  DirInv'
<1>1. EndsLast' /\ NamesUnique' /\ HiddenUnseen'
  BY DEF DirInv, EndsLast, NamesUnique, HiddenUnseen
<1>2. FoundAtStart'
  BY DEF DirInv, FoundAtStart
<1> QED BY <1>1, <1>2 DEF DirInv

LEMMA WriteEntryDirInv ==
  ASSUME FatInv, DirInv, WriteEntry
  PROVE  DirInv'
<1> DEFINE k == EntryIndex
           slot == FileSlot(op.name83, op.first_cluster, Len(op.content))
<1>1. /\ pc = "alloc" /\ pc' = "idle" /\ k # -1
      /\ dir' = [dir EXCEPT ![k] = slot] /\ dir \in [Slots -> DirEntries]
      /\ EndsLast /\ NamesUnique /\ HiddenUnseen /\ op.name83 \notin Hidden
      /\ op.existing_idx = Find(dir, op.name83)
  BY DEF WriteEntry, Return, FatInv, FatTypeOK, DirInv, FoundAtStart
<1>2. \/ /\ k \in Slots /\ dir[k].st = "used" /\ dir[k].name = op.name83
      \/ /\ k \in Slots /\ dir[k].st # "used"
         /\ \A i \in Slots : i < k => dir[i].st = "used"
         /\ \A i \in Slots : ~(dir[i].st = "used" /\ dir[i].name = op.name83)
  <2>1. CASE op.existing_idx = -1
    BY <1>1, <2>1, FindSpec, FindFreeSpec, SlotsNat DEF EntryIndex
  <2>2. CASE op.existing_idx # -1
    BY <1>1, <2>2, FindSpec DEF EntryIndex
  <2> QED BY <2>1, <2>2
<1>3. slot.st = "used" /\ slot.name = op.name83
  BY DEF FileSlot
<1> HIDE DEF k, slot
<1>4. dir'[k] = slot /\ \A i \in Slots : i # k => dir'[i] = dir[i]
  BY <1>1, <1>2
<1>5. EndsLast'
  <2>1. ASSUME NEW i \in Slots, NEW j \in Slots, i < j, dir'[i].st = "end"
        PROVE  dir'[j].st = "end"
    <3>1. i # k /\ dir[i].st = "end"
      BY <1>3, <1>4, <2>1
    <3>2. dir[j].st = "end"
      BY <1>1, <2>1, <3>1 DEF EndsLast
    <3>3. j # k
      BY <1>2, <2>1, <3>1, <3>2
    <3> QED BY <1>4, <3>2, <3>3
  <2> QED BY <2>1 DEF EndsLast
<1>6. NamesUnique'
  <2>1. \A i \in Slots : i # k /\ dir[i].st = "used" => dir[i].name # op.name83
    BY <1>1, <1>2 DEF NamesUnique
  <2>2. ASSUME NEW i \in Slots, NEW j \in Slots, dir'[i].st = "used",
               dir'[j].st = "used", dir'[i].name = dir'[j].name
        PROVE  i = j
    BY <1>1, <1>3, <1>4, <2>1, <2>2 DEF NamesUnique
  <2> QED BY <2>2 DEF NamesUnique
<1>7. FoundAtStart'
  BY <1>1 DEF FoundAtStart
<1>8. HiddenUnseen'
  BY <1>1, <1>3, <1>4 DEF HiddenUnseen
<1> QED BY <1>5, <1>6, <1>7, <1>8 DEF DirInv

\* No file has such a name, so the entry is one that held none.
LEMMA HiddenPlace ==
  ASSUME DirInv, WriteHidden
  PROVE  /\ op.existing_idx = -1 /\ EntryIndex \in Slots
         /\ dir[EntryIndex].st # "used"
         /\ \A i \in Slots : i < EntryIndex => dir[i].st = "used"
<1>1. /\ EndsLast /\ HiddenUnseen /\ op.existing_idx = Find(dir, op.name83)
      /\ op.name83 \in Hidden /\ EntryIndex # -1
  BY DEF WriteHidden, DirInv, FoundAtStart
<1>2. op.existing_idx = -1
  BY <1>1, FindSpec DEF HiddenUnseen
<1> QED BY <1>1, <1>2, FindFreeSpec DEF EntryIndex

LEMMA WriteHiddenDirInv ==
  ASSUME FatInv, DirInv, WriteHidden
  PROVE  DirInv'
<1> DEFINE k == EntryIndex
<1>1. /\ pc' = "idle" /\ dir' = [dir EXCEPT ![k] = DeletedSlot]
      /\ dir \in [Slots -> DirEntries] /\ EndsLast /\ NamesUnique /\ HiddenUnseen
  BY DEF WriteHidden, Return, FatInv, FatTypeOK, DirInv
<1>2. k \in Slots /\ \A i \in Slots : i < k => dir[i].st = "used"
  BY HiddenPlace
<1>3. DeletedSlot.st = "deleted"
  BY DEF DeletedSlot, EndSlot
<1> HIDE DEF k
<1>4. dir'[k] = DeletedSlot /\ \A i \in Slots : i # k => dir'[i] = dir[i]
  BY <1>1, <1>2
<1>5. EndsLast'
  <2>1. ASSUME NEW i \in Slots, NEW j \in Slots, i < j, dir'[i].st = "end"
        PROVE  dir'[j].st = "end"
    <3>1. i # k /\ dir[i].st = "end"
      BY <1>3, <1>4, <2>1
    <3>2. dir[j].st = "end"
      BY <1>1, <2>1, <3>1 DEF EndsLast
    <3>3. j # k
      BY <1>2, <2>1, <3>1
    <3> QED BY <1>4, <3>2, <3>3
  <2> QED BY <2>1 DEF EndsLast
<1>6. NamesUnique' /\ HiddenUnseen'
  BY <1>1, <1>3, <1>4 DEF NamesUnique, HiddenUnseen
<1>7. FoundAtStart'
  BY <1>1 DEF FoundAtStart
<1> QED BY <1>5, <1>6, <1>7 DEF DirInv

LEMMA DeleteEntryDirInv ==
  ASSUME FatInv, DirInv, DeleteEntry
  PROVE  DirInv'
<1> DEFINE e == op.existing_idx
<1>1. /\ pc = "unlink" /\ pc' = "idle" /\ e # -1
      /\ dir' = [dir EXCEPT ![e] = DeletedSlot] /\ dir \in [Slots -> DirEntries]
      /\ EndsLast /\ NamesUnique /\ HiddenUnseen /\ e = Find(dir, op.name83)
  BY DEF DeleteEntry, Return, FatInv, FatTypeOK, CallInv, DirInv, FoundAtStart
<1>2. e \in Slots /\ dir[e].st = "used"
  BY <1>1, FindSpec
<1>3. DeletedSlot.st = "deleted"
  BY DEF DeletedSlot, EndSlot
<1> HIDE DEF e
<1>4. dir'[e] = DeletedSlot /\ \A i \in Slots : i # e => dir'[i] = dir[i]
  BY <1>1, <1>2
<1>5. EndsLast'
  BY <1>1, <1>2, <1>3, <1>4 DEF EndsLast
<1>6. NamesUnique' /\ HiddenUnseen'
  BY <1>1, <1>3, <1>4 DEF NamesUnique, HiddenUnseen
<1>7. FoundAtStart'
  BY <1>1 DEF FoundAtStart
<1> QED BY <1>5, <1>6, <1>7 DEF DirInv

\* What a call begins with.
Beginning(locals, kind, n, content) ==
  /\ locals \in Calls
  /\ locals.kind = kind /\ locals.name83 = n /\ locals.content = content
  /\ locals.existing_idx = Find(dir, n)
  /\ locals.iterations = 0 /\ locals.first_cluster = 0 /\ locals.prev_cluster = 0
  /\ locals.written = 0

LEMMA CallBegins ==
  ASSUME FatCall
  PROVE  \E n \in Names83 :
           \/ /\ Find(dir, n) = -1 /\ pc = "idle" /\ result' = -1
              /\ UNCHANGED <<fat, dir, data, pc, op, owner, old, failed>>
           \/ \E content \in Contents : \E locals :
                Beginning(locals, "write", n, content) /\ Start(locals, "alloc")
           \/ \E locals : /\ Beginning(locals, "delete", n, << >>)
                          /\ Find(dir, n) # -1 /\ Start(locals, "unlink")
<1>1. PICK name \in FileNames :
        \/ \E content \in Contents : fat12_write_file(name, content)
        \/ fat12_delete_file(name)
        \/ DeleteMissing(name)
  BY DEF FatCall
<1> DEFINE n == name_to_83[name]
           e == Find(dir, n)
<1>2. n \in Names83 /\ e \in Slots \cup {-1}
  BY NamesAssumption, FindType
<1>3. CASE DeleteMissing(name)
  BY <1>2, <1>3 DEF DeleteMissing
<1>4. ASSUME NEW content \in Contents, fat12_write_file(name, content)
      PROVE  \E locals : Beginning(locals, "write", n, content) /\ Start(locals, "alloc")
  <2> DEFINE locals == [NoOp EXCEPT !.kind = "write", !.name83 = n, !.content = content,
                                    !.existing_idx = e]
  <2>1. Start(locals, "alloc")
    BY <1>4 DEF fat12_write_file
  <2> HIDE DEF n, e
  <2>2. Beginning(locals, "write", n, content)
    BY <1>2, NoOpType DEF Calls, Beginning, e
  <2> QED BY <2>1, <2>2
<1>5. ASSUME fat12_delete_file(name)
      PROVE  \E locals : /\ Beginning(locals, "delete", n, << >>)
                         /\ e # -1 /\ Start(locals, "unlink")
  <2> DEFINE locals == [NoOp EXCEPT !.kind = "delete", !.name83 = n, !.existing_idx = e]
  <2>1. Start(locals, "unlink") /\ e # -1
    BY <1>5 DEF fat12_delete_file
  <2>2. NoOp.content = << >>
    BY DEF NoOp
  <2> HIDE DEF n, e
  <2>3. Beginning(locals, "delete", n, << >>)
    BY <1>2, <2>2, NoOpType DEF Calls, Beginning, e
  <2> QED BY <2>1, <2>3
<1> QED BY <1>1, <1>2, <1>3, <1>4, <1>5

LEMMA NextDirInv ==
  ASSUME FatInv, DirInv, [FatNext]_fatVars
  PROVE  DirInv'
<1>1. CASE FatCall
  <2>1. dir' = dir /\ ((op' = op /\ pc' = "idle") \/ op'.existing_idx = Find(dir, op'.name83))
    <3>1. PICK n \in Names83 :
           \/ /\ Find(dir, n) = -1 /\ pc = "idle" /\ result' = -1
              /\ UNCHANGED <<fat, dir, data, pc, op, owner, old, failed>>
           \/ \E content \in Contents : \E locals :
                Beginning(locals, "write", n, content) /\ Start(locals, "alloc")
           \/ \E locals : /\ Beginning(locals, "delete", n, << >>)
                          /\ Find(dir, n) # -1 /\ Start(locals, "unlink")
      BY <1>1, CallBegins
    <3>2. ASSUME NEW locals, NEW kind, NEW content, NEW next,
                 Beginning(locals, kind, n, content), Start(locals, next)
          PROVE  dir' = dir /\ op'.existing_idx = Find(dir, op'.name83)
      BY <3>2 DEF Beginning, Start, Calls
    <3> QED BY <3>1, <3>2
  <2> QED BY <2>1, SameDirInv
<1>2. CASE fat12_free_chain
  <2>1. op \in Calls
    BY DEF FatInv, FatTypeOK
  <2>2. /\ dir' = dir /\ pc # "idle"
        /\ op'.name83 = op.name83 /\ op'.existing_idx = op.existing_idx
    BY <1>2, <2>1 DEF fat12_free_chain, Calls
  <2> QED BY <2>2, SameDirInv
<1>3. CASE AllocCluster
  <2>1. op \in Calls
    BY DEF FatInv, FatTypeOK
  <2>2. /\ dir' = dir /\ pc # "idle"
        /\ op'.name83 = op.name83 /\ op'.existing_idx = op.existing_idx
    BY <1>3, <2>1 DEF AllocCluster, Calls
  <2> QED BY <2>2, SameDirInv
<1>4. CASE DiskFull \/ DirectoryFull
  BY <1>4, SameDirInv DEF DiskFull, DirectoryFull, FailWrite, Return
<1>5. CASE WriteEntry
  BY <1>5, WriteEntryDirInv
<1>6. CASE WriteHidden
  BY <1>6, WriteHiddenDirInv
<1>7. CASE DeleteEntry
  BY <1>7, DeleteEntryDirInv
<1>8. CASE UNCHANGED fatVars
  BY <1>8, SameDirInv DEF fatVars
<1> QED BY <1>1, <1>2, <1>3, <1>4, <1>5, <1>6, <1>7, <1>8 DEF FatNext, FatStep

LEMMA DirInvariance == FatSpec => []DirInv
<1>1. FatInit => DirInv
  BY InitDirInv
<1>2. FatInv /\ DirInv /\ [FatNext]_fatVars => DirInv'
  BY NextDirInv
<1> QED BY <1>1, <1>2, FatInvariance, PTL DEF FatSpec

\* No two directory entries name the same file and none is behind the entry
\* at which fat12.c's scans stop, whatever is created, overwritten or deleted.
THEOREM DirectoryStaysSound == FatSpec => []DirectorySound
<1>1. ASSUME DirInv PROVE DirectorySound
  BY <1>1, AllScanned DEF DirInv, NamesUnique, DirectorySound
<1> QED BY <1>1, DirInvariance, PTL

-----------------------------------------------------------------------------
(* Reading a chain.                                                        *)

\* The reading loop follows the table from the entry's first cluster; what
\* it reads behind the end of the chain does not matter.
LEMMA WalkSpec ==
  ASSUME NEW v, v.fat \in Tables, NEW i, NEW first \in Entry, v.dir[i].first_cluster = first
  PROVE  /\ Walk(v, i) \in [0 .. max_clusters -> Entry]
         /\ Walk(v, i)[0] = first
         /\ \A k \in 1 .. max_clusters :
              Walk(v, i)[k] = IF Walk(v, i)[k - 1] \in Clusters
                              THEN fat12_read_fat(v.fat, Walk(v, i)[k - 1]) ELSE 0
<1> DEFINE Follow(c) == IF c \in Clusters THEN fat12_read_fat(v.fat, c) ELSE 0
           step == [p \in Nat \X Entry |->
                      IF p[2] \in Clusters THEN fat12_read_fat(v.fat, p[2]) ELSE 0]
           Body(w) == [k \in 0 .. max_clusters |->
                         IF k = 0 THEN first
                         ELSE IF w[k - 1] \in Clusters
                              THEN fat12_read_fat(v.fat, w[k - 1]) ELSE 0]
<1> HIDE DEF Follow, step, Body
<1>1. 0 \in Entry
  BY DEF Entry
<1>2. \A c : Follow(c) \in Entry
  BY <1>1, ReadType DEF Follow
<1>3. \A p \in Nat \X Entry : step[p] = Follow(p[2])
  BY DEF step, Follow
<1>4. IsUpdate(step, Entry)
  BY <1>2, <1>3 DEF IsUpdate
<1>5. max_clusters \in Nat /\ first \in Entry
  BY Geometry
<1>6. PICK f \in [0 .. max_clusters -> Entry] :
        f[0] = first /\ \A k \in 1 .. max_clusters : f[k] = step[<<k, f[k - 1]>>]
  <2>1. \E f : IsCourse(f, Entry, first, step, max_clusters)
    BY <1>4, <1>5, Recursion
  <2> QED BY <2>1 DEF IsCourse
<1>7. \A k \in 1 .. max_clusters : f[k] = Follow(f[k - 1])
  <2>1. ASSUME NEW k \in 1 .. max_clusters PROVE f[k] = Follow(f[k - 1])
    <3>1. k - 1 \in 0 .. max_clusters /\ k \in Nat
      BY <1>5
    <3>2. <<k, f[k - 1]>> \in Nat \X Entry
      BY <1>6, <3>1
    <3> QED BY <1>3, <1>6, <3>2
  <2> QED BY <2>1
<1>8. f = Body(f)
  BY <1>6, <1>7 DEF Body, Follow
<1>9. Walk(v, i) = Body(Walk(v, i))
  <2>1. \E w : w = Body(w)
    BY <1>8
  <2>2. Walk(v, i) = CHOOSE w : w = Body(w)
    BY DEF Walk, Body
  <2> QED BY <2>1, <2>2
<1> DEFINE w == Walk(v, i)
<1> HIDE DEF w
<1>10. /\ w = [k \in 0 .. max_clusters |-> w[k]] /\ w[0] = first
       /\ \A k \in 1 .. max_clusters : w[k] = Follow(w[k - 1])
  <2>1. w = Body(w)
    BY <1>9 DEF w
  <2>2. w = [k \in 0 .. max_clusters |-> w[k]]
    BY <2>1 DEF Body
  <2>3. \A k \in 0 .. max_clusters : w[k] = Body(w)[k]
    BY <2>1
  <2>4. w[0] = first
    BY <1>5, <2>3 DEF Body
  <2>5. ASSUME NEW k \in 1 .. max_clusters PROVE w[k] = Follow(w[k - 1])
    <3>1. k \in 0 .. max_clusters /\ k # 0
      BY <1>5
    <3> QED BY <2>3, <3>1 DEF Body, Follow
  <2> QED BY <2>2, <2>4, <2>5
<1>11. \A k \in 0 .. max_clusters : w[k] \in Entry
  <2>1. \A k \in 1 .. max_clusters : w[k] \in Entry
    BY <1>2, <1>10
  <2> QED BY <1>5, <1>10, <2>1
<1>12. w \in [0 .. max_clusters -> Entry]
  BY <1>10, <1>11
<1> QED BY <1>10, <1>12 DEF w, Follow

\* n clusters in ascending order, ...
Rising(c, n) ==
  c \in [1 .. n -> Clusters] /\ \A k \in 1 .. n - 1 : c[k] < c[k + 1]

\* ... each leading to the next in table f; first is where a reader starts.
Run(f, c, n) ==
  Rising(c, n) /\ \A k \in 1 .. n - 1 : fat12_read_fat(f, c[k]) = c[k + 1]

StartsAt(c, n, first) == IF n = 0 THEN first = 0 ELSE c[1] = first

LEMMA RisingGap ==
  ASSUME NEW n \in Nat, NEW c, Rising(c, n)
  PROVE  \A d \in Nat : \A j \in 1 .. n : j + d <= n => c[j] + d <= c[j + d]
<1> DEFINE S == {d \in Nat : \A j \in 1 .. n : j + d <= n => c[j] + d <= c[j + d]}
<1>1. \A j \in 1 .. n : c[j] \in Nat
  BY Geometry DEF Rising
<1>2. 0 \in S
  BY <1>1
<1>3. ASSUME NEW d \in Nat, d \in S PROVE d + 1 \in S
  <2>1. ASSUME NEW j \in 1 .. n, j + (d + 1) <= n
        PROVE  c[j] + (d + 1) <= c[j + (d + 1)]
    <3>1. c[j] + d <= c[j + d]
      BY <1>3, <2>1
    <3>2. j + d \in 1 .. n - 1 /\ j + d \in 1 .. n /\ (j + d) + 1 = j + (d + 1)
          /\ j + (d + 1) \in 1 .. n
      BY <2>1
    <3>3. c[j + d] < c[j + (d + 1)]
      BY <3>2 DEF Rising
    <3>4. c[j] \in Nat /\ c[j + d] \in Nat /\ c[j + (d + 1)] \in Nat
      BY <1>1, <3>2
    <3> QED BY <3>1, <3>3, <3>4
  <2> QED BY <2>1
<1>4. Nat \subseteq S
  <2> HIDE DEF S
  <2> QED BY <1>2, <1>3, InductionOnSets
<1> QED BY <1>4

\* Distinct clusters, no more of them than the volume has.
LEMMA RisingBound ==
  ASSUME NEW n \in Nat, NEW c, Rising(c, n)
  PROVE  /\ n <= max_clusters
         /\ \A j, k \in 1 .. n : j < k => c[j] < c[k]
         /\ \A j, k \in 1 .. n : c[j] = c[k] => j = k
<1>1. \A j \in 1 .. n : c[j] \in Nat /\ c[j] >= 2 /\ c[j] <= max_clusters + 1
  BY Geometry DEF Rising, Clusters
<1>2. ASSUME NEW j \in 1 .. n, NEW k \in 1 .. n, j < k PROVE c[j] < c[k]
  <2>1. k - j \in Nat /\ k - j > 0 /\ j + (k - j) = k /\ k <= n
    BY <1>2
  <2>2. c[j] + (k - j) <= c[k]
    BY <2>1, RisingGap
  <2> QED BY <1>1, <2>1, <2>2
<1>3. n <= max_clusters
  <2>1. CASE n = 0
    BY <2>1, Geometry
  <2>2. CASE n # 0
    <3>1. 1 \in 1 .. n /\ n \in 1 .. n /\ n - 1 \in Nat /\ 1 + (n - 1) = n /\ n <= n
      BY <2>2
    <3>2. c[1] + (n - 1) <= c[n]
      BY <3>1, RisingGap
    <3>3. c[1] \in Nat /\ c[1] >= 2 /\ c[n] \in Nat /\ c[n] <= max_clusters + 1
      BY <1>1, <3>1
    <3> QED BY <3>2, <3>3, Geometry
  <2> QED BY <2>1, <2>2
<1>4. ASSUME NEW j \in 1 .. n, NEW k \in 1 .. n, c[j] = c[k] PROVE j = k
  <2>1. c[j] \in Nat /\ c[k] \in Nat
    BY <1>1
  <2>2. ~(j < k) /\ ~(k < j)
    BY <1>2, <1>4, <2>1
  <2> QED BY <2>2
<1> QED BY <1>2, <1>3, <1>4

LEMMA LeastIs ==
  ASSUME NEW S, S \subseteq Nat, NEW m \in S, \A j \in S : m <= j
  PROVE  Least(S) = m
<1>1. Least(S) \in S /\ \A j \in S : Least(S) <= j
  BY DEF Least
<1>2. Least(S) <= m /\ m <= Least(S) /\ m \in Nat /\ Least(S) \in Nat
  BY <1>1
<1> QED BY <1>2

\* Entry i of volume v says that its file has n blocks, and the table agrees.
HasRun(v, i, c, n, first) ==
  /\ v.fat \in Tables /\ first \in Entry
  /\ v.dir[i].first_cluster = first /\ v.dir[i].size = n
  /\ Run(v.fat, c, n) /\ StartsAt(c, n, first)

\* Such a file is read from that run.
LEMMA ReadRun ==
  ASSUME NEW v, NEW i, NEW c, NEW n \in Nat, NEW first, HasRun(v, i, c, n, first)
  PROVE  /\ \A k \in 1 .. n : Walk(v, i)[k - 1] = c[k]
         /\ Reads(v, i) = n
         /\ ReadEntry(v, i) = [k \in 1 .. n |-> v.data[c[k]]]
<1> USE DEF HasRun
<1> DEFINE w == Walk(v, i)
           S == {k \in Nat : k < n => w[k] = c[k + 1]}
<1>1. /\ w \in [0 .. max_clusters -> Entry] /\ w[0] = first
      /\ \A k \in 1 .. max_clusters :
           w[k] = IF w[k - 1] \in Clusters THEN fat12_read_fat(v.fat, w[k - 1]) ELSE 0
  BY WalkSpec
<1> HIDE DEF w
<1>2. n <= max_clusters /\ max_clusters \in Nat /\ Rising(c, n)
      /\ Run(v.fat, c, n) /\ v.dir[i].size = n
  BY RisingBound, Geometry DEF Run
<1> HIDE DEF HasRun
<1>3. \A k \in 1 .. n : c[k] \in Clusters
  BY <1>2 DEF Rising
<1>4. 0 \in S
  BY <1>1 DEF StartsAt, HasRun
<1>5. ASSUME NEW k \in Nat, k \in S PROVE k + 1 \in S
  <2> SUFFICES ASSUME k + 1 < n PROVE w[k + 1] = c[(k + 1) + 1]
    OBVIOUS
  <2>1. k < n /\ k + 1 \in 1 .. n - 1 /\ k + 1 \in 1 .. max_clusters /\ k + 1 \in 1 .. n
        /\ (k + 1) - 1 = k
    BY <1>2
  <2>2. w[k] = c[k + 1] /\ c[k + 1] \in Clusters
    BY <1>3, <1>5, <2>1
  <2>3. w[k + 1] = fat12_read_fat(v.fat, c[k + 1])
    BY <1>1, <2>1, <2>2
  <2> QED BY <1>2, <2>1, <2>3 DEF Run
<1>6. Nat \subseteq S
  <2> HIDE DEF S
  <2> QED BY <1>4, <1>5, InductionOnSets
<1>7. ASSUME NEW k \in 1 .. n PROVE w[k - 1] = c[k]
  <2>1. k - 1 \in Nat /\ k - 1 < n /\ (k - 1) + 1 = k
    OBVIOUS
  <2> QED BY <1>6, <2>1
<1> HIDE DEF S
<1> DEFINE Stops == {k \in 0 .. max_clusters : k = n \/ k = max_clusters \/ ~Continues(w[k])}
<1>8. n \in Stops
  BY <1>2
<1>9. ASSUME NEW k \in Stops PROVE n <= k
  <2> SUFFICES ASSUME k < n PROVE FALSE
    BY <1>2
  <2>1. k \in 0 .. max_clusters /\ k + 1 \in 1 .. n /\ (k + 1) - 1 = k /\ k # n /\ k # max_clusters
    BY <1>2
  <2>2. w[k] = c[k + 1] /\ c[k + 1] \in Clusters
    BY <1>3, <1>7, <2>1
  <2>3. Continues(w[k])
    BY <2>2, Geometry DEF Continues
  <2> QED BY <2>1, <2>3
<1>10. Stops \subseteq Nat
  BY <1>2
<1>11. Reads(v, i) = Least(Stops)
  BY <1>2 DEF Reads, w
<1> HIDE DEF Stops
<1>12. Reads(v, i) = n
  BY <1>8, <1>9, <1>10, <1>11, LeastIs
<1>13. ReadEntry(v, i) = [k \in 1 .. n |-> v.data[w[k - 1]]]
  BY <1>12 DEF ReadEntry, w
<1>14. ReadEntry(v, i) = [k \in 1 .. n |-> v.data[c[k]]]
  BY <1>7, <1>13
<1> QED BY <1>7, <1>12, <1>14 DEF w

-----------------------------------------------------------------------------
(* Every file has a chain. A call takes its file's old chain apart and     *)
(* builds a new one; what a failed write leaves is again a chain of the    *)
(* length the directory says, since clusters are handed out in ascending   *)
(* order and a write fails only when none is left: everything the old file *)
(* had, from its first cluster on, is then in the new chain.               *)

Ascending == \A cl \in Clusters : Continues(EntryAt(cl)) => cl < EntryAt(cl)

\* All of o's clusters are among the n.
Exactly(c, n, o) == \A cl \in Clusters : owner[cl] = o => \E k \in 1 .. n : c[k] = cl

\* The file in slot i lies in the clusters c.
LiesIn(i, c) ==
  LET n == dir[i].size
  IN  /\ Run(fat, c, n) /\ StartsAt(c, n, dir[i].first_cluster)
      /\ \A k \in 1 .. n : owner[c[k]] = i
      /\ ~failed => Exactly(c, n, i)

FilesInv ==
  \A i \in Slots : dir[i].st = "used" /\ op.existing_idx # i => \E c : LiesIn(i, c)

\* Where the running call's old file lay: the freeing loop has done the
\* first op.iterations clusters.
LayIn(c) ==
  LET n == dir[op.existing_idx].size
  IN  /\ Rising(c, n) /\ StartsAt(c, n, dir[op.existing_idx].first_cluster)
      /\ pc = "free" =>
           /\ op.iterations < n => op.cluster = c[op.iterations + 1]
           /\ \A k \in 1 .. n :
                IF k <= op.iterations THEN owner[c[k]] = Free
                ELSE owner[c[k]] = Dying /\ (k < n => EntryAt(c[k]) = c[k + 1])
           /\ ~failed => Exactly(c, n, Dying)
      /\ pc = "alloc" => \A k \in 1 .. n : owner[c[k]] \in {Free, New}

OldInv == pc # "idle" /\ op.existing_idx # -1 => \E c : LayIn(c)

\* The chain under construction; no cluster below its last one is free.
BuiltIn(c) ==
  LET n == op.written
  IN  /\ Run(fat, c, n) /\ StartsAt(c, n, op.first_cluster)
      /\ op.prev_cluster = IF n = 0 THEN 0 ELSE c[n]
      /\ \A k \in 1 .. n : owner[c[k]] = New /\ data[c[k]] = op.content[k]
      /\ Exactly(c, n, New)
      /\ \A cl \in Clusters : cl <= op.prev_cluster => owner[cl] # Free

NewInv == pc = "alloc" => \E c : BuiltIn(c)

\* Only files own clusters, and the running call's has given its own up.
OwnersInv ==
  \A cl \in Clusters : owner[cl] \in Slots =>
    dir[owner[cl]].st = "used" /\ owner[cl] # op.existing_idx

NoLost == ~failed => \A cl \in Clusters : owner[cl] # Lost

\* What the call is, and what its file held.
CallIs ==
  pc # "idle" =>
    /\ op.name83 \in Names83
    /\ op.kind \in {"write", "delete"} /\ (op.kind = "write" => op.content \in Contents)
    /\ pc = "alloc" => op.kind = "write"
    /\ pc = "unlink" => op.kind = "delete"
    /\ IF op.existing_idx = -1 THEN old = NoFile
       ELSE old \in Seq(Blocks) /\ Len(old) = dir[op.existing_idx].size

StoreInv ==
  /\ FatInv /\ DirInv /\ Ascending /\ FilesInv /\ OldInv /\ NewInv
  /\ OwnersInv /\ NoLost /\ CallIs

LEMMA InitStoreInv == FatInit => StoreInv
<1> SUFFICES ASSUME FatInit PROVE StoreInv
  OBVIOUS
<1>1. FatInv /\ DirInv
  BY InitFatInv, InitDirInv
<1>2. pc = "idle" /\ \A i \in Slots : dir[i].st = "end"
  BY DEF FatInit, FreshDir, EndSlot
<1>3. \A cl \in Clusters : owner[cl] = Free
  BY DEF FatInit
<1>4. Ascending
  <2>1. \A cl \in Clusters : EntryAt(cl) = 0
    BY <1>1, <1>3 DEF FatInv, FreeIffZero, EntryAt
  <2> QED BY <2>1 DEF Ascending, Continues
<1>5. FilesInv /\ OldInv /\ NewInv /\ OwnersInv /\ NoLost /\ CallIs
  BY <1>2, <1>3, SlotsNat DEF FilesInv, OldInv, NewInv, OwnersInv, NoLost, CallIs, Free, Lost
<1> QED BY <1>1, <1>4, <1>5 DEF StoreInv

\* A step that leaves slot i, the clusters it owns and their entries alone.
LEMMA KeepFile ==
  ASSUME NEW i \in Slots, NEW n \in Nat, dir[i].size = n, dir'[i] = dir[i],
         failed' = failed \/ failed' = TRUE,
         \A cl \in Clusters :
           /\ (owner'[cl] = i) <=> (owner[cl] = i)
           /\ owner[cl] = i => fat12_read_fat(fat', cl) = fat12_read_fat(fat, cl),
         NEW c, LiesIn(i, c)
  PROVE  LiesIn(i, c)'
<1>1. /\ Run(fat, c, n) /\ StartsAt(c, n, dir[i].first_cluster)
      /\ \A k \in 1 .. n : owner[c[k]] = i
      /\ ~failed => Exactly(c, n, i)
  BY DEF LiesIn
<1>2. dir'[i].size = n /\ dir'[i].first_cluster = dir[i].first_cluster
  OBVIOUS
<1>3. \A k \in 1 .. n : c[k] \in Clusters
  BY <1>1 DEF Run, Rising
<1>4. Run(fat', c, n)
  <2>1. \A k \in 1 .. n - 1 : fat12_read_fat(fat', c[k]) = c[k + 1]
    <3>1. 1 .. n - 1 \subseteq 1 .. n
      OBVIOUS
    <3> QED BY <1>1, <1>3, <3>1 DEF Run
  <2> QED BY <1>1, <2>1 DEF Run
<1>5. \A k \in 1 .. n : owner'[c[k]] = i
  BY <1>1, <1>3
<1>6. ~failed' => Exactly(c, n, i)'
  BY <1>1 DEF Exactly
<1> QED BY <1>1, <1>2, <1>4, <1>5, <1>6 DEF LiesIn

LEMMA SizeType ==
  ASSUME FatTypeOK, NEW i \in Slots
  PROVE  /\ dir[i].size \in Nat /\ dir[i].first_cluster \in {0} \cup Clusters
         /\ dir[i].first_cluster \in Entry
<1>1. dir[i] \in DirEntries
  BY DEF FatTypeOK
<1>2. 0 \in Entry
  BY DEF Entry
<1> QED BY <1>1, <1>2, Geometry DEF DirEntries

\* What the beginning of a call changes.
LEMMA StartEffect ==
  ASSUME FatInv, NEW locals \in Calls, NEW next \in {"alloc", "unlink"},
         Start(locals, next)
  PROVE  LET i == locals.existing_idx
             first == IF i = -1 THEN 0 ELSE dir[i].first_cluster
         IN  /\ pc = "idle" /\ op.existing_idx = -1 /\ first \in {0} \cup Clusters
             /\ i \in Slots \cup {-1}
             /\ pc' = IF first # 0 THEN "free" ELSE next
             /\ op'.kind = locals.kind /\ op'.name83 = locals.name83
             /\ op'.content = locals.content /\ op'.existing_idx = i
             /\ op'.cluster = first /\ op'.iterations = locals.iterations
             /\ op'.first_cluster = locals.first_cluster
             /\ op'.prev_cluster = locals.prev_cluster /\ op'.written = locals.written
             /\ \A cl \in Clusters :
                  /\ owner[cl] # New /\ owner[cl] # Dying
                  /\ owner'[cl] = IF i # -1 /\ owner[cl] = i
                                  THEN IF first # 0 THEN Dying ELSE Lost
                                  ELSE owner[cl]
             /\ UNCHANGED <<fat, dir, data, result, failed>>
             /\ old' = fat12_read_file(Volume, locals.name83)
<1> DEFINE i == locals.existing_idx
           first == IF i = -1 THEN 0 ELSE dir[i].first_cluster
<1>1. /\ pc = "idle" /\ pc' = IF first >= 2 THEN "free" ELSE next
      /\ op' = [locals EXCEPT !.cluster = first]
      /\ owner' = [cl \in Clusters |->
                     IF i = -1 \/ owner[cl] # i THEN owner[cl]
                     ELSE IF first >= 2 THEN Dying ELSE Lost]
      /\ UNCHANGED <<fat, dir, data, result, failed>>
      /\ old' = fat12_read_file(Volume, locals.name83)
  BY DEF Start
<1>2. FatTypeOK /\ CallInv /\ op = NoOp
  BY <1>1 DEF FatInv, CallInv
<1>3. i \in Slots \cup {-1} /\ op.existing_idx = -1
  BY <1>2 DEF NoOp, Calls
<1>4. first \in {0} \cup Clusters
  BY <1>2, <1>3, SizeType
<1> HIDE DEF first
<1>5. first # 0 <=> first >= 2
  BY <1>4, Geometry
<1>6. /\ op'.kind = locals.kind /\ op'.name83 = locals.name83
      /\ op'.content = locals.content /\ op'.existing_idx = i
      /\ op'.cluster = first /\ op'.iterations = locals.iterations
      /\ op'.first_cluster = locals.first_cluster
      /\ op'.prev_cluster = locals.prev_cluster /\ op'.written = locals.written
  BY <1>1 DEF Calls
<1>7. \A cl \in Clusters : owner[cl] # New /\ owner[cl] # Dying
  BY <1>1, <1>2 DEF CallInv
<1> HIDE DEF i
<1>8. \A cl \in Clusters :
        owner'[cl] = IF i # -1 /\ owner[cl] = i
                     THEN IF first # 0 THEN Dying ELSE Lost ELSE owner[cl]
  BY <1>1, <1>5
<1> QED BY <1>1, <1>3, <1>4, <1>5, <1>6, <1>7, <1>8 DEF i, first

\* What a sound file reads as: as many blocks as its size says.
LEMMA ReadFile ==
  ASSUME FatTypeOK, NEW i \in Slots, NEW c, LiesIn(i, c)
  PROVE  /\ Reads(Volume, i) = dir[i].size
         /\ \A k \in 1 .. dir[i].size : Walk(Volume, i)[k - 1] = c[k]
         /\ ReadEntry(Volume, i) = [k \in 1 .. dir[i].size |-> data[c[k]]]
         /\ ReadEntry(Volume, i) \in Seq(Blocks)
         /\ Len(ReadEntry(Volume, i)) = dir[i].size
<1> DEFINE n == dir[i].size
           first == dir[i].first_cluster
<1>1. n \in Nat /\ first \in Entry
  BY SizeType
<1>2. Run(fat, c, n) /\ StartsAt(c, n, first) /\ \A k \in 1 .. n : c[k] \in Clusters
  BY DEF LiesIn, Run, Rising
<1>3. /\ Volume.fat = fat /\ Volume.data = data
      /\ Volume.dir[i].size = n /\ Volume.dir[i].first_cluster = first
  BY DEF Volume
<1>4. fat \in Tables /\ data \in [Clusters -> Blocks]
  BY DEF FatTypeOK, Tables
<1> HIDE DEF n, first
<1>5. /\ Reads(Volume, i) = n
      /\ \A k \in 1 .. n : Walk(Volume, i)[k - 1] = c[k]
      /\ ReadEntry(Volume, i) = [k \in 1 .. n |-> Volume.data[c[k]]]
  <2>1. HasRun(Volume, i, c, n, first)
    BY <1>1, <1>2, <1>3, <1>4 DEF HasRun
  <2>2. PICK v : v = Volume
    OBVIOUS
  <2>3. PICK m \in Nat : m = n
    BY <1>1
  <2>4. PICK p \in Entry : p = first
    BY <1>1
  <2>5. HasRun(v, i, c, m, p)
    BY <2>1, <2>2, <2>3, <2>4
  <2>6. /\ Reads(v, i) = m /\ \A k \in 1 .. m : Walk(v, i)[k - 1] = c[k]
        /\ ReadEntry(v, i) = [k \in 1 .. m |-> v.data[c[k]]]
    BY <2>5, ReadRun
  <2> QED BY <2>2, <2>3, <2>6
<1>6. ReadEntry(Volume, i) = [k \in 1 .. n |-> data[c[k]]]
  BY <1>3, <1>5
<1>7. \A k \in 1 .. n : data[c[k]] \in Blocks
  BY <1>2, <1>4
<1>8. ReadEntry(Volume, i) \in Seq(Blocks) /\ Len(ReadEntry(Volume, i)) = n
  BY <1>1, <1>6, <1>7
<1> QED BY <1>5, <1>6, <1>8 DEF n

\* A call begins.
LEMMA StartStoreInv ==
  ASSUME StoreInv, FatInv', DirInv', NEW locals, NEW kind \in {"write", "delete"}, NEW n \in Names83,
         NEW content, Beginning(locals, kind, n, content),
         NEW next \in {"alloc", "unlink"}, Start(locals, next),
         kind = "write" => content \in Contents,
         next = "alloc" => kind = "write", next = "unlink" => kind = "delete"
  PROVE  StoreInv'
<1> DEFINE e == locals.existing_idx
           first == IF e = -1 THEN 0 ELSE dir[e].first_cluster
<1> USE DEF Free, Lost, New, Dying
<1>1. /\ FatTypeOK /\ DirInv /\ EndsLast /\ CallInv /\ Slots \subseteq Nat /\ -1 \notin Slots
      /\ locals \in Calls /\ e = Find(dir, n) /\ locals.name83 = n
      /\ locals.kind = kind /\ locals.content = content
      /\ locals.iterations = 0 /\ locals.first_cluster = 0
      /\ locals.prev_cluster = 0 /\ locals.written = 0
  BY SlotsNat DEF StoreInv, FatInv, DirInv, Beginning
<1>2. /\ pc = "idle" /\ op.existing_idx = -1 /\ first \in {0} \cup Clusters
      /\ e \in Slots \cup {-1}
      /\ pc' = IF first # 0 THEN "free" ELSE next
      /\ op'.kind = kind /\ op'.name83 = n
      /\ op'.content = content /\ op'.existing_idx = e
      /\ op'.cluster = first /\ op'.iterations = 0
      /\ op'.first_cluster = 0
      /\ op'.prev_cluster = 0 /\ op'.written = 0
      /\ \A cl \in Clusters :
           /\ owner[cl] # New /\ owner[cl] # Dying
           /\ owner'[cl] = IF e # -1 /\ owner[cl] = e
                           THEN IF first # 0 THEN Dying ELSE Lost
                           ELSE owner[cl]
      /\ UNCHANGED <<fat, dir, data, result, failed>>
      /\ old' = fat12_read_file(Volume, n)
  BY <1>1, StartEffect DEF StoreInv
<1>3. e # -1 => e \in Slots /\ dir[e].st = "used"
  BY <1>1, FindSpec
<1>4. ASSUME e # -1
      PROVE  \E c : LiesIn(e, c)
  BY <1>1, <1>2, <1>3, <1>4 DEF StoreInv, FilesInv
<1> HIDE DEF e, first
<1>5. Ascending'
  BY <1>2 DEF StoreInv, Ascending, EntryAt
<1>6. FilesInv'
  <2>1. ASSUME NEW i \in Slots, dir[i].st = "used", e # i
        PROVE  \E c : LiesIn(i, c)'
    <3>1. PICK c : LiesIn(i, c)
      BY <1>1, <1>2, <2>1 DEF StoreInv, FilesInv
    <3>2. dir[i].size \in Nat
      BY <1>1, SizeType
    <3>3. \A cl \in Clusters : (owner'[cl] = i) <=> (owner[cl] = i)
      BY <1>1, <1>2, <2>1
    <3> QED BY <1>2, <3>1, <3>2, <3>3, KeepFile
  <2> QED BY <1>2, <2>1 DEF FilesInv
<1>7. OldInv'
  <2> SUFFICES ASSUME e # -1 PROVE \E c : LayIn(c)'
    BY <1>2 DEF OldInv
  <2>1. PICK c : LiesIn(e, c)
    BY <1>4
  <2>2. PICK m \in Nat : m = dir[e].size
    BY <1>1, <1>3, SizeType
  <2>3. /\ m \in Nat /\ first = dir[e].first_cluster
        /\ Run(fat, c, m) /\ StartsAt(c, m, first)
        /\ \A k \in 1 .. m : owner[c[k]] = e /\ c[k] \in Clusters
        /\ ~failed => Exactly(c, m, e)
    BY <1>1, <1>3, <2>1, <2>2, SizeType DEF LiesIn, Run, Rising, first
  <2>4. m # 0 => first # 0 /\ c[1] = first
    <3>1. m # 0 => 1 \in 1 .. m
      BY <2>3
    <3> QED BY <2>3, <3>1, Geometry DEF StartsAt
  <2>5. \A k \in 1 .. m : m # 0 /\ owner'[c[k]] = Dying
    BY <1>2, <2>3, <2>4
  <2>6. \A k \in 1 .. m : k \in Nat /\ ~(k <= 0) /\ (k < m => fat12_read_fat(fat, c[k]) = c[k + 1])
    <3>1. \A k \in 1 .. m : k < m => k \in 1 .. m - 1
      BY <2>3
    <3> QED BY <2>3, <3>1 DEF Run
  <2>7. ~failed => \A cl \in Clusters : owner'[cl] = Dying => \E k \in 1 .. m : c[k] = cl
    BY <1>2, <2>3 DEF Exactly
  <2>8. pc' = "alloc" => m = 0
    BY <1>2, <2>4
  <2>9. dir'[op'.existing_idx].size = m /\ dir'[op'.existing_idx].first_cluster = first
    BY <1>2, <2>3, <2>2
  <2>10. 0 < m => op'.cluster = c[0 + 1]
    BY <1>2, <2>3, <2>4
  <2>11. pc' = "free" =>
           /\ 0 < m => op'.cluster = c[0 + 1]
           /\ \A k \in 1 .. m :
                IF k <= 0 THEN owner'[c[k]] = Free
                ELSE owner'[c[k]] = Dying /\ (k < m => fat12_read_fat(fat', c[k]) = c[k + 1])
           /\ ~failed' => Exactly(c, m, Dying)'
    BY <1>2, <2>5, <2>6, <2>7, <2>10 DEF Exactly
  <2>12. LayIn(c)'
    BY <1>2, <2>3, <2>8, <2>9, <2>11 DEF LayIn, Run, EntryAt
  <2> QED BY <2>12
<1>8. NewInv'
  <2> DEFINE c == [k \in 1 .. 0 |-> 0]
  <2>1. Run(fat', c, 0) /\ StartsAt(c, 0, 0)
    BY DEF Run, Rising, StartsAt
  <2>2. \A cl \in Clusters : owner'[cl] # New /\ ~(cl <= 0)
    BY <1>1, <1>2, Geometry
  <2> HIDE DEF c
  <2>3. BuiltIn(c)'
    BY <1>2, <2>1, <2>2 DEF BuiltIn, Exactly
  <2> QED BY <2>3 DEF NewInv
<1>9. NoLost'
  <2> SUFFICES ASSUME ~failed, NEW cl \in Clusters, owner'[cl] = Lost PROVE FALSE
    BY <1>2 DEF NoLost
  <2>1. e # -1 /\ owner[cl] = e /\ first = 0
    BY <1>2 DEF StoreInv, NoLost
  <2>2. PICK c : LiesIn(e, c)
    BY <1>4, <2>1
  <2>3. /\ dir[e].size \in Nat /\ StartsAt(c, dir[e].size, 0)
        /\ \A k \in 1 .. dir[e].size : c[k] \in Clusters
        /\ \E k \in 1 .. dir[e].size : c[k] = cl
    BY <1>1, <1>3, <2>1, <2>2, SizeType DEF LiesIn, Run, Rising, Exactly, first
  <2>4. 1 \in 1 .. dir[e].size /\ dir[e].size # 0
    BY <2>3
  <2> QED BY <2>3, <2>4, Geometry DEF StartsAt
<1>10. CallIs'
  <2>1. CASE e = -1
    <3>1. old' = NoFile
      BY <1>1, <1>2, <2>1 DEF fat12_read_file, Volume, e
    <3>2. pc' = IF first # 0 THEN "free" ELSE next
      BY <1>2
    <3> QED BY <1>2, <2>1, <3>1, <3>2 DEF CallIs
  <2>2. CASE e # -1
    <3>1. old' = ReadEntry(Volume, e)
      BY <1>1, <1>2, <2>2 DEF fat12_read_file, Volume, e
    <3>2. PICK c : LiesIn(e, c)
      BY <1>4, <2>2
    <3>3. old' \in Seq(Blocks) /\ Len(old') = dir[e].size
      BY <1>1, <1>3, <2>2, <3>1, <3>2, ReadFile
    <3> QED BY <1>2, <2>2, <3>3 DEF CallIs
  <2> QED BY <2>1, <2>2
<1>11. OwnersInv'
  <2>1. ASSUME NEW cl \in Clusters, owner'[cl] \in Slots
        PROVE  dir[owner'[cl]].st = "used" /\ owner'[cl] # e
    BY <1>1, <1>2, <2>1 DEF StoreInv, OwnersInv
  <2> QED BY <1>2, <2>1 DEF OwnersInv
<1> QED BY <1>5, <1>6, <1>7, <1>8, <1>9, <1>10, <1>11 DEF StoreInv

LEMMA EmptyRun ==
  \E c : Run(fat, c, 0) /\ StartsAt(c, 0, 0)
<1> DEFINE c == [k \in 1 .. 0 |-> 0]
<1>1. Run(fat, c, 0) /\ StartsAt(c, 0, 0)
  BY DEF Run, Rising, StartsAt
<1> QED BY <1>1

\* The freeing loop takes the old chain apart, one cluster an iteration.
LEMMA FreeStoreInv ==
  ASSUME StoreInv, FatInv', DirInv', fat12_free_chain,
         Continues(op.cluster), op.iterations < max_clusters
  PROVE  StoreInv'
<1> DEFINE x == op.cluster
           e == op.existing_idx
<1> USE DEF Free, Lost, New, Dying
<1>1. /\ pc = "free" /\ pc' = "free" /\ dir' = dir /\ data' = data /\ old' = old
      /\ failed' = failed
      /\ FatTypeOK /\ Slots \subseteq Nat /\ e \in Slots
      /\ x \in Clusters /\ owner[x] \in {Dying, Free}
      /\ fat12_read_fat(fat', x) = 0
      /\ \A d \in Clusters : d # x => fat12_read_fat(fat', d) = fat12_read_fat(fat, d)
      /\ op'.cluster = fat12_read_fat(fat, x) /\ op'.iterations = op.iterations + 1
      /\ op'.existing_idx = e /\ op'.kind = op.kind /\ op'.name83 = op.name83
      /\ op'.content = op.content /\ op.iterations \in Nat
      /\ owner'[x] = Free /\ \A d \in Clusters : d # x => owner'[d] = owner[d]
  <2>1. pc = "free" /\ dir' = dir /\ data' = data /\ old' = old /\ failed' = failed
    BY DEF fat12_free_chain
  <2>2. FatTypeOK /\ FatInv /\ e \in Slots /\ Slots \subseteq Nat
    BY <2>1, SlotsNat DEF StoreInv, FatInv, FatTypeOK, CallInv, Calls
  <2> QED BY <2>1, <2>2, FreeEffect
<1> HIDE DEF x, e
<1>2. Ascending'
  BY <1>1 DEF StoreInv, Ascending, EntryAt, Continues
<1>3. FilesInv'
  <2>1. ASSUME NEW i \in Slots, dir[i].st = "used", e # i
        PROVE  \E c : LiesIn(i, c)'
    <3>1. PICK c : LiesIn(i, c)
      BY <2>1 DEF StoreInv, FilesInv, e
    <3>2. dir[i].size \in Nat
      BY <1>1, SizeType
    <3>3. \A cl \in Clusters : (owner'[cl] = i) <=> (owner[cl] = i)
      BY <1>1, <2>1
    <3>4. \A cl \in Clusters : owner[cl] = i => cl # x
      BY <1>1
    <3> QED BY <1>1, <3>1, <3>2, <3>3, <3>4, KeepFile
  <2> QED BY <1>1, <2>1 DEF FilesInv
<1>4. OldInv'
  <2> SUFFICES \E c : LayIn(c)'
    BY DEF OldInv
  <2>1. e # -1
    BY <1>1
  <2>2. PICK c : LayIn(c)
    BY <1>1, <2>1 DEF StoreInv, OldInv, e
  <2>3. PICK n \in Nat : n = dir[e].size
    BY <1>1, SizeType
  <2>4. PICK it \in Nat : it = op.iterations
    BY <1>1
  <2>5. /\ Rising(c, n) /\ StartsAt(c, n, dir[e].first_cluster)
        /\ it < n => x = c[it + 1]
        /\ \A k \in 1 .. n :
             IF k <= it THEN owner[c[k]] = Free
             ELSE owner[c[k]] = Dying /\ (k < n => EntryAt(c[k]) = c[k + 1])
        /\ ~failed => Exactly(c, n, Dying)
    BY <1>1, <2>2, <2>3, <2>4 DEF LayIn, e, x
  <2>6. \A k \in 1 .. n : c[k] \in Clusters
    BY <2>5 DEF Rising
  <2>7. it + 1 < n => op'.cluster = c[(it + 1) + 1]
    <3>1. it + 1 < n => it + 1 \in 1 .. n /\ ~(it + 1 <= it) /\ it < n
      OBVIOUS
    <3> QED BY <1>1, <2>5, <3>1 DEF EntryAt
  <2>8. ASSUME NEW k \in 1 .. n
        PROVE  IF k <= it + 1 THEN owner'[c[k]] = Free
               ELSE owner'[c[k]] = Dying /\ (k < n => fat12_read_fat(fat', c[k]) = c[k + 1])
    <3>1. CASE k <= it
      BY <1>1, <2>5, <2>6, <3>1
    <3>2. CASE k = it + 1
      <4>1. x = c[k]
        BY <2>5, <3>2
      <4> QED BY <1>1, <3>2, <4>1
    <3>3. CASE k > it + 1
      <4>1. it < n /\ it + 1 \in 1 .. n /\ it + 1 # k /\ ~(k <= it)
        BY <3>3
      <4>2. c[k] # x
        BY <2>5, <4>1, RisingBound
      <4>3. owner[c[k]] = Dying /\ (k < n => fat12_read_fat(fat, c[k]) = c[k + 1])
        BY <2>5, <4>1 DEF EntryAt
      <4> QED BY <1>1, <2>6, <3>3, <4>2, <4>3
    <3> QED BY <3>1, <3>2, <3>3
  <2>9. ~failed' => Exactly(c, n, Dying)'
    BY <1>1, <2>5 DEF Exactly
  <2>10. LayIn(c)'
    BY <1>1, <2>3, <2>4, <2>5, <2>7, <2>8, <2>9 DEF LayIn, EntryAt
  <2> QED BY <2>10
<1>5. NewInv' /\ NoLost'
  BY <1>1 DEF StoreInv, NewInv, NoLost
<1>6. CallIs'
  BY <1>1 DEF StoreInv, CallIs, e
<1>7. OwnersInv'
  BY <1>1 DEF StoreInv, OwnersInv, e
<1> QED BY <1>2, <1>3, <1>4, <1>5, <1>6, <1>7 DEF StoreInv

\* When the freeing loop ends, all of the old chain is free.
LEMMA FreedStoreInv ==
  ASSUME StoreInv, FatInv', DirInv', fat12_free_chain,
         ~(Continues(op.cluster) /\ op.iterations < max_clusters)
  PROVE  StoreInv'
<1> DEFINE e == op.existing_idx
<1> USE DEF Free, Lost, New, Dying
<1>1. /\ pc = "free" /\ pc' = IF op.kind = "write" THEN "alloc" ELSE "unlink"
      /\ UNCHANGED <<fat, op, dir, data, old, failed>>
      /\ \A cl \in Clusters : owner'[cl] = IF owner[cl] = Dying THEN Lost ELSE owner[cl]
      /\ \A cl \in Clusters : owner[cl] # New
      /\ op.first_cluster = 0 /\ op.prev_cluster = 0 /\ op.written = 0
      /\ FatTypeOK /\ Slots \subseteq Nat /\ e \in Slots /\ op.iterations \in Nat
  <2>1. /\ pc = "free" /\ pc' = IF op.kind = "write" THEN "alloc" ELSE "unlink"
        /\ UNCHANGED <<fat, op, dir, data, old, failed>>
        /\ owner' = [cl \in Clusters |-> IF owner[cl] = Dying THEN Lost ELSE owner[cl]]
    BY DEF fat12_free_chain
  <2> QED BY <2>1, SlotsNat DEF StoreInv, FatInv, FatTypeOK, CallInv, Calls
<1>2. PICK c : LayIn(c)
  <2>1. e # -1 /\ pc # "idle"
    BY <1>1
  <2> QED BY <2>1 DEF StoreInv, OldInv
<1>3. PICK n \in Nat : n = dir[e].size
  BY <1>1, SizeType
<1> HIDE DEF e
<1>4. /\ Rising(c, n) /\ StartsAt(c, n, dir[e].first_cluster)
      /\ op.iterations < n => op.cluster = c[op.iterations + 1]
      /\ \A k \in 1 .. n : k <= op.iterations => owner[c[k]] = Free
      /\ ~failed => Exactly(c, n, Dying)
  BY <1>1, <1>2, <1>3 DEF LayIn, e
<1>5. \A k \in 1 .. n : c[k] \in Clusters /\ owner[c[k]] = Free
  <2>1. \A k \in 1 .. n : c[k] \in Clusters
    BY <1>4 DEF Rising
  <2>2. ASSUME op.iterations < n PROVE FALSE
    <3>1. op.iterations + 1 \in 1 .. n
      BY <1>1, <2>2
    <3>2. Continues(op.cluster)
      BY <1>4, <2>1, <2>2, <3>1, Geometry DEF Continues
    <3>3. n <= max_clusters
      BY <1>4, RisingBound
    <3> QED BY <1>1, <2>2, <3>2, <3>3, Geometry
  <2>3. \A k \in 1 .. n : k <= op.iterations
    BY <1>1, <2>2
  <2> QED BY <1>4, <2>1, <2>3
<1>6. Ascending'
  BY <1>1 DEF StoreInv, Ascending, EntryAt
<1>7. FilesInv'
  <2>1. ASSUME NEW i \in Slots, dir[i].st = "used", e # i
        PROVE  \E d : LiesIn(i, d)'
    <3>1. PICK d : LiesIn(i, d)
      BY <2>1 DEF StoreInv, FilesInv, e
    <3>2. dir[i].size \in Nat
      BY <1>1, SizeType
    <3>3. \A cl \in Clusters : (owner'[cl] = i) <=> (owner[cl] = i)
      BY <1>1, <2>1
    <3> QED BY <1>1, <3>1, <3>2, <3>3, KeepFile
  <2> QED BY <1>1, <2>1 DEF FilesInv, e
<1>8. OldInv'
  <2>1. \A k \in 1 .. n : owner'[c[k]] = Free
    BY <1>1, <1>5
  <2>2. LayIn(c)'
    BY <1>1, <1>3, <1>4, <2>1 DEF LayIn, e
  <2> QED BY <2>2 DEF OldInv
<1>9. NewInv'
  <2>1. PICK d : Run(fat, d, 0) /\ StartsAt(d, 0, 0)
    BY EmptyRun
  <2>2. \A cl \in Clusters : owner'[cl] # New /\ ~(cl <= 0)
    BY <1>1, Geometry
  <2>3. BuiltIn(d)'
    BY <1>1, <2>1, <2>2 DEF BuiltIn, Exactly
  <2> QED BY <2>3 DEF NewInv
<1>10. NoLost'
  <2>1. ASSUME ~failed, NEW cl \in Clusters PROVE owner'[cl] # Lost
    <3>1. owner[cl] # Lost /\ owner[cl] # Dying
      BY <1>4, <1>5, <2>1 DEF StoreInv, NoLost, Exactly
    <3> QED BY <1>1, <3>1
  <2> QED BY <1>1, <2>1 DEF NoLost
<1>11. CallIs'
  BY <1>1 DEF StoreInv, CallIs
<1>12. OwnersInv'
  BY <1>1 DEF StoreInv, OwnersInv
<1> QED BY <1>6, <1>7, <1>8, <1>9, <1>10, <1>11, <1>12 DEF StoreInv

\* Linking the least free cluster behind the chain under construction.
LEMMA AllocStoreInv ==
  ASSUME StoreInv, FatInv', DirInv', AllocCluster
  PROVE  StoreInv'
<1> DEFINE x == fat12_alloc_cluster(fat)
           p == op.prev_cluster
           e == op.existing_idx
<1> USE DEF Free, Lost, New, Dying
<1>1. /\ pc = "alloc" /\ pc' = "alloc" /\ UNCHANGED <<dir, old, failed>>
      /\ FatTypeOK /\ Slots \subseteq Nat /\ e \in Slots \cup {-1} /\ -1 \notin Slots
      /\ op.written \in Nat
      /\ x \in Clusters /\ x # 0 /\ owner[x] = Free
      /\ p \in {0} \cup Clusters /\ (p # 0 => p \in Clusters /\ owner[p] = New /\ p # x)
      /\ fat12_read_fat(fat', x) = 4095
      /\ p # 0 => fat12_read_fat(fat', p) = x
      /\ \A d \in Clusters : d # x /\ d # p =>
            fat12_read_fat(fat', d) = fat12_read_fat(fat, d)
      /\ op'.prev_cluster = x /\ op'.written = op.written + 1
      /\ op'.first_cluster = (IF op.first_cluster = 0 THEN x ELSE op.first_cluster)
      /\ op'.existing_idx = e /\ op'.content = op.content
      /\ op'.kind = op.kind /\ op'.name83 = op.name83
      /\ owner'[x] = New /\ \A d \in Clusters : d # x => owner'[d] = owner[d]
      /\ data'[x] = op.content[op.written + 1]
      /\ \A d \in Clusters : d # x => data'[d] = data[d]
  <2>1. pc = "alloc" /\ pc' = "alloc" /\ UNCHANGED <<dir, old, failed>>
    BY DEF AllocCluster
  <2>2. FatTypeOK /\ FatInv /\ e \in Slots \cup {-1}
    BY DEF StoreInv, FatInv, FatTypeOK, Calls
  <2> HIDE DEF e
  <2> QED BY <2>1, <2>2, SlotsNat, AllocEffect DEF e
<1> HIDE DEF x, p, e
<1>2. 0 \notin Clusters /\ Clusters \subseteq Nat
  BY Geometry
<1>3. PICK d : BuiltIn(d)
  BY <1>1 DEF StoreInv, NewInv
<1>4. PICK n \in Nat : n = op.written
  BY <1>1
<1>5. /\ Run(fat, d, n) /\ Rising(d, n) /\ StartsAt(d, n, op.first_cluster)
      /\ p = IF n = 0 THEN 0 ELSE d[n]
      /\ \A k \in 1 .. n : d[k] \in Clusters /\ owner[d[k]] = New /\ data[d[k]] = op.content[k]
      /\ \A cl \in Clusters : owner[cl] = New => \E k \in 1 .. n : d[k] = cl
      /\ \A cl \in Clusters : cl <= p => owner[cl] # Free
  BY <1>3, <1>4 DEF BuiltIn, Run, Rising, Exactly, p
<1>6. p < x
  BY <1>1, <1>2, <1>5
<1>7. Ascending'
  <2>1. ASSUME NEW cl \in Clusters, Continues(fat12_read_fat(fat', cl))
        PROVE  cl < fat12_read_fat(fat', cl)
    <3>1. cl # x
      BY <1>1, <2>1 DEF Continues
    <3>2. CASE cl = p
      BY <1>1, <1>2, <1>6, <3>2
    <3>3. CASE cl # p
      BY <1>1, <2>1, <3>1, <3>3 DEF StoreInv, Ascending, EntryAt
    <3> QED BY <3>2, <3>3
  <2> QED BY <2>1 DEF Ascending, EntryAt
<1>8. FilesInv'
  <2>1. ASSUME NEW i \in Slots, dir[i].st = "used", e # i
        PROVE  \E c : LiesIn(i, c)'
    <3>1. PICK c : LiesIn(i, c)
      BY <2>1 DEF StoreInv, FilesInv, e
    <3>2. dir[i].size \in Nat
      BY <1>1, SizeType
    <3>3. \A cl \in Clusters : (owner'[cl] = i) <=> (owner[cl] = i)
      BY <1>1, <2>1
    <3>4. \A cl \in Clusters : owner[cl] = i => cl # x /\ cl # p
      BY <1>1, <1>2, <2>1
    <3> QED BY <1>1, <3>1, <3>2, <3>3, <3>4, KeepFile
  <2> QED BY <1>1, <2>1 DEF FilesInv
<1>9. OldInv'
  <2> SUFFICES ASSUME e # -1 PROVE \E c : LayIn(c)'
    BY <1>1 DEF OldInv
  <2>1. PICK c : LayIn(c)
    BY <1>1 DEF StoreInv, OldInv, e
  <2>2. PICK m \in Nat : m = dir[e].size
    BY <1>1, SizeType
  <2>3. /\ Rising(c, m) /\ StartsAt(c, m, dir[e].first_cluster)
        /\ \A k \in 1 .. m : c[k] \in Clusters /\ owner[c[k]] \in {Free, New}
    BY <1>1, <2>1, <2>2 DEF LayIn, Rising, e
  <2>4. \A k \in 1 .. m : owner'[c[k]] \in {Free, New}
    BY <1>1, <2>3
  <2>5. LayIn(c)'
    BY <1>1, <2>2, <2>3, <2>4 DEF LayIn
  <2> QED BY <2>5
<1>10. NewInv'
  <2> DEFINE longer == [k \in 1 .. n + 1 |-> IF k = n + 1 THEN x ELSE d[k]]
  <2>a. PICK g : g = longer
    OBVIOUS
  <2>1. g[n + 1] = x /\ \A k \in 1 .. n : g[k] = d[k]
    BY <2>a
  <2>2. \A k \in 1 .. n + 1 : k = n + 1 \/ k \in 1 .. n
    OBVIOUS
  <2>3. g \in [1 .. n + 1 -> Clusters]
    BY <1>1, <1>5, <2>a
  <2>4. ASSUME NEW k \in 1 .. (n + 1) - 1
        PROVE  g[k] < g[k + 1] /\ fat12_read_fat(fat', g[k]) = g[k + 1]
    <3>1. k \in 1 .. n /\ g[k] = d[k] /\ d[k] \in Clusters /\ d[k] # x
      BY <1>1, <1>5, <2>1
    <3>2. CASE k = n
      <4>1. g[k] = p /\ g[k + 1] = x /\ p # 0
        BY <1>2, <1>5, <2>1, <3>1, <3>2
      <4> QED BY <1>1, <1>6, <4>1
    <3>3. CASE k # n
      <4>1. k \in 1 .. n - 1 /\ k + 1 \in 1 .. n /\ n \in 1 .. n /\ n # 0
        BY <3>3
      <4>2. d[k] < d[k + 1] /\ fat12_read_fat(fat, d[k]) = d[k + 1] /\ g[k + 1] = d[k + 1]
        BY <1>5, <2>1, <4>1 DEF Run, Rising
      <4>3. d[k] # p
        BY <1>5, <3>3, <4>1, RisingBound
      <4> QED BY <1>1, <3>1, <4>2, <4>3
    <3> QED BY <3>2, <3>3
  <2>5. Run(fat', g, n + 1)
    BY <2>3, <2>4 DEF Run, Rising
  <2>6. StartsAt(g, n + 1, op'.first_cluster)
    <3>1. CASE n = 0
      BY <1>1, <1>5, <2>1, <3>1 DEF StartsAt
    <3>2. CASE n # 0
      <4>1. 1 \in 1 .. n /\ g[1] = d[1] /\ op.first_cluster = d[1] /\ d[1] # 0
        BY <1>2, <1>5, <2>1, <3>2 DEF StartsAt
      <4> QED BY <1>1, <4>1 DEF StartsAt
    <3> QED BY <3>1, <3>2
  <2>7. \A k \in 1 .. n + 1 : owner'[g[k]] = New /\ data'[g[k]] = op'.content[k]
    <3>1. ASSUME NEW k \in 1 .. n
          PROVE  owner'[g[k]] = New /\ data'[g[k]] = op'.content[k]
      <4>1. g[k] = d[k] /\ d[k] \in Clusters /\ d[k] # x
        BY <1>1, <1>5, <2>1
      <4> QED BY <1>1, <1>5, <4>1
    <3>2. owner'[g[n + 1]] = New /\ data'[g[n + 1]] = op'.content[n + 1]
      BY <1>1, <1>4, <2>1
    <3> QED BY <2>2, <3>1, <3>2
  <2>8. \A cl \in Clusters : owner'[cl] = New => \E k \in 1 .. n + 1 : g[k] = cl
    <3>1. \A cl \in Clusters : owner'[cl] = New => cl = x \/ \E k \in 1 .. n : d[k] = cl
      BY <1>1, <1>5
    <3>2. \A k \in 1 .. n : k \in 1 .. n + 1
      OBVIOUS
    <3>3. n + 1 \in 1 .. n + 1
      OBVIOUS
    <3> QED BY <2>1, <3>1, <3>2, <3>3
  <2>9. ASSUME NEW cl \in Clusters, cl <= x PROVE owner'[cl] # Free
    <3>1. cl = x \/ cl < x
      BY <1>1, <1>2, <2>9
    <3>2. ASSUME cl < x PROVE owner[cl] # Free
      <4>1. fat12_read_fat(fat, cl) # 0
        BY <1>1, <3>2, AllocLeast DEF x
      <4> QED BY <4>1 DEF StoreInv, FatInv, FreeIffZero
    <3> QED BY <1>1, <3>1, <3>2
  <2>10. PICK m \in Nat : m = n + 1
    OBVIOUS
  <2>11. op'.written = m /\ op'.prev_cluster = IF m = 0 THEN 0 ELSE g[m]
    BY <1>1, <1>4, <2>1, <2>10
  <2>12. Exactly(g, m, New)'
    BY <2>8, <2>10 DEF Exactly
  <2>13. \A cl \in Clusters : cl <= op'.prev_cluster => owner'[cl] # Free
    BY <1>1, <2>9
  <2>14. Run(fat', g, m) /\ StartsAt(g, m, op'.first_cluster)
    BY <2>5, <2>6, <2>10
  <2>15. \A k \in 1 .. m : owner'[g[k]] = New /\ data'[g[k]] = op'.content[k]
    BY <2>7, <2>10
  <2>16. BuiltIn(g)'
    BY <2>11, <2>12, <2>13, <2>14, <2>15 DEF BuiltIn
  <2> QED BY <2>16 DEF NewInv
<1>11. OwnersInv'
  BY <1>1 DEF StoreInv, OwnersInv, e
<1>12. NoLost' /\ CallIs'
  BY <1>1 DEF StoreInv, NoLost, CallIs, e
<1> QED BY <1>7, <1>8, <1>9, <1>10, <1>11, <1>12 DEF StoreInv

\* When no cluster is left, all of an overwritten file's clusters are in the
\* new chain, and from the old first cluster on that chain is as long as the
\* directory says the file is.
TailOfNew(t, p) ==
  LET n == dir[op.existing_idx].size
  IN  /\ p \in Nat /\ p >= 1 /\ p + n <= op.written + 1
      /\ Run(fat, t, n) /\ StartsAt(t, n, dir[op.existing_idx].first_cluster)
      /\ \A k \in 1 .. n : owner[t[k]] = New /\ data[t[k]] = op.content[p + (k - 1)]

LEMMA OldTailInNew ==
  ASSUME StoreInv, pc = "alloc", op.existing_idx # -1,
         \A cl \in Clusters : owner[cl] # Free
  PROVE  \E t, p : TailOfNew(t, p)
<1> DEFINE e == op.existing_idx
<1>1. FatTypeOK /\ e \in Slots /\ op.written \in Nat
  BY DEF StoreInv, FatInv, FatTypeOK, Calls
<1>2. PICK c : LayIn(c)
  BY DEF StoreInv, OldInv
<1>3. PICK d : BuiltIn(d)
  BY DEF StoreInv, NewInv
<1>4. PICK n \in Nat : n = dir[e].size
  BY <1>1, SizeType
<1>5. PICK w \in Nat : w = op.written
  BY <1>1
<1>6. PICK first : first = dir[e].first_cluster
  OBVIOUS
<1>7. /\ Rising(c, n) /\ StartsAt(c, n, first)
      /\ \A k \in 1 .. n : c[k] \in Clusters /\ owner[c[k]] = New
  BY <1>2, <1>4, <1>6 DEF LayIn, Rising
<1>8. /\ Run(fat, d, w) /\ Rising(d, w)
      /\ \A k \in 1 .. w : d[k] \in Clusters /\ owner[d[k]] = New /\ data[d[k]] = op.content[k]
      /\ \A cl \in Clusters : owner[cl] = New => \E k \in 1 .. w : d[k] = cl
  BY <1>3, <1>5 DEF BuiltIn, Run, Rising, Exactly
<1> HIDE DEF e
<1>9. CASE n = 0
  <2>1. PICK t : Run(fat, t, 0) /\ StartsAt(t, 0, 0)
    BY EmptyRun
  <2>2. first = 0
    BY <1>7, <1>9 DEF StartsAt
  <2>3. TailOfNew(t, 1)
    BY <1>4, <1>5, <1>6, <1>9, <2>1, <2>2 DEF TailOfNew, e
  <2> QED BY <2>3
<1>10. CASE n # 0
  <2>1. 1 \in 1 .. n /\ c[1] = first
    BY <1>7, <1>10 DEF StartsAt
  <2>2. PICK p \in 1 .. w : d[p] = c[1]
    BY <1>7, <1>8, <2>1
  <2> DEFINE S == {k \in Nat : k < n => \E j \in 1 .. w : d[j] = c[k + 1] /\ j >= p + k}
  <2>3. 0 \in S
    BY <2>2
  <2>4. ASSUME NEW k \in Nat, k \in S PROVE k + 1 \in S
    <3> SUFFICES ASSUME k + 1 < n
                 PROVE  \E j \in 1 .. w : d[j] = c[(k + 1) + 1] /\ j >= p + (k + 1)
      OBVIOUS
    <3>1. k < n /\ k + 1 \in 1 .. n /\ (k + 1) + 1 \in 1 .. n /\ k + 1 \in 1 .. n - 1
      OBVIOUS
    <3>2. PICK i \in 1 .. w : d[i] = c[k + 1] /\ i >= p + k
      BY <2>4, <3>1
    <3>3. PICK j \in 1 .. w : d[j] = c[(k + 1) + 1]
      BY <1>7, <1>8, <3>1
    <3>4. d[i] < d[j]
      BY <1>7, <3>1, <3>2, <3>3 DEF Rising
    <3>5. ~(j < i) /\ j # i
      <4>1. d[i] \in Nat /\ d[j] \in Nat
        BY <1>8, Geometry
      <4>2. j < i => d[j] < d[i]
        BY <1>8, RisingBound
      <4> QED BY <3>4, <4>1, <4>2
    <3>6. j >= p + (k + 1)
      BY <3>2, <3>5
    <3> QED BY <3>3, <3>6
  <2>5. Nat \subseteq S
    <3> HIDE DEF S
    <3> QED BY <2>3, <2>4, InductionOnSets
  <2>6. p + n <= w + 1
    <3>1. n - 1 \in Nat /\ n - 1 < n
      BY <1>10
    <3>2. PICK j \in 1 .. w : j >= p + (n - 1)
      BY <2>5, <3>1
    <3> QED BY <3>2
  <2> HIDE DEF S
  <2>7. PICK t : t = [k \in 1 .. n |-> d[p + (k - 1)]]
    OBVIOUS
  <2>8. \A k \in 1 .. n : p + (k - 1) \in 1 .. w /\ t[k] = d[p + (k - 1)]
    BY <2>6, <2>7
  <2>9. t \in [1 .. n -> Clusters]
    BY <1>8, <2>7, <2>8
  <2>10. ASSUME NEW k \in 1 .. n - 1
         PROVE  t[k] < t[k + 1] /\ fat12_read_fat(fat, t[k]) = t[k + 1]
    <3>1. k \in 1 .. n /\ k + 1 \in 1 .. n /\ (k + 1) - 1 = k
          /\ p + k = (p + (k - 1)) + 1 /\ p + (k - 1) \in 1 .. w - 1
      BY <2>6
    <3>2. t[k] = d[p + (k - 1)] /\ t[k + 1] = d[(p + (k - 1)) + 1]
      BY <2>8, <3>1
    <3> QED BY <1>8, <3>1, <3>2 DEF Run, Rising
  <2>11. Run(fat, t, n)
    BY <2>9, <2>10 DEF Run, Rising
  <2>12. StartsAt(t, n, first)
    <3>1. p + (1 - 1) = p
      OBVIOUS
    <3> QED BY <1>10, <2>1, <2>2, <2>8, <3>1 DEF StartsAt
  <2>13. \A k \in 1 .. n : owner[t[k]] = New /\ data[t[k]] = op.content[p + (k - 1)]
    BY <1>8, <2>8
  <2>14. p \in Nat /\ p >= 1
    OBVIOUS
  <2>15. TailOfNew(t, p)
    BY <1>4, <1>5, <1>6, <2>6, <2>11, <2>12, <2>13, <2>14 DEF TailOfNew, e
  <2> QED BY <2>15
<1> QED BY <1>9, <1>10

\* What an early return of fat12_write_file changes.
LEMMA FailEffect ==
  ASSUME StoreInv, DiskFull \/ DirectoryFull
  PROVE  LET e == op.existing_idx
         IN  /\ pc = "alloc" /\ pc' = "idle" /\ op'.existing_idx = -1
             /\ result' = -1 /\ failed' = TRUE /\ UNCHANGED <<fat, dir, data>>
             /\ e \in Slots \cup {-1} /\ -1 \notin Slots
             /\ e # -1 =>
                  /\ dir[e].st = "used" /\ dir[e].name = op.name83
                  /\ \A cl \in Clusters : owner[cl] # Free
             /\ \A cl \in Clusters :
                  owner'[cl] = IF owner[cl] # New THEN owner[cl]
                               ELSE IF e = -1 THEN Lost ELSE e
<1> DEFINE e == op.existing_idx
<1>1. /\ pc = "alloc" /\ pc' = "idle" /\ op' = NoOp /\ result' = -1 /\ failed' = TRUE
      /\ UNCHANGED <<fat, dir, data>>
      /\ owner' = [cl \in Clusters |->
                     IF owner[cl] # New THEN owner[cl] ELSE IF e = -1 THEN Lost ELSE e]
  BY DEF DiskFull, DirectoryFull, FailWrite, Return
<1>2. e \in Slots \cup {-1} /\ -1 \notin Slots
  BY SlotsNat DEF StoreInv, FatInv, FatTypeOK, Calls
<1>3. op'.existing_idx = -1
  BY <1>1 DEF NoOp
<1>4. ASSUME e # -1 PROVE dir[e].st = "used" /\ dir[e].name = op.name83
  BY <1>1, <1>4, FindSpec DEF StoreInv, DirInv, FoundAtStart
<1>5. ASSUME e # -1, NEW cl \in Clusters PROVE owner[cl] # Free
  <2>1. fat12_alloc_cluster(fat) = 0
    BY <1>5 DEF DiskFull, DirectoryFull, EntryIndex
  <2>2. fat12_read_fat(fat, cl) # 0
    BY <2>1, Geometry, AllocFindsFree
  <2> QED BY <2>2 DEF StoreInv, FatInv, FreeIffZero
<1> QED BY <1>1, <1>2, <1>3, <1>4, <1>5

\* A failed write leaves an existing file of the size it had.
LEMMA FailStoreInv ==
  ASSUME StoreInv, FatInv', DirInv', DiskFull \/ DirectoryFull
  PROVE  StoreInv'
<1> DEFINE e == op.existing_idx
<1> USE DEF Free, Lost, New, Dying
<1>1. /\ pc = "alloc" /\ pc' = "idle" /\ op'.existing_idx = -1
      /\ failed' = TRUE /\ UNCHANGED <<fat, dir, data>>
      /\ e \in Slots \cup {-1} /\ -1 \notin Slots
      /\ e # -1 => dir[e].st = "used" /\ \A cl \in Clusters : owner[cl] # Free
      /\ \A cl \in Clusters :
           owner'[cl] = IF owner[cl] # New THEN owner[cl] ELSE IF e = -1 THEN Lost ELSE e
      /\ FatTypeOK /\ Slots \subseteq Nat
  BY FailEffect, SlotsNat DEF StoreInv, FatInv
<1> HIDE DEF e
<1>2. Ascending'
  BY <1>1 DEF StoreInv, Ascending, EntryAt
<1>3. FilesInv'
  <2>1. ASSUME NEW i \in Slots, dir[i].st = "used", i # e
        PROVE  \E c : LiesIn(i, c)'
    <3>1. PICK c : LiesIn(i, c)
      BY <2>1 DEF StoreInv, FilesInv, e
    <3>2. dir[i].size \in Nat
      BY <1>1, SizeType
    <3>3. \A cl \in Clusters : (owner'[cl] = i) <=> (owner[cl] = i)
      BY <1>1, <2>1
    <3> QED BY <1>1, <3>1, <3>2, <3>3, KeepFile
  <2>2. ASSUME NEW i \in Slots, i = e PROVE \E c : LiesIn(i, c)'
    <3>1. PICK t, p : TailOfNew(t, p)
      BY <1>1, <2>2, OldTailInNew DEF e
    <3>2. PICK n \in Nat : n = dir[e].size
      BY <1>1, <2>2, SizeType
    <3>3. /\ Run(fat, t, n) /\ StartsAt(t, n, dir[e].first_cluster)
          /\ \A k \in 1 .. n : t[k] \in Clusters /\ owner[t[k]] = New
      BY <3>1, <3>2 DEF TailOfNew, Run, Rising, e
    <3>4. \A k \in 1 .. n : owner'[t[k]] = e
      BY <1>1, <2>2, <3>3
    <3>5. LiesIn(i, t)'
      BY <1>1, <2>2, <3>2, <3>3, <3>4 DEF LiesIn
    <3> QED BY <3>5
  <2> QED BY <1>1, <2>1, <2>2 DEF FilesInv
<1>4. OldInv' /\ NewInv' /\ CallIs'
  BY <1>1 DEF OldInv, NewInv, CallIs
<1>5. NoLost'
  BY <1>1 DEF NoLost
<1>6. OwnersInv'
  <2>1. ASSUME NEW cl \in Clusters, owner'[cl] \in Slots
        PROVE  dir[owner'[cl]].st = "used"
    BY <1>1, <2>1 DEF StoreInv, OwnersInv
  <2> QED BY <1>1, <2>1 DEF OwnersInv
<1> QED BY <1>2, <1>3, <1>4, <1>5, <1>6 DEF StoreInv

\* What the end of a successful write changes: slot k gets the file.
Commits(k) ==
  /\ k \in Slots /\ k # -1 /\ -1 \notin Slots /\ op.existing_idx \in {-1, k}
  /\ op.existing_idx = -1 => dir[k].st # "used"
  /\ pc = "alloc" /\ pc' = "idle" /\ op'.existing_idx = -1 /\ result' = 0
  /\ UNCHANGED <<fat, data, failed>>
  /\ dir'[k].st = "used" /\ dir'[k].name = op.name83
  /\ dir'[k].first_cluster = op.first_cluster /\ dir'[k].size = op.written
  /\ \A i \in Slots : i # k => dir'[i] = dir[i]
  /\ \A cl \in Clusters :
       owner[cl] # k /\ owner'[cl] = IF owner[cl] = New THEN k ELSE owner[cl]
  /\ op.name83 \in Names83 /\ op.content \in Contents
  /\ op.written \in Nat /\ op.written = Len(op.content)

LEMMA WriteEntryEffect ==
  ASSUME StoreInv, WriteEntry
  PROVE  \E k : Commits(k)
<1> DEFINE e == op.existing_idx
           k == EntryIndex
           slot == FileSlot(op.name83, op.first_cluster, Len(op.content))
<1>1. /\ pc = "alloc" /\ pc' = "idle" /\ op' = NoOp /\ result' = 0 /\ failed' = failed
      /\ owner' = [cl \in Clusters |-> IF owner[cl] = New THEN k ELSE owner[cl]]
      /\ fat' = fat /\ data' = data /\ dir' = [dir EXCEPT ![k] = slot] /\ k # -1
      /\ op.written = Len(op.content)
  BY DEF WriteEntry, Return
<1>2. /\ FatTypeOK /\ e \in Slots \cup {-1} /\ -1 \notin Slots /\ op.written \in Nat
      /\ dir \in [Slots -> DirEntries]
  BY SlotsNat DEF StoreInv, FatInv, FatTypeOK, Calls
<1>3. /\ k \in Slots /\ e \in {-1, k} /\ (e = -1 => dir[k].st # "used")
  BY <1>1, <1>2, FindFreeSpec DEF EntryIndex
<1>4. /\ slot.st = "used" /\ slot.name = op.name83
      /\ slot.first_cluster = op.first_cluster /\ slot.size = op.written
  BY <1>1 DEF FileSlot
<1>5. op'.existing_idx = -1
  BY <1>1 DEF NoOp
<1> HIDE DEF e, k, slot
<1>6. dir'[k] = slot /\ \A i \in Slots : i # k => dir'[i] = dir[i]
  BY <1>1, <1>2, <1>3
<1>7. \A cl \in Clusters : owner[cl] # k
  BY <1>2, <1>3 DEF StoreInv, OwnersInv, e
<1>8. \A cl \in Clusters : owner'[cl] = IF owner[cl] = New THEN k ELSE owner[cl]
  BY <1>1
<1>9. op.name83 \in Names83 /\ op.content \in Contents
  BY <1>1 DEF StoreInv, CallIs
<1>10. Commits(k)
  BY <1>1, <1>2, <1>3, <1>4, <1>5, <1>6, <1>7, <1>8, <1>9 DEF Commits, e
<1> QED BY <1>10

\* The file lies where it was built.
LEMMA WrittenFile ==
  ASSUME StoreInv, NEW k, Commits(k), NEW d, BuiltIn(d)
  PROVE  LiesIn(k, d)'
<1>1. PICK w \in Nat : w = op.written
  BY DEF Commits
<1>2. /\ Run(fat, d, w) /\ StartsAt(d, w, op.first_cluster)
      /\ \A j \in 1 .. w : d[j] \in Clusters /\ owner[d[j]] = New
      /\ \A cl \in Clusters : owner[cl] = New => \E j \in 1 .. w : d[j] = cl
  BY <1>1 DEF BuiltIn, Run, Rising, Exactly
<1>3. \A j \in 1 .. w : owner'[d[j]] = k
  BY <1>2 DEF Commits
<1>4. \A cl \in Clusters : owner'[cl] = k => \E j \in 1 .. w : d[j] = cl
  BY <1>2 DEF Commits
<1>5. /\ Run(fat', d, w) /\ StartsAt(d, w, dir'[k].first_cluster) /\ dir'[k].size = w
  BY <1>1, <1>2 DEF Commits
<1>6. ~failed' => Exactly(d, w, k)'
  BY <1>4 DEF Exactly
<1> QED BY <1>3, <1>5, <1>6 DEF LiesIn

LEMMA WriteEntryStoreInv ==
  ASSUME StoreInv, FatInv', DirInv', WriteEntry
  PROVE  StoreInv'
<1> USE DEF Free, Lost, New, Dying
<1>1. PICK k : Commits(k)
  BY WriteEntryEffect
<1>2. FatTypeOK /\ Slots \subseteq Nat
  BY SlotsNat DEF StoreInv, FatInv
<1>3. Ascending'
  BY <1>1 DEF StoreInv, Ascending, EntryAt, Commits
<1>4. FilesInv'
  <2>1. ASSUME NEW i \in Slots, dir'[i].st = "used", i # k
        PROVE  \E c : LiesIn(i, c)'
    <3>1. /\ dir[i].st = "used" /\ op.existing_idx # i /\ dir'[i] = dir[i]
          /\ fat' = fat /\ failed' = failed
      BY <1>1, <2>1 DEF Commits
    <3>2. PICK c : LiesIn(i, c)
      BY <3>1 DEF StoreInv, FilesInv
    <3>3. dir[i].size \in Nat
      BY <1>2, SizeType
    <3>4. \A cl \in Clusters : (owner'[cl] = i) <=> (owner[cl] = i)
      BY <1>1, <1>2, <2>1 DEF Commits
    <3> QED BY <3>1, <3>2, <3>3, <3>4, KeepFile
  <2>2. \E c : LiesIn(k, c)'
    <3>1. PICK d : BuiltIn(d)
      BY <1>1 DEF StoreInv, NewInv, Commits
    <3>2. LiesIn(k, d)'
      BY <1>1, <3>1, WrittenFile
    <3> QED BY <3>2
  <2> QED BY <1>1, <2>1, <2>2 DEF FilesInv
<1>5. OldInv' /\ NewInv' /\ CallIs'
  BY <1>1 DEF OldInv, NewInv, CallIs, Commits
<1>6. NoLost'
  <2>1. \A cl \in Clusters : owner'[cl] = Lost => owner[cl] = Lost
    BY <1>1, <1>2 DEF Commits
  <2>2. failed' = failed
    BY <1>1 DEF Commits
  <2> QED BY <2>1, <2>2 DEF StoreInv, NoLost
<1>7. OwnersInv'
  <2>1. ASSUME NEW cl \in Clusters, owner'[cl] \in Slots
        PROVE  dir'[owner'[cl]].st = "used"
    <3>1. CASE owner[cl] = New
      BY <1>1, <3>1 DEF Commits
    <3>2. CASE owner[cl] # New
      <4>1. owner'[cl] = owner[cl] /\ owner[cl] # k
        BY <1>1, <3>2 DEF Commits
      <4>2. dir[owner[cl]].st = "used"
        BY <2>1, <4>1 DEF StoreInv, OwnersInv
      <4>3. dir'[owner[cl]] = dir[owner[cl]]
        BY <1>1, <2>1, <4>1 DEF Commits
      <4> QED BY <4>1, <4>2, <4>3
    <3> QED BY <3>1, <3>2
  <2> QED BY <1>1, <2>1 DEF OwnersInv, Commits
<1> QED BY <1>3, <1>4, <1>5, <1>6, <1>7 DEF StoreInv

\* What the end of a write under a name of Hidden changes.
LEMMA HiddenEffect ==
  ASSUME StoreInv, WriteHidden
  PROVE  \E k \in Slots :
           /\ pc = "alloc" /\ pc' = "idle" /\ op'.existing_idx = -1 /\ result' = 0
           /\ UNCHANGED <<fat, data>> /\ failed' = TRUE
           /\ op.existing_idx = -1 /\ -1 \notin Slots /\ op.name83 \in Hidden
           /\ dir[k].st # "used" /\ dir'[k].st # "used"
           /\ \A i \in Slots : i # k => dir'[i] = dir[i]
           /\ \A cl \in Clusters :
                owner'[cl] = IF owner[cl] = New THEN Lost ELSE owner[cl]
           /\ op.name83 \in Names83 /\ op.content \in Contents
<1> DEFINE k == EntryIndex
<1>1. /\ pc = "alloc" /\ pc' = "idle" /\ op' = NoOp /\ result' = 0 /\ failed' = TRUE
      /\ UNCHANGED <<fat, data>> /\ op.name83 \in Hidden
      /\ owner' = [cl \in Clusters |-> IF owner[cl] = New THEN Lost ELSE owner[cl]]
      /\ dir' = [dir EXCEPT ![k] = DeletedSlot]
  BY DEF WriteHidden, Return
<1>2. /\ k \in Slots /\ dir[k].st # "used" /\ op.existing_idx = -1
      /\ -1 \notin Slots /\ dir \in [Slots -> DirEntries]
  BY HiddenPlace, SlotsNat DEF StoreInv, FatInv, FatTypeOK
<1>3. DeletedSlot.st # "used" /\ op'.existing_idx = -1
  BY <1>1 DEF DeletedSlot, EndSlot, NoOp
<1>4. op.name83 \in Names83 /\ op.content \in Contents
  BY <1>1 DEF StoreInv, CallIs
<1> HIDE DEF k
<1>5. dir'[k] = DeletedSlot /\ \A i \in Slots : i # k => dir'[i] = dir[i]
  BY <1>1, <1>2
<1>6. \A cl \in Clusters : owner'[cl] = IF owner[cl] = New THEN Lost ELSE owner[cl]
  BY <1>1
<1> QED BY <1>1, <1>2, <1>3, <1>4, <1>5, <1>6

LEMMA WriteHiddenStoreInv ==
  ASSUME StoreInv, FatInv', DirInv', WriteHidden
  PROVE  StoreInv'
<1> USE DEF Free, Lost, New, Dying
<1>1. PICK k \in Slots :
           /\ pc = "alloc" /\ pc' = "idle" /\ op'.existing_idx = -1
           /\ UNCHANGED <<fat, data>> /\ failed' = TRUE
           /\ op.existing_idx = -1 /\ -1 \notin Slots
           /\ dir[k].st # "used" /\ dir'[k].st # "used"
           /\ \A i \in Slots : i # k => dir'[i] = dir[i]
           /\ \A cl \in Clusters :
                owner'[cl] = IF owner[cl] = New THEN Lost ELSE owner[cl]
  BY HiddenEffect
<1>2. FatTypeOK /\ Slots \subseteq Nat
  BY SlotsNat DEF StoreInv, FatInv
<1>3. Ascending'
  BY <1>1 DEF StoreInv, Ascending, EntryAt
<1>4. FilesInv'
  <2>1. ASSUME NEW i \in Slots, dir'[i].st = "used"
        PROVE  \E c : LiesIn(i, c)'
    <3>1. /\ i # k /\ dir[i].st = "used" /\ op.existing_idx # i /\ dir'[i] = dir[i]
          /\ fat' = fat
      BY <1>1, <2>1
    <3>2. PICK c : LiesIn(i, c)
      BY <3>1 DEF StoreInv, FilesInv
    <3>3. dir[i].size \in Nat
      BY <1>2, SizeType
    <3>4. \A cl \in Clusters : (owner'[cl] = i) <=> (owner[cl] = i)
      BY <1>1, <1>2
    <3> QED BY <1>1, <3>1, <3>2, <3>3, <3>4, KeepFile
  <2> QED BY <2>1 DEF FilesInv
<1>5. OldInv' /\ NewInv' /\ CallIs'
  BY <1>1 DEF OldInv, NewInv, CallIs
<1>6. NoLost'
  BY <1>1 DEF NoLost
<1>7. OwnersInv'
  <2>1. ASSUME NEW cl \in Clusters, owner'[cl] \in Slots
        PROVE  dir'[owner'[cl]].st = "used"
    <3>1. owner'[cl] = owner[cl]
      BY <1>1, <1>2, <2>1
    <3>2. dir[owner[cl]].st = "used"
      BY <2>1, <3>1 DEF StoreInv, OwnersInv
    <3>3. dir'[owner[cl]] = dir[owner[cl]]
      BY <1>1, <2>1, <3>1, <3>2
    <3> QED BY <3>1, <3>2, <3>3
  <2> QED BY <1>1, <2>1 DEF OwnersInv
<1> QED BY <1>3, <1>4, <1>5, <1>6, <1>7 DEF StoreInv

\* What the end of a delete changes.
LEMMA DeleteEffect ==
  ASSUME StoreInv, DeleteEntry
  PROVE  LET e == op.existing_idx
         IN  /\ pc = "unlink" /\ pc' = "idle" /\ op'.existing_idx = -1 /\ result' = 0
             /\ UNCHANGED <<fat, data, owner, failed>>
             /\ e \in Slots /\ -1 \notin Slots
             /\ dir[e].st = "used" /\ dir[e].name = op.name83
             /\ dir'[e].st # "used" /\ \A i \in Slots : i # e => dir'[i] = dir[i]
             /\ op.name83 \in Names83
<1> DEFINE e == op.existing_idx
<1>1. /\ pc = "unlink" /\ pc' = "idle" /\ op' = NoOp /\ result' = 0
      /\ UNCHANGED <<fat, data, owner, failed>>
      /\ dir' = [dir EXCEPT ![e] = DeletedSlot]
  BY DEF DeleteEntry, Return
<1>2. /\ e \in Slots /\ -1 \notin Slots /\ dir \in [Slots -> DirEntries]
      /\ EndsLast /\ e = Find(dir, op.name83)
  BY <1>1, SlotsNat DEF StoreInv, FatInv, FatTypeOK, Calls, CallInv, DirInv, FoundAtStart
<1>3. DeletedSlot.st # "used" /\ op'.existing_idx = -1
  BY <1>1 DEF DeletedSlot, EndSlot, NoOp
<1>4. dir[e].st = "used" /\ dir[e].name = op.name83
  BY <1>2, FindSpec
<1>5. op.name83 \in Names83
  BY <1>1 DEF StoreInv, CallIs
<1> HIDE DEF e
<1>6. dir'[e] = DeletedSlot /\ \A i \in Slots : i # e => dir'[i] = dir[i]
  BY <1>1, <1>2
<1> QED BY <1>1, <1>2, <1>3, <1>4, <1>5, <1>6 DEF e

LEMMA DeleteEntryStoreInv ==
  ASSUME StoreInv, FatInv', DirInv', DeleteEntry
  PROVE  StoreInv'
<1> DEFINE e == op.existing_idx
<1>1. /\ pc = "unlink" /\ pc' = "idle" /\ op'.existing_idx = -1
      /\ UNCHANGED <<fat, data, owner, failed>>
      /\ e \in Slots /\ -1 \notin Slots
      /\ dir'[e].st # "used" /\ \A i \in Slots : i # e => dir'[i] = dir[i]
      /\ FatTypeOK
  BY DeleteEffect DEF StoreInv, FatInv
<1> HIDE DEF e
<1>2. Ascending' /\ NoLost'
  BY <1>1 DEF StoreInv, Ascending, EntryAt, NoLost
<1>3. FilesInv'
  <2>1. ASSUME NEW i \in Slots, dir'[i].st = "used"
        PROVE  \E c : LiesIn(i, c)'
    <3>1. i # e /\ dir[i].st = "used" /\ dir'[i] = dir[i]
      BY <1>1, <2>1
    <3>2. PICK c : LiesIn(i, c)
      BY <3>1 DEF StoreInv, FilesInv, e
    <3>3. dir[i].size \in Nat
      BY <1>1, SizeType
    <3> QED BY <1>1, <3>1, <3>2, <3>3, KeepFile
  <2> QED BY <2>1 DEF FilesInv
<1>4. OldInv' /\ NewInv' /\ CallIs'
  BY <1>1 DEF OldInv, NewInv, CallIs
<1>5. OwnersInv'
  <2>1. ASSUME NEW cl \in Clusters, owner[cl] \in Slots
        PROVE  dir'[owner[cl]].st = "used"
    <3>1. dir[owner[cl]].st = "used" /\ owner[cl] # e
      BY <2>1 DEF StoreInv, OwnersInv, e
    <3> QED BY <1>1, <2>1, <3>1
  <2> QED BY <1>1, <2>1 DEF OwnersInv
<1> QED BY <1>2, <1>3, <1>4, <1>5 DEF StoreInv

\* A step that changes nothing but the last result.
LEMMA SameStoreInv ==
  ASSUME StoreInv, FatInv', DirInv', UNCHANGED <<fat, dir, data, pc, op, owner, old, failed>>
  PROVE  StoreInv'
<1>1. Ascending' /\ NoLost' /\ OwnersInv' /\ CallIs'
  BY DEF StoreInv, Ascending, EntryAt, NoLost, OwnersInv, CallIs
<1>2. FilesInv'
  BY DEF StoreInv, FilesInv, LiesIn, Exactly
<1>3. OldInv'
  BY DEF StoreInv, OldInv, LayIn, EntryAt, Exactly
<1>4. NewInv'
  BY DEF StoreInv, NewInv, BuiltIn, Exactly
<1> QED BY <1>1, <1>2, <1>3, <1>4 DEF StoreInv

LEMMA NextStoreInv ==
  ASSUME StoreInv, [FatNext]_fatVars
  PROVE  StoreInv'
<1>1. FatInv' /\ DirInv'
  BY NextFatInv, NextDirInv DEF StoreInv
<1>2. CASE FatCall
  <2>1. PICK n \in Names83 :
           \/ /\ Find(dir, n) = -1 /\ pc = "idle" /\ result' = -1
              /\ UNCHANGED <<fat, dir, data, pc, op, owner, old, failed>>
           \/ \E content \in Contents : \E locals :
                Beginning(locals, "write", n, content) /\ Start(locals, "alloc")
           \/ \E locals : /\ Beginning(locals, "delete", n, << >>)
                          /\ Find(dir, n) # -1 /\ Start(locals, "unlink")
    BY <1>2, CallBegins
  <2>2. CASE UNCHANGED <<fat, dir, data, pc, op, owner, old, failed>>
    BY <1>1, <2>2, SameStoreInv
  <2>3. ASSUME NEW content \in Contents, NEW locals,
               Beginning(locals, "write", n, content), Start(locals, "alloc")
        PROVE  StoreInv'
    BY <1>1, <2>3, StartStoreInv
  <2>4. ASSUME NEW locals, Beginning(locals, "delete", n, << >>), Start(locals, "unlink")
        PROVE  StoreInv'
    BY <1>1, <2>4, StartStoreInv
  <2> QED BY <2>1, <2>2, <2>3, <2>4
<1>3. CASE fat12_free_chain
  BY <1>1, <1>3, FreeStoreInv, FreedStoreInv
<1>4. CASE AllocCluster
  BY <1>1, <1>4, AllocStoreInv
<1>5. CASE DiskFull \/ DirectoryFull
  BY <1>1, <1>5, FailStoreInv
<1>6. CASE WriteEntry
  BY <1>1, <1>6, WriteEntryStoreInv
<1>7. CASE WriteHidden
  BY <1>1, <1>7, WriteHiddenStoreInv
<1>8. CASE DeleteEntry
  BY <1>1, <1>8, DeleteEntryStoreInv
<1>9. CASE UNCHANGED fatVars
  BY <1>1, <1>9, SameStoreInv DEF fatVars
<1> QED BY <1>2, <1>3, <1>4, <1>5, <1>6, <1>7, <1>8, <1>9 DEF FatNext, FatStep

LEMMA StoreInvariance == FatSpec => []StoreInv
<1>1. FatInit => StoreInv
  BY InitStoreInv
<1>2. StoreInv /\ [FatNext]_fatVars => StoreInv'
  BY NextStoreInv
<1> QED BY <1>1, <1>2, PTL DEF FatSpec

LEMMA InvNoLeak ==
  ASSUME StoreInv
  PROVE  NoLeak
<1> SUFFICES ASSUME pc = "idle", ~failed
             PROVE  /\ Lost \notin {owner[cl] : cl \in Clusters}
                    /\ \A i \in Slots : dir[i].st = "used" =>
                         /\ Reads(Volume, i) = dir[i].size
                         /\ {cl \in Clusters : owner[cl] = i} = Chain(Volume, i)
  BY DEF NoLeak
<1>1. FatTypeOK /\ op.existing_idx = -1 /\ -1 \notin Slots
  BY SlotsNat DEF StoreInv, FatInv, CallInv, NoOp
<1>2. Lost \notin {owner[cl] : cl \in Clusters}
  BY DEF StoreInv, NoLost
<1>3. ASSUME NEW i \in Slots, dir[i].st = "used"
      PROVE  /\ Reads(Volume, i) = dir[i].size
             /\ {cl \in Clusters : owner[cl] = i} = Chain(Volume, i)
  <2>1. PICK c : LiesIn(i, c)
    BY <1>1, <1>3 DEF StoreInv, FilesInv
  <2>2. PICK n \in Nat : n = dir[i].size
    BY <1>1, SizeType
  <2>3. /\ \A k \in 1 .. n : c[k] \in Clusters /\ owner[c[k]] = i
        /\ \A cl \in Clusters : owner[cl] = i => \E k \in 1 .. n : c[k] = cl
    BY <2>1, <2>2 DEF LiesIn, Run, Rising, Exactly
  <2>4. Reads(Volume, i) = n /\ \A k \in 1 .. n : Walk(Volume, i)[k - 1] = c[k]
    BY <1>1, <2>1, <2>2, ReadFile
  <2>5. Chain(Volume, i) = {Walk(Volume, i)[k] : k \in 0 .. n - 1}
    BY <2>4 DEF Chain
  <2> DEFINE w == Walk(Volume, i)
  <2> HIDE DEF w
  <2>6. {w[k] : k \in 0 .. n - 1} = {c[k] : k \in 1 .. n}
    <3>1. ASSUME NEW k \in 0 .. n - 1 PROVE w[k] \in {c[j] : j \in 1 .. n}
      <4>1. k + 1 \in 1 .. n /\ (k + 1) - 1 = k
        OBVIOUS
      <4> QED BY <2>4, <4>1 DEF w
    <3>2. ASSUME NEW k \in 1 .. n PROVE c[k] \in {w[j] : j \in 0 .. n - 1}
      <4>1. k - 1 \in 0 .. n - 1
        OBVIOUS
      <4> QED BY <2>4, <4>1 DEF w
    <3> QED BY <3>1, <3>2
  <2>7. Chain(Volume, i) = {c[k] : k \in 1 .. n}
    BY <2>5, <2>6 DEF w
  <2>8. {cl \in Clusters : owner[cl] = i} = {c[k] : k \in 1 .. n}
    BY <2>3
  <2> QED BY <2>2, <2>4, <2>7, <2>8
<1> QED BY <1>2, <1>3

\* As long as no write has returned -1 and none was under a name that begins
\* with 0xE5, deleting and overwriting return every cluster, and fat12_read_file finds a chain exactly as long as the entry's
\* size: no file is ever cut short by the loop's other exits.
THEOREM NothingLeaks == FatSpec => []NoLeak
<1>1. StoreInv => NoLeak
  BY InvNoLeak
<1> QED BY <1>1, StoreInvariance, PTL

-----------------------------------------------------------------------------
(* The driver implements FileStore. The steps of a call stutter until the  *)
(* last, which is the operation as its caller sees it.                     *)

\* A file the running call is not about keeps its entry and its content.
LEMMA UntouchedEntry ==
  ASSUME StoreInv, [FatNext]_fatVars, NEW i \in Slots, dir[i].st = "used",
         op.existing_idx # i
  PROVE  dir'[i] = dir[i] /\ ReadEntry(Volume, i)' = ReadEntry(Volume, i)
<1>1. SparesOthers
  <2>1. FatInv
    BY DEF StoreInv
  <2>2. CASE FatNext
    BY <2>1, <2>2, StepSparesOthers
  <2>3. CASE UNCHANGED fatVars
    BY <2>3 DEF fatVars, SparesOthers
  <2> QED BY <2>2, <2>3
<1>2. FatTypeOK /\ FatTypeOK'
  BY NextFatInv DEF StoreInv, FatInv
<1>3. PICK c : LiesIn(i, c)
  BY DEF StoreInv, FilesInv
<1>4. PICK n \in Nat : n = dir[i].size
  BY <1>2, SizeType
<1>5. PICK first \in Entry : first = dir[i].first_cluster
  BY <1>2, SizeType
<1>6. /\ Run(fat, c, n) /\ StartsAt(c, n, first) /\ Rising(c, n)
      /\ \A k \in 1 .. n : c[k] \in Clusters /\ owner[c[k]] = i
  BY <1>3, <1>4, <1>5 DEF LiesIn, Run, Rising
<1>7. dir'[i] = dir[i]
  BY <1>1 DEF SparesOthers
<1>8. \A k \in 1 .. n : fat12_read_fat(fat', c[k]) = fat12_read_fat(fat, c[k])
                        /\ data'[c[k]] = data[c[k]]
  BY <1>1, <1>6 DEF SparesOthers
<1>9. Run(fat', c, n)
  <2>1. 1 .. n - 1 \subseteq 1 .. n
    OBVIOUS
  <2> QED BY <1>6, <1>8, <2>1 DEF Run
<1>10. ReadEntry(Volume, i) = [k \in 1 .. n |-> data[c[k]]]
  BY <1>2, <1>3, <1>4, ReadFile
<1>11. ReadEntry(Volume', i) = [k \in 1 .. n |-> data'[c[k]]]
  <2>1. PICK v : v = Volume'
    OBVIOUS
  <2>2. v.fat = fat' /\ v.dir = dir' /\ v.data = data'
    BY <2>1 DEF Volume
  <2>3. HasRun(v, i, c, n, first)
    BY <1>2, <1>4, <1>5, <1>6, <1>7, <1>9, <2>2 DEF HasRun, FatTypeOK, Tables
  <2>4. /\ \A k \in 1 .. n : Walk(v, i)[k - 1] = c[k]
        /\ Reads(v, i) = n
        /\ ReadEntry(v, i) = [k \in 1 .. n |-> v.data[c[k]]]
    BY <2>3, ReadRun
  <2> QED BY <2>1, <2>2, <2>4
<1>12. ReadEntry(Volume', i) = ReadEntry(Volume, i)
  BY <1>8, <1>10, <1>11
<1> QED BY <1>7, <1>12

\* An entry that a step creates has the running call's name.
LEMMA StepNames ==
  ASSUME StoreInv, [FatNext]_fatVars, NEW i \in Slots, dir'[i].st = "used",
         dir'[i] # dir[i]
  PROVE  pc # "idle" /\ dir'[i].name = op.name83
<1>1. CASE FatCall
  <2>1. dir' = dir
    BY <1>1 DEF FatCall, fat12_write_file, fat12_delete_file, DeleteMissing, Start
  <2> QED BY <2>1
<1>2. CASE fat12_free_chain \/ AllocCluster \/ DiskFull \/ DirectoryFull
  BY <1>2 DEF fat12_free_chain, AllocCluster, DiskFull, DirectoryFull, FailWrite
<1>3. CASE WriteEntry
  BY <1>3, WriteEntryEffect DEF Commits
<1>4. CASE WriteHidden
  BY <1>4, HiddenEffect
<1>5. CASE DeleteEntry
  BY <1>5, DeleteEffect
<1>6. CASE UNCHANGED fatVars
  BY <1>6 DEF fatVars
<1> QED BY <1>1, <1>2, <1>3, <1>4, <1>5, <1>6 DEF FatNext, FatStep

\* FindSpec and FindIt, after a step.
FindsName(n) ==
  /\ \/ /\ Find(dir, n) \in Slots /\ dir[Find(dir, n)].st = "used"
        /\ dir[Find(dir, n)].name = n
     \/ /\ Find(dir, n) = -1
        /\ \A i \in Slots : ~(dir[i].st = "used" /\ dir[i].name = n)
  /\ \A i \in Slots : dir[i].st = "used" /\ dir[i].name = n => Find(dir, n) = i

LEMMA FindsNow == DirInv => \A n : FindsName(n)
BY FindSpec, FindIt DEF DirInv, FindsName

LEMMA FindsNext ==
  ASSUME StoreInv, [FatNext]_fatVars
  PROVE  \A n : FindsName(n)'
<1>1. (DirInv => \A n : FindsName(n))'
  BY FindsNow, PTL
<1>2. DirInv'
  BY NextDirInv DEF StoreInv
<1> QED BY <1>1, <1>2

\* What every name but the running call's reads as.
LEMMA OtherNames ==
  ASSUME StoreInv, [FatNext]_fatVars, NEW n, pc # "idle" => n # op.name83
  PROVE  fat12_read_file(Volume, n)' = fat12_read_file(Volume, n)
<1>1. EndsLast /\ FoundAtStart /\ -1 \notin Slots /\ FindsName(n)'
  BY FindsNext, SlotsNat DEF StoreInv, DirInv
<1>2. /\ fat12_read_file(Volume, n) =
           IF Find(dir, n) = -1 THEN NoFile ELSE ReadEntry(Volume, Find(dir, n))
      /\ fat12_read_file(Volume', n) =
           IF Find(dir', n) = -1 THEN NoFile ELSE ReadEntry(Volume', Find(dir', n))
  BY DEF fat12_read_file, Volume
<1>3. CASE Find(dir, n) = -1
  <2>1. \A i \in Slots : ~(dir[i].st = "used" /\ dir[i].name = n)
    BY <1>1, <1>3, FindSpec
  <2>2. \A i \in Slots : ~(dir'[i].st = "used" /\ dir'[i].name = n)
    BY <2>1, StepNames
  <2>3. Find(dir', n) = -1
    BY <1>1, <2>2 DEF FindsName
  <2> QED BY <1>2, <1>3, <2>3
<1>4. CASE Find(dir, n) # -1
  <2>1. PICK i \in Slots : i = Find(dir, n) /\ dir[i].st = "used" /\ dir[i].name = n
    BY <1>1, <1>4, FindSpec
  <2>2. op.existing_idx # i
    <3>1. CASE pc = "idle"
      BY <1>1, <3>1 DEF StoreInv, FatInv, CallInv, NoOp
    <3>2. CASE pc # "idle"
      <4>1. op.existing_idx = i => dir[i].name = op.name83
        BY <1>1, <3>2, FindSpec DEF FoundAtStart
      <4> QED BY <2>1, <3>2, <4>1
    <3> QED BY <3>1, <3>2
  <2>3. dir'[i] = dir[i] /\ ReadEntry(Volume', i) = ReadEntry(Volume, i)
    BY <2>1, <2>2, UntouchedEntry
  <2>4. Find(dir', n) = i
    <3>1. dir'[i].st = "used" /\ dir'[i].name = n
      BY <2>1, <2>3
    <3> QED BY <1>1, <3>1 DEF FindsName
  <2> QED BY <1>1, <1>2, <1>4, <2>1, <2>3, <2>4
<1> QED BY <1>3, <1>4

Abstract == [n \in Names83 |-> Stored(n)]

\* What one step does to the abstract store.
LEMMA AbstractOthers ==
  ASSUME StoreInv, [FatNext]_fatVars, NEW n \in Names83,
         pc # "idle" => n # op.name83, pc' # "idle" => n # op'.name83
  PROVE  Stored(n)' = Stored(n)
BY OtherNames DEF Stored

\* The store changes at most at the running call's name.
LEMMA AbstractChange ==
  ASSUME StoreInv, [FatNext]_fatVars, NEW n \in Names83, pc # "idle", pc' = "idle",
         op.name83 = n, NEW x, fat12_read_file(Volume', n) = x
  PROVE  /\ Abstract' = [Abstract EXCEPT ![n] = x] /\ Abstract[n] = old
         /\ x = old => Abstract' = Abstract
<1>1. \A m \in Names83 : m # n => Stored(m)' = Stored(m)
  BY AbstractOthers
<1>2. Stored(n)' = x /\ Stored(n) = old
  BY DEF Stored
<1> QED BY <1>1, <1>2 DEF Abstract

LEMMA InitRefines == FatInit => Store!Init
<1> SUFFICES ASSUME FatInit PROVE Store!Init
  OBVIOUS
<1>1. pc = "idle" /\ result = 0 /\ EndsLast /\ \A i \in Slots : dir[i].st # "used"
  BY InitDirInv DEF FatInit, FreshDir, EndSlot, DirInv
<1>2. ASSUME NEW n \in Names83 PROVE Stored(n) = NoFile
  <2>1. Find(dir, n) = -1
    BY <1>1, FindSpec
  <2> QED BY <1>1, <2>1 DEF Stored, fat12_read_file, Volume
<1> QED BY <1>1, <1>2 DEF Store!Init

\* Until a call returns its caller sees nothing, and if it looked for a file
\* to delete in vain it sees only that.
LEMMA CallRefines ==
  ASSUME StoreInv, FatCall
  PROVE  \/ Abstract' = Abstract /\ result' = result
         \/ \E n \in Names83 : Abstract' = Abstract /\ result' = -1 /\ Abstract[n] = NoFile
<1>1. [FatNext]_fatVars
  BY DEF FatNext
<1>2. PICK n \in Names83 :
         \/ /\ Find(dir, n) = -1 /\ pc = "idle" /\ result' = -1
            /\ UNCHANGED <<fat, dir, data, pc, op, owner, old, failed>>
         \/ \E content \in Contents : \E locals :
              Beginning(locals, "write", n, content) /\ Start(locals, "alloc")
         \/ \E locals : /\ Beginning(locals, "delete", n, << >>)
                        /\ Find(dir, n) # -1 /\ Start(locals, "unlink")
  BY CallBegins
<1>3. CASE /\ Find(dir, n) = -1 /\ pc = "idle" /\ result' = -1
           /\ UNCHANGED <<fat, dir, data, pc, op, owner, old, failed>>
  <2>1. \A m \in Names83 : Stored(m)' = Stored(m)
    BY <1>1, <1>3, AbstractOthers
  <2>2. Stored(n) = NoFile
    BY <1>3 DEF Stored, fat12_read_file, Volume
  <2> QED BY <1>3, <2>1, <2>2 DEF Abstract
<1>4. ASSUME NEW locals, NEW kind \in {"write", "delete"}, NEW content,
             Beginning(locals, kind, n, content),
             NEW next \in {"alloc", "unlink"}, Start(locals, next)
      PROVE  Abstract' = Abstract /\ result' = result
  <2>1. locals \in Calls /\ locals.name83 = n
    BY <1>4 DEF Beginning
  <2>2. /\ pc = "idle" /\ pc' # "idle" /\ op'.name83 = n /\ result' = result
        /\ old' = fat12_read_file(Volume, n)
    BY <1>4, <2>1, StartEffect DEF StoreInv
  <2>3. \A m \in Names83 : m # n => Stored(m)' = Stored(m)
    BY <1>1, <2>2, AbstractOthers
  <2>4. Stored(n)' = Stored(n)
    BY <2>2 DEF Stored
  <2> QED BY <2>2, <2>3, <2>4 DEF Abstract
<1> QED BY <1>2, <1>3, <1>4

\* Part of a sequence, given by where it begins and how long it is.
LEMMA StretchIs ==
  ASSUME NEW s \in Seq(Blocks), NEW p \in Nat, NEW m \in Nat, p >= 1, p + m <= Len(s) + 1
  PROVE  \E part \in Store!Stretch(s) :
           part = [k \in 1 .. m |-> s[p + (k - 1)]] /\ Len(part) = m
<1>1. PICK q \in Int : q = p + (m - 1)
  OBVIOUS
<1>2. p \in 1 .. Len(s) + 1 /\ q \in 0 .. Len(s) /\ p \in Int /\ (q - p) + 1 = m
  BY <1>1
<1>3. \A i \in p .. q : s[i] \in Blocks
  BY <1>2
<1>4. PICK part : part = SubSeq(s, p, q)
  OBVIOUS
<1>5. part \in Store!Stretch(s)
  BY <1>2, <1>4 DEF Store!Stretch
<1>6. /\ part \in Seq(Blocks) /\ Len(part) = (IF p <= q THEN q - p + 1 ELSE 0)
      /\ \A i \in 1 .. q - p + 1 : part[i] = s[p + i - 1]
  BY <1>2, <1>3, <1>4, SubSeqProperties
<1>7. Len(part) = m /\ part = [k \in 1 .. m |-> part[k]]
  BY <1>1, <1>6
<1>8. \A k \in 1 .. m : part[k] = s[p + (k - 1)]
  <2>1. \A k \in 1 .. m : p + k - 1 = p + (k - 1) /\ k \in 1 .. q - p + 1
    BY <1>1
  <2> QED BY <1>6, <2>1
<1> QED BY <1>5, <1>7, <1>8

\* A failed write leaves nothing, or a stretch of the new content no longer
\* than what was there.
LEMMA FailRefines ==
  ASSUME StoreInv, DiskFull \/ DirectoryFull
  PROVE  \E n \in Names83, content \in Contents :
           /\ result' = -1
           /\ \/ Abstract' = Abstract
              \/ /\ Abstract[n] # NoFile
                 /\ \E part \in Store!Stretch(content) :
                      Len(part) <= Len(Abstract[n]) /\ Abstract' = [Abstract EXCEPT ![n] = part]
<1>a. PICK e : e = op.existing_idx
  OBVIOUS
<1>1. [FatNext]_fatVars
  BY DEF FatNext, FatStep
<1>2. /\ pc = "alloc" /\ pc' = "idle" /\ result' = -1 /\ UNCHANGED <<fat, dir, data>>
      /\ e \in Slots \cup {-1} /\ -1 \notin Slots
      /\ e # -1 => /\ dir[e].st = "used" /\ dir[e].name = op.name83
                   /\ \A cl \in Clusters : owner[cl] # Free
  BY <1>a, FailEffect
<1>3. PICK n \in Names83, content \in Contents : n = op.name83 /\ content = op.content
  BY <1>2 DEF StoreInv, CallIs
<1>4. Find(dir', n) = e
  BY <1>a, <1>2, <1>3 DEF StoreInv, DirInv, FoundAtStart
<1>5. CASE e = -1
  <2>1. fat12_read_file(Volume', n) = NoFile
    BY <1>4, <1>5 DEF fat12_read_file, Volume
  <2>2. old = NoFile
    BY <1>a, <1>2, <1>5 DEF StoreInv, CallIs
  <2>3. Abstract' = Abstract
    BY <1>1, <1>2, <1>3, <2>1, <2>2, AbstractChange
  <2> QED BY <1>2, <2>3
<1>6. CASE e # -1
  <2>1. PICK t, p : TailOfNew(t, p)
    BY <1>a, <1>2, <1>6, OldTailInNew
  <2>2. FatTypeOK /\ content \in Seq(Blocks) /\ op.written \in Nat /\ op.written <= Len(content)
    BY <1>3, ContentsAssumption DEF StoreInv, FatInv, FatTypeOK, Calls
  <2>3. PICK m \in Nat : m = dir[e].size
    BY <1>2, <1>6, <2>2, SizeType
  <2>4. PICK first \in Entry : first = dir[e].first_cluster
    BY <1>2, <1>6, <2>2, SizeType
  <2>5. /\ p \in Nat /\ p >= 1 /\ p + m <= op.written + 1
        /\ Run(fat, t, m) /\ StartsAt(t, m, first)
        /\ \A k \in 1 .. m : data[t[k]] = content[p + (k - 1)]
    BY <1>a, <1>3, <2>1, <2>3, <2>4 DEF TailOfNew
  <2>6. p + m <= Len(content) + 1
    BY <2>2, <2>5
  <2>7. PICK part \in Store!Stretch(content) :
          part = [k \in 1 .. m |-> content[p + (k - 1)]] /\ Len(part) = m
    BY <2>2, <2>5, <2>6, StretchIs
  <2>8. fat12_read_file(Volume', n) = part
    <3>1. PICK v : v = Volume'
      OBVIOUS
    <3>2. v.fat = fat /\ v.dir = dir /\ v.data = data
      BY <1>2, <3>1 DEF Volume
    <3>3. HasRun(v, e, t, m, first)
      BY <2>2, <2>3, <2>4, <2>5, <3>2 DEF HasRun, FatTypeOK, Tables
    <3>4. /\ \A k \in 1 .. m : Walk(v, e)[k - 1] = t[k]
          /\ Reads(v, e) = m
          /\ ReadEntry(v, e) = [k \in 1 .. m |-> v.data[t[k]]]
      BY <3>3, ReadRun
    <3>5. fat12_read_file(v, n) = ReadEntry(v, e)
      BY <1>2, <1>4, <1>6, <3>2 DEF fat12_read_file
    <3>6. ReadEntry(v, e) = part
      BY <2>5, <2>7, <3>2, <3>4
    <3> QED BY <3>1, <3>5, <3>6
  <2>9. old \in Seq(Blocks) /\ Len(old) = m /\ old # NoFile
    BY <1>a, <1>2, <1>6, <2>3, ContentsAssumption DEF StoreInv, CallIs
  <2>10. Abstract' = [Abstract EXCEPT ![n] = part] /\ Abstract[n] = old
    BY <1>1, <1>2, <1>3, <2>8, AbstractChange
  <2>11. Abstract[n] # NoFile /\ Len(part) <= Len(Abstract[n])
    BY <2>7, <2>9, <2>10
  <2>12. \E x \in Store!Stretch(content) :
           Len(x) <= Len(Abstract[n]) /\ Abstract' = [Abstract EXCEPT ![n] = x]
    BY <2>10, <2>11
  <2> QED BY <1>2, <2>11, <2>12
<1> QED BY <1>5, <1>6

\* A successful write is read back whole.
LEMMA WriteRefines ==
  ASSUME StoreInv, WriteEntry
  PROVE  \E n \in Names83, content \in Contents :
           /\ n \notin Hidden
           /\ result' = 0 /\ Abstract' = [Abstract EXCEPT ![n] = content]
<1>1. [FatNext]_fatVars
  BY DEF FatNext, FatStep
<1>2. PICK k : Commits(k)
  BY WriteEntryEffect
<1>3. PICK n \in Names83, content \in Contents : n = op.name83 /\ content = op.content
  BY <1>2 DEF Commits
<1>4. PICK d : BuiltIn(d)
  BY <1>2 DEF StoreInv, NewInv, Commits
<1>5. PICK w \in Nat : w = op.written
  BY <1>2 DEF Commits
<1>6. /\ k \in Slots /\ -1 \notin Slots /\ fat' = fat /\ data' = data
      /\ dir'[k].st = "used" /\ dir'[k].name = n
      /\ dir'[k].size = w /\ dir'[k].first_cluster = op.first_cluster
      /\ w = Len(content) /\ content \in Seq(Blocks) /\ fat \in Tables
  BY <1>2, <1>3, <1>5, ContentsAssumption DEF Commits, StoreInv, FatInv, FatTypeOK, Tables
<1>7. Find(dir', n) = k
  BY <1>1, <1>6, FindsNext DEF FindsName
<1>8. PICK first \in Entry : first = op.first_cluster
  <2>1. 0 \in Entry
    BY DEF Entry
  <2> QED BY <2>1, Geometry DEF StoreInv, FatInv, FatTypeOK, Calls
<1>9. /\ Run(fat, d, w) /\ StartsAt(d, w, first)
      /\ \A j \in 1 .. w : data[d[j]] = content[j]
  BY <1>3, <1>4, <1>5, <1>8 DEF BuiltIn
<1>10. fat12_read_file(Volume', n) = content
  <2>1. PICK v : v = Volume'
    OBVIOUS
  <2>2. v.fat = fat /\ v.dir = dir' /\ v.data = data
    BY <1>6, <2>1 DEF Volume
  <2>3. HasRun(v, k, d, w, first)
    BY <1>6, <1>8, <1>9, <2>2 DEF HasRun
  <2>4. /\ \A j \in 1 .. w : Walk(v, k)[j - 1] = d[j]
        /\ Reads(v, k) = w
        /\ ReadEntry(v, k) = [j \in 1 .. w |-> v.data[d[j]]]
    BY <2>3, ReadRun
  <2>5. fat12_read_file(v, n) = ReadEntry(v, k)
    BY <1>6, <1>7, <2>2 DEF fat12_read_file
  <2>6. ReadEntry(v, k) = [j \in 1 .. w |-> content[j]]
    BY <1>9, <2>2, <2>4
  <2>7. content = [j \in 1 .. w |-> content[j]]
    BY <1>6
  <2> QED BY <2>1, <2>5, <2>6, <2>7
<1>11. Abstract' = [Abstract EXCEPT ![n] = content]
  <2>1. pc # "idle" /\ pc' = "idle" /\ result' = 0
    BY <1>2 DEF Commits
  <2> QED BY <1>1, <1>3, <1>10, <2>1, AbstractChange
<1> QED BY <1>2, <1>3, <1>11 DEF Commits, WriteEntry

\* Under a name of Hidden there was no file and there is none.
LEMMA HiddenRefines ==
  ASSUME StoreInv, WriteHidden
  PROVE  \E n \in Names83, content \in Contents :
           n \in Hidden /\ result' = 0 /\ Abstract' = Abstract
<1>1. [FatNext]_fatVars
  BY DEF FatNext, FatStep
<1>2. /\ pc # "idle" /\ pc' = "idle" /\ result' = 0 /\ op.existing_idx = -1
      /\ op.name83 \in Hidden /\ op.name83 \in Names83 /\ op.content \in Contents
  BY HiddenEffect
<1>3. PICK n \in Names83 : n = op.name83
  BY <1>2
<1>4. \A i \in Slots : ~(dir'[i].st = "used" /\ dir'[i].name = n)
  BY <1>1, <1>2, <1>3, NextDirInv DEF StoreInv, DirInv, HiddenUnseen
<1>5. Find(dir', n) = -1
  BY <1>1, <1>4, FindsNext DEF FindsName
<1>6. fat12_read_file(Volume', n) = NoFile
  BY <1>5 DEF fat12_read_file, Volume
<1>7. old = NoFile
  BY <1>2 DEF StoreInv, CallIs
<1>8. Abstract' = Abstract
  BY <1>1, <1>2, <1>3, <1>6, <1>7, AbstractChange
<1> QED BY <1>2, <1>3, <1>8

\* A delete removes the file it found when it began.
LEMMA DeleteRefines ==
  ASSUME StoreInv, DeleteEntry
  PROVE  \E n \in Names83 :
           /\ result' = 0 /\ Abstract[n] # NoFile
           /\ Abstract' = [Abstract EXCEPT ![n] = NoFile]
<1> DEFINE e == op.existing_idx
<1>1. [FatNext]_fatVars
  BY DEF FatNext, FatStep
<1>2. /\ pc = "unlink" /\ pc' = "idle" /\ result' = 0 /\ e \in Slots /\ -1 \notin Slots
      /\ dir[e].st = "used" /\ dir[e].name = op.name83
      /\ dir'[e].st # "used" /\ \A i \in Slots : i # e => dir'[i] = dir[i]
  BY DeleteEffect
<1>3. PICK n \in Names83 : n = op.name83
  BY DeleteEffect
<1>4. \A i \in Slots : ~(dir'[i].st = "used" /\ dir'[i].name = n)
  BY <1>2, <1>3 DEF StoreInv, DirInv, NamesUnique
<1>5. Find(dir', n) = -1
  BY <1>1, <1>4, FindsNext DEF FindsName
<1>6. fat12_read_file(Volume', n) = NoFile
  BY <1>5 DEF fat12_read_file, Volume
<1>7. old # NoFile
  <2>1. old \in Seq(Blocks)
    BY <1>2 DEF StoreInv, CallIs
  <2> QED BY <2>1, ContentsAssumption
<1>8. Abstract' = [Abstract EXCEPT ![n] = NoFile] /\ Abstract[n] = old
  BY <1>1, <1>2, <1>3, <1>6, AbstractChange
<1> QED BY <1>2, <1>7, <1>8

LEMMA StepRefines ==
  ASSUME StoreInv, [FatNext]_fatVars
  PROVE  [Store!Next]_<<Abstract, result>>
<1>1. CASE FatCall
  BY <1>1, CallRefines DEF Store!Next, Store!Delete, Abstract
<1>2. CASE fat12_free_chain \/ AllocCluster
  <2>1. /\ pc # "idle" /\ pc' # "idle" /\ op'.name83 = op.name83 /\ old' = old
        /\ result' = result
    BY <1>2 DEF fat12_free_chain, AllocCluster, StoreInv, FatInv, FatTypeOK, Calls
  <2>2. ASSUME NEW n \in Names83 PROVE Stored(n)' = Stored(n)
    <3>1. CASE n = op.name83
      BY <2>1, <3>1 DEF Stored
    <3>2. CASE n # op.name83
      BY <2>1, <3>2, AbstractOthers
    <3> QED BY <3>1, <3>2
  <2>3. Abstract' = Abstract
    BY <2>2 DEF Abstract
  <2> QED BY <2>1, <2>3
<1>3. CASE DiskFull \/ DirectoryFull
  BY <1>3, FailRefines DEF Store!Next, Store!FailWrite, Abstract
<1>4. CASE WriteEntry
  BY <1>4, WriteRefines DEF Store!Next, Store!Write, Abstract
<1>5. CASE WriteHidden
  BY <1>5, HiddenRefines DEF Store!Next, Store!Write, Abstract
<1>6. CASE DeleteEntry
  BY <1>6, DeleteRefines DEF Store!Next, Store!Delete, Abstract
<1>7. CASE UNCHANGED fatVars
  <2>1. Abstract' = Abstract
    BY <1>7, AbstractOthers DEF fatVars, Abstract, Stored, fat12_read_file, Volume
  <2> QED BY <1>7, <2>1 DEF fatVars
<1> QED BY <1>1, <1>2, <1>3, <1>4, <1>5, <1>6, <1>7 DEF FatNext, FatStep

\* Where the table fits in the FAT's sectors, fat12_write_file,
\* fat12_delete_file and fat12_read_file implement a store of independent
\* files: a write that returns 0 is read back whole, unless the name begins
\* with 0xE5, when nothing is stored; one that returns -1 creates nothing and
\* leaves at most a stretch of the new content in an old file; and no call
\* changes what another name reads as.
THEOREM FilesAreIndependent == FatSpec => RefinesFileStore
<1>1. FatInit => Store!Init
  BY InitRefines
<1>2. StoreInv /\ [FatNext]_fatVars => [Store!Next]_<<[n \in Names83 |-> Stored(n)], result>>
  BY StepRefines DEF Abstract
<1> QED BY <1>1, <1>2, StoreInvariance, PTL DEF FatSpec, RefinesFileStore, Store!Spec
=============================================================================
