---------------------------- MODULE DiskFsProofs ----------------------------
(***************************************************************************)
(* What DiskFs promises for every geometry, every chunk size and every     *)
(* number of calls and faults: the variables keep their types, also on a   *)
(* damaged volume; a partition that was written whole is the volume in     *)
(* memory and gives the next boot a sound one; and a power cut at any      *)
(* moment, or a drive error that ata.c reports or misses, costs at most    *)
(* the files that were changed since.                                      *)
(***************************************************************************)
EXTENDS DiskFs, Fat12Proofs

-----------------------------------------------------------------------------
(* The ramdisk's sample files lie one behind the other.                    *)

SizeOf(k) == Len(Defaults[k][2])

LEMMA DefaultsTypes ==
  /\ Len(Defaults) \in Nat /\ Len(Defaults) <= root_entry_count
  /\ \A k \in 1 .. Len(Defaults) :
       /\ Defaults[k][1] \in Names83 \ Hidden /\ Defaults[k][2] \in Seq(Blocks)
       /\ SizeOf(k) \in Nat /\ SizeOf(k) >= 1
<1>1. ASSUME NEW k \in 1 .. Len(Defaults)
      PROVE  /\ Defaults[k][1] \in Names83 \ Hidden /\ Defaults[k][2] \in Seq(Blocks)
             /\ SizeOf(k) \in Nat /\ SizeOf(k) >= 1
  <2>1. Defaults[k] \in (Names83 \ Hidden) \X (Seq(Blocks) \ {<< >>})
    BY DefaultsAssumption
  <2>2. /\ Defaults[k][1] \in Names83 \ Hidden /\ Defaults[k][2] \in Seq(Blocks)
        /\ Defaults[k][2] # << >>
    BY <2>1
  <2> QED BY <2>2 DEF SizeOf
<1> QED BY <1>1, DefaultsAssumption

LEMMA FirstOfSpec ==
  \A k \in 1 .. Len(Defaults) :
    /\ FirstOf[k] \in Nat /\ FirstOf[k] >= 2
    /\ FirstOf[k] = IF k = 1 THEN 2 ELSE FirstOf[k - 1] + SizeOf(k - 1)
<1> DEFINE N == Len(Defaults)
           T == {n \in Nat : n >= 2}
           step == [p \in Nat \X T |-> p[2] + (IF p[1] \in 1 .. N THEN SizeOf(p[1]) ELSE 0)]
           Body(f) == [k \in 1 .. N |-> IF k = 1 THEN 2 ELSE f[k - 1] + SizeOf(k - 1)]
<1>1. N \in Nat /\ \A k \in 1 .. N : SizeOf(k) \in Nat
  BY DefaultsTypes
<1>2. ASSUME NEW k \in Nat, NEW t \in T
      PROVE  /\ step[<<k, t>>] \in T
             /\ k \in 1 .. N => step[<<k, t>>] = t + SizeOf(k)
  BY <1>1
<1>3. 2 \in T
  OBVIOUS
<1> HIDE DEF N, step, Body
<1>4. PICK g : g \in [0 .. N -> T] /\ g[0] = 2 /\ \A k \in 1 .. N : g[k] = step[<<k, g[k - 1]>>]
  <2>1. IsUpdate(step, T)
    BY <1>2 DEF IsUpdate
  <2> HIDE DEF T
  <2>2. \E g : IsCourse(g, T, 2, step, N)
    BY <1>1, <1>3, <2>1, Recursion
  <2> QED BY <2>2 DEF IsCourse
<1>5. \A k \in 1 .. N : g[k] = g[k - 1] + SizeOf(k)
  <2>1. ASSUME NEW k \in 1 .. N PROVE g[k] = g[k - 1] + SizeOf(k)
    <3>1. k - 1 \in 0 .. N /\ k \in Nat
      BY <1>1
    <3> HIDE DEF T
    <3> QED BY <1>2, <1>4, <3>1
  <2> QED BY <2>1
<1> DEFINE h == [k \in 1 .. N |-> g[k - 1]]
<1>6. h = Body(h)
  <2>1. ASSUME NEW k \in 1 .. N
        PROVE  h[k] = IF k = 1 THEN 2 ELSE h[k - 1] + SizeOf(k - 1)
    <3>1. CASE k = 1
      BY <1>4, <3>1
    <3>2. CASE k # 1
      <4>1. k - 1 \in 1 .. N /\ k \in 1 .. N
        BY <1>1, <3>2
      <4> QED BY <1>5, <3>2, <4>1
    <3> QED BY <3>1, <3>2
  <2> HIDE DEF h
  <2>2. h = [k \in 1 .. N |-> h[k]]
    BY DEF h
  <2> QED BY <2>1, <2>2 DEF Body
<1>7. FirstOf = Body(FirstOf)
  <2>1. FirstOf = CHOOSE f : f = Body(f)
    BY DEF FirstOf, Body, N, SizeOf
  <2>2. \E f : f = Body(f)
    BY <1>6
  <2> HIDE DEF h
  <2> QED BY <2>1, <2>2
<1> DEFINE F == FirstOf
<1> HIDE DEF F, h
<1>8. F = [k \in 1 .. N |-> F[k]] /\ \A k \in 1 .. N : F[k] = IF k = 1 THEN 2 ELSE F[k - 1] + SizeOf(k - 1)
  <2>1. F = Body(F)
    BY <1>7 DEF F
  <2> QED BY <2>1 DEF Body
<1>9. \A k \in Nat : k \in 1 .. N => F[k] = g[k - 1]
  <2> DEFINE S == {k \in Nat : k + 1 \in 1 .. N => F[k + 1] = g[k]}
  <2>1. 0 \in S
    <3>1. \A k \in 1 .. N : k = 1 => F[k] = 2
      BY <1>8
    <3>2. 0 + 1 = 1 /\ g[0] = 2
      BY <1>4
    <3> QED BY <3>1, <3>2
  <2>2. ASSUME NEW k \in Nat, k \in S PROVE k + 1 \in S
    <3> SUFFICES ASSUME (k + 1) + 1 \in 1 .. N PROVE F[(k + 1) + 1] = g[k + 1]
      OBVIOUS
    <3>1. k + 1 \in 1 .. N /\ (k + 1) + 1 # 1 /\ ((k + 1) + 1) - 1 = k + 1 /\ (k + 1) - 1 = k
      BY <1>1
    <3>2. F[k + 1] = g[k]
      BY <2>2, <3>1
    <3>3. F[(k + 1) + 1] = F[k + 1] + SizeOf(k + 1)
      BY <1>8, <3>1
    <3>4. g[k + 1] = g[k] + SizeOf(k + 1)
      BY <1>5, <3>1
    <3> QED BY <3>2, <3>3, <3>4
  <2>3. Nat \subseteq S
    <3> HIDE DEF S
    <3> QED BY <2>1, <2>2, InductionOnSets
  <2>4. ASSUME NEW k \in Nat, k \in 1 .. N PROVE F[k] = g[k - 1]
    <3>1. k - 1 \in Nat /\ (k - 1) + 1 = k
      BY <2>4
    <3> QED BY <2>3, <2>4, <3>1
  <2> QED BY <2>4
<1>10. ASSUME NEW k \in 1 .. N PROVE F[k] \in Nat /\ F[k] >= 2
  <2>1. k \in Nat /\ k - 1 \in 0 .. N
    BY <1>1
  <2> QED BY <1>4, <1>9, <2>1
<1> QED BY <1>8, <1>10 DEF F, N

\* A later file begins behind an earlier one.
LEMMA FirstOfAscends ==
  \A j, k \in 1 .. Len(Defaults) : j < k => FirstOf[j] + SizeOf(j) <= FirstOf[k]
<1> DEFINE N == Len(Defaults)
           S == {d \in Nat : \A j \in 1 .. N :
                   j + (d + 1) \in 1 .. N => FirstOf[j] + SizeOf(j) <= FirstOf[j + (d + 1)]}
<1>1. /\ N \in Nat
      /\ \A k \in 1 .. N : SizeOf(k) \in Nat /\ FirstOf[k] \in Nat
      /\ \A k \in 1 .. N : k # 1 => FirstOf[k] = FirstOf[k - 1] + SizeOf(k - 1)
  BY DefaultsTypes, FirstOfSpec
<1> HIDE DEF N
<1>2. 0 \in S
  <2>1. ASSUME NEW j \in 1 .. N, j + 1 \in 1 .. N
        PROVE  FirstOf[j] + SizeOf(j) <= FirstOf[j + 1]
    <3>1. j + 1 # 1 /\ (j + 1) - 1 = j
      OBVIOUS
    <3>2. FirstOf[j + 1] = FirstOf[j] + SizeOf(j)
      BY <1>1, <2>1, <3>1
    <3>3. FirstOf[j] \in Nat /\ SizeOf(j) \in Nat
      BY <1>1
    <3> QED BY <3>2, <3>3
  <2> QED BY <2>1
<1>3. ASSUME NEW d \in Nat, d \in S PROVE d + 1 \in S
  <2>1. ASSUME NEW j \in 1 .. N, j + ((d + 1) + 1) \in 1 .. N
        PROVE  FirstOf[j] + SizeOf(j) <= FirstOf[j + ((d + 1) + 1)]
    <3>1. PICK m \in 1 .. N : m = j + (d + 1)
      BY <1>1, <2>1
    <3>2. m + 1 \in 1 .. N /\ m + 1 # 1 /\ (m + 1) - 1 = m /\ m + 1 = j + ((d + 1) + 1)
      BY <2>1, <3>1
    <3>3. FirstOf[j] + SizeOf(j) <= FirstOf[m]
      BY <1>3, <3>1
    <3>4. FirstOf[m + 1] = FirstOf[m] + SizeOf(m)
      BY <1>1, <3>2
    <3>5. FirstOf[j] \in Nat /\ SizeOf(j) \in Nat /\ FirstOf[m] \in Nat /\ SizeOf(m) \in Nat
      BY <1>1
    <3>6. FirstOf[j] + SizeOf(j) <= FirstOf[m + 1]
      BY <3>3, <3>4, <3>5
    <3> QED BY <3>2, <3>6
  <2> QED BY <2>1
<1>4. Nat \subseteq S
  <2> HIDE DEF S
  <2> QED BY <1>2, <1>3, InductionOnSets
<1>5. ASSUME NEW j \in 1 .. N, NEW k \in 1 .. N, j < k
      PROVE  FirstOf[j] + SizeOf(j) <= FirstOf[k]
  <2>1. PICK d \in Nat : d = (k - j) - 1
    BY <1>5
  <2>2. j + (d + 1) = k
    BY <2>1
  <2> QED BY <1>4, <2>2
<1> QED BY <1>5 DEF N

\* No cluster holds blocks of two files.
LEMMA HoldsOnce ==
  ASSUME NEW cl \in Nat, NEW j \in 1 .. Len(Defaults), NEW k \in 1 .. Len(Defaults),
         Holds(cl, j), Holds(cl, k)
  PROVE  j = k
<1>1. /\ FirstOf[j] \in Nat /\ FirstOf[k] \in Nat /\ SizeOf(j) \in Nat /\ SizeOf(k) \in Nat
      /\ Len(Defaults) \in Nat
  BY FirstOfSpec, DefaultsTypes
<1>2. FirstOf[j] <= cl /\ cl < FirstOf[j] + SizeOf(j) /\ FirstOf[k] <= cl
      /\ cl < FirstOf[k] + SizeOf(k)
  BY DEF Holds, SizeOf
<1>3. ~(j < k) /\ ~(k < j)
  BY <1>1, <1>2, FirstOfAscends
<1> QED BY <1>1, <1>3

\* fat12_write_fat leaves bytes, wherever it writes.
LEMMA WriteKeepsBytes ==
  ASSUME NEW f \in Tables, NEW cl, NEW v \in Entry
  PROVE  fat12_write_fat(f, cl, v) \in Tables
<1> DEFINE o == EntryOffset(cl)
           D == 0 .. FatBytes - 1
<1>1. \A i \in D : f[i] \in Byte
  BY DEF Tables
<1>2. CASE cl % 2 = 1
  <2> DEFINE lo == (f[o] % 16) + ((v % 16) * 16)
             hi == (v \div 16) % 256
  <2>1. hi \in Byte /\ (o \in D => lo \in Byte)
    <3>1. hi \in Byte
      BY DEF Entry, Byte
    <3>2. \A x \in Byte : (x % 16) + ((v % 16) * 16) \in Byte
      BY PackOdd
    <3> HIDE DEF D, o
    <3> QED BY <1>1, <3>1, <3>2
  <2>2. fat12_write_fat(f, cl, v) = [f EXCEPT ![o] = lo, ![o + 1] = hi]
    BY <1>2 DEF fat12_write_fat
  <2> HIDE DEF lo, hi, o
  <2> QED BY <2>1, <2>2 DEF Tables
<1>3. CASE cl % 2 # 1
  <2> DEFINE lo == v % 256
             hi == (f[o + 1] \div 16) * 16 + ((v \div 256) % 16)
  <2>1. lo \in Byte /\ (o + 1 \in D => hi \in Byte)
    <3>1. lo \in Byte
      BY DEF Entry, Byte
    <3>2. \A x \in Byte : (x \div 16) * 16 + ((v \div 256) % 16) \in Byte
      BY PackEven
    <3> HIDE DEF D, o
    <3> QED BY <1>1, <3>1, <3>2
  <2>2. fat12_write_fat(f, cl, v) = [f EXCEPT ![o] = lo, ![o + 1] = hi]
    BY <1>3 DEF fat12_write_fat
  <2> HIDE DEF lo, hi, o
  <2> QED BY <2>1, <2>2 DEF Tables
<1> QED BY <1>2, <1>3

LEMMA FreshTables ==
  /\ Fresh.fat \in Tables /\ Fresh.dir = FreshDir /\ Fresh.data = FreshData
  /\ NoVolume.fat \in Tables /\ NoVolume.dir = FreshDir /\ NoVolume.data = FreshData
  /\ FreshDir \in [Slots -> DirEntries] /\ FreshData \in [Clusters -> Blocks]
<1>1. FreshFat \in Tables /\ DOMAIN FreshFat = 0 .. FatBytes - 1
  BY DEF FreshFat, Tables, Byte
<1>2. [o \in DOMAIN FreshFat |-> 0] \in Tables
  BY <1>1 DEF Tables, Byte
<1>3. FreshDir \in [Slots -> DirEntries]
  BY DEF FreshDir, EndSlot, DirEntries
<1>4. FreshData \in [Clusters -> Blocks]
  BY ContentsAssumption DEF FreshData
<1>5. /\ Fresh.fat = FreshFat /\ Fresh.dir = FreshDir /\ Fresh.data = FreshData
      /\ Fresh \in [fat : {FreshFat}, dir : {FreshDir}, data : {FreshData}]
  BY DEF Fresh
<1> HIDE DEF Fresh
<1>6. /\ NoVolume.fat = [o \in DOMAIN FreshFat |-> 0] /\ NoVolume.dir = FreshDir
      /\ NoVolume.data = FreshData
  BY <1>5 DEF NoVolume
<1> QED BY <1>1, <1>2, <1>3, <1>4, <1>5, <1>6

\* The ramdisk's table, entry by entry.
LEMMA DefaultFatSpec ==
  /\ DefaultFat \in Tables
  /\ \A cl \in Clusters : fat12_read_fat(DefaultFat, cl) = DefaultEntry(cl)
<1> DEFINE M == max_clusters
           blank == fat12_write_fat(fat12_write_fat(NoVolume.fat, 0, 4080), 1, 4095)
           step == [p \in Nat \X Tables |->
                      IF p[1] \in Clusters THEN fat12_write_fat(p[2], p[1], DefaultEntry(p[1]))
                      ELSE p[2]]
           Body(f) == [cl \in 1 .. M + 1 |->
                         IF cl = 1 THEN blank
                         ELSE fat12_write_fat(f[cl - 1], cl, DefaultEntry(cl))]
<1>1. M \in Nat /\ M >= 1 /\ \A k \in 1 .. M : k + 1 \in Clusters
  BY Geometry DEF Clusters
<1>2. \A cl \in Clusters : DefaultEntry(cl) \in Entry
  <2>1. ASSUME NEW cl \in Clusters, NEW k \in 1 .. Len(Defaults), Holds(cl + 1, k)
        PROVE  cl + 1 \in Entry
    <3>1. FirstOf[k] + SizeOf(k) <= M + 2
      BY DefaultsAssumption DEF SizeOf
    <3>2. /\ cl \in Nat /\ M < 4087 /\ FirstOf[k] \in Nat /\ SizeOf(k) \in Nat
          /\ cl + 1 < FirstOf[k] + SizeOf(k)
      BY <2>1, Geometry, FatFits, DefaultsTypes, FirstOfSpec DEF Holds, SizeOf
    <3>3. cl \in Nat /\ cl + 1 < 4089
      BY <1>1, <3>1, <3>2
    <3> QED BY <3>3 DEF Entry
  <2>2. 4095 \in Entry /\ 0 \in Entry
    BY DEF Entry
  <2> QED BY <2>1, <2>2 DEF DefaultEntry
<1>3. blank \in Tables
  <2>1. 4080 \in Entry /\ 4095 \in Entry
    BY DEF Entry
  <2> QED BY <2>1, FreshTables, WriteKeepsBytes
<1> HIDE DEF M, blank, step, Body
<1>4. PICK g : g \in [0 .. M + 1 -> Tables] /\ g[0] = blank
               /\ \A k \in 1 .. M + 1 : g[k] = step[<<k, g[k - 1]>>]
  <2>1. IsUpdate(step, Tables)
    <3>1. ASSUME NEW k \in Nat, NEW t \in Tables PROVE step[<<k, t>>] \in Tables
      BY <1>2, WriteKeepsBytes DEF step
    <3> QED BY <3>1 DEF IsUpdate
  <2>2. \E g : IsCourse(g, Tables, blank, step, M + 1)
    BY <1>1, <1>3, <2>1, Recursion
  <2> QED BY <2>2 DEF IsCourse
<1>5. \A k \in 1 .. M + 1 :
        g[k] = IF k = 1 THEN blank ELSE fat12_write_fat(g[k - 1], k, DefaultEntry(k))
  <2>1. ASSUME NEW k \in 1 .. M + 1
        PROVE  g[k] = IF k = 1 THEN blank ELSE fat12_write_fat(g[k - 1], k, DefaultEntry(k))
    <3>1. k \in Nat /\ k - 1 \in 0 .. M + 1 /\ (k \in Clusters <=> k # 1) /\ (k = 1 => k - 1 = 0)
      BY <1>1 DEF Clusters, M
    <3>2. g[k] = step[<<k, g[k - 1]>>] /\ g[k - 1] \in Tables
      BY <1>4, <3>1
    <3>3. <<k, g[k - 1]>> \in Nat \X Tables
      BY <3>1, <3>2
    <3>4. g[k] = IF k \in Clusters THEN fat12_write_fat(g[k - 1], k, DefaultEntry(k)) ELSE g[k - 1]
      BY <3>2, <3>3 DEF step
    <3> QED BY <1>4, <3>1, <3>4
  <2> QED BY <2>1
<1> DEFINE S == {k \in Nat : k + 1 \in 1 .. M + 1 =>
                   \A cl \in Clusters : cl <= k + 1 =>
                     fat12_read_fat(g[k + 1], cl) = DefaultEntry(cl)}
<1>6. 0 \in S
  BY Geometry
<1>7. ASSUME NEW k \in Nat, k \in S PROVE k + 1 \in S
  <2> SUFFICES ASSUME (k + 1) + 1 \in 1 .. M + 1, NEW cl \in Clusters, cl <= (k + 1) + 1
               PROVE  fat12_read_fat(g[(k + 1) + 1], cl) = DefaultEntry(cl)
    OBVIOUS
  <2>1. PICK c \in Clusters : c = (k + 1) + 1
    BY <1>1 DEF Clusters, M
  <2>2. c # 1 /\ c - 1 = k + 1 /\ k + 1 \in 0 .. M + 1 /\ k + 1 \in 1 .. M + 1 /\ c \in 1 .. M + 1
        /\ (cl = c \/ cl <= k + 1)
    BY <1>1, <2>1, Geometry
  <2>3. g[c] = fat12_write_fat(g[k + 1], c, DefaultEntry(c)) /\ g[k + 1] \in Tables
    BY <1>4, <1>5, <2>2
  <2>4. fat12_read_fat(g[c], cl) = IF cl = c THEN DefaultEntry(c) ELSE fat12_read_fat(g[k + 1], cl)
    BY <1>2, <2>3, WriteSetsOneEntry
  <2>5. cl <= k + 1 => fat12_read_fat(g[k + 1], cl) = DefaultEntry(cl)
    BY <1>7, <2>2
  <2> QED BY <2>1, <2>2, <2>4, <2>5
<1>8. Nat \subseteq S
  <2> HIDE DEF S
  <2> QED BY <1>6, <1>7, InductionOnSets
<1>9. \A cl \in Clusters : fat12_read_fat(g[M + 1], cl) = DefaultEntry(cl)
  BY <1>1, <1>8, Geometry DEF Clusters, M
<1> HIDE DEF S
<1> DEFINE h == [k \in 1 .. M + 1 |-> g[k]]
<1>10. h = Body(h)
  <2>1. \A k \in 1 .. M + 1 : k # 1 => k - 1 \in 1 .. M + 1
    BY <1>1
  <2>2. \A k \in 1 .. M + 1 :
          h[k] = IF k = 1 THEN blank ELSE fat12_write_fat(h[k - 1], k, DefaultEntry(k))
    BY <1>5, <2>1
  <2>3. h = [k \in 1 .. M + 1 |-> h[k]]
    OBVIOUS
  <2> HIDE DEF h
  <2> QED BY <2>2, <2>3 DEF Body
<1> DEFINE f == CHOOSE w : w = Body(w)
<1>11. DefaultFat = f[M + 1]
  BY DEF DefaultFat, Body, M, blank
<1>12. f = Body(f)
  <2> HIDE DEF h
  <2> QED BY <1>10
<1> HIDE DEF f, h
<1>13. \A k \in 1 .. M + 1 :
         f[k] = IF k = 1 THEN blank ELSE fat12_write_fat(f[k - 1], k, DefaultEntry(k))
  <2>1. \A k \in 1 .. M + 1 : f[k] = Body(f)[k]
    BY <1>12
  <2> QED BY <2>1 DEF Body
<1>14. f[M + 1] = g[M + 1]
  <2> DEFINE E == {k \in Nat : k + 1 \in 1 .. M + 1 => f[k + 1] = g[k + 1]}
  <2>1. 0 \in E
    <3>1. \A k \in 1 .. M + 1 : k = 1 => f[k] = g[k]
      BY <1>5, <1>13
    <3> QED BY <3>1
  <2>2. ASSUME NEW k \in Nat, k \in E PROVE k + 1 \in E
    <3> SUFFICES ASSUME (k + 1) + 1 \in 1 .. M + 1 PROVE f[(k + 1) + 1] = g[(k + 1) + 1]
      OBVIOUS
    <3>1. PICK c \in 1 .. M + 1 : c = (k + 1) + 1
      OBVIOUS
    <3>2. k + 1 \in 1 .. M + 1 /\ c # 1 /\ c - 1 = k + 1
      BY <1>1, <3>1
    <3>3. f[k + 1] = g[k + 1]
      BY <2>2, <3>2
    <3> QED BY <1>5, <1>13, <3>1, <3>2, <3>3
  <2>3. Nat \subseteq E
    <3> HIDE DEF E
    <3> QED BY <2>1, <2>2, InductionOnSets
  <2>4. M \in Nat /\ M + 1 \in 1 .. M + 1
    BY <1>1
  <2> QED BY <2>3, <2>4
<1>15. g[M + 1] \in Tables
  <2>1. M + 1 \in 0 .. M + 1
    BY <1>1
  <2> QED BY <1>4, <2>1
<1> QED BY <1>9, <1>11, <1>14, <1>15

-----------------------------------------------------------------------------
(* Volumes a boot can find. A sound one has an owner for every chain.      *)

VolumeTypes(v) ==
  v.fat \in Tables /\ v.dir \in [Slots -> DirEntries] /\ v.data \in [Clusters -> Blocks]

Owned(v, own) ==
  /\ own \in [Clusters -> Slots \cup {Free, Lost}]
  /\ \A cl \in Clusters : fat12_read_fat(v.fat, cl) = 0 => own[cl] = Free
  /\ \A i \in Slots : v.dir[i].st = "used" /\ v.dir[i].first_cluster # 0
       => own[v.dir[i].first_cluster] = i
  /\ \A cl \in Clusters :
       Continues(fat12_read_fat(v.fat, cl)) =>
         /\ cl < fat12_read_fat(v.fat, cl)
         /\ own[cl] \in Slots => /\ fat12_read_fat(v.fat, cl) \in Clusters
                                 /\ own[fat12_read_fat(v.fat, cl)] = own[cl]

DirSound(d) ==
  /\ \A i, j \in Slots : i < j /\ d[i].st = "end" => d[j].st = "end"
  /\ \A i, j \in Slots :
       d[i].st = "used" /\ d[j].st = "used" /\ d[i].name = d[j].name => i = j
  /\ \A i \in Slots : d[i].st = "used" => d[i].name \notin Hidden

SoundVolume(v) == VolumeTypes(v) /\ DirSound(v.dir) /\ \E own : Owned(v, own)

LEMMA FreshSound == SoundVolume(Fresh)
<1>1. VolumeTypes(Fresh) /\ Fresh.dir = FreshDir
  BY FreshTables DEF VolumeTypes
<1>2. \A i \in Slots : Fresh.dir[i].st = "end"
  BY <1>1 DEF FreshDir, EndSlot
<1>3. Fresh.fat = FreshFat
  BY DEF Fresh
<1>4. \A cl \in Clusters : fat12_read_fat(FreshFat, cl) = 0
  <2>2. ASSUME NEW cl \in Clusters PROVE fat12_read_fat(FreshFat, cl) = 0
    <3>1. EntryOffset(cl) >= 3 /\ EntryOffset(cl) \in Nat /\ EntryOffset(cl) + 1 < FatBytes
      BY Geometry DEF EntryOffset
    <3>2. FreshFat[EntryOffset(cl)] = 0 /\ FreshFat[EntryOffset(cl) + 1] = 0
      BY <3>1, Geometry DEF FreshFat
    <3> QED BY <3>2 DEF fat12_read_fat, read16
  <2> QED BY <2>2
<1>5. Owned(Fresh, [cl \in Clusters |-> Free])
  BY <1>2, <1>3, <1>4 DEF Owned, Continues
<1>6. DirSound(Fresh.dir)
  BY <1>2 DEF DirSound
<1> HIDE DEF Fresh
<1> QED BY <1>1, <1>5, <1>6 DEF SoundVolume

LEMMA RamdiskTypes ==
  /\ ramdisk.fat = DefaultFat
  /\ \A i \in Slots :
       ramdisk.dir[i] = IF i < Len(Defaults)
                        THEN FileSlot(Defaults[i + 1][1], FirstOf[i + 1], SizeOf(i + 1))
                        ELSE EndSlot
  /\ VolumeTypes(ramdisk)
<1> DEFINE N == Len(Defaults)
<1>1. /\ ramdisk.fat = DefaultFat
      /\ ramdisk.dir = [i \in Slots |->
               IF i < N THEN FileSlot(Defaults[i + 1][1], FirstOf[i + 1], SizeOf(i + 1))
               ELSE EndSlot]
      /\ ramdisk.data = [cl \in Clusters |->
              LET S == {k \in 1 .. N : Holds(cl, k)}
              IN  IF S = {} THEN Zero
                  ELSE Defaults[Least(S)][2][cl - FirstOf[Least(S)] + 1]]
  BY DEF ramdisk, SizeOf
<1>2. /\ N \in Nat
      /\ \A k \in 1 .. N : /\ SizeOf(k) \in Nat /\ FirstOf[k] \in Clusters
                           /\ Defaults[k][1] \in Names83 /\ FirstOf[k] \in Nat
                           /\ Defaults[k][2] \in Seq(Blocks)
                           /\ Len(Defaults[k][2]) = SizeOf(k)
  <2>1. ASSUME NEW k \in 1 .. N PROVE FirstOf[k] \in Clusters
    <3>1. /\ FirstOf[k] \in Nat /\ FirstOf[k] >= 2 /\ SizeOf(k) \in Nat /\ SizeOf(k) >= 1
          /\ FirstOf[k] + SizeOf(k) <= max_clusters + 2 /\ max_clusters \in Nat
      BY Geometry, FirstOfSpec, DefaultsTypes, DefaultsAssumption DEF SizeOf
    <3> QED BY <3>1 DEF Clusters
  <2> QED BY <2>1, FirstOfSpec, DefaultsTypes DEF SizeOf
<1>3. \A i \in Slots : i \in Nat
  BY SlotsNat
<1> HIDE DEF N
<1>4. \A i \in Slots : ramdisk.dir[i] \in DirEntries
  <2>1. EndSlot \in DirEntries
    BY DEF EndSlot, DirEntries
  <2>2. ASSUME NEW i \in Slots, i < N
        PROVE  FileSlot(Defaults[i + 1][1], FirstOf[i + 1], SizeOf(i + 1)) \in DirEntries
    <3>1. i + 1 \in 1 .. N
      BY <1>2, <1>3, <2>2
    <3> QED BY <1>2, <3>1 DEF FileSlot, DirEntries
  <2> QED BY <1>1, <2>1, <2>2
<1>5. \A cl \in Clusters : ramdisk.data[cl] \in Blocks
  <2>1. ASSUME NEW cl \in Clusters PROVE ramdisk.data[cl] \in Blocks
    <3> DEFINE S == {k \in 1 .. N : Holds(cl, k)}
    <3>1. ramdisk.data[cl] = IF S = {} THEN Zero
                             ELSE Defaults[Least(S)][2][cl - FirstOf[Least(S)] + 1]
      BY <1>1
    <3>2. CASE S = {}
      BY <3>1, <3>2, ContentsAssumption
    <3>3. CASE S # {}
      <4>1. S \subseteq Nat
        BY <1>2
      <4> HIDE DEF S
      <4>2. \E i \in S : \A j \in S : i <= j
        BY <3>3, <4>1, HasLeast
      <4>3. PICK k \in S : k = Least(S)
        BY <4>2 DEF Least
      <4>4. k \in 1 .. N /\ Holds(cl, k)
        BY <4>3 DEF S
      <4>5. cl - FirstOf[k] + 1 \in 1 .. SizeOf(k)
        BY <1>2, <4>4, Geometry DEF Holds
      <4>6. Defaults[k][2][cl - FirstOf[k] + 1] \in Blocks
        BY <1>2, <4>4, <4>5
      <4> QED BY <3>1, <3>3, <4>3, <4>6
    <3> QED BY <3>2, <3>3
  <2> QED BY <2>1
<1>6. ramdisk.fat \in Tables
  BY <1>1, DefaultFatSpec
<1>7. ramdisk.dir = [i \in Slots |-> ramdisk.dir[i]] /\ ramdisk.data = [cl \in Clusters |-> ramdisk.data[cl]]
  <2>1. DOMAIN ramdisk.dir = Slots /\ DOMAIN ramdisk.data = Clusters
    BY <1>1
  <2> QED BY <1>1
<1>8. VolumeTypes(ramdisk)
  <2>1. ramdisk.dir \in [Slots -> DirEntries]
    BY <1>4, <1>7
  <2>2. ramdisk.data \in [Clusters -> Blocks]
    BY <1>5, <1>7
  <2> QED BY <1>6, <2>1, <2>2 DEF VolumeTypes
<1> QED BY <1>1, <1>8 DEF N

LEMMA RamdiskSound == SoundVolume(ramdisk)
<1> DEFINE N == Len(Defaults)
           holder(cl) == CHOOSE k \in 1 .. N : Holds(cl, k)
           own == [cl \in Clusters |-> IF \E k \in 1 .. N : Holds(cl, k) THEN holder(cl) - 1 ELSE Free]
<1>1. /\ N \in Nat /\ N <= root_entry_count
      /\ \A k \in 1 .. N : /\ k - 1 \in Slots /\ FirstOf[k] \in Nat /\ SizeOf(k) \in Nat
                           /\ FirstOf[k] \in Clusters /\ SizeOf(k) >= 1
  <2>1. \A k \in 1 .. N : k - 1 \in Slots
    BY DefaultsTypes, BpbAssumption DEF Slots
  <2>2. ASSUME NEW k \in 1 .. N PROVE FirstOf[k] \in Clusters
    <3>1. /\ FirstOf[k] \in Nat /\ FirstOf[k] >= 2 /\ SizeOf(k) \in Nat /\ SizeOf(k) >= 1
          /\ FirstOf[k] + SizeOf(k) <= max_clusters + 2 /\ max_clusters \in Nat
      BY Geometry, FirstOfSpec, DefaultsTypes, DefaultsAssumption DEF SizeOf
    <3> QED BY <3>1 DEF Clusters
  <2> QED BY <2>1, <2>2, FirstOfSpec, DefaultsTypes
<1>2. /\ \A cl \in Clusters : fat12_read_fat(ramdisk.fat, cl) = DefaultEntry(cl)
      /\ VolumeTypes(ramdisk)
      /\ \A i \in Slots :
           ramdisk.dir[i] = IF i < N
                            THEN FileSlot(Defaults[i + 1][1], FirstOf[i + 1], SizeOf(i + 1))
                            ELSE EndSlot
  BY RamdiskTypes, DefaultFatSpec
<1>3. ASSUME NEW cl \in Nat, NEW k \in 1 .. N, Holds(cl, k)
      PROVE  holder(cl) = k
  <2>1. holder(cl) \in 1 .. N /\ Holds(cl, holder(cl))
    BY <1>3
  <2> HIDE DEF holder
  <2> QED BY <1>3, <2>1, HoldsOnce DEF N
<1> HIDE DEF holder, N
<1>4. \A cl \in Clusters : cl \in Nat
  BY Geometry
<1>5. ASSUME NEW cl \in Clusters, NEW k \in 1 .. N, Holds(cl, k)
      PROVE  own[cl] = k - 1
  BY <1>3, <1>4, <1>5
<1>6. ASSUME NEW cl \in Clusters, ~\E k \in 1 .. N : Holds(cl, k)
      PROVE  own[cl] = Free
  BY <1>6
<1>7. own \in [Clusters -> Slots \cup {Free, Lost}]
  <2>1. ASSUME NEW cl \in Clusters PROVE own[cl] \in Slots \cup {Free, Lost}
    BY <1>1, <1>5, <1>6
  <2>2. DOMAIN own = Clusters /\ own = [cl \in Clusters |-> own[cl]]
    OBVIOUS
  <2> HIDE DEF own
  <2> QED BY <2>1, <2>2
<1> HIDE DEF own
<1>8. \A i \in Slots : i \in Nat /\ Free \notin Slots
  BY SlotsNat DEF Free
<1>9. ASSUME NEW i \in Slots, ramdisk.dir[i].st = "used"
      PROVE  /\ i + 1 \in 1 .. N /\ ramdisk.dir[i].name = Defaults[i + 1][1]
             /\ own[ramdisk.dir[i].first_cluster] = i
  <2>1. i < N
    BY <1>2, <1>9 DEF EndSlot
  <2>2. i + 1 \in 1 .. N /\ (i + 1) - 1 = i
    BY <1>1, <1>8, <2>1
  <2>3. ramdisk.dir[i].name = Defaults[i + 1][1] /\ ramdisk.dir[i].first_cluster = FirstOf[i + 1]
    <3>1. ramdisk.dir[i] = FileSlot(Defaults[i + 1][1], FirstOf[i + 1], SizeOf(i + 1))
      BY <1>2, <2>1
    <3> QED BY <3>1 DEF FileSlot
  <2>4. Holds(FirstOf[i + 1], i + 1)
    BY <1>1, <2>2 DEF Holds, SizeOf
  <2>5. own[FirstOf[i + 1]] = (i + 1) - 1
    BY <1>1, <1>5, <2>2, <2>4
  <2> QED BY <2>2, <2>3, <2>5
<1>10. ASSUME NEW cl \in Clusters
       PROVE  /\ DefaultEntry(cl) = 0 => own[cl] = Free
              /\ Continues(DefaultEntry(cl)) =>
                   /\ DefaultEntry(cl) = cl + 1 /\ cl + 1 \in Clusters
                   /\ own[cl + 1] = own[cl]
  <2>1. cl \in Nat /\ cl + 1 \in Nat
    BY <1>4
  <2>2. DefaultEntry(cl) = 0 => ~\E k \in 1 .. N : Holds(cl, k)
    BY <2>1 DEF DefaultEntry, N
  <2>3. ASSUME Continues(DefaultEntry(cl))
        PROVE  /\ DefaultEntry(cl) = cl + 1 /\ cl + 1 \in Clusters
               /\ own[cl + 1] = own[cl]
    <3>1. PICK k \in 1 .. N : Holds(cl, k) /\ Holds(cl + 1, k) /\ DefaultEntry(cl) = cl + 1
      BY <2>3 DEF DefaultEntry, Continues, N
    <3>2. cl + 1 \in Clusters
      <4>1. /\ cl + 1 < FirstOf[k] + SizeOf(k) /\ FirstOf[k] + SizeOf(k) <= max_clusters + 2
            /\ cl >= 2
        BY <3>1, Geometry, DefaultsAssumption DEF Holds, SizeOf, N
      <4> QED BY <1>1, <2>1, <4>1, Geometry DEF Clusters
    <3> QED BY <1>5, <3>1, <3>2
  <2> QED BY <1>6, <2>2, <2>3
<1>11. Owned(ramdisk, own)
  BY <1>2, <1>4, <1>7, <1>9, <1>10 DEF Owned
<1>12. DirSound(ramdisk.dir)
  <2>1. ASSUME NEW i \in Slots, NEW j \in Slots, i < j, ramdisk.dir[i].st = "end"
        PROVE  ramdisk.dir[j].st = "end"
    <3>1. ~(i < N)
      <4> SUFFICES ASSUME i < N PROVE FALSE
        OBVIOUS
      <4>1. ramdisk.dir[i] = FileSlot(Defaults[i + 1][1], FirstOf[i + 1], SizeOf(i + 1))
        BY <1>2
      <4>2. ramdisk.dir[i].st = "used"
        BY <4>1 DEF FileSlot
      <4> QED BY <2>1, <4>2
    <3>2. ~(j < N)
      BY <1>1, <1>8, <2>1, <3>1
    <3> QED BY <1>2, <3>2 DEF EndSlot
  <2>2. ASSUME NEW i \in Slots, NEW j \in Slots, ramdisk.dir[i].st = "used",
               ramdisk.dir[j].st = "used", ramdisk.dir[i].name = ramdisk.dir[j].name
        PROVE  i = j
    <3>1. \A a, b \in 1 .. N : Defaults[a][1] = Defaults[b][1] => a = b
      BY DefaultsAssumption, Zenon DEF N
    <3>2. /\ i + 1 \in 1 .. N /\ ramdisk.dir[i].name = Defaults[i + 1][1]
          /\ j + 1 \in 1 .. N /\ ramdisk.dir[j].name = Defaults[j + 1][1]
      BY <1>9, <2>2
    <3>3. i + 1 = j + 1
      BY <2>2, <3>1, <3>2, Zenon
    <3> QED BY <1>8, <3>3
  <2>3. ASSUME NEW i \in Slots, ramdisk.dir[i].st = "used"
        PROVE  ramdisk.dir[i].name \notin Hidden
    <3>1. i + 1 \in 1 .. N /\ ramdisk.dir[i].name = Defaults[i + 1][1]
      BY <1>9, <2>3
    <3> QED BY <3>1, DefaultsTypes DEF N
  <2> QED BY <2>1, <2>2, <2>3 DEF DirSound
<1> QED BY <1>2, <1>11, <1>12 DEF SoundVolume

-----------------------------------------------------------------------------
(* Loading a sound volume.                                                 *)

\* The clusters linked to a file of a sound volume are its own, and since
\* chains ascend no chain is longer than the walk that looks for them.
LEMMA LinkedSpec ==
  ASSUME NEW v, VolumeTypes(v), NEW own, Owned(v, own), NEW i \in Slots,
         v.dir[i].st = "used"
  PROVE  /\ v.dir[i].first_cluster # 0 => v.dir[i].first_cluster \in Linked(v, i)
         /\ \A cl \in Clusters : cl \in Linked(v, i) =>
              /\ own[cl] = i
              /\ Continues(fat12_read_fat(v.fat, cl)) => fat12_read_fat(v.fat, cl) \in Linked(v, i)
<1>1. PICK first \in {0} \cup Clusters : v.dir[i].first_cluster = first
  BY DEF VolumeTypes, DirEntries
<1>2. first \in Entry /\ v.fat \in Tables /\ 0 \notin Clusters
  BY Geometry DEF Entry, VolumeTypes
<1> DEFINE w == Walk(v, i)
<1>3. /\ w \in [0 .. max_clusters -> Entry] /\ w[0] = first
      /\ \A k \in 1 .. max_clusters :
           w[k] = IF w[k - 1] \in Clusters THEN fat12_read_fat(v.fat, w[k - 1]) ELSE 0
  BY <1>1, <1>2, WalkSpec
<1> HIDE DEF w
<1>4. max_clusters \in Nat /\ max_clusters >= 1 /\ \A cl \in Clusters : cl \in Nat /\ cl >= 2 /\ cl < 4088
  BY Geometry
<1>5. /\ first # 0 => own[first] = i
      /\ \A cl \in Clusters : Continues(fat12_read_fat(v.fat, cl)) =>
           /\ cl < fat12_read_fat(v.fat, cl)
           /\ own[cl] \in Slots => /\ fat12_read_fat(v.fat, cl) \in Clusters
                                   /\ own[fat12_read_fat(v.fat, cl)] = own[cl]
  BY <1>1 DEF Owned
<1> DEFINE S == {k \in Nat : k <= max_clusters /\ w[k] \in Clusters => own[w[k]] = i /\ w[k] >= k + 2}
<1>6. 0 \in S
  BY <1>2, <1>3, <1>4, <1>5
<1>7. ASSUME NEW k \in Nat, k \in S PROVE k + 1 \in S
  <2> SUFFICES ASSUME k + 1 <= max_clusters, w[k + 1] \in Clusters
               PROVE  own[w[k + 1]] = i /\ w[k + 1] >= (k + 1) + 2
    OBVIOUS
  <2>1. k + 1 \in 1 .. max_clusters /\ (k + 1) - 1 = k /\ k <= max_clusters /\ k \in 0 .. max_clusters
    BY <1>4
  <2>2. w[k] \in Clusters /\ w[k + 1] = fat12_read_fat(v.fat, w[k])
    BY <1>2, <1>3, <2>1
  <2>3. PICK cl \in Clusters : cl = w[k]
    BY <2>2
  <2>4. PICK next \in Clusters : next = w[k + 1]
    OBVIOUS
  <2>5. own[cl] = i /\ cl >= k + 2
    BY <1>7, <2>1, <2>2, <2>3
  <2>6. next = fat12_read_fat(v.fat, cl) /\ Continues(next)
    BY <1>4, <2>2, <2>3, <2>4 DEF Continues
  <2>7. cl < next /\ own[next] = i
    BY <1>5, <2>5, <2>6
  <2>8. next >= (k + 1) + 2
    <3>1. cl \in Nat /\ next \in Nat
      BY <1>4
    <3> QED BY <2>5, <2>7, <3>1
  <2> QED BY <2>4, <2>7, <2>8
<1>8. Nat \subseteq S
  <2> HIDE DEF S
  <2> QED BY <1>6, <1>7, InductionOnSets
<1>9. Linked(v, i) = {w[k] : k \in 0 .. max_clusters} \cap Clusters
  BY DEF Linked, w
<1>10. ASSUME NEW cl \in Clusters, cl \in Linked(v, i)
       PROVE  /\ own[cl] = i
              /\ Continues(fat12_read_fat(v.fat, cl)) => fat12_read_fat(v.fat, cl) \in Linked(v, i)
  <2>1. PICK k \in 0 .. max_clusters : w[k] = cl
    BY <1>9, <1>10
  <2>2. k \in Nat /\ k <= max_clusters /\ k \in S
    BY <1>4, <1>8
  <2>3. own[cl] = i /\ cl >= k + 2
    BY <2>1, <2>2
  <2>4. ASSUME Continues(fat12_read_fat(v.fat, cl))
        PROVE  fat12_read_fat(v.fat, cl) \in Linked(v, i)
    <3>1. PICK next \in Clusters : next = fat12_read_fat(v.fat, cl) /\ cl < next
      BY <1>5, <2>3, <2>4
    <3>2. k + 1 \in 1 .. max_clusters /\ (k + 1) - 1 = k /\ k + 1 \in 0 .. max_clusters
      <4>1. cl \in Nat /\ next \in Nat /\ next <= max_clusters + 1
        BY <1>4 DEF Clusters
      <4> QED BY <1>4, <2>2, <2>3, <3>1, <4>1
    <3>3. w[k + 1] = next
      BY <1>3, <2>1, <3>1, <3>2
    <3> QED BY <1>9, <3>1, <3>2, <3>3
  <2> QED BY <2>3, <2>4
<1>11. first # 0 => first \in Linked(v, i)
  <2>1. 0 \in 0 .. max_clusters
    BY <1>4
  <2> QED BY <1>3, <1>9, <2>1
<1> QED BY <1>1, <1>10, <1>11

\* Whoever owns the clusters of a sound volume, OwnerOf finds the files' ones.
LEMMA OwnerOfSpec ==
  ASSUME NEW v, VolumeTypes(v), NEW own, Owned(v, own)
  PROVE  /\ OwnerOf(v) \in [Clusters -> Slots \cup {Free, Lost}]
         /\ \A cl \in Clusters : OwnerOf(v)[cl] = Free <=> fat12_read_fat(v.fat, cl) = 0
         /\ \A cl \in Clusters : \A i \in Slots :
              OwnerOf(v)[cl] = i <=> v.dir[i].st = "used" /\ cl \in Linked(v, i)
<1> DEFINE S(cl) == {i \in Slots : v.dir[i].st = "used" /\ cl \in Linked(v, i)}
<1>1. \A cl \in Clusters :
        OwnerOf(v)[cl] = IF fat12_read_fat(v.fat, cl) = 0 THEN Free ELSE LeastOr(S(cl), Lost)
  BY DEF OwnerOf
<1>2. Slots \subseteq Nat /\ Free \notin Slots /\ Lost \notin Slots /\ Free # Lost
  BY SlotsNat DEF Free, Lost
<1>3. ASSUME NEW cl \in Clusters
      PROVE  LeastOr(S(cl), Lost) \in S(cl) \cup {Lost}
             /\ (S(cl) # {} => LeastOr(S(cl), Lost) \in S(cl))
  <2>1. S(cl) \subseteq Nat
    BY <1>2
  <2> HIDE DEF S
  <2> QED BY <2>1, LeastOrType
<1>4. ASSUME NEW cl \in Clusters, NEW i \in Slots, i \in S(cl)
      PROVE  own[cl] = i /\ fat12_read_fat(v.fat, cl) # 0
  <2>1. own[cl] = i
    BY <1>4, LinkedSpec
  <2> QED BY <1>2, <2>1 DEF Owned
<1>5. ASSUME NEW cl \in Clusters, NEW i \in Slots, i \in S(cl)
      PROVE  OwnerOf(v)[cl] = i
  <2>1. LeastOr(S(cl), Lost) \in S(cl) /\ LeastOr(S(cl), Lost) \in Slots
    BY <1>3, <1>5
  <2>2. own[cl] = LeastOr(S(cl), Lost)
    BY <1>4, <2>1
  <2> QED BY <1>1, <1>4, <1>5, <2>2
<1>6. ASSUME NEW cl \in Clusters, NEW i \in Slots, OwnerOf(v)[cl] = i
      PROVE  i \in S(cl)
  BY <1>1, <1>2, <1>3, <1>6
<1>7. OwnerOf(v) \in [Clusters -> Slots \cup {Free, Lost}]
  <2>1. \A cl \in Clusters : OwnerOf(v)[cl] \in Slots \cup {Free, Lost}
    BY <1>1, <1>3
  <2>2. OwnerOf(v) = [cl \in Clusters |-> OwnerOf(v)[cl]]
    BY DEF OwnerOf
  <2> QED BY <2>1, <2>2
<1>8. \A cl \in Clusters : OwnerOf(v)[cl] = Free <=> fat12_read_fat(v.fat, cl) = 0
  BY <1>1, <1>2, <1>3
<1> QED BY <1>5, <1>6, <1>7, <1>8

\* No cluster below the end of a chain under construction is free, so the
\* cluster that is linked behind it has a higher number.
AscInv ==
  /\ Ascending
  /\ pc = "alloc" => \A cl \in Clusters : cl <= op.prev_cluster => owner[cl] # Free

\* What fat12.c keeps true of a volume that was sound when it was loaded,
\* whatever failed before.
SoundInv == FatInv /\ DirInv /\ AscInv

LEMMA LoadSound ==
  ASSUME NEW v, SoundVolume(v), Load(v), pc' = "idle", op' = NoOp,
         result' \in {0, -1}, failed' \in BOOLEAN
  PROVE  SoundInv'
<1>1. PICK own : Owned(v, own)
  BY DEF SoundVolume
<1>2. /\ VolumeTypes(v) /\ DirSound(v.dir)
      /\ fat' = v.fat /\ dir' = v.dir /\ data' = v.data /\ owner' = OwnerOf(v)
  BY DEF SoundVolume, Load
<1>3. /\ owner' \in [Clusters -> Slots \cup {Free, Lost}]
      /\ \A cl \in Clusters : owner'[cl] = Free <=> fat12_read_fat(v.fat, cl) = 0
      /\ \A cl \in Clusters : \A i \in Slots :
           owner'[cl] = i <=> v.dir[i].st = "used" /\ cl \in Linked(v, i)
  BY <1>1, <1>2, OwnerOfSpec
<1>4. op'.existing_idx = -1 /\ op'.iterations = 0 /\ op'.written = 0 /\ op'.content = << >>
      /\ op' \in Calls
  BY NoOpType DEF NoOp
<1>5. FatTypeOK'
  <2>1. owner' \in [Clusters -> Owners]
    BY <1>3 DEF Owners
  <2>2. pc' \in PcStates /\ op'.iterations <= max_clusters /\ op'.written <= Len(op'.content)
    <3>1. Len(<< >>) = 0 /\ max_clusters \in Nat
      BY Geometry
    <3> QED BY <1>4, <3>1 DEF PcStates
  <2> QED BY <1>2, <1>4, <2>1, <2>2 DEF FatTypeOK, VolumeTypes, Tables
<1>6. FreeIffZero'
  BY <1>2, <1>3 DEF FreeIffZero
<1>7. ChainsApart'
  <2>1. ASSUME NEW i \in Slots, v.dir[i].st = "used", v.dir[i].first_cluster # 0
        PROVE  owner'[v.dir[i].first_cluster] = i
    <3>1. v.dir[i].first_cluster \in Linked(v, i)
      BY <1>1, <1>2, <2>1, LinkedSpec
    <3>2. v.dir[i].first_cluster \in Clusters
      BY <3>1 DEF Linked
    <3> QED BY <1>3, <2>1, <3>1, <3>2
  <2>2. ASSUME NEW cl \in Clusters, owner'[cl] \in Slots, Continues(fat12_read_fat(v.fat, cl))
        PROVE  /\ fat12_read_fat(v.fat, cl) \in Clusters
               /\ owner'[fat12_read_fat(v.fat, cl)] = owner'[cl]
    <3>1. PICK i \in Slots : owner'[cl] = i
      BY <2>2
    <3>2. v.dir[i].st = "used" /\ cl \in Linked(v, i)
      BY <1>3, <3>1
    <3>3. fat12_read_fat(v.fat, cl) \in Linked(v, i)
      BY <1>1, <1>2, <2>2, <3>2, LinkedSpec
    <3>4. fat12_read_fat(v.fat, cl) \in Clusters
      BY <3>3 DEF Linked
    <3> QED BY <1>3, <3>1, <3>2, <3>3, <3>4
  <2> QED BY <1>2, <2>1, <2>2 DEF ChainsApart
<1>8. \A cl \in Clusters : owner'[cl] # New /\ owner'[cl] # Dying
  BY <1>3, SlotsNat DEF Free, Lost, New, Dying
<1>9. CallInv' /\ BuildInv' /\ FreeInv'
  BY <1>8 DEF CallInv, BuildInv, FreeInv, Leads, NoOp
<1>10. DirInv'
  BY <1>2 DEF DirSound, DirInv, EndsLast, NamesUnique, HiddenUnseen, FoundAtStart
<1>11. AscInv'
  BY <1>1, <1>2 DEF Owned, AscInv, Ascending, EntryAt
<1> QED BY <1>5, <1>6, <1>7, <1>9, <1>10, <1>11 DEF SoundInv, FatInv

\* Between calls the volume in memory is sound.
LEMMA MemorySound ==
  ASSUME SoundInv, pc = "idle"
  PROVE  SoundVolume(Volume)
<1>1. Volume.fat = fat /\ Volume.dir = dir /\ Volume.data = data
  BY DEF Volume
<1>2. VolumeTypes(Volume)
  BY <1>1 DEF SoundInv, FatInv, FatTypeOK, VolumeTypes, Tables
<1>3. DirSound(dir)
  BY DEF SoundInv, DirInv, EndsLast, NamesUnique, HiddenUnseen, DirSound
<1>4. op.existing_idx = -1 /\ \A cl \in Clusters : owner[cl] # New /\ owner[cl] # Dying
  BY DEF SoundInv, FatInv, CallInv, NoOp
<1>5. owner \in [Clusters -> Slots \cup {Free, Lost}]
  BY <1>4 DEF SoundInv, FatInv, FatTypeOK, Owners
<1>6. Owned(Volume, owner)
  <2>1. \A i \in Slots : op.existing_idx # i
    BY <1>4, SlotsNat
  <2> QED BY <1>1, <1>5, <2>1
       DEF Owned, SoundInv, FatInv, FreeIffZero, ChainsApart, AscInv, Ascending, EntryAt
<1> QED BY <1>1, <1>2, <1>3, <1>6 DEF SoundVolume

\* fat12.c keeps chains ascending.
LEMMA NextSoundInv ==
  ASSUME SoundInv, [FatNext]_fatVars
  PROVE  SoundInv'
<1>1. FatInv /\ DirInv /\ AscInv
  BY DEF SoundInv
<1>2. FatInv' /\ DirInv'
  BY <1>1, NextFatInv, NextDirInv
<1>3. ASSUME pc' # "alloc", fat' = fat
      PROVE  AscInv'
  BY <1>1, <1>3 DEF AscInv, Ascending, EntryAt
<1>4. CASE FatCall
  <2>1. fat' = fat
    BY <1>4 DEF FatCall, fat12_write_file, fat12_delete_file, DeleteMissing, Start
  <2>2. pc = "idle" /\ (pc' = "alloc" => op'.prev_cluster = 0)
    <3>1. CASE pc' = pc /\ pc = "idle"
      BY <3>1
    <3>2. ASSUME NEW kind, NEW n, NEW content, NEW locals,
                 Beginning(locals, kind, n, content), NEW next \in {"alloc", "unlink"},
                 Start(locals, next)
          PROVE  pc = "idle" /\ op'.prev_cluster = 0
      <4>1. locals \in Calls /\ locals.prev_cluster = 0
        BY <3>2 DEF Beginning
      <4> QED BY <1>1, <3>2, <4>1, StartEffect
    <3>3. \/ pc' = pc /\ pc = "idle"
          \/ \E n \in Names83, content \in Contents : \E locals :
               Beginning(locals, "write", n, content) /\ Start(locals, "alloc")
          \/ \E n \in Names83 : \E locals :
               Beginning(locals, "delete", n, << >>) /\ Start(locals, "unlink")
      BY <1>4, CallBegins
    <3> QED BY <3>1, <3>2, <3>3
  <2>3. \A cl \in Clusters : ~(cl <= 0)
    BY Geometry
  <2> QED BY <1>1, <1>2, <2>1, <2>2, <2>3 DEF SoundInv, AscInv, Ascending, EntryAt
<1>5. CASE fat12_free_chain /\ Continues(op.cluster) /\ op.iterations < max_clusters
  <2> DEFINE c == op.cluster
  <2>1. /\ c \in Clusters /\ fat12_read_fat(fat', c) = 0 /\ pc' = "free"
        /\ \A d \in Clusters : d # c => fat12_read_fat(fat', d) = fat12_read_fat(fat, d)
    BY <1>1, <1>5, FreeEffect
  <2> HIDE DEF c
  <2>2. Ascending'
    <3>1. ASSUME NEW d \in Clusters, Continues(fat12_read_fat(fat', d))
          PROVE  d < fat12_read_fat(fat', d)
      <4>1. d # c
        BY <2>1, <3>1 DEF Continues
      <4> QED BY <1>1, <2>1, <3>1, <4>1 DEF AscInv, Ascending, EntryAt
    <3> QED BY <3>1 DEF Ascending, EntryAt
  <2> QED BY <1>2, <2>1, <2>2 DEF SoundInv, AscInv
<1>6. CASE fat12_free_chain /\ ~(Continues(op.cluster) /\ op.iterations < max_clusters)
  <2>1. fat' = fat /\ (pc' = "alloc" => op'.prev_cluster = 0)
    BY <1>1, <1>6 DEF fat12_free_chain, FatInv, CallInv
  <2>2. \A cl \in Clusters : ~(cl <= 0)
    BY Geometry
  <2> QED BY <1>1, <1>2, <2>1, <2>2 DEF SoundInv, AscInv, Ascending, EntryAt
<1>7. CASE AllocCluster
  <2> DEFINE x == fat12_alloc_cluster(fat)
             p == op.prev_cluster
  <2>1. /\ pc = "alloc" /\ x \in Clusters /\ x # 0 /\ owner[x] = Free
        /\ p \in {0} \cup Clusters /\ (p # 0 => p \in Clusters /\ owner[p] = New /\ p # x)
        /\ fat12_read_fat(fat', x) = 4095
        /\ p # 0 => fat12_read_fat(fat', p) = x
        /\ \A d \in Clusters : d # x /\ d # p =>
              fat12_read_fat(fat', d) = fat12_read_fat(fat, d)
        /\ op'.prev_cluster = x /\ owner'[x] = New
        /\ \A d \in Clusters : d # x => owner'[d] = owner[d]
    <3>1. pc = "alloc"
      BY <1>7 DEF AllocCluster
    <3> QED BY <1>1, <1>7, <3>1, AllocEffect
  <2>2. \A cl \in Clusters : cl < x => fat12_read_fat(fat, cl) # 0
    BY AllocLeast
  <2> HIDE DEF x, p
  <2>3. 0 \notin Clusters /\ Clusters \subseteq Nat
    BY Geometry
  <2>4. p < x
    <3>1. ~(x <= p)
      BY <1>1, <2>1 DEF AscInv, p
    <3>2. x \in Nat /\ p \in Nat
      BY <2>1, <2>3
    <3> QED BY <3>1, <3>2
  <2>5. Ascending'
    <3>1. ASSUME NEW cl \in Clusters, Continues(fat12_read_fat(fat', cl))
          PROVE  cl < fat12_read_fat(fat', cl)
      <4>1. cl # x
        BY <2>1, <3>1 DEF Continues
      <4>2. CASE cl = p
        BY <2>1, <2>3, <2>4, <4>2
      <4>3. CASE cl # p
        BY <1>1, <2>1, <3>1, <4>1, <4>3 DEF AscInv, Ascending, EntryAt
      <4> QED BY <4>2, <4>3
    <3> QED BY <3>1 DEF Ascending, EntryAt
  <2>6. ASSUME NEW cl \in Clusters, cl <= op'.prev_cluster PROVE owner'[cl] # Free
    <3>1. cl = x \/ cl < x
      BY <2>1, <2>3, <2>6
    <3>2. cl < x => owner[cl] # Free
      BY <1>1, <2>2 DEF FatInv, FreeIffZero
    <3> QED BY <2>1, <3>1, <3>2 DEF New, Free
  <2> QED BY <1>2, <2>5, <2>6 DEF SoundInv, AscInv
<1>8. CASE DiskFull \/ DirectoryFull \/ WriteEntry \/ WriteHidden \/ DeleteEntry
  BY <1>2, <1>3, <1>8 DEF SoundInv, DiskFull, DirectoryFull, FailWrite, WriteEntry,
                          WriteHidden, DeleteEntry, Return
<1>9. CASE UNCHANGED fatVars
  BY <1>1, <1>2, <1>9 DEF SoundInv, AscInv, Ascending, EntryAt, fatVars
<1> QED BY <1>4, <1>5, <1>6, <1>7, <1>8, <1>9 DEF FatNext, FatStep

-----------------------------------------------------------------------------
(* Types, also when the volume in memory came from a torn partition: the   *)
(* freeing loop may then leave the table, but no value leaves its range.   *)

OpTypes(o) ==
  \E cluster, iterations :
    o \in [kind : {"none", "write", "delete"}, name83 : Names83 \cup {NoName},
           content : Contents \cup {<< >>}, existing_idx : Slots \cup {-1},
           cluster : {cluster}, iterations : {iterations},
           first_cluster : {0} \cup Clusters, prev_cluster : {0} \cup Clusters,
           written : Nat]

MemTypes ==
  /\ VolumeTypes(Volume) /\ pc \in PcStates
  /\ OpTypes(op)
  /\ pc = "idle" => op = NoOp
  /\ pc # "idle" => op.name83 \in Names83
  /\ result \in {0, -1} /\ failed \in BOOLEAN

LEMMA NoOpTypes == OpTypes(NoOp)
BY DEF OpTypes, NoOp

LEMMA OpTypesGive ==
  ASSUME NEW o, OpTypes(o)
  PROVE  /\ o.kind \in {"none", "write", "delete"} /\ o.name83 \in Names83 \cup {NoName}
         /\ o.content \in Contents \cup {<< >>} /\ o.existing_idx \in Slots \cup {-1}
         /\ o.first_cluster \in {0} \cup Clusters /\ o.prev_cluster \in {0} \cup Clusters
         /\ o.written \in Nat
BY DEF OpTypes

LEMMA VolumeIs ==
  Volume.fat = fat /\ Volume.dir = dir /\ Volume.data = data
BY DEF Volume

LEMMA MemVolume ==
  VolumeTypes(Volume) <=> /\ fat \in Tables /\ dir \in [Slots -> DirEntries]
                          /\ data \in [Clusters -> Blocks]
BY VolumeIs DEF VolumeTypes

\* A call that begins looks its file up.
LEMMA StartTypes ==
  ASSUME MemTypes, NEW locals \in Calls, locals.name83 \in Names83,
         NEW next \in {"alloc", "unlink"}, Start(locals, next)
  PROVE  MemTypes'
<1>1. PICK first : first = IF locals.existing_idx = -1 THEN 0
                           ELSE dir[locals.existing_idx].first_cluster
  OBVIOUS
<1>2. /\ op' = [locals EXCEPT !.cluster = first]
      /\ pc' = IF first >= 2 THEN "free" ELSE next
      /\ UNCHANGED <<fat, dir, data, result, failed>>
  BY <1>1 DEF Start
<1>3. OpTypes(op') /\ op'.name83 = locals.name83
  BY <1>2 DEF OpTypes, Calls
<1>4. pc' \in PcStates /\ pc' # "idle"
  BY <1>2 DEF PcStates
<1>5. Volume' = Volume
  BY <1>2 DEF Volume
<1> QED BY <1>2, <1>3, <1>4, <1>5 DEF MemTypes

LEMMA CallTypes ==
  ASSUME MemTypes, FatCall
  PROVE  MemTypes'
<1>1. ASSUME NEW kind, NEW n \in Names83, NEW content, NEW locals,
             Beginning(locals, kind, n, content), NEW next \in {"alloc", "unlink"},
             Start(locals, next)
      PROVE  MemTypes'
  BY <1>1, StartTypes DEF Beginning
<1>2. ASSUME result' = -1, UNCHANGED <<fat, dir, data, pc, op, owner, old, failed>>
      PROVE  MemTypes'
  BY <1>2 DEF MemTypes, Volume
<1>3. \E n \in Names83 :
        \/ result' = -1 /\ UNCHANGED <<fat, dir, data, pc, op, owner, old, failed>>
        \/ \E content \in Contents : \E locals :
             Beginning(locals, "write", n, content) /\ Start(locals, "alloc")
        \/ \E locals : Beginning(locals, "delete", n, << >>) /\ Start(locals, "unlink")
  BY CallBegins
<1> QED BY <1>1, <1>2, <1>3

LEMMA FreeTypes ==
  ASSUME MemTypes, fat12_free_chain
  PROVE  MemTypes'
<1>1. pc = "free" /\ UNCHANGED <<dir, data, result, failed>> /\ 0 \in Entry
  BY DEF fat12_free_chain, Entry
<1>2. fat \in Tables /\ dir \in [Slots -> DirEntries] /\ data \in [Clusters -> Blocks]
  BY MemVolume DEF MemTypes
<1>3. CASE Continues(op.cluster) /\ op.iterations < max_clusters
  <2>1. fat' = fat12_write_fat(fat, op.cluster, 0) /\ pc' = pc
        /\ op' = [op EXCEPT !.cluster = fat12_read_fat(fat, op.cluster), !.iterations = @ + 1]
    BY <1>3 DEF fat12_free_chain
  <2>2. PICK next : next = fat12_read_fat(fat, op.cluster)
    OBVIOUS
  <2>3. PICK m : m = op.iterations + 1
    OBVIOUS
  <2>4. op' = [op EXCEPT !.cluster = next, !.iterations = m]
    BY <2>1, <2>2, <2>3
  <2>5. OpTypes(op)
    BY DEF MemTypes
  <2>6. OpTypes(op') /\ op'.name83 = op.name83
    BY <2>4, <2>5 DEF OpTypes
  <2>7. fat' \in Tables
    BY <1>1, <1>2, <2>1, WriteKeepsBytes
  <2>8. VolumeTypes(Volume)'
    BY <1>1, <1>2, <2>7 DEF VolumeTypes, Volume
  <2> QED BY <1>1, <2>1, <2>6, <2>8 DEF MemTypes
<1>4. CASE ~(Continues(op.cluster) /\ op.iterations < max_clusters)
  <2>1. fat' = fat /\ op' = op /\ pc' \in {"alloc", "unlink"}
    BY <1>4 DEF fat12_free_chain
  <2>2. Volume' = Volume
    BY <1>1, <2>1 DEF Volume
  <2> QED BY <1>1, <2>1, <2>2 DEF MemTypes, PcStates
<1> QED BY <1>3, <1>4

LEMMA AllocTypes ==
  ASSUME MemTypes, AllocCluster
  PROVE  MemTypes'
<1> DEFINE x == fat12_alloc_cluster(fat)
<1>1. /\ pc = "alloc" /\ op.written < Len(op.content) /\ x # 0
      /\ fat' = Link(x)
      /\ data' = [data EXCEPT ![x] = op.content[op.written + 1]]
      /\ op' = [op EXCEPT !.first_cluster = IF @ = 0 THEN x ELSE @,
                          !.prev_cluster = x, !.written = @ + 1]
      /\ UNCHANGED <<dir, pc, result, failed>>
  BY DEF AllocCluster
<1>2. x \in Clusters /\ x \in Entry
  <2>1. x \in Clusters
    BY <1>1, AllocFindsFree
  <2> HIDE DEF x
  <2> QED BY <2>1, Geometry
<1> HIDE DEF x
<1>3. /\ fat \in Tables /\ dir \in [Slots -> DirEntries] /\ data \in [Clusters -> Blocks]
      /\ OpTypes(op) /\ op.name83 \in Names83
  BY <1>1, MemVolume DEF MemTypes
<1>4. /\ op.content \in Contents \cup {<< >>} /\ op.written \in Nat
      /\ op.first_cluster \in {0} \cup Clusters
  BY <1>3, OpTypesGive
<1>5. fat' \in Tables
  <2> DEFINE f == IF op.prev_cluster = 0 THEN fat ELSE fat12_write_fat(fat, op.prev_cluster, x)
  <2>1. f \in Tables
    BY <1>2, <1>3, WriteKeepsBytes
  <2>2. 4095 \in Entry /\ fat' = fat12_write_fat(f, x, 4095)
    BY <1>1 DEF Entry, Link
  <2> HIDE DEF f
  <2> QED BY <2>1, <2>2, WriteKeepsBytes
<1>6. data' \in [Clusters -> Blocks]
  <2>1. op.written + 1 \in 1 .. Len(op.content)
    BY <1>1, <1>4, ContentLength
  <2>2. op.content[op.written + 1] \in Blocks
    BY <1>4, <2>1, ContentLength
  <2> QED BY <1>1, <1>3, <2>2
<1>7. OpTypes(op') /\ op'.name83 = op.name83
  <2>1. PICK fc \in {0} \cup Clusters : fc = IF op.first_cluster = 0 THEN x ELSE op.first_cluster
    BY <1>2, <1>4
  <2>2. PICK w \in Nat : w = op.written + 1
    BY <1>4
  <2>3. op' = [op EXCEPT !.first_cluster = fc, !.prev_cluster = x, !.written = w]
    BY <1>1, <2>1, <2>2
  <2> QED BY <1>2, <1>3, <2>3 DEF OpTypes
<1>8. VolumeTypes(Volume)'
  BY <1>1, <1>3, <1>5, <1>6 DEF VolumeTypes, Volume
<1> QED BY <1>1, <1>3, <1>7, <1>8 DEF MemTypes

\* The end of a call.
LEMMA EndTypes ==
  ASSUME MemTypes, DiskFull \/ DirectoryFull \/ WriteEntry \/ WriteHidden \/ DeleteEntry
  PROVE  MemTypes'
<1>1. /\ fat \in Tables /\ dir \in [Slots -> DirEntries] /\ data \in [Clusters -> Blocks]
      /\ OpTypes(op) /\ failed \in BOOLEAN
  BY MemVolume DEF MemTypes
<1>2. /\ pc' = "idle" /\ op' = NoOp /\ result' \in {0, -1} /\ fat' = fat /\ data' = data
      /\ failed' \in BOOLEAN
  BY <1>1 DEF DiskFull, DirectoryFull, FailWrite, WriteEntry, WriteHidden, DeleteEntry, Return
<1>3. dir' \in [Slots -> DirEntries]
  <2>1. CASE DiskFull \/ DirectoryFull
    BY <1>1, <2>1 DEF DiskFull, DirectoryFull, FailWrite
  <2>2. CASE WriteEntry
    <3>1. PICK s : s = FileSlot(op.name83, op.first_cluster, Len(op.content))
      OBVIOUS
    <3>2. /\ op.name83 \in Names83 \cup {NoName} /\ op.first_cluster \in {0} \cup Clusters
          /\ Len(op.content) \in Nat
      BY <1>1, OpTypesGive, ContentLength
    <3>3. s \in DirEntries
      BY <3>1, <3>2 DEF FileSlot, DirEntries
    <3>4. dir' = [dir EXCEPT ![EntryIndex] = s]
      BY <2>2, <3>1 DEF WriteEntry
    <3> QED BY <1>1, <3>3, <3>4
  <2>3. CASE WriteHidden \/ DeleteEntry
    <3>1. DeletedSlot \in DirEntries
      BY DEF DeletedSlot, EndSlot, DirEntries
    <3>2. \E k : dir' = [dir EXCEPT ![k] = DeletedSlot]
      BY <2>3 DEF WriteHidden, DeleteEntry
    <3> HIDE DEF DeletedSlot
    <3> QED BY <1>1, <3>1, <3>2
  <2> QED BY <2>1, <2>2, <2>3
<1>4. VolumeTypes(Volume)'
  BY <1>1, <1>2, <1>3 DEF VolumeTypes, Volume
<1>5. OpTypes(op')
  BY <1>2, NoOpTypes
<1> QED BY <1>2, <1>4, <1>5 DEF MemTypes, PcStates

LEMMA StepTypes ==
  ASSUME MemTypes, FatStep
  PROVE  MemTypes'
BY FreeTypes, AllocTypes, EndTypes DEF FatStep

Disks ==
  [bpb : BOOLEAN, fat : Tables, dir : [Slots -> DirEntries], data : [Clusters -> Blocks]]

\* The disk is available in a session that has read it; only then is it
\* written, and calls run only in a session.
DiskTypes ==
  /\ MemTypes /\ disk \in Disks
  /\ phase \in Phases /\ disk_available \in BOOLEAN /\ lba \in Sectors
  /\ phase = "sync" => disk_available
  /\ phase # "sync" => lba = 0
  /\ phase # "run" => pc = "idle"
  /\ phase \in {"off", "probe", "read"} => ~disk_available
  /\ dirty \subseteq Names83 /\ torn \in BOOLEAN /\ lost \in BOOLEAN
  /\ damaged \in BOOLEAN

\* The partition has at least one sector.
LEMMA SomeSector == total_sectors \in Nat /\ total_sectors >= 1 /\ 0 \in Sectors
<1>1. PICK a \in Nat : a = reserved_sectors + num_fats * sectors_per_fat
  BY BpbAssumption
<1>2. PICK b \in Nat : b = bytes_per_sector /\ b >= 1
  BY BpbAssumption
<1>3. root_dir_offset \in Nat
  <2>1. root_dir_offset = a * b /\ a * b \in Nat
    BY <1>1, <1>2 DEF root_dir_offset
  <2> QED BY <2>1
<1>4. root_dir_sectors \in Nat
  <2>1. (root_entry_count * 32) + b - 1 \in Nat
    BY <1>2, BpbAssumption
  <2> QED BY <1>2, <2>1 DEF root_dir_sectors
<1>5. data_start_offset \in Nat
  <2>1. PICK r \in Nat : r = root_dir_sectors
    BY <1>4
  <2>2. r * b \in Nat
    BY <1>2
  <2> QED BY <1>2, <1>3, <2>1, <2>2 DEF data_start_offset
<1>6. total_sectors # 0
  <2> SUFFICES ASSUME total_sectors = 0 PROVE FALSE
    OBVIOUS
  <2>1. max_clusters = (0 - data_start_offset) \div b
    <3>1. cluster_bytes = b /\ 0 * b = 0
      BY <1>2, DiskAssumption DEF cluster_bytes
    <3> QED BY <1>2, <3>1 DEF max_clusters
  <2>2. PICK d \in Nat : d = data_start_offset
    BY <1>5
  <2>3. (0 - d) \div b <= 0
    BY <1>2
  <2> QED BY <2>1, <2>2, <2>3, Geometry
<1> QED BY <1>6, BpbAssumption DEF Sectors

\* The partition after a write, part by part.
LEMMA OverwrittenIs ==
  ASSUME NEW S
  PROVE  /\ Overwritten(S).bpb = (disk.bpb \/ 0 \in S)
         /\ Overwritten(S).fat =
              [o \in DOMAIN fat |-> IF FatSector(o) \in S THEN fat[o] ELSE disk.fat[o]]
         /\ Overwritten(S).dir =
              [i \in Slots |-> IF DirSector(i) \in S THEN dir[i] ELSE disk.dir[i]]
         /\ Overwritten(S).data =
              [cl \in Clusters |-> IF DataSector(cl) \in S THEN data[cl] ELSE disk.data[cl]]
BY DEF Overwritten

LEMMA OverwrittenTypes ==
  ASSUME disk \in Disks, VolumeTypes(Volume), NEW S
  PROVE  Overwritten(S) \in Disks
<1>1. /\ fat \in [0 .. FatBytes - 1 -> Byte] /\ dir \in [Slots -> DirEntries]
      /\ data \in [Clusters -> Blocks]
      /\ disk.bpb \in BOOLEAN /\ disk.fat \in [0 .. FatBytes - 1 -> Byte]
      /\ disk.dir \in [Slots -> DirEntries] /\ disk.data \in [Clusters -> Blocks]
  BY MemVolume DEF Disks, Tables
<1>2. PICK b \in BOOLEAN : b = (disk.bpb \/ 0 \in S)
  OBVIOUS
<1>3. PICK f \in Tables :
        f = [o \in DOMAIN fat |-> IF FatSector(o) \in S THEN fat[o] ELSE disk.fat[o]]
  <2>1. [o \in DOMAIN fat |-> IF FatSector(o) \in S THEN fat[o] ELSE disk.fat[o]] \in Tables
    BY <1>1 DEF Tables
  <2> QED BY <2>1
<1>4. PICK d \in [Slots -> DirEntries] :
        d = [i \in Slots |-> IF DirSector(i) \in S THEN dir[i] ELSE disk.dir[i]]
  <2>1. [i \in Slots |-> IF DirSector(i) \in S THEN dir[i] ELSE disk.dir[i]]
          \in [Slots -> DirEntries]
    BY <1>1
  <2> QED BY <2>1
<1>5. PICK e \in [Clusters -> Blocks] :
        e = [cl \in Clusters |-> IF DataSector(cl) \in S THEN data[cl] ELSE disk.data[cl]]
  <2>1. [cl \in Clusters |-> IF DataSector(cl) \in S THEN data[cl] ELSE disk.data[cl]]
          \in [Clusters -> Blocks]
    BY <1>1
  <2> QED BY <2>1
<1>6. Overwritten(S) = [bpb |-> b, fat |-> f, dir |-> d, data |-> e]
  BY <1>2, <1>3, <1>4, <1>5 DEF Overwritten
<1> QED BY <1>6 DEF Disks

LEMMA LoadTypes ==
  ASSUME MemTypes, pc = "idle", NEW v, VolumeTypes(v), Load(v), UNCHANGED callVars
  PROVE  MemTypes'
<1>1. Volume'.fat = v.fat /\ Volume'.dir = v.dir /\ Volume'.data = v.data
  BY DEF Load, Volume
<1>2. VolumeTypes(Volume)'
  BY <1>1 DEF VolumeTypes
<1> QED BY <1>2 DEF MemTypes, callVars

LEMMA InitDiskTypes == Init => DiskTypes
<1> SUFFICES ASSUME Init PROVE DiskTypes
  OBVIOUS
<1>1. VolumeTypes(Volume)
  BY FreshTables, MemVolume DEF Init
<1>2. MemTypes
  BY <1>1, NoOpTypes DEF Init, MemTypes, PcStates
<1>3. disk \in Disks
  BY FreshTables DEF Init, Disks
<1> QED BY <1>2, <1>3, SomeSector DEF Init, DiskTypes, Phases

LEMMA AdvanceTypes ==
  ASSUME DiskTypes, NEW missing \in BOOLEAN, NEW S, phase = "sync",
         disk' = Overwritten(S), Advance(missing),
         UNCHANGED <<fatVars, disk_available, damaged>>
  PROVE  DiskTypes'
<1> USE DEF DiskTypes
<1>1. MemTypes' /\ pc' = pc
  BY DEF fatVars, MemTypes, Volume
<1>2. disk' \in Disks
  BY OverwrittenTypes DEF MemTypes
<1>3. lba' \in Sectors
  BY SomeSector, DiskAssumption DEF Advance, Sectors
<1>4. lost' \in BOOLEAN
  <2>1. PICK b \in BOOLEAN : b = (missing \/ (lba > 0 /\ lost))
    OBVIOUS
  <2> QED BY <2>1 DEF Advance
<1>5. /\ phase' \in {"run", "sync"} /\ (phase' # "sync" => lba' = 0)
      /\ torn' \in BOOLEAN /\ dirty' \subseteq Names83
  BY <1>4 DEF Advance
<1> QED BY <1>1, <1>2, <1>3, <1>4, <1>5 DEF Phases

LEMMA NextDiskTypes ==
  ASSUME DiskTypes, [Next]_vars
  PROVE  DiskTypes'
<1> USE DEF DiskTypes
<1>1. CASE PowerOn \/ ata_init
  BY <1>1 DEF PowerOn, ata_init, fatVars, MemTypes, Volume, Phases
<1>2. CASE RamdiskFallback
  <2>1. MemTypes'
    BY <1>2, RamdiskTypes, LoadTypes DEF RamdiskFallback
  <2> QED BY <1>2, <2>1 DEF RamdiskFallback, callVars, Phases
<1>3. CASE ReadPartition
  <2>1. VolumeTypes(disk) /\ VolumeTypes(Fresh)
    BY FreshTables DEF Disks, VolumeTypes
  <2>2. MemTypes'
    BY <1>3, <2>1, LoadTypes DEF ReadPartition
  <2> QED BY <1>3, <2>2, SomeSector DEF ReadPartition, callVars, Phases
<1>4. CASE Call
  BY <1>4, CallTypes DEF Call
<1>5. CASE Step
  <2>1. MemTypes' /\ pc # "idle"
    BY <1>5, StepTypes DEF Step, FatStep, fat12_free_chain, AllocCluster, DiskFull,
       DirectoryFull, WriteEntry, WriteHidden, DeleteEntry
  <2>2. op.name83 \in Names83
    BY <2>1 DEF MemTypes
  <2> QED BY <1>5, <2>1, <2>2, SomeSector DEF Step, Phases
<1>6. CASE diskfs_sync
  <2>1. MemTypes'
    BY <1>6 DEF diskfs_sync, fatVars, MemTypes, Volume
  <2> QED BY <1>6, <2>1, SomeSector DEF diskfs_sync, fatVars, Phases
<1>7. CASE WriteChunk \/ UnreportedError
  <2>1. phase = "sync" /\ UNCHANGED <<fatVars, disk_available, damaged>>
    BY <1>7 DEF WriteChunk, UnreportedError
  <2>2. PICK missing, S : missing \in BOOLEAN /\ disk' = Overwritten(S) /\ Advance(missing)
    BY <1>7 DEF WriteChunk, UnreportedError
  <2> QED BY <2>1, <2>2, AdvanceTypes
<1>8. CASE WriteError
  <2>1. MemTypes' /\ pc' = pc
    BY <1>8 DEF WriteError, fatVars, MemTypes, Volume
  <2>2. disk' \in Disks
    BY <1>8, OverwrittenTypes DEF WriteError, MemTypes
  <2> QED BY <1>8, <2>1, <2>2, SomeSector DEF WriteError, Phases
<1>9. CASE PowerCut
  <2>1. VolumeTypes(Volume)'
    <3>1. Volume'.fat = NoVolume.fat /\ Volume'.dir = NoVolume.dir /\ Volume'.data = NoVolume.data
      BY <1>9 DEF PowerCut, Volume
    <3> QED BY <3>1, FreshTables DEF VolumeTypes
  <2>2. OpTypes(op')
    BY <1>9, NoOpTypes DEF PowerCut
  <2>3. MemTypes'
    BY <1>9, <2>1, <2>2 DEF PowerCut, MemTypes, PcStates
  <2>4. disk' \in Disks /\ torn' \in BOOLEAN
    BY <1>9, OverwrittenTypes DEF PowerCut, MemTypes
  <2> QED BY <1>9, <2>3, <2>4, SomeSector DEF PowerCut, Phases
<1>10. CASE UNCHANGED vars
  <2>1. MemTypes'
    BY <1>10 DEF vars, fatVars, MemTypes, Volume
  <2> QED BY <1>10, <2>1 DEF vars, fatVars, diskVars
<1> QED BY <1>1, <1>2, <1>3, <1>4, <1>5, <1>6, <1>7, <1>8, <1>9, <1>10 DEF Next

LEMMA DiskTypesInvariance == Spec => []DiskTypes
<1>1. Init => DiskTypes
  BY InitDiskTypes
<1>2. DiskTypes /\ [Next]_vars => DiskTypes'
  BY NextDiskTypes
<1> QED BY <1>1, <1>2, PTL DEF Spec

\* The partition keeps its layout through cuts and errors, write_partition
\* never leaves it, and nothing is written before it has been read.
THEOREM DiskTypeCorrect == Spec => []DiskTypeOK
<1>1. DiskTypes => DiskTypeOK
  BY DEF DiskTypes, Disks, Tables, DiskTypeOK
<1> QED BY <1>1, DiskTypesInvariance, PTL

-----------------------------------------------------------------------------
(* Writing the partition out.                                              *)

\* Every part of the volume is in a sector of the partition.
LEMMA SectorsCover ==
  /\ \A o \in 0 .. FatBytes - 1 : FatSector(o) \in Sectors
  /\ \A i \in Slots : DirSector(i) \in Sectors
  /\ \A cl \in Clusters : DataSector(cl) \in Sectors
<1>1. PICK b \in Nat : b = bytes_per_sector /\ b >= 1
  BY BpbAssumption
<1>2. PICK a \in Nat : a = reserved_sectors + sectors_per_fat /\ reserved_sectors \in Nat
                       /\ sectors_per_fat \in Nat
  BY BpbAssumption
<1>3. PICK e \in Nat : e = root_entry_count * 32
  BY BpbAssumption
<1>4. PICK r \in Nat : r = root_dir_sectors /\ r = (e + (b - 1)) \div b
  <2>1. e + b - 1 = e + (b - 1) /\ e + (b - 1) \in Nat
    BY <1>1, <1>3
  <2> QED BY <1>1, <1>3, <2>1 DEF root_dir_sectors
<1>5. root_dir_offset = a * b /\ data_start_offset = (a + r) * b
  <2>1. num_fats * sectors_per_fat = sectors_per_fat
    BY <1>2, DiskAssumption
  <2>2. root_dir_offset = a * b
    BY <1>1, <1>2, <2>1 DEF root_dir_offset
  <2>3. data_start_offset = a * b + r * b
    BY <1>1, <1>4, <2>2 DEF data_start_offset
  <2>4. a * b + r * b = (a + r) * b
    OBVIOUS
  <2> QED BY <2>2, <2>3, <2>4
<1>6. max_clusters = total_sectors - (a + r)
  <2>1. PICK t \in Nat : t = total_sectors
    BY BpbAssumption
  <2>2. PICK x \in Int : x = t - (a + r)
    OBVIOUS
  <2>3. t * b - (a + r) * b = x * b + 0 /\ cluster_bytes = b
    BY <1>1, <2>2, DiskAssumption DEF cluster_bytes
  <2>4. (x * b + 0) \div b = x + (0 \div b) /\ 0 \div b = 0
    <3>1. 0 * b + 0 = 0 /\ (0 * b + 0) \div b = 0
      BY <1>1, DivUnique
    <3>2. (x * b + 0) \div b = x + (0 \div b)
      BY <1>1, DivShift
    <3> QED BY <3>1, <3>2
  <2> QED BY <1>1, <1>5, <2>1, <2>2, <2>3, <2>4 DEF max_clusters
<1>7. max_clusters \in Nat /\ max_clusters >= 1 /\ total_sectors \in Nat
  BY Geometry, BpbAssumption
<1>8. ASSUME NEW o \in 0 .. FatBytes - 1 PROVE FatSector(o) \in Sectors
  <2>1. PICK q \in Nat : q = o \div b
    BY <1>1
  <2>2. PICK m \in Nat : m < b /\ o = b * q + m
    <3>1. (o % b) \in Nat /\ (o % b) < b /\ o = b * (o \div b) + (o % b)
      BY <1>1
    <3> QED BY <2>1, <3>1
  <2>3. o < sectors_per_fat * b /\ sectors_per_fat \in Nat
    BY <1>1, <1>2, Geometry DEF FatBytes
  <2>4. q < sectors_per_fat
    <3> SUFFICES ASSUME q >= sectors_per_fat PROVE FALSE
      BY <2>3
    <3>1. PICK d \in Nat : q = sectors_per_fat + d
      BY <2>3
    <3>2. d * b \in Nat /\ sectors_per_fat * b \in Nat
      BY <1>2
    <3>3. b * q = sectors_per_fat * b + d * b
      BY <1>2, <3>1
    <3> QED BY <2>2, <2>3, <3>2, <3>3
  <2>5. FatSector(o) = reserved_sectors + q
    BY <1>1, <2>1 DEF FatSector
  <2> QED BY <1>2, <1>6, <1>7, <2>4, <2>5 DEF Sectors
<1>9. ASSUME NEW i \in Slots PROVE DirSector(i) \in Sectors
  <2>1. i * 32 \in Nat /\ i * 32 + 32 <= e
    BY <1>3, BpbAssumption DEF Slots
  <2>2. PICK y \in Nat : y = i * 32
    BY <2>1
  <2>3. DirSector(i) = a + (y \div b) /\ y \div b \in Nat
    <3>1. (a * b + y) \div b = a + (y \div b) /\ y \div b \in Nat
      BY <1>1, DivShift
    <3> QED BY <1>1, <1>5, <2>2, <3>1 DEF DirSector
  <2>4. y \div b < r
    <3>1. PICK z \in Nat : e + (b - 1) = 1 * b + z /\ z >= y
      BY <1>1, <2>1, <2>2
    <3>2. r = 1 + (z \div b) /\ z \div b \in Nat
      BY <1>1, <1>4, <3>1, DivShift
    <3>3. y \div b <= z \div b
      BY <1>1, <3>1
    <3> QED BY <2>3, <3>2, <3>3
  <2> QED BY <1>6, <1>7, <2>3, <2>4 DEF Sectors
<1>10. ASSUME NEW cl \in Clusters PROVE DataSector(cl) \in Sectors
  <2>1. data_start_offset \div b = a + r
    <3>1. ((a + r) * b + 0) \div b = a + r
      BY <1>1, DivUnique
    <3>2. (a + r) * b + 0 = (a + r) * b
      BY <1>1
    <3> QED BY <1>5, <3>1, <3>2
  <2>2. cl \in Nat /\ cl >= 2 /\ cl <= max_clusters + 1
    BY <1>7 DEF Clusters
  <2>3. DataSector(cl) = (a + r) + (cl - 2)
    BY <1>1, <2>1 DEF DataSector
  <2> QED BY <1>6, <1>7, <2>2, <2>3 DEF Sectors
<1> QED BY <1>8, <1>9, <1>10

\* The sectors in S hold what memory holds.
Written(S) ==
  /\ 0 \in S => disk.bpb
  /\ \A o \in 0 .. FatBytes - 1 : FatSector(o) \in S => disk.fat[o] = fat[o]
  /\ \A i \in Slots : DirSector(i) \in S => disk.dir[i] = dir[i]
  /\ \A cl \in Clusters : DataSector(cl) \in S => disk.data[cl] = data[cl]

Whole == disk = [bpb |-> TRUE, fat |-> fat, dir |-> dir, data |-> data]

\* write_partition has written the sectors before lba, if the drive has lost
\* none of them, and after it has written all of them nothing changes memory
\* without a note in dirty.
SyncInv ==
  /\ phase = "sync" /\ (lba = 0 \/ ~lost) => Written(0 .. lba - 1)
  /\ phase = "run" /\ pc = "idle" /\ disk_available /\ dirty = {} /\ ~torn => Whole

LEMMA WrittenWhole ==
  ASSUME disk \in Disks, VolumeTypes(Volume), Written(Sectors)
  PROVE  Whole
<1>1. /\ disk.bpb \in BOOLEAN /\ disk.fat \in [0 .. FatBytes - 1 -> Byte]
      /\ disk.dir \in [Slots -> DirEntries] /\ disk.data \in [Clusters -> Blocks]
      /\ fat \in [0 .. FatBytes - 1 -> Byte] /\ dir \in [Slots -> DirEntries]
      /\ data \in [Clusters -> Blocks]
  BY MemVolume DEF Disks, Tables
<1>2. /\ disk.bpb = TRUE
      /\ \A o \in 0 .. FatBytes - 1 : disk.fat[o] = fat[o]
      /\ \A i \in Slots : disk.dir[i] = dir[i]
      /\ \A cl \in Clusters : disk.data[cl] = data[cl]
  BY <1>1, SectorsCover, SomeSector DEF Written
<1>3. disk.fat = fat
  <2>1. /\ disk.fat = [o \in 0 .. FatBytes - 1 |-> disk.fat[o]]
        /\ fat = [o \in 0 .. FatBytes - 1 |-> fat[o]]
    BY <1>1
  <2> QED BY <1>2, <2>1, Zenon
<1>4. disk.dir = dir
  BY <1>1, <1>2
<1>5. disk.data = data
  BY <1>1, <1>2
<1>6. disk = [bpb |-> disk.bpb, fat |-> disk.fat, dir |-> disk.dir, data |-> disk.data]
  BY DEF Disks
<1> QED BY <1>2, <1>3, <1>4, <1>5, <1>6 DEF Whole

\* One command writes its sectors and no others.
LEMMA OverwrittenWritten ==
  ASSUME DiskTypes, NEW n \in Nat, NEW S, Written(0 .. n - 1), disk' = Overwritten(S),
         UNCHANGED <<fat, dir, data>>
  PROVE  \A T : T \subseteq (0 .. n - 1) \cup S => Written(T)'
<1> SUFFICES ASSUME NEW T, T \subseteq (0 .. n - 1) \cup S PROVE Written(T)'
  OBVIOUS
<1>1. /\ disk'.bpb = (disk.bpb \/ 0 \in S)
      /\ disk'.fat = [o \in DOMAIN fat |-> IF FatSector(o) \in S THEN fat[o] ELSE disk.fat[o]]
      /\ disk'.dir = [i \in Slots |-> IF DirSector(i) \in S THEN dir[i] ELSE disk.dir[i]]
      /\ disk'.data = [cl \in Clusters |-> IF DataSector(cl) \in S THEN data[cl] ELSE disk.data[cl]]
  BY OverwrittenIs
<1>2. DOMAIN fat = 0 .. FatBytes - 1
  BY MemVolume DEF DiskTypes, MemTypes, Tables
<1>3. 0 \in T => disk'.bpb
  BY <1>1 DEF Written
<1>4. \A o \in 0 .. FatBytes - 1 : FatSector(o) \in T => disk'.fat[o] = fat'[o]
  BY <1>1, <1>2 DEF Written
<1>5. \A i \in Slots : DirSector(i) \in T => disk'.dir[i] = dir'[i]
  BY <1>1 DEF Written
<1>6. \A cl \in Clusters : DataSector(cl) \in T => disk'.data[cl] = data'[cl]
  BY <1>1 DEF Written
<1> QED BY <1>3, <1>4, <1>5, <1>6 DEF Written

LEMMA WrittenNone == Written(0 .. 0 - 1)
<1>1. 0 .. 0 - 1 = {}
  OBVIOUS
<1> QED BY <1>1 DEF Written

LEMMA ChunkIs ==
  ASSUME lba \in Sectors
  PROVE  /\ lba \in Nat /\ Chunk \subseteq Sectors /\ lba \in Chunk
         /\ IF lba + ChunkSectors < total_sectors
            THEN (0 .. lba - 1) \cup Chunk = 0 .. (lba + ChunkSectors) - 1
            ELSE (0 .. lba - 1) \cup Chunk = Sectors
<1>1. lba \in Nat /\ total_sectors \in Nat /\ ChunkSectors \in Nat /\ ChunkSectors >= 1
      /\ lba < total_sectors
  BY SomeSector, DiskAssumption DEF Sectors
<1>2. CASE lba + ChunkSectors < total_sectors
  <2>1. Chunk = lba .. (lba + ChunkSectors) - 1
    BY <1>1, <1>2 DEF Chunk
  <2> QED BY <1>1, <1>2, <2>1 DEF Sectors
<1>3. CASE ~(lba + ChunkSectors < total_sectors)
  <2>1. Chunk = lba .. total_sectors - 1
    BY <1>1, <1>3 DEF Chunk
  <2> QED BY <1>1, <1>3, <2>1 DEF Sectors
<1> QED BY <1>2, <1>3

\* A command that wrote its sectors, and one that lost some unnoticed.
LEMMA ChunkSyncInv ==
  ASSUME DiskTypes, SyncInv, WriteChunk
  PROVE  SyncInv'
<1>1. /\ phase = "sync" /\ disk' = Overwritten(Chunk) /\ UNCHANGED <<fat, dir, data, pc>>
      /\ Advance(FALSE)
  BY DEF WriteChunk, fatVars
<1>2. lba \in Sectors /\ lba \in Nat
  BY ChunkIs DEF DiskTypes
<1>3. ~lost' => lba = 0 \/ ~lost
  <2>1. lost' = (FALSE \/ (lba > 0 /\ lost)) /\ (lba > 0 \/ lba = 0)
    BY <1>1, <1>2 DEF Advance
  <2> QED BY <2>1, Zenon
<1>4. ASSUME lba = 0 \/ ~lost
      PROVE  \A T : T \subseteq (0 .. lba - 1) \cup Chunk => Written(T)'
  <2>1. PICK n \in Nat : n = lba
    BY <1>2
  <2>2. PICK S : S = Chunk
    OBVIOUS
  <2> QED BY <1>1, <1>4, <2>1, <2>2, OverwrittenWritten DEF SyncInv
<1>5. CASE lba + ChunkSectors < total_sectors
  <2>1. lba' = lba + ChunkSectors /\ phase' = "sync"
    BY <1>1, <1>5 DEF Advance
  <2>2. ASSUME lba' = 0 \/ ~lost' PROVE Written(0 .. lba - 1)'
    <3>1. lba' # 0
      BY <1>2, <2>1, DiskAssumption
    <3>2. PICK T : T = 0 .. lba' - 1
      OBVIOUS
    <3>3. T \subseteq (0 .. lba - 1) \cup Chunk
      BY <1>2, <1>5, <2>1, <3>2, ChunkIs
    <3> QED BY <1>3, <1>4, <2>2, <3>1, <3>2, <3>3
  <2> QED BY <2>1, <2>2 DEF SyncInv
<1>6. CASE ~(lba + ChunkSectors < total_sectors)
  <2>1. phase' = "run" /\ torn' = lost'
    BY <1>1, <1>6 DEF Advance
  <2>2. ASSUME ~torn' PROVE Whole'
    <3>1. lba = 0 \/ ~lost
      BY <1>3, <2>1, <2>2
    <3>2. Written(Sectors)'
      <4>1. PICK T : T = Sectors
        OBVIOUS
      <4>2. T \subseteq (0 .. lba - 1) \cup Chunk
        BY <1>2, <1>6, <4>1, ChunkIs
      <4> QED BY <1>4, <3>1, <4>1, <4>2 DEF Sectors
    <3>3. (disk \in Disks /\ VolumeTypes(Volume))'
      BY NextDiskTypes DEF DiskTypes, MemTypes, Next
    <3>4. (disk \in Disks /\ VolumeTypes(Volume) /\ Written(Sectors) => Whole)'
      BY WrittenWhole, PTL
    <3> QED BY <3>2, <3>3, <3>4
  <2> QED BY <2>1, <2>2 DEF SyncInv
<1> QED BY <1>5, <1>6

LEMMA MissedSyncInv ==
  ASSUME DiskTypes, UnreportedError
  PROVE  SyncInv'
<1>1. Advance(TRUE) /\ phase = "sync" /\ lba \in Nat /\ lost' = TRUE
  BY ChunkIs DEF UnreportedError, Advance, DiskTypes
<1>2. \/ phase' = "sync" /\ lba' = lba + ChunkSectors
      \/ phase' = "run" /\ torn' = TRUE
  BY <1>1 DEF Advance
<1> QED BY <1>1, <1>2, DiskAssumption DEF SyncInv

LEMMA NextSyncInv ==
  ASSUME DiskTypes, SyncInv, [Next]_vars
  PROVE  SyncInv'
<1>1. CASE PowerOn \/ ata_init
  BY <1>1 DEF PowerOn, ata_init, SyncInv
<1>2. CASE RamdiskFallback
  BY <1>2 DEF RamdiskFallback, SyncInv, DiskTypes
<1>3. CASE ReadPartition
  <2>1. CASE disk.bpb
    <3>1. disk = [bpb |-> disk.bpb, fat |-> disk.fat, dir |-> disk.dir, data |-> disk.data]
      BY DEF DiskTypes, Disks
    <3>2. disk.bpb = TRUE
      BY <2>1 DEF DiskTypes, Disks
    <3>3. Whole'
      BY <1>3, <2>1, <3>1, <3>2 DEF ReadPartition, Load, Whole
    <3> QED BY <1>3, <2>1, <3>3 DEF ReadPartition, SyncInv
  <2>2. CASE ~disk.bpb
    <3>1. phase' = "sync" /\ lba' = 0
      BY <1>3, <2>2 DEF ReadPartition
    <3>2. Written(0 .. 0 - 1)'
      BY WrittenNone, PTL
    <3> QED BY <3>1, <3>2 DEF SyncInv
  <2> QED BY <2>1, <2>2
<1>4. CASE Call
  <2>1. \/ UNCHANGED <<fat, dir, data, pc>> \/ pc' # "idle"
    BY <1>4 DEF Call, FatCall, fat12_write_file, fat12_delete_file, DeleteMissing, Start
  <2> QED BY <1>4, <2>1 DEF Call, SyncInv, Whole
<1>5. CASE Step
  <2>1. CASE pc' = "idle" /\ disk_available
    <3>1. dirty' # {} /\ lba' = 0
      BY <1>5, <2>1 DEF Step
    <3>2. Written(0 .. 0 - 1)'
      BY WrittenNone, PTL
    <3> QED BY <3>1, <3>2 DEF SyncInv
  <2>2. CASE ~(pc' = "idle" /\ disk_available)
    BY <1>5, <2>2 DEF Step, SyncInv
  <2> QED BY <2>1, <2>2
<1>6. CASE diskfs_sync
  <2>1. phase' = "sync" /\ lba' = 0
    BY <1>6 DEF diskfs_sync
  <2>2. Written(0 .. 0 - 1)'
    BY WrittenNone, PTL
  <2> QED BY <2>1, <2>2 DEF SyncInv
<1>7. CASE WriteChunk \/ UnreportedError
  BY <1>7, ChunkSyncInv, MissedSyncInv
<1>8. CASE WriteError
  BY <1>8 DEF WriteError, SyncInv
<1>9. CASE PowerCut
  BY <1>9 DEF PowerCut, SyncInv
<1>10. CASE UNCHANGED vars
  BY <1>10 DEF vars, fatVars, diskVars, SyncInv, Written, Whole
<1> QED BY <1>1, <1>2, <1>3, <1>4, <1>5, <1>6, <1>7, <1>8, <1>9, <1>10 DEF Next

\* When write_partition has returned 0, and the drive has lost no sector behind
\* ata_write_sectors' back, the partition is the volume in memory, sector for
\* sector, for every chunk size and every size of the partition.
THEOREM SyncWritesAll == Spec => []SyncIsComplete
<1>1. Init => SyncInv
  BY DEF Init, SyncInv
<1>2. DiskTypes /\ SyncInv /\ [Next]_vars => SyncInv'
  BY NextSyncInv
<1>3. SyncInv => SyncIsComplete
  BY DEF SyncInv, Whole, SyncIsComplete
<1> QED BY <1>1, <1>2, <1>3, DiskTypesInvariance, PTL DEF Spec

-----------------------------------------------------------------------------
(* What a boot finds.                                                      *)

\* As long as no boot has read a torn partition, memory is sound, and so is
\* the partition unless a write of it is running or was interrupted.
BootInv ==
  /\ ~damaged /\ phase \in {"run", "sync"} => SoundInv
  /\ ~damaged /\ ~torn /\ phase # "sync" /\ disk.bpb => SoundVolume(disk)

LEMMA SoundParts ==
  ASSUME NEW v, SoundVolume(v), NEW u, u.fat = v.fat, u.dir = v.dir, u.data = v.data
  PROVE  SoundVolume(u)
<1>1. PICK own : Owned(v, own)
  BY DEF SoundVolume
<1>2. Owned(u, own)
  BY <1>1 DEF Owned
<1> QED BY <1>2 DEF SoundVolume, VolumeTypes

LEMMA WholeSound ==
  ASSUME SoundInv, pc = "idle", Whole
  PROVE  SoundVolume(disk)
<1>1. SoundVolume(Volume)
  BY MemorySound
<1>2. disk.fat = fat /\ disk.dir = dir /\ disk.data = data
  BY DEF Whole
<1>3. disk.fat = Volume.fat /\ disk.dir = Volume.dir /\ disk.data = Volume.data
  BY <1>2, VolumeIs
<1>4. PICK v : v = Volume
  OBVIOUS
<1>5. PICK u : u = disk
  OBVIOUS
<1>6. SoundVolume(u)
  BY <1>1, <1>3, <1>4, <1>5, SoundParts
<1> QED BY <1>5, <1>6

LEMMA NextBootInv ==
  ASSUME DiskTypes, SyncInv, BootInv, [Next]_vars
  PROVE  BootInv'
<1>1. ASSUME UNCHANGED fatVars, SoundInv
      PROVE  SoundInv'
  <2>1. UNCHANGED fatVars => [FatNext]_fatVars
    OBVIOUS
  <2> QED BY <1>1, <2>1, NextSoundInv
<1>2. ASSUME UNCHANGED disk, NEW v, v = disk, SoundVolume(v)
      PROVE  SoundVolume(disk)'
  BY <1>2
<1>3. PICK v : v = disk
  OBVIOUS
<1>4. CASE PowerOn \/ ata_init
  BY <1>2, <1>3, <1>4 DEF PowerOn, ata_init, BootInv
<1>5. CASE RamdiskFallback
  <2>1. pc' = "idle" /\ op' = NoOp /\ result' \in {0, -1} /\ failed' \in BOOLEAN /\ phase # "sync"
    BY <1>5 DEF RamdiskFallback, callVars, DiskTypes, MemTypes
  <2>2. SoundInv'
    <3>1. PICK r : r = ramdisk
      OBVIOUS
    <3>2. SoundVolume(r) /\ Load(r)
      BY <1>5, <3>1, RamdiskSound DEF RamdiskFallback
    <3> QED BY <2>1, <3>2, LoadSound
  <2>3. UNCHANGED <<disk, torn, damaged>> /\ phase' = "run"
    BY <1>5 DEF RamdiskFallback
  <2> QED BY <1>2, <1>3, <2>1, <2>2, <2>3 DEF BootInv
<1>6. CASE ReadPartition
  <2>1. /\ pc' = "idle" /\ op' = NoOp /\ result' \in {0, -1} /\ failed' \in BOOLEAN
        /\ phase # "sync" /\ UNCHANGED <<disk, torn>> /\ damaged' = (damaged \/ torn)
        /\ IF disk.bpb THEN Load(disk) /\ phase' = "run" ELSE Load(Fresh) /\ phase' = "sync"
    BY <1>6 DEF ReadPartition, callVars, DiskTypes, MemTypes
  <2>2. CASE disk.bpb
    <3>1. ASSUME ~damaged' PROVE SoundVolume(v)
      BY <1>3, <2>1, <2>2, <3>1 DEF BootInv
    <3>2. ASSUME ~damaged' PROVE SoundInv'
      BY <1>3, <2>1, <2>2, <3>1, <3>2, LoadSound
    <3> QED BY <1>2, <1>3, <2>1, <3>1, <3>2 DEF BootInv
  <2>3. CASE ~disk.bpb
    <3>1. SoundInv'
      <4>1. PICK r : r = Fresh
        OBVIOUS
      <4>2. SoundVolume(r) /\ Load(r)
        BY <2>1, <2>3, <4>1, FreshSound
      <4> QED BY <2>1, <4>2, LoadSound
    <3> QED BY <2>1, <2>3, <3>1 DEF BootInv
  <2> QED BY <2>2, <2>3
<1>7. CASE Call \/ Step
  <2>1. /\ phase = "run" /\ phase' \in {"run", "sync"} /\ [FatNext]_fatVars
        /\ UNCHANGED <<disk, torn, damaged>>
    BY <1>7 DEF Call, Step, FatNext
  <2>2. ~damaged' => SoundInv'
    BY <2>1, NextSoundInv DEF BootInv
  <2> QED BY <1>2, <1>3, <2>1, <2>2 DEF BootInv
<1>8. CASE diskfs_sync
  BY <1>1, <1>8 DEF diskfs_sync, BootInv
<1>9. CASE WriteChunk \/ UnreportedError
  <2>1. phase = "sync" /\ UNCHANGED <<fatVars, disk_available, damaged>>
    BY <1>9 DEF WriteChunk, UnreportedError
  <2>2. ~damaged' => SoundInv'
    BY <1>1, <2>1 DEF BootInv
  <2>3. PICK missing : Advance(missing)
    BY <1>9 DEF WriteChunk, UnreportedError
  <2>4. CASE lba + ChunkSectors < total_sectors
    BY <2>1, <2>2, <2>3, <2>4 DEF Advance, BootInv
  <2>5. CASE ~(lba + ChunkSectors < total_sectors)
    <3>1. phase' = "run" /\ torn' = lost' /\ (~lost' => dirty' = {})
      BY <2>3, <2>5 DEF Advance
    <3>2. pc' = "idle" /\ disk_available'
      BY <2>1 DEF DiskTypes, fatVars
    <3>3. ~torn' => Whole'
      BY <3>1, <3>2, NextSyncInv DEF SyncInv
    <3>4. (SoundInv /\ pc = "idle" /\ Whole => SoundVolume(disk))'
      BY WholeSound, PTL
    <3> QED BY <2>2, <3>1, <3>2, <3>3, <3>4 DEF BootInv
  <2> QED BY <2>4, <2>5
<1>10. CASE WriteError
  BY <1>1, <1>10 DEF WriteError, BootInv
<1>11. CASE PowerCut
  BY <1>2, <1>3, <1>11 DEF PowerCut, BootInv
<1>12. CASE UNCHANGED vars
  BY <1>1, <1>2, <1>3, <1>12 DEF vars, diskVars, BootInv
<1> QED BY <1>4, <1>5, <1>6, <1>7, <1>8, <1>9, <1>10, <1>11, <1>12 DEF Next

DiskBase == DiskTypes /\ SyncInv /\ BootInv

LEMMA DiskBaseInvariance == Spec => []DiskBase
<1>1. Init => DiskBase
  <2> SUFFICES ASSUME Init PROVE DiskBase
    OBVIOUS
  <2>1. phase = "off" /\ disk.bpb = FALSE
    BY DEF Init
  <2> QED BY <2>1, InitDiskTypes DEF DiskBase, SyncInv, BootInv
<1>2. DiskBase /\ [Next]_vars => DiskBase'
  BY NextDiskTypes, NextSyncInv, NextBootInv DEF DiskBase
<1> QED BY <1>1, <1>2, PTL DEF Spec

\* A session that did not begin on a torn partition works on a consistent
\* volume: free clusters have empty entries and no two chains meet, however
\* many boots, failed writes and drive errors came before.
THEOREM BootsFindSoundVolumes == Spec => []CleanBootSound
<1>1. DiskBase => CleanBootSound
  BY DEF DiskBase, BootInv, SoundInv, FatInv, CleanBootSound
<1> QED BY <1>1, DiskBaseInvariance, PTL

-----------------------------------------------------------------------------
(* Reading the same file from two volumes that agree where it lies.        *)

\* The volumes u and v agree on the clusters in C, and nothing linked to a
\* cluster in C lies elsewhere.
AgreeOn(u, v, C) ==
  \A cl \in Clusters : cl \in C =>
    /\ fat12_read_fat(u.fat, cl) = fat12_read_fat(v.fat, cl)
    /\ u.data[cl] = v.data[cl]
    /\ Continues(fat12_read_fat(v.fat, cl)) =>
         fat12_read_fat(v.fat, cl) \in Clusters /\ fat12_read_fat(v.fat, cl) \in C

LEMMA SameWalk ==
  ASSUME NEW u, NEW v, u.fat \in Tables, v.fat \in Tables, NEW i,
         NEW first \in {0} \cup Clusters, u.dir[i].first_cluster = first,
         v.dir[i].first_cluster = first, u.dir[i].size = v.dir[i].size,
         NEW C, first # 0 => first \in C, AgreeOn(u, v, C)
  PROVE  ReadEntry(u, i) = ReadEntry(v, i)
<1> DEFINE w == Walk(u, i)
           x == Walk(v, i)
<1>1. first \in Entry /\ 0 \notin Clusters /\ max_clusters \in Nat
      /\ \A cl \in Clusters : cl \in Nat /\ cl >= 2 /\ cl < 4088
  BY Geometry DEF Entry
<1>2. /\ w \in [0 .. max_clusters -> Entry] /\ w[0] = first
      /\ \A k \in 1 .. max_clusters :
           w[k] = IF w[k - 1] \in Clusters THEN fat12_read_fat(u.fat, w[k - 1]) ELSE 0
  BY <1>1, WalkSpec
<1>3. /\ x \in [0 .. max_clusters -> Entry] /\ x[0] = first
      /\ \A k \in 1 .. max_clusters :
           x[k] = IF x[k - 1] \in Clusters THEN fat12_read_fat(v.fat, x[k - 1]) ELSE 0
  BY <1>1, WalkSpec
<1> HIDE DEF w, x
<1> DEFINE S == {k \in Nat : k <= max_clusters =>
                   w[k] = x[k] /\ (Continues(x[k]) => x[k] \in Clusters /\ x[k] \in C)}
<1>4. 0 \in S
  BY <1>1, <1>2, <1>3 DEF Continues
<1>5. ASSUME NEW k \in Nat, k \in S PROVE k + 1 \in S
  <2> SUFFICES ASSUME k + 1 <= max_clusters
               PROVE  /\ w[k + 1] = x[k + 1]
                      /\ Continues(x[k + 1]) => x[k + 1] \in Clusters /\ x[k + 1] \in C
    OBVIOUS
  <2>1. k + 1 \in 1 .. max_clusters /\ (k + 1) - 1 = k /\ k <= max_clusters
    BY <1>1
  <2>2. w[k] = x[k] /\ (Continues(x[k]) => x[k] \in Clusters /\ x[k] \in C)
    BY <1>5, <2>1
  <2>3. /\ w[k + 1] = IF w[k] \in Clusters THEN fat12_read_fat(u.fat, w[k]) ELSE 0
        /\ x[k + 1] = IF x[k] \in Clusters THEN fat12_read_fat(v.fat, x[k]) ELSE 0
    BY <1>2, <1>3, <2>1
  <2>4. CASE x[k] \in Clusters
    <3>1. PICK cl \in Clusters : cl = x[k]
      BY <2>4
    <3>2. Continues(cl)
      BY <1>1 DEF Continues
    <3>3. cl \in C
      BY <2>2, <3>1, <3>2
    <3> QED BY <2>2, <2>3, <3>1, <3>3 DEF AgreeOn
  <2>5. CASE x[k] \notin Clusters
    BY <2>2, <2>3, <2>5 DEF Continues
  <2> QED BY <2>4, <2>5
<1>6. Nat \subseteq S
  <2> HIDE DEF S
  <2> QED BY <1>4, <1>5, InductionOnSets
<1>7. \A k \in 0 .. max_clusters :
        w[k] = x[k] /\ (Continues(x[k]) => x[k] \in Clusters /\ x[k] \in C)
  BY <1>1, <1>6
<1> HIDE DEF S
<1>8. PICK n : n = v.dir[i].size
  OBVIOUS
<1> DEFINE Stops == {k \in 0 .. max_clusters : k = n \/ k = max_clusters \/ ~Continues(x[k])}
<1>9. Reads(v, i) = Least(Stops)
  BY <1>8 DEF Reads, x
<1>10. Reads(u, i) = Least(Stops)
  <2>1. Stops = {k \in 0 .. max_clusters : k = n \/ k = max_clusters \/ ~Continues(w[k])}
    BY <1>7
  <2> HIDE DEF Stops
  <2> QED BY <1>8, <2>1 DEF Reads, w
<1>11. PICK r \in Stops : r = Least(Stops) /\ \A j \in Stops : r <= j
  <2>1. max_clusters \in Stops /\ Stops \subseteq Nat
    BY <1>1
  <2> HIDE DEF Stops
  <2>2. \E r \in Stops : \A j \in Stops : r <= j
    BY <2>1, HasLeast
  <2> QED BY <2>2 DEF Least
<1>12. r \in 0 .. max_clusters
  OBVIOUS
<1>13. ASSUME NEW k \in 1 .. r PROVE u.data[w[k - 1]] = v.data[x[k - 1]]
  <2>1. k - 1 \in 0 .. max_clusters /\ ~(r <= k - 1)
    <3>1. r \in Nat /\ r <= max_clusters
      BY <1>1, <1>12
    <3> HIDE DEF Stops
    <3> QED BY <1>1, <3>1
  <2>2. Continues(x[k - 1])
    BY <1>11, <2>1
  <2>3. w[k - 1] = x[k - 1] /\ x[k - 1] \in Clusters /\ x[k - 1] \in C
    BY <1>7, <2>1, <2>2
  <2> QED BY <2>3 DEF AgreeOn
<1> HIDE DEF Stops
<1>14. /\ ReadEntry(u, i) = [k \in 1 .. r |-> u.data[w[k - 1]]]
       /\ ReadEntry(v, i) = [k \in 1 .. r |-> v.data[x[k - 1]]]
  BY <1>9, <1>10, <1>11 DEF ReadEntry, w, x
<1> QED BY <1>13, <1>14

\* Reading depends on nothing but the volume's three parts.
LEMMA SameParts ==
  ASSUME NEW u, NEW v, u.fat = v.fat, u.dir = v.dir, u.data = v.data, NEW n
  PROVE  fat12_read_file(u, n) = fat12_read_file(v, n)
BY DEF fat12_read_file, ReadEntry, Reads, Walk

\* Wherever two tables have the same entry, every table mixed from their
\* bytes has it too, although a byte belongs to two entries.
LEMMA MixedEntry ==
  ASSUME NEW f \in Tables, NEW g \in Tables, NEW h \in Tables, NEW cl \in Clusters,
         fat12_read_fat(f, cl) = fat12_read_fat(g, cl),
         \A o \in 0 .. FatBytes - 1 : h[o] = f[o] \/ h[o] = g[o]
  PROVE  fat12_read_fat(h, cl) = fat12_read_fat(f, cl)
<1>1. PICK o \in Nat : o = EntryOffset(cl) /\ o + 1 < FatBytes
  BY Geometry
<1>2. o \in 0 .. FatBytes - 1 /\ o + 1 \in 0 .. FatBytes - 1
  BY <1>1, Geometry
<1>3. PICK a \in Byte, b \in Byte, c \in Byte, d \in Byte, x \in Byte, y \in Byte :
        /\ a = f[o] /\ b = f[o + 1] /\ c = g[o] /\ d = g[o + 1] /\ x = h[o] /\ y = h[o + 1]
  BY <1>2 DEF Tables
<1>4. (x = a \/ x = c) /\ (y = b \/ y = d)
  BY <1>2, <1>3
<1>5. /\ (a + 256 * b) % 4096 = a + 256 * (b % 16)
      /\ (c + 256 * d) % 4096 = c + 256 * (d % 16)
      /\ (x + 256 * y) % 4096 = x + 256 * (y % 16)
      /\ (a + 256 * b) \div 16 = (a \div 16) + 16 * b
      /\ (c + 256 * d) \div 16 = (c \div 16) + 16 * d
      /\ (x + 256 * y) \div 16 = (x \div 16) + 16 * y
  BY EvenReadsHalf, OddReadsHalf
<1>6. CASE cl % 2 = 1
  <2>1. /\ fat12_read_fat(f, cl) = (a \div 16) + 16 * b
        /\ fat12_read_fat(g, cl) = (c \div 16) + 16 * d
        /\ fat12_read_fat(h, cl) = (x \div 16) + 16 * y
    BY <1>1, <1>3, <1>5, <1>6 DEF fat12_read_fat, read16
  <2>2. a \div 16 \in 0 .. 15 /\ c \div 16 \in 0 .. 15
    BY DEF Byte
  <2>3. PICK p \in 0 .. 15, q \in 0 .. 15 : p = a \div 16 /\ q = c \div 16
    BY <2>2
  <2>4. p + 16 * b = q + 16 * d
    BY <2>1, <2>3
  <2>5. b = d /\ p = q
    BY <2>4 DEF Byte
  <2> QED BY <1>4, <2>1, <2>3, <2>5
<1>7. CASE cl % 2 # 1
  <2>1. /\ fat12_read_fat(f, cl) = a + 256 * (b % 16)
        /\ fat12_read_fat(g, cl) = c + 256 * (d % 16)
        /\ fat12_read_fat(h, cl) = x + 256 * (y % 16)
    BY <1>1, <1>3, <1>5, <1>7 DEF fat12_read_fat, read16
  <2>2. b % 16 \in 0 .. 15 /\ d % 16 \in 0 .. 15
    BY DEF Byte
  <2>3. PICK p \in 0 .. 15, q \in 0 .. 15 : p = b % 16 /\ q = d % 16
    BY <2>2
  <2>4. a + 256 * p = c + 256 * q
    BY <2>1, <2>3
  <2>5. a = c /\ p = q
    BY <2>4 DEF Byte
  <2> QED BY <1>4, <2>1, <2>3, <2>5
<1> QED BY <1>6, <1>7

-----------------------------------------------------------------------------
(* The partition and the volume in memory, while some names are touched.   *)

\* The names that changed since the partition was last written whole.
Touched == dirty \cup (IF pc = "idle" THEN {} ELSE {op.name83})

\* Slot i has a file of a name that is not in T.
Spared(d, T, i) == d[i].st = "used" /\ d[i].name \notin T

\* Partition v and memory have the same files outside T, in the same slots
\* and the same clusters, and a scan of v's directory reaches them.
Agrees(v, T) ==
  \A i \in Slots : Spared(dir, T, i) \/ Spared(v.dir, T, i) =>
    /\ v.dir[i] = dir[i]
    /\ \A j \in 0 .. i : v.dir[j].st # "end"
    /\ \A cl \in Clusters : owner[cl] = i =>
         /\ fat12_read_fat(v.fat, cl) = fat12_read_fat(fat, cl)
         /\ v.data[cl] = data[cl]

\* The running call is about a name in T.
CallIn(T) == pc # "idle" => op.name83 \in T

\* A boot from v reads files outside T as memory has them.
LEMMA AgreeReads ==
  ASSUME SoundInv, NEW T, CallIn(T), NEW v, VolumeTypes(v), Agrees(v, T),
         NEW n, n \notin T
  PROVE  fat12_read_file(v, n) = fat12_read_file(Volume, n)
<1>1. FatInv /\ EndsLast /\ FatTypeOK
  BY DEF SoundInv, DirInv, FatInv
<1>2. \A i \in Slots :
        (Scanned(v.dir, i) /\ v.dir[i].name = n) <=> (Scanned(dir, i) /\ dir[i].name = n)
  <2>1. ASSUME NEW i \in Slots, Scanned(v.dir, i), v.dir[i].name = n
        PROVE  Scanned(dir, i) /\ dir[i].name = n
    <3>1. v.dir[i] = dir[i] /\ v.dir[i].st = "used"
      BY <2>1 DEF Scanned, Agrees, Spared
    <3> QED BY <1>1, <2>1, <3>1, AllScanned
  <2>2. ASSUME NEW i \in Slots, Scanned(dir, i), dir[i].name = n
        PROVE  Scanned(v.dir, i) /\ v.dir[i].name = n
    <3>1. dir[i].st = "used"
      BY <2>2 DEF Scanned
    <3>2. v.dir[i] = dir[i] /\ \A j \in 0 .. i : v.dir[j].st # "end"
      BY <2>2, <3>1 DEF Agrees, Spared
    <3> QED BY <2>2, <3>1, <3>2 DEF Scanned
  <2> QED BY <2>1, <2>2
<1>3. Find(v.dir, n) = Find(dir, n)
  BY <1>2 DEF Find
<1>4. CASE Find(dir, n) = -1
  BY <1>3, <1>4, VolumeIs DEF fat12_read_file
<1>5. CASE Find(dir, n) # -1
  <2>1. PICK i \in Slots : i = Find(dir, n) /\ dir[i].st = "used" /\ dir[i].name = n
    BY <1>1, <1>5, FindSpec
  <2>2. op.existing_idx # i
    <3>1. CASE pc = "idle"
      BY <1>1, <3>1, SlotsNat DEF FatInv, CallInv, NoOp
    <3>2. CASE pc # "idle"
      <4>1. op.name83 # n /\ op.existing_idx = Find(dir, op.name83)
        BY <3>2 DEF CallIn, SoundInv, DirInv, FoundAtStart
      <4>2. op.existing_idx = i => dir[i].name = op.name83
        BY <1>1, <4>1, FindSpec, SlotsNat
      <4> QED BY <2>1, <4>1, <4>2
    <3> QED BY <3>1, <3>2
  <2>3. /\ v.dir[i] = dir[i]
        /\ \A cl \in Clusters : owner[cl] = i =>
             /\ fat12_read_fat(v.fat, cl) = fat12_read_fat(fat, cl)
             /\ v.data[cl] = data[cl]
    BY <2>1 DEF Agrees, Spared
  <2>4. PICK first \in {0} \cup Clusters : first = dir[i].first_cluster
    BY <1>1 DEF FatTypeOK, DirEntries
  <2> DEFINE C == {cl \in Clusters : owner[cl] = i}
  <2>5. PICK m : m = Volume
    OBVIOUS
  <2>6. m.fat = fat /\ m.dir = dir /\ m.data = data
    BY <2>5, VolumeIs
  <2>7. first # 0 => first \in C
    BY <1>1, <2>1, <2>2, <2>4 DEF FatInv, ChainsApart
  <2>8. AgreeOn(v, m, C)
    <3>1. ASSUME NEW cl \in Clusters, owner[cl] = i
          PROVE  /\ fat12_read_fat(v.fat, cl) = fat12_read_fat(fat, cl)
                 /\ v.data[cl] = data[cl]
                 /\ Continues(fat12_read_fat(fat, cl)) =>
                      fat12_read_fat(fat, cl) \in Clusters /\ owner[fat12_read_fat(fat, cl)] = i
      BY <1>1, <2>3, <3>1 DEF FatInv, ChainsApart
    <3> QED BY <2>6, <3>1 DEF AgreeOn
  <2>9. /\ v.fat \in Tables /\ m.fat \in Tables
        /\ v.dir[i].first_cluster = first /\ m.dir[i].first_cluster = first
        /\ v.dir[i].size = m.dir[i].size
    BY <1>1, <2>3, <2>4, <2>6 DEF VolumeTypes, FatTypeOK, Tables
  <2>10. PICK K : K = C
    OBVIOUS
  <2> HIDE DEF C
  <2>11. ReadEntry(v, i) = ReadEntry(m, i)
    BY <2>7, <2>8, <2>9, <2>10, SameWalk
  <2> QED BY <1>3, <1>5, <2>1, <2>5, <2>6, <2>11 DEF fat12_read_file
<1> QED BY <1>4, <1>5

\* Writing any of memory's sectors keeps the agreement.
LEMMA OverwrittenAgrees ==
  ASSUME DiskTypes, EndsLast, NEW T, Agrees(disk, T), NEW S
  PROVE  Agrees(Overwritten(S), T)
<1>1. PICK v : v = Overwritten(S)
  OBVIOUS
<1>2. /\ v.fat = [o \in DOMAIN fat |-> IF FatSector(o) \in S THEN fat[o] ELSE disk.fat[o]]
      /\ v.dir = [i \in Slots |-> IF DirSector(i) \in S THEN dir[i] ELSE disk.dir[i]]
      /\ v.data = [cl \in Clusters |-> IF DataSector(cl) \in S THEN data[cl] ELSE disk.data[cl]]
  BY <1>1, OverwrittenIs
<1>3. v.fat \in Tables /\ fat \in Tables /\ disk.fat \in Tables /\ DOMAIN fat = 0 .. FatBytes - 1
  <2>1. v \in Disks
    BY <1>1, OverwrittenTypes DEF DiskTypes, MemTypes
  <2> QED BY <2>1, MemVolume DEF DiskTypes, MemTypes, Disks, Tables
<1>4. \A i \in Slots : v.dir[i] = dir[i] \/ v.dir[i] = disk.dir[i]
  BY <1>2
<1>5. ASSUME NEW i \in Slots, Spared(dir, T, i) \/ Spared(v.dir, T, i)
      PROVE  /\ v.dir[i] = dir[i]
             /\ \A j \in 0 .. i : v.dir[j].st # "end"
             /\ \A cl \in Clusters : owner[cl] = i =>
                  /\ fat12_read_fat(v.fat, cl) = fat12_read_fat(fat, cl)
                  /\ v.data[cl] = data[cl]
  <2>1. Spared(dir, T, i) \/ Spared(disk.dir, T, i)
    BY <1>4, <1>5 DEF Spared
  <2>2. /\ disk.dir[i] = dir[i]
        /\ \A j \in 0 .. i : disk.dir[j].st # "end"
        /\ \A cl \in Clusters : owner[cl] = i =>
             /\ fat12_read_fat(disk.fat, cl) = fat12_read_fat(fat, cl)
             /\ disk.data[cl] = data[cl]
    BY <2>1 DEF Agrees
  <2>3. v.dir[i] = dir[i] /\ dir[i].st = "used"
    BY <1>4, <2>1, <2>2 DEF Spared
  <2>4. ASSUME NEW j \in 0 .. i PROVE v.dir[j].st # "end"
    <3>1. j \in Slots /\ (j = i \/ j < i)
      BY BpbAssumption DEF Slots
    <3>2. dir[j].st # "end"
      BY <2>3, <3>1 DEF EndsLast
    <3> QED BY <1>4, <2>2, <3>1, <3>2
  <2>5. ASSUME NEW cl \in Clusters, owner[cl] = i
        PROVE  /\ fat12_read_fat(v.fat, cl) = fat12_read_fat(fat, cl)
               /\ v.data[cl] = data[cl]
    <3>1. \A o \in 0 .. FatBytes - 1 : v.fat[o] = fat[o] \/ v.fat[o] = disk.fat[o]
      BY <1>2, <1>3
    <3>2. PICK f \in Tables, g \in Tables, h \in Tables :
            f = fat /\ g = disk.fat /\ h = v.fat
      BY <1>3
    <3>3. fat12_read_fat(h, cl) = fat12_read_fat(f, cl)
      BY <2>2, <2>5, <3>1, <3>2, MixedEntry
    <3>4. v.data[cl] = data[cl]
      BY <1>2, <2>2, <2>5
    <3> QED BY <3>2, <3>3, <3>4
  <2> QED BY <2>3, <2>4, <2>5
<1>6. Agrees(v, T)
  BY <1>5 DEF Agrees
<1> QED BY <1>1, <1>6

\* Memory agrees with itself.
LEMMA WholeAgrees ==
  ASSUME EndsLast, disk.fat = fat, disk.dir = dir, disk.data = data, NEW T
  PROVE  Agrees(disk, T)
<1>1. ASSUME NEW i \in Slots, dir[i].st = "used", NEW j \in 0 .. i
      PROVE  dir[j].st # "end"
  <2>1. j \in Slots /\ (j = i \/ j < i)
    BY BpbAssumption DEF Slots
  <2> QED BY <1>1, <2>1 DEF EndsLast
<1> QED BY <1>1 DEF Agrees, Spared

LEMMA AllAgree ==
  EndsLast /\ disk.fat = fat /\ disk.dir = dir /\ disk.data = data
    => \A T : Agrees(disk, T)
BY WholeAgrees

\* The running call is not about a file outside T.
LEMMA OtherSlot ==
  ASSUME SoundInv, NEW T, CallIn(T), NEW i \in Slots, Spared(dir, T, i)
  PROVE  op.existing_idx # i
<1>1. FatInv /\ EndsLast
  BY DEF SoundInv, DirInv
<1>2. CASE pc = "idle"
  BY <1>1, <1>2, SlotsNat DEF FatInv, CallInv, NoOp
<1>3. CASE pc # "idle"
  <2>1. op.name83 # dir[i].name /\ op.existing_idx = Find(dir, op.name83)
    BY <1>3 DEF CallIn, SoundInv, DirInv, FoundAtStart, Spared
  <2>2. op.existing_idx = i => dir[i].name = op.name83
    BY <1>1, <2>1, FindSpec, SlotsNat
  <2> QED BY <2>1, <2>2
<1> QED BY <1>2, <1>3

\* A step keeps the files outside T where they are.
LEMMA KeepsSpared ==
  ASSUME SoundInv, FatNext, NEW T, CallIn(T), CallIn(T)', NEW i \in Slots, Spared(dir, T, i)
  PROVE  /\ dir'[i] = dir[i]
         /\ \A cl \in Clusters :
              /\ (owner'[cl] = i) <=> (owner[cl] = i)
              /\ owner[cl] = i => /\ fat12_read_fat(fat', cl) = fat12_read_fat(fat, cl)
                                  /\ data'[cl] = data[cl]
<1>1. /\ FatInv /\ FatTypeOK /\ CallInv /\ SparesOthers /\ dir[i].st = "used"
      /\ owner \in [Clusters -> Owners]
  BY StepSparesOthers DEF SoundInv, FatInv, FatTypeOK, Spared
<1>2. op.existing_idx # i
  BY OtherSlot
<1>3. /\ dir'[i] = dir[i]
      /\ \A cl \in Clusters : owner[cl] = i =>
           /\ fat12_read_fat(fat', cl) = fat12_read_fat(fat, cl)
           /\ data'[cl] = data[cl]
  BY <1>1, <1>2 DEF SparesOthers
<1>4. SoundInv'
  BY NextSoundInv
<1>5. Spared(dir, T, i)'
  BY <1>3 DEF Spared
<1>6. op'.existing_idx # i
  <2>2. (SoundInv /\ CallIn(T) /\ Spared(dir, T, i) => op.existing_idx # i)'
    BY OtherSlot, PTL
  <2> QED BY <1>4, <1>5, <2>2
<1>7. i # Free /\ i # Lost /\ i # New /\ i # Dying /\ i # -1
  BY SlotsNat DEF Free, Lost, New, Dying
<1>8. ASSUME NEW cl \in Clusters PROVE (owner'[cl] = i) <=> (owner[cl] = i)
  <2>1. CASE FatCall
    <3>1. ASSUME NEW kind, NEW n, NEW content, NEW locals,
                 Beginning(locals, kind, n, content), NEW next \in {"alloc", "unlink"},
                 Start(locals, next)
          PROVE  (owner'[cl] = i) <=> (owner[cl] = i)
      <4>1. locals \in Calls
        BY <3>1 DEF Beginning
      <4>2. PICK e : e = locals.existing_idx
        OBVIOUS
      <4>3. op'.existing_idx = e
        BY <1>1, <3>1, <4>1, <4>2, StartEffect
      <4>4. \/ owner'[cl] = owner[cl]
            \/ owner[cl] = e /\ owner'[cl] \in {Dying, Lost}
        BY <1>1, <3>1, <4>1, <4>2, StartEffect
      <4> QED BY <1>6, <1>7, <4>3, <4>4
    <3>2. \/ owner' = owner
          \/ \E n \in Names83, content \in Contents : \E locals :
               Beginning(locals, "write", n, content) /\ Start(locals, "alloc")
          \/ \E n \in Names83 : \E locals :
               Beginning(locals, "delete", n, << >>) /\ Start(locals, "unlink")
      BY <2>1, CallBegins
    <3> QED BY <3>1, <3>2
  <2>2. CASE fat12_free_chain /\ Continues(op.cluster) /\ op.iterations < max_clusters
    <3>1. owner[op.cluster] \in {Dying, Free}
      BY <1>1, <2>2, FreeEffect
    <3>2. owner' = [owner EXCEPT ![op.cluster] = Free]
      BY <2>2 DEF fat12_free_chain
    <3> QED BY <1>1, <1>7, <3>1, <3>2
  <2>3. CASE fat12_free_chain /\ ~(Continues(op.cluster) /\ op.iterations < max_clusters)
    <3>1. owner'[cl] = IF owner[cl] = Dying THEN Lost ELSE owner[cl]
      BY <2>3 DEF fat12_free_chain
    <3> QED BY <1>7, <3>1
  <2>4. CASE AllocCluster
    <3>1. PICK x \in Clusters : /\ owner[x] = Free /\ owner'[x] = New
                                /\ \A d \in Clusters : d # x => owner'[d] = owner[d]
      BY <1>1, <2>4, AllocEffect
    <3> QED BY <1>7, <3>1
  <2>5. CASE DiskFull \/ DirectoryFull
    <3>1. owner'[cl] = IF owner[cl] # New THEN owner[cl]
                       ELSE IF op.existing_idx = -1 THEN Lost ELSE op.existing_idx
      BY <2>5 DEF DiskFull, DirectoryFull, FailWrite
    <3> QED BY <1>2, <1>7, <3>1
  <2>6. CASE WriteEntry
    <3>1. owner'[cl] = IF owner[cl] = New THEN EntryIndex ELSE owner[cl]
      BY <2>6 DEF WriteEntry
    <3>2. EntryIndex # i
      BY <1>1, <1>2, <1>7, FindFreeType DEF EntryIndex
    <3> QED BY <1>7, <3>1, <3>2
  <2>7. CASE WriteHidden
    <3>1. owner'[cl] = IF owner[cl] = New THEN Lost ELSE owner[cl]
      BY <2>7 DEF WriteHidden
    <3> QED BY <1>7, <3>1
  <2>8. CASE DeleteEntry
    BY <2>8 DEF DeleteEntry
  <2> QED BY <2>1, <2>2, <2>3, <2>4, <2>5, <2>6, <2>7, <2>8 DEF FatNext, FatStep
<1> QED BY <1>3, <1>8

\* A step gives no file a name outside T.
LEMMA MakesNone ==
  ASSUME MemTypes, FatNext, NEW T, CallIn(T), NEW i \in Slots, Spared(dir', T, i)
  PROVE  dir'[i] = dir[i]
<1>1. dir \in [Slots -> DirEntries]
  BY MemVolume DEF MemTypes
<1>2. CASE dir' = dir
  BY <1>2
<1>3. CASE WriteEntry
  <2>1. PICK k, s : /\ dir' = [dir EXCEPT ![k] = s]
                    /\ s = FileSlot(op.name83, op.first_cluster, Len(op.content))
    BY <1>3 DEF WriteEntry
  <2>2. s.name \in T
    BY <1>3, <2>1 DEF WriteEntry, FileSlot, CallIn
  <2>3. dir'[i] = s \/ dir'[i] = dir[i]
    BY <1>1, <2>1
  <2> QED BY <2>2, <2>3 DEF Spared
<1>4. CASE WriteHidden \/ DeleteEntry
  <2>1. PICK k, s : dir' = [dir EXCEPT ![k] = s] /\ s = DeletedSlot
    BY <1>4 DEF WriteHidden, DeleteEntry
  <2>2. s.st # "used"
    BY <2>1 DEF DeletedSlot, EndSlot
  <2>3. dir'[i] = s \/ dir'[i] = dir[i]
    BY <1>1, <2>1
  <2> QED BY <2>2, <2>3 DEF Spared
<1>5. dir' = dir \/ WriteEntry \/ WriteHidden \/ DeleteEntry
  BY DEF FatNext, FatCall, FatStep, fat12_write_file, fat12_delete_file, DeleteMissing,
     Start, fat12_free_chain, AllocCluster, DiskFull, DirectoryFull, FailWrite
<1> QED BY <1>2, <1>3, <1>4, <1>5

\* So a session keeps the agreement on every name it does not touch.
LEMMA StepAgrees ==
  ASSUME SoundInv, MemTypes, FatNext, NEW T, CallIn(T), CallIn(T)', NEW v, Agrees(v, T)
  PROVE  Agrees(v, T)'
<1>1. ASSUME NEW i \in Slots, Spared(dir', T, i) \/ Spared(v.dir, T, i)
      PROVE  /\ v.dir[i] = dir'[i]
             /\ \A j \in 0 .. i : v.dir[j].st # "end"
             /\ \A cl \in Clusters : owner'[cl] = i =>
                  /\ fat12_read_fat(v.fat, cl) = fat12_read_fat(fat', cl)
                  /\ v.data[cl] = data'[cl]
  <2>1. Spared(dir, T, i) \/ Spared(v.dir, T, i)
    <3>1. CASE Spared(dir', T, i)
      <4>1. dir'[i] = dir[i]
        BY <3>1, MakesNone
      <4> QED BY <3>1, <4>1 DEF Spared
    <3> QED BY <1>1, <3>1
  <2>2. /\ v.dir[i] = dir[i]
        /\ \A j \in 0 .. i : v.dir[j].st # "end"
        /\ \A cl \in Clusters : owner[cl] = i =>
             /\ fat12_read_fat(v.fat, cl) = fat12_read_fat(fat, cl)
             /\ v.data[cl] = data[cl]
    BY <2>1 DEF Agrees
  <2>3. Spared(dir, T, i)
    BY <2>1, <2>2 DEF Spared
  <2> QED BY <2>2, <2>3, KeepsSpared
<1> QED BY <1>1 DEF Agrees

-----------------------------------------------------------------------------
(* Crashes.                                                                *)

\* A partition that was never written is empty; what a boot reads of a name
\* that is not dirty is what was there at the last complete write; and in a
\* session on the disk memory agrees with it.
CrashInv ==
  /\ phase # "sync" /\ ~disk.bpb /\ ~torn => \A i \in Slots : disk.dir[i].st = "end"
  /\ ~damaged => \A n \in Names83 \ dirty :
       /\ fat12_read_file(disk, n) = synced[n]
       /\ ~disk.bpb => synced[n] = NoFile
  /\ ~damaged /\ disk_available => Agrees(disk, Touched)

LEMMA AgreesMore ==
  ASSUME NEW v, NEW T, NEW U, T \subseteq U, Agrees(v, T)
  PROVE  Agrees(v, U)
BY DEF Agrees, Spared

\* Memory, the marks and the touched names stay as they are.
LEMMA SameAgrees ==
  ASSUME Agrees(disk', Touched), UNCHANGED <<fatVars, dirty>>
  PROVE  Agrees(disk, Touched)'
BY DEF Agrees, Spared, Touched, fatVars

\* While the partition is being written, wherever it stops.
LEMMA SyncReads ==
  ASSUME DiskBase, CrashInv, phase = "sync", ~damaged, NEW S
  PROVE  /\ Agrees(Overwritten(S), Touched)
         /\ \A n \in Names83 \ dirty :
              fat12_read_file(Overwritten(S), n) = fat12_read_file(disk, n)
<1>1. /\ DiskTypes /\ SoundInv /\ pc = "idle" /\ disk_available /\ disk \in Disks
      /\ VolumeTypes(Volume)
  BY DEF DiskBase, BootInv, DiskTypes, MemTypes
<1>2. PICK T : T = Touched
  OBVIOUS
<1>3. T = dirty /\ CallIn(T)
  BY <1>1, <1>2 DEF Touched, CallIn
<1>4. PICK u, v : u = disk /\ v = Overwritten(S)
  OBVIOUS
<1>5. VolumeTypes(u) /\ VolumeTypes(v)
  <2>1. v \in Disks
    BY <1>1, <1>4, OverwrittenTypes
  <2> QED BY <1>1, <1>4, <2>1 DEF Disks, VolumeTypes
<1>6. Agrees(u, T) /\ Agrees(v, T)
  <2>1. Agrees(disk, T)
    BY <1>1, <1>2 DEF CrashInv
  <2>2. Agrees(Overwritten(S), T)
    BY <1>1, <2>1, OverwrittenAgrees DEF SoundInv, DirInv
  <2> QED BY <1>4, <2>1, <2>2
<1>7. ASSUME NEW n \in Names83 \ dirty
      PROVE  fat12_read_file(v, n) = fat12_read_file(u, n)
  <2>1. fat12_read_file(v, n) = fat12_read_file(Volume, n)
    BY <1>1, <1>3, <1>5, <1>6, AgreeReads
  <2>2. fat12_read_file(u, n) = fat12_read_file(Volume, n)
    BY <1>1, <1>3, <1>5, <1>6, AgreeReads
  <2> QED BY <2>1, <2>2
<1> QED BY <1>2, <1>4, <1>6, <1>7

LEMMA EndsNone ==
  ASSUME NEW d, \A i \in Slots : d[i].st = "end", NEW n
  PROVE  Find(d, n) = -1
<1>1. {i \in Slots : Scanned(d, i) /\ d[i].name = n} = {}
  BY DEF Scanned
<1> QED BY <1>1 DEF Find, LeastOr

LEMMA InitCrashInv == Init => CrashInv
<1> SUFFICES ASSUME Init PROVE CrashInv
  OBVIOUS
<1>1. \A i \in Slots : disk.dir[i].st = "end"
  BY DEF Init, FreshDir, EndSlot
<1>2. \A n : fat12_read_file(disk, n) = NoFile
  BY <1>1, EndsNone DEF fat12_read_file
<1>3. synced = [n \in Names83 |-> NoFile] /\ disk_available = FALSE
  BY DEF Init
<1> QED BY <1>1, <1>2, <1>3 DEF CrashInv

\* A step of a call in a session on the disk.
LEMMA SessionAgrees ==
  ASSUME DiskBase, CrashInv, Call \/ Step, ~damaged, disk_available
  PROVE  Agrees(disk, Touched)'
<1>1. /\ FatNext /\ disk' = disk /\ SoundInv /\ MemTypes /\ Agrees(disk, Touched)
  BY DEF Call, Step, FatNext, DiskBase, BootInv, DiskTypes, CrashInv
<1>2. Touched \subseteq Touched' /\ (pc # "idle" => op.name83 \in Touched')
  <2>1. CASE Call
    <3>1. pc = "idle" /\ dirty' = dirty
      BY <2>1 DEF Call, FatCall, fat12_write_file, fat12_delete_file, DeleteMissing, Start
    <3> QED BY <3>1 DEF Touched
  <2>2. CASE Step /\ pc' = "idle"
    BY <2>2 DEF Step, Touched
  <2>3. CASE Step /\ pc' # "idle"
    <3>1. dirty' = dirty /\ FatStep /\ FatInv
      BY <1>1, <2>3 DEF Step, SoundInv
    <3>2. op'.name83 = op.name83
      <4>1. CASE fat12_free_chain /\ Continues(op.cluster) /\ op.iterations < max_clusters
        BY <3>1, <4>1, FreeEffect
      <4>2. CASE fat12_free_chain /\ ~(Continues(op.cluster) /\ op.iterations < max_clusters)
        BY <4>2 DEF fat12_free_chain
      <4>3. CASE AllocCluster
        BY <3>1, <4>3, AllocEffect
      <4>4. CASE DiskFull \/ DirectoryFull \/ WriteEntry \/ WriteHidden \/ DeleteEntry
        BY <2>3, <4>4 DEF DiskFull, DirectoryFull, FailWrite, WriteEntry, WriteHidden,
                          DeleteEntry, Return
      <4> QED BY <3>1, <4>1, <4>2, <4>3, <4>4 DEF FatStep
    <3> QED BY <2>3, <3>1, <3>2 DEF Touched
  <2> QED BY <2>1, <2>2, <2>3
<1>3. PICK T : T = Touched'
  OBVIOUS
<1>4. CallIn(T) /\ CallIn(T)'
  BY <1>2, <1>3 DEF CallIn, Touched
<1>5. PICK v : v = disk
  OBVIOUS
<1>6. Agrees(v, T)
  <2>1. PICK U : U = Touched
    OBVIOUS
  <2> QED BY <1>1, <1>2, <1>3, <1>5, <2>1, AgreesMore
<1>7. Agrees(v, T)'
  BY <1>1, <1>4, <1>6, StepAgrees
<1> QED BY <1>1, <1>3, <1>5, <1>7

\* A session begins.
LEMMA ReadCrashInv ==
  ASSUME DiskBase, DiskBase', CrashInv, ReadPartition
  PROVE  CrashInv'
<1>1. /\ UNCHANGED <<disk, torn, synced, dirty>> /\ damaged' = (damaged \/ torn)
      /\ phase # "sync"
      /\ IF disk.bpb THEN Load(disk) /\ phase' = "run" ELSE Load(Fresh) /\ phase' = "sync"
  BY DEF ReadPartition
<1>2. ASSUME ~damaged' PROVE Agrees(disk, Touched)'
  <2>1. ~damaged /\ ~torn /\ phase' \in {"run", "sync"}
    BY <1>1, <1>2
  <2>2. EndsLast'
    BY <1>2, <2>1 DEF DiskBase, BootInv, SoundInv, DirInv
  <2>3. CASE disk.bpb
    <3>1. disk'.fat = fat' /\ disk'.dir = dir' /\ disk'.data = data'
      BY <1>1, <2>3 DEF Load
    <3>3. (EndsLast /\ disk.fat = fat /\ disk.dir = dir /\ disk.data = data
            => \A T : Agrees(disk, T))'
      BY AllAgree, PTL
    <3>4. PICK T : T = Touched'
      OBVIOUS
    <3>5. Agrees(disk, T)'
      BY <2>2, <3>1, <3>3
    <3> QED BY <3>4, <3>5
  <2>4. CASE ~disk.bpb
    <3>1. \A i \in Slots : disk.dir[i].st = "end"
      BY <1>1, <2>1, <2>4 DEF CrashInv
    <3>2. dir' = FreshDir
      BY <1>1, <2>4, FreshTables DEF Load
    <3>3. \A i \in Slots : dir'[i].st = "end"
      BY <3>2 DEF FreshDir, EndSlot
    <3> QED BY <1>1, <3>1, <3>3 DEF Agrees, Spared
  <2> QED BY <2>3, <2>4
<1> QED BY <1>1, <1>2 DEF CrashInv

\* A command of the sync returns 0.
LEMMA AdvanceCrashInv ==
  ASSUME DiskBase, DiskBase', CrashInv, WriteChunk \/ UnreportedError
  PROVE  CrashInv'
<1>1. phase = "sync" /\ UNCHANGED <<fatVars, disk_available, damaged>>
  BY DEF WriteChunk, UnreportedError
<1>2. PICK missing, S : disk' = Overwritten(S) /\ Advance(missing)
  BY DEF WriteChunk, UnreportedError
<1>3. ~disk'.bpb => ~disk.bpb
  BY <1>2, OverwrittenIs
<1>4. CASE phase' = "sync" \/ torn'
  <2>1. UNCHANGED <<synced, dirty>>
    BY <1>1, <1>2, <1>4 DEF Advance
  <2>2. ASSUME ~damaged
        PROVE  /\ Agrees(disk', Touched)
               /\ \A n \in Names83 \ dirty : fat12_read_file(disk', n) = fat12_read_file(disk, n)
    BY <1>1, <1>2, <2>2, SyncReads
  <2>3. ~damaged => Agrees(disk, Touched)'
    BY <1>1, <2>1, <2>2, SameAgrees
  <2> QED BY <1>1, <1>3, <1>4, <2>1, <2>2, <2>3 DEF CrashInv
<1>5. CASE phase' # "sync" /\ ~torn'
  <2>1. phase' = "run" /\ synced' = InMemory /\ dirty' = {} /\ torn' = FALSE
    BY <1>1, <1>2, <1>5 DEF Advance, DiskBase, DiskTypes
  <2>2. pc' = "idle" /\ disk_available'
    BY <1>1 DEF DiskBase, DiskTypes, fatVars
  <2>3. Whole'
    BY <2>1, <2>2 DEF DiskBase, SyncInv
  <2>4. disk'.bpb /\ disk'.fat = fat' /\ disk'.dir = dir' /\ disk'.data = data'
    BY <2>3 DEF Whole
  <2>5. \A n \in Names83 : fat12_read_file(disk', n) = synced'[n]
    <3>1. PICK u, v : u = disk' /\ v = Volume
      OBVIOUS
    <3>2. u.fat = v.fat /\ u.dir = v.dir /\ u.data = v.data
      BY <1>1, <2>4, <3>1, VolumeIs DEF fatVars
    <3>3. \A n : fat12_read_file(u, n) = fat12_read_file(v, n)
      BY <3>2, SameParts
    <3> QED BY <2>1, <3>1, <3>3 DEF InMemory
  <2>6. ~damaged' => Agrees(disk, Touched)'
    <3> SUFFICES ASSUME ~damaged' PROVE Agrees(disk, Touched)'
      OBVIOUS
    <3>1. EndsLast'
      BY <2>1 DEF DiskBase, BootInv, SoundInv, DirInv
    <3>2. (EndsLast /\ disk.fat = fat /\ disk.dir = dir /\ disk.data = data
            => \A T : Agrees(disk, T))'
      BY AllAgree, PTL
    <3>3. PICK T : T = Touched'
      OBVIOUS
    <3>4. Agrees(disk, T)'
      BY <2>4, <3>1, <3>2
    <3> QED BY <3>3, <3>4
  <2> QED BY <2>1, <2>4, <2>5, <2>6 DEF CrashInv
<1> QED BY <1>4, <1>5

LEMMA NextCrashInv ==
  ASSUME DiskBase, DiskBase', CrashInv, [Next]_vars
  PROVE  CrashInv'
<1>1. CASE PowerOn \/ ata_init \/ RamdiskFallback
  <2>1. /\ UNCHANGED <<disk, torn, damaged, synced, dirty, disk_available>>
        /\ disk_available = FALSE /\ phase # "sync"
    BY <1>1 DEF PowerOn, ata_init, RamdiskFallback, DiskBase, DiskTypes
  <2> QED BY <2>1 DEF CrashInv
<1>2. CASE ReadPartition
  BY <1>2, ReadCrashInv
<1>3. CASE Call \/ Step
  <2>1. /\ UNCHANGED <<disk, torn, damaged, synced, disk_available>> /\ dirty \subseteq dirty'
        /\ phase # "sync"
    BY <1>3 DEF Call, Step
  <2>2. ~damaged /\ disk_available => Agrees(disk, Touched)'
    BY <1>3, SessionAgrees
  <2> QED BY <2>1, <2>2 DEF CrashInv
<1>4. CASE diskfs_sync \/ UNCHANGED vars
  <2>1. /\ UNCHANGED <<fatVars, disk, torn, damaged, synced, dirty, disk_available>>
        /\ phase' # "sync" => phase # "sync"
    BY <1>4 DEF diskfs_sync, vars, diskVars
  <2>2. Agrees(disk, Touched) => Agrees(disk, Touched)'
    BY <2>1, SameAgrees
  <2> QED BY <2>1, <2>2 DEF CrashInv
<1>5. CASE WriteChunk \/ UnreportedError
  BY <1>5, AdvanceCrashInv
<1>6. CASE WriteError
  <2>1. PICK S : disk' = Overwritten(S)
    BY <1>6 DEF WriteError
  <2>2. /\ phase = "sync" /\ torn' = TRUE
        /\ UNCHANGED <<fatVars, disk_available, synced, dirty, damaged>>
    BY <1>6 DEF WriteError
  <2>3. ~damaged => /\ Agrees(disk', Touched)
                    /\ \A n \in Names83 \ dirty :
                         fat12_read_file(disk', n) = fat12_read_file(disk, n)
    BY <2>1, <2>2, SyncReads
  <2>4. ~damaged => Agrees(disk, Touched)'
    BY <2>2, <2>3, SameAgrees
  <2>5. ~disk'.bpb => ~disk.bpb
    BY <2>1, OverwrittenIs
  <2> QED BY <2>2, <2>3, <2>4, <2>5 DEF CrashInv
<1>7. CASE PowerCut /\ phase = "sync"
  <2>1. PICK S : disk' = Overwritten(S)
    BY <1>7 DEF PowerCut
  <2>2. torn' = TRUE /\ disk_available' = FALSE /\ UNCHANGED <<synced, dirty, damaged>>
    BY <1>7 DEF PowerCut
  <2>3. ~damaged => \A n \in Names83 \ dirty :
                      fat12_read_file(disk', n) = fat12_read_file(disk, n)
    BY <1>7, <2>1, SyncReads
  <2>4. ~disk'.bpb => ~disk.bpb
    BY <2>1, OverwrittenIs
  <2> QED BY <2>2, <2>3, <2>4 DEF CrashInv
<1>8. CASE PowerCut /\ phase # "sync"
  BY <1>8 DEF PowerCut, CrashInv
<1> QED BY <1>1, <1>2, <1>3, <1>4, <1>5, <1>6, <1>7, <1>8 DEF Next

\* Whenever power is cut, whichever sectors of the running command reach the
\* medium, and whatever errors the drive has, those included that make
\* ata_write_sectors return 0 though sectors are missing, the next boot reads
\* every file that was not changed since the partition was last written whole
\* as it was then.
THEOREM CrashesSpareOthers == Spec => []CrashSparesOthers
<1>1. Init => CrashInv
  BY InitCrashInv
<1>2. DiskBase /\ DiskBase' /\ CrashInv /\ [Next]_vars => CrashInv'
  BY NextCrashInv
<1>3. CrashInv => CrashSparesOthers
  BY DEF CrashInv, CrashSparesOthers, OnDisk
<1> QED BY <1>1, <1>2, <1>3, DiskBaseInvariance, PTL DEF Spec
=============================================================================
