----------------------------- MODULE VolumeFormat -----------------------------
(***************************************************************************)
(* What f_mkfs lays out, mount_volume accepts: on drives of any size and   *)
(* for any parameters of f_mkfs, whatever disk calls fail.                 *)
(***************************************************************************)
EXTENDS Volume, TLAPS

USE SMTT(10), SMTT(60)

\* Cluster sizes and block sizes f_mkfs works with.
AuSizes == {1, 2, 4, 8, 16, 32, 64, 128}
BlkSizes == AuSizes \cup {256, 512, 1024, 2048, 4096, 8192, 16384, 32768}

MaxBlk == 32768

\* Root directories of whole sectors.
RootSize(n) == n >= 1 /\ n <= 32768 /\ n % 16 = 0

\* The part of a drive of d sectors that a volume takes.
Extent(p, d) ==
  /\ p.sz_vol >= 128 /\ p.b_vol \in {0, N_SEC_TRACK} /\ p.b_vol + p.sz_vol = d
  /\ p.sfd <=> p.b_vol = 0
  /\ p.n_fat \in 1 .. 2 /\ p.sz_blk \in BlkSizes

\* The parameters of the sizing loop, for a drive of d sectors.
Parms ==
  [sfd : BOOLEAN, fat32 : BOOLEAN, n_fat : 1 .. 2, n_root : Nat, sz_blk : BlkSizes,
   sz_au : AuSizes \cup {0}, b_vol : Nat, sz_vol : Nat, fsty : {"FAT16", "FAT32"}]

GoodParm(m, d) == m \in Parms /\ Extent(m, d) /\ RootSize(m.n_root)

\* The sectors in front of the data area.
System(l) == l.sz_rsv + l.sz_fat * l.n_fat + l.sz_dir

\* A number of clusters that mount_volume takes for the FAT type.
TypeCount(fsty, n) ==
  CASE fsty = "FAT32" -> n > MAX_FAT16 /\ n <= MAX_FAT32
    [] fsty = "FAT16" -> n > MAX_FAT12 /\ n <= MAX_FAT16
    [] fsty = "FAT12" -> n <= MAX_FAT12

\* A layout f_mkfs writes on a drive of d sectors.
GoodLayout(l, d) ==
  /\ l \in Layouts /\ Extent(l, d) /\ l.pau \in AuSizes
  /\ l.sz_rsv >= 1 /\ l.sz_rsv < 65536 /\ l.sz_fat > 0
  /\ IF l.fsty = "FAT32" THEN l.n_root = 0 /\ l.sz_dir = 0 /\ l.sz_rsv >= 32
     ELSE RootSize(l.n_root) /\ l.sz_dir = l.n_root \div 16 /\ l.sz_fat < 65536
  /\ System(l) <= l.sz_vol /\ l.n_clst = (l.sz_vol - System(l)) \div l.pau
  /\ TypeCount(l.fsty, l.n_clst)
  /\ Ceil(FatBytes(l.fsty, l.n_clst + 2), SS) <= l.sz_fat
  /\ (l.b_vol + System(l)) % l.sz_blk = 0

Mbr == [kind |-> "mbr", StLba |-> N_SEC_TRACK]

\* FSInfo has the free count of a volume with an empty root directory.
Informed(l) == lostInfo \/ (l.fsty = "FAT32" /\ fsinfo[l.b_vol + 1] = l.n_clst - 1)

\* The disk holds the volume of a layout and all of it.
Installed(l) ==
  /\ boot[l.b_vol] = Vbr(l) /\ (l.b_vol # 0 => boot[0] = Mbr)
  /\ fats = l /\ root = l /\ Informed(l)

Writing == pc \in {"fats", "root", "mbr"}

\* The formatter's parameters and layouts are good, and it runs unmounted.
Laid ==
  /\ pc = "size" => GoodParm(mk, sz_drv)
  /\ pc \in {"vbr", "fats", "root", "mbr"} => GoodLayout(mk, sz_drv)
  /\ pc \in {"size", "vbr", "fats", "root", "mbr"} => ~Mounted
  /\ made # Null => GoodLayout(made, sz_drv)

\* Unless a format was cut short where it may be seen, the drive holds the last
\* completed format; before the first one sector 0 is blank, except while a
\* volume of the whole drive is written.
OnDrive ==
  /\ ~Writing /\ ~cut /\ made # Null => Installed(made)
  /\ ~cut /\ made = Null /\ (Writing => ~mk.sfd) => boot[0] = Null

\* What the running f_mkfs has written so far.
Written ==
  /\ Writing => boot[mk.b_vol] = Vbr(mk) /\ Informed(mk)
  /\ pc \in {"root", "mbr"} => fats = mk
  /\ pc = "mbr" => root = mk

\* A mounted volume is the last one formatted.
TakesMade ==
  Mounted /\ ~cut =>
    LET g == fs[FatFs]
    IN /\ made # Null /\ Agrees(g, made) /\ g.n_rootdir = made.n_root
       /\ g.free_clst = Null \/ lostInfo \/ g.free_clst = made.n_clst - 1

Shapes ==
  /\ sz_drv \in Nat /\ cut \in BOOLEAN
  /\ DOMAIN boot = {0, N_SEC_TRACK} /\ DOMAIN fsinfo = {1, N_SEC_TRACK + 1}
  /\ pc \in {"idle", "put", "size", "vbr", "fats", "root", "mbr"}
  /\ FatFs \in Fs \cup {Null} /\ fs = [g \in Fs |-> fs[g]]

FormatInv == Shapes /\ Laid /\ OnDrive /\ Written /\ TakesMade

-------------------------------------------------------------------------------
(* Powers of two                                                            *)

\* The powers, one by one: the solvers do not unfold ^.
LEMMA PowersOfTwo ==
  /\ 2^0 = 1 /\ 2^1 = 2 /\ 2^2 = 4 /\ 2^3 = 8 /\ 2^4 = 16 /\ 2^5 = 32 /\ 2^6 = 64 /\ 2^7 = 128
  /\ 2^8 = 256 /\ 2^9 = 512 /\ 2^10 = 1024 /\ 2^11 = 2048 /\ 2^12 = 4096 /\ 2^13 = 8192
  /\ 2^14 = 16384 /\ 2^15 = 32768 /\ 2^16 = 65536 /\ 2^17 = 131072 /\ 2^18 = 262144
  /\ 2^19 = 524288 /\ 2^20 = 1048576 /\ 2^21 = 2097152 /\ 2^22 = 4194304 /\ 2^23 = 8388608
  /\ 2^24 = 16777216
OBVIOUS

\* The set that mount_volume tests the cluster size against.
LEMMA Powers ==
  Pow2 = {1, 2, 4, 8, 16, 32, 64, 128, 256, 512, 1024, 2048, 4096, 8192, 16384, 32768, 65536,
          131072, 262144, 524288, 1048576, 2097152, 4194304, 8388608, 16777216}
<1>1. 0 .. 24 = {0, 1, 2, 3, 4, 5, 6, 7, 8, 9, 10, 11, 12, 13, 14, 15, 16, 17, 18, 19, 20, 21, 22, 23, 24}
  OBVIOUS
<1> QED
  BY <1>1, PowersOfTwo DEF Pow2

-------------------------------------------------------------------------------
(* The arithmetic of the layout                                             *)

\* Quotient and remainder.
LEMMA Divided ==
  ASSUME NEW a \in Nat, NEW b \in Nat \ {0}
  PROVE  /\ a \div b \in Nat /\ a % b \in 0 .. b - 1
         /\ a = (a \div b) * b + (a % b)
OBVIOUS

\* A multiple leaves no remainder.
LEMMA Multiple ==
  ASSUME NEW q \in Nat, NEW b \in Nat \ {0}
  PROVE  (q * b) % b = 0
<1> DEFINE a == q * b
           d == a \div b
           m == a % b
<1>0. a \in Nat
  OBVIOUS
<1>1. d \in Nat /\ m \in 0 .. b - 1 /\ a = d * b + m
  BY Zenon, <1>0, Divided
<1> HIDE DEF d, m
<1>2. CASE d < q
  <2>1. PICK k \in Nat : q = d + 1 + k
    BY <1>1, <1>2, q - d - 1 \in Nat
  <2>2. q * b = d * b + b + k * b /\ k * b >= 0 /\ d * b \in Nat
    BY <1>1, <2>1
  <2> QED
    BY <1>1, <2>2
<1>3. CASE q < d
  <2>1. PICK k \in Nat : d = q + 1 + k
    BY <1>1, <1>3, d - q - 1 \in Nat
  <2>2. d * b = q * b + b + k * b /\ k * b >= 0 /\ q * b \in Nat
    BY <1>1, <2>1
  <2> QED
    BY <1>1, <2>2
<1>4. CASE d = q
  BY <1>0, <1>1, <1>4
<1>5. m = 0
  BY <1>1, <1>2, <1>3, <1>4
<1> QED
  BY <1>5 DEF m

\* The gap up to the next multiple of the block size.
LEMMA Gap ==
  ASSUME NEW base \in Nat, NEW blk \in Nat \ {0}, NEW n, n = Ceil(base, blk) * blk - base
  PROVE  n \in 0 .. blk - 1 /\ (base + n) % blk = 0
<1> DEFINE q == (base + blk - 1) \div blk
<1>1. base + blk - 1 \in Nat
  OBVIOUS
<1>2. q \in Nat /\ q * blk <= base + blk - 1 /\ base + blk - 1 < q * blk + blk /\ q * blk \in Nat
  <2>1. q \in Nat /\ (base + blk - 1) % blk \in 0 .. blk - 1
        /\ base + blk - 1 = q * blk + ((base + blk - 1) % blk)
    BY Zenon, <1>1, Divided
  <2> QED
    BY <2>1
<1>3. n = q * blk - base
  BY DEF Ceil
<1> HIDE DEF q
<1>4. n \in 0 .. blk - 1 /\ base + n = q * blk
  BY <1>2, <1>3
<1> QED
  BY <1>2, <1>4, Multiple

\* The gap goes to the FATs in equal parts, what is left to the reserved area.
LEMMA Shares ==
  ASSUME NEW n \in Nat, NEW k \in 1 .. 2, NEW f \in Nat
  PROVE  /\ n % k \in 0 .. 1
         /\ (n - (n % k)) \div k \in 0 .. n
         /\ (n % k) + (f + ((n - (n % k)) \div k)) * k = f * k + n
<1>1. CASE k = 1
  BY <1>1
<1>2. CASE k = 2
  BY <1>2
<1> QED
  BY <1>1, <1>2

(* Division by a cluster size. *)
LEMMA Quotient ==
  ASSUME NEW a \in Nat, NEW p \in AuSizes
  PROVE  a \div p \in Nat /\ (a \div p) * p <= a /\ a < (a \div p) * p + p
BY DEF AuSizes

\* A larger area has no fewer clusters.
LEMMA QuotientGrows ==
  ASSUME NEW a \in Nat, NEW b \in Nat, a <= b, NEW p \in AuSizes
  PROVE  a \div p <= b \div p
BY DEF AuSizes

\* A size below zero, as an unsigned number, is too large for FAT16 with
\* every cluster size, so that the loop does not end with it.
LEMMA WrappedLarge == \A p \in AuSizes : Wrapped \div p > MAX_FAT16
BY DEF AuSizes, Wrapped, MAX_FAT16

\* A DWORD difference that suits a FAT type has not wrapped around.
LEMMA NotWrapped ==
  ASSUME NEW v \in Nat, NEW sys \in Nat, NEW p \in AuSizes, NEW c, c = Minus(v, sys) \div p,
         c <= MAX_FAT16 \/ sys <= v
  PROVE  /\ sys <= v /\ c = (v - sys) \div p /\ c \in Nat /\ c <= v \div p
         /\ c * p <= v - sys /\ v - sys < c * p + p
<1>1. p \in Nat \ {0}
  BY DEF AuSizes
<1>2. sys <= v
  <2>1. Wrapped \div p > MAX_FAT16 /\ Wrapped \div p \in Int /\ MAX_FAT16 \in Int
    BY <1>1, WrappedLarge DEF Wrapped, MAX_FAT16
  <2>2. v < sys => c = Wrapped \div p
    BY DEF Minus
  <2> QED
    BY <2>1, <2>2
<1>3. c = (v - sys) \div p
  BY <1>2 DEF Minus
<1>4. v - sys \in Nat /\ v - sys <= v
  BY <1>2
<1> QED
  BY <1>2, <1>3, <1>4, Quotient, QuotientGrows

\* The FAT sized for all sectors of the volume has room for its clusters.
LEMMA Fat12Fits ==
  ASSUME NEW n \in Nat, NEW c \in Nat, c <= n, n <= MAX_FAT12
  PROVE  LET f == Ceil((n * 3 + 1) \div 2 + 3, SS)
         IN f \in Nat /\ f >= 1 /\ f <= 32000 /\ Ceil(FatBytes("FAT12", c + 2), SS) <= f
BY DEF Ceil, FatBytes, SS, MAX_FAT12

\* A FAT sized for n clusters holds the entries of the c that are left once
\* the FATs are taken off: 16 bits.
LEMMA Fat16Fits ==
  ASSUME NEW n \in Nat, NEW c \in Nat, c <= n, n <= 110000
  PROVE  LET f == Ceil(n * 2 + 4, SS)
         IN f \in Nat /\ f >= 1 /\ f <= 32000 /\ Ceil(FatBytes("FAT16", c + 2), SS) <= f
BY DEF Ceil, FatBytes, SS

\* The same for 32 bits.
LEMMA Fat32Fits ==
  ASSUME NEW n \in Nat, NEW c \in Nat, c <= n
  PROVE  LET f == Ceil(n * 4 + 8, SS)
         IN f \in Nat /\ f >= 1 /\ Ceil(FatBytes("FAT32", c + 2), SS) <= f
BY DEF Ceil, FatBytes, SS

\* A volume with a 16-bit FAT has not many more sectors than clusters.
LEMMA Fat16Bound ==
  ASSUME NEW v \in Nat, NEW p \in AuSizes, NEW n \in Nat, n * p <= v, NEW k \in 1 .. 2,
         NEW sys \in Nat, sys <= Ceil(n * 2 + 4, SS) * k + 40000,
         v - sys < MAX_FAT16 * p + p
  PROVE  n <= 110000
<1> DEFINE f == Ceil(n * 2 + 4, SS)
<1>1. f \in Nat /\ f * 256 <= n + 600
  BY DEF Ceil, SS
<1> HIDE DEF f
<1>2. f * k \in Nat /\ f * k <= 2 * f
  BY <1>1
<1>3. sys * 128 <= n + 600 + 40000 * 128
  BY <1>1, <1>2 DEF f
<1> QED
  BY <1>3 DEF AuSizes, MAX_FAT16

\* What lies in front of the data area of a 32-bit volume is less than it.
LEMMA Fat32Bound ==
  ASSUME NEW v \in Nat, NEW n \in Nat, n > MAX_FAT16, n <= v, NEW k \in 1 .. 2,
         NEW sys \in Nat, sys <= Ceil(n * 4 + 8, SS) * k + 33000
  PROVE  sys <= v
<1> DEFINE f == Ceil(n * 4 + 8, SS)
<1>1. f \in Nat /\ f * 128 <= n + 600
  BY DEF Ceil, SS
<1> HIDE DEF f
<1>2. f * k \in Nat /\ f * k <= 2 * f
  BY <1>1
<1>3. sys * 64 <= n + 600 + 33000 * 64
  BY <1>1, <1>2 DEF f
<1> QED
  BY <1>3 DEF MAX_FAT16
-------------------------------------------------------------------------------
(* The sizing loop                                                          *)

\* The fields of the parameters.
LEMMA ParmFields ==
  ASSUME NEW m, GoodParm(m, sz_drv)
  PROVE  /\ m.sz_vol \in Nat /\ m.sz_vol >= 128 /\ m.b_vol \in Nat
         /\ m.n_fat \in 1 .. 2 /\ m.n_root \in Nat /\ RootSize(m.n_root)
         /\ m.sz_blk \in Nat /\ m.sz_blk >= 1 /\ m.sz_blk <= MaxBlk
         /\ m.fsty \in {"FAT16", "FAT32"} /\ m.sz_au \in AuSizes \cup {0}
         /\ m.sfd \in BOOLEAN
BY DEF GoodParm, Parms, Extent, BlkSizes, AuSizes, MaxBlk

\* The cluster size from the tables.
LEMMA AutoSizes ==
  ASSUME NEW table, NEW n
  PROVE  AutoSize(table, n) \in AuSizes
<1> DEFINE T(i) == table[i] <= n
           P(i) == (\A j \in 1 .. i : T(j)) /\ (i < 6 => ~T(i + 1))
           k == CHOOSE i \in 0 .. 6 : P(i)
<1>1. \E i \in 0 .. 6 : P(i)
  <2> HIDE DEF T
  <2>1. CASE ~T(1)
    <3>1. 0 \in 0 .. 6 /\ P(0)
      BY <2>1
    <3> QED
      BY <3>1
  <2>2. CASE T(1) /\ ~T(2)
    <3>1. 1 \in 0 .. 6 /\ P(1)
      BY <2>2
    <3> QED
      BY <3>1
  <2>3. CASE T(1) /\ T(2) /\ ~T(3)
    <3>1. 2 \in 0 .. 6 /\ P(2)
      BY <2>3
    <3> QED
      BY <3>1
  <2>4. CASE T(1) /\ T(2) /\ T(3) /\ ~T(4)
    <3>1. 3 \in 0 .. 6 /\ P(3)
      BY <2>4
    <3> QED
      BY <3>1
  <2>5. CASE T(1) /\ T(2) /\ T(3) /\ T(4) /\ ~T(5)
    <3>1. 4 \in 0 .. 6 /\ P(4)
      BY <2>5
    <3> QED
      BY <3>1
  <2>6. CASE T(1) /\ T(2) /\ T(3) /\ T(4) /\ T(5) /\ ~T(6)
    <3>1. 5 \in 0 .. 6 /\ P(5)
      BY <2>6
    <3> QED
      BY <3>1
  <2>7. CASE T(1) /\ T(2) /\ T(3) /\ T(4) /\ T(5) /\ T(6)
    <3>1. 6 \in 0 .. 6 /\ P(6)
      BY <2>7
    <3> QED
      BY <3>1
  <2> QED
    BY <2>1, <2>2, <2>3, <2>4, <2>5, <2>6, <2>7
<1>2. k \in 0 .. 6
  <2> HIDE DEF P
  <2> QED
    BY <1>1
<1>3. AutoSize(table, n) = 2 ^ k
  BY Zenon DEF AutoSize
<1> HIDE DEF k
<1>4. k \in {0, 1, 2, 3, 4, 5, 6}
  BY <1>2
<1>5. CASE k = 0
  BY <1>3, <1>5, 2^0 = 1 DEF AuSizes
<1>6. CASE k = 1
  BY <1>3, <1>6, 2^1 = 2 DEF AuSizes
<1>7. CASE k = 2
  BY <1>3, <1>7, 2^2 = 4 DEF AuSizes
<1>8. CASE k = 3
  BY <1>3, <1>8, 2^3 = 8 DEF AuSizes
<1>9. CASE k = 4
  BY <1>3, <1>9, 2^4 = 16 DEF AuSizes
<1>10. CASE k = 5
  BY <1>3, <1>10, 2^5 = 32 DEF AuSizes
<1>11. CASE k = 6
  BY <1>3, <1>11, 2^6 = 64 DEF AuSizes
<1> QED
  BY <1>4, <1>5, <1>6, <1>7, <1>8, <1>9, <1>10, <1>11

\* The sizes before the alignment.
LEMMA SizedFacts ==
  ASSUME NEW m, GoodParm(m, sz_drv), NEW s, s = Sized(m)
  PROVE  /\ s = [pau |-> s.pau, n |-> s.n, fsty |-> s.fsty, sz_fat |-> s.sz_fat,
                 sz_rsv |-> s.sz_rsv, sz_dir |-> s.sz_dir]
         /\ s.pau \in AuSizes /\ s.n = m.sz_vol \div s.pau
         /\ s.fsty \in {"FAT12", "FAT16", "FAT32"}
         /\ s.fsty = "FAT32" => /\ s.sz_fat = Ceil(s.n * 4 + 8, SS)
                                /\ s.sz_rsv = 32 /\ s.sz_dir = 0
         /\ s.fsty = "FAT16" => s.sz_fat = Ceil(s.n * 2 + 4, SS)
         /\ s.fsty = "FAT12" => /\ s.sz_fat = Ceil((s.n * 3 + 1) \div 2 + 3, SS)
                                /\ s.n <= MAX_FAT12
         /\ s.fsty # "FAT32" => s.sz_rsv = 1 /\ s.sz_dir = m.n_root \div 16
<1> DEFINE pau == ClusterSize(m)
           n == m.sz_vol \div pau
           fsty == SubType(m.fsty, n)
           sz == Ceil(MkfsBytes(fsty, n), SS)
           rsv == IF m.fsty = "FAT32" THEN 32 ELSE 1
           dir == IF m.fsty = "FAT32" THEN 0 ELSE (m.n_root * SZDIRE) \div SS
<1>1. s = [pau |-> pau, n |-> n, fsty |-> fsty, sz_fat |-> sz, sz_rsv |-> rsv, sz_dir |-> dir]
  BY Zenon DEF Sized
<1>3. /\ m.fsty \in {"FAT16", "FAT32"} /\ m.sz_vol \in Nat /\ m.n_root \in Nat
      /\ m.sz_au \in AuSizes \cup {0}
  BY Zenon, ParmFields
<1>2. pau \in AuSizes
  BY <1>3, AutoSizes DEF ClusterSize
<1> HIDE DEF pau
<1>4. n \in Nat
  BY Zenon, <1>2, <1>3, Quotient
<1>5. (m.n_root * SZDIRE) \div SS = m.n_root \div 16
  BY <1>3 DEF SZDIRE, SS
<1> HIDE DEF n
<1>6. /\ fsty \in {"FAT12", "FAT16", "FAT32"}
      /\ fsty = "FAT32" <=> m.fsty = "FAT32"
      /\ fsty = "FAT12" => n <= MAX_FAT12
  BY <1>3, <1>4 DEF SubType, MAX_FAT12
<1> HIDE DEF fsty
<1>7. /\ fsty = "FAT32" => sz = Ceil(n * 4 + 8, SS)
      /\ fsty = "FAT16" => sz = Ceil(n * 2 + 4, SS)
      /\ fsty = "FAT12" => sz = Ceil((n * 3 + 1) \div 2 + 3, SS)
  BY Zenon DEF MkfsBytes
<1>8. /\ fsty = "FAT32" => rsv = 32 /\ dir = 0
      /\ fsty # "FAT32" => rsv = 1 /\ dir = m.n_root \div 16
  BY Zenon, <1>5, <1>6
<1> HIDE DEF sz, rsv, dir
<1>9. /\ s.pau = pau /\ s.n = n /\ s.fsty = fsty /\ s.sz_fat = sz /\ s.sz_rsv = rsv
      /\ s.sz_dir = dir
  BY <1>1
<1>10. s = [pau |-> s.pau, n |-> s.n, fsty |-> s.fsty, sz_fat |-> s.sz_fat,
            sz_rsv |-> s.sz_rsv, sz_dir |-> s.sz_dir]
  BY Zenon, <1>1, <1>9
<1>11. s.n = m.sz_vol \div s.pau
  BY Zenon, <1>9 DEF n
<1> QED
  BY Zenon, <1>2, <1>6, <1>7, <1>8, <1>9, <1>10, <1>11

\* The aligned sizes: the gap goes to the reserved area or to the FATs, and the
\* data area starts on a multiple of the block size.
AlignedBy(m, s, a, gap) ==
  /\ gap \in Nat /\ gap < m.sz_blk /\ (DataBase(m, s) + gap) % m.sz_blk = 0
  /\ a.pau = s.pau /\ a.fsty = s.fsty /\ a.sz_dir = s.sz_dir
  /\ a.sz_rsv \in Nat /\ a.sz_fat \in Nat
  /\ m.b_vol + a.sz_rsv + a.sz_fat * m.n_fat + a.sz_dir = DataBase(m, s) + gap
  /\ s.fsty = "FAT32" => a.sz_fat = s.sz_fat /\ a.sz_rsv = s.sz_rsv + gap
  /\ s.fsty # "FAT32" => /\ s.sz_rsv <= a.sz_rsv /\ a.sz_rsv <= s.sz_rsv + 1
                         /\ s.sz_fat <= a.sz_fat /\ a.sz_fat <= s.sz_fat + gap

\* The data area starts on a block, less than one block further on.
LEMMA AlignedFacts ==
  ASSUME NEW m, GoodParm(m, sz_drv), NEW s, s = Sized(m), s.sz_fat \in Nat
  PROVE  \E gap \in Nat : AlignedBy(m, s, Aligned(m, s), gap)
<1>1. /\ s = [pau |-> s.pau, n |-> s.n, fsty |-> s.fsty, sz_fat |-> s.sz_fat,
              sz_rsv |-> s.sz_rsv, sz_dir |-> s.sz_dir]
  BY Zenon, SizedFacts
<1>2. m.b_vol \in Nat /\ m.n_fat \in 1 .. 2 /\ m.sz_blk \in Nat \ {0} /\ m.n_root \in Nat
  BY ParmFields
<1>3. s.sz_rsv \in Nat /\ s.sz_dir \in Nat
  <2>1. m.n_root \div 16 \in Nat
    BY <1>2
  <2> QED
    BY <2>1, SizedFacts
<1>4. s.sz_fat * m.n_fat \in Nat
  BY <1>2
<1> DEFINE base == DataBase(m, s)
           gap == Ceil(base, m.sz_blk) * m.sz_blk - base
           odd == gap % m.n_fat
           a == Aligned(m, s)
<1>5. base \in Nat
  BY <1>2, <1>3, <1>4 DEF DataBase
<1> HIDE DEF base
<1>6. gap \in 0 .. m.sz_blk - 1 /\ (base + gap) % m.sz_blk = 0
  BY Zenon, <1>2, <1>5, Gap
<1>7. a = IF s.fsty = "FAT32" THEN [s EXCEPT !.sz_rsv = @ + gap]
          ELSE [s EXCEPT !.sz_rsv = @ + odd, !.sz_fat = @ + (gap - odd) \div m.n_fat]
  BY DEF Aligned, base
<1>8. gap \in Nat /\ gap < m.sz_blk
  BY <1>2, <1>6
<1> HIDE DEF gap, a
<1>9. base = m.b_vol + s.sz_rsv + s.sz_fat * m.n_fat + s.sz_dir
  BY DEF base, DataBase
<1>10. CASE s.fsty = "FAT32"
  <2>1. a = [pau |-> s.pau, n |-> s.n, fsty |-> s.fsty, sz_fat |-> s.sz_fat,
             sz_rsv |-> s.sz_rsv + gap, sz_dir |-> s.sz_dir]
    BY <1>1, <1>7, <1>10
  <2>2. /\ a.pau = s.pau /\ a.fsty = s.fsty /\ a.sz_dir = s.sz_dir /\ a.sz_fat = s.sz_fat
        /\ a.sz_rsv = s.sz_rsv + gap
    BY <2>1
  <2>3. m.b_vol + a.sz_rsv + a.sz_fat * m.n_fat + a.sz_dir = base + gap
    BY <1>2, <1>3, <1>4, <1>8, <1>9, <2>2
  <2>4. AlignedBy(m, s, a, gap)
    BY <1>3, <1>6, <1>8, <1>10, <2>2, <2>3 DEF AlignedBy, base
  <2> QED
    BY Zenon, <1>8, <2>4 DEF a
<1>11. CASE s.fsty # "FAT32"
  <2> DEFINE share == (gap - odd) \div m.n_fat
  <2>0. a = [s EXCEPT !.sz_rsv = s.sz_rsv + odd, !.sz_fat = s.sz_fat + share]
    BY <1>1, <1>7, <1>11
  <2>2. odd \in 0 .. 1 /\ share \in 0 .. gap /\ odd + (s.sz_fat + share) * m.n_fat = s.sz_fat * m.n_fat + gap
    BY Zenon, <1>2, <1>8, Shares
  <2> HIDE DEF odd, share
  <2>1. DOMAIN s = {"pau", "n", "fsty", "sz_fat", "sz_rsv", "sz_dir"}
    BY <1>1
  <2>3. /\ a.pau = s.pau /\ a.fsty = s.fsty /\ a.sz_dir = s.sz_dir /\ a.sz_fat = s.sz_fat + share
        /\ a.sz_rsv = s.sz_rsv + odd
    BY <2>0, <2>1
  <2>4. (s.sz_fat + share) * m.n_fat \in Nat
    BY <1>2, <1>8, <2>2
  <2>5. m.b_vol + a.sz_rsv + a.sz_fat * m.n_fat + a.sz_dir = base + gap
    BY <1>2, <1>3, <1>4, <1>8, <1>9, <2>2, <2>3, <2>4
  <2>6. /\ a.sz_rsv \in Nat /\ a.sz_fat \in Nat /\ s.sz_rsv <= a.sz_rsv /\ a.sz_rsv <= s.sz_rsv + 1
        /\ s.sz_fat <= a.sz_fat /\ a.sz_fat <= s.sz_fat + gap
    BY <1>3, <1>8, <2>2, <2>3
  <2>7. AlignedBy(m, s, a, gap)
    BY <1>6, <1>8, <1>11, <2>3, <2>5, <2>6 DEF AlignedBy, base
  <2> QED
    BY Zenon, <1>8, <2>7 DEF a
<1> QED
  BY <1>10, <1>11

\* What f_mkfs goes on with has room for its areas, a FAT with an entry for each
\* cluster, and a number of clusters of its type.
LEMMA Layout32 ==
  ASSUME NEW v \in Nat, NEW k \in 1 .. 2, NEW p \in AuSizes, NEW n, n = v \div p,
         n > MAX_FAT16, n <= MAX_FAT32, NEW f, f = Ceil(n * 4 + 8, SS),
         NEW gap \in Nat, gap < MaxBlk, NEW sys, sys = 32 + gap + f * k,
         NEW c, c = Minus(v, sys) \div p, c > MAX_FAT16
  PROVE  /\ sys <= v /\ c \in Nat /\ c = (v - sys) \div p /\ TypeCount("FAT32", c)
         /\ f > 0 /\ Ceil(FatBytes("FAT32", c + 2), SS) <= f
<1>1. n \in Nat /\ n <= v
  <2>1. n \in Nat /\ n * p <= v
    BY Quotient
  <2> QED
    BY <2>1 DEF AuSizes
<1>2. f \in Nat
  BY <1>1 DEF Ceil, SS
<1>3. f * k \in Nat
  BY <1>2
<1>4. sys \in Nat /\ sys <= f * k + 33000
  BY <1>3 DEF MaxBlk
<1>5. sys <= v
  BY <1>1, <1>4, Fat32Bound
<1>6. c = (v - sys) \div p /\ c \in Nat /\ c <= n
  BY <1>4, <1>5, NotWrapped
<1>7. f >= 1 /\ Ceil(FatBytes("FAT32", c + 2), SS) <= f
  BY Zenon, <1>1, <1>6, Fat32Fits
<1>8. TypeCount("FAT32", c)
  BY <1>1, <1>6 DEF TypeCount, MAX_FAT32
<1> QED
  BY <1>2, <1>5, <1>6, <1>7, <1>8

\* A FAT16 volume that passes the tests of the loop has the clusters of that
\* type and a FAT for all of them.
LEMMA Layout16 ==
  ASSUME NEW v \in Nat, NEW k \in 1 .. 2, NEW p \in AuSizes, NEW n, n = v \div p,
         NEW f, f = Ceil(n * 2 + 4, SS), NEW sys \in Nat, sys <= f * k + 40000,
         NEW c, c = Minus(v, sys) \div p, c > MAX_FAT12, c <= MAX_FAT16
  PROVE  /\ sys <= v /\ c \in Nat /\ c = (v - sys) \div p /\ TypeCount("FAT16", c)
         /\ f >= 1 /\ f <= 32000 /\ Ceil(FatBytes("FAT16", c + 2), SS) <= f
<1>1. n \in Nat /\ n * p <= v
  BY Quotient
<1>2. sys <= v /\ c = (v - sys) \div p /\ c \in Nat /\ c <= n /\ v - sys < c * p + p
  BY NotWrapped
<1>3. v - sys < MAX_FAT16 * p + p
  BY <1>2 DEF AuSizes, MAX_FAT16
<1>4. n <= 110000
  BY <1>1, <1>3, Fat16Bound
<1>5. f >= 1 /\ f <= 32000 /\ Ceil(FatBytes("FAT16", c + 2), SS) <= f
  BY <1>1, <1>2, <1>4, Fat16Fits
<1> QED
  BY <1>2, <1>5 DEF TypeCount

\* The same for FAT12.
LEMMA Layout12 ==
  ASSUME NEW v \in Nat, NEW p \in AuSizes, NEW n, n = v \div p, n <= MAX_FAT12,
         NEW f, f = Ceil((n * 3 + 1) \div 2 + 3, SS), NEW sys \in Nat,
         NEW c, c = Minus(v, sys) \div p, c <= MAX_FAT12
  PROVE  /\ sys <= v /\ c \in Nat /\ c = (v - sys) \div p /\ TypeCount("FAT12", c)
         /\ f >= 1 /\ f <= 32000 /\ Ceil(FatBytes("FAT12", c + 2), SS) <= f
<1>1. n \in Nat
  BY Quotient
<1>2. c \in Int
  BY DEF Minus, Wrapped, AuSizes
<1>3. c <= MAX_FAT16
  BY <1>2 DEF MAX_FAT12, MAX_FAT16
<1>4. sys <= v /\ c = (v - sys) \div p /\ c \in Nat /\ c <= n
  BY <1>3, NotWrapped
<1>5. f >= 1 /\ f <= 32000 /\ Ceil(FatBytes("FAT12", c + 2), SS) <= f
  BY <1>1, <1>4, Fat12Fits
<1> QED
  BY <1>4, <1>5 DEF TypeCount

\* A layout of size v with clusters of p sectors, of which sys are in front of
\* the c clusters, and FATs of f sectors.
Suits(fsty, v, p, sys, c, f) ==
  /\ sys <= v /\ c \in Nat /\ c = (v - sys) \div p /\ TypeCount(fsty, c)
  /\ f > 0 /\ Ceil(FatBytes(fsty, c + 2), SS) <= f

\* What the sizing loop ends with is a good layout.
LEMMA LayoutGood ==
  ASSUME NEW m, GoodParm(m, sz_drv), NEW s, s = Sized(m), NEW a, a = Aligned(m, s),
         NEW c, c = Clusters(m, a), ~TooSmall(m, s), ~Unfit(a, c)
  PROVE  GoodLayout(Layout(m, a, c), sz_drv)
<1> DEFINE v == m.sz_vol
           k == m.n_fat
           p == s.pau
           f == s.sz_fat
           sys == a.sz_rsv + a.sz_fat * k + a.sz_dir
<1>1. /\ v \in Nat /\ v >= 128 /\ m.b_vol \in Nat /\ k \in 1 .. 2
      /\ m.n_root \in Nat /\ RootSize(m.n_root) /\ m.n_root \div 16 \in Nat /\ m.n_root \div 16 <= 2048
      /\ m.sz_blk \in Nat /\ m.sz_blk >= 1 /\ m.sz_blk <= MaxBlk
      /\ m.sfd \in BOOLEAN
  <2>1. m.n_root \in Nat /\ RootSize(m.n_root)
    BY ParmFields
  <2>2. m.n_root \div 16 \in Nat /\ m.n_root \div 16 <= 2048
    BY <2>1 DEF RootSize
  <2> QED
    BY <2>2, ParmFields
<1>2. /\ p \in AuSizes /\ s.n = v \div p
      /\ s.fsty \in {"FAT12", "FAT16", "FAT32"}
      /\ s.fsty = "FAT32" => /\ f = Ceil(s.n * 4 + 8, SS)
                             /\ s.sz_rsv = 32 /\ s.sz_dir = 0
      /\ s.fsty = "FAT16" => f = Ceil(s.n * 2 + 4, SS)
      /\ s.fsty = "FAT12" => /\ f = Ceil((s.n * 3 + 1) \div 2 + 3, SS)
                             /\ s.n <= MAX_FAT12
      /\ s.fsty # "FAT32" => s.sz_rsv = 1 /\ s.sz_dir = m.n_root \div 16
  BY SizedFacts
<1>3. s.n \in Nat
  BY <1>1, <1>2, Quotient
<1>4. f \in Nat
  BY <1>2, <1>3 DEF Ceil, SS
<1>5. PICK gap \in Nat : AlignedBy(m, s, a, gap)
  BY <1>4, AlignedFacts
<1>6. /\ gap < MaxBlk /\ (DataBase(m, s) + gap) % m.sz_blk = 0
      /\ a.pau = p /\ a.fsty = s.fsty /\ a.sz_dir = s.sz_dir
      /\ a.sz_rsv \in Nat /\ a.sz_fat \in Nat
      /\ m.b_vol + sys = DataBase(m, s) + gap
      /\ s.fsty = "FAT32" => a.sz_fat = f /\ a.sz_rsv = s.sz_rsv + gap
      /\ s.fsty # "FAT32" => /\ s.sz_rsv <= a.sz_rsv /\ a.sz_rsv <= s.sz_rsv + 1
                             /\ f <= a.sz_fat /\ a.sz_fat <= f + gap
  <2>1. s.sz_dir \in Nat
    BY <1>1, <1>2
  <2>2. a.sz_fat * k \in Nat /\ a.sz_fat \in Nat /\ a.sz_rsv \in Nat /\ a.sz_dir = s.sz_dir
    BY <1>1, <1>5 DEF AlignedBy
  <2>3. m.b_vol + sys = m.b_vol + a.sz_rsv + a.sz_fat * m.n_fat + a.sz_dir
    BY <1>1, <2>1, <2>2
  <2>4. gap < MaxBlk
    BY <1>1, <1>5 DEF AlignedBy, MaxBlk
  <2> QED
    BY <1>5, <2>3, <2>4 DEF AlignedBy
<1>7. f * k \in Nat /\ a.sz_fat * k \in Nat
  BY <1>1, <1>4, <1>6
<1>8. sys \in Nat /\ sys = s.sz_rsv + f * k + s.sz_dir + gap
  <2>1. s.sz_rsv \in Nat /\ s.sz_dir \in Nat
    BY <1>1, <1>2
  <2>2. /\ DataBase(m, s) = m.b_vol + s.sz_rsv + f * k + s.sz_dir
        /\ m.b_vol + sys = DataBase(m, s) + gap /\ sys = a.sz_rsv + a.sz_fat * k + a.sz_dir
        /\ a.sz_rsv \in Nat /\ a.sz_dir = s.sz_dir /\ m.b_vol \in Nat
    BY Zenon, <1>1, <1>6 DEF DataBase
  <2> HIDE DEF v, k, p, f, sys
  <2> QED
    BY <1>7, <2>1, <2>2
<1>9. c = Minus(v, sys) \div p
  BY <1>6 DEF Clusters
<1> HIDE DEF v, k, p, f, sys
<1>10. /\ Suits(s.fsty, v, p, sys, c, a.sz_fat)
       /\ a.sz_rsv >= 1 /\ a.sz_rsv < 65536
       /\ s.fsty = "FAT32" => a.sz_rsv >= 32
       /\ s.fsty # "FAT32" => a.sz_fat < 65536
  <2>1. CASE s.fsty = "FAT32"
    <3>1. s.n > MAX_FAT16 /\ s.n <= MAX_FAT32
      BY <1>3, <2>1 DEF TooSmall, MAX_FAT16, MAX_FAT32
    <3>2. c > MAX_FAT16
      <4>1. c \in Int
        BY <1>1, <1>2, <1>8, <1>9 DEF Minus, Wrapped, AuSizes
      <4> QED
        BY <1>6, <2>1, <4>1 DEF Unfit, MAX_FAT16
    <3>3. sys = 32 + gap + f * k
      BY <1>2, <1>7, <1>8, <2>1
    <3>4. Suits("FAT32", v, p, sys, c, f)
      BY <1>1, <1>2, <1>6, <1>9, <2>1, <3>1, <3>2, <3>3, Layout32 DEF Suits
    <3> QED
      BY <1>2, <1>6, <2>1, <3>4 DEF MaxBlk
  <2>2. CASE s.fsty # "FAT32"
    <3>1. sys <= f * k + 40000
      BY <1>1, <1>2, <1>6, <1>7, <1>8, <2>2 DEF MaxBlk
    <3>2. c \in Int
      BY <1>1, <1>2, <1>8, <1>9 DEF Minus, Wrapped, AuSizes
    <3>3. /\ Suits(s.fsty, v, p, sys, c, f) /\ f <= 32000
      <4>1. CASE s.fsty = "FAT16"
        <5>1. c > MAX_FAT12 /\ c <= MAX_FAT16
          BY <1>6, <3>2, <4>1 DEF Unfit, MAX_FAT12, MAX_FAT16
        <5> QED
          BY <1>1, <1>2, <1>4, <1>8, <1>9, <3>1, <4>1, <5>1, Layout16 DEF Suits
      <4>2. CASE s.fsty = "FAT12"
        <5>1. c <= MAX_FAT12
          BY <1>6, <3>2, <4>2 DEF Unfit, MAX_FAT12
        <5> QED
          BY <1>1, <1>2, <1>4, <1>8, <1>9, <4>2, <5>1, Layout12 DEF Suits
      <4> QED
        BY <1>2, <2>2, <4>1, <4>2
    <3>4. a.sz_fat > 0 /\ a.sz_fat < 65536 /\ f <= a.sz_fat
      BY <1>4, <1>6, <2>2, <3>3 DEF MaxBlk, Suits
    <3>5. Ceil(FatBytes(s.fsty, c + 2), SS) <= a.sz_fat
      <4>1. Ceil(FatBytes(s.fsty, c + 2), SS) \in Nat
        BY <1>2, <2>2, <3>3 DEF Suits, FatBytes, Ceil, SS
      <4> QED
        <5>1. Ceil(FatBytes(s.fsty, c + 2), SS) <= f
          BY <3>3 DEF Suits
        <5>2. a.sz_fat \in Nat /\ f <= a.sz_fat
          BY <1>6, <2>2, <3>4
        <5> QED
          BY <1>4, <4>1, <5>1, <5>2
    <3>6. Suits(s.fsty, v, p, sys, c, a.sz_fat)
      BY <3>3, <3>4, <3>5 DEF Suits
    <3> QED
      BY <1>2, <1>6, <2>2, <3>4, <3>6
  <2> QED
    BY <2>1, <2>2
<1>11. (m.b_vol + sys) % m.sz_blk = 0
  BY Zenon, <1>6
<1> DEFINE l == Layout(m, a, c)
<1>12. /\ l = [fsty |-> s.fsty, b_vol |-> m.b_vol, sz_vol |-> m.sz_vol, pau |-> p, n_fat |-> m.n_fat,
               n_root |-> l.n_root, sz_rsv |-> a.sz_rsv, sz_fat |-> a.sz_fat, sz_dir |-> a.sz_dir,
               n_clst |-> c, sz_blk |-> m.sz_blk, sfd |-> m.sfd]
       /\ l.n_root = IF s.fsty = "FAT32" THEN 0 ELSE m.n_root
  BY <1>6 DEF Layout
<1> HIDE DEF l
<1>13. /\ l.fsty = s.fsty /\ l.b_vol = m.b_vol /\ l.sz_vol = v /\ l.pau = p /\ l.n_fat = k
       /\ l.sz_rsv = a.sz_rsv /\ l.sz_fat = a.sz_fat /\ l.sz_dir = a.sz_dir /\ l.n_clst = c
       /\ l.sz_blk = m.sz_blk /\ l.sfd = m.sfd
  BY <1>12 DEF v, k
<1>14. l \in Layouts
  <2>1. p \in Nat /\ a.sz_dir \in Nat /\ l.n_root \in Nat /\ k \in Nat /\ c \in Nat
    BY <1>1, <1>2, <1>6, <1>10, <1>12 DEF AuSizes, Suits
  <2> QED
    BY <1>1, <1>2, <1>6, <1>12, <2>1 DEF Layouts, v, k
<1>15. Extent(l, sz_drv)
  <2>1. Extent(m, sz_drv)
    BY Zenon DEF GoodParm
  <2> QED
    BY Zenon, <1>13, <2>1 DEF Extent, v, k
<1>16. System(l) = sys
  BY Zenon, <1>13 DEF System, sys
<1>17. IF l.fsty = "FAT32" THEN l.n_root = 0 /\ l.sz_dir = 0 /\ l.sz_rsv >= 32
       ELSE RootSize(l.n_root) /\ l.sz_dir = l.n_root \div 16 /\ l.sz_fat < 65536
  <2>1. /\ RootSize(m.n_root) /\ l.fsty = s.fsty /\ l.sz_dir = s.sz_dir
        /\ l.n_root = IF s.fsty = "FAT32" THEN 0 ELSE m.n_root
        /\ s.fsty = "FAT32" => s.sz_dir = 0
        /\ s.fsty # "FAT32" => s.sz_dir = m.n_root \div 16
    BY <1>1, <1>2, <1>6, <1>12, <1>13
  <2>2. /\ l.fsty = "FAT32" => l.sz_rsv >= 32
        /\ l.fsty # "FAT32" => l.sz_fat < 65536
    BY <1>10, <1>13
  <2> QED
    BY <2>1, <2>2
<1>18. /\ l.sz_rsv >= 1 /\ l.sz_rsv < 65536
       /\ Suits(l.fsty, l.sz_vol, l.pau, System(l), l.n_clst, l.sz_fat)
       /\ (l.b_vol + System(l)) % l.sz_blk = 0 /\ l.pau \in AuSizes
  BY <1>2, <1>10, <1>11, <1>13, <1>16
<1>19. GoodLayout(l, sz_drv)
  BY <1>14, <1>15, <1>17, <1>18 DEF GoodLayout, Suits
<1> QED
  BY Zenon, <1>19 DEF l

\* The next turn of the sizing loop keeps the parameters but for the cluster size
\* or the FAT type.
LEMMA AgainGood ==
  ASSUME NEW m, GoodParm(m, sz_drv), NEW s, s = Sized(m), NEW a, a = Aligned(m, s),
         NEW c, NEW n \in Again(m, a, c)
  PROVE  GoodParm(n, sz_drv)
<1>1. s.pau \in AuSizes /\ s.fsty \in {"FAT12", "FAT16", "FAT32"}
  BY SizedFacts
<1>2. a.pau = s.pau
  <2>1. DOMAIN s = {"pau", "n", "fsty", "sz_fat", "sz_rsv", "sz_dir"}
    <3>1. s = [pau |-> s.pau, n |-> s.n, fsty |-> s.fsty, sz_fat |-> s.sz_fat,
               sz_rsv |-> s.sz_rsv, sz_dir |-> s.sz_dir]
      BY Zenon, SizedFacts
    <3> QED
      BY <3>1
  <2>2. \A g, h : /\ [s EXCEPT !.sz_rsv = g].pau = s.pau
                  /\ [s EXCEPT !.sz_rsv = g, !.sz_fat = h].pau = s.pau
    BY <2>1
  <2> QED
    BY Zenon, <2>2 DEF Aligned
<1>3. /\ a.pau >= 2 => a.pau \div 2 \in AuSizes
      /\ a.pau * 2 <= 128 => a.pau * 2 \in AuSizes
  BY <1>1, <1>2 DEF AuSizes
<1>4. a.pau * 2 <= 64 => a.pau * 2 <= 128
  BY <1>1, <1>2 DEF AuSizes
<1>5. n = [m EXCEPT !.fsty = "FAT32"] \/ \E u \in AuSizes : n = [m EXCEPT !.sz_au = u]
  BY Zenon, <1>3, <1>4 DEF Again
<1>6. m \in Parms
  BY Zenon DEF GoodParm
<1>7. /\ n \in Parms /\ n.sz_vol = m.sz_vol /\ n.b_vol = m.b_vol /\ n.sfd = m.sfd
      /\ n.n_fat = m.n_fat /\ n.sz_blk = m.sz_blk /\ n.n_root = m.n_root
  BY <1>5, <1>6 DEF Parms
<1> QED
  BY Zenon, <1>7 DEF GoodParm, Extent

\* What f_mkfs takes over of its parameters.
LEMMA TakenGood ==
  ASSUME sz_drv \in Nat, NEW o \in Opt, NEW m, m = Taken(o), ~(m.sz_vol < 128), o.fmt # {}
  PROVE  GoodParm(m, sz_drv)
<1>1. /\ o.fmt \subseteq {"FAT", "FAT32"} /\ o.sfd \in BOOLEAN
      /\ o.n_fat \in Nat /\ o.n_root \in Nat /\ o.au_size \in Nat /\ o.align \in Nat
  BY Kinds
<1> DEFINE au == IF o.au_size \in Pow2 THEN o.au_size \div SS ELSE 0
           vol == IF ~o.sfd /\ sz_drv > N_SEC_TRACK THEN N_SEC_TRACK ELSE 0
           nf == IF o.n_fat \in 1 .. 2 THEN o.n_fat ELSE 1
           nr == IF o.n_root >= 1 /\ o.n_root <= 32768 /\ o.n_root % (SS \div SZDIRE) = 0
                 THEN o.n_root ELSE 512
           blk == IF o.align \in Pow2 /\ o.align <= 32768 THEN o.align ELSE 1
           sa == IF au > 128 THEN 128 ELSE au
           ty == IF "FAT" \in o.fmt THEN "FAT16" ELSE "FAT32"
<1>2. m = [sfd |-> o.sfd, fat32 |-> "FAT32" \in o.fmt, n_fat |-> nf, n_root |-> nr,
           sz_blk |-> blk, sz_au |-> sa, b_vol |-> vol, sz_vol |-> sz_drv - vol, fsty |-> ty]
  BY DEF Taken
<1>3. nf \in 1 .. 2 /\ ty \in {"FAT16", "FAT32"}
  BY <1>1
<1>4. nr \in Nat /\ RootSize(nr)
  <2>1. SS \div SZDIRE = 16
    BY DEF SS, SZDIRE
  <2> QED
    BY <1>1, <2>1 DEF RootSize
<1>5. blk \in BlkSizes
  BY <1>1, Powers DEF BlkSizes, AuSizes
<1>6. sa \in AuSizes \cup {0}
  <2>1. au \in AuSizes \cup {0} \/ au > 128
    BY <1>1, Powers DEF AuSizes, SS
  <2> HIDE DEF au
  <2> QED
    BY <2>1 DEF AuSizes
<1> HIDE DEF nf, nr, blk, sa, ty
<1>7. vol \in {0, N_SEC_TRACK} /\ vol \in Nat /\ sz_drv - vol \in Nat
  BY DEF N_SEC_TRACK
<1>8. sz_drv - vol >= 128 => (o.sfd <=> vol = 0)
  BY <1>1 DEF N_SEC_TRACK
<1> HIDE DEF vol
<1>9. m \in Parms
  BY <1>1, <1>2, <1>3, <1>4, <1>5, <1>6, <1>7 DEF Parms
<1>10. /\ m.sz_vol = sz_drv - vol /\ m.b_vol = vol /\ m.sfd = o.sfd /\ m.n_fat = nf
       /\ m.sz_blk = blk /\ m.n_root = nr
  BY <1>2
<1>11. sz_drv - vol >= 128 /\ vol + (sz_drv - vol) = sz_drv
  BY <1>7, <1>10
<1>12. Extent(m, sz_drv)
  BY <1>3, <1>5, <1>7, <1>8, <1>10, <1>11 DEF Extent
<1> QED
  BY <1>4, <1>9, <1>10, <1>12 DEF GoodParm

-------------------------------------------------------------------------------
(* The boot sector of a layout                                              *)

\* The fields of a layout.
LEMMA LayoutFields ==
  ASSUME NEW l, GoodLayout(l, sz_drv)
  PROVE  /\ l.fsty \in {"FAT12", "FAT16", "FAT32"} /\ l.b_vol \in Nat /\ l.sz_vol \in Nat
         /\ l.pau \in Nat /\ l.n_fat \in 1 .. 2 /\ l.n_root \in Nat /\ l.sz_rsv \in Nat
         /\ l.sz_fat \in Nat /\ l.sz_dir \in Nat /\ l.n_clst \in Nat /\ l.sfd \in BOOLEAN
         /\ l.b_vol \in {0, N_SEC_TRACK} /\ (l.sfd <=> l.b_vol = 0)
         /\ l.sz_fat * l.n_fat \in Nat /\ System(l) \in Nat /\ l # Null
<1>1. l \in Layouts /\ Extent(l, sz_drv)
  BY DEF GoodLayout
<1>2. /\ l.fsty \in {"FAT12", "FAT16", "FAT32"} /\ l.b_vol \in Nat /\ l.sz_vol \in Nat
      /\ l.pau \in Nat /\ l.n_root \in Nat /\ l.sz_rsv \in Nat
      /\ l.sz_fat \in Nat /\ l.sz_dir \in Nat /\ l.n_clst \in Nat /\ l.sfd \in BOOLEAN
  BY <1>1 DEF Layouts
<1>3. l.n_fat \in 1 .. 2 /\ l.b_vol \in {0, N_SEC_TRACK} /\ (l.sfd <=> l.b_vol = 0)
  BY Zenon, <1>1 DEF Extent
<1>4. l.sz_fat * l.n_fat \in Nat
  BY <1>2, <1>3
<1>5. System(l) \in Nat
  BY <1>2, <1>4 DEF System
<1>6. l # Null
  BY Zenon, <1>1, NullApart
<1> QED
  BY Zenon, <1>2, <1>3, <1>4, <1>5, <1>6

\* The numbers of a layout fit the fields of the boot sector.
LEMMA VbrFields ==
  ASSUME NEW l, GoodLayout(l, sz_drv), NEW b, b = Vbr(l)
  PROVE  /\ b.kind = "vbr" /\ (b.fat32sig <=> l.fsty = "FAT32")
         /\ b.SecPerClus = l.pau /\ b.RsvdSecCnt = l.sz_rsv /\ b.NumFATs = l.n_fat
         /\ b.RootEntCnt = l.n_root /\ b.RootClus32 = 2
         /\ l.sz_vol < 65536 => b.TotSec16 = l.sz_vol /\ b.TotSec32 = 0
         /\ l.sz_vol >= 65536 => b.TotSec16 = 0 /\ b.TotSec32 = l.sz_vol
         /\ l.fsty = "FAT32" => b.FATSz16 = 0 /\ b.FATSz32 = l.sz_fat
         /\ l.fsty # "FAT32" => b.FATSz16 = l.sz_fat
         /\ b # Null
<1>1. /\ l.pau \in AuSizes /\ l.sz_rsv \in Nat /\ l.sz_rsv < 65536 /\ l.n_root \in Nat
      /\ l.n_root <= 32768 /\ l.sz_fat \in Nat /\ (l.fsty # "FAT32" => l.sz_fat < 65536)
      /\ l.sz_vol \in Nat /\ l.n_fat \in Nat
  <2>1. /\ l.sz_rsv \in Nat /\ l.n_root \in Nat /\ l.sz_fat \in Nat /\ l.sz_vol \in Nat
        /\ l.n_fat \in Nat
    BY LayoutFields
  <2>2. l.pau \in AuSizes /\ l.sz_rsv < 65536 /\ l.n_root <= 32768
    BY DEF GoodLayout, RootSize
  <2> QED
    BY <2>1, <2>2 DEF GoodLayout
<1>2. /\ l.pau % 256 = l.pau /\ l.sz_rsv % 65536 = l.sz_rsv /\ l.n_root % 65536 = l.n_root
      /\ l.fsty # "FAT32" => l.sz_fat % 65536 = l.sz_fat
  BY <1>1 DEF AuSizes
<1> DEFINE t16 == IF l.sz_vol < 65536 THEN l.sz_vol ELSE 0
           t32 == IF l.sz_vol < 65536 THEN 0 ELSE l.sz_vol
           f16 == IF l.fsty = "FAT32" THEN 0 ELSE l.sz_fat
           f32 == IF l.fsty = "FAT32" THEN l.sz_fat ELSE 0
           sig == l.fsty = "FAT32"
<1>3. b = [kind |-> "vbr", fat32sig |-> sig, SecPerClus |-> l.pau, RsvdSecCnt |-> l.sz_rsv,
           NumFATs |-> l.n_fat, RootEntCnt |-> l.n_root, TotSec16 |-> t16, TotSec32 |-> t32,
           FATSz16 |-> f16, FATSz32 |-> f32, RootClus32 |-> 2, FSInfo32 |-> 1]
  BY <1>2 DEF Vbr, TotSec32
<1>4. /\ t16 \in Nat /\ t32 \in Nat /\ f16 \in Nat /\ f32 \in Nat /\ sig \in BOOLEAN
      /\ l.sz_vol < 65536 => t16 = l.sz_vol /\ t32 = 0
      /\ l.sz_vol >= 65536 => t16 = 0 /\ t32 = l.sz_vol
      /\ l.fsty = "FAT32" => f16 = 0 /\ f32 = l.sz_fat
      /\ l.fsty # "FAT32" => f16 = l.sz_fat
      /\ sig <=> l.fsty = "FAT32"
  BY <1>1
<1> HIDE DEF t16, t32, f16, f32, sig
<1>5. b \in Vbrs
  <2>1. l.pau \in Nat
    BY <1>1 DEF AuSizes
  <2> QED
    BY <1>1, <1>3, <1>4, <2>1 DEF Vbrs
<1>6. b # Null
  BY Zenon, <1>5, NullApart
<1>7. /\ b.kind = "vbr" /\ b.fat32sig = sig /\ b.SecPerClus = l.pau /\ b.RsvdSecCnt = l.sz_rsv
      /\ b.NumFATs = l.n_fat /\ b.RootEntCnt = l.n_root /\ b.TotSec16 = t16
      /\ b.TotSec32 = t32 /\ b.FATSz16 = f16 /\ b.FATSz32 = f32 /\ b.RootClus32 = 2
  BY <1>3
<1> QED
  BY <1>4, <1>6, <1>7

\* mount_volume accepts every cluster size f_mkfs may choose.
LEMMA PowerSizes == AuSizes \subseteq Pow2
BY Powers DEF AuSizes

\* check_fs takes the boot sector of a layout for one.
LEMMA VbrChecked ==
  ASSUME NEW l, GoodLayout(l, sz_drv)
  PROVE  check_fs(Vbr(l)) = 0
<1> DEFINE b == Vbr(l)
<1>1. /\ b.kind = "vbr" /\ (b.fat32sig <=> l.fsty = "FAT32") /\ b # Null
      /\ b.SecPerClus = l.pau /\ b.RsvdSecCnt = l.sz_rsv /\ b.NumFATs = l.n_fat
      /\ b.RootEntCnt = l.n_root
      /\ l.sz_vol < 65536 => b.TotSec16 = l.sz_vol
      /\ l.sz_vol >= 65536 => b.TotSec32 = l.sz_vol
      /\ l.fsty # "FAT32" => b.FATSz16 = l.sz_fat
  BY VbrFields
<1> HIDE DEF b
<1>2. CASE l.fsty = "FAT32"
  BY <1>1, <1>2 DEF check_fs, b
<1>3. CASE l.fsty # "FAT32"
  <2>1. l.sz_fat \in Nat /\ l.n_root \in Nat /\ l.sz_rsv \in Nat /\ l.n_fat \in 1 .. 2 /\ l.sz_vol \in Nat
    BY LayoutFields
  <2>2. /\ l.pau \in AuSizes /\ l.sz_rsv # 0 /\ l.n_root # 0 /\ l.sz_fat # 0 /\ l.sz_vol >= 128
    BY <1>3, <2>1 DEF GoodLayout, RootSize, Extent
  <2>3. b.SecPerClus \in Pow2
    BY <1>1, <2>2, PowerSizes
  <2>4. b.TotSec16 >= 128 \/ b.TotSec32 >= 65536
    BY <1>1, <2>1, <2>2
  <2>5. b.RsvdSecCnt # 0 /\ b.NumFATs \in 1 .. 2 /\ b.RootEntCnt # 0 /\ b.FATSz16 # 0
    BY <1>1, <1>3, <2>1, <2>2
  <2>6. b.kind # "mbr"
    BY <1>1
  <2> QED
    BY <1>1, <2>3, <2>4, <2>5, <2>6 DEF check_fs, b
<1> QED
  BY <1>2, <1>3

\* TypeCount, type by type.
LEMMA TypeCounts ==
  ASSUME NEW n \in Nat
  PROVE  /\ TypeCount("FAT32", n) <=> n > MAX_FAT16 /\ n <= MAX_FAT32
         /\ TypeCount("FAT16", n) <=> n > MAX_FAT12 /\ n <= MAX_FAT16
         /\ TypeCount("FAT12", n) <=> n <= MAX_FAT12
BY DEF TypeCount

\* mount_volume reads the layout back from its boot sector, and accepts it.
LEMMA VbrGeometry ==
  ASSUME NEW l, GoodLayout(l, sz_drv), boot[l.b_vol] = Vbr(l)
  PROVE  LET g == Geometry(l.b_vol)
         IN Agrees(g, l) /\ g.n_rootdir = l.n_root /\ (l.n_clst > 0 => Accepted(l.b_vol, g))
<1> DEFINE b == boot[l.b_vol]
           fsize == IF b.FATSz16 # 0 THEN b.FATSz16 ELSE b.FATSz32
           tsect == IF b.TotSec16 # 0 THEN b.TotSec16 ELSE b.TotSec32
           sysect == b.RsvdSecCnt + fsize * b.NumFATs + (b.RootEntCnt \div (SS \div SZDIRE))
           nclst == IF tsect < sysect THEN 0 ELSE (tsect - sysect) \div b.SecPerClus
           type == IF nclst <= MAX_FAT12 THEN "FAT12"
                   ELSE IF nclst <= MAX_FAT16 THEN "FAT16" ELSE "FAT32"
           dirbase == IF type = "FAT32" THEN b.RootClus32
                      ELSE l.b_vol + b.RsvdSecCnt + fsize * b.NumFATs
           g == Geometry(l.b_vol)
<1>1. g = [fs_type |-> type, n_fatent |-> nclst + 2, csize |-> b.SecPerClus, fsize |-> fsize,
           n_fats |-> b.NumFATs, n_rootdir |-> b.RootEntCnt, volbase |-> l.b_vol,
           fatbase |-> l.b_vol + b.RsvdSecCnt, database |-> l.b_vol + sysect,
           dirbase |-> dirbase, free_clst |-> Null, id |-> 0]
  BY Zenon DEF Geometry
<1> HIDE DEF g
<1>2. /\ l.fsty \in {"FAT12", "FAT16", "FAT32"} /\ l.b_vol \in Nat /\ l.sz_vol \in Nat
      /\ l.pau \in Nat /\ l.n_fat \in 1 .. 2 /\ l.n_root \in Nat /\ l.sz_rsv \in Nat
      /\ l.sz_fat \in Nat /\ l.sz_dir \in Nat /\ l.n_clst \in Nat
      /\ l.sz_fat * l.n_fat \in Nat /\ System(l) \in Nat
  BY LayoutFields
<1>3. /\ b.SecPerClus = l.pau /\ b.RsvdSecCnt = l.sz_rsv /\ b.NumFATs = l.n_fat
      /\ b.RootEntCnt = l.n_root /\ b.RootClus32 = 2
      /\ l.sz_vol < 65536 => b.TotSec16 = l.sz_vol /\ b.TotSec32 = 0
      /\ l.sz_vol >= 65536 => b.TotSec16 = 0 /\ b.TotSec32 = l.sz_vol
      /\ l.fsty = "FAT32" => b.FATSz16 = 0 /\ b.FATSz32 = l.sz_fat
      /\ l.fsty # "FAT32" => b.FATSz16 = l.sz_fat
  BY VbrFields
<1> HIDE DEF b
<1>4. /\ l.pau \in AuSizes /\ l.sz_rsv >= 1 /\ l.sz_fat > 0 /\ l.sz_vol >= 128
      /\ l.fsty = "FAT32" => l.n_root = 0 /\ l.sz_dir = 0
      /\ l.fsty # "FAT32" => RootSize(l.n_root) /\ l.sz_dir = l.n_root \div 16
      /\ System(l) <= l.sz_vol /\ l.n_clst = (l.sz_vol - System(l)) \div l.pau
      /\ TypeCount(l.fsty, l.n_clst)
      /\ Ceil(FatBytes(l.fsty, l.n_clst + 2), SS) <= l.sz_fat
  BY DEF GoodLayout, Extent
<1>5. fsize = l.sz_fat
  BY <1>2, <1>3, <1>4
<1>6. tsect = l.sz_vol
  BY <1>2, <1>3, <1>4
<1> HIDE DEF fsize, tsect
<1>7. b.RootEntCnt \div (SS \div SZDIRE) = l.sz_dir
  <2>1. SS \div SZDIRE = 16
    BY DEF SS, SZDIRE
  <2>2. l.sz_dir = l.n_root \div 16
    BY <1>2, <1>4
  <2> QED
    BY <1>3, <2>1, <2>2
<1>8. /\ b.SecPerClus = l.pau /\ b.RsvdSecCnt = l.sz_rsv /\ b.NumFATs = l.n_fat
       /\ b.RootClus32 = 2
  BY <1>3
<1>9. sysect = System(l)
  BY Zenon, <1>5, <1>7, <1>8 DEF System
<1>10. sysect = l.sz_rsv + l.sz_fat * l.n_fat + l.sz_dir
  BY Zenon, <1>9 DEF System
<1> HIDE DEF sysect
<1>11. nclst = l.n_clst
  BY <1>2, <1>3, <1>4, <1>6, <1>9
<1> HIDE DEF nclst
<1>12. type = l.fsty
  <2>1. TypeCount(l.fsty, nclst) /\ nclst \in Nat /\ l.fsty \in {"FAT12", "FAT16", "FAT32"}
    BY <1>2, <1>4, <1>11
  <2>2. /\ l.fsty = "FAT32" => nclst > MAX_FAT16
        /\ l.fsty = "FAT16" => nclst > MAX_FAT12 /\ nclst <= MAX_FAT16
        /\ l.fsty = "FAT12" => nclst <= MAX_FAT12
    BY Zenon, <2>1, TypeCounts
  <2> QED
    BY <2>1, <2>2 DEF MAX_FAT12, MAX_FAT16
<1> HIDE DEF type
<1>13. dirbase = IF l.fsty = "FAT32" THEN 2 ELSE l.b_vol + l.sz_rsv + l.sz_fat * l.n_fat
  BY Zenon, <1>5, <1>12, <1>8
<1> HIDE DEF dirbase
<1>14. /\ g.fs_type = l.fsty /\ g.n_fatent = l.n_clst + 2 /\ g.csize = l.pau
       /\ g.fsize = l.sz_fat /\ g.n_fats = l.n_fat /\ g.n_rootdir = l.n_root
       /\ g.volbase = l.b_vol /\ g.fatbase = l.b_vol + l.sz_rsv
       /\ g.database = l.b_vol + sysect /\ g.dirbase = dirbase
  BY <1>1, <1>3, <1>5, <1>11, <1>12
<1>15. Agrees(g, l)
  <2>1. l.n_fat * l.sz_fat = l.sz_fat * l.n_fat
    BY <1>2
  <2>2. /\ g.database = l.b_vol + l.sz_rsv + l.n_fat * l.sz_fat + l.sz_dir
        /\ g.database - l.sz_dir = l.b_vol + l.sz_rsv + l.sz_fat * l.n_fat
    BY <1>2, <1>10, <1>14, <2>1
  <2> QED
    BY <1>13, <1>14, <2>2 DEF Agrees
<1>16. ASSUME l.n_clst > 0 PROVE Accepted(l.b_vol, g)
  <2>1. g.csize \in Pow2
    BY <1>4, <1>14, PowerSizes
  <2>2. g.n_rootdir % (SS \div SZDIRE) = 0
    <3>1. SS \div SZDIRE = 16
      BY DEF SS, SZDIRE
    <3>2. l.n_root % 16 = 0
      BY <1>2, <1>4 DEF RootSize
    <3> QED
      BY Zenon, <1>14, <3>1, <3>2
  <2>3. g.n_fatent > 2 /\ g.n_fatent - 2 <= MAX_FAT32
    <3>1. l.n_clst <= MAX_FAT12 \/ l.n_clst <= MAX_FAT16 \/ l.n_clst <= MAX_FAT32
      BY <1>2, <1>4, TypeCounts
    <3> QED
      BY <1>2, <1>14, <1>16, <3>1 DEF MAX_FAT32, MAX_FAT16, MAX_FAT12
  <2>4. (g.fs_type = "FAT32") <=> (g.n_rootdir = 0)
    BY <1>2, <1>4, <1>14 DEF RootSize
  <2>5. g.fsize >= Ceil(FatBytes(g.fs_type, g.n_fatent), SS)
    <3>1. Ceil(FatBytes(l.fsty, l.n_clst + 2), SS) \in Nat
      BY <1>2 DEF FatBytes, Ceil, SS
    <3>2. Ceil(FatBytes(l.fsty, l.n_clst + 2), SS) <= l.sz_fat
      BY <1>4
    <3> QED
      BY <1>2, <1>14, <3>1, <3>2
  <2>6. boot[l.b_vol].NumFATs \in 1 .. 2 /\ boot[l.b_vol].RsvdSecCnt # 0
    BY <1>2, <1>3, <1>4 DEF b
  <2> QED
    BY Zenon, <2>1, <2>2, <2>3, <2>4, <2>5, <2>6 DEF Accepted
<1> QED
  BY <1>14, <1>15, <1>16 DEF g

-------------------------------------------------------------------------------
(* Mounting                                                                 *)

\* find_volume finds the volume where f_mkfs put it, with or without a
\* partition table.
LEMMA VolumeFound ==
  ASSUME NEW l, GoodLayout(l, sz_drv), boot[l.b_vol] = Vbr(l), l.b_vol # 0 => boot[0] = Mbr
  PROVE  find_volume = {l.b_vol}
<1>1. check_fs(Vbr(l)) = 0
  BY VbrChecked
<1>2. l.b_vol \in {0, N_SEC_TRACK}
  BY LayoutFields
<1>3. CASE l.b_vol = 0
  BY <1>1, <1>3 DEF find_volume
<1>4. CASE l.b_vol # 0
  <2>1. Mbr.kind = "mbr" /\ Mbr.StLba = N_SEC_TRACK /\ Mbr \in Mbrs
    BY DEF Mbr, Mbrs, N_SEC_TRACK
  <2>2. check_fs(Mbr) = 2
    BY <2>1, NullApart DEF check_fs
  <2>3. check_fs(Mbr) # 0
    BY <2>2
  <2>4. find_volume = {s \in {N_SEC_TRACK} : check_fs(boot[s]) = 0}
    BY Zenon, <1>4, <2>1, <2>2, <2>3 DEF find_volume
  <2> QED
    BY Zenon, <1>1, <1>2, <1>4, <2>4
<1> QED
  BY Zenon, <1>3, <1>4

\* On a drive without a boot sector find_volume finds nothing.
LEMMA NoVolume ==
  ASSUME boot[0] = Null
  PROVE  find_volume = {}
<1>1. check_fs(Null) = 3
  BY DEF check_fs
<1> QED
  BY <1>1 DEF find_volume

\* The geometry of a mounted FATFS.
Same(h, g) ==
  /\ h.fs_type = g.fs_type /\ h.n_fatent = g.n_fatent /\ h.csize = g.csize
  /\ h.fsize = g.fsize /\ h.n_fats = g.n_fats /\ h.n_rootdir = g.n_rootdir
  /\ h.volbase = g.volbase /\ h.fatbase = g.fatbase /\ h.database = g.database
  /\ h.dirbase = g.dirbase

\* mount_volume either leaves the FATFS objects as they were registered or
\* takes the geometry of a volume it has found.
LEMMA MountTakes ==
  ASSUME NEW f \in Fs, NEW reg, reg = [g \in Fs |-> reg[g]], mount_volume(f, reg)
  PROVE  /\ fs' = [g \in Fs |-> fs'[g]]
         /\ \/ fs' = reg
            \/ \E s \in find_volume :
                 /\ Same(fs'[f], Geometry(s))
                 /\ \/ fs'[f].free_clst = Null
                    \/ Geometry(s).fs_type = "FAT32" /\ fs'[f].free_clst = fsinfo[s + 1]
<1>1. CASE fs' = reg
  BY Zenon, <1>1
<1>2. CASE \E s \in find_volume, info \in {TRUE, ~MayFail} :
             LET g == Geometry(s)
                 free == IF g.fs_type = "FAT32" /\ info THEN fsinfo[s + 1] ELSE Null
             IN /\ Accepted(s, g)
                /\ fs' = [reg EXCEPT ![f] = [g EXCEPT !.free_clst = free, !.id = Fsid']]
                /\ fat' = IF fats = Null THEN Null ELSE CleanFat(g)
  <2>1. PICK s \in find_volume, info \in {TRUE, ~MayFail} :
          LET g == Geometry(s)
              free == IF g.fs_type = "FAT32" /\ info THEN fsinfo[s + 1] ELSE Null
          IN /\ Accepted(s, g)
             /\ fs' = [reg EXCEPT ![f] = [g EXCEPT !.free_clst = free, !.id = Fsid']]
             /\ fat' = IF fats = Null THEN Null ELSE CleanFat(g)
    BY Zenon, <1>2
  <2> DEFINE g == Geometry(s)
             free == IF g.fs_type = "FAT32" /\ info THEN fsinfo[s + 1] ELSE Null
             h == [g EXCEPT !.free_clst = free, !.id = Fsid']
  <2>2. fs' = [reg EXCEPT ![f] = h]
    BY Zenon, <2>1
  <2>3. DOMAIN g = {"fs_type", "n_fatent", "csize", "fsize", "n_fats", "n_rootdir", "volbase",
                    "fatbase", "database", "dirbase", "free_clst", "id"}
    BY DEF Geometry
  <2> HIDE DEF g
  <2>4. free = Null \/ (g.fs_type = "FAT32" /\ free = fsinfo[s + 1])
    BY Zenon
  <2> HIDE DEF free
  <2>5. h.free_clst = free /\ Same(h, g)
    BY <2>3 DEF Same
  <2> HIDE DEF h
  <2>6. fs'[f] = h /\ fs' = [k \in Fs |-> fs'[k]]
    BY Zenon, <2>2
  <2> QED
    BY Zenon, <2>4, <2>5, <2>6 DEF g
<1> QED
  BY Zenon, <1>1, <1>2 DEF mount_volume

\* What is mounted while no format runs is the last volume formatted.
LEMMA NewMount ==
  ASSUME FormatInv, pc = "idle", ~cut, NEW s \in find_volume, NEW h, Same(h, Geometry(s)),
         h.free_clst = Null \/ (Geometry(s).fs_type = "FAT32" /\ h.free_clst = fsinfo[s + 1])
  PROVE  /\ made # Null /\ Agrees(h, made) /\ h.n_rootdir = made.n_root
         /\ h.free_clst = Null \/ lostInfo \/ h.free_clst = made.n_clst - 1
<1>1. ~Writing
  BY DEF Writing
<1>2. made # Null
  BY Zenon, <1>1, NoVolume DEF FormatInv, OnDrive
<1>3. GoodLayout(made, sz_drv) /\ Installed(made)
  BY Zenon, <1>1, <1>2 DEF FormatInv, OnDrive, Laid
<1>4. boot[made.b_vol] = Vbr(made) /\ (made.b_vol # 0 => boot[0] = Mbr) /\ Informed(made)
  BY Zenon, <1>3 DEF Installed
<1>5. s = made.b_vol
  <2>1. find_volume = {made.b_vol}
    BY Zenon, <1>3, <1>4, VolumeFound
  <2> QED
    BY Zenon, <2>1
<1>6. Agrees(Geometry(s), made) /\ Geometry(s).n_rootdir = made.n_root
  BY Zenon, <1>3, <1>4, <1>5, VbrGeometry
<1>7. Agrees(h, made) /\ h.n_rootdir = made.n_root
  BY Zenon, <1>6 DEF Agrees, Same
<1>8. h.free_clst = Null \/ lostInfo \/ h.free_clst = made.n_clst - 1
  BY Zenon, <1>4, <1>5 DEF Informed
<1> QED
  BY Zenon, <1>2, <1>7, <1>8

-------------------------------------------------------------------------------
(* The steps                                                                *)

\* A drive starts blank, and nothing is mounted.
LEMMA FormatInit == Init => FormatInv
<1> SUFFICES ASSUME Init PROVE FormatInv
  OBVIOUS
<1>1. Shapes
  <2>1. DOMAIN boot = {0, N_SEC_TRACK} /\ DOMAIN fsinfo = {1, N_SEC_TRACK + 1}
    BY Zenon DEF Init
  <2>2. fs = [g \in Fs |-> fs[g]]
    BY Zenon DEF Init
  <2>3. sz_drv \in DriveSize /\ cut = FALSE /\ pc = "idle" /\ FatFs = Null
    BY Zenon DEF Init
  <2>4. sz_drv \in Nat
    BY Zenon, <2>3, Kinds
  <2> QED
    BY Zenon, <2>1, <2>2, <2>3, <2>4 DEF Shapes
<1>2. ~Mounted /\ ~Writing /\ pc = "idle" /\ made = Null
  BY DEF Init, Mounted, Writing
<1>3. boot[0] = Null
  BY DEF Init
<1> QED
  BY Zenon, <1>1, <1>2, <1>3 DEF FormatInv, Laid, OnDrive, Written, TakesMade, Init

\* Steps outside of the writing of a format leave the drive as it is.
LEMMA DriveKept ==
  ASSUME FormatInv, ~Writing, UNCHANGED <<dvars, hvars>>, ~Writing'
  PROVE  OnDrive' /\ Written'
<1>1. /\ boot' = boot /\ fsinfo' = fsinfo /\ fats' = fats /\ root' = root
      /\ made' = made /\ cut' = cut /\ lostInfo' = lostInfo
  BY Zenon DEF dvars, hvars
<1>2. OnDrive'
  BY Zenon, <1>1 DEF FormatInv, OnDrive, Installed, Informed
<1>3. Written'
  BY Zenon DEF Written, Writing
<1> QED
  BY Zenon, <1>2, <1>3

\* f_mkfs starts with the registered FATFS unmounted.
LEMMA StartKeeps ==
  ASSUME FormatInv, NEW o \in Opt, f_mkfs(o)
  PROVE  FormatInv'
<1>1. /\ pc = "idle" /\ sz_drv' = sz_drv /\ UNCHANGED <<dvars, hvars>> /\ FatFs' = FatFs
      /\ fs' = IF FatFs = Null THEN fs ELSE [fs EXCEPT ![FatFs] = Unmounted]
  BY Zenon DEF f_mkfs, Quiet
<1>2. \/ pc' = "idle"
      \/ /\ pc' = "size" /\ mk' = Taken(o) /\ ~(Taken(o).sz_vol < 128) /\ o.fmt # {}
  BY Zenon DEF f_mkfs
<1>3. ~Writing /\ ~Writing'
  BY <1>1, <1>2 DEF Writing
<1>4. FatFs \in Fs \cup {Null} /\ fs = [g \in Fs |-> fs[g]]
  BY Zenon DEF FormatInv, Shapes
<1>5. fs' = [g \in Fs |-> fs'[g]] /\ ~Mounted'
  <2>1. CASE FatFs = Null
    BY Zenon, <1>1, <1>4, <2>1 DEF Mounted
  <2>2. CASE FatFs # Null
    <3>1. fs' = [g \in Fs |-> fs'[g]] /\ fs'[FatFs] = Unmounted
      BY Zenon, <1>1, <1>4, <2>2
    <3>2. Unmounted.fs_type = "none"
      BY DEF Unmounted
    <3> QED
      BY Zenon, <1>1, <3>1, <3>2 DEF Mounted
  <2> QED
    BY Zenon, <2>1, <2>2
<1>6. boot' = boot /\ fsinfo' = fsinfo /\ made' = made /\ cut' = cut
  BY Zenon, <1>1 DEF dvars, hvars
<1>7. Shapes'
  BY <1>1, <1>2, <1>4, <1>5, <1>6 DEF FormatInv, Shapes
<1>8. sz_drv \in Nat
  BY Zenon DEF FormatInv, Shapes
<1>9. pc' = "size" => GoodParm(mk', sz_drv')
  BY <1>1, <1>2, <1>8, TakenGood
<1>10. Laid'
  BY <1>1, <1>2, <1>5, <1>6, <1>9 DEF FormatInv, Laid
<1>11. OnDrive' /\ Written'
  BY Zenon, <1>1, <1>3, DriveKept
<1> QED
  BY Zenon, <1>5, <1>7, <1>10, <1>11 DEF FormatInv, TakesMade

\* The sizing loop.
LEMMA SizeKeeps ==
  ASSUME FormatInv, MkfsSize
  PROVE  FormatInv'
<1>1. /\ pc = "size" /\ sz_drv' = sz_drv /\ UNCHANGED <<dvars, hvars>> /\ FatFs' = FatFs /\ fs' = fs
  BY Zenon DEF MkfsSize, Quiet, mvars
<1>2. GoodParm(mk, sz_drv) /\ ~Mounted
  BY <1>1 DEF FormatInv, Laid
<1> DEFINE s == Sized(mk)
           a == Aligned(mk, s)
           c == Clusters(mk, a)
<1>3. \/ pc' = "idle"
      \/ pc' = pc /\ mk' \in Again(mk, a, c)
      \/ pc' = "vbr" /\ mk' = Layout(mk, a, c) /\ ~TooSmall(mk, s) /\ ~Unfit(a, c)
  BY Zenon DEF MkfsSize
<1>4. pc' = "size" => GoodParm(mk', sz_drv')
  BY <1>1, <1>2, <1>3, AgainGood
<1>5. pc' = "vbr" => GoodLayout(mk', sz_drv')
  BY <1>1, <1>2, <1>3, LayoutGood
<1>6. pc' \in {"idle", "size", "vbr"} /\ ~Writing /\ ~Writing'
  BY <1>1, <1>3 DEF Writing
<1> HIDE DEF s, a, c
<1>7. boot' = boot /\ fsinfo' = fsinfo /\ made' = made /\ cut' = cut
  BY Zenon, <1>1 DEF dvars, hvars
<1>8. ~Mounted'
  BY Zenon, <1>1, <1>2 DEF Mounted
<1>9. Shapes'
  BY <1>1, <1>6, <1>7 DEF FormatInv, Shapes
<1>10. Laid'
  BY <1>1, <1>4, <1>5, <1>6, <1>7, <1>8 DEF FormatInv, Laid
<1>11. OnDrive' /\ Written'
  BY Zenon, <1>1, <1>6, DriveKept
<1> QED
  BY Zenon, <1>8, <1>9, <1>10, <1>11 DEF FormatInv, TakesMade

\* The boot sector and FSInfo.
LEMMA VbrKeeps ==
  ASSUME FormatInv, MkfsVbr
  PROVE  FormatInv'
<1>1. /\ pc = "vbr" /\ pc' = "fats" /\ mk' = mk /\ sz_drv' = sz_drv /\ FatFs' = FatFs /\ fs' = fs
      /\ boot' = [boot EXCEPT ![mk.b_vol] = Vbr(mk)] /\ made' = made /\ cut' = cut
  BY Zenon DEF MkfsVbr, Quiet, mvars
<1>2. \/ lostInfo' /\ fsinfo' = fsinfo
      \/ mk.fsty = "FAT32" /\ fsinfo' = [fsinfo EXCEPT ![mk.b_vol + 1] = mk.n_clst - 1]
  <2>1. PICK refused \in {FALSE, MayFail} :
          LET done == mk.fsty = "FAT32" /\ ~refused
          IN /\ lostInfo' = ~done
             /\ fsinfo' = IF done THEN [fsinfo EXCEPT ![mk.b_vol + 1] = mk.n_clst - 1]
                                  ELSE fsinfo
    BY Zenon DEF MkfsVbr
  <2> QED
    BY Zenon, <2>1
<1>3. GoodLayout(mk, sz_drv) /\ ~Mounted /\ ~Writing
  BY <1>1 DEF FormatInv, Laid, Writing
<1>4. mk.b_vol \in {0, N_SEC_TRACK} /\ (mk.sfd <=> mk.b_vol = 0) /\ mk.b_vol + 1 \in {1, N_SEC_TRACK + 1}
  <2>1. mk.b_vol \in {0, N_SEC_TRACK} /\ (mk.sfd <=> mk.b_vol = 0)
    BY <1>3, LayoutFields
  <2> QED
    BY <2>1 DEF N_SEC_TRACK
<1>5. DOMAIN boot = {0, N_SEC_TRACK} /\ DOMAIN fsinfo = {1, N_SEC_TRACK + 1}
  BY Zenon DEF FormatInv, Shapes
<1>6. DOMAIN boot' = {0, N_SEC_TRACK} /\ DOMAIN fsinfo' = {1, N_SEC_TRACK + 1}
  BY <1>1, <1>2, <1>5
<1>7. Shapes'
  BY <1>1, <1>6 DEF FormatInv, Shapes
<1>8. Writing' /\ ~Mounted'
  BY <1>1, <1>3 DEF Writing, Mounted
<1>9. Laid'
  BY <1>1, <1>3, <1>8 DEF FormatInv, Laid
<1>10. boot'[mk.b_vol] = Vbr(mk) /\ (mk.b_vol # 0 => boot'[0] = boot[0])
  BY Zenon, <1>1, <1>4, <1>5
<1>11. Informed(mk)'
  <2>1. CASE lostInfo'
    BY Zenon, <2>1 DEF Informed
  <2>2. CASE mk.fsty = "FAT32" /\ fsinfo' = [fsinfo EXCEPT ![mk.b_vol + 1] = mk.n_clst - 1]
    <3>1. fsinfo'[mk.b_vol + 1] = mk.n_clst - 1
      BY Zenon, <1>4, <1>5, <2>2
    <3> QED
      BY Zenon, <1>1, <2>2, <3>1 DEF Informed
  <2> QED
    BY Zenon, <1>2, <2>1, <2>2
<1>12. Written'
  BY <1>1, <1>10, <1>11 DEF Written
<1>13. OnDrive'
  <2>1. ~cut /\ made = Null => boot[0] = Null
    BY Zenon, <1>3 DEF FormatInv, OnDrive
  <2> QED
    BY Zenon, <1>1, <1>4, <1>8, <1>10, <2>1 DEF OnDrive
<1> QED
  BY Zenon, <1>7, <1>8, <1>9, <1>12, <1>13 DEF FormatInv, TakesMade

\* The clearing of sectors leaves the ones in front of them, and a blank one.
LEMMA ClearKeeps ==
  ASSUME NEW first, NEW last, Clear(first, last)
  PROVE  /\ DOMAIN boot' = DOMAIN boot /\ DOMAIN fsinfo' = DOMAIN fsinfo
         /\ \A s \in DOMAIN boot : /\ boot'[s] \in {Null, boot[s]}
                                   /\ s \notin first .. last => boot'[s] = boot[s]
         /\ \A s \in DOMAIN fsinfo : s \notin first .. last => fsinfo'[s] = fsinfo[s]
<1>1. /\ boot' = [s \in DOMAIN boot |-> IF s \in first .. last THEN Null ELSE boot[s]]
      /\ fsinfo' = [s \in DOMAIN fsinfo |-> IF s \in first .. last THEN Null ELSE fsinfo[s]]
  BY Zenon DEF Clear
<1> QED
  BY Zenon, <1>1

\* The areas f_mkfs clears lie behind the boot sector and FSInfo.
LEMMA AreaKeeps ==
  ASSUME NEW l, GoodLayout(l, sz_drv), NEW first, NEW last, Clear(first, last), Shapes,
         first = l.b_vol + l.sz_rsv \/ first = l.b_vol + l.sz_rsv + l.n_fat * l.sz_fat
  PROVE  /\ DOMAIN boot' = DOMAIN boot /\ DOMAIN fsinfo' = DOMAIN fsinfo
         /\ boot'[l.b_vol] = boot[l.b_vol] /\ (boot[0] = Null => boot'[0] = Null)
         /\ l.fsty = "FAT32" => fsinfo'[l.b_vol + 1] = fsinfo[l.b_vol + 1]
<1>1. /\ l.b_vol \in Nat /\ l.n_fat \in 1 .. 2 /\ l.sz_rsv \in Nat /\ l.sz_fat \in Nat
      /\ l.b_vol \in {0, N_SEC_TRACK}
  BY LayoutFields
<1>2. l.sz_rsv >= 1 /\ (l.fsty = "FAT32" => l.sz_rsv >= 32)
  BY DEF GoodLayout
<1>3. l.n_fat * l.sz_fat \in Nat
  BY <1>1
<1>4. first \in Nat /\ l.b_vol < first /\ (l.fsty = "FAT32" => l.b_vol + 1 < first)
  BY <1>1, <1>2, <1>3
<1>5. l.b_vol \notin first .. last /\ (l.fsty = "FAT32" => l.b_vol + 1 \notin first .. last)
  BY <1>1, <1>4
<1>6. l.b_vol \in DOMAIN boot /\ 0 \in DOMAIN boot
  BY Zenon, <1>1 DEF Shapes
<1>7. l.b_vol + 1 \in DOMAIN fsinfo
  BY <1>1 DEF Shapes, N_SEC_TRACK
<1> QED
  BY Zenon, <1>5, <1>6, <1>7, ClearKeeps

\* The FATs or the root directory are cleared.
LEMMA AreaStep ==
  ASSUME FormatInv, pc \in {"fats", "root"}, pc' \in {"root", "mbr"}, pc' = "mbr" => pc = "root",
         mk' = mk, UNCHANGED <<sz_drv, FatFs, fs, made, cut, lostInfo>>,
         NEW first, NEW last, Clear(first, last),
         first = mk.b_vol + mk.sz_rsv \/ first = mk.b_vol + mk.sz_rsv + mk.n_fat * mk.sz_fat,
         fats' = mk, pc' = "mbr" => root' = mk
  PROVE  FormatInv'
<1>1. Writing /\ Writing'
  BY DEF Writing
<1>2. GoodLayout(mk, sz_drv) /\ ~Mounted /\ Shapes
  BY DEF FormatInv, Laid
<1>3. /\ DOMAIN boot' = DOMAIN boot /\ DOMAIN fsinfo' = DOMAIN fsinfo
      /\ boot'[mk.b_vol] = boot[mk.b_vol] /\ (boot[0] = Null => boot'[0] = Null)
      /\ mk.fsty = "FAT32" => fsinfo'[mk.b_vol + 1] = fsinfo[mk.b_vol + 1]
  BY Zenon, <1>2, AreaKeeps
<1>4. ~Mounted'
  BY Zenon, <1>2 DEF Mounted
<1>5. Shapes'
  BY <1>2, <1>3 DEF Shapes
<1>6. Laid'
  BY <1>2, <1>4 DEF FormatInv, Laid
<1>7. Written'
  <2>1. boot[mk.b_vol] = Vbr(mk) /\ Informed(mk)
    BY Zenon, <1>1 DEF FormatInv, Written
  <2>2. Informed(mk)'
    BY Zenon, <1>3, <2>1 DEF Informed
  <2> QED
    BY Zenon, <1>3, <2>1, <2>2 DEF Written
<1>8. OnDrive'
  BY Zenon, <1>1, <1>3 DEF FormatInv, OnDrive
<1> QED
  BY Zenon, <1>4, <1>5, <1>6, <1>7, <1>8 DEF FormatInv, TakesMade

\* Clearing the FATs.
LEMMA FatsKeeps ==
  ASSUME FormatInv, MkfsFats
  PROVE  FormatInv'
<1>1. /\ pc = "fats" /\ pc' = "root" /\ mk' = mk /\ fats' = mk
      /\ UNCHANGED <<sz_drv, FatFs, fs, made, cut, lostInfo>>
      /\ Clear(mk.b_vol + mk.sz_rsv, mk.b_vol + mk.sz_rsv + mk.n_fat * mk.sz_fat - 1)
  BY Zenon DEF MkfsFats, FatArea, Quiet, mvars, hvars
<1>2. pc' # "mbr"
  BY <1>1
<1> QED
  BY Zenon, <1>1, <1>2, AreaStep

\* Clearing the root directory.
LEMMA RootKeeps ==
  ASSUME FormatInv, MkfsRoot
  PROVE  FormatInv'
<1>1. /\ pc = "root" /\ pc' = "mbr" /\ mk' = mk /\ fats' = fats /\ root' = mk
      /\ UNCHANGED <<sz_drv, FatFs, fs, made, cut, lostInfo>>
      /\ Clear(mk.b_vol + mk.sz_rsv + mk.n_fat * mk.sz_fat, EndOfRoot(mk) - 1)
  BY Zenon DEF MkfsRoot, RootArea, Quiet, mvars, hvars
<1>2. fats' = mk
  BY Zenon, <1>1 DEF FormatInv, Written
<1> QED
  BY Zenon, <1>1, <1>2, AreaStep

\* The partition table completes the format.
LEMMA MbrKeeps ==
  ASSUME FormatInv, MkfsMbr
  PROVE  FormatInv'
<1>1. /\ pc = "mbr" /\ pc' = "idle" /\ made' = mk /\ cut' = FALSE
      /\ UNCHANGED <<sz_drv, FatFs, fs, fsinfo, fats, root, lostInfo>>
      /\ boot' = IF mk.sfd THEN boot ELSE [boot EXCEPT ![0] = Mbr]
  BY Zenon DEF MkfsMbr, Quiet, mvars, Mbr
<1>2. GoodLayout(mk, sz_drv) /\ ~Mounted /\ Shapes /\ Writing
  BY <1>1 DEF FormatInv, Laid, Writing
<1>3. boot[mk.b_vol] = Vbr(mk) /\ Informed(mk) /\ fats = mk /\ root = mk
  BY Zenon, <1>1, <1>2 DEF FormatInv, Written
<1>4. mk # Null /\ mk.b_vol \in {0, N_SEC_TRACK} /\ (mk.sfd <=> mk.b_vol = 0)
  BY <1>2, LayoutFields
<1>5. DOMAIN boot = {0, N_SEC_TRACK}
  BY Zenon, <1>2 DEF Shapes
<1>6. /\ DOMAIN boot' = {0, N_SEC_TRACK} /\ boot'[mk.b_vol] = Vbr(mk)
      /\ (mk.b_vol # 0 => boot'[0] = Mbr)
  BY <1>1, <1>3, <1>4, <1>5
<1>7. ~Mounted' /\ ~Writing'
  BY <1>1, <1>2 DEF Mounted, Writing
<1>8. Shapes'
  BY Zenon, <1>1, <1>2, <1>6 DEF Shapes
<1>9. Laid'
  BY <1>1, <1>2 DEF Laid
<1>10. Installed(made)'
  BY Zenon, <1>1, <1>3, <1>6 DEF Installed, Informed
<1>11. OnDrive'
  BY Zenon, <1>1, <1>4, <1>10 DEF OnDrive
<1>12. Written'
  BY <1>1, <1>7 DEF Written
<1> QED
  BY Zenon, <1>7, <1>8, <1>9, <1>11, <1>12 DEF FormatInv, TakesMade

\* A write is refused: the old volume is whole, or sector 0 still blank, or the
\* format is marked as cut.
LEMMA RefusedKeeps ==
  ASSUME FormatInv, MkfsRefused
  PROVE  FormatInv'
<1>1. /\ pc \in {"vbr", "fats", "root", "mbr"} /\ pc' = "idle"
      /\ cut' = (cut \/ (pc # "vbr" /\ (mk.sfd \/ made # Null)))
      /\ UNCHANGED <<sz_drv, FatFs, fs, fats, root, made, lostInfo>>
      /\ \/ UNCHANGED <<boot, fsinfo>>
         \/ pc = "fats" /\ FatArea
         \/ pc = "root" /\ RootArea
  BY Zenon DEF MkfsRefused, Quiet, mvars
<1>2. GoodLayout(mk, sz_drv) /\ ~Mounted /\ Shapes
  BY <1>1 DEF FormatInv, Laid
<1>3. /\ DOMAIN boot' = DOMAIN boot /\ DOMAIN fsinfo' = DOMAIN fsinfo
      /\ (boot[0] = Null => boot'[0] = Null)
      /\ pc = "vbr" => boot' = boot /\ fsinfo' = fsinfo
  <2>1. CASE UNCHANGED <<boot, fsinfo>>
    BY Zenon, <2>1
  <2>2. CASE pc = "fats" /\ FatArea
    <3>1. Clear(mk.b_vol + mk.sz_rsv, mk.b_vol + mk.sz_rsv + mk.n_fat * mk.sz_fat - 1)
      BY Zenon, <2>2 DEF FatArea
    <3>2. pc # "vbr"
      BY <2>2
    <3> QED
      BY Zenon, <1>2, <3>1, <3>2, AreaKeeps
  <2>3. CASE pc = "root" /\ RootArea
    <3>1. Clear(mk.b_vol + mk.sz_rsv + mk.n_fat * mk.sz_fat, EndOfRoot(mk) - 1)
      BY Zenon, <2>3 DEF RootArea
    <3>2. pc # "vbr"
      BY <2>3
    <3> QED
      BY Zenon, <1>2, <3>1, <3>2, AreaKeeps
  <2> QED
    BY Zenon, <1>1, <2>1, <2>2, <2>3
<1>4. ~Mounted' /\ ~Writing' /\ pc' # "root" /\ pc' # "mbr"
  BY <1>1, <1>2 DEF Mounted, Writing
<1>5. cut' \in BOOLEAN
  BY Zenon, <1>1
<1>6. Shapes'
  BY <1>1, <1>2, <1>3, <1>5 DEF Shapes
<1>7. Laid'
  BY <1>1 DEF FormatInv, Laid
<1>8. Written'
  BY <1>1, <1>4 DEF Written
<1>9. OnDrive'
  <2>1. CASE pc = "vbr"
    <3>1. ~Writing
      BY <2>1 DEF Writing
    <3>2. cut' <=> cut
      BY Zenon, <1>1, <2>1
    <3> QED
      BY Zenon, <1>1, <1>3, <2>1, <3>1, <3>2 DEF FormatInv, OnDrive, Installed, Informed
  <2>2. CASE pc # "vbr"
    BY Zenon, <1>1, <1>3, <2>2 DEF FormatInv, OnDrive
  <2> QED
    BY Zenon, <2>1, <2>2
<1> QED
  BY Zenon, <1>4, <1>6, <1>7, <1>8, <1>9 DEF FormatInv, TakesMade

\* While no format runs, the drive, the parameters and the history stay.
LEMMA IdleKeeps ==
  ASSUME FormatInv, pc \in {"idle", "put"}, pc' \in {"idle", "put"},
         UNCHANGED <<sz_drv, dvars, hvars>>, FatFs' \in Fs \cup {Null},
         fs' = [g \in Fs |-> fs'[g]], TakesMade'
  PROVE  FormatInv'
<1>1. ~Writing /\ ~Writing'
  BY DEF Writing
<1>2. OnDrive' /\ Written'
  BY Zenon, <1>1, DriveKept
<1>3. boot' = boot /\ fsinfo' = fsinfo /\ made' = made /\ cut' = cut
  BY Zenon DEF dvars, hvars
<1>4. Shapes'
  <2>1. pc' \in {"idle", "put", "size", "vbr", "fats", "root", "mbr"}
    BY Zenon
  <2> QED
    BY Zenon, <1>3, <2>1 DEF FormatInv, Shapes
<1>5. Laid'
  BY <1>3 DEF FormatInv, Laid
<1> QED
  BY Zenon, <1>2, <1>4, <1>5 DEF FormatInv

\* mount_volume mounts the last volume formatted or leaves what it was given.
LEMMA MountMade ==
  ASSUME FormatInv, pc = "idle", NEW f \in Fs, NEW reg, reg = [g \in Fs |-> reg[g]],
         mount_volume(f, reg), FatFs' = f, UNCHANGED hvars, fs' # reg
  PROVE  TakesMade'
<1>1. made' = made /\ cut' = cut /\ lostInfo' = lostInfo
  BY Zenon DEF hvars
<1>2. PICK s \in find_volume :
        /\ Same(fs'[f], Geometry(s))
        /\ \/ fs'[f].free_clst = Null
           \/ Geometry(s).fs_type = "FAT32" /\ fs'[f].free_clst = fsinfo[s + 1]
  BY Zenon, MountTakes
<1>3. ~cut => LET g == fs'[f]
              IN /\ made # Null /\ Agrees(g, made) /\ g.n_rootdir = made.n_root
                 /\ g.free_clst = Null \/ lostInfo \/ g.free_clst = made.n_clst - 1
  BY Zenon, <1>2, NewMount
<1> QED
  BY Zenon, <1>1, <1>3 DEF TakesMade, Agrees

\* f_mount.
LEMMA MountKeeps ==
  ASSUME FormatInv, NEW f \in Fs \cup {Null}, NEW opt \in 0 .. 1, f_mount(f, opt)
  PROVE  FormatInv'
<1> DEFINE reg == Registered(f)
<1>1. /\ pc = "idle" /\ pc' = pc /\ UNCHANGED <<sz_drv, dvars, hvars>> /\ FatFs' = f
      /\ fs' = reg \/ (f # Null /\ mount_volume(f, reg))
  BY Zenon DEF f_mount
<1>2. reg = [g \in Fs |-> reg[g]] /\ (f \in Fs => reg[f] = Unmounted)
  BY Zenon DEF Registered
<1> HIDE DEF reg
<1>3. CASE fs' = reg
  <2>1. Unmounted.fs_type = "none"
    BY DEF Unmounted
  <2>2. ~Mounted'
    BY Zenon, <1>1, <1>2, <1>3, <2>1 DEF Mounted
  <2>3. TakesMade'
    BY Zenon, <2>2 DEF TakesMade
  <2> QED
    BY Zenon, <1>1, <1>2, <1>3, <2>3, IdleKeeps
<1>4. CASE fs' # reg /\ f # Null /\ mount_volume(f, reg)
  <2>1. f \in Fs
    BY Zenon, <1>4
  <2>2. TakesMade'
    BY Zenon, <1>1, <1>2, <1>4, <2>1, MountMade
  <2>3. fs' = [g \in Fs |-> fs'[g]]
    BY Zenon, <1>2, <1>4, <2>1, MountTakes
  <2> QED
    BY Zenon, <1>1, <2>2, <2>3, IdleKeeps
<1> QED
  BY Zenon, <1>1, <1>3, <1>4

\* A step that leaves the mounted volume and the disk alone.
LEMMA SameMount ==
  ASSUME FormatInv, UNCHANGED <<FatFs, fs, hvars>>
  PROVE  TakesMade' /\ fs' = [g \in Fs |-> fs'[g]] /\ FatFs' \in Fs \cup {Null}
BY Zenon DEF FormatInv, TakesMade, Mounted, Agrees, hvars, Shapes

\* A call that mounts the volume when it has to.
LEMMA CallKeeps ==
  ASSUME FormatInv, NEW opens, Call(opens)
  PROVE  FormatInv'
<1>1. /\ pc = "idle" /\ pc' = pc /\ UNCHANGED <<sz_drv, dvars, hvars>> /\ FatFs' = FatFs
      /\ fs' = fs \/ (FatFs # Null /\ mount_volume(FatFs, fs))
  BY Zenon DEF Call
<1>2. CASE fs' = fs
  BY Zenon, <1>1, <1>2, SameMount, IdleKeeps
<1>3. CASE fs' # fs /\ FatFs # Null /\ mount_volume(FatFs, fs)
  <2>1. FatFs \in Fs /\ fs = [g \in Fs |-> fs[g]]
    BY Zenon, <1>3 DEF FormatInv, Shapes
  <2>2. TakesMade'
    BY Zenon, <1>1, <1>3, <2>1, MountMade
  <2>3. fs' = [g \in Fs |-> fs'[g]]
    BY Zenon, <1>3, <2>1, MountTakes
  <2> QED
    BY Zenon, <1>1, <2>1, <2>2, <2>3, IdleKeeps
<1> QED
  BY Zenon, <1>1, <1>2, <1>3

\* put_fat, both halves.
LEMMA PutKeeps ==
  ASSUME FormatInv, put_fat_rest \/ \E c, val : put_fat(c, val)
  PROVE  FormatInv'
<1>1. /\ pc \in {"idle", "put"} /\ pc' \in {"idle", "put"}
      /\ UNCHANGED <<sz_drv, dvars, FatFs, fs, hvars>>
  <2>1. CASE put_fat_rest
    BY Zenon, <2>1 DEF put_fat_rest
  <2>2. ASSUME NEW c, NEW val, put_fat(c, val)
        PROVE  /\ pc \in {"idle", "put"} /\ pc' \in {"idle", "put"}
               /\ UNCHANGED <<sz_drv, dvars, FatFs, fs, hvars>>
    BY Zenon, <2>2 DEF put_fat
  <2> QED
    BY Zenon, <2>1, <2>2
<1> QED
  BY Zenon, <1>1, SameMount, IdleKeeps

\* Every step.
LEMMA FormatNext ==
  ASSUME FormatInv, [Next]_vars
  PROVE  FormatInv'
<1>1. CASE Next
  BY Zenon, <1>1, StartKeeps, SizeKeeps, VbrKeeps, FatsKeeps, RootKeeps, MbrKeeps, RefusedKeeps,
     MountKeeps, CallKeeps, PutKeeps DEF Next, Step
<1>2. CASE UNCHANGED vars
  <2>1. /\ UNCHANGED <<sz_drv, boot, fsinfo, fats, root, mk, pc, FatFs, fs, made, cut, lostInfo>>
    BY Zenon, <1>2 DEF vars, dvars, mvars, hvars
  <2> QED
    BY Zenon, <2>1 DEF FormatInv, Shapes, Laid, OnDrive, Written, TakesMade, Installed, Informed,
       Writing, Mounted
<1> QED
  BY Zenon, <1>1, <1>2

-------------------------------------------------------------------------------
(* The theorems                                                             *)

\* The inductive invariant.
LEMMA FormatAlways == Spec => []FormatInv
BY FormatInit, FormatNext, PTL DEF Spec

\* Whatever f_mkfs was given and whatever failed before, a volume it has
\* formatted, and that no later format cut short, is found and accepted by
\* mount_volume and read back as it was laid out.
THEOREM VolumeFormatMounts == Spec => []FormatMounts
<1>1. FormatInv => FormatMounts
  <2> SUFFICES ASSUME FormatInv, pc = "idle", made # Null, ~cut, made.n_clst > 0
               PROVE  \E s \in find_volume : Accepted(s, Geometry(s)) /\ Agrees(Geometry(s), made)
    BY Zenon DEF FormatMounts
  <2>1. ~Writing
    BY DEF Writing
  <2>2. GoodLayout(made, sz_drv) /\ Installed(made)
    BY Zenon, <2>1 DEF FormatInv, OnDrive, Laid
  <2>3. boot[made.b_vol] = Vbr(made) /\ (made.b_vol # 0 => boot[0] = Mbr)
    BY Zenon, <2>2 DEF Installed
  <2>4. find_volume = {made.b_vol}
    BY Zenon, <2>2, <2>3, VolumeFound
  <2>5. Agrees(Geometry(made.b_vol), made) /\ Accepted(made.b_vol, Geometry(made.b_vol))
    BY Zenon, <2>2, <2>3, VbrGeometry
  <2> QED
    BY Zenon, <2>4, <2>5
<1> QED
  BY <1>1, FormatAlways, PTL

\* While a format runs or is cut short on a blank partitioned drive nothing is
\* mounted, so that a mounted volume has all its FATs and its root directory.
THEOREM VolumeMountedComplete == Spec => []MountedComplete
<1>1. FormatInv => MountedComplete
  <2> SUFFICES ASSUME FormatInv, Mounted, ~cut
               PROVE  /\ fats = made /\ root = made /\ made # Null
                      /\ \/ fs[FatFs].free_clst = Null \/ lostInfo
                         \/ fs[FatFs].free_clst = made.n_clst - 1
    BY Zenon DEF MountedComplete
  <2>1. ~Writing
    BY Zenon DEF FormatInv, Laid, Writing
  <2>2. made # Null /\ (fs[FatFs].free_clst = Null \/ lostInfo
                        \/ fs[FatFs].free_clst = made.n_clst - 1)
    BY Zenon DEF FormatInv, TakesMade
  <2>3. Installed(made)
    BY Zenon, <2>1, <2>2 DEF FormatInv, OnDrive
  <2> QED
    BY Zenon, <2>2, <2>3 DEF Installed
<1> QED
  BY <1>1, FormatAlways, PTL

\* A FAT of f sectors that mount_volume finds large enough for n entries holds
\* the last byte of the last of them.
LEMMA LastEntry ==
  ASSUME NEW n \in Nat, n >= 2, NEW f \in Nat, NEW type \in {"FAT12", "FAT16", "FAT32"},
         Ceil(FatBytes(type, n), SS) <= f
  PROVE  (EntryByte(type, n - 1) + EntryBytes(type) - 1) \div SS < f
<1>1. CASE type = "FAT12"
  BY <1>1 DEF Ceil, FatBytes, SS, EntryByte, EntryBytes
<1>2. CASE type = "FAT16"
  BY <1>2 DEF Ceil, FatBytes, SS, EntryByte, EntryBytes
<1>3. CASE type = "FAT32"
  BY <1>3 DEF Ceil, FatBytes, SS, EntryByte, EntryBytes
<1> QED
  BY <1>1, <1>2, <1>3

\* The areas of a mounted volume.
THEOREM VolumeAreasFit == Spec => []AreasFit
<1>1. FormatInv => AreasFit
  <2> SUFFICES ASSUME FormatInv, Mounted, ~cut PROVE AreasFit
    BY Zenon DEF AreasFit
  <2> DEFINE g == fs[FatFs]
             l == made
  <2>1. l # Null /\ Agrees(g, l) /\ g.n_rootdir = l.n_root
    BY Zenon DEF FormatInv, TakesMade
  <2>2. GoodLayout(l, sz_drv)
    BY Zenon, <2>1 DEF FormatInv, Laid
  <2> HIDE DEF g, l
  <2>3. /\ g.fs_type = l.fsty /\ g.n_fatent = l.n_clst + 2 /\ g.csize = l.pau
        /\ g.fsize = l.sz_fat /\ g.n_fats = l.n_fat /\ g.volbase = l.b_vol
        /\ g.fatbase = l.b_vol + l.sz_rsv
        /\ g.database = l.b_vol + l.sz_rsv + l.n_fat * l.sz_fat + l.sz_dir
        /\ g.dirbase = IF l.fsty = "FAT32" THEN 2 ELSE g.database - l.sz_dir
    BY Zenon, <2>1 DEF Agrees
  <2>4. /\ l.fsty \in {"FAT12", "FAT16", "FAT32"} /\ l.b_vol \in Nat /\ l.sz_vol \in Nat
        /\ l.pau \in Nat /\ l.n_fat \in 1 .. 2 /\ l.n_root \in Nat /\ l.sz_rsv \in Nat
        /\ l.sz_fat \in Nat /\ l.sz_dir \in Nat /\ l.n_clst \in Nat
        /\ l.sz_fat * l.n_fat \in Nat /\ System(l) \in Nat
    BY <2>2, LayoutFields
  <2>5. /\ l.sz_rsv >= 1 /\ l.pau \in AuSizes
        /\ l.fsty # "FAT32" => l.sz_dir = l.n_root \div 16
        /\ System(l) <= l.sz_vol /\ l.n_clst = (l.sz_vol - System(l)) \div l.pau
        /\ Ceil(FatBytes(l.fsty, l.n_clst + 2), SS) <= l.sz_fat
        /\ (l.b_vol + System(l)) % l.sz_blk = 0 /\ l.b_vol + l.sz_vol = sz_drv
    BY <2>2 DEF GoodLayout, Extent
  <2>6. l.n_fat * l.sz_fat = l.sz_fat * l.n_fat /\ l.n_fat * l.sz_fat \in Nat
    BY <2>4
  <2>7. g.database = l.b_vol + System(l)
    BY <2>3, <2>4, <2>6 DEF System
  <2>8. (EntryByte(g.fs_type, g.n_fatent - 1) + EntryBytes(g.fs_type) - 1) \div SS < g.fsize
    <3>1. l.n_clst + 2 \in Nat /\ l.n_clst + 2 >= 2
      BY <2>4
    <3>2. Ceil(FatBytes(l.fsty, l.n_clst + 2), SS) <= l.sz_fat
      BY <2>5
    <3> QED
      BY Zenon, <2>3, <2>4, <3>1, <3>2, LastEntry
  <2>9. g.volbase < g.fatbase /\ g.fatbase + g.n_fats * g.fsize <= g.database
    BY <2>3, <2>4, <2>5, <2>6
  <2>10. g.fs_type # "FAT32" =>
           /\ g.dirbase = g.fatbase + g.n_fats * g.fsize
           /\ g.dirbase + (g.n_rootdir * SZDIRE) \div SS = g.database
    <3>1. (l.n_root * SZDIRE) \div SS = l.n_root \div 16
      BY <2>4 DEF SZDIRE, SS
    <3> QED
      BY <2>1, <2>3, <2>4, <2>5, <2>6, <3>1
  <2>11. g.database + (g.n_fatent - 2) * g.csize <= sz_drv
    <3>1. l.sz_vol - System(l) \in Nat
      BY <2>4, <2>5
    <3>2. l.n_clst * l.pau <= l.sz_vol - System(l) /\ l.n_clst * l.pau \in Nat
      <4>1. l.n_clst = (l.sz_vol - System(l)) \div l.pau /\ l.pau \in AuSizes
        BY <2>5
      <4>2. l.n_clst * l.pau <= l.sz_vol - System(l)
        BY Zenon, <3>1, <4>1, Quotient
      <4> QED
        BY <2>4, <4>2
    <3>3. (g.n_fatent - 2) * g.csize = l.n_clst * l.pau
      BY <2>3, <2>4
    <3> QED
      BY <2>4, <2>5, <2>7, <3>2, <3>3
  <2>12. g.database % l.sz_blk = 0
    BY <2>5, <2>7
  <2> QED
    BY Zenon, <2>8, <2>9, <2>10, <2>11, <2>12 DEF AreasFit, g, l
<1> QED
  BY <1>1, FormatAlways, PTL
===============================================================================
