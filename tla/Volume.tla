-------------------------------- MODULE Volume --------------------------------
(***************************************************************************)
(* The life of a volume in ff.c: f_mkfs lays it out and writes it, f_mount *)
(* and the functions that mount on demand find it and take its geometry    *)
(* from the boot sector, validate tells whether an object belongs to the   *)
(* current mount, and get_fat and put_fat reach the entries of the mounted *)
(* FAT.  Numbers are those of the code; a sector is 512 bytes.  Of the     *)
(* disk the model keeps the boot sectors, FSInfo, and which layout the     *)
(* FATs and the root directory were last completely cleared for.           *)
(***************************************************************************)
EXTENDS FatTable

CONSTANTS
  DriveSize,   \* sizes of the drive, in sectors
  Opt,         \* MKFS_PARM values f_mkfs is called with
  Fs,          \* FATFS objects of the application
  Null,        \* no object, no sector contents, no layout
  MaxFormats, MaxCalls,   \* calls of f_mkfs; of f_mkfs, f_mount and put_fat
  MayFail      \* disk calls may fail

ASSUME Kinds ==
  /\ DriveSize \subseteq Nat /\ Null \notin Fs /\ MayFail \in BOOLEAN
  /\ {MaxFormats, MaxCalls} \subseteq Nat
  /\ \A o \in Opt : /\ o.fmt \subseteq {"FAT", "FAT32"} /\ o.sfd \in BOOLEAN
                    /\ {o.n_fat, o.n_root, o.au_size, o.align} \subseteq Nat

VARIABLES
  sz_drv,      \* GET_SECTOR_COUNT
  boot,        \* contents of sectors 0 and 63: a VBR, an MBR or neither
  fsinfo,      \* free count in sectors 1 and 64, when they hold an FSInfo
  fats, root,  \* layout the FATs, the root directory were cleared for
  mk,          \* locals of the running f_mkfs
  pc,          \* where f_mkfs or put_fat is
  FatFs,       \* the FATFS registered for the volume
  fs,          \* the FATFS objects
  Fsid,        \* the mount counter
  obj,         \* an open object: its FATFS and mount ID
  fat,         \* bytes of the mounted FAT
  put,         \* the running put_fat
  ret,         \* what the last call returned
  formats, mounts, puts,   \* calls made
  made,        \* history: the layout of the last completed f_mkfs
  cut,         \* history: a format stopped half-way on a drive it may be seen on
  lostInfo     \* history: an FSInfo write of the last f_mkfs was refused

dvars == <<boot, fsinfo, fats, root>>
mvars == <<FatFs, fs, Fsid, obj, fat>>
hvars == <<made, cut, lostInfo>>
vars == <<sz_drv, dvars, mk, pc, mvars, put, ret, formats, mounts, puts, hvars>>

MAX_FAT12 == 4085
MAX_FAT16 == 65525
MAX_FAT32 == 268435445
N_SEC_TRACK == 63
SZDIRE == 32
FsidMod == 65536

\* A DWORD difference; one that wraps around is only compared with the limits
\* above after a division by at most 128.
Wrapped == 2147483647
Minus(a, b) == IF a < b THEN Wrapped ELSE a - b

Pow2 == {2 ^ k : k \in 0 .. 24}
Ceil(a, b) == (a + b - 1) \div b

\* The fields of a boot sector mount_volume looks at, of a partition table, and
\* of what f_mkfs decides on.
Vbrs ==
  [kind : {"vbr"}, fat32sig : BOOLEAN, SecPerClus : Nat, RsvdSecCnt : Nat, NumFATs : Nat,
   RootEntCnt : Nat, TotSec16 : Nat, TotSec32 : Nat, FATSz16 : Nat, FATSz32 : Nat,
   RootClus32 : Nat, FSInfo32 : Nat]
Mbrs == [kind : {"mbr"}, StLba : Nat]
Layouts ==
  [fsty : {"FAT12", "FAT16", "FAT32"}, b_vol : Nat, sz_vol : Nat, pau : Nat, n_fat : Nat,
   n_root : Nat, sz_rsv : Nat, sz_fat : Nat, sz_dir : Nat, n_clst : Nat, sz_blk : Nat,
   sfd : BOOLEAN]

ASSUME NullApart == Null \notin Vbrs \cup Mbrs \cup Layouts

-------------------------------------------------------------------------------
(* f_mkfs: the layout                                                       *)

\* Cluster size from a table of volume sizes: doubled for every entry passed
\* on the way to the first that is larger.
AutoSize(table, n) ==
  2 ^ (CHOOSE i \in 0 .. 6 : /\ \A j \in 1 .. i : table[j] <= n
                             /\ i < 6 => ~(table[i + 1] <= n))
cst == <<1, 4, 16, 64, 256, 512>>
cst32 == <<1, 2, 4, 8, 16, 32>>

\* The parameters after the tests at the start of f_mkfs.
Taken(o) ==
  LET au == IF o.au_size \in Pow2 THEN o.au_size \div SS ELSE 0
      vol == IF ~o.sfd /\ sz_drv > N_SEC_TRACK THEN N_SEC_TRACK ELSE 0
  IN [sfd |-> o.sfd, fat32 |-> "FAT32" \in o.fmt,
      n_fat |-> IF o.n_fat \in 1 .. 2 THEN o.n_fat ELSE 1,
      n_root |-> IF o.n_root >= 1 /\ o.n_root <= 32768 /\ o.n_root % (SS \div SZDIRE) = 0
                 THEN o.n_root ELSE 512,
      sz_blk |-> IF o.align \in Pow2 /\ o.align <= 32768 THEN o.align ELSE 1,
      sz_au |-> IF au > 128 THEN 128 ELSE au,
      b_vol |-> vol, sz_vol |-> sz_drv - vol,
      fsty |-> IF "FAT" \in o.fmt THEN "FAT16" ELSE "FAT32"]

\* The cluster size asked for, or else the one for a volume of this size.
ClusterSize(m) ==
  IF m.sz_au # 0 THEN m.sz_au
  ELSE IF m.fsty = "FAT32" THEN AutoSize(cst32, m.sz_vol \div 131072)
  ELSE AutoSize(cst, m.sz_vol \div 4096)

\* The FAT type and the bytes of a FAT for n clusters.
SubType(fsty, n) == IF fsty = "FAT32" \/ n > MAX_FAT12 THEN fsty ELSE "FAT12"

MkfsBytes(fsty, n) ==
  CASE fsty = "FAT32" -> n * 4 + 8
    [] fsty = "FAT16" -> n * 2 + 4
    [] fsty = "FAT12" -> (n * 3 + 1) \div 2 + 3

\* The first half of a turn of the sizing loop: sizes before the alignment.
Sized(m) ==
  LET is32 == m.fsty = "FAT32"
      n == m.sz_vol \div ClusterSize(m)
      fsty == SubType(m.fsty, n)
  IN [pau |-> ClusterSize(m), n |-> n, fsty |-> fsty,
      sz_fat |-> Ceil(MkfsBytes(fsty, n), SS),
      sz_rsv |-> IF is32 THEN 32 ELSE 1,
      sz_dir |-> IF is32 THEN 0 ELSE (m.n_root * SZDIRE) \div SS]

\* Where the data area would start before the alignment.
DataBase(m, s) == m.b_vol + s.sz_rsv + s.sz_fat * m.n_fat + s.sz_dir

\* Faulty variant: the remainder of an odd gap is not given to the reserved area.
Aligned_f(m, s) ==
  LET n == Ceil(DataBase(m, s), m.sz_blk) * m.sz_blk - DataBase(m, s)
  IN IF s.fsty = "FAT32" THEN [s EXCEPT !.sz_rsv = @ + n]
     ELSE [s EXCEPT !.sz_fat = @ + n \div m.n_fat]

\* The alignment of the data area: FAT32 moves the FAT, the others grow it.
Aligned(m, s) ==
  LET n == Ceil(DataBase(m, s), m.sz_blk) * m.sz_blk - DataBase(m, s)
      odd == n % m.n_fat
  IN IF s.fsty = "FAT32" THEN [s EXCEPT !.sz_rsv = @ + n]
     ELSE [s EXCEPT !.sz_rsv = @ + odd, !.sz_fat = @ + (n - odd) \div m.n_fat]

Clusters(m, s) ==
  Minus(m.sz_vol, s.sz_rsv + s.sz_fat * m.n_fat + s.sz_dir) \div s.pau

\* The volume is refused before its number of clusters is looked at.
TooSmall(m, s) ==
  \/ s.fsty = "FAT32" /\ (s.n <= MAX_FAT16 \/ s.n > MAX_FAT32)
  \/ m.sz_vol < DataBase(m, s) + s.pau * 16 - m.b_vol

\* The number of clusters does not suit the FAT type.
Unfit(s, n_clst) ==
  CASE s.fsty = "FAT32" -> n_clst <= MAX_FAT16
    [] s.fsty = "FAT16" -> n_clst > MAX_FAT16 \/ n_clst <= MAX_FAT12
    [] s.fsty = "FAT12" -> n_clst > MAX_FAT12

\* Faulty variant: the automatic choice is left in force.
Again_f(m, s, n_clst) ==
  IF s.fsty = "FAT32" /\ m.sz_au = 0 /\ s.pau >= 2 THEN {m} ELSE {}

\* The parameters of the next turn, if there is one.
Again(m, s, n_clst) ==
  LET au(a) == {[m EXCEPT !.sz_au = a]}
      free == m.sz_au = 0
  IN CASE s.fsty = "FAT32" -> IF free /\ s.pau >= 2 THEN au(s.pau \div 2) ELSE {}
       [] s.fsty = "FAT16" /\ n_clst > MAX_FAT16 ->
            IF free /\ s.pau * 2 <= 64 THEN au(s.pau * 2)
            ELSE IF m.fat32 THEN {[m EXCEPT !.fsty = "FAT32"]}
            ELSE IF free /\ s.pau * 2 <= 128 THEN au(s.pau * 2)
            ELSE {}
       [] s.fsty = "FAT16" /\ n_clst <= MAX_FAT12 ->
            IF free /\ s.pau * 2 <= 128 THEN au(s.pau * 2) ELSE {}
       [] OTHER -> {}

\* The layout f_mkfs goes on with.
Layout(m, s, n_clst) ==
  [fsty |-> s.fsty, b_vol |-> m.b_vol, sz_vol |-> m.sz_vol, pau |-> s.pau,
   n_fat |-> m.n_fat, n_root |-> IF s.fsty = "FAT32" THEN 0 ELSE m.n_root,
   sz_rsv |-> s.sz_rsv, sz_fat |-> s.sz_fat, sz_dir |-> s.sz_dir,
   n_clst |-> n_clst, sz_blk |-> m.sz_blk, sfd |-> m.sfd]

\* The sector after the FATs and the root directory of a layout.
EndOfRoot(l) ==
  l.b_vol + l.sz_rsv + l.n_fat * l.sz_fat
          + (IF l.fsty = "FAT32" THEN l.pau ELSE l.sz_dir)

\* Faulty variant: a volume of 65536 sectors is thought to fit 16 bits.
TotSec32_f(sz_vol) == IF sz_vol <= 65536 THEN 0 ELSE sz_vol

TotSec32(sz_vol) == IF sz_vol < 65536 THEN 0 ELSE sz_vol

\* The boot sector written for a layout.
Vbr(l) ==
  [kind |-> "vbr", fat32sig |-> l.fsty = "FAT32",
   SecPerClus |-> l.pau % 256, RsvdSecCnt |-> l.sz_rsv % 65536, NumFATs |-> l.n_fat,
   RootEntCnt |-> l.n_root % 65536,
   TotSec16 |-> IF l.sz_vol < 65536 THEN l.sz_vol ELSE 0,
   TotSec32 |-> TotSec32(l.sz_vol),
   FATSz16 |-> IF l.fsty = "FAT32" THEN 0 ELSE l.sz_fat % 65536,
   FATSz32 |-> IF l.fsty = "FAT32" THEN l.sz_fat ELSE 0,
   RootClus32 |-> 2, FSInfo32 |-> 1]

-------------------------------------------------------------------------------
(* f_mkfs: the calls to the disk                                            *)

Unmounted == [fs_type |-> "none"]

Quiet == UNCHANGED <<sz_drv, puts, put, mounts>>
MoreCalls == formats + mounts + puts < MaxCalls

\* f_mkfs is called: the registered object is invalidated, the parameters are
\* taken over or refused.
f_mkfs(o) ==
  /\ pc = "idle" /\ puts = 0 /\ formats < MaxFormats /\ MoreCalls
  /\ formats' = formats + 1
  /\ fs' = IF FatFs = Null THEN fs ELSE [fs EXCEPT ![FatFs] = Unmounted]
  /\ obj' = IF obj = Null THEN Null ELSE [obj EXCEPT !.fresh = FALSE]
  /\ fat' = Null
  /\ LET m == Taken(o)
     IN IF m.sz_vol < 128 THEN pc' = "idle" /\ mk' = Null /\ ret' = "mkfs_aborted"
        ELSE IF o.fmt = {} THEN pc' = "idle" /\ mk' = Null /\ ret' = "invalid_parameter"
        ELSE pc' = "size" /\ mk' = m /\ ret' = "none"
  /\ UNCHANGED <<dvars, FatFs, Fsid, hvars>> /\ Quiet

\* One turn of the sizing loop.
MkfsSize ==
  /\ pc = "size"
  /\ \E s \in {Sized(mk)} : \E a \in {Aligned(mk, s)} : \E n_clst \in {Clusters(mk, a)} :
     \E again \in {Again(mk, a, n_clst)} :
        \/ /\ TooSmall(mk, s) \/ (Unfit(a, n_clst) /\ again = {})
           /\ pc' = "idle" /\ mk' = Null /\ ret' = "mkfs_aborted"
        \/ /\ ~TooSmall(mk, s) /\ Unfit(a, n_clst)
           /\ mk' \in again
           /\ UNCHANGED <<pc, ret>>
        \/ /\ ~TooSmall(mk, s) /\ ~Unfit(a, n_clst)
           /\ mk' = Layout(mk, a, n_clst)
           /\ pc' = "vbr"
           /\ UNCHANGED ret
  /\ UNCHANGED <<dvars, mvars, formats, hvars>> /\ Quiet

\* Faulty variant: the partition table is written first.
MkfsVbr_f ==
  /\ pc = "vbr"
  /\ boot' = [s \in DOMAIN boot |->
                IF s = mk.b_vol THEN Vbr(mk) ELSE [kind |-> "mbr", StLba |-> N_SEC_TRACK]]
  /\ fats' = Null /\ root' = Null /\ lostInfo' = TRUE
  /\ pc' = "fats"
  /\ UNCHANGED <<fsinfo, mk, mvars, ret, formats, made, cut>> /\ Quiet

\* The boot sector, and on FAT32 the FSInfo sector, whose write is not checked.
MkfsVbr ==
  /\ pc = "vbr"
  /\ boot' = [boot EXCEPT ![mk.b_vol] = Vbr(mk)]
  /\ fats' = Null /\ root' = Null
  /\ \E refused \in {FALSE, MayFail} :
       LET done == mk.fsty = "FAT32" /\ ~refused
       IN /\ lostInfo' = ~done
          /\ fsinfo' = IF done THEN [fsinfo EXCEPT ![mk.b_vol + 1] = mk.n_clst - 1]
                               ELSE fsinfo
  /\ pc' = "fats"
  /\ UNCHANGED <<mk, mvars, ret, formats, made, cut>> /\ Quiet

\* The FATs, then the root directory, are cleared, and with them the sectors
\* of an older volume that lie there.
Clear(first, last) ==
  LET kept(f) == [s \in DOMAIN f |-> IF s \in first .. last THEN Null ELSE f[s]]
  IN boot' = kept(boot) /\ fsinfo' = kept(fsinfo)

FatArea == LET b_fat == mk.b_vol + mk.sz_rsv IN Clear(b_fat, b_fat + mk.n_fat * mk.sz_fat - 1)
RootArea == Clear(mk.b_vol + mk.sz_rsv + mk.n_fat * mk.sz_fat, EndOfRoot(mk) - 1)

MkfsFats ==
  /\ pc = "fats" /\ FatArea
  /\ fats' = mk /\ pc' = "root"
  /\ UNCHANGED <<root, mk, mvars, ret, formats, hvars>> /\ Quiet

MkfsRoot ==
  /\ pc = "root" /\ RootArea
  /\ root' = mk /\ pc' = "mbr"
  /\ UNCHANGED <<fats, mk, mvars, ret, formats, hvars>> /\ Quiet

\* A disk write of f_mkfs is refused, after some or none of the area it was
\* clearing; or power is lost, which leaves the same disk.
MkfsRefused ==
  /\ MayFail /\ pc \in {"vbr", "fats", "root", "mbr"}
  /\ \/ UNCHANGED <<boot, fsinfo>>
     \/ pc = "fats" /\ FatArea
     \/ pc = "root" /\ RootArea
  /\ pc' = "idle" /\ mk' = Null /\ ret' = "disk_err"
  /\ cut' = (cut \/ (pc # "vbr" /\ (mk.sfd \/ made # Null)))
  /\ UNCHANGED <<fats, root, mvars, formats, made, lostInfo>> /\ Quiet

\* create_partition for one partition, unless the volume is the whole drive.
MkfsMbr ==
  /\ pc = "mbr"
  /\ boot' = IF mk.sfd THEN boot
             ELSE [boot EXCEPT ![0] = [kind |-> "mbr", StLba |-> N_SEC_TRACK]]
  /\ made' = mk /\ cut' = FALSE
  /\ pc' = "idle" /\ mk' = Null /\ ret' = "ok"
  /\ UNCHANGED <<fsinfo, fats, root, mvars, formats, lostInfo>> /\ Quiet

-------------------------------------------------------------------------------
(* mount_volume                                                             *)

\* check_fs of a sector: 0 FAT VBR, 2 other boot sector, 3 neither.
check_fs(s) ==
  IF s = Null THEN 3
  ELSE IF s.kind = "mbr" THEN 2
  ELSE IF \/ s.fat32sig
          \/ /\ s.SecPerClus \in Pow2 /\ s.RsvdSecCnt # 0 /\ s.NumFATs \in 1 .. 2
             /\ s.RootEntCnt # 0 /\ s.FATSz16 # 0
             /\ s.TotSec16 >= 128 \/ s.TotSec32 >= 65536
       THEN 0 ELSE 2

\* find_volume: the sector of the volume, if any.
find_volume ==
  CASE check_fs(boot[0]) = 0 -> {0}
    [] check_fs(boot[0]) = 2 /\ boot[0].kind = "mbr" ->
         {s \in {boot[0].StLba} : check_fs(boot[s]) = 0}
    [] OTHER -> {}

\* The geometry mount_volume reads from a boot sector.
Geometry(bsect) ==
  LET b == boot[bsect]
      fsize == IF b.FATSz16 # 0 THEN b.FATSz16 ELSE b.FATSz32
      tsect == IF b.TotSec16 # 0 THEN b.TotSec16 ELSE b.TotSec32
      sysect == b.RsvdSecCnt + fsize * b.NumFATs + (b.RootEntCnt \div (SS \div SZDIRE))
      nclst == IF tsect < sysect THEN 0 ELSE (tsect - sysect) \div b.SecPerClus
      type == IF nclst <= MAX_FAT12 THEN "FAT12"
              ELSE IF nclst <= MAX_FAT16 THEN "FAT16" ELSE "FAT32"
  IN [fs_type |-> type, n_fatent |-> nclst + 2, csize |-> b.SecPerClus, fsize |-> fsize,
      n_fats |-> b.NumFATs, n_rootdir |-> b.RootEntCnt, volbase |-> bsect,
      fatbase |-> bsect + b.RsvdSecCnt, database |-> bsect + sysect,
      dirbase |-> IF type = "FAT32" THEN b.RootClus32
                  ELSE bsect + b.RsvdSecCnt + fsize * b.NumFATs,
      free_clst |-> Null, id |-> 0]

\* Bytes a FAT of n entries takes.
FatBytes(type, n) ==
  CASE type = "FAT12" -> (n * 3) \div 2 + (n % 2)
    [] type = "FAT16" -> n * 2
    [] type = "FAT32" -> n * 4

\* The tests mount_volume makes of the geometry.
Accepted(bsect, g) ==
  /\ boot[bsect].NumFATs \in 1 .. 2 /\ g.csize \in Pow2
  /\ g.n_rootdir % (SS \div SZDIRE) = 0 /\ boot[bsect].RsvdSecCnt # 0
  /\ g.n_fatent > 2 /\ g.n_fatent - 2 <= MAX_FAT32
  /\ (g.fs_type = "FAT32") <=> (g.n_rootdir = 0)
  /\ g.fsize >= Ceil(FatBytes(g.fs_type, g.n_fatent), SS)

\* Clusters whose entries are looked at: the first ones, those around the end
\* of the first FAT sector, and the last ones.
Probe(g) ==
  LET edge == CASE g.fs_type = "FAT12" -> 340 .. 342
                [] g.fs_type = "FAT16" -> 255 .. 256
                [] g.fs_type = "FAT32" -> 127 .. 128
  IN ({2, 3, g.n_fatent - 1} \cup edge) \cap 2 .. g.n_fatent - 1

\* A FAT as f_mkfs leaves it, at the entries of Probe.
CleanFat(g) ==
  LET bytes == UNION {EntryByte(g.fs_type, c) .. EntryByte(g.fs_type, c)
                      + EntryBytes(g.fs_type) - 1 : c \in Probe(g)}
  IN [b \in bytes |-> IF g.fs_type # "FAT32" \/ b \notin 8 .. 11 THEN 0
                      ELSE IF b = 11 THEN 15 ELSE 255]

\* mount_volume on the FATFS f, after f_mount has registered it or when a
\* function finds it not mounted.  The FSInfo sector that cannot be read is
\* done without.
mount_volume(f, reg) ==
  \/ /\ reg[f].fs_type # "none"
     /\ fs' = reg /\ ret' = "ok"
     /\ UNCHANGED <<Fsid, fat>>
  \/ /\ reg[f].fs_type = "none" /\ MayFail
     /\ fs' = reg /\ ret' = "disk_err"
     /\ UNCHANGED <<Fsid, fat>>
  \/ /\ reg[f].fs_type = "none"
     /\ \A s \in find_volume : ~Accepted(s, Geometry(s))
     /\ fs' = reg /\ ret' = "no_filesystem"
     /\ UNCHANGED <<Fsid, fat>>
  \/ /\ reg[f].fs_type = "none"
     /\ Fsid' = (Fsid + 1) % FsidMod
     /\ \E s \in find_volume, info \in {TRUE, ~MayFail} :
          LET g == Geometry(s)
              free == IF g.fs_type = "FAT32" /\ info THEN fsinfo[s + 1] ELSE Null
          IN /\ Accepted(s, g)
             /\ fs' = [reg EXCEPT ![f] = [g EXCEPT !.free_clst = free, !.id = Fsid']]
             /\ fat' = IF fats = Null THEN Null ELSE CleanFat(g)
     /\ ret' = "ok"

-------------------------------------------------------------------------------
(* The calls of the application                                             *)

Forgotten(o) == IF o = Null THEN Null ELSE [o EXCEPT !.fresh = FALSE]

\* Faulty variant: the object that is registered already is left as it is.
Registered_f(f) ==
  [g \in Fs |-> IF g \in {FatFs} \ {f} THEN Unmounted ELSE fs[g]]

\* The FATFS objects after f_mount has replaced the registered one by f.
Registered(f) == [g \in Fs |-> IF g \in {FatFs, f} THEN Unmounted ELSE fs[g]]

f_mount(f, opt) ==
  /\ pc = "idle" /\ puts = 0 /\ MoreCalls
  /\ mounts' = mounts + 1
  /\ FatFs' = f /\ obj' = Forgotten(obj)
  /\ \/ /\ opt = 0
        /\ fs' = Registered(f) /\ fat' = Null /\ ret' = "ok"
        /\ UNCHANGED Fsid
     \/ /\ opt = 1 /\ f = Null
        /\ fs' = Registered(f) /\ fat' = Null /\ ret' = "not_enabled"
        /\ UNCHANGED Fsid
     \/ opt = 1 /\ f # Null /\ mount_volume(f, Registered(f))
  /\ UNCHANGED <<sz_drv, dvars, mk, pc, put, formats, puts, hvars>>

\* A function that is given a path: it mounts on demand and, when it opens an
\* object, ties the object to the mount.
Call(opens) ==
  /\ pc = "idle" /\ puts = 0
  /\ \/ FatFs = Null /\ ret' = "not_enabled" /\ UNCHANGED <<fs, Fsid, fat>>
     \/ FatFs # Null /\ mount_volume(FatFs, fs)
  /\ obj' = IF ~opens THEN obj
            ELSE IF ret' # "ok" THEN Null
            ELSE [fs |-> FatFs, id |-> fs'[FatFs].id, fresh |-> TRUE]
  /\ UNCHANGED <<sz_drv, dvars, mk, pc, FatFs, put, formats, mounts, puts, hvars>>

\* Whether a function that is given an object goes on with it.
validate(o) ==
  /\ o # Null
  /\ fs[o.fs].fs_type # "none" /\ o.id = fs[o.fs].id

\* put_fat, up to its second call of move_window.
put_fat(c, val) ==
  /\ pc = "idle" /\ MoreCalls /\ validate(obj) /\ fat # Null
  /\ LET g == fs[FatFs]
     IN \/ /\ c < 2 \/ c >= g.n_fatent
           /\ ret' = "int_err"
           /\ UNCHANGED <<fat, pc, put>>
        \/ /\ MayFail /\ ret' = "disk_err"
           /\ UNCHANGED <<fat, pc, put>>
        \/ /\ c \in Probe(g)
           /\ fat' = PutFirst(g.fs_type, fat, c, val)
           /\ put' = [clst |-> c, val |-> val] /\ pc' = "put"
           /\ UNCHANGED ret
  /\ puts' = puts + 1
  /\ UNCHANGED <<sz_drv, dvars, mk, FatFs, fs, Fsid, obj, formats, mounts, hvars>>

\* The rest of put_fat: the second move may fail when it leaves the sector.
put_fat_rest ==
  /\ pc = "put"
  /\ LET g == fs[FatFs]
         bc == EntryByte(g.fs_type, put.clst)
     IN \/ /\ MayFail /\ g.fs_type = "FAT12" /\ bc % SS = SS - 1
           /\ ret' = "disk_err"
           /\ UNCHANGED fat
        \/ /\ fat' = PutSecond(g.fs_type, fat, put.clst, put.val)
           /\ ret' = "ok"
  /\ pc' = "idle" /\ put' = Null
  /\ UNCHANGED <<sz_drv, dvars, mk, FatFs, fs, Fsid, obj, formats, mounts, puts, hvars>>

\* Values put_fat is given: a link and the end mark.
Links == {<<86, 3, 0, 0>>, <<255, 255, 255, 255>>}

Step == MkfsSize \/ MkfsVbr \/ MkfsFats \/ MkfsRoot \/ MkfsMbr \/ put_fat_rest

Next ==
  \/ \E o \in Opt : f_mkfs(o)
  \/ Step
  \/ MkfsRefused
  \/ \E f \in Fs \cup {Null}, opt \in 0 .. 1 : f_mount(f, opt)
  \/ \E opens \in BOOLEAN : Call(opens)
  \/ \E val \in Links :
       \E c \in {1} \cup (IF validate(obj) THEN Probe(fs[FatFs]) \cup {fs[FatFs].n_fatent}
                                          ELSE {}) : put_fat(c, val)

Init ==
  /\ sz_drv \in DriveSize
  /\ boot = [s \in {0, N_SEC_TRACK} |-> Null]
  /\ fsinfo = [s \in {1, N_SEC_TRACK + 1} |-> Null]
  /\ fats = Null /\ root = Null /\ mk = Null /\ pc = "idle"
  /\ FatFs = Null /\ fs = [f \in Fs |-> Unmounted] /\ Fsid = 0 /\ obj = Null
  /\ fat = Null /\ put = Null /\ ret = "none"
  /\ formats = 0 /\ mounts = 0 /\ puts = 0
  /\ made = Null /\ cut = FALSE /\ lostInfo = FALSE

Spec == Init /\ [][Next]_vars /\ WF_vars(Step)

-------------------------------------------------------------------------------
(* What f_mkfs, f_mount, validate and put_fat promise                       *)

Mounted == FatFs # Null /\ fs[FatFs].fs_type # "none"

\* The geometry of a mounted volume is the layout f_mkfs chose.
Agrees(g, l) ==
  /\ g.fs_type = l.fsty /\ g.n_fatent = l.n_clst + 2 /\ g.csize = l.pau
  /\ g.fsize = l.sz_fat /\ g.n_fats = l.n_fat /\ g.volbase = l.b_vol
  /\ g.fatbase = l.b_vol + l.sz_rsv
  /\ g.database = l.b_vol + l.sz_rsv + l.n_fat * l.sz_fat + l.sz_dir
  /\ g.dirbase = IF l.fsty = "FAT32" THEN 2 ELSE g.database - l.sz_dir

\* What f_mkfs has formatted, mount_volume finds, accepts, and takes for a
\* volume of the same FAT type, cluster size, number of clusters and areas,
\* unless a later format was stopped half-way.  A volume without a single
\* cluster is left out: f_mkfs makes one where the alignment of the data area
\* eats up what its test for a too small volume had left.
FormatMounts ==
  pc = "idle" /\ made # Null /\ ~cut /\ made.n_clst > 0 =>
    \E s \in find_volume : Accepted(s, Geometry(s)) /\ Agrees(Geometry(s), made)

\* A mounted volume has cleared FATs and an empty root directory: a format that
\* stops half-way on a blank drive that gets a partition table is not seen,
\* because f_mkfs writes the table last.  The free count it starts with is
\* right, unless the FSInfo write f_mkfs does not check was refused.
MountedComplete ==
  Mounted /\ ~cut =>
    /\ fats = made /\ root = made /\ made # Null
    /\ fs[FatFs].free_clst = Null \/ lostInfo \/ fs[FatFs].free_clst = made.n_clst - 1

\* The FAT has room for the entry of every cluster below n_fatent, the root
\* directory and the data area follow it without overlap and end within the
\* drive, and the data area starts on a multiple of the block size.
AreasFit ==
  Mounted /\ ~cut =>
    LET g == fs[FatFs]
        last == EntryByte(g.fs_type, g.n_fatent - 1) + EntryBytes(g.fs_type) - 1
    IN /\ last \div SS < g.fsize
       /\ g.volbase < g.fatbase /\ g.fatbase + g.n_fats * g.fsize <= g.database
       /\ g.fs_type # "FAT32" =>
            /\ g.dirbase = g.fatbase + g.n_fats * g.fsize
            /\ g.dirbase + (g.n_rootdir * SZDIRE) \div SS = g.database
       /\ g.database + (g.n_fatent - 2) * g.csize <= sz_drv
       /\ g.database % made.sz_blk = 0

\* validate accepts no object from before the last f_mount or f_mkfs, as long
\* as the mount counter has not wrapped around in between.
StaleRefused == validate(obj) => obj.fresh

\* put_fat changes no entry but its own, also when the second half of a 12-bit
\* entry cannot be written, and get_fat then returns what was put.
FatOwnEntry ==
  [][fat # Null /\ fat' # Null /\ fat' # fat =>
       LET g == fs[FatFs]
           p == IF put # Null THEN put ELSE put'
       IN /\ \A c \in Probe(g) \ {p.clst} :
               get_fat(g.fs_type, fat', c) = get_fat(g.fs_type, fat, c)
          /\ ret' = "ok" /\ pc = "put" =>
               get_fat(g.fs_type, fat', p.clst) = Stored(g.fs_type, p.val)]_vars

\* f_mkfs ends: its search for a cluster size does not go round for ever.
FormatEnds == pc = "size" ~> pc = "idle"
===============================================================================
