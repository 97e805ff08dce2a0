----------------------------- MODULE SectorWindow -----------------------------
(***************************************************************************)
(* The disk access window of FatFs (ff.c built with FF_FS_TINY = 1): one   *)
(* sector buffer, win, shared by the FAT, the directories and all file     *)
(* data of a volume, written back lazily, next to the transfers of f_read  *)
(* and f_write that bypass it.  Two copies of the FAT are kept in step by  *)
(* sync_window.  Every disk call may be refused (MayFail), in which case   *)
(* the disk is left as it was, as disk_write of diskio_fuzz.c does.        *)
(***************************************************************************)
EXTENDS Integers

CONSTANTS
  NSect,      \* sectors on the disk
  FatBase,    \* fs->fatbase: first sector of the first FAT
  FSize,      \* fs->fsize: sectors per FAT
  NFats,      \* fs->n_fats
  DataBase,   \* fs->database
  CSize,      \* fs->csize: sectors per cluster
  SS,         \* bytes per sector
  Val,        \* byte values
  Zero,       \* the byte memset writes
  Fat32,      \* the volume is FAT32 and has an FSInfo sector
  NoSect,     \* (LBA_t)0 - 1: the window holds no sector
  MayFail     \* disk calls may be refused

VARIABLES
  disk,       \* sector contents on the medium
  win,        \* fs->win
  winsect,    \* fs->winsect
  wflag,      \* fs->wflag
  fsi_flag,   \* fs->fsi_flag
  dropped,    \* history: sectors whose last write was refused and is not kept
  last        \* the last operation: what it may change, and its result

vars == <<disk, win, winsect, wflag, fsi_flag, dropped, last>>

Sectors == 0 .. NSect - 1
Off     == 0 .. SS - 1
Content == [Off -> Val]
Blank   == [o \in Off |-> Zero]

FsInfo  == 1
Fat1    == FatBase .. FatBase + FSize - 1
Fat2    == IF NFats = 2 THEN FatBase + FSize .. FatBase + 2 * FSize - 1 ELSE {}
Visible == Sectors \ Fat2
DataSectors == DataBase .. NSect - 1

(* The geometry mount_volume accepts for a volume that fits its disk, with  *)
(* the FSInfo sector of FAT32 in the reserved area.                         *)
ASSUME Geometry ==
  /\ NSect \in Nat /\ FatBase \in Nat /\ FSize \in Nat /\ DataBase \in Nat
  /\ CSize \in Nat \ {0} /\ SS \in Nat \ {0} /\ NFats \in {1, 2}
  /\ FatBase >= 1 /\ (Fat32 => FatBase > FsInfo)
  /\ FatBase + NFats * FSize <= DataBase /\ DataBase < NSect
  /\ NoSect \notin Sectors
  /\ Zero \in Val
  /\ Fat32 \in BOOLEAN /\ MayFail \in BOOLEAN

(* The top sectors of the clusters, clst2sect of the valid cluster numbers. *)
ClusterTops == {s \in DataSectors : (s - DataBase) % CSize = 0 /\ s + CSize <= NSect}

-----------------------------------------------------------------------------
(* The answers of the disk during one operation: w to the write-back of    *)
(* the window, m to the write of the second FAT, x to the transfer that    *)
(* follows.                                                                *)
Answer  == IF MayFail THEN {"RES_OK", "RES_ERROR"} ELSE {"RES_OK"}
Answers == [w : Answer, m : Answer, x : Answer]

(* Definitions named X_f are faulty variants of X: slips the properties     *)
(* below are there to notice.                                               *)
Mirrors_f == NFats = 2 /\ winsect \in FatBase + 1 .. FatBase + FSize

(* sync_window: the sectors it writes, the disk it leaves, whether it       *)
(* succeeds.  The result of the write to the second FAT is ignored.         *)
Mirrors == NFats = 2 /\ winsect \in Fat1

sync_targets(e) ==
  IF wflag = 0 THEN {}
  ELSE {winsect} \cup (IF Mirrors /\ e.m = "RES_OK" THEN {winsect + FSize} ELSE {})

sync_disk(e) == [s \in Sectors |-> IF s \in sync_targets(e) THEN win ELSE disk[s]]

sync_dropped(e) ==
  (dropped \ sync_targets(e))
    \cup (IF wflag = 1 /\ Mirrors /\ e.m # "RES_OK" THEN {winsect + FSize} ELSE {})

sync_ok(e) == wflag = 0 \/ e.w = "RES_OK"

(* What a caller gets to see: the window where it holds the sector.         *)
view == [s \in Visible |-> IF s = winsect THEN win ELSE disk[s]]

f_read_direct_f(s) == disk[s]

(* f_read of whole sectors: read from the disk, patched from a dirty window. *)
f_read_direct(s) == IF wflag = 1 /\ s = winsect THEN win ELSE disk[s]

Patches == UNION {[D -> Val] : D \in (SUBSET Off) \ {{}}}
HeadPatches == UNION {[0 .. k - 1 -> Val] : k \in 1 .. SS - 1}
Patched(c, p) == [o \in Off |-> IF o \in DOMAIN p THEN p[o] ELSE c[o]]

Result(op, S, res) == [op |-> op, at |-> S, res |-> res]

(* An operation abandoned before it changed anything. *)
Refused(op) ==
  /\ last' = Result(op, {}, "FR_DISK_ERR")
  /\ UNCHANGED <<disk, win, winsect, wflag, fsi_flag, dropped>>

(* move_window to another sector whose read is refused after a successful   *)
(* write-back: the window is invalidated, its bytes are whatever they are.  *)
MoveFails(op, e) ==
  /\ disk' = sync_disk(e) /\ dropped' = sync_dropped(e)
  /\ win' \in Content /\ winsect' = NoSect /\ wflag' = 0
  /\ last' = Result(op, {}, "FR_DISK_ERR")
  /\ UNCHANGED fsi_flag

-----------------------------------------------------------------------------
Access_f(s, e) ==
  /\ win' = (IF s = winsect THEN win ELSE disk[s]) /\ winsect' = s
  /\ wflag' = IF s = winsect THEN wflag ELSE 0
  /\ last' = Result("read", {}, "FR_OK")
  /\ UNCHANGED <<disk, dropped, fsi_flag>>

(* move_window(s) by a caller that only looks at the sector (get_fat,       *)
(* dir_read, dir_find, f_read of part of a sector).                         *)
Access(s, e) ==
  \/ /\ s = winsect
     /\ last' = Result("read", {}, "FR_OK")
     /\ UNCHANGED <<disk, win, winsect, wflag, fsi_flag, dropped>>
  \/ s # winsect /\ ~sync_ok(e) /\ Refused("read")
  \/ s # winsect /\ sync_ok(e) /\ e.x # "RES_OK" /\ MoveFails("read", e)
  \/ /\ s # winsect /\ sync_ok(e) /\ e.x = "RES_OK"
     /\ disk' = sync_disk(e) /\ dropped' = sync_dropped(e)
     /\ win' = disk'[s] /\ winsect' = s /\ wflag' = 0
     /\ last' = Result("read", {}, "FR_OK")
     /\ UNCHANGED fsi_flag

Modify_f(s, p, alloc, e) ==
  /\ s = winsect
  /\ win' = Patched(win, p) /\ winsect' = s /\ wflag' = 1
  /\ fsi_flag' = IF alloc THEN fsi_flag + 1 ELSE fsi_flag
  /\ last' = Result("modify", {s}, "FR_OK")
  /\ UNCHANGED <<disk, dropped>>

(* move_window(s), some bytes of the sector replaced, wflag = 1: put_fat,   *)
(* dir_register, dir_remove, f_sync, f_write inside a sector, ...; alloc    *)
(* when create_chain or remove_chain also sets fsi_flag |= 1.               *)
Modify(s, p, alloc, e) ==
  \/ s # winsect /\ ~sync_ok(e) /\ Refused("modify")
  \/ s # winsect /\ sync_ok(e) /\ e.x # "RES_OK" /\ MoveFails("modify", e)
  \/ /\ s = winsect \/ (sync_ok(e) /\ e.x = "RES_OK")
     /\ IF s = winsect
        THEN /\ win' = Patched(win, p)
             /\ UNCHANGED <<disk, dropped>>
        ELSE /\ disk' = sync_disk(e) /\ dropped' = sync_dropped(e)
             /\ win' = Patched(disk'[s], p)
     /\ winsect' = s /\ wflag' = 1
     /\ fsi_flag' = IF alloc /\ fsi_flag \in {0, 128} THEN fsi_flag + 1 ELSE fsi_flag
     /\ last' = Result("modify", {s}, "FR_OK")

WriteHead_f(fsect, s, p, grow, e) ==
  /\ grow
  /\ win' = Patched(win, p) /\ winsect' = s /\ wflag' = 1
  /\ last' = Result("f_write", {s}, "FR_OK")
  /\ UNCHANGED <<disk, dropped, fsi_flag>>

(* f_write of less than a sector, starting on a sector boundary.  fsect is  *)
(* fp->sect, flushed first if the window holds it; grow when the pointer is *)
(* at or past the end of the file: the window is then moved to the sector   *)
(* without loading it.                                                      *)
WriteHead(fsect, s, p, grow, e) ==
  LET flush == winsect = fsect \/ grow \/ s # winsect
      load  == ~grow /\ s # winsect
  IN \/ flush /\ ~sync_ok(e) /\ Refused("f_write")
     \/ load /\ sync_ok(e) /\ e.x # "RES_OK" /\ MoveFails("f_write", e)
     \/ /\ flush => sync_ok(e)
        /\ load => e.x = "RES_OK"
        /\ IF flush THEN disk' = sync_disk(e) /\ dropped' = sync_dropped(e)
                    ELSE UNCHANGED <<disk, dropped>>
        /\ win' = Patched(IF load THEN disk'[s] ELSE win, p)
        /\ winsect' = s /\ wflag' = 1
        /\ last' = Result("f_write", {s}, "FR_OK")
        /\ UNCHANGED fsi_flag

WriteThrough_f(fsect, f, e) ==
  /\ disk' = [s \in Sectors |-> IF s \in DOMAIN f THEN f[s] ELSE disk[s]]
  /\ dropped' = dropped \ DOMAIN f
  /\ last' = Result("f_write", DOMAIN f, "FR_OK")
  /\ UNCHANGED <<win, winsect, wflag, fsi_flag>>

(* f_write of whole sectors, f, inside one cluster: written past the window, *)
(* which is refilled and cleaned if it holds one of them.                    *)
WriteThrough(fsect, f, e) ==
  LET flush == winsect = fsect
      disk1 == IF flush THEN sync_disk(e) ELSE disk
      drop1 == IF flush THEN sync_dropped(e) ELSE dropped
      flag1 == IF flush THEN 0 ELSE wflag
  IN \/ flush /\ ~sync_ok(e) /\ Refused("f_write")
     \/ /\ flush => sync_ok(e)
        /\ e.x # "RES_OK"
        /\ disk' = disk1 /\ dropped' = drop1 /\ wflag' = flag1
        /\ last' = Result("f_write", {}, "FR_DISK_ERR")
        /\ UNCHANGED <<win, winsect, fsi_flag>>
     \/ /\ flush => sync_ok(e)
        /\ e.x = "RES_OK"
        /\ disk' = [s \in Sectors |-> IF s \in DOMAIN f THEN f[s] ELSE disk1[s]]
        /\ dropped' = drop1 \ DOMAIN f
        /\ IF winsect \in DOMAIN f THEN win' = f[winsect] /\ wflag' = 0
                                   ELSE wflag' = flag1 /\ UNCHANGED win
        /\ last' = Result("f_write", DOMAIN f, "FR_OK")
        /\ UNCHANGED <<winsect, fsi_flag>>

(* dir_clear of the cluster at sector s; the n-th write is refused (none if *)
(* n = CSize).  The window is left on s, clean, zero.                       *)
DirClear(s, n, e) ==
  \/ ~sync_ok(e) /\ Refused("dir_clear")
  \/ /\ sync_ok(e)
     /\ n = CSize \/ MayFail
     /\ disk' = [t \in Sectors |-> IF t \in s .. s + n - 1 THEN Blank ELSE sync_disk(e)[t]]
     /\ dropped' = (sync_dropped(e) \ (s .. s + n - 1)) \cup (s + n .. s + CSize - 1)
     /\ win' = Blank /\ winsect' = s /\ wflag' = 0
     /\ last' = Result("dir_clear", s .. s + CSize - 1, IF n = CSize THEN "FR_OK" ELSE "FR_DISK_ERR")
     /\ UNCHANGED fsi_flag

SyncResult(c) == IF c = "RES_OK" THEN "FR_OK" ELSE "FR_DISK_ERR"

SyncFs_f(info, c, e) ==
  /\ last' = Result("sync_fs", {}, SyncResult(c))
  /\ UNCHANGED <<disk, win, winsect, wflag, fsi_flag, dropped>>

(* sync_fs: write-back, FSInfo (info) on FAT32 if the allocation changed,   *)
(* CTRL_SYNC (answer c).  The result of the FSInfo write is ignored.        *)
SyncFs(info, c, e) ==
  \/ ~sync_ok(e) /\ Refused("sync_fs")
  \/ /\ sync_ok(e)
     /\ fsi_flag' = IF fsi_flag = 1 THEN 0 ELSE fsi_flag
     /\ wflag' = 0
     /\ IF fsi_flag = 1 /\ Fat32
        THEN /\ win' = info /\ winsect' = FsInfo
             /\ disk' = IF e.x = "RES_OK" THEN [sync_disk(e) EXCEPT ![FsInfo] = info] ELSE sync_disk(e)
             /\ dropped' = IF e.x = "RES_OK" THEN sync_dropped(e) \ {FsInfo} ELSE sync_dropped(e) \cup {FsInfo}
             /\ last' = Result("sync_fs", {FsInfo}, SyncResult(c))
        ELSE /\ disk' = sync_disk(e) /\ dropped' = sync_dropped(e)
             /\ last' = Result("sync_fs", {}, SyncResult(c))
             /\ UNCHANGED <<win, winsect>>

(* mount_volume after a power loss or an f_mount: check_fs discards the     *)
(* window, dirty or not, and loads the boot sector; on FAT32 FSInfo is      *)
(* loaded after it, and maintained only if that succeeds.  A mount whose    *)
(* read of the boot sector is refused leaves no volume to work on until     *)
(* the next one, which starts like it; it is no step of its own.            *)
Mount(e) ==
  /\ IF Fat32 /\ e.x # "RES_OK" THEN winsect' = NoSect /\ win' \in Content
     ELSE winsect' = (IF Fat32 THEN FsInfo ELSE 0) /\ win' = disk[winsect']
  /\ wflag' = 0
  /\ fsi_flag' = IF Fat32 /\ e.x = "RES_OK" THEN 0 ELSE 128
  /\ last' = Result("mount", IF wflag = 1 THEN {winsect} ELSE {}, "FR_OK")
  /\ UNCHANGED <<disk, dropped>>

Runs == {r \in SUBSET DataSectors : \E s \in ClusterTops, a, b \in 0 .. CSize - 1 :
           a <= b /\ r = s + a .. s + b}

(* fp->sect: what matters of it is whether the window holds it. *)
FileSect == (DataSectors \cup {0}) \cap {0, winsect}

Init ==
  /\ disk \in [Sectors -> Content]
  /\ \A s \in Fat1 : NFats = 2 => disk[s + FSize] = disk[s]
  /\ winsect = (IF Fat32 THEN FsInfo ELSE 0)
  /\ win = disk[winsect] /\ wflag = 0
  /\ fsi_flag = (IF Fat32 THEN 0 ELSE 128)
  /\ dropped = {}
  /\ last = Result("mount", {}, "FR_OK")

(* Nothing but sync_fs writes in the reserved area. *)
Writable == Visible \ (0 .. FatBase - 1)

(* One operation, with the answers e of the disk. *)
Op(e) ==
  \/ \E s \in Visible : Access(s, e)
  \/ \E s \in Writable, p \in Patches : \E alloc \in {FALSE, (s \in Fat1)} : Modify(s, p, alloc, e)
  \/ \E fs \in FileSect, s \in DataSectors, p \in HeadPatches, grow \in BOOLEAN :
       WriteHead(fs, s, p, grow, e)
  \/ \E fs \in FileSect, r \in Runs : \E f \in [r -> Content] : WriteThrough(fs, f, e)
  \/ \E s \in ClusterTops, n \in 0 .. CSize : DirClear(s, n, e)
  \/ \E info \in Content, c \in Answer : SyncFs(info, c, e)
  \/ Mount(e)

(* The answers to the calls that are made: a clean window is not written     *)
(* back, and only a sector of the first FAT is written twice.                *)
Given ==
  {e \in Answers : /\ wflag = 0 => e.w = "RES_OK"
                   /\ wflag = 0 \/ ~Mirrors => e.m = "RES_OK"}

Next == \E e \in Given : Op(e)

Spec == Init /\ [][Next]_vars
-----------------------------------------------------------------------------
(* The fields of the FATFS object keep their types: the window is never     *)
(* moved to the second FAT and fsi_flag has no value but its two bits.      *)
TypeOK ==
  /\ disk \in [Sectors -> Content]
  /\ win \in Content
  /\ winsect \in Visible \cup {NoSect}
  /\ wflag \in {0, 1}
  /\ fsi_flag \in {0, 1, 128, 129}
  /\ dropped \in SUBSET Sectors
  /\ last \in [op : {"read", "modify", "f_write", "dir_clear", "sync_fs", "mount"},
               at : SUBSET Sectors, res : {"FR_OK", "FR_DISK_ERR"}]

(* A clean window shows what the disk holds, so that move_window may skip   *)
(* the read and a whole-sector f_read may skip the window.  The exception   *)
(* is a sector whose write was refused and not kept: dir_clear and the      *)
(* FSInfo update of sync_fs.  A dirty one is never on a reserved sector or  *)
(* on the second FAT.                                                       *)
Coherent ==
  /\ wflag = 0 /\ winsect # NoSect /\ winsect \notin dropped => win = disk[winsect]
  /\ wflag = 1 => winsect \in Writable

(* The second FAT equals the first on the disk, but for the sectors whose   *)
(* copy was refused, a result sync_window ignores.                          *)
FatMirror ==
  NFats = 2 => \A s \in Fat1 : s + FSize \notin dropped => disk[s + FSize] = disk[s]

(* Whole-sector reads of f_read, which bypass the window, agree with        *)
(* partial ones, which go through it.                                       *)
ReadsAgree == \A s \in Visible \ dropped : f_read_direct(s) = view[s]

(* When sync_fs reports success nothing FatFs wrote is left only in memory. *)
SyncDurable ==
  last.op = "sync_fs" /\ last.res = "FR_OK" => \A s \in Visible \ dropped : disk[s] = view[s]

(* An operation changes no sector but those its caller named, even when it  *)
(* fails: no buffered write is lost or misdirected by moving the window.    *)
NoStrayWrite ==
  [][\A s \in Visible \ dropped : view'[s] # view[s] => s \in last'.at]_vars

LV == INSTANCE LogicalVolume WITH content <- view,
                                  durable <- [s \in Visible |-> disk[s]],
                                  Info <- IF Fat32 THEN FsInfo ELSE NoSect

(* While the disk refuses nothing, the window implements an array of        *)
(* sectors of which a power loss can make at most one out of date.          *)
ImplementsLogicalVolume == LV!Spec
=============================================================================
