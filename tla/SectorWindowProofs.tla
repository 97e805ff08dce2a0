-------------------------- MODULE SectorWindowProofs --------------------------
(***************************************************************************)
(* Proofs about the disk access window, for every geometry.                *)
(***************************************************************************)
EXTENDS SectorWindow, TLAPS

(* A leaf is tried with the SMT solver, then with Zenon, then with the SMT    *)
(* solver and more time, unless it names its prover.                          *)
USE SMTT(10), Zenon, SMTT(60)

(* The areas of the volume: both FATs lie on the disk, apart, behind the    *)
(* boot and FSInfo sectors and before the data.                             *)
LEMMA Areas ==
  /\ 0 \in Visible
  /\ Fat32 => FsInfo \in Visible /\ FsInfo \notin Writable
  /\ Fat1 \subseteq Visible /\ Fat2 \subseteq Sectors
  /\ Visible \subseteq Sectors /\ Writable \subseteq Visible
  /\ DataSectors \subseteq Writable /\ DataSectors \cap Fat1 = {}
  /\ NoSect \notin Visible
  /\ \A s \in Fat1 : NFats = 2 => s + FSize \in Fat2
BY Geometry DEF Visible, Sectors, FsInfo, Writable, Fat1, Fat2, DataSectors

(* A cluster lies in the data area.                                         *)
LEMMA ClusterInData ==
  ASSUME NEW s \in ClusterTops
  PROVE  s .. s + CSize - 1 \subseteq DataSectors /\ s \in DataSectors
BY Geometry DEF ClusterTops, DataSectors

(* What memset leaves in the window is a sector. *)
LEMMA BlankContent == Blank \in Content
BY Geometry DEF Blank, Content

(* Replacing bytes of a sector leaves a sector.                             *)
LEMMA PatchedContent ==
  ASSUME NEW c \in Content, NEW p \in Patches \cup HeadPatches
  PROVE  Patched(c, p) \in Content
<1>1. CASE p \in Patches
  BY <1>1 DEF Patched, Patches, Content
<1>2. CASE p \in HeadPatches
  BY <1>2 DEF Patched, HeadPatches, Content
<1> QED BY <1>1, <1>2

(* sync_window writes whole sectors of the disk.                            *)
LEMMA SyncDiskType ==
  ASSUME TypeOK, Coherent, NEW e \in Answers
  PROVE  /\ sync_disk(e) \in [Sectors -> Content]
         /\ sync_targets(e) \subseteq Sectors
         /\ sync_dropped(e) \subseteq Sectors
<1>1. wflag = 1 /\ Mirrors => winsect + FSize \in Sectors
  BY Areas DEF Mirrors
<1>2. wflag = 1 => winsect \in Sectors
  BY Areas DEF Coherent
<1>3. wflag # 0 => wflag = 1
  BY DEF TypeOK
<1>4. sync_targets(e) \subseteq Sectors
  BY <1>1, <1>2, <1>3 DEF sync_targets
<1>5. sync_dropped(e) \subseteq Sectors
  BY <1>1 DEF sync_dropped, TypeOK
<1>6. sync_disk(e) \in [Sectors -> Content]
  BY DEF sync_disk, TypeOK
<1> QED BY <1>4, <1>5, <1>6

(* sync_window keeps the two FATs equal on the disk, up to refused copies.  *)
LEMMA SyncMirror ==
  ASSUME TypeOK, Coherent, FatMirror, NEW e \in Answers, NFats = 2, NEW s \in Fat1,
         s + FSize \notin sync_dropped(e)
  PROVE  sync_disk(e)[s + FSize] = sync_disk(e)[s]
<1>1. s \in Sectors /\ s + FSize \in Sectors /\ s + FSize \notin Visible
  BY Areas DEF Visible
<1>2. winsect # s + FSize
  BY <1>1, Geometry, Areas DEF TypeOK
<1>3. CASE wflag = 0
  BY <1>1, <1>3 DEF sync_disk, sync_targets, sync_dropped, FatMirror
<1>4. CASE wflag = 1 /\ winsect = s
  <2>1. Mirrors
    BY <1>4 DEF Mirrors
  <2>2. e.m = "RES_OK"
    BY <1>4, <2>1 DEF sync_dropped
  <2>3. s \in sync_targets(e) /\ s + FSize \in sync_targets(e)
    BY <1>4, <2>1, <2>2 DEF sync_targets
  <2> QED BY <1>1, <2>3 DEF sync_disk
<1>5. CASE wflag = 1 /\ winsect # s
  <2>1. winsect \in Sectors
    BY <1>5, Areas DEF Coherent
  <2>2. winsect + FSize # s + FSize
    BY <1>1, <1>5, <2>1, Geometry DEF Sectors
  <2>3. Mirrors => winsect + FSize # s
    BY <1>1, Areas DEF Mirrors, Visible
  <2>4. s \notin sync_targets(e) /\ s + FSize \notin sync_targets(e)
    BY <1>2, <1>5, <2>2, <2>3 DEF sync_targets
  <2>5. s + FSize \notin dropped
    BY <2>4 DEF sync_dropped
  <2> QED BY <1>1, <2>4, <2>5 DEF sync_disk, FatMirror
<1> QED BY <1>3, <1>4, <1>5 DEF TypeOK

(* After sync_window every sector FatFs addresses is on the disk as its     *)
(* callers saw it, the ones already given up excepted; no other sector is   *)
(* given up.                                                                *)
LEMMA SyncView ==
  ASSUME TypeOK, Coherent, NEW e \in Answers, NEW s \in Visible
  PROVE  /\ s \notin dropped => sync_disk(e)[s] = view[s]
         /\ s \in sync_dropped(e) => s \in dropped
         /\ s # winsect => sync_disk(e)[s] = disk[s]
<1>1. s \in Sectors /\ s # NoSect
  BY Areas
<1>2. Mirrors => s # winsect + FSize
  BY Areas DEF Mirrors, Visible
<1>3. s \in sync_targets(e) <=> wflag = 1 /\ s = winsect
  BY <1>2 DEF sync_targets, TypeOK
<1> QED
  BY <1>1, <1>2, <1>3 DEF sync_disk, sync_dropped, view, Coherent, TypeOK

-----------------------------------------------------------------------------
(* The inductive invariant. *)
Inv == TypeOK /\ Coherent /\ FatMirror

Ops == {"read", "modify", "f_write", "dir_clear", "sync_fs", "mount"}

(* An operation abandoned at a failed write-back changes nothing. *)
LEMMA RefusedInv ==
  ASSUME Inv, NEW op \in Ops, Refused(op)
  PROVE  Inv'
<1>1. TypeOK'
  BY DEF Inv, TypeOK, Refused, Result, Ops
<1>2. Coherent' /\ FatMirror'
  BY DEF Inv, Coherent, FatMirror, Refused
<1> QED BY <1>1, <1>2 DEF Inv

(* What FatMirror of a step needs: outside the FAT area the disk may change *)
(* in any way, inside it only as sync_window changes it.                    *)
LEMMA MirrorStep ==
  ASSUME Inv, NEW e \in Answers,
         \/ \A s \in Fat1 \cup Fat2 :
              disk'[s] = sync_disk(e)[s] /\ (s \in sync_dropped(e) => s \in dropped')
         \/ \A s \in Fat1 \cup Fat2 : disk'[s] = disk[s] /\ (s \in dropped => s \in dropped')
  PROVE  FatMirror'
BY SyncMirror, Areas DEF Inv, FatMirror

(* move_window with a failed read leaves an invalid, clean window. *)
LEMMA MoveFailsInv ==
  ASSUME Inv, NEW op \in Ops, NEW e \in Answers, MoveFails(op, e)
  PROVE  Inv'
<1>1. TypeOK'
  BY SyncDiskType DEF Inv, TypeOK, MoveFails, Result, Ops
<1>2. Coherent'
  BY DEF Coherent, MoveFails
<1>3. FatMirror'
  BY MirrorStep DEF MoveFails
<1> QED BY <1>1, <1>2, <1>3 DEF Inv

(* Access keeps the invariant. *)
LEMMA AccessInv ==
  ASSUME Inv, NEW e \in Answers, NEW s \in Visible, Access(s, e)
  PROVE  Inv'
<1>1. CASE s = winsect
  <2>1. UNCHANGED <<disk, win, winsect, wflag, fsi_flag, dropped>> /\ last' = Result("read", {}, "FR_OK")
    BY <1>1 DEF Access
  <2>2. TypeOK'
    BY <2>1 DEF Inv, TypeOK, Result
  <2> QED BY <2>1, <2>2 DEF Inv, Coherent, FatMirror
<1>2. CASE Refused("read")
  BY <1>2, RefusedInv DEF Ops
<1>3. CASE MoveFails("read", e)
  BY <1>3, MoveFailsInv DEF Ops
<1>4. CASE /\ disk' = sync_disk(e) /\ dropped' = sync_dropped(e)
           /\ win' = disk'[s] /\ winsect' = s /\ wflag' = 0
           /\ last' = Result("read", {}, "FR_OK")
           /\ UNCHANGED fsi_flag
  <2>1. TypeOK'
    BY <1>4, SyncDiskType, Areas DEF Inv, TypeOK, Result
  <2>2. Coherent'
    BY <1>4 DEF Coherent
  <2>3. FatMirror'
    BY <1>4, MirrorStep
  <2> QED BY <2>1, <2>2, <2>3 DEF Inv
<1> QED BY <1>1, <1>2, <1>3, <1>4 DEF Access

(* Modify keeps the invariant. *)
LEMMA ModifyInv ==
  ASSUME Inv, NEW e \in Answers, NEW s \in Writable, NEW p \in Patches, NEW alloc,
         Modify(s, p, alloc, e)
  PROVE  Inv'
<1>0. s \in Visible /\ s \in Sectors
  BY Areas
<1>1. CASE Refused("modify")
  BY <1>1, RefusedInv DEF Ops
<1>2. CASE MoveFails("modify", e)
  BY <1>2, MoveFailsInv DEF Ops
<1>3. CASE /\ IF s = winsect
              THEN win' = Patched(win, p) /\ UNCHANGED <<disk, dropped>>
              ELSE /\ disk' = sync_disk(e) /\ dropped' = sync_dropped(e)
                   /\ win' = Patched(disk'[s], p)
           /\ winsect' = s /\ wflag' = 1
           /\ fsi_flag' = IF alloc /\ fsi_flag \in {0, 128} THEN fsi_flag + 1 ELSE fsi_flag
           /\ last' = Result("modify", {s}, "FR_OK")
  <2>1. disk' \in [Sectors -> Content] /\ dropped' \subseteq Sectors
    BY <1>3, SyncDiskType DEF Inv, TypeOK
  <2>2. win' \in Content
    <3>1. win \in Content /\ disk'[s] \in Content
      BY <1>0, <2>1 DEF Inv, TypeOK
    <3> QED BY <1>3, <3>1, PatchedContent
  <2>3. fsi_flag' \in {0, 1, 128, 129}
    BY <1>3 DEF Inv, TypeOK
  <2>4. TypeOK'
    BY <1>0, <1>3, <2>1, <2>2, <2>3 DEF TypeOK, Result
  <2>5. Coherent'
    BY <1>3 DEF Coherent, Writable, Visible
  <2>6. FatMirror'
    BY <1>3, MirrorStep
  <2> QED BY <2>4, <2>5, <2>6 DEF Inv
<1> QED BY <1>1, <1>2, <1>3 DEF Modify

(* WriteHead keeps the invariant. *)
LEMMA WriteHeadInv ==
  ASSUME Inv, NEW e \in Answers, NEW fsect, NEW s \in DataSectors, NEW p \in HeadPatches,
         NEW grow \in BOOLEAN, WriteHead(fsect, s, p, grow, e)
  PROVE  Inv'
<1> DEFINE flush == winsect = fsect \/ grow \/ s # winsect
           load  == ~grow /\ s # winsect
<1>0. s \in Visible /\ s \in Sectors /\ s \in Writable
  BY Areas
<1>1. CASE Refused("f_write")
  BY <1>1, RefusedInv DEF Ops
<1>2. CASE MoveFails("f_write", e)
  BY <1>2, MoveFailsInv DEF Ops
<1>3. CASE /\ IF flush THEN disk' = sync_disk(e) /\ dropped' = sync_dropped(e)
                       ELSE UNCHANGED <<disk, dropped>>
           /\ win' = Patched(IF load THEN disk'[s] ELSE win, p)
           /\ winsect' = s /\ wflag' = 1
           /\ last' = Result("f_write", {s}, "FR_OK")
           /\ UNCHANGED fsi_flag
  <2> HIDE DEF flush, load
  <2>1. disk' \in [Sectors -> Content] /\ dropped' \subseteq Sectors
    BY <1>3, SyncDiskType DEF Inv, TypeOK
  <2>2. win' \in Content
    <3>1. win \in Content /\ disk'[s] \in Content
      BY <1>0, <2>1 DEF Inv, TypeOK
    <3> QED BY <1>3, <3>1, PatchedContent
  <2>3. TypeOK'
    BY <1>0, <1>3, <2>1, <2>2 DEF Inv, TypeOK, Result
  <2>4. Coherent'
    BY <1>0, <1>3 DEF Coherent, Writable, Visible
  <2>5. FatMirror'
    BY <1>3, MirrorStep
  <2> QED BY <2>3, <2>4, <2>5 DEF Inv
<1> QED BY <1>1, <1>2, <1>3 DEF WriteHead

(* WriteThrough keeps the invariant. *)
LEMMA WriteThroughInv ==
  ASSUME Inv, NEW e \in Answers, NEW fsect, NEW r \in Runs, NEW f \in [r -> Content],
         WriteThrough(fsect, f, e)
  PROVE  Inv'
<1> DEFINE flush == winsect = fsect
           disk1 == IF flush THEN sync_disk(e) ELSE disk
           drop1 == IF flush THEN sync_dropped(e) ELSE dropped
           flag1 == IF flush THEN 0 ELSE wflag
<1>0. /\ r \subseteq DataSectors /\ r \subseteq Sectors
      /\ \A s \in Fat1 \cup Fat2 : s \notin r /\ s \in Sectors
  BY Areas DEF Runs, Writable, Visible
<1>a. disk1 \in [Sectors -> Content] /\ drop1 \subseteq Sectors /\ flag1 \in {0, 1}
  BY SyncDiskType DEF Inv, TypeOK
<1>b. flag1 = 0 /\ winsect # NoSect /\ winsect \notin drop1 => win = disk1[winsect]
  <2>1. CASE flush /\ winsect # NoSect
    <3>1. winsect \in Visible
      BY <2>1 DEF Inv, TypeOK
    <3>2. CASE wflag = 0
      BY <2>1, <3>1, <3>2, SyncView, Areas DEF Inv, Coherent, sync_targets, sync_dropped, sync_disk
    <3>3. CASE wflag = 1
      BY <2>1, <3>1, <3>3, Areas DEF sync_targets, sync_disk
    <3> QED BY <3>2, <3>3 DEF Inv, TypeOK
  <2>2. CASE ~flush
    BY <2>2 DEF Inv, Coherent
  <2> QED BY <2>1, <2>2
<1>c. flag1 = 1 => winsect \in Writable
  BY DEF Inv, Coherent
<1>1. CASE Refused("f_write")
  BY <1>1, RefusedInv DEF Ops
<1>2. CASE /\ disk' = disk1 /\ dropped' = drop1 /\ wflag' = flag1
           /\ last' = Result("f_write", {}, "FR_DISK_ERR")
           /\ UNCHANGED <<win, winsect, fsi_flag>>
  <2>1. FatMirror'
    BY <1>2, MirrorStep
  <2> HIDE DEF disk1, drop1, flag1
  <2>2. TypeOK'
    BY <1>2, <1>a DEF Inv, TypeOK, Result
  <2>3. Coherent'
    BY <1>2, <1>b, <1>c DEF Coherent, Writable, Visible
  <2> QED BY <2>1, <2>2, <2>3 DEF Inv
<1>3. CASE /\ disk' = [s \in Sectors |-> IF s \in DOMAIN f THEN f[s] ELSE disk1[s]]
           /\ dropped' = drop1 \ DOMAIN f
           /\ IF winsect \in DOMAIN f THEN win' = f[winsect] /\ wflag' = 0
                                      ELSE wflag' = flag1 /\ UNCHANGED win
           /\ last' = Result("f_write", DOMAIN f, "FR_OK")
           /\ UNCHANGED <<winsect, fsi_flag>>
  <2>0. DOMAIN f = r
    OBVIOUS
  <2>1. FatMirror'
    <3>1. \A s \in Fat1 \cup Fat2 : disk'[s] = disk1[s] /\ (s \in drop1 => s \in dropped')
      BY <1>0, <1>3, <2>0
    <3> QED BY <3>1, MirrorStep
  <2> HIDE DEF disk1, drop1, flag1
  <2>2. TypeOK'
    <3>1. disk' \in [Sectors -> Content]
      BY <1>3, <1>a, <2>0
    <3>2. win' \in Content /\ wflag' \in {0, 1}
      BY <1>3, <1>a, <2>0 DEF Inv, TypeOK
    <3> QED BY <1>0, <1>3, <1>a, <2>0, <3>1, <3>2 DEF Inv, TypeOK, Result
  <2>3. Coherent'
    <3>1. winsect # NoSect => winsect \in Sectors
      BY Areas DEF Inv, TypeOK
    <3>2. CASE winsect \in r
      BY <1>3, <2>0, <3>1, <3>2, <1>0 DEF Coherent
    <3>3. CASE winsect \notin r
      BY <1>3, <2>0, <3>1, <3>3, <1>b, <1>c DEF Coherent, Writable, Visible
    <3> QED BY <3>2, <3>3
  <2> QED BY <2>1, <2>2, <2>3 DEF Inv
<1> QED BY <1>1, <1>2, <1>3 DEF WriteThrough

(* DirClear keeps the invariant. *)
LEMMA DirClearInv ==
  ASSUME Inv, NEW e \in Answers, NEW s \in ClusterTops, NEW n \in 0 .. CSize, DirClear(s, n, e)
  PROVE  Inv'
<1>1. CASE Refused("dir_clear")
  BY <1>1, RefusedInv DEF Ops
<1>2. CASE ~Refused("dir_clear")
  <2> DEFINE res == IF n = CSize THEN "FR_OK" ELSE "FR_DISK_ERR"
  <2>1. /\ disk' = [t \in Sectors |-> IF t \in s .. s + n - 1 THEN Blank ELSE sync_disk(e)[t]]
        /\ dropped' = (sync_dropped(e) \ (s .. s + n - 1)) \cup (s + n .. s + CSize - 1)
        /\ win' = Blank /\ winsect' = s /\ wflag' = 0
        /\ last' = Result("dir_clear", s .. s + CSize - 1, res)
        /\ UNCHANGED fsi_flag
    BY <1>2 DEF DirClear
  <2>2. /\ s \in DataSectors /\ s \in Sectors /\ s \in Visible /\ s \in Int
        /\ s .. s + CSize - 1 \subseteq DataSectors
        /\ s .. s + n - 1 \subseteq s .. s + CSize - 1
        /\ s + n .. s + CSize - 1 \subseteq s .. s + CSize - 1
        /\ s \in s .. s + n - 1 \/ s \in s + n .. s + CSize - 1
    <3>1. s \in Int /\ n \in Int /\ 0 <= n /\ n <= CSize /\ CSize \in Int /\ 1 <= CSize
      BY Geometry, ClusterInData DEF DataSectors
    <3> QED BY <3>1, ClusterInData, Areas
  <2>3. \A t \in Fat1 \cup Fat2 : t \in Sectors /\ t \notin s .. s + CSize - 1
    BY <2>2, Areas DEF Writable, Visible
  <2>4. FatMirror'
    <3>1. \A t \in Fat1 \cup Fat2 :
            disk'[t] = sync_disk(e)[t] /\ (t \in sync_dropped(e) => t \in dropped')
      BY <2>1, <2>2, <2>3
    <3> QED BY <3>1, MirrorStep
  <2>5. TypeOK'
    <3>1. disk' \in [Sectors -> Content]
      BY <2>1, SyncDiskType, BlankContent DEF Inv
    <3>2. dropped' \subseteq Sectors
      BY <2>1, <2>2, SyncDiskType, Areas DEF Inv
    <3>3. last' \in [op : {"read", "modify", "f_write", "dir_clear", "sync_fs", "mount"},
                     at : SUBSET Sectors, res : {"FR_OK", "FR_DISK_ERR"}]
      BY <2>1, <2>2, Areas DEF Result
    <3> QED BY <2>1, <2>2, <3>1, <3>2, <3>3, BlankContent DEF Inv, TypeOK
  <2>6. Coherent'
    BY <2>1, <2>2 DEF Coherent
  <2> QED BY <2>4, <2>5, <2>6 DEF Inv
<1> QED BY <1>1, <1>2

(* SyncFs keeps the invariant. *)
LEMMA SyncFsInv ==
  ASSUME Inv, NEW e \in Answers, NEW info \in Content, NEW c \in Answer, SyncFs(info, c, e)
  PROVE  Inv'
<1>0. SyncResult(c) \in {"FR_OK", "FR_DISK_ERR"}
  BY DEF SyncResult
<1>1. CASE Refused("sync_fs")
  BY <1>1, RefusedInv DEF Ops
<1>2. CASE ~Refused("sync_fs") /\ fsi_flag = 1 /\ Fat32
  <2>1. /\ fsi_flag' = 0 /\ wflag' = 0 /\ win' = info /\ winsect' = FsInfo
        /\ disk' = IF e.x = "RES_OK" THEN [sync_disk(e) EXCEPT ![FsInfo] = info] ELSE sync_disk(e)
        /\ dropped' = IF e.x = "RES_OK" THEN sync_dropped(e) \ {FsInfo} ELSE sync_dropped(e) \cup {FsInfo}
        /\ last' = Result("sync_fs", {FsInfo}, SyncResult(c))
    BY <1>2 DEF SyncFs
  <2>2. FsInfo \in Visible /\ FsInfo \in Sectors /\ FsInfo \notin Fat1 /\ FsInfo \notin Fat2
    BY <1>2, Areas, Geometry DEF Fat1, Visible, FsInfo
  <2>3. sync_disk(e) \in [Sectors -> Content] /\ sync_dropped(e) \subseteq Sectors
    BY SyncDiskType DEF Inv
  <2>4. FatMirror'
    <3>1. \A t \in Fat1 \cup Fat2 :
            disk'[t] = sync_disk(e)[t] /\ (t \in sync_dropped(e) => t \in dropped')
      BY <2>1, <2>2, <2>3
    <3> QED BY <3>1, MirrorStep
  <2>5. TypeOK'
    BY <1>0, <2>1, <2>2, <2>3 DEF TypeOK, Result
  <2>6. Coherent'
    BY <2>1, <2>2, <2>3 DEF Coherent
  <2> QED BY <2>4, <2>5, <2>6 DEF Inv
<1>3. CASE ~Refused("sync_fs") /\ ~(fsi_flag = 1 /\ Fat32)
  <2>1. /\ fsi_flag' = (IF fsi_flag = 1 THEN 0 ELSE fsi_flag) /\ wflag' = 0
        /\ disk' = sync_disk(e) /\ dropped' = sync_dropped(e)
        /\ last' = Result("sync_fs", {}, SyncResult(c))
        /\ UNCHANGED <<win, winsect>>
    BY <1>3 DEF SyncFs
  <2>2. TypeOK'
    BY <1>0, <2>1, SyncDiskType DEF Inv, TypeOK, Result
  <2>3. Coherent'
    <3>1. CASE winsect = NoSect
      BY <2>1, <3>1 DEF Coherent
    <3>2. CASE winsect \in Visible /\ wflag = 1
      BY <2>1, <3>2, Areas DEF Coherent, sync_disk, sync_targets
    <3>3. CASE winsect \in Visible /\ wflag = 0
      BY <2>1, <3>3, Areas DEF Inv, Coherent, sync_disk, sync_targets, sync_dropped
    <3> QED BY <3>1, <3>2, <3>3 DEF Inv, TypeOK
  <2>4. FatMirror'
    BY <2>1, MirrorStep
  <2> QED BY <2>2, <2>3, <2>4 DEF Inv
<1> QED BY <1>1, <1>2, <1>3

(* Mount keeps the invariant. *)
LEMMA MountInv ==
  ASSUME Inv, NEW e \in Answers, Mount(e)
  PROVE  Inv'
<1>1. /\ wflag' = 0 /\ UNCHANGED <<disk, dropped>>
      /\ fsi_flag' \in {0, 128}
      /\ last' = Result("mount", IF wflag = 1 THEN {winsect} ELSE {}, "FR_OK")
  BY DEF Mount
<1>2. \/ winsect' = NoSect /\ win' \in Content
      \/ winsect' \in Visible /\ win' = disk[winsect']
  BY Areas DEF Mount
<1>3. win' \in Content
  BY <1>2, Areas DEF Inv, TypeOK
<1>4. wflag = 1 => winsect \in Sectors
  BY Areas DEF Inv, Coherent
<1>5. TypeOK'
  BY <1>1, <1>2, <1>3, <1>4 DEF Inv, TypeOK, Result
<1>6. Coherent'
  BY <1>1, <1>2 DEF Coherent
<1>7. FatMirror'
  BY <1>1 DEF Inv, FatMirror
<1> QED BY <1>5, <1>6, <1>7 DEF Inv

(* The invariant holds initially. *)
LEMMA InitInv == Init => Inv
<1> SUFFICES ASSUME Init PROVE Inv
  OBVIOUS
<1>1. winsect \in Visible
  BY Areas DEF Init
<1>2. TypeOK
  BY <1>1, Areas DEF Init, TypeOK, Result
<1>3. Coherent
  BY DEF Init, Coherent
<1>4. FatMirror
  BY DEF Init, FatMirror
<1> QED BY <1>2, <1>3, <1>4 DEF Inv

(* A step is an operation with some answers of the disk. *)
LEMMA NextIsOp == Next => \E e \in Answers : Op(e)
BY DEF Next, Given

(* Every step keeps the invariant. *)
LEMMA NextInv == Inv /\ [Next]_vars => Inv'
<1> SUFFICES ASSUME Inv, [Next]_vars PROVE Inv'
  OBVIOUS
<1>1. CASE Next
  <2> PICK e \in Answers : Op(e)
    BY <1>1, NextIsOp
  <2> QED
    BY AccessInv, ModifyInv, WriteHeadInv, WriteThroughInv, DirClearInv, SyncFsInv, MountInv DEF Op
<1>2. CASE UNCHANGED vars
  BY <1>2 DEF vars, Inv, TypeOK, Coherent, FatMirror
<1> QED BY <1>1, <1>2

(* The window is coherent with the disk and the two FATs agree, whatever    *)
(* calls the disk refuses and whenever the volume is remounted.             *)
THEOREM WindowInvariant == Spec => []Inv
BY InitInv, NextInv, PTL DEF Spec

(* The window's fields keep their types: fs->winsect never names the second  *)
(* FAT, which only sync_window writes, and fsi_flag only its four values.   *)
THEOREM WindowTypeOK == Spec => []TypeOK
<1>1. Inv => TypeOK
  BY DEF Inv
<1> QED BY <1>1, WindowInvariant, PTL

(* sync_window, move_window, f_write, dir_clear and sync_fs never leave a   *)
(* clean window that differs from its sector, nor a dirty one astray.       *)
THEOREM WindowCoherent == Spec => []Coherent
<1>1. Inv => Coherent
  BY DEF Inv
<1> QED BY <1>1, WindowInvariant, PTL

(* sync_window keeps the second FAT equal to the first.                     *)
THEOREM WindowFatMirror == Spec => []FatMirror
<1>1. Inv => FatMirror
  BY DEF Inv
<1> QED BY <1>1, WindowInvariant, PTL

(* f_read returns the same bytes whether it reads through the window or     *)
(* past it.                                                                 *)
THEOREM WindowReadsAgree == Spec => []ReadsAgree
<1>1. Inv => ReadsAgree
  BY Areas DEF Inv, TypeOK, Coherent, ReadsAgree, f_read_direct, view
<1> QED BY <1>1, WindowInvariant, PTL

-----------------------------------------------------------------------------
(* One step changes what a sector reads as only where it was told to. *)
LEMMA NoStrayStep ==
  Inv /\ [Next]_vars => [\A s \in Visible \ dropped : view'[s] # view[s] => s \in last'.at]_vars
<1> SUFFICES ASSUME Inv, Next,
                    NEW s \in Visible, s \notin dropped, view'[s] # view[s]
             PROVE  s \in last'.at
  OBVIOUS
<1>0. s \in Sectors /\ s # NoSect
  BY Areas
<1>a. ASSUME NEW op, Refused(op) PROVE FALSE
  BY <1>a DEF Refused, view
<1>b. ASSUME NEW op, NEW e \in Answers, MoveFails(op, e) PROVE FALSE
  BY <1>0, <1>b, SyncView DEF MoveFails, view, Inv
<1>1. ASSUME NEW e \in Answers, NEW t \in Visible, Access(t, e) PROVE s \in last'.at
  <2>1. CASE UNCHANGED <<disk, win, winsect>>
    BY <2>1 DEF view
  <2>2. CASE disk' = sync_disk(e) /\ win' = disk'[t] /\ winsect' = t
    BY <2>2, SyncView DEF view, Inv
  <2> QED BY <1>1, <1>a, <1>b, <2>1, <2>2 DEF Access
<1>2. ASSUME NEW e \in Answers, NEW t \in Writable, NEW p, NEW alloc, Modify(t, p, alloc, e)
      PROVE  s \in last'.at
  <2>1. CASE winsect' = t /\ (IF t = winsect THEN disk' = disk ELSE disk' = sync_disk(e))
             /\ last' = Result("modify", {t}, "FR_OK")
    BY <2>1, SyncView DEF view, Inv, Result
  <2> QED BY <1>2, <1>a, <1>b, <2>1 DEF Modify
<1>3. ASSUME NEW e \in Answers, NEW fs, NEW t \in DataSectors, NEW p, NEW grow \in BOOLEAN,
             WriteHead(fs, t, p, grow, e)
      PROVE  s \in last'.at
  <2>1. CASE /\ IF winsect = fs \/ grow \/ t # winsect THEN disk' = sync_disk(e) ELSE disk' = disk
             /\ winsect' = t /\ last' = Result("f_write", {t}, "FR_OK")
    BY <2>1, SyncView DEF view, Inv, Result
  <2> QED BY <1>3, <1>a, <1>b, <2>1 DEF WriteHead
<1>4. ASSUME NEW e \in Answers, NEW fs, NEW r \in Runs, NEW f \in [r -> Content],
             WriteThrough(fs, f, e)
      PROVE  s \in last'.at
  <2> DEFINE disk1 == IF winsect = fs THEN sync_disk(e) ELSE disk
  <2>1. CASE disk' = disk1 /\ UNCHANGED <<win, winsect>>
    BY <2>1, SyncView DEF view, Inv
  <2>2. CASE /\ disk' = [x \in Sectors |-> IF x \in DOMAIN f THEN f[x] ELSE disk1[x]]
             /\ winsect' = winsect /\ last' = Result("f_write", DOMAIN f, "FR_OK")
             /\ winsect \notin DOMAIN f => win' = win
    BY <1>0, <2>2, SyncView DEF view, Inv, Result
  <2> QED BY <1>4, <1>a, <2>1, <2>2 DEF WriteThrough
<1>5. ASSUME NEW e \in Answers, NEW t \in ClusterTops, NEW n \in 0 .. CSize, DirClear(t, n, e)
      PROVE  s \in last'.at
  <2>0. t \in Int /\ t .. t + n - 1 \subseteq t .. t + CSize - 1 /\ t \in t .. t + CSize - 1
    BY ClusterInData, Geometry DEF DataSectors
  <2>1. CASE ~Refused("dir_clear")
    <3>1. /\ disk' = [x \in Sectors |-> IF x \in t .. t + n - 1 THEN Blank ELSE sync_disk(e)[x]]
          /\ winsect' = t /\ last'.at = t .. t + CSize - 1
      BY <1>5, <2>1 DEF DirClear, Result
    <3> QED BY <1>0, <2>0, <3>1, SyncView DEF view, Inv
  <2> QED BY <1>5, <1>a, <2>1
<1>6. ASSUME NEW e \in Answers, NEW info \in Content, NEW c \in Answer, SyncFs(info, c, e)
      PROVE  s \in last'.at
  <2>1. sync_disk(e) \in [Sectors -> Content]
    BY SyncDiskType DEF Inv
  <2>2. CASE /\ winsect' = FsInfo /\ last' = Result("sync_fs", {FsInfo}, SyncResult(c))
             /\ disk' = IF e.x = "RES_OK" THEN [sync_disk(e) EXCEPT ![FsInfo] = info] ELSE sync_disk(e)
    BY <1>0, <2>1, <2>2, SyncView DEF view, Inv, Result
  <2>3. CASE disk' = sync_disk(e) /\ UNCHANGED <<win, winsect>>
    BY <2>3, SyncView DEF view, Inv
  <2> QED BY <1>6, <1>a, <2>2, <2>3 DEF SyncFs
<1>7. ASSUME NEW e \in Answers, Mount(e) PROVE s \in last'.at
  <2>1. \/ winsect' = NoSect
        \/ winsect' \in Visible /\ win' = disk[winsect']
    BY <1>7, Areas DEF Mount
  <2>2. view'[s] = disk[s]
    BY <1>0, <1>7, <2>1 DEF Mount, view
  <2>3. s = winsect /\ wflag = 1
    BY <1>0, <2>2 DEF view, Inv, Coherent, TypeOK
  <2> QED BY <1>7, <2>3 DEF Mount, Result
<1> QED
  BY <1>1, <1>2, <1>3, <1>4, <1>5, <1>6, <1>7, NextIsOp DEF Op

(* No operation, successful or refused, changes what a sector it was not    *)
(* told to write reads as.                                                  *)
THEOREM WindowNoStrayWrite == Spec => NoStrayWrite
BY WindowInvariant, NoStrayStep, PTL DEF Spec, NoStrayWrite

-----------------------------------------------------------------------------
(* One step keeps SyncDurable: only sync_fs can make it say anything. *)
LEMMA SyncDurableStep == Inv /\ SyncDurable /\ [Next]_vars => SyncDurable'
<1> SUFFICES ASSUME Inv, SyncDurable, [Next]_vars,
                    last'.op = "sync_fs", last'.res = "FR_OK",
                    NEW s \in Visible, s \notin dropped'
             PROVE  disk'[s] = view'[s]
  BY DEF SyncDurable
<1>0. s \in Sectors
  BY Areas
<1>1. CASE UNCHANGED vars
  BY <1>1 DEF vars, SyncDurable, view
<1>2. CASE Next
  <2>1. PICK e \in Answers, info \in Content, c \in Answer : SyncFs(info, c, e)
    <3>1. ASSUME NEW e \in Answers, NEW t, Access(t, e) PROVE last'.op = "read"
      BY <3>1 DEF Access, Refused, MoveFails, Result
    <3>2. ASSUME NEW e \in Answers, NEW t, NEW p, NEW alloc, Modify(t, p, alloc, e)
          PROVE  last'.op = "modify"
      BY <3>2 DEF Modify, Refused, MoveFails, Result
    <3>3. ASSUME NEW e \in Answers, NEW fs, NEW t, NEW p, NEW grow, WriteHead(fs, t, p, grow, e)
          PROVE  last'.op = "f_write"
      BY <3>3 DEF WriteHead, Refused, MoveFails, Result
    <3>4. ASSUME NEW e \in Answers, NEW fs, NEW f, WriteThrough(fs, f, e)
          PROVE  last'.op = "f_write"
      BY <3>4 DEF WriteThrough, Refused, Result
    <3>5. ASSUME NEW e \in Answers, NEW t, NEW n, DirClear(t, n, e) PROVE last'.op = "dir_clear"
      BY <3>5 DEF DirClear, Refused, Result
    <3>6. ASSUME NEW e \in Answers, Mount(e) PROVE last'.op = "mount"
      BY <3>6 DEF Mount, Result
    <3> QED BY <1>2, <3>1, <3>2, <3>3, <3>4, <3>5, <3>6, NextIsOp DEF Op
  <2>2. sync_disk(e) \in [Sectors -> Content]
    BY SyncDiskType DEF Inv
  <2>3. CASE Refused("sync_fs")
    BY <2>3 DEF Refused, Result
  <2>4. CASE /\ win' = info /\ winsect' = FsInfo
             /\ disk' = IF e.x = "RES_OK" THEN [sync_disk(e) EXCEPT ![FsInfo] = info] ELSE sync_disk(e)
             /\ dropped' = IF e.x = "RES_OK" THEN sync_dropped(e) \ {FsInfo} ELSE sync_dropped(e) \cup {FsInfo}
    BY <1>0, <2>2, <2>4 DEF view
  <2>5. CASE /\ disk' = sync_disk(e) /\ dropped' = sync_dropped(e)
             /\ UNCHANGED <<win, winsect>>
    BY <1>0, <2>5, SyncView DEF view, Inv, Coherent, TypeOK, sync_disk, sync_targets, sync_dropped
  <2> QED BY <2>1, <2>3, <2>4, <2>5 DEF SyncFs
<1> QED BY <1>1, <1>2

(* A successful sync_fs leaves nothing FatFs wrote only in memory.          *)
THEOREM WindowSyncDurable == Spec => []SyncDurable
<1>1. Init => SyncDurable
  BY DEF Init, SyncDurable, Result
<1> QED BY <1>1, WindowInvariant, SyncDurableStep, PTL DEF Spec

-----------------------------------------------------------------------------
(* While the disk refuses nothing, nothing is given up.                     *)
LEMMA NoDropStep == ~MayFail /\ Inv /\ dropped = {} /\ [Next]_vars => dropped' = {}
<1> SUFFICES ASSUME ~MayFail, Inv, dropped = {}, [Next]_vars PROVE dropped' = {}
  OBVIOUS
<1>1. ASSUME NEW e \in Answers
      PROVE  e.w = "RES_OK" /\ e.m = "RES_OK" /\ e.x = "RES_OK" /\ sync_dropped(e) = {}
  BY DEF Answers, Answer, sync_dropped
<1>2. CASE UNCHANGED vars
  BY <1>2 DEF vars
<1>3. ASSUME NEW e \in Answers, NEW s \in ClusterTops, NEW n \in 0 .. CSize, DirClear(s, n, e)
      PROVE  dropped' = {}
  <2>1. s + CSize .. s + CSize - 1 = {}
    BY ClusterInData, Geometry DEF DataSectors
  <2> QED BY <1>1, <1>3, <2>1 DEF DirClear, Refused
<1>4. CASE Next
  <2> PICK e \in Answers : Op(e)
    BY <1>4, NextIsOp
  <2> QED
    BY ZenonT(60), <1>1, <1>3 DEF Op, Access, Modify, WriteHead, WriteThrough, SyncFs, Mount, Refused, MoveFails
<1> QED BY <1>2, <1>4

durable == [s \in Visible |-> disk[s]]

(* The steps of the sector array that the window's steps map to.            *)
LEMMA MapsWriteBack ==
  ASSUME Inv, dropped = {}, NEW e \in Answers, view' = view,
         disk' = disk \/ disk' = sync_disk(e)
  PROVE  LV!Next
<1>1. durable' \in {durable, view}
  BY SyncView DEF durable, view, Inv
<1> QED BY <1>1 DEF LV!Next, LV!WriteBack, durable

(* A change of one buffered sector is a Store of the logical volume. *)
LEMMA MapsStore ==
  ASSUME Inv, Inv', dropped = {}, NEW e \in Answers, NEW s \in Visible, winsect' = s,
         \/ disk' = sync_disk(e)
         \/ disk' = disk /\ winsect = s
  PROVE  LV!Next
<1>1. view'[s] \in Content
  BY DEF view, Inv, TypeOK
<1>2. \A x \in Visible : x # s => view'[x] = view[x]
  BY SyncView DEF view, Inv
<1>3. view' = [view EXCEPT ![s] = view'[s]]
  BY <1>2 DEF view
<1>4. durable' \in {durable, view}
  BY SyncView DEF durable, view, Inv
<1>5. \A x \in Visible : x # s => view'[x] = durable'[x]
  BY DEF view, durable
<1> QED BY <1>1, <1>3, <1>4, <1>5 DEF LV!Next, LV!Store, durable

(* A change of sectors on the medium is a StoreThrough of the logical volume. *)
LEMMA MapsStoreThrough ==
  ASSUME Inv, Inv', dropped = {}, NEW e \in Answers, NEW S \in SUBSET Visible,
         NEW d \in {disk, sync_disk(e)},
         \A x \in Visible \ S : disk'[x] = d[x] /\ view'[x] = view[x],
         \A x \in S : view'[x] = disk'[x]
  PROVE  LV!Next
<1>1. view' \in [Visible -> Content] /\ durable' \in [Visible -> Content]
  BY Areas DEF Inv, TypeOK, view, durable
<1>2. \A x \in Visible : durable'[x] = disk'[x] /\ durable[x] = disk[x]
  BY DEF durable
<1>3. CASE d = disk
  <2>1. \A x \in Visible :
          durable'[x] = view'[x] \/ (view'[x] = view[x] /\ durable'[x] = durable[x])
    BY <1>2, <1>3
  <2> QED BY <1>1, <2>1 DEF LV!Next, LV!StoreThrough, durable
<1>4. CASE d = sync_disk(e)
  <2>1. \A x \in Visible :
          durable'[x] = view'[x] \/ (view'[x] = view[x] /\ durable'[x] = view[x])
    BY <1>2, <1>4, SyncView DEF Inv
  <2> QED BY <1>1, <2>1 DEF LV!Next, LV!StoreThrough, durable
<1> QED BY <1>3, <1>4

(* Every step of the window is a step of the logical volume or leaves it alone. *)
LEMMA RefinementStep ==
  ASSUME ~MayFail, Inv, dropped = {}, Next
  PROVE  LV!Next \/ UNCHANGED LV!lvars
<1>0. Inv'
  BY NextInv
<1>a. ASSUME NEW e \in Answers
      PROVE  e.w = "RES_OK" /\ e.m = "RES_OK" /\ e.x = "RES_OK" /\ sync_ok(e)
  BY DEF Answers, Answer, sync_ok
<1>1. ASSUME NEW e \in Answers, NEW t \in Visible, Access(t, e) PROVE LV!Next
  <2>1. disk' = disk \/ disk' = sync_disk(e)
    BY <1>1, <1>a DEF Access
  <2>2. \A x \in Visible : view'[x] = view[x]
    BY <1>1, <1>a, SyncView DEF Access, view, Inv
  <2>3. view' = view
    BY <2>2 DEF view
  <2> QED BY <2>1, <2>3, MapsWriteBack
<1>2. ASSUME NEW e \in Answers, NEW t \in Writable, NEW p \in Patches, NEW alloc, Modify(t, p, alloc, e)
      PROVE  LV!Next
  <2>1. e.x = "RES_OK" /\ sync_ok(e)
    BY <1>a
  <2>2. CASE /\ IF t = winsect THEN disk' = disk ELSE disk' = sync_disk(e)
             /\ winsect' = t
    BY <1>0, <2>2, MapsStore, Areas
  <2> QED BY <1>2, <2>1, <2>2 DEF Modify
<1>3. ASSUME NEW e \in Answers, NEW fs, NEW t \in DataSectors, NEW p \in HeadPatches,
             NEW grow \in BOOLEAN, WriteHead(fs, t, p, grow, e)
      PROVE  LV!Next
  <2>1. e.x = "RES_OK" /\ sync_ok(e)
    BY <1>a
  <2>2. CASE /\ IF winsect = fs \/ grow \/ t # winsect THEN disk' = sync_disk(e) ELSE disk' = disk
             /\ winsect' = t
    BY <1>0, <2>2, MapsStore, Areas
  <2> QED BY <1>3, <2>1, <2>2 DEF WriteHead
<1>4. ASSUME NEW e \in Answers, NEW fs, NEW r \in Runs, NEW f \in [r -> Content],
             WriteThrough(fs, f, e)
      PROVE  LV!Next
  <2> DEFINE disk1 == IF winsect = fs THEN sync_disk(e) ELSE disk
  <2>0. r \subseteq Visible /\ DOMAIN f = r /\ Visible \subseteq Sectors
    BY Areas DEF Runs
  <2>1. /\ disk' = [x \in Sectors |-> IF x \in r THEN f[x] ELSE disk1[x]]
        /\ winsect' = winsect
        /\ IF winsect \in r THEN win' = f[winsect] ELSE win' = win
    BY <1>4, <1>a, <2>0 DEF WriteThrough
  <2>2. \A x \in Visible \ r : disk'[x] = disk1[x] /\ view'[x] = view[x]
    BY <2>0, <2>1, SyncView DEF view, Inv
  <2>3. \A x \in r : view'[x] = disk'[x]
    BY <2>0, <2>1 DEF view
  <2> QED BY <1>0, <2>0, <2>2, <2>3, MapsStoreThrough
<1>5. ASSUME NEW e \in Answers, NEW t \in ClusterTops, NEW n \in 0 .. CSize, DirClear(t, n, e)
      PROVE  LV!Next
  <2> DEFINE r == t .. t + CSize - 1
  <2>0. r \subseteq Visible /\ Visible \subseteq Sectors /\ t \in r
    <3>1. t \in Int
      BY ClusterInData DEF DataSectors
    <3> QED BY <3>1, ClusterInData, Areas, Geometry
  <2>1. /\ disk' = [x \in Sectors |-> IF x \in r THEN Blank ELSE sync_disk(e)[x]]
        /\ winsect' = t /\ win' = Blank
    BY <1>5, <1>a DEF DirClear
  <2> HIDE DEF r
  <2>2. \A x \in Visible \ r : disk'[x] = sync_disk(e)[x] /\ view'[x] = view[x]
    BY <2>0, <2>1, SyncView DEF view, Inv
  <2>3. \A x \in r : view'[x] = disk'[x]
    BY <2>0, <2>1 DEF view
  <2> QED BY <1>0, <2>0, <2>2, <2>3, MapsStoreThrough
<1>6. ASSUME NEW e \in Answers, NEW info \in Content, NEW c \in Answer, SyncFs(info, c, e)
      PROVE  LV!Next
  <2>0. sync_disk(e) \in [Sectors -> Content] /\ Visible \subseteq Sectors
    BY SyncDiskType, Areas DEF Inv
  <2>1. \A x \in Visible : sync_disk(e)[x] = view[x]
    BY SyncView DEF Inv
  <2>2. CASE fsi_flag = 1 /\ Fat32
    <3>1. /\ winsect' = FsInfo /\ win' = info /\ FsInfo \in Visible
          /\ disk' = [sync_disk(e) EXCEPT ![FsInfo] = info]
      BY <1>6, <1>a, <2>2, Areas DEF SyncFs
    <3>2. view' = [view EXCEPT ![FsInfo] = view'[FsInfo]] /\ view'[FsInfo] \in Content
      BY <2>0, <2>1, <3>1 DEF view
    <3>3. durable' = view'
      BY <2>0, <2>1, <3>1 DEF view, durable
    <3> QED BY <2>2, <3>1, <3>2, <3>3 DEF LV!Next, LV!Sync, durable
  <2>3. CASE ~(fsi_flag = 1 /\ Fat32)
    <3>1. disk' = sync_disk(e) /\ UNCHANGED <<win, winsect>>
      BY <1>6, <1>a, <2>3 DEF SyncFs
    <3>2. view' = view /\ durable' = view
      BY <2>1, <3>1 DEF view, durable
    <3> QED BY <3>2 DEF LV!Next, LV!Sync, durable
  <2> QED BY <2>2, <2>3
<1>7. ASSUME NEW e \in Answers, Mount(e) PROVE LV!Next
  <2>1. disk' = disk /\ winsect' \in Visible /\ win' = disk[winsect']
    BY <1>7, <1>a, Areas DEF Mount
  <2>2. view' = durable /\ durable' = durable
    BY <2>1 DEF view, durable
  <2> QED BY <2>2 DEF LV!Next, LV!Crash, durable
<1> QED
  BY <1>1, <1>2, <1>3, <1>4, <1>5, <1>6, <1>7, NextIsOp DEF Op

(* While the disk refuses nothing, the window implements an array of        *)
(* sectors of which a power loss can make at most one out of date.          *)
THEOREM WindowRefinement == (~MayFail) => (Spec => ImplementsLogicalVolume)
<1> SUFFICES ASSUME ~MayFail PROVE Spec => ImplementsLogicalVolume
  OBVIOUS
<1>1. Init => LV!Init /\ dropped = {}
  <2> SUFFICES ASSUME Init PROVE LV!Init /\ dropped = {}
    OBVIOUS
  <2>1. view \in [Visible -> Content] /\ durable = view
    BY Areas DEF Init, view, durable
  <2> QED BY <2>1 DEF LV!Init, Init, durable
<1>2. Inv /\ dropped = {} /\ [Next]_vars => [LV!Next]_(LV!lvars)
  <2>1. UNCHANGED vars => UNCHANGED LV!lvars
    BY DEF vars, LV!lvars, view
  <2> QED BY <2>1, RefinementStep
<1>3. Inv /\ dropped = {} /\ [Next]_vars => (dropped = {})'
  BY NoDropStep
<1> QED
  BY <1>1, <1>2, <1>3, WindowInvariant, PTL DEF Spec, LV!Spec, ImplementsLogicalVolume
=============================================================================
