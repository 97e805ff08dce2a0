-------------------------- MODULE ClusterChainProofs --------------------------
(***************************************************************************)
(* Proofs about ClusterChain, for every number of clusters and every set   *)
(* of objects.                                                             *)
(***************************************************************************)
EXTENDS ClusterChain, FiniteSetTheorems, TLAPS

(* A leaf is tried with the SMT solver, then with Zenon, then with the SMT    *)
(* solver and more time, unless it names its prover.                          *)
USE SMTT(10), Zenon, SMTT(60)

(* What the running function knows about its locals. *)
Cursor ==
  /\ pc \in {"probe", "scan", "mark", "link"} =>
       /\ obj \in Obj
       /\ clst = 0 => pc \in {"scan", "mark"} /\ sclust[obj] = 0
       /\ clst # 0 => clst \in Clusters /\ owner[clst] = obj /\ fat[clst] = EOC
  /\ pc = "probe" => scl \in Clusters
  /\ pc = "mark" => ncl \in Clusters /\ fat[ncl] = Free
  /\ pc = "link" =>
       /\ ncl \in Clusters /\ clst \in Clusters
       /\ fat[ncl] = EOC /\ owner[ncl] = None
       /\ \A d \in Clusters : fat[d] # ncl
  /\ pc = "free" =>
       /\ clst \in Clusters /\ fat[clst] # Free /\ owner[clst] = None
       /\ \A d \in Clusters : fat[d] # clst

Inv == TypeOK /\ ChainsSound /\ Cursor /\ NoInternalError

USE DEF Clusters, Free, EOC, Unknown, NoReuse

-----------------------------------------------------------------------------
(* A step that leaves the FAT, the start clusters and the history alone keeps *)
(* the chains sound.                                                          *)
LEMMA QuietSound ==
  ASSUME ChainsSound, UNCHANGED <<fat, sclust, owner, pos>>
  PROVE  ChainsSound'
BY DEF ChainsSound, InUse, LinksOn, LinkedOnce, OnePlace, Starts, AllLinked

(* After a return no function runs and its locals have their types. *)
LEMMA ReturnLocals ==
  ASSUME NEW r \in {"ok", "full", "disk_err"}, Return(r)
  PROVE  /\ Cursor' /\ NoInternalError'
         /\ pc' = "idle" /\ ret' \in {"ok", "full", "disk_err"}
         /\ obj' = None /\ clst' = 0 /\ scl' = 1 /\ ncl' = 1 /\ reuse' = n_fatent
BY DEF Return, Cursor, NoInternalError

(* A return that changes nothing else. *)
LEMMA QuietReturn ==
  ASSUME Inv, NEW r \in {"ok", "full", "disk_err"}, Return(r),
         UNCHANGED <<fat, alloc, fsinfo, sclust, owner, pos>>
  PROVE  Inv'
<1>1. ChainsSound'
  BY QuietSound DEF Inv
<1>2. TypeOK'
  BY ReturnLocals, Params DEF Inv, TypeOK, alloc
<1> QED
  BY <1>1, <1>2, ReturnLocals DEF Inv

(* A function that returns at a failed FAT access leaves the chains sound. *)
LEMMA DiskErrorInv ==
  ASSUME Inv, DiskError
  PROVE  Inv'
BY QuietReturn DEF DiskError

(* Setting bit 0 of fsi_flag keeps it one of its four values. *)
LEMMA FlagType ==
  ASSUME fsi_flag \in {0, 1, 128, 129}, FlagChanged
  PROVE  fsi_flag' \in {0, 1, 128, 129}
BY DEF FlagChanged

(* The free clusters can be counted and are at most n_fatent - 2. *)
LEMMA FreeSetFinite ==
  ASSUME TypeOK
  PROVE  IsFiniteSet(FreeSet) /\ Cardinality(FreeSet) \in 0 .. n_fatent - 2
<1>1. IsFiniteSet(Clusters) /\ Cardinality(Clusters) = n_fatent - 2
  BY FS_Interval, Params
<1>2. FreeSet \subseteq Clusters
  BY DEF FreeSet
<1>3. IsFiniteSet(FreeSet) /\ Cardinality(FreeSet) <= Cardinality(Clusters)
  BY <1>1, <1>2, FS_Subset
<1>4. Cardinality(FreeSet) \in Nat
  BY <1>3, FS_CardinalityType
<1> QED
  BY <1>1, <1>3, <1>4, Params

-----------------------------------------------------------------------------
(* The invariant holds initially. *)
LEMMA InitInv ==
  ASSUME Init
  PROVE  Inv
<1>1. TypeOK
  BY Params DEF Init, TypeOK
<1>2. ChainsSound
  BY Params DEF Init, ChainsSound, InUse, LinksOn, LinkedOnce, OnePlace, Starts, AllLinked
<1>3. Cursor /\ NoInternalError
  BY DEF Init, Cursor, NoInternalError
<1> QED
  BY <1>1, <1>2, <1>3 DEF Inv

(* Mount keeps the invariant. *)
LEMMA MountInv ==
  ASSUME Inv, Mount
  PROVE  Inv'
<1>1. ChainsSound'
  BY QuietSound DEF Inv, Mount
<1>2. TypeOK'
  BY ReturnLocals, Params DEF Inv, TypeOK, Mount
<1> QED
  BY <1>1, <1>2, ReturnLocals DEF Inv, Mount

(* SyncInfo keeps the invariant. *)
LEMMA SyncInfoInv ==
  ASSUME Inv, SyncInfo
  PROVE  Inv'
<1>1. ChainsSound'
  BY QuietSound DEF Inv, SyncInfo
<1>2. TypeOK'
  BY DEF Inv, TypeOK, SyncInfo, locals
<1>3. Cursor' /\ NoInternalError'
  BY DEF Inv, Cursor, NoInternalError, SyncInfo, locals
<1> QED
  BY <1>1, <1>2, <1>3 DEF Inv

(* GetFree keeps the invariant. *)
LEMMA GetFreeInv ==
  ASSUME Inv, GetFree
  PROVE  Inv'
<1>1. ChainsSound'
  BY QuietSound DEF Inv, GetFree
<1>2. free_clst' \in 0 .. n_fatent /\ fsi_flag' \in {0, 1, 128, 129}
  <2>1. TypeOK /\ free_clst \in 0 .. n_fatent /\ fsi_flag \in {0, 1, 128, 129}
    BY DEF Inv, TypeOK
  <2>2. Cardinality(FreeSet) \in 0 .. n_fatent
    BY <2>1, FreeSetFinite, Params
  <2>3. CASE free_clst' = Cardinality(FreeSet) /\ FlagChanged
    <3>1. fsi_flag' \in {0, 1, 128, 129}
      BY <2>1, <2>3, FlagType
    <3> QED
      BY <2>2, <2>3, <3>1
  <2>4. CASE UNCHANGED <<free_clst, fsi_flag>>
    BY <2>1, <2>4
  <2> QED
    BY <2>3, <2>4 DEF GetFree
<1>3. TypeOK'
  BY <1>2 DEF Inv, TypeOK, GetFree, locals
<1>4. Cursor' /\ NoInternalError'
  BY DEF Inv, Cursor, NoInternalError, GetFree, locals
<1> QED
  BY <1>1, <1>3, <1>4 DEF Inv

(* CreateNew keeps the invariant. *)
LEMMA CreateNewInv ==
  ASSUME Inv, NEW o \in Obj, CreateNew(o)
  PROVE  Inv'
<1>1. CASE free_clst = 0
  BY <1>1, QuietReturn DEF CreateNew
<1>2. CASE free_clst # 0
  <2>1. ChainsSound'
    BY QuietSound DEF Inv, CreateNew
  <2>2. TypeOK'
    BY <1>2, Params DEF Inv, TypeOK, CreateNew, alloc
  <2>3. Cursor' /\ NoInternalError'
    BY <1>2 DEF Inv, Cursor, NoInternalError, CreateNew
  <2> QED
    BY <2>1, <2>2, <2>3 DEF Inv
<1> QED
  BY <1>1, <1>2

(* A chain's own cluster is not free, so the insanity test does not fire. *)
LEMMA StretchInv ==
  ASSUME Inv, NEW o \in Obj, NEW c \in Clusters, Stretch(o, c)
  PROVE  Inv'
<1>1. CASE DiskError
  BY <1>1, DiskErrorInv
<1>2. ASSUME fat[c] < n_fatent, Return(IF fat[c] < 2 THEN "int_err" ELSE "ok"),
             UNCHANGED <<fat, alloc, fsinfo, sclust, owner, pos>>
      PROVE  Inv'
  <2>1. fat[c] # Free /\ fat[c] \in {Free, EOC} \cup Clusters
    BY Params DEF Inv, TypeOK, ChainsSound, InUse, Stretch
  <2>2. ~ (fat[c] < 2)
    BY <2>1, Params
  <2> QED
    BY <1>2, <2>2, QuietReturn
<1>3. ASSUME Return("full"), UNCHANGED <<fat, alloc, fsinfo, sclust, owner, pos>>
      PROVE  Inv'
  BY <1>3, QuietReturn
<1>4. ASSUME fat[c] >= n_fatent, pc' = "probe", obj' = o, clst' = c, scl' = c, ncl' = c,
             reuse' = NoReuse, ret' = "ok",
             UNCHANGED <<fat, alloc, fsinfo, sclust, owner, pos>>
      PROVE  Inv'
  <2>1. ChainsSound'
    BY <1>4, QuietSound DEF Inv
  <2>2. TypeOK'
    BY <1>4, Params DEF Inv, TypeOK, alloc
  <2>3. fat[c] = EOC /\ owner[c] = o
    BY <1>4, Params DEF Inv, TypeOK, Stretch
  <2>4. Cursor' /\ NoInternalError'
    BY <1>4, <2>3, Params DEF Cursor, NoInternalError
  <2> QED
    BY <2>1, <2>2, <2>4 DEF Inv
<1> QED
  BY <1>1, <1>2, <1>3, <1>4 DEF Stretch

(* The search of create_chain never leaves the FAT. *)
LEMMA NextClstType ==
  ASSUME NEW c \in 1 .. n_fatent - 1
  PROVE  NextClst(c) \in Clusters
BY Params DEF NextClst

(* Probe keeps the invariant. *)
LEMMA ProbeInv ==
  ASSUME Inv, Probe
  PROVE  Inv'
<1>1. CASE DiskError
  BY <1>1, DiskErrorInv
<1>2. CASE ~DiskError
  <2>1. ChainsSound'
    BY <1>2, QuietSound DEF Inv, Probe
  <2>2. NextClst(scl) \in Clusters
    BY NextClstType DEF Inv, TypeOK
  <2>5. /\ scl' \in 1 .. n_fatent - 1 /\ ncl' \in 1 .. n_fatent - 1
        /\ pc' \in {"mark", "scan"}
        /\ UNCHANGED <<fat, alloc, fsinfo, sclust, obj, clst, reuse, ret, owner, pos>>
    BY <1>2, <2>2, Params DEF Inv, TypeOK, Probe
  <2>3. TypeOK'
    BY <2>5 DEF Inv, TypeOK, alloc
  <2>4. Cursor' /\ NoInternalError'
    BY <1>2, <2>2 DEF Inv, Cursor, NoInternalError, Probe, Usable
  <2> QED
    BY <2>1, <2>3, <2>4 DEF Inv
<1> QED
  BY <1>1, <1>2

(* Scan keeps the invariant. *)
LEMMA ScanInv ==
  ASSUME Inv, Scan
  PROVE  Inv'
<1>1. CASE DiskError
  BY <1>1, DiskErrorInv
<1>2. ASSUME Return("full"), UNCHANGED <<fat, alloc, fsinfo, sclust, owner, pos>>
      PROVE  Inv'
  BY <1>2, QuietReturn
<1>3. ASSUME ncl' = NextClst(ncl),
             (pc' = "mark" /\ fat[ncl'] = Free) \/ pc' = "scan",
             UNCHANGED <<fat, alloc, fsinfo, sclust, obj, clst, scl, reuse, ret, owner, pos>>
      PROVE  Inv'
  <2>1. ChainsSound'
    BY <1>3, QuietSound DEF Inv
  <2>2. ncl' \in Clusters
    BY <1>3, NextClstType DEF Inv, TypeOK
  <2>3. TypeOK'
    BY <1>3, <2>2, Params DEF Inv, TypeOK, alloc
  <2>4. Cursor' /\ NoInternalError'
    BY <1>3, <2>2 DEF Inv, Cursor, NoInternalError, Scan
  <2> QED
    BY <2>1, <2>3, <2>4 DEF Inv
<1> QED
  BY <1>1, <1>2, <1>3 DEF Scan, Usable

(* The bookkeeping after a successful allocation. *)
LEMMA AllocatedType ==
  ASSUME TypeOK, Allocated, ncl \in Clusters, obj \in Obj
  PROVE  /\ last_clst' \in 0 .. n_fatent /\ free_clst' \in 0 .. n_fatent
         /\ fsi_flag' \in {0, 1, 128, 129} /\ fsinfo' = fsinfo
         /\ owner' = [owner EXCEPT ![ncl] = obj]
         /\ owner' \in [Clusters -> Obj \cup {None}]
         /\ pc' = "idle" /\ ret' = "ok" /\ Cursor' /\ NoInternalError'
         /\ obj' = None /\ clst' = 0 /\ scl' = 1 /\ ncl' = 1 /\ reuse' = n_fatent
<1>1. free_clst' \in 0 .. n_fatent /\ fsi_flag' \in {0, 1, 128, 129}
  BY FlagType, Params DEF Allocated, TypeOK
<1>2. /\ pc' = "idle" /\ ret' = "ok" /\ Cursor' /\ NoInternalError'
      /\ obj' = None /\ clst' = 0 /\ scl' = 1 /\ ncl' = 1 /\ reuse' = n_fatent
  BY ReturnLocals DEF Allocated, Return
<1>3. last_clst' \in 0 .. n_fatent /\ fsinfo' = fsinfo
  BY Params DEF Allocated
<1>4. owner' = [owner EXCEPT ![ncl] = obj] /\ owner' \in [Clusters -> Obj \cup {None}]
  BY DEF Allocated, TypeOK
<1> QED
  BY <1>1, <1>2, <1>3, <1>4

(* A new chain: its one cluster was free, so nothing led to it. *)
LEMMA NewChainSound ==
  ASSUME Inv, pc = "mark", clst = 0,
         fat' = [fat EXCEPT ![ncl] = EOC], owner' = [owner EXCEPT ![ncl] = obj],
         sclust' = [sclust EXCEPT ![obj] = ncl], pos' = [pos EXCEPT ![ncl] = 0]
  PROVE  ChainsSound'
<1>1. /\ ncl \in Clusters /\ fat[ncl] = Free /\ obj \in Obj /\ sclust[obj] = 0
      /\ owner[ncl] = None
  BY DEF Inv, Cursor, ChainsSound, InUse
<1>2. \A d \in Clusters : fat[d] # ncl
  BY <1>1 DEF Inv, ChainsSound, LinksOn
<1> USE <1>1, Params DEF Inv, TypeOK
<1>3. InUse' /\ LinkedOnce'
  BY <1>2 DEF ChainsSound, InUse, LinkedOnce
<1>4. LinksOn'
  BY <1>2 DEF ChainsSound, LinksOn
<1>5. OnePlace' /\ Starts'
  BY DEF ChainsSound, OnePlace, Starts
<1>6. AllLinked'
  <2> SUFFICES ASSUME NEW c \in Clusters, owner'[c] # None, c # sclust'[owner'[c]]
               PROVE  \E d \in Clusters : fat'[d] = c
    BY DEF AllLinked
  <2>1. c # ncl
    OBVIOUS
  <2>2. owner'[c] = owner[c] /\ owner[c] \in Obj
    BY <2>1
  <2>3. c # sclust[owner[c]]
    <3>1. CASE owner[c] = obj
      BY <3>1
    <3>2. CASE owner[c] # obj
      BY <2>2, <3>2
    <3> QED
      BY <3>1, <3>2
  <2>4. PICK d \in Clusters : fat[d] = c
    BY <2>2, <2>3 DEF ChainsSound, AllLinked
  <2>5. d # ncl
    BY <2>4
  <2> QED
    BY <2>4, <2>5
<1> QED
  BY <1>3, <1>4, <1>5, <1>6 DEF ChainsSound

(* Mark keeps the invariant. *)
LEMMA MarkInv ==
  ASSUME Inv, Mark
  PROVE  Inv'
<1>1. CASE DiskError
  BY <1>1, DiskErrorInv
<1>a. ncl \in Clusters /\ fat[ncl] = Free /\ obj \in Obj
  BY DEF Inv, Cursor, Mark
<1>b. ASSUME fat' = [fat EXCEPT ![ncl] = EOC]
      PROVE  fat' \in [Clusters -> {Free, EOC} \cup Clusters]
  BY <1>a, <1>b DEF Inv, TypeOK
<1>2. ASSUME fat' = [fat EXCEPT ![ncl] = EOC], clst = 0, Allocated,
             sclust' = [sclust EXCEPT ![obj] = ncl], pos' = [pos EXCEPT ![ncl] = 0]
      PROVE  Inv'
  <2>1. ChainsSound'
    BY <1>2, NewChainSound DEF Mark, Allocated
  <2>2. sclust' \in [Obj -> {0} \cup Clusters] /\ pos' \in [Clusters -> Nat]
    BY <1>2, <1>a DEF Inv, TypeOK
  <2>4. /\ last_clst' \in 0 .. n_fatent /\ free_clst' \in 0 .. n_fatent
        /\ fsi_flag' \in {0, 1, 128, 129} /\ fsinfo' = fsinfo
        /\ owner' \in [Clusters -> Obj \cup {None}]
        /\ pc' = "idle" /\ ret' = "ok"
        /\ obj' = None /\ clst' = 0 /\ scl' = 1 /\ ncl' = 1 /\ reuse' = n_fatent
    BY <1>2, <1>a, AllocatedType DEF Inv
  <2>3. TypeOK'
    BY <1>2, <1>b, <2>2, <2>4, Params DEF Inv, TypeOK
  <2> QED
    BY <1>2, <1>a, <2>1, <2>3, AllocatedType DEF Inv
<1>3. ASSUME fat' = [fat EXCEPT ![ncl] = EOC], clst # 0, pc' = "link",
             UNCHANGED <<alloc, fsinfo, sclust, locals, ret, owner, pos>>
      PROVE  Inv'
  <2>1. owner[ncl] = None
    BY <1>a DEF Inv, ChainsSound, InUse
  <2>2. \A d \in Clusters : fat[d] # ncl
    BY <1>a DEF Inv, ChainsSound, LinksOn
  <2>3. ChainsSound'
    BY <1>3, <1>a, <2>1, <2>2, Params
       DEF Inv, TypeOK, ChainsSound, InUse, LinksOn, LinkedOnce, OnePlace, Starts, AllLinked
  <2>4. TypeOK'
    BY <1>3, <1>b DEF Inv, TypeOK, alloc, locals
  <2>5. Cursor' /\ NoInternalError'
    BY <1>3, <1>a, <2>1, <2>2, Params DEF Inv, TypeOK, Cursor, NoInternalError, Mark, locals
  <2> QED
    BY <2>3, <2>4, <2>5 DEF Inv
<1> QED
  BY <1>1, <1>2, <1>3 DEF Mark

(* Linking a reserved cluster after the end of a chain. *)
LEMMA LinkSound ==
  ASSUME Inv, pc = "link", fat' = [fat EXCEPT ![clst] = ncl],
         owner' = [owner EXCEPT ![ncl] = obj], sclust' = sclust,
         pos' = [pos EXCEPT ![ncl] = pos[clst] + 1]
  PROVE  ChainsSound'
<1>1. /\ ncl \in Clusters /\ clst \in Clusters /\ obj \in Obj
      /\ fat[ncl] = EOC /\ owner[ncl] = None
      /\ fat[clst] = EOC /\ owner[clst] = obj /\ clst # ncl
      /\ \A d \in Clusters : fat[d] # ncl
  BY Params DEF Inv, Cursor
<1> USE <1>1, Params DEF Inv, TypeOK
<1>2. InUse' /\ LinkedOnce'
  BY DEF ChainsSound, InUse, LinkedOnce
<1>3. LinksOn'
  BY DEF ChainsSound, LinksOn
<1>4. \A d \in Clusters : owner[d] = obj => pos[d] # pos[clst] + 1
  <2> SUFFICES ASSUME NEW d \in Clusters, owner[d] = obj, pos[d] = pos[clst] + 1
               PROVE  FALSE
    OBVIOUS
  <2>1. d # sclust[obj]
    <3>1. pos[clst] \in Nat /\ sclust[obj] \in {0} \cup Clusters
      OBVIOUS
    <3>2. CASE sclust[obj] # 0
      <4>1. pos[sclust[obj]] = 0
        BY <3>2 DEF ChainsSound, Starts
      <4> HIDE DEF Inv, TypeOK
      <4> QED
        BY <3>1, <4>1
    <3>3. CASE sclust[obj] = 0
      BY <3>3
    <3> QED
      BY <3>2, <3>3
  <2>2. PICK e \in Clusters : fat[e] = d
    BY <2>1 DEF ChainsSound, AllLinked
  <2>3. owner[e] = obj /\ pos[d] = pos[e] + 1
    BY <2>2 DEF ChainsSound, LinksOn
  <2>4. pos[e] = pos[clst]
    <3>1. pos[e] \in Nat /\ pos[clst] \in Nat
      OBVIOUS
    <3> HIDE <1>1 DEF Inv, TypeOK
    <3> QED
      BY <2>3, <3>1
  <2>5. e = clst
    BY <2>3, <2>4 DEF ChainsSound, OnePlace
  <2> QED
    BY <2>2, <2>5
<1>5. OnePlace'
  BY <1>4 DEF ChainsSound, OnePlace
<1>6. Starts'
  BY DEF ChainsSound, Starts
<1>7. AllLinked'
  <2> SUFFICES ASSUME NEW c \in Clusters, owner'[c] # None, c # sclust'[owner'[c]]
               PROVE  \E d \in Clusters : fat'[d] = c
    BY DEF AllLinked
  <2>1. CASE c = ncl
    BY <2>1
  <2>2. CASE c # ncl
    <3>1. PICK d \in Clusters : fat[d] = c
      BY <2>2 DEF ChainsSound, AllLinked
    <3>2. d # clst
      BY <3>1
    <3> QED
      BY <3>1, <3>2
  <2> QED
    BY <2>1, <2>2
<1> QED
  BY <1>2, <1>3, <1>5, <1>6, <1>7 DEF ChainsSound

(* Link keeps the invariant. *)
LEMMA LinkInv ==
  ASSUME Inv, Link
  PROVE  Inv'
<1>1. CASE DiskError
  BY <1>1, DiskErrorInv
<1>2. ASSUME fat' = [fat EXCEPT ![clst] = ncl], Allocated, UNCHANGED sclust,
             pos' = [pos EXCEPT ![ncl] = pos[clst] + 1]
      PROVE  Inv'
  <2>1. ChainsSound'
    BY <1>2, LinkSound DEF Link, Allocated
  <2>2. ncl \in Clusters /\ clst \in Clusters /\ obj \in Obj
    BY DEF Inv, Cursor, Link
  <2>3. fat' \in [Clusters -> {Free, EOC} \cup Clusters] /\ pos' \in [Clusters -> Nat]
    <3>1. fat \in [Clusters -> {Free, EOC} \cup Clusters] /\ pos \in [Clusters -> Nat]
      BY DEF Inv, TypeOK
    <3> QED
      BY <1>2, <2>2, <3>1
  <2>4. /\ last_clst' \in 0 .. n_fatent /\ free_clst' \in 0 .. n_fatent
        /\ fsi_flag' \in {0, 1, 128, 129} /\ fsinfo' = fsinfo
        /\ owner' \in [Clusters -> Obj \cup {None}]
        /\ pc' = "idle" /\ ret' = "ok"
        /\ obj' = None /\ clst' = 0 /\ scl' = 1 /\ ncl' = 1 /\ reuse' = n_fatent
        /\ Cursor' /\ NoInternalError'
    BY <1>2, <2>2, AllocatedType DEF Inv
  <2>5. TypeOK'
    BY <1>2, <2>3, <2>4, Params DEF Inv, TypeOK
  <2> QED
    BY <2>1, <2>4, <2>5 DEF Inv
<1> QED
  BY <1>1, <1>2 DEF Link

(* Giving up a whole chain: its first cluster is linked from nowhere. *)
LEMMA RemoveAllInv ==
  ASSUME Inv, NEW o \in Obj, NEW r \in BOOLEAN, RemoveAll(o, r)
  PROVE  Inv'
<1>1. /\ sclust[o] \in Clusters /\ owner[sclust[o]] = o /\ pos[sclust[o]] = 0
      /\ fat[sclust[o]] # Free
  <2>1. sclust[o] # 0 /\ sclust[o] \in Clusters
    BY DEF Inv, TypeOK, RemoveAll
  <2>2. owner[sclust[o]] = o /\ pos[sclust[o]] = 0
    BY <2>1 DEF Inv, ChainsSound, Starts
  <2>3. fat[sclust[o]] # Free
    BY <2>1, <2>2, Params DEF Inv, ChainsSound, InUse
  <2> QED
    BY <2>1, <2>2, <2>3
<1>2. \A d \in Clusters : fat[d] # sclust[o]
  <2> SUFFICES ASSUME NEW d \in Clusters, fat[d] = sclust[o]
               PROVE  FALSE
    OBVIOUS
  <2>1. pos[sclust[o]] = pos[d] + 1
    BY <1>1 DEF Inv, ChainsSound, LinksOn
  <2>2. pos[d] \in Nat
    BY DEF Inv, TypeOK
  <2> QED
    BY <1>1, <2>1, <2>2
<1>3. \A c \in Clusters : owner'[c] = IF owner[c] = o THEN None ELSE owner[c]
  BY DEF RemoveAll, ChainFrom, Inv, TypeOK
<1>4. fat' = fat /\ pos' = pos /\ sclust' = [sclust EXCEPT ![o] = 0]
  BY DEF RemoveAll
<1>5. ChainsSound'
  <2> USE <1>3, <1>4, Params DEF Inv, TypeOK
  <2>1. InUse' /\ LinkedOnce' /\ OnePlace'
    BY DEF ChainsSound, InUse, LinkedOnce, OnePlace
  <2>2. LinksOn'
    <3> SUFFICES ASSUME NEW c \in Clusters, fat[c] \in Clusters
                 PROVE  /\ owner'[fat[c]] = owner'[c] /\ pos[fat[c]] = pos[c] + 1
                        /\ fat[fat[c]] # Free
      BY DEF LinksOn
    <3>1. /\ owner[fat[c]] = owner[c] /\ pos[fat[c]] = pos[c] + 1
          /\ fat[fat[c]] # Free
      BY DEF ChainsSound, LinksOn
    <3> QED
      BY <3>1
  <2>3. Starts'
    BY DEF ChainsSound, Starts
  <2>4. AllLinked'
    BY DEF ChainsSound, AllLinked
  <2> QED
    BY <2>1, <2>2, <2>3, <2>4 DEF ChainsSound
<1>6. TypeOK'
  <2>1. owner' \in [Clusters -> Obj \cup {None}] /\ sclust' \in [Obj -> {0} \cup Clusters]
    BY <1>4 DEF Inv, TypeOK, RemoveAll
  <2>2. reuse' \in 1 .. n_fatent /\ clst' \in 0 .. n_fatent
    BY <1>1, Params DEF RemoveAll
  <2> QED
    BY <2>1, <2>2, Params DEF Inv, TypeOK, RemoveAll, alloc
<1>7. Cursor' /\ NoInternalError'
  BY <1>1, <1>2, <1>3 DEF Cursor, NoInternalError, RemoveAll
<1> QED
  BY <1>5, <1>6, <1>7 DEF Inv

(* Cutting a chain after c. *)
LEMMA CutSound ==
  ASSUME Inv, NEW o \in Obj, NEW c \in Clusters, owner[c] = o, fat[c] \in Clusters,
         fat' = [fat EXCEPT ![c] = EOC], UNCHANGED <<sclust, pos>>,
         owner' = [d \in Clusters |->
                     IF d \in ChainFrom(o, pos[c] + 1) THEN None ELSE owner[d]]
  PROVE  ChainsSound'
<1> USE Params DEF Inv, TypeOK
<1>1. \A d \in Clusters :
        owner'[d] = IF owner[d] = o /\ pos[d] >= pos[c] + 1 THEN None ELSE owner[d]
  BY DEF ChainFrom
<1>2. InUse' /\ LinkedOnce' /\ OnePlace'
  BY <1>1 DEF ChainsSound, InUse, LinkedOnce, OnePlace
<1>3. LinksOn'
  <2> SUFFICES ASSUME NEW d \in Clusters, fat'[d] \in Clusters
               PROVE  /\ owner'[fat'[d]] = owner'[d] /\ pos'[fat'[d]] = pos'[d] + 1
                      /\ fat'[fat'[d]] # Free
    BY DEF LinksOn
  <2>1. d # c /\ fat'[d] = fat[d]
    OBVIOUS
  <2>2. owner[fat[d]] = owner[d] /\ pos[fat[d]] = pos[d] + 1 /\ fat[fat[d]] # Free
    BY <2>1 DEF ChainsSound, LinksOn
  <2>3. owner[d] = o => pos[d] # pos[c]
    BY <2>1 DEF ChainsSound, OnePlace
  <2>4. owner'[fat[d]] = owner'[d]
    <3>1. pos[d] \in Nat /\ pos[c] \in Nat /\ fat[d] \in Clusters
      BY <2>1
    <3> HIDE DEF Inv, TypeOK
    <3>2. owner[d] = o => (pos[fat[d]] >= pos[c] + 1 <=> pos[d] >= pos[c] + 1)
      BY <2>2, <2>3, <3>1
    <3> QED
      BY <1>1, <2>2, <3>1, <3>2
  <2> QED
    BY <2>1, <2>2, <2>4
<1>4. Starts'
  BY <1>1 DEF ChainsSound, Starts
<1>5. AllLinked'
  <2> SUFFICES ASSUME NEW d \in Clusters, owner'[d] # None, d # sclust'[owner'[d]]
               PROVE  \E e \in Clusters : fat'[e] = d
    BY DEF AllLinked
  <2>1. owner'[d] = owner[d] /\ (owner[d] = o => pos[d] < pos[c] + 1)
    BY <1>1
  <2>2. PICK e \in Clusters : fat[e] = d
    BY <2>1 DEF ChainsSound, AllLinked
  <2>3. owner[d] = owner[e] /\ pos[d] = pos[e] + 1
    BY <2>2 DEF ChainsSound, LinksOn
  <2>4. e # c
    BY <2>1, <2>3
  <2> QED
    BY <2>2, <2>4
<1> QED
  BY <1>2, <1>3, <1>4, <1>5 DEF ChainsSound

(* RemoveTail keeps the invariant. *)
LEMMA RemoveTailInv ==
  ASSUME Inv, NEW o \in Obj, NEW c \in Clusters, RemoveTail(o, c)
  PROVE  Inv'
<1>1. CASE DiskError
  BY <1>1, DiskErrorInv
<1>2. ASSUME Return("ok"), UNCHANGED <<fat, alloc, fsinfo, sclust, owner, pos>>
      PROVE  Inv'
  BY <1>2, QuietReturn
<1>3. fat[c] # Free /\ owner[c] = o
  BY Params DEF Inv, ChainsSound, InUse, RemoveTail
<1>4. ASSUME fat[c] < n_fatent,
             pc' = "free", obj' = o, clst' = fat[c], scl' = 1, ncl' = 1,
             reuse' = NoReuse, ret' = "ok", fat' = [fat EXCEPT ![c] = EOC],
             owner' = [d \in Clusters |->
                         IF d \in ChainFrom(o, pos[c] + 1) THEN None ELSE owner[d]],
             UNCHANGED <<sclust, pos>>, UNCHANGED <<alloc, fsinfo>>
      PROVE  Inv'
  <2>1. fat[c] \in Clusters
    BY <1>3, <1>4, Params DEF Inv, TypeOK
  <2>2. ChainsSound'
    BY <1>3, <1>4, <2>1, CutSound
  <2>3. /\ fat' \in [Clusters -> {Free, EOC} \cup Clusters]
        /\ owner' \in [Clusters -> Obj \cup {None}]
    BY <1>4 DEF Inv, TypeOK
  <2>4. TypeOK'
    BY <1>4, <2>1, <2>3, Params DEF Inv, TypeOK, alloc
  <2>5. /\ fat[fat[c]] # Free /\ owner[fat[c]] = o /\ pos[fat[c]] = pos[c] + 1
        /\ fat[c] # c
    BY <1>3, <2>1, Params DEF Inv, TypeOK, ChainsSound, LinksOn
  <2>6. owner'[fat[c]] = None
    BY <1>4, <2>1, <2>5 DEF ChainFrom, Inv, TypeOK
  <2>7. \A d \in Clusters : fat'[d] # fat[c]
    BY <1>4, <2>1, Params DEF Inv, TypeOK, ChainsSound, LinkedOnce
  <2>8. Cursor' /\ NoInternalError'
    BY <1>4, <2>1, <2>3, <2>5, <2>6, <2>7, Params DEF Inv, TypeOK, Cursor, NoInternalError
  <2> QED
    BY <2>2, <2>4, <2>8 DEF Inv
<1>5. ~(fat[c] < 2)
  <2>1. fat[c] \in {Free, EOC} \cup Clusters
    BY DEF Inv, TypeOK
  <2> QED
    BY <1>3, <2>1, Params
<1> QED
  BY <1>1, <1>2, <1>4, <1>5 DEF RemoveTail, MarkEnd, FirstRemoved

(* The count remove_chain keeps stays in range. *)
LEMMA CountFreedType ==
  ASSUME TypeOK, CountFreed
  PROVE  free_clst' \in 0 .. n_fatent /\ fsi_flag' \in {0, 1, 128, 129}
BY FlagType, Params DEF TypeOK, CountFreed

(* Freeing the first cluster of what is left of a removed chain. *)
LEMMA FreeSound ==
  ASSUME Inv, pc = "free", fat' = [fat EXCEPT ![clst] = Free],
         pos' = [pos EXCEPT ![clst] = 0], UNCHANGED <<sclust, owner>>
  PROVE  ChainsSound'
<1>1. /\ clst \in Clusters /\ fat[clst] # Free /\ owner[clst] = None
      /\ \A d \in Clusters : fat[d] # clst
  BY DEF Inv, Cursor
<1> USE <1>1, Params DEF Inv, TypeOK
<1>2. InUse' /\ LinkedOnce'
  BY DEF ChainsSound, InUse, LinkedOnce
<1>3. OnePlace' /\ Starts'
  BY DEF ChainsSound, OnePlace, Starts
<1>4. LinksOn'
  BY DEF ChainsSound, LinksOn
<1>5. AllLinked'
  <2> SUFFICES ASSUME NEW c \in Clusters, owner[c] # None, c # sclust[owner[c]]
               PROVE  \E d \in Clusters : fat'[d] = c
    BY DEF AllLinked
  <2>1. PICK d \in Clusters : fat[d] = c
    BY DEF ChainsSound, AllLinked
  <2>2. owner[d] = owner[c]
    BY <2>1 DEF ChainsSound, LinksOn
  <2>3. d # clst
    BY <2>2
  <2> QED
    BY <2>1, <2>3
<1> QED
  BY <1>2, <1>3, <1>4, <1>5 DEF ChainsSound

(* FreeOne keeps the invariant. *)
LEMMA FreeOneInv ==
  ASSUME Inv, FreeOne
  PROVE  Inv'
<1>1. CASE DiskError
  BY <1>1, DiskErrorInv
<1>2. /\ clst \in Clusters /\ fat[clst] # Free /\ owner[clst] = None
      /\ \A d \in Clusters : fat[d] # clst
  BY DEF Inv, Cursor, FreeOne
<1>3. ASSUME fat' = [fat EXCEPT ![clst] = Free], CountFreed,
             pos' = [pos EXCEPT ![clst] = 0],
             \/ /\ fat[clst] < n_fatent /\ clst' = fat[clst]
                /\ UNCHANGED <<last_clst, pc, obj, scl, ncl, reuse, ret>>
             \/ Removed,
             UNCHANGED <<fsinfo, sclust, owner>>
      PROVE  Inv'
  <2>1. ChainsSound'
    BY <1>3, FreeSound DEF FreeOne
  <2>2. fat' \in [Clusters -> {Free, EOC} \cup Clusters] /\ pos' \in [Clusters -> Nat]
    BY <1>2, <1>3 DEF Inv, TypeOK
  <2>3. free_clst' \in 0 .. n_fatent /\ fsi_flag' \in {0, 1, 128, 129}
    BY <1>3, CountFreedType DEF Inv
  <2>4. CASE Removed
    <3>1. TypeOK'
      BY <1>3, <2>2, <2>3, <2>4, ReturnLocals, Params DEF Inv, TypeOK, Removed
    <3> QED
      BY <2>1, <2>4, <3>1, ReturnLocals DEF Inv, Removed
  <2>5. CASE fat[clst] < n_fatent /\ clst' = fat[clst]
             /\ UNCHANGED <<last_clst, pc, obj, scl, ncl, reuse, ret>>
    <3>1. fat[clst] \in Clusters
      BY <1>2, <2>5, Params DEF Inv, TypeOK
    <3>2. TypeOK'
      BY <1>3, <2>2, <2>3, <2>5, <3>1, Params DEF Inv, TypeOK
    <3>3. /\ fat[fat[clst]] # Free /\ owner[fat[clst]] = None /\ fat[clst] # clst
      BY <1>2, <3>1, Params DEF Inv, TypeOK, ChainsSound, LinksOn
    <3>4. \A d \in Clusters : fat'[d] # fat[clst]
      BY <1>2, <1>3, <3>1, Params DEF Inv, TypeOK, ChainsSound, LinkedOnce
    <3>5. fat'[fat[clst]] # Free
      BY <1>3, <3>1, <3>3 DEF Inv, TypeOK
    <3>6. Cursor' /\ NoInternalError'
      BY <1>3, <2>5, <3>1, <3>3, <3>4, <3>5 DEF Inv, Cursor, NoInternalError, FreeOne
    <3> QED
      BY <2>1, <3>2, <3>6 DEF Inv
  <2> QED
    BY <1>3, <2>4, <2>5
<1> QED
  BY <1>1, <1>2, <1>3 DEF FreeOne, LoopOn

(* Every step keeps the invariant. *)
LEMMA NextInv ==
  ASSUME Inv, [Next]_vars
  PROVE  Inv'
<1>1. CASE UNCHANGED vars
  <2>1. ChainsSound'
    BY <1>1, QuietSound DEF Inv, vars
  <2>2. TypeOK'
    BY <1>1 DEF Inv, vars, alloc, locals, TypeOK
  <2>3. Cursor' /\ NoInternalError'
    BY <1>1 DEF Inv, vars, locals, Cursor, NoInternalError
  <2> QED
    BY <2>1, <2>2, <2>3 DEF Inv
<1>2. CASE Mount \/ SyncInfo \/ GetFree
  BY <1>2, MountInv, SyncInfoInv, GetFreeInv
<1>3. CASE \E o \in Obj : CreateNew(o)
  BY <1>3, CreateNewInv
<1>4. CASE \E o \in Obj, c \in Clusters : Stretch(o, c) \/ RemoveTail(o, c)
  BY <1>4, StretchInv, RemoveTailInv
<1>5. CASE \E o \in Obj, r \in BOOLEAN : RemoveAll(o, r)
  BY <1>5, RemoveAllInv
<1>6. CASE Step
  BY <1>6, ProbeInv, ScanInv, MarkInv, LinkInv, FreeOneInv DEF Step
<1> QED
  BY <1>1, <1>2, <1>3, <1>4, <1>5, <1>6 DEF Next, Op

(* The inductive invariant: what the chains are, and what a running function *)
(* knows about the clusters in its locals.                                   *)
THEOREM ChainInvariant == Spec => []Inv
<1>1. Init => Inv
  BY InitInv
<1>2. Inv /\ [Next]_vars => Inv'
  BY NextInv
<1> QED
  BY <1>1, <1>2, PTL DEF Spec

(* Every variable of the allocator keeps its type. *)
THEOREM ChainTypeOK == Spec => []TypeOK
<1>1. Inv => TypeOK
  BY DEF Inv
<1> QED
  BY <1>1, ChainInvariant, PTL

(* The chains stay disjoint, acyclic and fully linked under create_chain and *)
(* remove_chain, whichever of their FAT accesses fail.                       *)
THEOREM ChainsAreSound == Spec => []ChainsSound
<1>1. Inv => ChainsSound
  BY DEF Inv
<1> QED
  BY <1>1, ChainInvariant, PTL

(* create_chain and f_truncate never report FR_INT_ERR on a sound volume. *)
THEOREM ChainNoInternalError == Spec => []NoInternalError
<1>1. Inv => NoInternalError
  BY DEF Inv
<1> QED
  BY <1>1, ChainInvariant, PTL

-----------------------------------------------------------------------------
(* A FAT entry of a chain changes only in an operation on that chain. *)
LEMMA ForeignStep ==
  ASSUME Inv, [Next]_vars
  PROVE  [\A c \in Clusters : fat'[c] # fat[c] => owner[c] \in {None, obj, obj'}]_vars
<1> SUFFICES ASSUME Next, NEW c \in Clusters, fat'[c] # fat[c]
             PROVE  owner[c] \in {None, obj, obj'}
  OBVIOUS
<1>1. CASE Mount \/ SyncInfo \/ GetFree
  BY <1>1 DEF Mount, SyncInfo, GetFree
<1>2. CASE \E o \in Obj : CreateNew(o)
  BY <1>2 DEF CreateNew
<1>3. ASSUME NEW o \in Obj, NEW d \in Clusters, Stretch(o, d)
      PROVE  owner[c] \in {None, obj, obj'}
  BY <1>3 DEF Stretch, DiskError
<1>4. ASSUME NEW o \in Obj, NEW d \in Clusters, RemoveTail(o, d)
      PROVE  owner[c] \in {None, obj, obj'}
  <2>1. obj' = o /\ fat' = [fat EXCEPT ![d] = EOC] /\ owner[d] = o
    BY <1>4 DEF RemoveTail, DiskError, MarkEnd
  <2>2. c = d
    BY <2>1 DEF Inv, TypeOK
  <2> QED
    BY <2>1, <2>2
<1>5. CASE \E o \in Obj, r \in BOOLEAN : RemoveAll(o, r)
  BY <1>5 DEF RemoveAll
<1>6. CASE Probe \/ Scan
  BY <1>6 DEF Probe, Scan, DiskError
<1>7. CASE Mark
  <2>1. fat' = [fat EXCEPT ![ncl] = EOC] /\ ncl \in Clusters /\ owner[ncl] = None
    BY <1>7 DEF Mark, DiskError, Inv, Cursor, ChainsSound, InUse
  <2> QED
    BY <2>1 DEF Inv, TypeOK
<1>8. CASE Link
  <2>1. fat' = [fat EXCEPT ![clst] = ncl] /\ clst \in Clusters /\ owner[clst] = obj
    BY <1>8, Params DEF Link, DiskError, Inv, Cursor
  <2> QED
    BY <2>1 DEF Inv, TypeOK
<1>9. CASE FreeOne
  <2>1. fat' = [fat EXCEPT ![clst] = Free] /\ clst \in Clusters /\ owner[clst] = None
    BY <1>9 DEF FreeOne, DiskError, Inv, Cursor
  <2> QED
    BY <2>1 DEF Inv, TypeOK
<1>10. Op
  BY DEF Next
<1> DEFINE G == owner[c] \in {None, obj, obj'}
<1>11. ASSUME NEW o \in Obj, NEW d \in Clusters, Stretch(o, d) \/ RemoveTail(o, d) PROVE G
  BY <1>3, <1>4, <1>11
<1>12. CASE Step
  BY <1>6, <1>7, <1>8, <1>9, <1>12 DEF Step
<1>13. /\ Mount \/ SyncInfo \/ GetFree => G
       /\ (\E o \in Obj : CreateNew(o)) => G
       /\ (\E o \in Obj, r \in BOOLEAN : RemoveAll(o, r)) => G
       /\ Step => G
  BY <1>1, <1>2, <1>5, <1>12
<1> HIDE DEF G
<1>14. G
  BY Zenon, <1>10, <1>11, <1>13 DEF Op
<1> QED
  BY <1>14 DEF G

(* Work on one object never touches a cluster of another one. *)
THEOREM ChainNoForeignChange == Spec => NoForeignChange
<1>1. Inv /\ [Next]_vars =>
        [\A c \in Clusters : fat'[c] # fat[c] => owner[c] \in {None, obj, obj'}]_vars
  BY ForeignStep
<1> QED
  BY <1>1, ChainInvariant, PTL DEF Spec, NoForeignChange

-----------------------------------------------------------------------------
(* The free count and the search.  The count may be trusted when FSInfo is    *)
(* not used or its sector can always be read and written.                     *)
Trusted == ~(Fat32 /\ InfoMayFail)

(* A cluster marked but not yet linked is free for the count. *)
Pending == IF pc = "link" THEN 1 ELSE 0

(* The clusters the search has looked at. *)
Searched ==
  {c \in Clusters : IF ncl >= scl THEN scl < c /\ c <= ncl ELSE scl < c \/ c <= ncl}

CountInv ==
  /\ free_clst <= n_fatent - 2 => free_clst >= Cardinality(FreeSet) + Pending
  /\ pc = "unmounted" => fsinfo.free >= n_fatent - 2
  /\ Fat32 /\ pc # "unmounted" => fsi_flag \in {0, 1}
  /\ Fat32 /\ pc # "unmounted" /\ fsi_flag = 0 => fsinfo.free = free_clst
  /\ ~Fat32 => fsi_flag \in {128, 129}

SearchInv ==
  /\ pc = "scan" => \A c \in Searched : fat[c] # Free
  /\ pc \notin {"idle", "unmounted"} => ret = "ok"
  /\ FullMeansFull

(* What a step does to the number of free clusters. *)
LEMMA SameFree ==
  ASSUME fat' = fat
  PROVE  FreeSet' = FreeSet
BY DEF FreeSet

(* Marking a free cluster (put_fat of the end mark) lowers the count by one. *)
LEMMA TakeFree ==
  ASSUME TypeOK, NEW c \in Clusters, fat[c] = Free, fat' = [fat EXCEPT ![c] = EOC]
  PROVE  Cardinality(FreeSet') = Cardinality(FreeSet) - 1
<1>1. FreeSet' = FreeSet \ {c} /\ c \in FreeSet
  BY Params DEF FreeSet, TypeOK
<1> QED
  BY <1>1, FreeSetFinite, FS_RemoveElement

(* Freeing a cluster in use (put_fat of 0) raises the count by one. *)
LEMMA GiveFree ==
  ASSUME TypeOK, NEW c \in Clusters, fat[c] # Free, fat' = [fat EXCEPT ![c] = Free]
  PROVE  Cardinality(FreeSet') = Cardinality(FreeSet) + 1
<1>1. FreeSet' = FreeSet \cup {c} /\ c \notin FreeSet
  BY Params DEF FreeSet, TypeOK
<1> QED
  BY <1>1, FreeSetFinite, FS_AddElement

(* Rewriting an entry that stays in use leaves the count alone. *)
LEMMA RelinkFree ==
  ASSUME TypeOK, NEW c \in Clusters, fat[c] # Free,
         NEW v, v # Free, fat' = [fat EXCEPT ![c] = v]
  PROVE  FreeSet' = FreeSet
BY DEF FreeSet, TypeOK

(* The part of the state the count is about is left alone. *)
LEMMA QuietCount ==
  ASSUME Inv, CountInv, FreeSet' = FreeSet, UNCHANGED <<alloc, fsinfo>>,
         pc # "unmounted", pc' # "unmounted", pc' # "link"
  PROVE  CountInv'
<1>1. Cardinality(FreeSet) \in Nat /\ free_clst \in Nat /\ n_fatent \in Nat
  BY FreeSetFinite, Params DEF Inv, TypeOK
<1>2. Pending \in {0, 1} /\ Pending' = 0
  BY DEF Pending
<1>3. UNCHANGED <<free_clst, fsi_flag, fsinfo>>
  BY DEF alloc
<1>4. free_clst <= n_fatent - 2 => free_clst >= Cardinality(FreeSet)
  BY <1>1, <1>2 DEF CountInv
<1> QED
  BY <1>1, <1>2, <1>3, <1>4 DEF CountInv

(* Before the mount the FSInfo sector holds no count below the real one. *)
LEMMA InitCount ==
  ASSUME Init
  PROVE  CountInv /\ SearchInv
BY Params DEF Init, CountInv, SearchInv, FullMeansFull

(* Mount takes over an FSInfo count that is not too low. *)
LEMMA MountCount ==
  ASSUME Inv, CountInv, Trusted, Mount
  PROVE  CountInv'
<1>1. Cardinality(FreeSet) \in 0 .. n_fatent - 2 /\ FreeSet' = FreeSet
  BY FreeSetFinite, SameFree DEF Inv, Mount
<1>2. fsinfo' = fsinfo /\ pc' = "idle" /\ Pending' = 0
  BY DEF Mount, Return, Pending
<1>3. CASE Fat32
  <2>1. fsi_flag' = 0 /\ free_clst' = fsinfo.free /\ fsinfo.free \in 0 .. n_fatent
    BY <1>3 DEF Mount, Trusted, Inv, TypeOK
  <2>2. fsinfo.free <= n_fatent - 2 => fsinfo.free >= Cardinality(FreeSet)
    <3>1. CASE pc = "unmounted"
      BY <3>1, <1>1, <2>1, Params DEF CountInv
    <3>2. CASE pc = "idle" /\ fsi_flag # 1
      BY <3>2, <1>1, <1>3, <2>1, Params DEF CountInv, Pending
    <3> QED
      BY <3>1, <3>2 DEF Mount
  <2> QED
    BY <1>1, <1>2, <1>3, <2>1, <2>2, Params DEF CountInv
<1>4. CASE ~Fat32
  <2>1. fsi_flag' = 128 /\ free_clst' = n_fatent
    BY <1>4 DEF Mount
  <2> QED
    BY <1>1, <1>2, <1>4, <2>1, Params DEF CountInv
<1> QED
  BY <1>3, <1>4

(* SyncInfo keeps the free count from falling below the truth. *)
LEMMA SyncInfoCount ==
  ASSUME Inv, CountInv, Trusted, SyncInfo
  PROVE  CountInv'
<1>1. FreeSet' = FreeSet /\ free_clst' = free_clst /\ pc' = pc /\ pc = "idle"
  BY SameFree DEF SyncInfo
<1>2. Fat32 /\ ~InfoMayFail
  BY DEF SyncInfo, CountInv, Trusted
<1>3. fsi_flag' = 0 /\ fsinfo' = [free |-> free_clst, last |-> last_clst]
  BY <1>2 DEF SyncInfo
<1> QED
  BY <1>1, <1>2, <1>3 DEF CountInv, Pending

(* A changed allocation is flagged for sync_fs. *)
LEMMA FlagUp ==
  ASSUME CountInv, FlagChanged, pc # "unmounted"
  PROVE  (Fat32 => fsi_flag' = 1) /\ (~Fat32 => fsi_flag' = 129)
BY DEF CountInv, FlagChanged

(* GetFree keeps the free count from falling below the truth. *)
LEMMA GetFreeCount ==
  ASSUME Inv, CountInv, GetFree
  PROVE  CountInv'
<1>1. FreeSet' = FreeSet /\ pc' = pc /\ pc = "idle" /\ fsinfo' = fsinfo
  BY SameFree DEF GetFree
<1>2. Cardinality(FreeSet) \in Nat
  BY FreeSetFinite DEF Inv
<1>3. CASE free_clst' = Cardinality(FreeSet) /\ FlagChanged
  BY <1>1, <1>2, <1>3, FlagUp DEF CountInv, Pending
<1>4. CASE UNCHANGED <<free_clst, fsi_flag>>
  BY <1>1, <1>4 DEF CountInv, Pending
<1> QED
  BY <1>3, <1>4 DEF GetFree

(* A successful allocation takes one from a valid count. *)
LEMMA AllocatedCount ==
  ASSUME Inv, CountInv, Allocated, pc # "unmounted",
         Cardinality(FreeSet') = Cardinality(FreeSet) + Pending - 1
  PROVE  CountInv'
<1>1. Cardinality(FreeSet) \in Nat /\ free_clst \in Nat /\ n_fatent \in Nat /\ n_fatent > 2
  BY FreeSetFinite, Params DEF Inv, TypeOK
<1>2. Pending \in {0, 1} /\ Pending' = 0 /\ pc' = "idle" /\ fsinfo' = fsinfo
  BY DEF Pending, Allocated, Return
<1>3. CASE free_clst > 0 /\ free_clst <= n_fatent - 2
  <2>1. free_clst' = free_clst - 1 /\ FlagChanged
    BY <1>3 DEF Allocated
  <2>2. free_clst >= Cardinality(FreeSet) + Pending
    BY <1>3 DEF CountInv
  <2> QED
    BY <1>1, <1>2, <2>1, <2>2, FlagUp DEF CountInv
<1>4. CASE free_clst = 0
  <2>1. free_clst' = free_clst /\ fsi_flag' = fsi_flag
    BY <1>4 DEF Allocated
  <2>2. Cardinality(FreeSet) + Pending <= 0
    BY <1>1, <1>2, <1>4 DEF CountInv
  <2>3. free_clst' >= Cardinality(FreeSet')
    BY <1>1, <1>2, <1>4, <2>1, <2>2
  <2> QED
    BY <1>1, <1>2, <2>1, <2>3 DEF CountInv
<1>5. CASE free_clst > n_fatent - 2
  <2>1. free_clst' = free_clst /\ fsi_flag' = fsi_flag
    BY <1>1, <1>5 DEF Allocated
  <2> QED
    BY <1>1, <1>2, <1>5, <2>1 DEF CountInv
<1> QED
  BY <1>1, <1>3, <1>4, <1>5

(* Mark keeps the free count from falling below the truth. *)
LEMMA MarkCount ==
  ASSUME Inv, CountInv, Mark
  PROVE  CountInv'
<1>1. CASE DiskError
  BY <1>1, SameFree, QuietCount DEF Mark, DiskError, Return
<1>2. ASSUME fat' = [fat EXCEPT ![ncl] = EOC]
      PROVE  Cardinality(FreeSet') = Cardinality(FreeSet) - 1
  BY <1>2, TakeFree DEF Inv, Cursor, Mark
<1>3. Cardinality(FreeSet) \in Nat /\ Pending = 0 /\ pc = "mark"
  BY FreeSetFinite DEF Inv, Pending, Mark
<1>4. CASE fat' = [fat EXCEPT ![ncl] = EOC] /\ Allocated
  BY <1>2, <1>3, <1>4, AllocatedCount
<1>5. CASE /\ fat' = [fat EXCEPT ![ncl] = EOC] /\ pc' = "link"
           /\ UNCHANGED <<alloc, fsinfo, sclust, locals, ret, owner, pos>>
  <2>1. Pending' = 1 /\ Cardinality(FreeSet') + Pending' = Cardinality(FreeSet) + Pending
    BY <1>2, <1>3, <1>5 DEF Pending
  <2> QED
    BY <1>3, <1>5, <2>1 DEF CountInv, alloc
<1> QED
  BY <1>1, <1>4, <1>5 DEF Mark

(* Link keeps the free count from falling below the truth. *)
LEMMA LinkCount ==
  ASSUME Inv, CountInv, Link
  PROVE  CountInv'
<1>1. CASE DiskError
  BY <1>1, SameFree, QuietCount DEF Link, DiskError, Return
<1>2. ASSUME fat' = [fat EXCEPT ![clst] = ncl], Allocated
      PROVE  CountInv'
  <2>a. ncl \in Clusters /\ clst \in Clusters /\ fat[clst] = EOC
    BY Params DEF Inv, Cursor, Link
  <2>b. ncl # Free /\ fat[clst] # Free
    BY <2>a, Params
  <2>1. FreeSet' = FreeSet
    BY <1>2, <2>a, <2>b, RelinkFree DEF Inv
  <2>2. Cardinality(FreeSet) \in Nat /\ Pending = 1 /\ pc = "link"
    BY FreeSetFinite DEF Inv, Pending, Link
  <2> QED
    BY <1>2, <2>1, <2>2, AllocatedCount
<1> QED
  BY <1>1, <1>2 DEF Link

(* FreeOne keeps the free count from falling below the truth. *)
LEMMA FreeOneCount ==
  ASSUME Inv, CountInv, FreeOne
  PROVE  CountInv'
<1>1. CASE DiskError
  BY <1>1, SameFree, QuietCount DEF FreeOne, DiskError, Return
<1>2. CASE ~DiskError
  <2>1. clst \in Clusters /\ fat[clst] # Free
    BY DEF Inv, Cursor, FreeOne
  <2>2. /\ fat' = [fat EXCEPT ![clst] = Free] /\ CountFreed /\ fsinfo' = fsinfo
        /\ pc' \in {"free", "idle"} /\ pc = "free"
    BY <1>2, <2>1 DEF FreeOne, Removed, Return
  <2>3. Cardinality(FreeSet') = Cardinality(FreeSet) + 1
    BY <2>1, <2>2, GiveFree DEF Inv
  <2>4. /\ Cardinality(FreeSet) \in Nat /\ free_clst \in Nat /\ Pending = 0 /\ Pending' = 0
        /\ n_fatent \in Nat
    BY <2>2, FreeSetFinite, Params DEF Inv, TypeOK, Pending
  <2>5. CASE free_clst < n_fatent - 2
    <3>1. free_clst' = free_clst + 1 /\ FlagChanged
      BY <2>2, <2>5 DEF CountFreed
    <3> QED
      BY <2>2, <2>3, <2>4, <2>5, <3>1, FlagUp DEF CountInv
  <2>6. CASE ~(free_clst < n_fatent - 2)
    <3>1. free_clst' = free_clst /\ fsi_flag' = fsi_flag
      BY <2>2, <2>6 DEF CountFreed
    <3>2. TypeOK'
      BY FreeOneInv DEF Inv
    <3>3. Cardinality(FreeSet') <= n_fatent - 2
      <4>1. IsFiniteSet(Clusters) /\ Cardinality(Clusters) = n_fatent - 2
        BY FS_Interval, Params
      <4>2. FreeSet' \subseteq Clusters
        BY DEF FreeSet
      <4> QED
        BY ZenonT(60), <4>1, <4>2, FS_Subset
    <3> QED
      BY <2>2, <2>3, <2>4, <2>6, <3>1, <3>3 DEF CountInv
  <2> QED
    BY <2>5, <2>6
<1> QED
  BY <1>1, <1>2

(* Every step keeps the free count from falling below the truth. *)
LEMMA NextCount ==
  ASSUME Inv, CountInv, Trusted, [Next]_vars
  PROVE  CountInv'
<1>1. CASE UNCHANGED vars
  BY <1>1, SameFree DEF vars, alloc, CountInv, Pending
<1>2. CASE Mount \/ SyncInfo \/ GetFree
  BY <1>2, MountCount, SyncInfoCount, GetFreeCount
<1>3. ASSUME NEW o \in Obj, CreateNew(o)
      PROVE  CountInv'
  BY <1>3, SameFree, QuietCount DEF CreateNew, Return
<1>4. ASSUME NEW o \in Obj, NEW c \in Clusters, Stretch(o, c)
      PROVE  CountInv'
  BY <1>4, SameFree, QuietCount DEF Stretch, DiskError, Return
<1>5. ASSUME NEW o \in Obj, NEW c \in Clusters, RemoveTail(o, c)
      PROVE  CountInv'
  <2>1. owner[c] = o /\ fat[c] # Free
    BY <1>5, Params DEF Inv, ChainsSound, InUse, RemoveTail
  <2>2. fat' = fat \/ fat' = [fat EXCEPT ![c] = EOC]
    BY <1>5 DEF RemoveTail, DiskError, MarkEnd
  <2>3. FreeSet' = FreeSet
    BY <2>1, <2>2, SameFree, RelinkFree, Params DEF Inv
  <2> QED
    BY <1>5, <2>3, QuietCount DEF RemoveTail, DiskError, Return
<1>6. ASSUME NEW o \in Obj, NEW r \in BOOLEAN, RemoveAll(o, r)
      PROVE  CountInv'
  BY <1>6, SameFree, QuietCount DEF RemoveAll
<1>7. CASE Probe
  BY <1>7, SameFree, QuietCount DEF Probe, DiskError, Return
<1>8. CASE Scan
  BY <1>8, SameFree, QuietCount DEF Scan, DiskError, Return
<1>9. CASE Mark \/ Link \/ FreeOne
  BY <1>9, MarkCount, LinkCount, FreeOneCount
<1> QED
  BY <1>1, <1>2, <1>3, <1>4, <1>5, <1>6, <1>7, <1>8, <1>9 DEF Next, Op, Step

(* The search: it has seen no free cluster, and has seen all when it gives up. *)
LEMMA QuietSearch ==
  ASSUME SearchInv, pc' # "scan", ret' # "full",
         pc' \notin {"idle", "unmounted"} => ret' = "ok"
  PROVE  SearchInv'
BY DEF SearchInv, FullMeansFull

(* A count of zero, which create_chain trusts, means that nothing is free. *)
LEMMA CountZero ==
  ASSUME Inv, CountInv, free_clst = 0, fat' = fat
  PROVE  FreeSet' = {}
<1>1. Cardinality(FreeSet) \in Nat /\ IsFiniteSet(FreeSet)
  BY FreeSetFinite DEF Inv
<1>2. Cardinality(FreeSet) = 0
  BY <1>1, Params DEF CountInv, Pending
<1> QED
  BY <1>1, <1>2, FS_EmptySet, SameFree

(* CreateNew keeps what the search has established. *)
LEMMA CreateNewSearch ==
  ASSUME Inv, CountInv, SearchInv, NEW o \in Obj, CreateNew(o)
  PROVE  SearchInv'
<1>1. CASE free_clst = 0
  BY <1>1, CountZero DEF CreateNew, Return, SearchInv, FullMeansFull
<1>2. CASE free_clst # 0
  <2>1. pc' = "scan" /\ ret' = "ok" /\ ncl' = scl' /\ scl' \in 1 .. n_fatent - 1
    BY <1>2, Params DEF CreateNew, Inv, TypeOK
  <2>2. Searched' = {}
    BY <2>1, Params DEF Searched
  <2> QED
    BY <2>1, <2>2 DEF SearchInv, FullMeansFull
<1> QED
  BY <1>1, <1>2

(* Stretch keeps what the search has established. *)
LEMMA StretchSearch ==
  ASSUME Inv, CountInv, SearchInv, NEW o \in Obj, NEW c \in Clusters, Stretch(o, c)
  PROVE  SearchInv'
<1>1. CASE ret' # "full"
  BY <1>1, QuietSearch DEF Stretch, DiskError, Return
<1>2. CASE ret' = "full"
  <2>1. free_clst = 0 /\ fat' = fat /\ pc' = "idle"
    BY <1>2 DEF Stretch, DiskError, Return
  <2> QED
    BY <2>1, CountZero DEF SearchInv, FullMeansFull
<1> QED
  BY <1>1, <1>2

(* Probe keeps what the search has established. *)
LEMMA ProbeSearch ==
  ASSUME Inv, SearchInv, Probe
  PROVE  SearchInv'
<1>1. CASE pc' # "scan"
  <2>1. CASE DiskError
    BY <1>1, <2>1, QuietSearch DEF DiskError, Return
  <2>2. CASE pc' = "mark" /\ ret' = ret
    <3>1. ret = "ok"
      BY DEF Probe, SearchInv
    <3> QED
      BY <2>2, <3>1, QuietSearch
  <2> QED
    BY <1>1, <2>1, <2>2 DEF Probe
<1>2. CASE pc' = "scan"
  <2>1. ret' = "ok" /\ ncl' = scl' /\ scl' \in 1 .. n_fatent - 1
    BY <1>2, Params DEF Probe, DiskError, Return, SearchInv, Inv, TypeOK
  <2>2. Searched' = {}
    BY <2>1, Params DEF Searched
  <2> QED
    BY <1>2, <2>1, <2>2 DEF SearchInv, FullMeansFull
<1> QED
  BY <1>1, <1>2

(* Scan keeps what the search has established. *)
LEMMA ScanSearch ==
  ASSUME Inv, SearchInv, Scan
  PROVE  SearchInv'
<1> USE Params DEF Inv, TypeOK
<1>1. fat' = fat /\ FreeSet' = FreeSet /\ pc = "scan" /\ ret = "ok"
  BY SameFree DEF Scan, DiskError, SearchInv
<1>2. CASE pc' # "scan" /\ ret' # "full"
  BY <1>1, <1>2, QuietSearch DEF Scan, DiskError, Return
<1>3. CASE WrapFull /\ Return("full")
  <2>1. Searched = Clusters
    BY <1>3 DEF Searched, WrapFull
  <2> QED
    BY <1>1, <1>3, <2>1 DEF SearchInv, FullMeansFull, FreeSet, Return
<1> DEFINE n == NextClst(ncl)
<1>4. n \in Clusters /\ n = (IF ncl + 1 >= n_fatent THEN 2 ELSE ncl + 1)
  BY NextClstType DEF NextClst
<1>5. CASE ~WrapFull /\ fat[n] # Free /\ n = scl /\ Return("full")
  <2>1. Clusters \subseteq Searched \cup {n}
    BY <1>4, <1>5 DEF Searched, WrapFull
  <2> HIDE DEF Inv, TypeOK
  <2>2. \A c \in Clusters : fat[c] # Free
    BY <1>1, <1>5, <2>1 DEF SearchInv
  <2>3. FreeSet = {}
    BY <2>2 DEF FreeSet
  <2> QED
    BY <1>1, <1>5, <2>3 DEF SearchInv, FullMeansFull, Return
<1>6. CASE ~WrapFull /\ fat[n] # Free /\ n # scl /\ ncl' = n
           /\ UNCHANGED <<fat, pc, scl, ret>>
  <2>1. Searched' \subseteq Searched \cup {n}
    <3>1. ncl \in Nat /\ scl \in Nat /\ n \in Nat /\ n_fatent \in Nat /\ ncl < n_fatent
      BY <1>4 DEF Clusters
    <3> SUFFICES ASSUME NEW c \in Clusters, c \in Searched'
                 PROVE  c \in Searched \/ c = n
      BY <1>6 DEF Searched
    <3>2. c \in Nat /\ c >= 2 /\ c < n_fatent
      BY DEF Clusters
    <3> HIDE DEF Inv, TypeOK, n
    <3> QED
      BY <1>4, <1>6, <3>1, <3>2 DEF Searched, WrapFull
  <2> QED
    BY <1>1, <1>6, <2>1 DEF SearchInv, FullMeansFull
<1> QED
  BY <1>1, <1>2, <1>3, <1>5, <1>6 DEF Scan, Usable, SearchOver, DiskError, Return

(* Every step keeps what the search has established. *)
LEMMA NextSearch ==
  ASSUME Inv, CountInv, SearchInv, [Next]_vars
  PROVE  SearchInv'
<1>1. CASE UNCHANGED vars
  BY <1>1 DEF vars, alloc, locals, SearchInv, Searched, FullMeansFull, FreeSet
<1>2. CASE Mount \/ SyncInfo \/ GetFree
  BY <1>2, QuietSearch DEF Mount, SyncInfo, GetFree, Return
<1>3. ASSUME NEW o \in Obj, CreateNew(o) PROVE SearchInv'
  BY <1>3, CreateNewSearch
<1>4. ASSUME NEW o \in Obj, NEW c \in Clusters, Stretch(o, c) PROVE SearchInv'
  BY <1>4, StretchSearch
<1>5. ASSUME NEW o \in Obj, NEW c \in Clusters, RemoveTail(o, c) PROVE SearchInv'
  BY <1>5, QuietSearch DEF RemoveTail, DiskError, Return
<1>6. ASSUME NEW o \in Obj, NEW r \in BOOLEAN, RemoveAll(o, r) PROVE SearchInv'
  BY <1>6, QuietSearch DEF RemoveAll
<1>7. CASE Probe \/ Scan
  BY <1>7, ProbeSearch, ScanSearch
<1>8. CASE Mark
  BY <1>8, QuietSearch DEF Mark, DiskError, Return, Allocated, SearchInv
<1>9. CASE Link
  BY <1>9, QuietSearch DEF Link, DiskError, Return, Allocated, SearchInv
<1>10. CASE FreeOne
  BY <1>10, QuietSearch DEF FreeOne, DiskError, Return, Removed, SearchInv
<1> QED
  BY <1>1, <1>2, <1>3, <1>4, <1>5, <1>6, <1>7, <1>8, <1>9, <1>10 DEF Next, Op, Step

(* When the FSInfo sector is not used, or can always be read and written, the *)
(* count in the FATFS object is never too low.                                *)
THEOREM ChainCountNotUnder == Trusted => (Spec => []CountNotUnder)
<1> SUFFICES ASSUME Trusted PROVE Spec => []CountNotUnder
  OBVIOUS
<1>1. Init => CountInv
  BY InitCount
<1>2. Inv /\ CountInv /\ [Next]_vars => CountInv'
  BY NextCount
<1>3. Inv /\ CountInv => CountNotUnder
  <2>1. ASSUME Inv, CountInv PROVE CountNotUnder
    <3>1. Cardinality(FreeSet) \in Nat /\ Pending \in {0, 1} /\ free_clst \in Nat
      BY <2>1, FreeSetFinite DEF Inv, TypeOK, Pending
    <3> QED
      BY <2>1, <3>1, Params DEF CountInv, CountNotUnder
  <2> QED
    BY <2>1
<1> QED
  BY <1>1, <1>2, <1>3, ChainInvariant, PTL DEF Spec

(* Under the same condition create_chain reports a full volume only when no *)
(* cluster is free.                                                         *)
THEOREM ChainFullMeansFull == Trusted => (Spec => []FullMeansFull)
<1> SUFFICES ASSUME Trusted PROVE Spec => []FullMeansFull
  OBVIOUS
<1>1. Init => CountInv /\ SearchInv
  BY InitCount
<1>2. Inv /\ CountInv /\ SearchInv /\ [Next]_vars => CountInv' /\ SearchInv'
  BY NextCount, NextSearch
<1>3. SearchInv => FullMeansFull
  BY DEF SearchInv
<1> QED
  BY <1>1, <1>2, <1>3, ChainInvariant, PTL DEF Spec
===============================================================================
