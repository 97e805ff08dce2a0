------------------------- MODULE ClusterChainRefinement -------------------------
(***************************************************************************)
(* What ClusterChain does to the set of clusters: no cluster is lost, and   *)
(* its chains are the files of ClusterPool.                                 *)
(***************************************************************************)
EXTENDS ClusterChainProofs, SequenceTheorems

(* A leaf is tried with the SMT solver, then with Zenon, then with the SMT    *)
(* solver and more time, unless it names its prover.                          *)
USE SMTT(10), Zenon, SMTT(60)

USE DEF Clusters, Free, EOC, Unknown, NoReuse

-----------------------------------------------------------------------------
(* What becomes of the clusters of a chain.  The end of a chain is its last   *)
(* place; as long as no FAT access failed, the clusters in use and in no      *)
(* chain are the one being allocated or what is left of the chain being       *)
(* removed, in one piece from clst to its end.                                *)
EndLast ==
  \A c, d \in Clusters :
    owner[c] # None /\ owner[d] = owner[c] /\ fat[c] = EOC => pos[d] <= pos[c]

Stray(c) == owner[c] = None /\ fat[c] # Free

Strays ==
  /\ pc \notin {"link", "free"} => \A c \in Clusters : ~Stray(c)
  /\ pc = "link" => \A c \in Clusters : Stray(c) => c = ncl
  /\ pc = "free" =>
       /\ \A c \in Clusters : Stray(c) => pos[c] >= pos[clst]
       /\ \A c, d \in Clusters : Stray(c) /\ Stray(d) /\ pos[c] = pos[d] => c = d
       /\ \A c, d \in Clusters : Stray(c) /\ Stray(d) /\ fat[c] = EOC => pos[d] <= pos[c]

LeakInv == EndLast /\ failed \in BOOLEAN /\ (~failed => Strays)

(* LeakInv holds initially. *)
LEMMA InitLeak == ASSUME Init PROVE LeakInv
BY Params DEF Init, LeakInv, EndLast, Strays, Stray

(* A step that leaves FAT and chains alone, outside the two middle stages. *)
LEMMA QuietLeak ==
  ASSUME LeakInv, UNCHANGED <<fat, owner, pos>>, History,
         \/ ret' = "disk_err"
         \/ pc \notin {"link", "free"} /\ pc' \notin {"link", "free"}
  PROVE  LeakInv'
<1>1. EndLast'
  BY DEF LeakInv, EndLast
<1>2. failed' \in BOOLEAN
  BY Zenon DEF History, LeakInv
<1>3. ~failed' => Strays'
  <2> SUFFICES ASSUME ~failed' PROVE Strays'
    OBVIOUS
  <2>1. ~failed /\ ret' # "disk_err"
    BY Zenon DEF History, LeakInv
  <2> QED
    BY <2>1 DEF LeakInv, Strays, Stray
<1> QED
  BY Zenon, <1>1, <1>2, <1>3 DEF LeakInv

(* A failed FAT access. *)
LEMMA DiskErrorLeak == ASSUME LeakInv, DiskError, History PROVE LeakInv'
BY QuietLeak DEF DiskError, Return

(* The allocation of a cluster: marked, then linked. *)
LEMMA MarkLeak == ASSUME Inv, LeakInv, Mark, History PROVE LeakInv'
<1>1. CASE DiskError
  BY <1>1, DiskErrorLeak
<1>2. /\ ncl \in Clusters /\ fat[ncl] = Free /\ obj \in Obj /\ owner[ncl] = None
      /\ pc = "mark" /\ (clst = 0 => sclust[obj] = 0)
  BY DEF Inv, Cursor, Mark, ChainsSound, InUse
<1>3. failed' \in BOOLEAN /\ (failed => failed')
  BY Zenon DEF History, LeakInv
<1>4. ~failed => \A c \in Clusters : ~Stray(c)
  BY <1>2 DEF LeakInv, Strays
<1> USE Params DEF Inv, TypeOK
<1>5. CASE /\ fat' = [fat EXCEPT ![ncl] = EOC] /\ clst = 0 /\ Allocated
           /\ sclust' = [sclust EXCEPT ![obj] = ncl] /\ pos' = [pos EXCEPT ![ncl] = 0]
  <2>1. owner' = [owner EXCEPT ![ncl] = obj] /\ pc' = "idle"
    BY <1>5 DEF Allocated, Return
  <2>2. \A c \in Clusters : owner[c] # obj
    BY <1>2, <1>5 DEF ChainsSound, Starts
  <2>3. EndLast'
    BY <1>2, <1>5, <2>1, <2>2 DEF LeakInv, EndLast
  <2>4. ~failed => Strays'
    BY <1>2, <1>4, <1>5, <2>1 DEF Strays, Stray
  <2> QED
    BY Zenon, <1>3, <2>3, <2>4 DEF LeakInv
<1>6. CASE /\ fat' = [fat EXCEPT ![ncl] = EOC] /\ pc' = "link"
           /\ UNCHANGED <<alloc, fsinfo, sclust, locals, ret, owner, pos>>
  <2>1. EndLast'
    BY <1>2, <1>6 DEF LeakInv, EndLast
  <2>2. ~failed => Strays'
    BY <1>2, <1>4, <1>6 DEF Strays, Stray, locals
  <2> QED
    BY Zenon, <1>3, <2>1, <2>2 DEF LeakInv
<1> QED
  BY <1>1, <1>5, <1>6 DEF Mark

LEMMA LinkLeak == ASSUME Inv, LeakInv, Link, History PROVE LeakInv'
<1>1. CASE DiskError
  BY <1>1, DiskErrorLeak
<1>2. /\ ncl \in Clusters /\ clst \in Clusters /\ obj \in Obj /\ pc = "link"
      /\ fat[ncl] = EOC /\ owner[ncl] = None /\ fat[clst] = EOC /\ owner[clst] = obj
      /\ clst # ncl
  BY Params DEF Inv, Cursor, Link
<1>3. failed' \in BOOLEAN /\ (failed => failed')
  BY Zenon DEF History, LeakInv
<1>4. ~failed => \A c \in Clusters : Stray(c) => c = ncl
  BY <1>2 DEF LeakInv, Strays
<1>5. CASE /\ fat' = [fat EXCEPT ![clst] = ncl] /\ Allocated
           /\ pos' = [pos EXCEPT ![ncl] = pos[clst] + 1]
  <2>1. owner' = [owner EXCEPT ![ncl] = obj] /\ pc' = "idle"
    BY <1>5 DEF Allocated, Return
  <2>2. \A d \in Clusters : owner[d] = obj => pos[d] <= pos[clst]
    BY <1>2, Params DEF LeakInv, EndLast
  <2> USE Params DEF Inv, TypeOK
  <2>3. EndLast'
    <3> SUFFICES ASSUME NEW c \in Clusters, NEW d \in Clusters, owner'[c] # None,
                        owner'[d] = owner'[c], fat'[c] = EOC
                 PROVE  pos'[d] <= pos'[c]
      BY DEF EndLast
    <3>1. c # clst
      BY <1>2, <1>5
    <3>2. CASE c = ncl
      BY <1>2, <1>5, <2>1, <2>2, <3>2
    <3>3. CASE c # ncl
      <4>1. owner[c] # obj
        BY <1>2, <1>5, <2>1, <2>2, <3>1, <3>3 DEF LeakInv, EndLast, ChainsSound, OnePlace
      <4> QED
        BY <1>2, <1>5, <2>1, <3>1, <3>3, <4>1 DEF LeakInv, EndLast
    <3> QED
      BY <3>2, <3>3
  <2>4. ~failed => Strays'
    BY <1>2, <1>4, <1>5, <2>1 DEF Strays, Stray
  <2> QED
    BY Zenon, <1>3, <2>3, <2>4 DEF LeakInv
<1> QED
  BY <1>1, <1>5 DEF Link

(* A whole chain given up becomes the one piece remove_chain frees. *)
LEMMA RemoveAllLeak ==
  ASSUME Inv, LeakInv, NEW o \in Obj, NEW r \in BOOLEAN, RemoveAll(o, r), History
  PROVE  LeakInv'
<1>1. /\ pc = "idle" /\ pc' = "free" /\ clst' = sclust[o] /\ ret' = "ok" /\ fat' = fat /\ pos' = pos
      /\ sclust[o] \in Clusters /\ owner[sclust[o]] = o /\ pos[sclust[o]] = 0
  BY DEF Inv, TypeOK, ChainsSound, Starts, RemoveAll
<1>2. \A c \in Clusters : owner'[c] = IF owner[c] = o THEN None ELSE owner[c]
  BY DEF RemoveAll, ChainFrom, Inv, TypeOK
<1>3. failed' \in BOOLEAN /\ (failed => failed')
  BY Zenon DEF History, LeakInv
<1>4. EndLast'
  BY <1>1, <1>2 DEF LeakInv, EndLast
<1>5. ASSUME ~failed PROVE Strays'
  <2>1. \A c \in Clusters : ~Stray(c)
    BY <1>1, <1>5 DEF LeakInv, Strays
  <2>2. \A c \in Clusters : Stray(c)' => owner[c] = o /\ fat[c] # Free
    BY <1>1, <1>2, <2>1 DEF Stray
  <2>3. \A c \in Clusters : pos[c] >= 0
    BY DEF Inv, TypeOK
  <2>4. \A c, d \in Clusters : Stray(c)' /\ Stray(d)' /\ pos[c] = pos[d] => c = d
    BY <2>2, Params DEF Inv, ChainsSound, OnePlace
  <2>5. \A c, d \in Clusters : Stray(c)' /\ Stray(d)' /\ fat[c] = EOC => pos[d] <= pos[c]
    BY <2>2, Params DEF LeakInv, EndLast
  <2> QED
    BY <1>1, <2>3, <2>4, <2>5 DEF Strays
<1> QED
  BY Zenon, <1>3, <1>4, <1>5 DEF LeakInv

(* So does the tail f_truncate cuts off. *)
LEMMA RemoveTailLeak ==
  ASSUME Inv, LeakInv, NEW o \in Obj, NEW c \in Clusters, RemoveTail(o, c), History
  PROVE  LeakInv'
<1>1. pc = "idle" /\ owner[c] = o /\ fat[c] # Free /\ fat[c] \in {Free, EOC} \cup Clusters
  BY Params DEF Inv, TypeOK, ChainsSound, InUse, RemoveTail
<1>2. CASE DiskError
  BY <1>2, DiskErrorLeak
<1>3. CASE Return("ok") /\ UNCHANGED <<fat, alloc, fsinfo, sclust, owner, pos>>
  BY <1>1, <1>3, QuietLeak DEF Return
<1>4. CASE /\ fat[c] < n_fatent /\ ~(fat[c] < 2)
           /\ pc' = "free" /\ clst' = fat[c] /\ ret' = "ok"
           /\ fat' = [fat EXCEPT ![c] = EOC]
           /\ owner' = [d \in Clusters |->
                          IF d \in ChainFrom(o, pos[c] + 1) THEN None ELSE owner[d]]
           /\ pos' = pos
  <2>1. fat[c] \in Clusters /\ pos[fat[c]] = pos[c] + 1 /\ o # None
    BY <1>1, <1>4, Params DEF Inv, ChainsSound, LinksOn
  <2>2. \A d \in Clusters :
          owner'[d] = IF owner[d] = o /\ pos[d] >= pos[c] + 1 THEN None ELSE owner[d]
    BY <1>4 DEF ChainFrom
  <2>3. \A d \in Clusters : fat'[d] = IF d = c THEN EOC ELSE fat[d]
    BY <1>4 DEF Inv, TypeOK
  <2>4. \A d \in Clusters : pos[d] \in Nat
    BY DEF Inv, TypeOK
  <2>5. failed' \in BOOLEAN /\ (failed => failed')
    BY Zenon DEF History, LeakInv
  <2>6. EndLast'
    <3> SUFFICES ASSUME NEW d \in Clusters, NEW e \in Clusters, owner'[d] # None,
                        owner'[e] = owner'[d], fat'[d] = EOC
                 PROVE  pos[e] <= pos[d]
      BY <1>4 DEF EndLast
    <3>1. owner[d] # None /\ owner[e] = owner[d] /\ (owner[e] = o => ~(pos[e] >= pos[c] + 1))
      BY <2>2
    <3>2. CASE d = c
      BY <1>1, <2>4, <3>1, <3>2
    <3>3. CASE d # c
      BY <2>3, <3>1, <3>3 DEF LeakInv, EndLast
    <3> QED
      BY <3>2, <3>3
  <2>7. ASSUME ~failed PROVE Strays'
    <3>1. \A d \in Clusters : ~Stray(d)
      BY <1>1, <2>7 DEF LeakInv, Strays
    <3>2. \A d \in Clusters : Stray(d)' => owner[d] = o /\ pos[d] >= pos[c] + 1 /\ d # c /\ fat'[d] = fat[d]
      BY <1>1, <2>1, <2>2, <2>3, <2>4, <3>1 DEF Stray
    <3>3. \A d, e \in Clusters : Stray(d)' /\ Stray(e)' /\ pos[d] = pos[e] => d = e
      BY <2>1, <3>2 DEF Inv, ChainsSound, OnePlace
    <3>4. \A d, e \in Clusters : Stray(d)' /\ Stray(e)' /\ fat'[d] = EOC => pos[e] <= pos[d]
      BY <2>1, <3>2 DEF LeakInv, EndLast
    <3> QED
      BY <1>4, <2>1, <3>2, <3>3, <3>4 DEF Strays
  <2> QED
    BY Zenon, <2>5, <2>6, <2>7 DEF LeakInv
<1>5. ~(fat[c] < 2)
  BY <1>1, Params
<1> QED
  BY <1>2, <1>3, <1>4, <1>5 DEF RemoveTail, MarkEnd, FirstRemoved

(* The piece loses its first cluster, and is gone after its end. *)
LEMMA FreeOneLeak == ASSUME Inv, LeakInv, FreeOne, History PROVE LeakInv'
<1>1. CASE DiskError
  BY <1>1, DiskErrorLeak
<1>2. clst \in Clusters /\ fat[clst] # Free /\ owner[clst] = None /\ pc = "free"
  BY DEF Inv, Cursor, FreeOne
<1>3. ASSUME fat' = [fat EXCEPT ![clst] = Free], pos' = [pos EXCEPT ![clst] = 0], owner' = owner,
             \/ fat[clst] < n_fatent /\ clst' = fat[clst] /\ pc' = pc
             \/ ~(fat[clst] < n_fatent) /\ pc' = "idle"
      PROVE  LeakInv'
  <2>1. failed' \in BOOLEAN /\ (failed => failed')
    BY Zenon DEF History, LeakInv
  <2>2. \A d \in Clusters : d # clst => fat'[d] = fat[d] /\ pos'[d] = pos[d]
    BY <1>3 DEF Inv, TypeOK
  <2>3. \A d \in Clusters : pos[d] \in Nat
    BY DEF Inv, TypeOK
  <2>4. EndLast'
    BY <1>2, <1>3, <2>2 DEF LeakInv, EndLast
  <2>5. ASSUME ~failed PROVE Strays'
    <3>1. /\ \A c \in Clusters : Stray(c) => pos[c] >= pos[clst]
          /\ \A c, d \in Clusters : Stray(c) /\ Stray(d) /\ pos[c] = pos[d] => c = d
          /\ \A c, d \in Clusters : Stray(c) /\ Stray(d) /\ fat[c] = EOC => pos[d] <= pos[c]
      BY <1>2, <2>5 DEF LeakInv, Strays
    <3>2. \A c \in Clusters : Stray(c)' => c # clst /\ Stray(c) /\ fat'[c] = fat[c] /\ pos'[c] = pos[c]
      BY <1>2, <1>3, <2>2 DEF Stray, Inv, TypeOK
    <3>3. Stray(clst)
      BY <1>2 DEF Stray
    <3>4. \A c \in Clusters : Stray(c)' => pos[c] >= pos[clst] + 1
      BY <1>2, <2>3, <3>1, <3>2, <3>3
    <3>5. CASE fat[clst] < n_fatent /\ clst' = fat[clst] /\ pc' = pc
      <4>1. fat[clst] \in Clusters
        BY <1>2, <3>5, Params DEF Inv, TypeOK
      <4>2. pos[clst'] = pos[clst] + 1 /\ clst' # clst
        BY <1>2, <2>3, <3>5, <4>1 DEF Inv, ChainsSound, LinksOn
      <4>3. pos'[clst'] = pos[clst] + 1
        BY <2>2, <3>5, <4>1, <4>2
      <4> QED
        BY <1>2, <3>1, <3>2, <3>4, <3>5, <4>3 DEF Strays
    <3>6. CASE ~(fat[clst] < n_fatent) /\ pc' = "idle"
      <4>1. fat[clst] = EOC
        BY <1>2, <3>6, Params DEF Inv, TypeOK
      <4>2. \A c \in Clusters : ~Stray(c)'
        BY <1>2, <2>3, <3>1, <3>2, <3>3, <3>4, <4>1
      <4> QED
        BY <3>6, <4>2 DEF Strays
    <3> QED
      BY <1>3, <3>5, <3>6
  <2> QED
    BY Zenon, <2>1, <2>4, <2>5 DEF LeakInv
<1> QED
  BY <1>1, <1>2, <1>3 DEF FreeOne, LoopOn, Removed, Return

(* Every step keeps LeakInv. *)
LEMMA NextLeak == ASSUME Inv, LeakInv, [Next]_vars PROVE LeakInv'
<1>1. CASE UNCHANGED vars
  BY <1>1 DEF vars, locals, LeakInv, EndLast, Strays, Stray
<1>2. ASSUME Next PROVE LeakInv'
  <2>0. Op /\ History
    BY <1>2 DEF Next
  <2> DEFINE G == LeakInv'
  <2>1. CASE Mount \/ SyncInfo \/ GetFree
    BY <2>0, <2>1, QuietLeak DEF Mount, SyncInfo, GetFree, Return
  <2>2. ASSUME NEW o \in Obj, CreateNew(o) PROVE G
    BY <2>0, <2>2, QuietLeak DEF CreateNew, Return
  <2>3. ASSUME NEW o \in Obj, NEW c \in Clusters, Stretch(o, c) PROVE G
    BY <2>0, <2>3, QuietLeak DEF Stretch, DiskError, Return
  <2>4. ASSUME NEW o \in Obj, NEW c \in Clusters, RemoveTail(o, c) PROVE G
    BY <2>0, <2>4, RemoveTailLeak
  <2>5. ASSUME NEW o \in Obj, NEW r \in BOOLEAN, RemoveAll(o, r) PROVE G
    BY <2>0, <2>5, RemoveAllLeak
  <2>6. CASE Probe
    BY <2>0, <2>6, QuietLeak DEF Probe, DiskError, Return
  <2>7. CASE Scan
    BY <2>0, <2>7, QuietLeak DEF Scan, DiskError, Return
  <2>8. (Probe \/ Scan \/ Mark \/ Link \/ FreeOne) => G
    BY <2>0, <2>6, <2>7, MarkLeak, LinkLeak, FreeOneLeak
  <2>9. Mount \/ SyncInfo \/ GetFree => G
    BY <2>1
  <2> HIDE DEF G
  <2>10. G
    BY Zenon, <2>0, <2>2, <2>3, <2>4, <2>5, <2>8, <2>9 DEF Op, Step
  <2> QED
    BY <2>10 DEF G
<1> QED
  BY <1>1, <1>2

(* Without a failed FAT access no cluster is lost: between the operations    *)
(* every cluster that is not free is in the chain of an object.              *)
THEOREM ChainNoLeak == Spec => []NoLeak
<1>1. Init => LeakInv
  BY InitLeak
<1>2. Inv /\ LeakInv /\ [Next]_vars => LeakInv'
  BY NextLeak
<1>3. LeakInv => NoLeak
  BY DEF LeakInv, Strays, Stray, NoLeak
<1> QED
  BY <1>1, <1>2, <1>3, ChainInvariant, PTL DEF Spec

-----------------------------------------------------------------------------
(* The pool of clusters and sequences (module ClusterPool) behind the FAT.    *)
(* The places of a chain are 0 .. n - 1 without a gap, and its last cluster   *)
(* has the end mark; this gives Chain(o) its length and its elements.         *)
NoGap ==
  \A c \in Clusters : owner[c] # None =>
    \A p \in 0 .. pos[c] : \E d \in Clusters : owner[d] = owner[c] /\ pos[d] = p

HasEnd ==
  \A o \in Obj : sclust[o] # 0 => \E c \in Clusters : owner[c] = o /\ fat[c] = EOC

Places == Inv /\ LeakInv /\ NoGap /\ HasEnd

Count(o) == Cardinality(ChainFrom(o, 0))

Shape ==
  \A o \in Obj :
    /\ Count(o) \in Nat /\ Chain(o) \in Seq(Clusters) /\ Len(Chain(o)) = Count(o)
    /\ \A c \in Clusters : owner[c] = o => pos[c] + 1 \in 1 .. Count(o) /\ Chain(o)[pos[c] + 1] = c
    /\ \A i \in 1 .. Count(o) :
         Chain(o)[i] \in Clusters /\ owner[Chain(o)[i]] = o /\ pos[Chain(o)[i]] = i - 1
    /\ \A e \in Clusters : owner[e] = o /\ fat[e] = EOC => Count(o) = pos[e] + 1
    /\ sclust[o] = 0 => Count(o) = 0

(* The number of clusters of a chain, by its end. *)
LEMMA CountEnd ==
  ASSUME Places, NEW o \in Obj, NEW e \in Clusters, owner[e] = o, fat[e] = EOC
  PROVE  /\ Count(o) = pos[e] + 1
         /\ \A c \in Clusters : owner[c] = o => pos[c] \in 0 .. pos[e]
         /\ \A p \in 0 .. pos[e] : \E c \in Clusters : owner[c] = o /\ pos[c] = p
<1>0. o # None /\ pos[e] \in Nat /\ \A c \in Clusters : pos[c] \in Nat
  BY Params DEF Places, Inv, TypeOK
<1> DEFINE S == ChainFrom(o, 0)
           T == 0 .. pos[e]
           f == [c \in S |-> pos[c]]
<1>1. \A c : c \in S <=> c \in Clusters /\ owner[c] = o
  BY <1>0 DEF ChainFrom
<1>2. \A c \in Clusters : owner[c] = o => pos[c] \in T
  BY <1>0 DEF Places, LeakInv, EndLast
<1>3. \A p \in T : \E c \in Clusters : owner[c] = o /\ pos[c] = p
  BY <1>0 DEF Places, NoGap
<1>4. \A c, d \in S : pos[c] = pos[d] => c = d
  BY <1>0, <1>1 DEF Places, Inv, ChainsSound, OnePlace
<1>5. IsFiniteSet(S)
  <2>1. IsFiniteSet(Clusters)
    BY FS_Interval, Params
  <2>2. S \subseteq Clusters
    BY DEF ChainFrom
  <2> QED
    BY <2>1, <2>2, FS_Subset
<1> HIDE DEF S, T
<1>6. f \in Bijection(S, T)
  BY <1>1, <1>2, <1>3, <1>4 DEF Bijection, Injection, Surjection, IsInjective
<1>7. Cardinality(T) = Cardinality(S)
  BY <1>5, <1>6, FS_Bijection DEF ExistsBijection
<1>8. Cardinality(T) = pos[e] + 1
  <2>1. 0 \in Int /\ pos[e] \in Int /\ ~(0 > pos[e]) /\ pos[e] - 0 + 1 = pos[e] + 1
    BY <1>0
  <2> QED
    BY <2>1, FS_Interval DEF T
<1> QED
  BY <1>2, <1>3, <1>7, <1>8 DEF Count, S, T

(* A chain as a sequence. *)
LEMMA ShapeHolds == Places => Shape
<1> SUFFICES ASSUME Places, NEW o \in Obj
             PROVE  /\ Count(o) \in Nat /\ Chain(o) \in Seq(Clusters) /\ Len(Chain(o)) = Count(o)
                    /\ \A c \in Clusters : owner[c] = o =>
                         pos[c] + 1 \in 1 .. Count(o) /\ Chain(o)[pos[c] + 1] = c
                    /\ \A i \in 1 .. Count(o) :
                         Chain(o)[i] \in Clusters /\ owner[Chain(o)[i]] = o /\ pos[Chain(o)[i]] = i - 1
                    /\ \A e \in Clusters : owner[e] = o /\ fat[e] = EOC => Count(o) = pos[e] + 1
                    /\ sclust[o] = 0 => Count(o) = 0
  BY DEF Shape
<1>0. o # None /\ \A c \in Clusters : pos[c] \in Nat
  BY Params DEF Places, Inv, TypeOK
<1>1. \A c : c \in ChainFrom(o, 0) <=> c \in Clusters /\ owner[c] = o
  BY <1>0 DEF ChainFrom
<1>2. \A e \in Clusters : owner[e] = o /\ fat[e] = EOC => Count(o) = pos[e] + 1
  BY CountEnd
<1>3. sclust[o] = 0 => Count(o) = 0
  <2>1. ASSUME sclust[o] = 0 PROVE ChainFrom(o, 0) = {}
    BY <1>1, <2>1 DEF Places, Inv, ChainsSound, Starts
  <2> QED
    BY <2>1, FS_EmptySet DEF Count
<1>4. /\ Count(o) \in Nat
      /\ \A c \in Clusters : owner[c] = o => pos[c] \in 0 .. Count(o) - 1
      /\ \A p \in 0 .. Count(o) - 1 : \E c \in Clusters : owner[c] = o /\ pos[c] = p
  <2>1. CASE sclust[o] = 0
    BY <1>3, <2>1 DEF Places, Inv, ChainsSound, Starts
  <2>2. CASE sclust[o] # 0
    <3>1. PICK e \in Clusters : owner[e] = o /\ fat[e] = EOC
      BY <2>2 DEF Places, HasEnd
    <3>2. /\ Count(o) = pos[e] + 1
          /\ \A c \in Clusters : owner[c] = o => pos[c] \in 0 .. pos[e]
          /\ \A p \in 0 .. pos[e] : \E c \in Clusters : owner[c] = o /\ pos[c] = p
      BY <3>1, CountEnd
    <3>3. Count(o) \in Nat /\ Count(o) - 1 = pos[e]
      BY <1>0, <3>2
    <3> QED
      BY <3>2, <3>3
  <2> QED
    BY <2>1, <2>2
<1>5. Chain(o) = [i \in 1 .. Count(o) |-> CHOOSE c \in ChainFrom(o, 0) : pos[c] = i - 1]
  BY DEF Chain, Count
<1>6. ASSUME NEW i \in 1 .. Count(o)
      PROVE  Chain(o)[i] \in Clusters /\ owner[Chain(o)[i]] = o /\ pos[Chain(o)[i]] = i - 1
  <2>1. i - 1 \in 0 .. Count(o) - 1
    BY <1>4
  <2>2. \E c \in ChainFrom(o, 0) : pos[c] = i - 1
    BY <1>1, <1>4, <2>1
  <2>3. Chain(o)[i] = CHOOSE c \in ChainFrom(o, 0) : pos[c] = i - 1
    BY <1>5
  <2>4. Chain(o)[i] \in ChainFrom(o, 0) /\ pos[Chain(o)[i]] = i - 1
    BY Zenon, <2>2, <2>3
  <2> QED
    BY <1>1, <2>4
<1>7. Chain(o) \in [1 .. Count(o) -> Clusters]
  BY <1>5, <1>6
<1>8. Chain(o) \in Seq(Clusters) /\ Len(Chain(o)) = Count(o)
  <2>1. Chain(o) \in Seq(Clusters)
    BY Zenon, <1>4, <1>7, SeqDef
  <2>2. DOMAIN Chain(o) = 1 .. Len(Chain(o)) /\ Len(Chain(o)) \in Nat
    BY <2>1, LenProperties
  <2>3. DOMAIN Chain(o) = 1 .. Count(o)
    BY <1>5
  <2> QED
    BY <1>4, <2>1, <2>2, <2>3
<1>9. ASSUME NEW c \in Clusters, owner[c] = o
      PROVE  pos[c] + 1 \in 1 .. Count(o) /\ Chain(o)[pos[c] + 1] = c
  <2>1. pos[c] + 1 \in 1 .. Count(o) /\ (pos[c] + 1) - 1 = pos[c]
    BY <1>0, <1>4, <1>9
  <2> DEFINE d == Chain(o)[pos[c] + 1]
  <2>2. d \in Clusters /\ owner[d] = o /\ pos[d] = pos[c]
    BY <1>6, <2>1
  <2>3. d = c
    BY <1>0, <1>9, <2>2 DEF Places, Inv, ChainsSound, OnePlace
  <2> QED
    BY <2>1, <2>3
<1> QED
  BY Zenon, <1>2, <1>3, <1>4, <1>6, <1>8, <1>9

LEMMA ShapeHoldsNext == Places' => Shape'
BY ShapeHolds, PTL

(* A chain none of whose clusters changes hands or place stays the same. *)
LEMMA OtherChain ==
  ASSUME Places, Places', NEW q \in Obj,
         \A d \in Clusters : owner'[d] = q <=> owner[d] = q,
         \A d \in Clusters : owner[d] = q => pos'[d] = pos[d]
  PROVE  Chain(q)' = Chain(q)
<1>0. Shape /\ Shape'
  BY ShapeHolds, ShapeHoldsNext
<1>1. Count(q)' = Count(q)
  <2>1. \A d \in Clusters : pos[d] \in Nat /\ pos'[d] \in Nat
    BY DEF Places, Inv, TypeOK
  <2>2. ChainFrom(q, 0)' = ChainFrom(q, 0)
    BY <2>1 DEF ChainFrom
  <2> QED
    BY <2>2 DEF Count
<1>2. ASSUME NEW i \in 1 .. Count(q) PROVE Chain(q)'[i] = Chain(q)[i]
  <2>1. /\ Chain(q)[i] \in Clusters /\ owner[Chain(q)[i]] = q /\ pos[Chain(q)[i]] = i - 1
    BY <1>0 DEF Shape
  <2> DEFINE d == Chain(q)[i]
  <2>2. owner'[d] = q /\ pos'[d] = i - 1
    BY <2>1
  <2>3. (i - 1) + 1 = i
    OBVIOUS
  <2>4. Chain(q)'[pos'[d] + 1] = d
    BY <1>0, <2>1, <2>2 DEF Shape
  <2> QED
    BY <2>2, <2>3, <2>4
<1>3. /\ Chain(q) \in Seq(Clusters) /\ Len(Chain(q)) = Count(q)
      /\ Chain(q)' \in Seq(Clusters) /\ Len(Chain(q)') = Count(q)
  BY <1>0, <1>1 DEF Shape
<1> QED
  BY <1>2, <1>3, SeqEqual

(* The clusters in the sequences are the ones with an owner. *)
LEMMA HeldOwned ==
  ASSUME Places, NEW c \in Clusters
  PROVE  c \in CP!Held <=> owner[c] # None
<1>0. Shape
  BY ShapeHolds
<1>1. CP!Held = UNION {{Chain(o)[i] : i \in 1 .. Len(Chain(o))} : o \in Obj}
  BY DEF CP!Held, CP!Elems
<1>2. ASSUME c \in CP!Held PROVE owner[c] # None
  <2>1. PICK o \in Obj : \E i \in 1 .. Len(Chain(o)) : c = Chain(o)[i]
    BY <1>1, <1>2
  <2>2. PICK i \in 1 .. Len(Chain(o)) : c = Chain(o)[i]
    BY <2>1
  <2> QED
    BY <1>0, <2>2, Params DEF Shape
<1>3. ASSUME owner[c] # None PROVE c \in CP!Held
  <2>1. owner[c] \in Obj
    BY <1>3 DEF Places, Inv, TypeOK
  <2>2. pos[c] + 1 \in 1 .. Len(Chain(owner[c])) /\ Chain(owner[c])[pos[c] + 1] = c
    BY <1>0, <2>1 DEF Shape
  <2> QED
    BY <1>1, <2>1, <2>2
<1> QED
  BY <1>2, <1>3

(* A cluster put at the end of a chain is the pool's Attach. *)
LEMMA MapsAttach ==
  ASSUME Places, Places', NEW o \in Obj, NEW c \in Clusters, owner[c] = None,
         owner' = [owner EXCEPT ![c] = o], pos' = [pos EXCEPT ![c] = Count(o)],
         fat'[c] = EOC, FreeSet' = FreeSet \ {c}
  PROVE  CP!Next
<1>0. Shape /\ Shape' /\ o # None
  BY ShapeHolds, ShapeHoldsNext, Params
<1>1. /\ owner'[c] = o /\ pos'[c] = Count(o)
      /\ \A d \in Clusters : d # c => owner'[d] = owner[d] /\ pos'[d] = pos[d]
  BY DEF Places, Inv, TypeOK
<1>2. /\ Chain(o) \in Seq(Clusters) /\ Len(Chain(o)) = Count(o) /\ Count(o) \in Nat
      /\ Chain(o)' \in Seq(Clusters) /\ Len(Chain(o)') = Count(o) + 1
      /\ Chain(o)'[Count(o) + 1] = c
  BY <1>0, <1>1 DEF Shape
<1>3. ASSUME NEW i \in 1 .. Count(o) PROVE Chain(o)'[i] = Chain(o)[i]
  <2> DEFINE d == Chain(o)[i]
  <2>1. d \in Clusters /\ owner[d] = o /\ pos[d] = i - 1
    BY <1>0 DEF Shape
  <2>2. owner'[d] = o /\ pos'[d] = i - 1 /\ (i - 1) + 1 = i
    BY <1>0, <1>1, <2>1
  <2>3. Chain(o)'[pos'[d] + 1] = d
    BY <1>0, <2>1, <2>2 DEF Shape
  <2> QED
    BY <2>2, <2>3
<1>4. Chain(o)' = Append(Chain(o), c)
  <2>1. /\ Append(Chain(o), c) \in Seq(Clusters) /\ Len(Append(Chain(o), c)) = Count(o) + 1
        /\ \A i \in 1 .. Count(o) : Append(Chain(o), c)[i] = Chain(o)[i]
        /\ Append(Chain(o), c)[Count(o) + 1] = c
    BY <1>2, AppendProperties
  <2>2. \A i \in 1 .. Len(Chain(o)') : Chain(o)'[i] = Append(Chain(o), c)[i]
    BY <1>2, <1>3, <2>1
  <2> QED
    BY <1>2, <2>1, <2>2, SeqEqual
<1>5. ASSUME NEW q \in Obj, q # o PROVE Chain(q)' = Chain(q)
  <2>1. q # None
    BY Params
  <2>2. \A d \in Clusters : owner'[d] = q <=> owner[d] = q
    BY <1>1, <1>5, <2>1
  <2>3. \A d \in Clusters : owner[d] = q => pos'[d] = pos[d]
    BY <1>1, <2>1
  <2> QED
    BY <2>2, <2>3, OtherChain
<1>6. [q \in Obj |-> Chain(q)]' = [[q \in Obj |-> Chain(q)] EXCEPT ![o] = Append(@, c)]
  BY <1>4, <1>5
<1>7. c \in Clusters \ CP!Held
  BY HeldOwned
<1> QED
  BY <1>6, <1>7 DEF CP!Next, CP!Attach

(* A chain that keeps its first n clusters is the pool's Cut. *)
LEMMA MapsCut ==
  ASSUME Places, Places', NEW o \in Obj, NEW n \in 0 .. Count(o) - 1, Count(o)' = n,
         \A d \in Clusters : owner'[d] = IF owner[d] = o /\ pos[d] >= n THEN None ELSE owner[d],
         pos' = pos, FreeSet' = FreeSet
  PROVE  CP!Next
<1>0. Shape /\ Shape' /\ o # None
  BY ShapeHolds, ShapeHoldsNext, Params
<1>2. /\ Chain(o) \in Seq(Clusters) /\ Len(Chain(o)) = Count(o) /\ Count(o) \in Nat
      /\ Chain(o)' \in Seq(Clusters) /\ Len(Chain(o)') = n /\ n \in Nat /\ n < Count(o)
  BY <1>0 DEF Shape
<1>3. ASSUME NEW i \in 1 .. n PROVE Chain(o)'[i] = Chain(o)[i]
  <2> DEFINE d == Chain(o)[i]
  <2>1. i \in 1 .. Count(o)
    BY <1>2
  <2>2. d \in Clusters /\ owner[d] = o /\ pos[d] = i - 1
    BY <1>0, <2>1 DEF Shape
  <2>3. owner'[d] = o /\ pos'[d] = i - 1 /\ (i - 1) + 1 = i
    <3>1. ~(i - 1 >= n) /\ (i - 1) + 1 = i
      BY <1>2
    <3>2. ~(pos[d] >= n)
      BY <2>2, <3>1
    <3> QED
      BY <2>2, <3>1, <3>2
  <2>4. Chain(o)'[pos'[d] + 1] = d
    BY <1>0, <2>2, <2>3 DEF Shape
  <2> QED
    BY <2>3, <2>4
<1>4. Chain(o)' = SubSeq(Chain(o), 1, n)
  <2>0. \A i \in 1 .. n : Chain(o)[i] \in Clusters
    <3>1. \A i \in 1 .. n : i \in 1 .. Count(o)
      BY <1>2
    <3> QED
      BY <1>0, <3>1 DEF Shape
  <2>1. /\ SubSeq(Chain(o), 1, n) \in Seq(Clusters) /\ Len(SubSeq(Chain(o), 1, n)) = n
        /\ \A i \in 1 .. n : SubSeq(Chain(o), 1, n)[i] = Chain(o)[i]
    <3>1. 1 \in Int /\ n \in Int /\ (1 <= n => n - 1 + 1 = n) /\ (~(1 <= n) => n = 0)
      BY <1>2
    <3>2. SubSeq(Chain(o), 1, n) \in Seq(Clusters) /\ Len(SubSeq(Chain(o), 1, n)) = n
      BY <2>0, <3>1, SubSeqProperties
    <3>3. ASSUME NEW i \in 1 .. n PROVE SubSeq(Chain(o), 1, n)[i] = Chain(o)[i]
      BY <1>2
    <3> QED
      BY <3>2, <3>3
  <2> QED
    BY <1>2, <1>3, <2>1, SeqEqual
<1>5. ASSUME NEW q \in Obj, q # o PROVE Chain(q)' = Chain(q)
  <2>1. q # None
    BY Params
  <2>2. \A d \in Clusters : owner'[d] = q <=> owner[d] = q
    BY <1>5, <2>1
  <2> QED
    BY <2>2, OtherChain
<1>6. [q \in Obj |-> Chain(q)]' = [[q \in Obj |-> Chain(q)] EXCEPT ![o] = SubSeq(@, 1, n)]
  BY <1>4, <1>5
<1>7. n \in 0 .. Len([q \in Obj |-> Chain(q)][o]) - 1
  BY <1>2
<1> QED
  BY <1>6, <1>7 DEF CP!Next, CP!Cut

-----------------------------------------------------------------------------
(* What a step does to the chains: nothing, or one of six things. *)
Stays == UNCHANGED <<fat, sclust, owner, pos>>

Marks(c) ==
  /\ owner[c] = None /\ fat[c] = Free
  /\ fat' = [fat EXCEPT ![c] = EOC] /\ UNCHANGED <<sclust, owner, pos>>

Founds(o, c) ==
  /\ owner[c] = None /\ fat[c] = Free /\ sclust[o] = 0
  /\ fat' = [fat EXCEPT ![c] = EOC] /\ sclust' = [sclust EXCEPT ![o] = c]
  /\ owner' = [owner EXCEPT ![c] = o] /\ pos' = [pos EXCEPT ![c] = 0]

Extends(o, c, e) ==
  /\ owner[c] = None /\ fat[c] = EOC /\ owner[e] = o /\ fat[e] = EOC
  /\ fat' = [fat EXCEPT ![e] = c] /\ sclust' = sclust
  /\ owner' = [owner EXCEPT ![c] = o] /\ pos' = [pos EXCEPT ![c] = pos[e] + 1]

Drops(o) ==
  /\ sclust[o] # 0 /\ sclust' = [sclust EXCEPT ![o] = 0] /\ UNCHANGED <<fat, pos>>
  /\ \A d \in Clusters : owner'[d] = IF owner[d] = o THEN None ELSE owner[d]

Trims(o, c) ==
  /\ owner[c] = o /\ fat[c] \in Clusters
  /\ fat' = [fat EXCEPT ![c] = EOC] /\ UNCHANGED <<sclust, pos>>
  /\ \A d \in Clusters :
       owner'[d] = IF owner[d] = o /\ pos[d] >= pos[c] + 1 THEN None ELSE owner[d]

Frees(c) ==
  /\ owner[c] = None /\ fat[c] # Free
  /\ fat' = [fat EXCEPT ![c] = Free] /\ pos' = [pos EXCEPT ![c] = 0]
  /\ UNCHANGED <<sclust, owner>>

Effect ==
  \/ Stays
  \/ \E c \in Clusters : Marks(c) \/ Frees(c)
  \/ \E o \in Obj, c \in Clusters : Founds(o, c) \/ Trims(o, c)
  \/ \E o \in Obj, c, e \in Clusters : Extends(o, c, e)
  \/ \E o \in Obj : Drops(o)

LEMMA StepEffect == ASSUME Inv, [Next]_vars PROVE Effect
<1>1. UNCHANGED vars \/ Mount \/ SyncInfo \/ GetFree => Stays
  BY DEF vars, Mount, SyncInfo, GetFree, Stays
<1>2. ASSUME NEW o \in Obj, CreateNew(o) PROVE Stays
  BY <1>2 DEF CreateNew, Stays
<1>3. ASSUME NEW o \in Obj, NEW c \in Clusters, Stretch(o, c) PROVE Stays
  BY <1>3 DEF Stretch, DiskError, Stays
<1>4. ASSUME NEW o \in Obj, NEW c \in Clusters, RemoveTail(o, c) PROVE Stays \/ Trims(o, c)
  <2>1. owner[c] = o /\ fat[c] # Free /\ fat[c] \in {Free, EOC} \cup Clusters
    BY <1>4, Params DEF Inv, TypeOK, ChainsSound, InUse, RemoveTail
  <2>2. ~(fat[c] < 2) /\ (fat[c] < n_fatent => fat[c] \in Clusters)
    BY <2>1, Params
  <2>3. \/ Stays
        \/ /\ fat[c] < n_fatent
           /\ fat' = [fat EXCEPT ![c] = EOC] /\ UNCHANGED <<sclust, pos>>
           /\ owner' = [d \in Clusters |->
                          IF d \in ChainFrom(o, pos[c] + 1) THEN None ELSE owner[d]]
    BY <1>4, <2>2 DEF RemoveTail, DiskError, MarkEnd, Stays
  <2>4. \A d \in Clusters : d \in ChainFrom(o, pos[c] + 1) <=> owner[d] = o /\ pos[d] >= pos[c] + 1
    BY DEF ChainFrom
  <2> QED
    BY <2>1, <2>2, <2>3, <2>4 DEF Trims
<1>5. ASSUME NEW o \in Obj, NEW r \in BOOLEAN, RemoveAll(o, r) PROVE Drops(o)
  <2>1. \A d \in Clusters : d \in ChainFrom(o, 0) <=> owner[d] = o
    BY DEF ChainFrom, Inv, TypeOK
  <2> QED
    BY <1>5, <2>1 DEF RemoveAll, Drops
<1>6. Probe \/ Scan => Stays
  BY DEF Probe, Scan, DiskError, Stays
<1>7. ASSUME Mark PROVE Stays \/ \E c \in Clusters : Marks(c) \/ \E o \in Obj : Founds(o, c)
  <2>1. /\ ncl \in Clusters /\ fat[ncl] = Free /\ obj \in Obj /\ owner[ncl] = None
        /\ (clst = 0 => sclust[obj] = 0)
    BY <1>7 DEF Inv, Cursor, Mark, ChainsSound, InUse
  <2>2. Stays \/ Marks(ncl) \/ Founds(obj, ncl)
    BY <1>7, <2>1 DEF Mark, DiskError, Allocated, Stays, Marks, Founds
  <2> QED
    BY ZenonT(60), <2>1, <2>2
<1>8. ASSUME Link PROVE Stays \/ \E o \in Obj, c, e \in Clusters : Extends(o, c, e)
  <2>1. /\ ncl \in Clusters /\ clst \in Clusters /\ obj \in Obj
        /\ fat[ncl] = EOC /\ owner[ncl] = None /\ fat[clst] = EOC /\ owner[clst] = obj
    BY <1>8, Params DEF Inv, Cursor, Link
  <2>2. Stays \/ Extends(obj, ncl, clst)
    BY <1>8, <2>1 DEF Link, DiskError, Allocated, Stays, Extends
  <2> QED
    BY ZenonT(60), <2>1, <2>2
<1>9. ASSUME FreeOne PROVE Stays \/ \E c \in Clusters : Frees(c)
  <2>1. clst \in Clusters /\ fat[clst] # Free /\ owner[clst] = None
    BY <1>9 DEF Inv, Cursor, FreeOne
  <2>2. Stays \/ Frees(clst)
    BY <1>9, <2>1 DEF FreeOne, DiskError, Stays, Frees
  <2> QED
    BY ZenonT(60), <2>1, <2>2
<1> HIDE DEF Stays, Marks, Founds, Extends, Drops, Trims, Frees
<1> DEFINE G == Effect
<1>10. /\ UNCHANGED vars \/ Mount \/ SyncInfo \/ GetFree \/ Probe \/ Scan => G
       /\ \A o \in Obj : CreateNew(o) => G
       /\ \A o \in Obj, c \in Clusters : Stretch(o, c) \/ RemoveTail(o, c) => G
       /\ \A o \in Obj, r \in BOOLEAN : RemoveAll(o, r) => G
  BY Zenon, <1>1, <1>2, <1>3, <1>4, <1>5, <1>6 DEF Effect
<1>11. Mark \/ Link \/ FreeOne => G
  BY Zenon, <1>7, <1>8, <1>9 DEF Effect
<1> HIDE DEF G
<1>12. G
  BY Zenon, <1>10, <1>11 DEF Next, Op, Step
<1> QED
  BY <1>12 DEF G

(* What a write to one FAT entry does to the free clusters. *)
LEMMA FatChange ==
  ASSUME TypeOK, NEW c \in Clusters, NEW v, fat' = [fat EXCEPT ![c] = v]
  PROVE  /\ fat'[c] = v /\ \A d \in Clusters : d # c => fat'[d] = fat[d]
         /\ v = Free => FreeSet' = FreeSet \cup {c}
         /\ v # Free => FreeSet' = FreeSet \ {c}
<1>1. fat'[c] = v /\ \A d \in Clusters : d # c => fat'[d] = fat[d]
  BY DEF TypeOK
<1> QED
  BY Zenon, <1>1 DEF FreeSet

(* A step leaves no gap in a chain and keeps its end. *)
LEMMA FoundsPlaces ==
  ASSUME Inv, NoGap, HasEnd, NEW o \in Obj, NEW c \in Clusters, Founds(o, c)
  PROVE  NoGap' /\ HasEnd'
<1>0. o # None /\ \A d \in Clusters : owner[d] # o
  BY Params DEF Founds, Inv, ChainsSound, Starts
<1>1. /\ owner'[c] = o /\ pos'[c] = 0 /\ fat'[c] = EOC /\ owner[c] = None
      /\ \A d \in Clusters : d # c => owner'[d] = owner[d] /\ pos'[d] = pos[d] /\ fat'[d] = fat[d]
  BY DEF Founds, Inv, TypeOK
<1>2. NoGap'
  <2> SUFFICES ASSUME NEW d \in Clusters, owner'[d] # None, NEW p \in 0 .. pos'[d]
               PROVE  \E e \in Clusters : owner'[e] = owner'[d] /\ pos'[e] = p
    BY DEF NoGap
  <2>1. CASE d = c
    BY <1>1, <2>1
  <2>2. CASE d # c
    <3>1. PICK e \in Clusters : owner[e] = owner[d] /\ pos[e] = p
      BY <1>1, <2>2 DEF NoGap
    <3> QED
      BY <1>1, <2>2, <3>1
  <2> QED
    BY <2>1, <2>2
<1>3. HasEnd'
  <2> SUFFICES ASSUME NEW q \in Obj, sclust'[q] # 0
               PROVE  \E e \in Clusters : owner'[e] = q /\ fat'[e] = EOC
    BY DEF HasEnd
  <2>1. CASE q = o
    BY <1>1, <2>1
  <2>2. CASE q # o
    <3>1. sclust[q] # 0
      BY <2>2 DEF Founds, Inv, TypeOK
    <3>2. PICK e \in Clusters : owner[e] = q /\ fat[e] = EOC
      BY <3>1 DEF HasEnd
    <3> QED
      BY <1>1, <3>2, Params
  <2> QED
    BY <2>1, <2>2
<1> QED
  BY <1>2, <1>3

LEMMA ExtendsPlaces ==
  ASSUME Inv, NoGap, HasEnd, NEW o \in Obj, NEW c \in Clusters, NEW e \in Clusters, Extends(o, c, e)
  PROVE  NoGap' /\ HasEnd'
<1>0. o # None /\ c # e /\ pos[e] \in Nat
  BY Params DEF Extends, Inv, TypeOK
<1>1. /\ owner'[c] = o /\ pos'[c] = pos[e] + 1 /\ fat'[c] = EOC /\ owner[c] = None /\ owner[e] = o
      /\ \A d \in Clusters : d # c => owner'[d] = owner[d] /\ pos'[d] = pos[d]
      /\ \A d \in Clusters : d # e => fat'[d] = fat[d]
  BY <1>0 DEF Extends, Inv, TypeOK
<1>2. NoGap'
  <2> SUFFICES ASSUME NEW d \in Clusters, owner'[d] # None, NEW p \in 0 .. pos'[d]
               PROVE  \E f \in Clusters : owner'[f] = owner'[d] /\ pos'[f] = p
    BY DEF NoGap
  <2>1. CASE d = c
    <3>1. CASE p = pos[e] + 1
      BY <1>1, <2>1, <3>1
    <3>2. CASE p # pos[e] + 1
      <4>1. p \in 0 .. pos[e]
        BY <1>0, <1>1, <2>1, <3>2
      <4>2. PICK f \in Clusters : owner[f] = owner[e] /\ pos[f] = p
        BY <1>0, <1>1, <4>1 DEF NoGap
      <4> QED
        BY <1>0, <1>1, <2>1, <4>2
    <3> QED
      BY <3>1, <3>2
  <2>2. CASE d # c
    <3>1. PICK f \in Clusters : owner[f] = owner[d] /\ pos[f] = p
      BY <1>1, <2>2 DEF NoGap
    <3> QED
      BY <1>1, <2>2, <3>1
  <2> QED
    BY <2>1, <2>2
<1>3. HasEnd'
  <2> SUFFICES ASSUME NEW q \in Obj, sclust'[q] # 0
               PROVE  \E f \in Clusters : owner'[f] = q /\ fat'[f] = EOC
    BY DEF HasEnd
  <2>1. CASE q = o
    BY <1>1, <2>1
  <2>2. CASE q # o
    <3>1. PICK f \in Clusters : owner[f] = q /\ fat[f] = EOC
      BY DEF HasEnd, Extends
    <3> QED
      BY <1>1, <2>2, <3>1, Params
  <2> QED
    BY <2>1, <2>2
<1> QED
  BY <1>2, <1>3

LEMMA DropsPlaces ==
  ASSUME Inv, NoGap, HasEnd, NEW o \in Obj, Drops(o)
  PROVE  NoGap' /\ HasEnd'
<1>1. NoGap'
  <2> SUFFICES ASSUME NEW d \in Clusters, owner'[d] # None, NEW p \in 0 .. pos'[d]
               PROVE  \E e \in Clusters : owner'[e] = owner'[d] /\ pos'[e] = p
    BY DEF NoGap
  <2>1. owner[d] # o /\ owner'[d] = owner[d] /\ pos' = pos
    BY DEF Drops
  <2>2. PICK e \in Clusters : owner[e] = owner[d] /\ pos[e] = p
    BY <2>1 DEF NoGap
  <2> QED
    BY <2>1, <2>2 DEF Drops
<1>2. HasEnd'
  <2> SUFFICES ASSUME NEW q \in Obj, sclust'[q] # 0
               PROVE  \E e \in Clusters : owner'[e] = q /\ fat'[e] = EOC
    BY DEF HasEnd
  <2>1. q # o /\ sclust[q] # 0
    BY DEF Drops, Inv, TypeOK
  <2>2. PICK e \in Clusters : owner[e] = q /\ fat[e] = EOC
    BY <2>1 DEF HasEnd
  <2> QED
    BY <2>1, <2>2 DEF Drops
<1> QED
  BY <1>1, <1>2

LEMMA TrimsPlaces ==
  ASSUME Inv, NoGap, HasEnd, NEW o \in Obj, NEW c \in Clusters, Trims(o, c)
  PROVE  NoGap' /\ HasEnd'
<1>0. \A d \in Clusters : pos[d] \in Nat
  BY DEF Inv, TypeOK
<1>1. /\ \A d \in Clusters :
           owner'[d] = IF owner[d] = o /\ pos[d] >= pos[c] + 1 THEN None ELSE owner[d]
      /\ pos' = pos /\ sclust' = sclust /\ owner[c] = o /\ o # None
      /\ fat'[c] = EOC /\ \A d \in Clusters : d # c => fat'[d] = fat[d]
  BY Params DEF Trims, Inv, TypeOK
<1>2. NoGap'
  <2> SUFFICES ASSUME NEW d \in Clusters, owner'[d] # None, NEW p \in 0 .. pos[d]
               PROVE  \E e \in Clusters : owner'[e] = owner'[d] /\ pos[e] = p
    BY <1>1 DEF NoGap
  <2>1. owner'[d] = owner[d] /\ owner[d] # None /\ ~(owner[d] = o /\ pos[d] >= pos[c] + 1)
    BY <1>1
  <2>2. PICK e \in Clusters : owner[e] = owner[d] /\ pos[e] = p
    BY <2>1 DEF NoGap
  <2>3. ~(owner[e] = o /\ pos[e] >= pos[c] + 1)
    BY <1>0, <2>1, <2>2
  <2> QED
    BY <1>1, <2>1, <2>2, <2>3
<1>3. HasEnd'
  <2> SUFFICES ASSUME NEW q \in Obj, sclust[q] # 0
               PROVE  \E e \in Clusters : owner'[e] = q /\ fat'[e] = EOC
    BY <1>1 DEF HasEnd
  <2>1. CASE q = o
    <3>1. ~(pos[c] >= pos[c] + 1)
      BY <1>0
    <3> QED
      BY <1>1, <2>1, <3>1
  <2>2. CASE q # o
    <3>1. PICK e \in Clusters : owner[e] = q /\ fat[e] = EOC
      BY DEF HasEnd
    <3> QED
      BY <1>1, <2>2, <3>1
  <2> QED
    BY <2>1, <2>2
<1> QED
  BY <1>2, <1>3

LEMMA StrayPlaces ==
  ASSUME Inv, NoGap, HasEnd, NEW c \in Clusters, Marks(c) \/ Frees(c)
  PROVE  NoGap' /\ HasEnd'
<1>1. /\ owner' = owner /\ sclust' = sclust /\ owner[c] = None
      /\ \A d \in Clusters : d # c => pos'[d] = pos[d] /\ fat'[d] = fat[d]
  <2>1. CASE Marks(c)
    BY <2>1 DEF Marks, Inv, TypeOK
  <2>2. CASE Frees(c)
    BY <2>2 DEF Frees, Inv, TypeOK
  <2> QED
    BY <2>1, <2>2
<1>2. NoGap'
  <2> SUFFICES ASSUME NEW d \in Clusters, owner'[d] # None, NEW p \in 0 .. pos'[d]
               PROVE  \E e \in Clusters : owner'[e] = owner'[d] /\ pos'[e] = p
    BY DEF NoGap
  <2>1. PICK e \in Clusters : owner[e] = owner[d] /\ pos[e] = p
    BY <1>1 DEF NoGap
  <2> QED
    BY <1>1, <2>1
<1>3. HasEnd'
  BY <1>1, Params DEF HasEnd
<1> QED
  BY <1>2, <1>3

(* Every step keeps Places. *)
LEMMA NextPlaces == ASSUME Places, [Next]_vars PROVE Places'
<1>1. Inv /\ LeakInv /\ NoGap /\ HasEnd
  BY DEF Places
<1>2. Inv' /\ LeakInv'
  BY <1>1, NextInv, NextLeak
<1>3. Stays => NoGap' /\ HasEnd'
  BY <1>1 DEF Stays, NoGap, HasEnd
<1>4. Effect
  BY <1>1, StepEffect
<1>5. NoGap' /\ HasEnd'
  <2> HIDE DEF Stays, Marks, Founds, Extends, Drops, Trims, Frees
  <2> DEFINE G == NoGap' /\ HasEnd'
  <2>1. /\ \A c \in Clusters : Marks(c) \/ Frees(c) => G
        /\ \A o \in Obj, c \in Clusters : Founds(o, c) \/ Trims(o, c) => G
        /\ \A o \in Obj, c, e \in Clusters : Extends(o, c, e) => G
        /\ \A o \in Obj : Drops(o) => G
    BY <1>1, StrayPlaces, FoundsPlaces, TrimsPlaces, ExtendsPlaces, DropsPlaces
  <2> QED
    BY ZenonT(60), <1>3, <1>4, <2>1 DEF Effect
<1> QED
  BY <1>2, <1>5 DEF Places

-----------------------------------------------------------------------------
(* What the steps are to the pool. *)
LEMMA MapsStays == ASSUME Stays PROVE UNCHANGED CP!vars
BY DEF Stays, CP!vars, Chain, ChainFrom, FreeSet

LEMMA MapsMarks ==
  ASSUME Places, NEW c \in Clusters, Marks(c)
  PROVE  CP!Next
<1>1. FreeSet' = FreeSet \ {c} /\ c \in FreeSet
  BY Params DEF Marks, FreeSet, Places, Inv, TypeOK
<1>2. [o \in Obj |-> Chain(o)]' = [o \in Obj |-> Chain(o)]
  BY DEF Marks, Chain, ChainFrom
<1> QED
  BY <1>1, <1>2 DEF CP!Next, CP!Reserve

LEMMA MapsFrees ==
  ASSUME Places, Places', NEW c \in Clusters, Frees(c)
  PROVE  CP!Next
<1>1. FreeSet' = FreeSet \cup {c} /\ c \notin FreeSet
  <2>1. FreeSet' = FreeSet \cup {c}
    BY FatChange DEF Frees, Places, Inv
  <2> QED
    BY <2>1 DEF Frees, FreeSet
<1>2. ASSUME NEW q \in Obj PROVE Chain(q)' = Chain(q)
  <2>1. \A d \in Clusters : owner[d] = q => pos'[d] = pos[d]
    BY Params DEF Frees, Places, Inv, TypeOK
  <2>2. \A d \in Clusters : owner'[d] = q <=> owner[d] = q
    BY DEF Frees
  <2> QED
    BY <2>1, <2>2, OtherChain
<1>3. [o \in Obj |-> Chain(o)]' = [o \in Obj |-> Chain(o)]
  BY <1>2
<1>4. c \in Clusters \ (CP!Held \cup FreeSet)
  BY <1>1, HeldOwned DEF Frees
<1> QED
  BY <1>1, <1>3, <1>4 DEF CP!Next, CP!Release

LEMMA MapsFounds ==
  ASSUME Places, Places', NEW o \in Obj, NEW c \in Clusters, Founds(o, c)
  PROVE  CP!Next
<1>1. Count(o) = 0
  BY ShapeHolds DEF Shape, Founds
<1>2. FreeSet' = FreeSet \ {c} /\ fat'[c] = EOC
  <2>1. TypeOK /\ fat' = [fat EXCEPT ![c] = EOC]
    BY Zenon DEF Founds, Places, Inv
  <2>2. EOC # Free
    BY Params
  <2> QED
    BY Zenon, <2>1, <2>2, FatChange
<1> QED
  BY <1>1, <1>2, MapsAttach DEF Founds

LEMMA MapsExtends ==
  ASSUME Places, Places', NEW o \in Obj, NEW c \in Clusters, NEW e \in Clusters, Extends(o, c, e)
  PROVE  CP!Next
<1>1. Count(o) = pos[e] + 1
  BY ShapeHolds DEF Shape, Extends
<1>2. FreeSet' = FreeSet \ {c}
  <2>1. FreeSet' = FreeSet \ {e}
    <3>1. TypeOK /\ fat' = [fat EXCEPT ![e] = c]
      BY Zenon DEF Extends, Places, Inv
    <3>2. c # Free
      BY Params
    <3> QED
      BY Zenon, <3>1, <3>2, FatChange
  <2>2. c \notin FreeSet /\ e \notin FreeSet
    BY Params DEF Extends, FreeSet
  <2> QED
    BY <2>1, <2>2
<1>3. c # e
  BY Params DEF Extends
<1>4. fat'[c] = EOC
  BY <1>3 DEF Extends, Places, Inv, TypeOK
<1> QED
  BY <1>1, <1>2, <1>4, MapsAttach DEF Extends

LEMMA MapsDrops ==
  ASSUME Places, Places', NEW o \in Obj, Drops(o)
  PROVE  CP!Next
<1>0. Shape /\ Shape'
  BY ShapeHolds, ShapeHoldsNext
<1>1. Count(o)' = 0
  <2>1. sclust'[o] = 0
    BY DEF Drops, Places, Inv, TypeOK
  <2> QED
    BY <1>0, <2>1 DEF Shape
<1>2. 0 \in 0 .. Count(o) - 1
  <2>1. sclust[o] \in Clusters /\ owner[sclust[o]] = o
    BY DEF Drops, Places, Inv, TypeOK, ChainsSound, Starts
  <2>2. Count(o) \in Nat /\ pos[sclust[o]] + 1 \in 1 .. Count(o)
    BY <1>0, <2>1 DEF Shape
  <2> QED
    BY <2>2
<1>3. \A d \in Clusters : owner'[d] = IF owner[d] = o /\ pos[d] >= 0 THEN None ELSE owner[d]
  <2>1. pos \in [Clusters -> Nat]
    BY Zenon DEF Places, Inv, TypeOK
  <2>2. \A d \in Clusters : pos[d] >= 0
    BY <2>1
  <2> QED
    BY <2>2 DEF Drops
<1>4. FreeSet' = FreeSet /\ pos' = pos
  BY DEF Drops, FreeSet
<1> QED
  BY <1>1, <1>2, <1>3, <1>4, MapsCut

LEMMA MapsTrims ==
  ASSUME Places, Places', NEW o \in Obj, NEW c \in Clusters, Trims(o, c)
  PROVE  CP!Next
<1> DEFINE n == pos[c] + 1
<1>0. Shape /\ Shape' /\ pos[c] \in Nat
  BY ShapeHolds, ShapeHoldsNext DEF Places, Inv, TypeOK
<1>1. Count(o)' = n
  <2>1. fat'[c] = EOC
    BY FatChange DEF Trims, Places, Inv
  <2>2. owner'[c] = o /\ pos'[c] = pos[c]
    BY <1>0 DEF Trims
  <2>3. \A e \in Clusters : owner'[e] = o /\ fat'[e] = EOC => Count(o)' = pos'[e] + 1
    BY Zenon, <1>0 DEF Shape
  <2> QED
    BY Zenon, <2>1, <2>2, <2>3
<1>2. n \in 0 .. Count(o) - 1
  <2>1. fat[c] \in Clusters /\ owner[fat[c]] = o /\ pos[fat[c]] = pos[c] + 1
    BY DEF Trims, Places, Inv, ChainsSound, LinksOn
  <2>2. Count(o) \in Nat /\ pos[fat[c]] + 1 \in 1 .. Count(o)
    BY <1>0, <2>1 DEF Shape
  <2> QED
    BY <1>0, <2>1, <2>2
<1>3. FreeSet' = FreeSet
  <2>1. FreeSet' = FreeSet \ {c}
    <3>1. TypeOK /\ fat' = [fat EXCEPT ![c] = EOC]
      BY Zenon DEF Trims, Places, Inv
    <3>2. EOC # Free
      BY Params
    <3> QED
      BY Zenon, <3>1, <3>2, FatChange
  <2>2. c \notin FreeSet
    BY Params DEF Trims, FreeSet
  <2> QED
    BY <2>1, <2>2
<1>4. /\ \A d \in Clusters : owner'[d] = IF owner[d] = o /\ pos[d] >= n THEN None ELSE owner[d]
      /\ pos' = pos
  BY DEF Trims
<1> HIDE DEF n
<1> QED
  BY <1>1, <1>2, <1>3, <1>4, MapsCut

(* Every step is a step of the pool or does nothing to it. *)
LEMMA MapsNext == ASSUME Places, Places', [Next]_vars PROVE CP!Next \/ UNCHANGED CP!vars
<1>1. Effect
  BY StepEffect DEF Places
<1> HIDE DEF Stays, Marks, Founds, Extends, Drops, Trims, Frees
<1> DEFINE G == CP!Next \/ UNCHANGED CP!vars
<1>2. /\ Stays => G
      /\ \A c \in Clusters : Marks(c) \/ Frees(c) => G
      /\ \A o \in Obj, c \in Clusters : Founds(o, c) \/ Trims(o, c) => G
      /\ \A o \in Obj, c, e \in Clusters : Extends(o, c, e) => G
      /\ \A o \in Obj : Drops(o) => G
  BY MapsStays, MapsMarks, MapsFrees, MapsFounds, MapsTrims, MapsExtends, MapsDrops
<1> HIDE DEF G
<1>3. G
  BY Zenon, <1>1, <1>2 DEF Effect
<1> QED
  BY <1>3 DEF G

LEMMA InitPlaces == ASSUME Init PROVE Places
<1>1. Inv /\ LeakInv
  BY InitInv, InitLeak
<1>2. NoGap /\ HasEnd
  BY Params DEF Init, NoGap, HasEnd
<1> QED
  BY <1>1, <1>2 DEF Places

LEMMA MapsInit == ASSUME Init PROVE CP!Init
<1>1. FreeSet = Clusters
  BY DEF Init, FreeSet
<1>2. ASSUME NEW o \in Obj PROVE Chain(o) = << >>
  <2>1. Shape
    BY InitPlaces, ShapeHolds
  <2>2. sclust[o] = 0
    BY DEF Init
  <2>3. Chain(o) \in Seq(Clusters) /\ Len(Chain(o)) = 0
    BY <2>1, <2>2 DEF Shape
  <2> QED
    BY <2>3, EmptySeq
<1>3. [o \in Obj |-> Chain(o)] = [o \in Obj |-> << >>]
  BY <1>2
<1> QED
  BY <1>1, <1>3 DEF CP!Init

(* create_chain and remove_chain, one FAT access at a time and whichever of   *)
(* them fail, implement the pool: an object's sequence grows at its end or    *)
(* loses its end, no cluster is in two, and nobody else's changes.            *)
THEOREM ChainRefinement == Spec => ImplementsClusterPool
<1>1. Init => Places /\ CP!Init
  BY InitPlaces, MapsInit
<1>2. Places /\ [Next]_vars => Places'
  BY NextPlaces
<1>3. Places /\ Places' /\ [Next]_vars => [CP!Next]_(CP!vars)
  BY MapsNext
<1> QED
  BY <1>1, <1>2, <1>3, PTL DEF Spec, ImplementsClusterPool, CP!Spec

===============================================================================
