----------------------------- MODULE FileIOProofs -----------------------------
(***************************************************************************)
(* Proofs about FileIO, for every sector and cluster size, every set of    *)
(* clusters and every largest file size, with failing disk calls included. *)
(***************************************************************************)
EXTENDS FileIO, TLAPS

(* A leaf is tried with the SMT solver, then with Zenon, then with the SMT    *)
(* solver and more time, unless it names its prover.                          *)
USE SMTT(10), Zenon, SMTT(60)

(* The variables keep their types: fptr and the size never pass the largest *)
(* file size, and no insanity test has set err.                             *)
Types ==
  /\ chain \in Seq(Cluster) /\ free \subseteq Cluster
  /\ data \in [Cluster -> [0 .. bcs - 1 -> Byte]]
  /\ entry \in [size : 0 .. MaxDword, sclust : Cluster \cup {None}]
  /\ synced \in BOOLEAN /\ modified \in BOOLEAN
  /\ mode \in {"closed", "r", "rw"} /\ err \in {"FR_OK", "FR_DISK_ERR"}
  /\ objsize \in 0 .. MaxDword /\ fptr \in 0 .. MaxDword
  /\ clust \in Cluster \cup {None} /\ sect \in (Cluster \cup {None}) \X (0 .. CSize - 1)
  /\ pc \in {"idle", "read", "write", "seek"}
  /\ left \in Nat /\ ofs \in Nat /\ ifptr \in 0 .. MaxDword

(* The clusters of the file are in its chain once and are not free. *)
ChainOK ==
  /\ \A i, j \in 1 .. Len(chain) : chain[i] = chain[j] => i = j
  /\ \A i \in 1 .. Len(chain) : chain[i] \notin free

(* An open file is not longer than its chain. *)
Fits == mode # "closed" => objsize <= Len(chain) * bcs

(* Where the running function is. *)
Running ==
  /\ mode = "closed" => pc = "idle" /\ err = "FR_OK" /\ ~modified /\ fptr = 0
  /\ err # "FR_OK" => pc = "idle" /\ out = << >>
  /\ mode # "closed" /\ err = "FR_OK" /\ pc # "seek" => fptr <= objsize
  /\ pc = "read" => left > 0 /\ fptr + left <= objsize
  /\ pc = "write" => left > 0 /\ fptr + left <= MaxDword /\ mode = "rw"
  /\ pc = "seek" => /\ ofs > 0 /\ fptr + ofs <= MaxDword /\ fptr < Len(chain) * bcs
                    /\ ifptr <= objsize
                    /\ mode = "r" => fptr + ofs <= objsize

(* An entry that f_sync will not rewrite is backed by the chain, and is that *)
(* of the file object but for what a running or failed f_write or f_lseek    *)
(* has added to the chain.                                                   *)
EntryOK ==
  ~modified =>
    /\ entry.sclust \in {None, sclust}
    /\ entry.size <= (IF entry.sclust = None THEN 0 ELSE Len(chain) * bcs)
    /\ mode # "closed" /\ err = "FR_OK" /\ pc \in {"idle", "read", "seek"} =>
         entry.size = objsize /\ (entry.sclust = sclust \/ (pc = "seek" /\ objsize = 0))

Inv == Types /\ ChainOK /\ Fits /\ Running /\ Position /\ EntryOK

-----------------------------------------------------------------------------
(* Arithmetic                                                              *)

(* Division with remainder. *)
LEMMA DivMod ==
  ASSUME NEW a \in Nat, NEW b \in Nat \ {0}
  PROVE  /\ a \div b \in Nat /\ a % b \in 0 .. b - 1
         /\ a = (a \div b) * b + (a % b)
OBVIOUS

(* A multiple below another. *)
LEMMA Times ==
  ASSUME NEW i \in Nat, NEW n \in Nat, NEW b \in Nat \ {0}, i < n
  PROVE  i * b + b <= n * b
<1>1. PICK k \in Nat : n = i + 1 + k
  BY n - i - 1 \in Nat
<1>2. n * b = i * b + b + k * b /\ k * b >= 0
  BY <1>1
<1> QED
  BY <1>2

(* The same, backwards. *)
LEMMA DivLess ==
  ASSUME NEW i \in Nat, NEW n \in Nat, NEW b \in Nat \ {0}, i * b < n * b
  PROVE  i < n
<1>1. CASE n < i
  BY <1>1, Times
<1>2. CASE n = i
  BY <1>2
<1> QED
  BY <1>1, <1>2

(* Quotient and remainder are determined by the division. *)
LEMMA DivModUnique ==
  ASSUME NEW q \in Nat, NEW r \in Nat, NEW b \in Nat \ {0}, r < b
  PROVE  (q * b + r) \div b = q /\ (q * b + r) % b = r
<1> DEFINE a == q * b + r
           d == a \div b
           m == a % b
<1>0. a \in Nat /\ q * b \in Nat
  OBVIOUS
<1>1. d \in Nat /\ m \in 0 .. b - 1 /\ a = d * b + m
  BY Zenon, <1>0, DivMod
<1> HIDE DEF d, m
<1>2. CASE d < q
  BY <1>0, <1>1, <1>2, Times, d * b + b <= q * b, d * b \in Nat
<1>3. CASE q < d
  BY <1>0, <1>1, <1>3, Times, q * b + b <= d * b, d * b \in Nat
<1>4. CASE d = q
  BY <1>0, <1>1, <1>4
<1>5. d = q /\ m = r
  BY <1>1, <1>2, <1>3, <1>4
<1> QED
  BY <1>5 DEF d, m

LEMMA Distribute ==
  ASSUME NEW x \in Nat, NEW y \in Nat, NEW z \in Nat
  PROVE  (x + y) * z = x * z + y * z
OBVIOUS

LEMMA SizesPositive ==
  /\ SS \in Nat \ {0} /\ CSize \in Nat \ {0} /\ bcs \in Nat \ {0}
  /\ bcs = CSize * SS /\ MaxDword \in Nat /\ MaxXfer \in 0 .. MaxDword
  /\ None \notin Cluster /\ EOC \notin Cluster /\ EOC # None
BY Sizes DEF bcs

(* The place of byte p: its cluster, the sector in it, the byte in that. *)
LEMMA Place ==
  ASSUME NEW p \in Nat
  PROVE  /\ p \div bcs \in Nat /\ p % SS \in 0 .. SS - 1
         /\ (p \div SS) % CSize \in 0 .. CSize - 1
         /\ p % bcs = ((p \div SS) % CSize) * SS + (p % SS)
         /\ (p % bcs) \div SS = (p \div SS) % CSize
         /\ p % bcs \in 0 .. bcs - 1
         /\ p = (p \div bcs) * bcs + (p % bcs)
         /\ (p \div bcs) * bcs \in Nat
         /\ (p \div bcs) * bcs <= p /\ p < (p \div bcs) * bcs + bcs
<1> DEFINE d == p \div SS
           r == p % SS
           e == d \div CSize
           k == d % CSize
<1>1. d \in Nat /\ r \in 0 .. SS - 1 /\ p = d * SS + r
  BY Zenon, DivMod, SizesPositive
<1>2. e \in Nat /\ k \in 0 .. CSize - 1 /\ d = e * CSize + k
  BY Zenon, <1>1, DivMod, SizesPositive
<1> HIDE DEF d, r, e, k
<1>3. k * SS + SS <= CSize * SS /\ k * SS \in Nat
  BY <1>2, Times, SizesPositive
<1>4. k * SS + r \in Nat /\ k * SS + r < bcs
  BY <1>1, <1>3, SizesPositive
<1>5. p = e * bcs + (k * SS + r)
  <2>1. e * CSize \in Nat /\ e * bcs \in Nat
    BY <1>2, SizesPositive
  <2>2. d * SS = (e * CSize) * SS + k * SS
    BY <1>2, <2>1, Distribute, SizesPositive
  <2>3. (e * CSize) * SS = e * (CSize * SS)
    BY <1>2, SizesPositive
  <2>4. d * SS = e * bcs + k * SS
    BY <2>2, <2>3, SizesPositive
  <2> QED
    BY <2>1, <2>4, <1>1, <1>3
<1>6. p \div bcs = e /\ p % bcs = k * SS + r
  BY Zenon, <1>2, <1>4, <1>5, DivModUnique, SizesPositive
<1>7. (k * SS + r) \div SS = k
  BY <1>1, <1>2, DivModUnique, SizesPositive
<1>8. e * bcs \in Nat /\ e * bcs <= p /\ p < e * bcs + bcs
  BY <1>2, <1>4, <1>5, SizesPositive
<1>9. k * SS + r \in 0 .. bcs - 1
  BY <1>4, SizesPositive
<1> QED
  BY <1>1, <1>2, <1>5, <1>6, <1>7, <1>8, <1>9 DEF d, r, e, k

(* A byte less than a cluster behind a multiple of the cluster size. *)
LEMMA InCluster ==
  ASSUME NEW p \in Nat, NEW i \in Nat, NEW r \in Nat, r < bcs, p = i * bcs + r
  PROVE  p \div bcs = i /\ p % bcs = r
BY Zenon, DivModUnique, SizesPositive

LEMMA BelowEnd ==
  ASSUME NEW p \in Nat, NEW n \in Nat, p < n * bcs
  PROVE  p \div bcs \in Nat /\ p \div bcs < n
<1> DEFINE q == p \div bcs
<1>1. q \in Nat /\ q * bcs \in Nat /\ q * bcs <= p
  BY Place
<1> HIDE DEF q
<1>2. n * bcs \in Nat
  BY SizesPositive
<1>3. q * bcs < n * bcs
  BY <1>1, <1>2
<1>4. q < n
  BY <1>1, <1>3, DivLess, SizesPositive
<1> QED
  BY <1>1, <1>4 DEF q

(* The byte before one that is not the first of its cluster. *)
LEMMA Before ==
  ASSUME NEW p \in Nat
  PROVE  /\ p % SS # 0 => p % bcs # 0
         /\ p % bcs # 0 => p > 0 /\ (p - 1) \div bcs = p \div bcs /\ (p - 1) % bcs = (p % bcs) - 1
<1> DEFINE q == p \div bcs
           r == p % bcs
<1>1. q \in Nat /\ r \in Nat /\ r < bcs /\ p = q * bcs + r /\ q * bcs \in Nat /\ bcs \in Nat
  <2>1. bcs \in Nat
    BY SizesPositive
  <2>2. q \in Nat /\ r \in 0 .. bcs - 1 /\ p = q * bcs + r /\ q * bcs \in Nat
    BY Place
  <2> QED
    BY <2>1, <2>2
<1>2. p % SS # 0 => r # 0
  <2>1. p % SS \in 0 .. SS - 1 /\ r = ((p \div SS) % CSize) * SS + (p % SS)
        /\ (p \div SS) % CSize \in 0 .. CSize - 1
    BY Place
  <2>2. \A k, n, x \in Nat : x # 0 => k * n + x # 0
    OBVIOUS
  <2> QED
    BY <2>1, <2>2, SizesPositive
<1> HIDE DEF q, r
<1>3. ASSUME r # 0 PROVE p > 0 /\ (p - 1) \div bcs = q /\ (p - 1) % bcs = r - 1
  <2>1. p - 1 \in Nat /\ r - 1 \in Nat /\ r - 1 < bcs /\ p - 1 = q * bcs + (r - 1) /\ p > 0
    BY <1>1, <1>3
  <2> QED
    BY <1>1, <2>1, InCluster
<1> QED
  BY <1>2, <1>3 DEF q, r

-----------------------------------------------------------------------------
(* The chain                                                               *)

(* Byte p of a file with chain ch is in this cluster. *)
At(ch, p) == IF p \div bcs < Len(ch) THEN ch[(p \div bcs) + 1] ELSE None

LEMMA AtClusterOf ==
  \A p : ClusterOf(p) = At(chain, p) /\ ClusterOf(p)' = At(chain', p')
BY DEF ClusterOf, At

(* The FAT leads from one cluster of the chain to the next. *)
LEMMA NextInChain ==
  ASSUME Types, ChainOK, NEW i \in 1 .. Len(chain)
  PROVE  get_fat(chain[i]) = IF i < Len(chain) THEN chain[i + 1] ELSE EOC
<1>1. DOMAIN chain = 1 .. Len(chain)
  BY DEF Types
<1> DEFINE k == CHOOSE j \in DOMAIN chain : chain[j] = chain[i]
<1>2. k = i
  BY <1>1 DEF ChainOK
<1>3. get_fat(chain[i]) = IF k < Len(chain) THEN chain[k + 1] ELSE EOC
  BY DEF get_fat
<1> QED
  BY Zenon, <1>2, <1>3

(* A chain is the old one or has a free cluster appended. *)
Grown(c) ==
  \/ chain' = chain /\ free' = free
  \/ c \in free /\ chain' = Append(chain, c) /\ free' = free \ {c}

LEMMA GrownChain ==
  ASSUME Types, ChainOK, NEW c, Grown(c)
  PROVE  /\ chain' \in Seq(Cluster) /\ free' \subseteq Cluster /\ ChainOK'
         /\ Len(chain) \in Nat /\ Len(chain') \in Nat /\ Len(chain) <= Len(chain')
         /\ \A i \in 1 .. Len(chain) : chain'[i] = chain[i]
         /\ Len(chain) * bcs <= Len(chain') * bcs
         /\ chain # << >> => sclust' = sclust
         /\ \A p \in Nat : p < Len(chain) * bcs => At(chain', p) = At(chain, p)
<1>1. CASE chain' = chain /\ free' = free
  <2>1. Len(chain) \in Nat /\ Len(chain') = Len(chain) /\ sclust' = sclust /\ ChainOK'
    BY <1>1 DEF Types, sclust, ChainOK
  <2>2. Len(chain) * bcs <= Len(chain') * bcs
    BY <2>1, SizesPositive
  <2> QED
    BY <1>1, <2>1, <2>2 DEF Types
<1>2. CASE c \in free /\ chain' = Append(chain, c) /\ free' = free \ {c}
  <2>1. /\ chain' \in Seq(Cluster) /\ free' \subseteq Cluster
        /\ Len(chain') = Len(chain) + 1 /\ Len(chain) \in Nat
        /\ \A i \in 1 .. Len(chain) : chain'[i] = chain[i]
        /\ chain'[Len(chain) + 1] = c
    BY <1>2 DEF Types
  <2>2. ChainOK'
    BY <1>2, <2>1 DEF ChainOK
  <2>3. Len(chain) * bcs <= Len(chain') * bcs
    BY <2>1, SizesPositive, Times
  <2>4. chain # << >> => sclust' = sclust
    BY <1>2, <2>1 DEF Types, sclust
  <2>5. ASSUME NEW p \in Nat, p < Len(chain) * bcs PROVE At(chain', p) = At(chain, p)
    <3> DEFINE q == p \div bcs
    <3>1. q \in Nat /\ q * bcs <= p /\ q * bcs \in Nat
      BY Place
    <3> HIDE DEF q
    <3>2. Len(chain) * bcs \in Nat
      BY <2>1, SizesPositive
    <3>3. q * bcs < Len(chain) * bcs
      BY <2>5, <3>1, <3>2
    <3>4. q < Len(chain)
      <4>1. Len(chain) \in Nat
        BY Zenon, <2>1
      <4>2. bcs \in Nat \ {0}
        BY SizesPositive
      <4> QED
        BY Zenon, <3>1, <3>3, <4>1, <4>2, DivLess
    <3> QED
      BY <2>1, <3>1, <3>4 DEF At, q
  <2> QED
    BY <2>1, <2>2, <2>3, <2>4, <2>5
<1> QED
  BY <1>1, <1>2 DEF Grown

(* create_chain leaves a chain that may have grown. *)
LEMMA CreateGrown ==
  ASSUME NEW c, NEW r, create_chain(c, r, chain', free')
  PROVE  Grown(r)
BY DEF create_chain, Grown

(* Of an open file without an error and not in f_lseek. *)
LEMMA Numbers ==
  ASSUME Inv
  PROVE  /\ fptr \in Nat /\ objsize \in Nat /\ Len(chain) \in Nat
         /\ Len(chain) * bcs \in Nat /\ DOMAIN chain = 1 .. Len(chain)
         /\ mode # "closed" => objsize <= Len(chain) * bcs
         /\ mode # "closed" /\ err = "FR_OK" /\ pc # "seek" => fptr <= objsize
<1>1. fptr \in Nat /\ objsize \in Nat
  BY SizesPositive DEF Inv, Types
<1>2. Len(chain) \in Nat /\ DOMAIN chain = 1 .. Len(chain)
  BY DEF Inv, Types
<1>3. Len(chain) * bcs \in Nat
  BY <1>2, SizesPositive
<1> QED
  BY <1>1, <1>2, <1>3 DEF Inv, Fits, Running

(* Where an open file stands in its chain between clusters. *)
LEMMA AtEdge ==
  ASSUME Inv, mode # "closed", err = "FR_OK", pc # "seek", fptr > 0, fptr % bcs = 0
  PROVE  \E i \in 1 .. Len(chain) : fptr = i * bcs /\ clust = chain[i]
<1>0. /\ fptr \div bcs \in Nat /\ fptr = (fptr \div bcs) * bcs + (fptr % bcs)
      /\ (fptr \div bcs) * bcs \in Nat
  BY Zenon, Place, Numbers
<1>1. PICK q \in Nat : fptr = q * bcs
  BY <1>0
<1>2. q # 0
  BY <1>1, SizesPositive
<1>3. PICK k \in Nat : q = k + 1
  BY <1>2, q - 1 \in Nat
<1>4. fptr = k * bcs + bcs /\ k * bcs \in Nat
  BY <1>1, <1>3, SizesPositive
<1>5. fptr - 1 \in Nat /\ fptr - 1 = k * bcs + (bcs - 1) /\ bcs - 1 \in Nat /\ bcs - 1 < bcs
  BY <1>4, SizesPositive
<1>6. (fptr - 1) \div bcs = k
  BY <1>5, InCluster
<1>7. k * bcs < Len(chain) * bcs
  BY <1>4, Numbers, SizesPositive
<1>8. k < Len(chain)
  BY <1>7, Numbers, DivLess, SizesPositive
<1>9. clust = chain[k + 1]
  BY <1>6, <1>8 DEF Inv, Position, ClusterOf
<1> QED
  BY <1>1, <1>3, <1>8, <1>9, Numbers

(* Where it stands inside a cluster. *)
LEMMA InsideCluster ==
  ASSUME Inv, mode # "closed", err = "FR_OK", pc # "seek", fptr % bcs # 0
  PROVE  /\ fptr \div bcs \in 0 .. Len(chain) - 1
         /\ clust = chain[(fptr \div bcs) + 1] /\ clust \in Cluster
<1> DEFINE q == fptr \div bcs
           r == fptr % bcs
<1>1. /\ fptr \in Nat /\ q \in Nat /\ r \in 1 .. bcs - 1 /\ fptr = q * bcs + r
      /\ q * bcs \in Nat /\ Len(chain) \in Nat
      /\ fptr <= objsize /\ objsize <= Len(chain) * bcs /\ objsize \in Nat
      /\ Len(chain) * bcs \in Nat
  <2>1. fptr \in Nat /\ bcs \in Nat
    BY Numbers, SizesPositive
  <2>2. /\ q \in Nat /\ r \in 0 .. bcs - 1 /\ fptr = q * bcs + r /\ q * bcs \in Nat
    BY <2>1, Place
  <2>3. r \in 1 .. bcs - 1
    BY <2>1, <2>2
  <2> QED
    BY <2>1, <2>2, <2>3, Numbers
<1> HIDE DEF q, r
<1>2. /\ fptr - 1 = q * bcs + (r - 1) /\ r - 1 \in Nat /\ r - 1 < bcs
      /\ fptr > 0 /\ fptr - 1 \in Nat
  BY <1>1, SizesPositive
<1>3. (fptr - 1) \div bcs = q
  BY <1>1, <1>2, InCluster
<1>4. q < Len(chain)
  BY <1>1, DivLess, SizesPositive
<1>5. clust = chain[q + 1]
  BY <1>1, <1>2, <1>3, <1>4 DEF Inv, Position, ClusterOf
<1> QED
  BY <1>1, <1>4, <1>5 DEF Inv, Types, q

(* The place of the pointer in its cluster. *)
LEMMA SectorPlace ==
  ASSUME Types
  PROVE  /\ fptr \in Nat /\ CSect \in 0 .. CSize - 1 /\ fptr % SS \in 0 .. SS - 1
         /\ fptr % bcs = CSect * SS + (fptr % SS) /\ (fptr % bcs) \div SS = CSect
         /\ CSect * SS \in Nat /\ CSect * SS + SS <= bcs
         /\ fptr \div bcs \in Nat /\ (fptr \div bcs) * bcs \in Nat
         /\ fptr = (fptr \div bcs) * bcs + (fptr % bcs)
         /\ fptr \div SS \in Nat /\ fptr = (fptr \div SS) * SS + (fptr % SS)
<1>1. fptr \in Nat
  BY SizesPositive DEF Types
<1>2. /\ CSect \in 0 .. CSize - 1 /\ fptr % SS \in 0 .. SS - 1
      /\ fptr % bcs = CSect * SS + (fptr % SS) /\ (fptr % bcs) \div SS = CSect
      /\ fptr \div bcs \in Nat /\ (fptr \div bcs) * bcs \in Nat
      /\ fptr = (fptr \div bcs) * bcs + (fptr % bcs)
  BY <1>1, Place DEF CSect
<1>3. CSect \in Nat /\ CSect < CSize /\ SS \in Nat \ {0} /\ CSize \in Nat
  BY <1>2, SizesPositive
<1>4. CSect * SS \in Nat /\ CSect * SS + SS <= CSize * SS
  BY <1>3, Times
<1>5. fptr \div SS \in Nat /\ fptr = (fptr \div SS) * SS + (fptr % SS)
  BY <1>1, DivMod, SizesPositive
<1> QED
  BY <1>1, <1>2, <1>4, <1>5, SizesPositive

LEMMA AtClusterMod == ASSUME Types PROVE AtCluster <=> fptr % bcs = 0
<1>1. CSect * SS \in Nat /\ (CSect * SS = 0 <=> CSect = 0)
  <2>1. \A k, n \in Nat : n # 0 => k * n \in Nat /\ (k * n = 0 <=> k = 0)
    OBVIOUS
  <2>2. CSect \in Nat
    BY SectorPlace, SizesPositive
  <2> QED
    BY <2>1, <2>2, SizesPositive
<1>2. fptr % SS \in Nat /\ fptr % bcs = CSect * SS + (fptr % SS)
  BY SectorPlace, SizesPositive
<1> QED
  BY <1>1, <1>2 DEF AtCluster, AtSector

(* The bytes a turn of f_read or f_write transfers. *)
Turn == IF AtSector /\ Whole > 0 THEN SS * Whole ELSE Part

(* A turn stays in one cluster, and where it ends inside a sector it is the *)
(* one it began in.                                                         *)
LEMMA TurnMoves ==
  ASSUME Types, left > 0
  PROVE  /\ Turn \in Nat /\ 0 < Turn /\ Turn <= left
         /\ (fptr % bcs) + Turn <= bcs
         /\ (fptr + Turn - 1) \div bcs = fptr \div bcs
         /\ (fptr + Turn) % SS # 0 => ((fptr + Turn) % bcs) \div SS = CSect
         /\ AtSector /\ Whole > 0 => (fptr + Turn) % SS = 0
         /\ ~(AtSector /\ Whole > 0) => (fptr % SS) + Turn <= SS
<1> DEFINE q == fptr \div bcs
           r == fptr % SS
           d == fptr \div SS
<1>1. /\ fptr \in Nat /\ left \in Nat /\ CSect \in Nat /\ CSect < CSize /\ r \in Nat /\ r < SS
      /\ fptr % bcs = CSect * SS + r
      /\ CSect * SS \in Nat /\ CSect * SS + SS <= bcs
      /\ q \in Nat /\ q * bcs \in Nat /\ fptr = q * bcs + (fptr % bcs)
      /\ d \in Nat /\ fptr = d * SS + r
  <2>1. left \in Nat
    BY DEF Types
  <2>2. \A x, y \in Nat : \A z \in 0 .. y - 1 : z \in Nat /\ z < y
    OBVIOUS
  <2>3. CSect \in Nat /\ CSect < CSize /\ r \in Nat /\ r < SS
    BY Zenon, <2>2, SectorPlace, SizesPositive
  <2> QED
    BY <2>1, <2>3, SectorPlace
<1> HIDE DEF q, r, d
<1>2. /\ Turn \in Nat /\ 0 < Turn /\ Turn <= left /\ CSect * SS + r + Turn <= bcs
      /\ (fptr + Turn) % SS # 0 => r + Turn < SS
      /\ AtSector /\ Whole > 0 => (fptr + Turn) % SS = 0
      /\ ~(AtSector /\ Whole > 0) => r + Turn <= SS
  <2>1. CASE AtSector /\ Whole > 0
    <3>1. left \div SS \in Nat /\ (left \div SS) * SS \in Nat /\ (left \div SS) * SS <= left
      <4>1. left \div SS \in Nat /\ left % SS \in 0 .. SS - 1 /\ left = (left \div SS) * SS + (left % SS)
        BY Zenon, <1>1, DivMod, SizesPositive
      <4>2. (left \div SS) * SS \in Nat
        BY <4>1, SizesPositive
      <4> QED
        BY <4>1, <4>2, SizesPositive
    <3>2. /\ Whole \in Nat /\ Whole <= left \div SS /\ CSect + Whole <= CSize
      BY <1>1, <3>1, SizesPositive DEF Whole, Least
    <3>3. \A i, j \in Nat : i <= j => i * SS \in Nat /\ j * SS \in Nat /\ i * SS <= j * SS
      BY Times, SizesPositive
    <3>4. Whole * SS \in Nat /\ Whole * SS <= left
      BY <1>1, <3>1, <3>2, <3>3
    <3>5. (CSect + Whole) * SS <= CSize * SS /\ (CSect + Whole) * SS = CSect * SS + Whole * SS
      BY <1>1, <3>2, <3>3, Distribute, SizesPositive
    <3>6. Turn = Whole * SS
      BY <2>1, <3>2, SizesPositive DEF Turn
    <3>7. Whole * SS > 0
      BY <2>1, <3>2, SizesPositive
    <3>8. r = 0
      BY <2>1 DEF AtSector, r
    <3>9. (fptr + Turn) % SS = 0
      <4>1. fptr + Turn = (d + Whole) * SS + 0 /\ d + Whole \in Nat
        BY <1>1, <3>2, <3>4, <3>6, <3>8, Distribute, SizesPositive
      <4> QED
        BY <4>1, DivModUnique, SizesPositive
    <3> QED
      BY <2>1, <1>1, <3>4, <3>5, <3>6, <3>7, <3>8, <3>9, SizesPositive
  <2>2. CASE ~(AtSector /\ Whole > 0)
    <3>1. Turn = Least(SS - r, left)
      BY <2>2 DEF Turn, Part, r
    <3>2. Turn \in Nat /\ 0 < Turn /\ Turn <= left /\ r + Turn <= SS
      BY <1>1, <3>1, SizesPositive DEF Least
    <3>3. (fptr + Turn) % SS # 0 => r + Turn < SS
      <4> SUFFICES ASSUME r + Turn = SS PROVE (fptr + Turn) % SS = 0
        BY <1>1, <3>2, SizesPositive
      <4>1. fptr + Turn = (d + 1) * SS + 0 /\ d + 1 \in Nat
        BY <1>1, <3>2, Distribute, SizesPositive
      <4> QED
        BY <4>1, DivModUnique, SizesPositive
    <3> QED
      BY <2>2, <1>1, <3>2, <3>3, SizesPositive
  <2> QED
    BY <2>1, <2>2
<1> HIDE DEF Turn
<1>3. (fptr + Turn - 1) \div bcs = q
  <2>1. /\ fptr + Turn - 1 \in Nat /\ fptr + Turn - 1 = q * bcs + (CSect * SS + r + Turn - 1)
        /\ CSect * SS + r + Turn - 1 \in Nat /\ CSect * SS + r + Turn - 1 < bcs
    BY <1>1, <1>2, SizesPositive
  <2> QED
    BY <1>1, <2>1, InCluster
<1>4. ASSUME (fptr + Turn) % SS # 0 PROVE ((fptr + Turn) % bcs) \div SS = CSect
  <2>1. /\ fptr + Turn \in Nat /\ fptr + Turn = q * bcs + (CSect * SS + (r + Turn))
        /\ CSect * SS + (r + Turn) \in Nat /\ CSect * SS + (r + Turn) < bcs
    BY <1>1, <1>2, <1>4, SizesPositive
  <2>2. (fptr + Turn) % bcs = CSect * SS + (r + Turn)
    BY <1>1, <2>1, InCluster
  <2>3. r + Turn \in Nat /\ r + Turn < SS
    BY <1>1, <1>2, <1>4
  <2> QED
    BY <1>1, <2>2, <2>3, DivModUnique, SizesPositive
<1> QED
  BY <1>1, <1>2, <1>3, <1>4 DEF q, r

-----------------------------------------------------------------------------
(* Calls that do not move along the chain                                  *)

LEMMA Zeros ==
  /\ NoSect \in (Cluster \cup {None}) \X (0 .. CSize - 1) /\ 0 \in 0 .. MaxDword
  /\ << >> \in Seq(Cluster) /\ 0 * bcs = 0 /\ 0 \in Nat
BY SizesPositive DEF NoSect

LEMMA StartCluster ==
  ASSUME Types
  PROVE  /\ chain = << >> => sclust = None /\ Len(chain) = 0
         /\ chain # << >> => /\ sclust = chain[1] /\ sclust \in Cluster /\ sclust # None
                            /\ Len(chain) \in Nat \ {0}
<1>1. CASE chain = << >>
  BY <1>1 DEF sclust
<1>2. CASE chain # << >>
  <2>1. Len(chain) \in Nat \ {0}
    BY <1>2 DEF Types
  <2>2. chain[1] \in Cluster
    BY <2>1 DEF Types
  <2> QED
    BY <1>2, <2>1, <2>2, SizesPositive DEF sclust
<1> QED
  BY <1>1, <1>2

(* The pointer is where it was, outside f_lseek. *)
LEMMA PositionKept ==
  ASSUME Position, pc # "seek", pc' # "seek", UNCHANGED <<chain, fptr, clust, sect>>,
         mode' # "closed" /\ err' = "FR_OK" => mode # "closed" /\ err = "FR_OK"
  PROVE  Position'
BY DEF Position, ClusterOf

LEMMA OthersInv == ASSUME Inv, Others PROVE Inv'
<1> USE DEF Others, fil, locals
<1>1. Types'
  BY DEF Inv, Types
<1>2. ChainOK'
  BY Numbers DEF Inv, ChainOK
<1>3. Fits' /\ Running'
  BY DEF Inv, Fits, Running
<1>4. Position'
  BY PositionKept DEF Inv
<1>5. EntryOK'
  BY DEF Inv, EntryOK, sclust
<1> QED
  BY <1>1, <1>2, <1>3, <1>4, <1>5 DEF Inv

(* Calls that change nothing but what they return. *)
LEMMA QuietInv ==
  ASSUME Inv, UNCHANGED <<chain, free, data, entry, synced, fil, locals>>,
         out' = out \/ out' = << >>
  PROVE  Inv'
<1> USE DEF fil, locals
<1>1. Types' /\ ChainOK' /\ Fits'
  BY DEF Inv, Types, ChainOK, Fits
<1>2. Running'
  BY DEF Inv, Running
<1>3. Position'
  BY DEF Inv, Position, ClusterOf
<1>4. EntryOK'
  BY DEF Inv, EntryOK, sclust
<1> QED
  BY <1>1, <1>2, <1>3, <1>4 DEF Inv

LEMMA OpenInv == ASSUME Inv, NEW m \in {"r", "rw"}, Open(m) PROVE Inv'
<1> USE DEF Open, locals
<1>1. /\ entry.size \in 0 .. MaxDword /\ entry.sclust \in Cluster \cup {None}
      /\ entry.sclust \in {None, sclust} /\ ~modified
      /\ entry.size <= (IF entry.sclust = None THEN 0 ELSE Len(chain) * bcs)
  BY DEF Inv, Types, EntryOK, Running
<1>2. CASE entry.sclust = None
  <2>1. chain' = << >> /\ objsize' = 0 /\ Len(chain') = 0 /\ sclust' = None
    BY <1>1, <1>2, SizesPositive DEF sclust
  <2>2. Types'
    BY Zenon, <1>1, <2>1, Zeros DEF Inv, Types
  <2>3. ChainOK' /\ Fits'
    BY <2>1, Zeros DEF ChainOK, Fits
  <2>4. Running' /\ Position'
    BY <2>1, SizesPositive DEF Inv, Running, Position
  <2>5. EntryOK'
    BY <1>1, <1>2, <2>1, SizesPositive DEF EntryOK
  <2> QED
    BY <2>2, <2>3, <2>4, <2>5 DEF Inv
<1>3. CASE entry.sclust # None
  <2>1. chain' = chain /\ sclust' = sclust /\ sclust = entry.sclust
    BY <1>1, <1>3 DEF sclust
  <2>2. Types'
    BY Zenon, <1>1, <2>1, Zeros DEF Inv, Types
  <2>3. ChainOK' /\ Fits'
    BY <1>1, <1>3, <2>1 DEF Inv, ChainOK, Fits
  <2>4. Running' /\ Position'
    BY <1>1, <2>1, SizesPositive DEF Inv, Running, Position
  <2>5. EntryOK'
    BY <1>1, <1>3, <2>1 DEF EntryOK
  <2> QED
    BY <2>2, <2>3, <2>4, <2>5 DEF Inv
<1> QED
  BY <1>2, <1>3

LEMMA OpenNewInv == ASSUME Inv, OpenNew PROVE Inv'
<1> USE DEF OpenNew, locals
<1>1. chain' = << >> /\ Len(chain') = 0 /\ sclust' = None
  BY DEF sclust
<1>2. free' \subseteq Cluster
  <2>1. chain \in Seq(Cluster) /\ free \subseteq Cluster
    BY Zenon DEF Inv, Types
  <2>2. Len(chain) \in Nat /\ DOMAIN chain = 1 .. Len(chain)
    BY <2>1
  <2>3. \A i \in 1 .. Len(chain) : chain[i] \in Cluster
    BY <2>1
  <2>4. \E n \in 0 .. Len(chain) : free' = free \cup {chain[i] : i \in 1 .. n}
    <3>1. \/ free' = free \cup {chain[i] : i \in DOMAIN chain}
          \/ \E n \in 0 .. Len(chain) : free' = free \cup {chain[i] : i \in 1 .. n}
      BY Zenon
    <3>2. Len(chain) \in 0 .. Len(chain)
      BY <2>2
    <3> QED
      BY Zenon, <2>2, <3>1, <3>2
  <2>5. PICK n \in 0 .. Len(chain) : free' = free \cup {chain[i] : i \in 1 .. n}
    BY Zenon, <2>4
  <2>6. \A i \in 1 .. n : i \in 1 .. Len(chain)
    BY <2>2
  <2> QED
    BY Zenon, <2>1, <2>3, <2>5, <2>6
<1>3. data' \in [Cluster -> [0 .. bcs - 1 -> Byte]]
  BY DEF Wild, Byte
<1>4. Types'
  BY Zenon, <1>1, <1>2, <1>3, Zeros DEF Inv, Types
<1>5. ChainOK' /\ Fits'
  BY <1>1, SizesPositive DEF ChainOK, Fits
<1>6. Running' /\ Position'
  BY SizesPositive DEF Inv, Running, Position
<1>7. EntryOK'
  BY <1>1, SizesPositive DEF EntryOK
<1> QED
  BY <1>4, <1>5, <1>6, <1>7 DEF Inv

LEMMA SyncEffect ==
  ASSUME Inv, pc = "idle", mode # "closed", f_sync,
         UNCHANGED chain
  PROVE  /\ entry' \in [size : 0 .. MaxDword, sclust : Cluster \cup {None}]
         /\ synced' \in BOOLEAN /\ modified' \in BOOLEAN /\ sclust' = sclust
         /\ ret' = "FR_OK" => ~modified'
         /\ ~modified' =>
              /\ entry'.sclust \in {None, sclust}
              /\ entry'.size <= (IF entry'.sclust = None THEN 0 ELSE Len(chain) * bcs)
              /\ err = "FR_OK" => entry'.size = objsize /\ entry'.sclust = sclust
<1>1. sclust' = sclust /\ sclust \in Cluster \cup {None}
  BY StartCluster DEF sclust, Inv
<1>2. CASE SyncEntry
  <2>1. entry' = [size |-> objsize, sclust |-> sclust] /\ modified' = FALSE
    BY <1>2 DEF SyncEntry
  <2>2. objsize <= (IF sclust = None THEN 0 ELSE Len(chain) * bcs)
    BY StartCluster, SizesPositive, Numbers DEF Inv, Types
  <2> QED
    BY Zenon, <1>1, <2>1, <2>2 DEF Inv, Types, f_sync
<1>3. CASE UNCHANGED <<entry, modified, synced>>
  <2>1. ret' = "FR_OK" => ~modified'
    BY <1>3 DEF f_sync, SyncEntry
  <2> QED
    BY <1>1, <1>3, <2>1 DEF Inv, Types, EntryOK
<1> QED
  BY <1>2, <1>3 DEF f_sync

LEMMA SyncInv == ASSUME Inv, Sync PROVE Inv'
<1> USE DEF Sync, locals
<1>1. Types' /\ ChainOK' /\ Fits'
  BY SyncEffect DEF Inv, Types, ChainOK, Fits
<1>2. Running'
  BY DEF Inv, Running
<1>3. Position'
  BY PositionKept DEF Inv
<1>4. EntryOK'
  BY SyncEffect DEF EntryOK
<1> QED
  BY <1>1, <1>2, <1>3, <1>4 DEF Inv

LEMMA CloseInv == ASSUME Inv, Close PROVE Inv'
<1> USE DEF Close, locals
<1>1. CASE ret' = "FR_OK"
  <2>1. /\ mode' = "closed" /\ err' = "FR_OK" /\ objsize' = 0 /\ fptr' = 0
        /\ clust' = None /\ sect' = NoSect
    BY <1>1
  <2>2. /\ entry' \in [size : 0 .. MaxDword, sclust : Cluster \cup {None}]
        /\ synced' \in BOOLEAN /\ modified' = FALSE /\ sclust' = sclust
        /\ entry'.sclust \in {None, sclust}
        /\ entry'.size <= (IF entry'.sclust = None THEN 0 ELSE Len(chain) * bcs)
    BY <1>1, SyncEffect
  <2>3. Types' /\ ChainOK' /\ Fits'
    BY Zenon, <2>1, <2>2, Zeros DEF Inv, Types, ChainOK, Fits
  <2>4. Running' /\ Position'
    BY <2>1, <2>2 DEF Inv, Running, Position
  <2>5. EntryOK'
    BY <2>1, <2>2 DEF EntryOK
  <2> QED
    BY <2>3, <2>4, <2>5 DEF Inv
<1>2. CASE ret' # "FR_OK"
  <2>1. Sync
    BY <1>2 DEF Sync
  <2> QED
    BY <2>1, SyncInv
<1> QED
  BY <1>1, <1>2

LEMMA OpenAppendInv == ASSUME Inv, OpenAppend PROVE Inv'
<1> USE DEF OpenAppend, locals
<1> DEFINE n == entry.size
<1>1. /\ n \in 0 .. MaxDword /\ n \in Nat /\ n > 0 /\ ~modified
      /\ entry.sclust = sclust /\ n <= Len(chain) * bcs
  <2>1. n \in 0 .. MaxDword /\ n > 0 /\ ~modified
    BY DEF Inv, Types, Running
  <2>2. entry.sclust \in {None, sclust} /\ n <= (IF entry.sclust = None THEN 0 ELSE Len(chain) * bcs)
    BY <2>1 DEF Inv, EntryOK
  <2> QED
    BY <2>1, <2>2, SizesPositive
<1> HIDE DEF n
<1>2. (n - 1) \div bcs \in Nat /\ (n - 1) \div bcs < Len(chain)
  BY <1>1, Numbers, BelowEnd, n - 1 \in Nat, n - 1 < Len(chain) * bcs
<1>3. /\ chain' = chain /\ objsize' = n /\ fptr' = n /\ entry' = entry /\ sclust' = sclust
      /\ clust' = chain[((n - 1) \div bcs) + 1]
      /\ sect' = IF n % SS # 0 THEN <<clust', (((n - 1) % bcs) + 1) \div SS>> ELSE NoSect
  BY DEF n, sclust
<1>4. clust' \in Cluster
  BY <1>2, <1>3, Numbers DEF Inv, Types
<1>5. n % SS # 0 => sect' = <<clust', (n % bcs) \div SS>> /\ (n % bcs) \div SS \in 0 .. CSize - 1
  <2>1. n % bcs \in 0 .. bcs - 1 /\ (n % bcs) \div SS \in 0 .. CSize - 1
    BY <1>1, Place
  <2>2. n % SS # 0 => ((n - 1) % bcs) + 1 = n % bcs
    <3>1. bcs \in Nat
      BY SizesPositive
    <3>2. n % SS # 0 => (n - 1) % bcs = (n % bcs) - 1
      BY <1>1, Before
    <3> QED
      BY <2>1, <3>1, <3>2
  <2> QED
    BY <1>3, <2>1, <2>2
<1>6. sect' \in (Cluster \cup {None}) \X (0 .. CSize - 1)
  BY <1>3, <1>4, <1>5, Zeros
<1>7. Types'
  BY ZenonT(60), <1>1, <1>3, <1>4, <1>6 DEF Inv, Types
<1>8. ChainOK' /\ Fits'
  BY <1>1, <1>3 DEF Inv, ChainOK, Fits
<1>9. Running'
  BY <1>1, <1>3 DEF Inv, Running
<1>10. Position'
  BY <1>1, <1>2, <1>3, <1>5 DEF Position, ClusterOf
<1>11. EntryOK'
  BY <1>1, <1>3, Zeros DEF Inv, EntryOK, n
<1> QED
  BY <1>7, <1>8, <1>9, <1>10, <1>11 DEF Inv

-----------------------------------------------------------------------------
(* f_read and f_write                                                      *)

LEMMA ReadStartInv == ASSUME Inv, NEW n \in 1 .. MaxXfer, ReadStart(n) PROVE Inv'
<1> USE DEF ReadStart, Ready, fil
<1>1. /\ left' \in Nat /\ fptr + left' <= objsize /\ fptr <= objsize
      /\ pc' \in {"idle", "read"} /\ (pc' = "read" => left' > 0)
  <2>1. fptr \in Nat /\ objsize \in Nat /\ fptr <= objsize /\ n \in Nat
    BY Numbers, SizesPositive
  <2> QED
    BY <2>1 DEF Least
<1>2. Types' /\ ChainOK' /\ Fits'
  BY <1>1 DEF Inv, Types, ChainOK, Fits
<1>3. Running'
  BY <1>1 DEF Inv, Running
<1>4. Position'
  BY <1>1, PositionKept DEF Inv
<1>5. EntryOK'
  BY <1>1 DEF Inv, EntryOK, sclust
<1> QED
  BY <1>2, <1>3, <1>4, <1>5 DEF Inv

(* The clipping of f_write keeps the pointer within a DWORD. *)
LEMMA Clipped ==
  ASSUME Inv, NEW n \in 1 .. MaxXfer
  PROVE  ClipWrite(n) \in Nat /\ fptr + ClipWrite(n) <= MaxDword
<1>1. fptr \in Nat /\ fptr <= MaxDword /\ n \in Nat /\ n <= MaxDword /\ MaxDword \in Nat
  BY SizesPositive DEF Inv, Types
<1>2. CASE fptr + n <= MaxDword
  <2>1. (fptr + n) % (MaxDword + 1) = fptr + n
    BY <1>1, <1>2
  <2> QED
    BY <1>1, <1>2, <2>1 DEF ClipWrite
<1>3. CASE fptr + n > MaxDword
  <2>1. (fptr + n) % (MaxDword + 1) = fptr + n - (MaxDword + 1)
    <3> DEFINE b == MaxDword + 1
               r == fptr + n - b
    <3>1. b \in Nat \ {0} /\ r \in Nat /\ r < b /\ fptr + n = 1 * b + r
      BY <1>1, <1>3
    <3> HIDE DEF b, r
    <3>2. (1 * b + r) % b = r
      BY <3>1, DivModUnique
    <3> QED
      BY <3>1, <3>2 DEF b, r
  <2> QED
    BY <1>1, <1>3, <2>1 DEF ClipWrite
<1> QED
  BY <1>1, <1>2, <1>3

LEMMA WriteStartInv == ASSUME Inv, NEW n \in 1 .. MaxXfer, WriteStart(n) PROVE Inv'
<1> USE DEF WriteStart, Ready
<1>1. /\ left' \in Nat /\ fptr + left' <= MaxDword
      /\ pc' \in {"idle", "write"} /\ (pc' = "write" => left' > 0)
  BY Clipped
<1>2. Types' /\ ChainOK' /\ Fits'
  BY <1>1 DEF Inv, Types, ChainOK, Fits
<1>3. Running'
  BY <1>1 DEF Inv, Running
<1>4. Position'
  BY <1>1, PositionKept DEF Inv
<1>5. EntryOK'
  BY Zenon, <1>1 DEF Inv, EntryOK, sclust
<1> QED
  BY <1>2, <1>3, <1>4, <1>5 DEF Inv

(* The chain stays as it is or grows at its end. *)
ChainGrows ==
  /\ chain' \in Seq(Cluster) /\ free' \subseteq Cluster /\ ChainOK'
  /\ Len(chain) * bcs <= Len(chain') * bcs
  /\ chain # << >> => sclust' = sclust

LEMMA ChainStays ==
  ASSUME Inv, UNCHANGED chain, free' \subseteq free
  PROVE  ChainGrows
<1>1. ChainOK'
  BY DEF Inv, ChainOK
<1>2. Len(chain) * bcs <= Len(chain') * bcs
  BY Numbers
<1> QED
  BY <1>1, <1>2 DEF Inv, Types, ChainGrows, sclust

(* What stays true of the entry while the chain grows. *)
LEMMA EntryBehind ==
  ASSUME Inv, ChainGrows, ~modified, UNCHANGED entry
  PROVE  /\ entry'.sclust \in {None, sclust'}
         /\ entry'.size <= (IF entry'.sclust = None THEN 0 ELSE Len(chain') * bcs)
         /\ entry.sclust # None => sclust' = sclust
<1>1. /\ entry.sclust \in {None, sclust} /\ entry.size \in Nat
      /\ entry.size <= (IF entry.sclust = None THEN 0 ELSE Len(chain) * bcs)
  BY SizesPositive DEF Inv, Types, EntryOK
<1>2. entry.sclust # None => sclust' = sclust
  BY <1>1, StartCluster DEF Inv, ChainGrows
<1>3. Len(chain') * bcs \in Nat /\ Len(chain) * bcs \in Nat /\ Len(chain) * bcs <= Len(chain') * bcs
  <2>1. Len(chain') \in Nat
    BY DEF ChainGrows
  <2> QED
    BY <2>1, Numbers, SizesPositive DEF ChainGrows
<1> QED
  BY <1>1, <1>2, <1>3

(* A disk error in the middle of a function. *)
LEMMA AbortInv ==
  ASSUME Inv, mode # "closed", Abort("FR_DISK_ERR"), ChainGrows, UNCHANGED objsize,
         data' \in [Cluster -> [0 .. bcs - 1 -> Byte]], fptr' \in 0 .. MaxDword,
         clust' \in Cluster \cup {None}, sect' \in (Cluster \cup {None}) \X (0 .. CSize - 1)
  PROVE  Inv'
<1> USE DEF Abort, Leave
<1>1. Types'
  BY Zeros DEF Inv, Types, ChainGrows
<1>2. ChainOK'
  BY DEF ChainGrows
<1>3. Fits'
  <2>1. Len(chain') \in Nat
    BY DEF ChainGrows
  <2>2. Len(chain') * bcs \in Nat
    BY <2>1, SizesPositive
  <2> QED
    BY <2>2, Numbers DEF Fits, ChainGrows
<1>4. Running' /\ Position'
  BY DEF Running, Position
<1>5. EntryOK'
  BY EntryBehind DEF EntryOK
<1> QED
  BY <1>1, <1>2, <1>3, <1>4, <1>5 DEF Inv

(* Where a turn finds the cluster of the pointer when the chain has it. *)
LEMMA HereCluster ==
  ASSUME Inv, mode # "closed", err = "FR_OK", pc # "seek"
  PROVE  /\ ~AtCluster => /\ fptr \div bcs \in 0 .. Len(chain) - 1 /\ clust \in Cluster
                          /\ clust = chain[(fptr \div bcs) + 1]
         /\ AtCluster /\ fptr > 0 =>
              /\ fptr \div bcs \in 1 .. Len(chain) /\ clust \in Cluster
              /\ get_fat(clust) = IF fptr \div bcs < Len(chain)
                                  THEN chain[(fptr \div bcs) + 1] ELSE EOC
         /\ ~AtSector => /\ ~AtCluster /\ sect = <<clust, CSect>>
<1>1. ASSUME ~AtCluster
      PROVE  /\ fptr \div bcs \in 0 .. Len(chain) - 1 /\ clust \in Cluster
             /\ clust = chain[(fptr \div bcs) + 1]
  BY <1>1, InsideCluster, AtClusterMod DEF Inv
<1>2. ASSUME AtCluster, fptr > 0
      PROVE  /\ fptr \div bcs \in 1 .. Len(chain) /\ clust \in Cluster
             /\ get_fat(clust) = IF fptr \div bcs < Len(chain)
                                 THEN chain[(fptr \div bcs) + 1] ELSE EOC
  <2>1. PICK i \in 1 .. Len(chain) : fptr = i * bcs /\ clust = chain[i]
    BY <1>2, AtEdge, AtClusterMod DEF Inv
  <2>2. fptr \div bcs = i
    <3>1. Len(chain) \in Nat /\ i \in Nat /\ fptr \in Nat
      BY Numbers
    <3>2. i * bcs \in Nat /\ 0 < bcs
      BY <3>1, SizesPositive
    <3>3. fptr = i * bcs + 0
      BY <2>1, <3>2
    <3> QED
      BY Zenon, <3>1, <3>2, <3>3, Zeros, InCluster
  <2> QED
    BY <2>1, <2>2, NextInChain DEF Inv, Types
<1>3. ASSUME ~AtSector PROVE ~AtCluster /\ sect = <<clust, CSect>>
  BY <1>3, SectorPlace DEF AtSector, AtCluster, Inv, Position
<1> QED
  BY <1>1, <1>2, <1>3

(* The cluster f_read takes its bytes from. *)
ReadClst == IF ~AtCluster THEN clust ELSE IF fptr = 0 THEN sclust ELSE get_fat(clust)
TurnSect(c) == IF AtSector THEN <<c, CSect>> ELSE sect

LEMMA ReadCluster ==
  ASSUME Inv, pc = "read"
  PROVE  /\ mode # "closed" /\ err = "FR_OK" /\ left > 0 /\ fptr + left <= objsize
         /\ fptr \div bcs \in 0 .. Len(chain) - 1
         /\ ReadClst = chain[(fptr \div bcs) + 1] /\ ReadClst \in Cluster
         /\ TurnSect(ReadClst) = <<ReadClst, CSect>>
<1>1. mode # "closed" /\ err = "FR_OK" /\ left > 0 /\ fptr + left <= objsize
  BY DEF Inv, Running
<1>2. fptr \div bcs \in Nat /\ fptr \div bcs < Len(chain)
  <2>1. fptr < Len(chain) * bcs
    BY <1>1, Numbers DEF Inv, Types
  <2> QED
    BY <2>1, Numbers, BelowEnd
<1>3. ReadClst = chain[(fptr \div bcs) + 1]
  <2>1. CASE ~AtCluster
    BY <1>1, <2>1, HereCluster DEF ReadClst
  <2>2. CASE AtCluster /\ fptr = 0
    <3>0. fptr = 0 * bcs + 0 /\ 0 < bcs
      BY <2>2, Zeros, SizesPositive
    <3>1. fptr \div bcs = 0
      BY <2>2, <3>0, InCluster
    <3>2. chain # << >>
      BY <1>2, StartCluster DEF Inv
    <3> QED
      BY <2>2, <3>1, <3>2 DEF ReadClst, sclust
  <2>3. CASE AtCluster /\ fptr > 0
    BY <1>1, <1>2, <2>3, HereCluster DEF ReadClst
  <2> QED
    BY <2>1, <2>2, <2>3, Numbers
<1>4. ReadClst \in Cluster
  BY <1>2, <1>3, Numbers DEF Inv, Types
<1>5. TurnSect(ReadClst) = <<ReadClst, CSect>>
  BY <1>1, HereCluster DEF TurnSect, ReadClst
<1> QED
  BY <1>1, <1>2, <1>3, <1>4, <1>5, Numbers

(* The position after a turn. *)
LEMMA TurnPosition ==
  ASSUME Types, NEW c, left > 0, Len(chain') \in Nat,
         fptr \div bcs \in 0 .. Len(chain') - 1, c = chain'[(fptr \div bcs) + 1],
         fptr' = fptr + Turn, clust' = c, pc' # "seek",
         (fptr + Turn) % SS # 0 => sect' = <<c, CSect>>
  PROVE  Position'
<1>0. fptr \in Nat /\ Turn \in Nat /\ (fptr + Turn - 1) \div bcs = fptr \div bcs
  BY TurnMoves, SectorPlace
<1>1. fptr' \in Nat /\ (fptr' - 1) \div bcs = fptr \div bcs
  BY <1>0
<1>2. fptr' % SS # 0 => sect' = <<clust', (fptr' % bcs) \div SS>>
  BY TurnMoves
<1>3. clust' = ClusterOf(fptr - 1)'
  BY <1>1 DEF ClusterOf
<1> QED
  BY <1>2, <1>3 DEF Position

LEMMA ReadTurnInv == ASSUME Inv, ReadTurn PROVE Inv'
<1> DEFINE c == ReadClst
           t == TurnSect(c)
<1>0. pc = "read"
  BY DEF ReadTurn
<1>1. /\ mode # "closed" /\ err = "FR_OK" /\ left > 0 /\ fptr + left <= objsize
      /\ fptr \div bcs \in 0 .. Len(chain) - 1
      /\ c = chain[(fptr \div bcs) + 1] /\ c \in Cluster
      /\ t = <<c, CSect>>
  BY <1>0, ReadCluster
<1>2. t \in (Cluster \cup {None}) \X (0 .. CSize - 1)
  BY <1>1, SectorPlace DEF Inv
<1>3. \/ /\ \/ AbortDisk(fptr, clust, sect)
            \/ AbortDisk(fptr, c, IF Whole > 0 THEN sect ELSE t)
         /\ UNCHANGED <<chain, free, data>>
      \/ /\ AtSector /\ Whole > 0
         /\ clust' = c /\ Advance(SS * Whole)
         /\ UNCHANGED <<chain, free, data, entry, synced, mode, modified, err, objsize, sect>>
      \/ /\ ~(AtSector /\ Whole > 0)
         /\ clust' = c /\ sect' = t /\ Advance(Part)
         /\ UNCHANGED <<chain, free, data, entry, synced, mode, modified, err, objsize>>
  BY <1>1 DEF ReadTurn, ReadClst, TurnSect
<1> HIDE DEF c, t
<1>4. CASE /\ \/ AbortDisk(fptr, clust, sect)
              \/ AbortDisk(fptr, c, IF Whole > 0 THEN sect ELSE t)
           /\ UNCHANGED <<chain, free, data>>
  <2>1. Abort("FR_DISK_ERR") /\ UNCHANGED <<objsize, fptr>>
    BY <1>4 DEF AbortDisk
  <2>2. clust' \in Cluster \cup {None} /\ sect' \in (Cluster \cup {None}) \X (0 .. CSize - 1)
    BY <1>1, <1>2, <1>4 DEF AbortDisk, Inv, Types
  <2>3. ChainGrows
    BY <1>4, ChainStays
  <2> QED
    BY <1>1, <1>4, <2>1, <2>2, <2>3, AbortInv DEF Inv, Types
<1>5. CASE /\ clust' = c /\ Advance(Turn)
           /\ (fptr + Turn) % SS # 0 => sect' = <<c, CSect>>
           /\ sect' \in {sect, t}
           /\ UNCHANGED <<chain, free, data, entry, synced, mode, modified, err, objsize>>
  <2>0. left \in Nat /\ objsize \in 0 .. MaxDword /\ MaxDword \in Nat /\ fptr \in Nat
    BY Numbers, Sizes DEF Inv, Types
  <2>1. /\ Turn \in Nat /\ 0 < Turn /\ Turn <= left /\ fptr \in Nat /\ left \in Nat
        /\ objsize \in Nat /\ objsize <= MaxDword /\ MaxDword \in Nat
    BY <1>1, <2>0, TurnMoves DEF Inv
  <2>2. /\ fptr' = fptr + Turn /\ left' = left - Turn /\ pc' = (IF left' = 0 THEN "idle" ELSE "read")
        /\ UNCHANGED <<ofs, ifptr>>
    BY <1>0, <1>5 DEF Advance
  <2>3. fptr' \in 0 .. MaxDword /\ left' \in Nat /\ fptr' + left' <= objsize /\ fptr' <= objsize
    BY <1>1, <2>1, <2>2
  <2>4. Types'
    BY Zenon, <1>1, <1>2, <1>5, <2>2, <2>3 DEF Inv, Types
  <2>5. ChainOK' /\ Fits'
    BY <1>5 DEF Inv, ChainOK, Fits
  <2>6. Running'
    BY <1>1, <1>5, <2>2, <2>3 DEF Running
  <2>7. Position'
    BY <1>1, <1>5, <2>2, TurnPosition, Numbers DEF Inv
  <2>8. EntryOK'
    BY <1>0, <1>1, <1>5, <2>2 DEF Inv, EntryOK, sclust
  <2> QED
    BY <2>4, <2>5, <2>6, <2>7, <2>8 DEF Inv
<1> QED
  BY <1>1, <1>3, <1>4, <1>5, TurnMoves DEF Turn, Inv

(* The cluster f_write takes, after which the chain may be longer. *)
WriteClst(c) ==
  IF AtCluster
  THEN IF fptr = 0 /\ sclust # None
       THEN c = sclust /\ UNCHANGED <<chain, free>>
       ELSE create_chain(IF fptr = 0 THEN None ELSE clust, c, chain', free')
  ELSE c = clust /\ UNCHANGED <<chain, free>>

LEMMA WriteCluster ==
  ASSUME Inv, pc = "write", NEW c \in Results, WriteClst(c)
  PROVE  /\ Grown(c)
         /\ c = None => chain' = chain /\ free' = free
         /\ c # None => /\ c \in Cluster /\ Len(chain') \in Nat
                        /\ fptr \div bcs \in 0 .. Len(chain') - 1
                        /\ c = chain'[(fptr \div bcs) + 1]
                        /\ TurnSect(c) = <<c, CSect>>
<1>1. mode # "closed" /\ err = "FR_OK"
  BY DEF Inv, Running
<1>2. Grown(c)
  BY CreateGrown DEF WriteClst, Grown
<1>3. /\ Len(chain') \in Nat /\ fptr \in Nat /\ Len(chain) \in Nat
      /\ None \notin Cluster /\ EOC \notin Cluster /\ EOC # None
  BY <1>2, GrownChain, Numbers, SizesPositive, Sizes DEF Inv
<1>4. c # None => TurnSect(c) = <<c, CSect>>
  BY <1>1, HereCluster DEF TurnSect, WriteClst
<1>5. CASE ~AtCluster
  <2>1. fptr \div bcs \in 0 .. Len(chain) - 1 /\ clust \in Cluster /\ clust = chain[(fptr \div bcs) + 1]
    BY <1>1, <1>5, HereCluster
  <2> QED
    BY <1>2, <1>3, <1>4, <1>5, <2>1 DEF WriteClst
<1>6. CASE AtCluster /\ fptr = 0
  <2>1. fptr = 0 * bcs + 0 /\ 0 < bcs
    BY <1>6, Zeros, SizesPositive
  <2>2. fptr \div bcs = 0
    BY <1>6, <2>1, InCluster
  <2>3. CASE sclust # None
    BY <1>2, <1>3, <1>4, <1>6, <2>2, <2>3, StartCluster DEF WriteClst, Inv
  <2>4. CASE sclust = None
    <3>1. create_chain(None, c, chain', free')
      BY <1>6, <2>4 DEF WriteClst
    <3>2. \/ c \in free /\ chain' = Append(chain, c)
          \/ c = None /\ chain' = chain /\ free' = free
      BY <3>1 DEF create_chain
    <3>3. chain = << >> /\ Len(chain) = 0 /\ free \subseteq Cluster
      BY <2>4, StartCluster DEF Inv, Types
    <3>4. c \in free /\ chain' = Append(chain, c) => c \in Cluster /\ Len(chain') = 1 /\ chain'[1] = c
      BY <1>3, <3>3 DEF Inv, Types
    <3> QED
      BY <1>2, <1>3, <1>4, <2>2, <3>2, <3>4
  <2> QED
    BY <2>3, <2>4
<1>7. CASE AtCluster /\ fptr > 0
  <2> DEFINE i == fptr \div bcs
  <2>1. /\ i \in 1 .. Len(chain) /\ clust \in Cluster
        /\ get_fat(clust) = IF i < Len(chain) THEN chain[i + 1] ELSE EOC
    BY <1>1, <1>7, HereCluster
  <2> HIDE DEF i
  <2>2. create_chain(clust, c, chain', free') /\ clust # None
    BY <1>3, <1>7, <2>1 DEF WriteClst
  <2>3. CASE i < Len(chain)
    <3>1. chain[i + 1] \in Cluster
      BY <1>3, <2>1, <2>3, i + 1 \in 1 .. Len(chain) DEF Inv, Types
    <3>2. c = chain[i + 1] /\ chain' = chain /\ free' = free
      BY <1>3, <2>1, <2>2, <2>3, <3>1 DEF create_chain
    <3> QED
      BY <1>2, <1>3, <1>4, <2>1, <2>3, <3>1, <3>2 DEF i
  <2>4. CASE ~(i < Len(chain))
    <3>1. \/ c \in free /\ chain' = Append(chain, c)
          \/ c = None /\ chain' = chain /\ free' = free
      BY <2>1, <2>2, <2>4 DEF create_chain
    <3>2. i = Len(chain)
      BY <1>3, <2>1, <2>4
    <3>3. c \in free /\ chain' = Append(chain, c) =>
            c \in Cluster /\ Len(chain') = Len(chain) + 1 /\ chain'[Len(chain) + 1] = c
      BY <1>3 DEF Inv, Types
    <3> QED
      BY <1>2, <1>3, <1>4, <3>1, <3>2, <3>3 DEF i
  <2> QED
    BY <2>3, <2>4
<1> QED
  BY <1>3, <1>5, <1>6, <1>7

(* What a write leaves in the clusters. *)
LEMMA StoreTyped ==
  ASSUME Types, NEW c \in Cluster, NEW o \in Nat, NEW n \in Nat, NEW w, Store(c, o, n, w)
  PROVE  data' \in [Cluster -> [0 .. bcs - 1 -> Byte]]
<1>1. PICK bytes \in [0 .. n - 1 -> Val] :
        data' = [data EXCEPT ![c] = [x \in 0 .. bcs - 1 |->
                   IF x \in o .. o + n - 1 THEN bytes[x - o]
                   ELSE IF w /\ x >= o + n /\ x \div SS = o \div SS THEN Junk
                   ELSE @[x]]]
  BY Zenon DEF Store
<1> DEFINE f == [x \in 0 .. bcs - 1 |->
                   IF x \in o .. o + n - 1 THEN bytes[x - o]
                   ELSE IF w /\ x >= o + n /\ x \div SS = o \div SS THEN Junk
                   ELSE data[c][x]]
<1>2. data' = [data EXCEPT ![c] = f]
  BY <1>1
<1>3. ASSUME NEW x \in 0 .. bcs - 1 PROVE f[x] \in Byte
  <2>0. data[c] \in [0 .. bcs - 1 -> Byte]
    BY DEF Types
  <2>1. x \in Int /\ data[c][x] \in Byte
    BY <2>0, SizesPositive
  <2>2. x \in o .. o + n - 1 => bytes[x - o] \in Val
    BY <2>1, x \in o .. o + n - 1 => x - o \in 0 .. n - 1
  <2> QED
    BY <2>1, <2>2 DEF Byte
<1>4. f \in [0 .. bcs - 1 -> Byte]
  BY <1>3
<1> HIDE DEF f
<1> QED
  BY <1>2, <1>4 DEF Types

LEMMA SpoiltTyped ==
  ASSUME Types, NEW c \in Cluster, data' \in Spoilt(c)
  PROVE  data' \in [Cluster -> [0 .. bcs - 1 -> Byte]]
<1> DEFINE f == [x \in 0 .. bcs - 1 |->
                   IF x \div SS \in CSect .. CSect + Whole - 1 THEN Junk ELSE data[c][x]]
<1>1. data' = data \/ data' = [data EXCEPT ![c] = f]
  BY DEF Spoilt
<1>2. f \in [0 .. bcs - 1 -> Byte]
  <2>1. data[c] \in [0 .. bcs - 1 -> Byte] /\ Junk \in Byte
    BY DEF Types, Byte
  <2> QED
    BY Zenon, <2>1
<1> HIDE DEF f
<1> QED
  BY <1>1, <1>2 DEF Types

(* The end of the file is within the chain after a turn. *)
LEMMA TurnFits ==
  ASSUME Types, left > 0, NEW n \in Nat, fptr \div bcs \in 0 .. n - 1
  PROVE  fptr + Turn <= n * bcs
<1> DEFINE q == fptr \div bcs
<1>1. /\ fptr \in Nat /\ q \in Nat /\ q * bcs \in Nat /\ fptr = q * bcs + (fptr % bcs)
      /\ fptr % bcs \in Nat
  BY SectorPlace, Place
<1>2. Turn \in Nat /\ (fptr % bcs) + Turn <= bcs
  BY TurnMoves
<1>3. q < n
  OBVIOUS
<1> HIDE DEF q
<1>4. q * bcs + bcs <= n * bcs
  BY <1>1, <1>3, Times, SizesPositive
<1>5. bcs \in Nat /\ n * bcs \in Nat
  BY SizesPositive
<1> QED
  BY <1>1, <1>2, <1>4, <1>5

LEMMA WriteTurnInv == ASSUME Inv, WriteTurn PROVE Inv'
<1>0. pc = "write" /\ mode = "rw" /\ err = "FR_OK" /\ left > 0 /\ fptr + left <= MaxDword
  BY ZenonT(30) DEF WriteTurn, Inv, Running
<1>1. CASE AbortDisk(fptr, clust, sect) /\ ChainError
  <2>1. ChainGrows /\ UNCHANGED data
    BY <1>1, ChainStays DEF ChainError
  <2>2. Abort("FR_DISK_ERR") /\ UNCHANGED <<objsize, fptr, clust, sect>>
    BY <1>1 DEF AbortDisk
  <2> QED
    BY <1>0, <2>1, <2>2, AbortInv DEF Inv, Types
<1>2. ASSUME NEW c \in Results, WriteClst(c),
             \/ /\ c = None
                /\ Leave("FR_OK") /\ out' = << >>
                /\ modified' = TRUE
                /\ UNCHANGED <<data, entry, synced, mode, err, objsize, fptr, clust, sect>>
             \/ /\ c # None
                /\ AbortDisk(fptr, c, sect)
                /\ data' \in Spoilt(c)
             \/ /\ c # None
                /\ \/ /\ AtSector /\ Whole > 0
                      /\ Store(c, CSect * SS, SS * Whole, FALSE)
                      /\ Advance(SS * Whole)
                      /\ UNCHANGED sect
                   \/ /\ ~(AtSector /\ Whole > 0)
                      /\ sect' = IF AtSector THEN <<c, CSect>> ELSE sect
                      /\ Store(sect'[1], sect'[2] * SS + (fptr % SS), Part, AtSector /\ Growing)
                      /\ Advance(Part)
                /\ objsize' = Most(fptr', objsize)
                /\ Flag
                /\ clust' = c /\ synced' = FALSE /\ out' = << >>
                /\ UNCHANGED <<entry, mode, err, ret>>
      PROVE  Inv'
  <2>0. Grown(c) /\ Types
    BY <1>0, <1>2, WriteCluster DEF Inv
  <2>1. ChainGrows
    BY <2>0, GrownChain DEF ChainGrows, Inv
  <2>2. CASE /\ c = None
             /\ Leave("FR_OK") /\ out' = << >>
             /\ modified' = TRUE
             /\ UNCHANGED <<data, entry, synced, mode, err, objsize, fptr, clust, sect>>
    <3>1. chain' = chain /\ free' = free
      BY <1>0, <1>2, <2>2, WriteCluster
    <3>2. Types' /\ ChainOK' /\ Fits'
      BY <2>2, <3>1, Zeros DEF Leave, Inv, Types, ChainOK, Fits
    <3>3. Running'
      BY <1>0, <2>2, <3>1 DEF Leave, Inv, Running
    <3>4. Position'
      BY <1>0, <2>2, <3>1, PositionKept DEF Leave, Inv
    <3>5. EntryOK'
      BY <2>2 DEF EntryOK
    <3> QED
      BY <3>2, <3>3, <3>4, <3>5 DEF Inv
  <2>3. CASE c # None /\ AbortDisk(fptr, c, sect) /\ data' \in Spoilt(c)
    <3>1. c \in Cluster
      BY <2>3 DEF Results
    <3>2. data' \in [Cluster -> [0 .. bcs - 1 -> Byte]]
      BY <2>3, <2>0, <3>1, SpoiltTyped
    <3>3. Abort("FR_DISK_ERR") /\ UNCHANGED <<objsize, fptr, sect>> /\ clust' = c
      BY <2>3 DEF AbortDisk
    <3> QED
      BY <1>0, <2>0, <2>1, <3>1, <3>2, <3>3, AbortInv DEF Types
  <2>4. CASE /\ c # None
             /\ \/ /\ AtSector /\ Whole > 0
                   /\ Store(c, CSect * SS, SS * Whole, FALSE)
                   /\ Advance(SS * Whole)
                   /\ UNCHANGED sect
                \/ /\ ~(AtSector /\ Whole > 0)
                   /\ sect' = IF AtSector THEN <<c, CSect>> ELSE sect
                   /\ Store(sect'[1], sect'[2] * SS + (fptr % SS), Part, AtSector /\ Growing)
                   /\ Advance(Part)
             /\ objsize' = Most(fptr', objsize)
             /\ Flag
             /\ clust' = c /\ synced' = FALSE /\ out' = << >>
             /\ UNCHANGED <<entry, mode, err, ret>>
    <3>1. /\ c \in Cluster /\ Len(chain') \in Nat
          /\ fptr \div bcs \in 0 .. Len(chain') - 1 /\ c = chain'[(fptr \div bcs) + 1]
          /\ TurnSect(c) = <<c, CSect>>
      BY <1>0, <1>2, <2>4, WriteCluster
    <3>2. /\ fptr \in Nat /\ CSect \in 0 .. CSize - 1 /\ CSect * SS \in Nat
          /\ fptr % SS \in Nat /\ left \in Nat /\ SS \in Nat
      <4>1. SS \in Nat /\ left \in Nat
        BY <2>0, Sizes DEF Types
      <4> QED
        BY <2>0, <4>1, SectorPlace
    <3>3. /\ Turn \in Nat /\ 0 < Turn /\ Turn <= left
          /\ AtSector /\ Whole > 0 => (fptr + Turn) % SS = 0
      BY <1>0, <2>0, TurnMoves
    <3>4. /\ Advance(Turn)
          /\ sect' \in {sect, <<c, CSect>>}
          /\ (fptr + Turn) % SS # 0 => sect' = <<c, CSect>>
          /\ Store(c, CSect * SS, Turn, FALSE) \/ Store(c, CSect * SS + (fptr % SS), Turn, AtSector /\ Growing)
      <4>1. CASE AtSector /\ Whole > 0
        BY Zenon, <2>4, <3>3, <4>1 DEF Turn
      <4>2. CASE ~(AtSector /\ Whole > 0)
        <5>1. sect' = <<c, CSect>>
          BY ZenonT(60), <2>4, <3>1, <4>2 DEF TurnSect
        <5>2. sect'[1] = c /\ sect'[2] = CSect
          BY <5>1
        <5> QED
          BY Zenon, <2>4, <4>2, <5>1, <5>2 DEF Turn
      <4> QED
        BY Zenon, <4>1, <4>2
    <3>5. data' \in [Cluster -> [0 .. bcs - 1 -> Byte]]
      <4> DEFINE b == CSect * SS + (fptr % SS)
      <4>1. b \in Nat
        BY <3>2
      <4>2. Store(c, CSect * SS, Turn, FALSE) \/ Store(c, b, Turn, AtSector /\ Growing)
        BY ZenonT(30), <3>4
      <4> HIDE DEF b
      <4> QED
        BY Zenon, <2>0, <3>1, <3>2, <3>3, <4>1, <4>2, StoreTyped
    <3>6. /\ fptr' = fptr + Turn /\ left' = left - Turn /\ pc' = (IF left' = 0 THEN "idle" ELSE "write")
          /\ UNCHANGED <<ofs, ifptr>>
      BY <1>0, <3>4 DEF Advance
    <3>7. MaxDword \in Nat /\ objsize \in Nat /\ objsize <= MaxDword
      BY <2>0, Sizes DEF Types
    <3>8. /\ fptr' \in 0 .. MaxDword /\ left' \in Nat /\ fptr' + left' <= MaxDword
          /\ objsize' \in 0 .. MaxDword /\ fptr' <= objsize'
      BY <1>0, <2>4, <3>2, <3>3, <3>6, <3>7 DEF Most
    <3>9. modified' = (modified \/ pc' = "idle")
      BY <2>4 DEF Flag
    <3>10. Types'
      <4>1. sect' \in (Cluster \cup {None}) \X (0 .. CSize - 1)
        BY <2>0, <3>1, <3>2, <3>4 DEF Types
      <4>2. chain' \in Seq(Cluster) /\ free' \subseteq Cluster
        BY <2>1 DEF ChainGrows
      <4>3. modified' \in BOOLEAN
        BY <2>0, <3>9 DEF Types
      <4> QED
        BY Zenon, <2>0, <2>4, <3>1, <3>5, <3>6, <3>8, <4>1, <4>2, <4>3 DEF Types
    <3>11. ChainOK'
      BY <2>1 DEF ChainGrows
    <3>12. Fits'
      <4>1. fptr' <= Len(chain') * bcs
        BY <1>0, <2>0, <3>1, <3>6, TurnFits
      <4>2. objsize <= Len(chain) * bcs /\ Len(chain) * bcs \in Nat
        BY <1>0, Numbers
      <4>3. Len(chain') * bcs \in Nat /\ Len(chain) * bcs <= Len(chain') * bcs
        BY <2>1, <3>1, SizesPositive DEF ChainGrows
      <4> QED
        BY <2>4, <3>7, <4>1, <4>2, <4>3 DEF Fits, Most
    <3>13. Running'
      BY <1>0, <2>4, <3>6, <3>8 DEF Running
    <3>14. Position'
      BY <1>0, <2>0, <2>4, <3>1, <3>4, <3>6, TurnPosition
    <3>15. EntryOK'
      BY ZenonT(30), <2>1, <2>4, <3>6, <3>9, EntryBehind DEF EntryOK
    <3> QED
      BY <3>10, <3>11, <3>12, <3>13, <3>14, <3>15 DEF Inv
  <2> QED
    BY ZenonT(60), <1>2, <2>2, <2>3, <2>4
<1> QED
  BY ZenonT(30), <1>1, <1>2 DEF WriteTurn, WriteClst

-----------------------------------------------------------------------------
(* f_lseek                                                                 *)

LEMMA WholeClusters ==
  ASSUME NEW k \in Nat
  PROVE  k * bcs \in Nat
BY SizesPositive

(* The end of f_lseek with the pointer at p. *)
LEMMA SeekDoneInv ==
  ASSUME Inv, mode # "closed", err = "FR_OK", pc \in {"idle", "seek"}, ChainGrows,
         NEW p \in 0 .. MaxDword, SeekDone(p), p <= Len(chain') * bcs,
         clust' \in Cluster \cup {None}, sect' \in (Cluster \cup {None}) \X (0 .. CSize - 1),
         p > 0 => clust' = At(chain', p - 1),
         p % SS # 0 => sect' = <<clust', (p % bcs) \div SS>>,
         p <= objsize => sclust' = sclust /\ (pc = "seek" => objsize > 0)
  PROVE  Inv'
<1> USE DEF SeekDone, Leave, Extend
<1>1. /\ p \in Nat /\ objsize \in Nat /\ objsize' = Most(p, objsize)
      /\ objsize' \in 0 .. MaxDword /\ p <= objsize'
      /\ modified' = (modified \/ p > objsize)
  <2>1. MaxDword \in Nat /\ objsize \in 0 .. MaxDword
    BY Sizes DEF Inv, Types
  <2> QED
    BY <2>1 DEF Most
<1>2. Len(chain') \in Nat /\ Len(chain') * bcs \in Nat
  <2>1. Len(chain') \in Nat
    BY DEF ChainGrows
  <2> QED
    BY Zenon, <2>1, WholeClusters
<1>3. Types'
  <2>1. modified' \in BOOLEAN /\ synced' \in BOOLEAN
    BY <1>1 DEF Inv, Types
  <2> QED
    BY <1>1, <2>1, Zeros DEF Inv, Types, ChainGrows
<1>4. ChainOK'
  BY DEF ChainGrows
<1>5. Fits'
  BY <1>1, <1>2, Numbers DEF Fits, Most, ChainGrows
<1>6. Running'
  BY <1>1 DEF Inv, Running
<1>7. Position'
  <2>1. ClusterOf(fptr - 1)' = At(chain', p - 1)
    BY DEF ClusterOf, At
  <2> QED
    BY <2>1 DEF Position
<1>8. EntryOK'
  <2>1. ASSUME ~modified' PROVE ~modified /\ p <= objsize /\ objsize' = objsize
    BY Zenon, <1>1, <2>1 DEF Most
  <2>2. ASSUME ~modified'
        PROVE  /\ entry'.sclust \in {None, sclust'}
               /\ entry'.size <= (IF entry'.sclust = None THEN 0 ELSE Len(chain') * bcs)
    BY <2>1, <2>2, EntryBehind
  <2>3. ASSUME ~modified' PROVE entry.size = objsize /\ entry.sclust = sclust
    BY <1>1, <2>1, <2>3 DEF Inv, EntryOK
  <2> QED
    BY ZenonT(30), <2>1, <2>2, <2>3 DEF EntryOK
<1> QED
  BY <1>3, <1>4, <1>5, <1>6, <1>7, <1>8 DEF Inv

(* The walk goes on. *)
LEMMA WalkInv ==
  ASSUME Inv, mode # "closed", err = "FR_OK", pc \in {"idle", "seek"}, ChainGrows,
         NEW c \in Cluster, NEW p \in Nat, NEW o \in Nat, NEW from \in 0 .. MaxDword, from <= objsize,
         Walk(c, p, o, from), o > 0, p + o <= MaxDword, p < Len(chain') * bcs,
         mode = "r" => p + o <= objsize, c = At(chain', p), p % bcs = 0
  PROVE  Inv'
<1> USE DEF Walk
<1>1. p \in 0 .. MaxDword
  BY Sizes
<1>2. Types'
  <2>1. synced' \in BOOLEAN
    BY ZenonT(60) DEF Inv, Types
  <2> QED
    BY <1>1, <2>1 DEF Inv, Types, ChainGrows
<1>3. ChainOK'
  BY DEF ChainGrows
<1>4. Fits'
  <2>1. Len(chain') \in Nat
    BY DEF ChainGrows
  <2>2. Len(chain') * bcs \in Nat
    BY <2>1, SizesPositive
  <2> QED
    BY <2>2, Numbers DEF Fits, ChainGrows
<1>5. Running'
  BY DEF Inv, Running
<1>6. Position'
  <2>1. ClusterOf(fptr)' = At(chain', p)
    BY DEF ClusterOf, At
  <2> QED
    BY <2>1 DEF Position
<1>7. EntryOK'
  <2>1. CASE modified
    BY <2>1 DEF EntryOK
  <2>2. CASE ~modified
    <3>1. /\ entry'.sclust \in {None, sclust'}
          /\ entry'.size <= (IF entry'.sclust = None THEN 0 ELSE Len(chain') * bcs)
      BY <2>2, EntryBehind
    <3>2. entry.size = objsize /\ (entry.sclust = sclust \/ objsize = 0)
      BY <2>2 DEF Inv, EntryOK
    <3>3. sclust' = sclust \/ objsize = 0
      <4>1. CASE chain = << >>
        <5>1. Len(chain) * bcs = 0
          BY <4>1, StartCluster, Zeros DEF Inv
        <5> QED
          BY <5>1, Numbers
      <4> QED
        BY <4>1 DEF ChainGrows
    <3> QED
      BY <3>1, <3>2, <3>3 DEF EntryOK
  <2> QED
    BY <2>1, <2>2
<1> QED
  BY <1>2, <1>3, <1>4, <1>5, <1>6, <1>7 DEF Inv

(* create_chain at the i-th cluster gives the next one, or None at the end of *)
(* the chain of a full disk.                                                  *)
LEMMA CreateNext ==
  ASSUME Inv, NEW i \in 1 .. Len(chain), NEW c, create_chain(chain[i], c, chain', free')
  PROVE  /\ ChainGrows
         /\ \/ c = None /\ chain' = chain
            \/ c \in Cluster /\ Len(chain') \in Nat /\ i + 1 \in 1 .. Len(chain') /\ c = chain'[i + 1]
<1>1. /\ Len(chain) \in Nat /\ None \notin Cluster /\ EOC \notin Cluster /\ EOC # None
      /\ chain[i] \in Cluster
  BY Numbers, Sizes DEF Inv, Types
<1>2. get_fat(chain[i]) = IF i < Len(chain) THEN chain[i + 1] ELSE EOC
  BY NextInChain DEF Inv
<1>3. ChainGrows
  <2>1. Grown(c)
    BY CreateGrown
  <2> QED
    BY <2>1, GrownChain DEF ChainGrows, Inv
<1>4. CASE i < Len(chain)
  <2>1. chain[i + 1] \in Cluster
    BY <1>1, <1>4, i + 1 \in 1 .. Len(chain) DEF Inv, Types
  <2>2. c = chain[i + 1] /\ chain' = chain
    BY <1>1, <1>2, <1>4, <2>1 DEF create_chain
  <2> QED
    BY <1>1, <1>3, <1>4, <2>1, <2>2
<1>5. CASE ~(i < Len(chain))
  <2>1. \/ c \in free /\ chain' = Append(chain, c)
        \/ c = None /\ chain' = chain
    BY <1>1, <1>2, <1>5 DEF create_chain
  <2>2. i = Len(chain)
    BY <1>1, <1>5
  <2>3. c \in free /\ chain' = Append(chain, c) =>
          c \in Cluster /\ Len(chain') = Len(chain) + 1 /\ chain'[Len(chain) + 1] = c
    BY <1>1 DEF Inv, Types
  <2> QED
    BY <1>1, <1>3, <2>1, <2>2, <2>3
<1> QED
  BY <1>4, <1>5

(* The first byte of the k-th cluster after the first. *)
LEMMA ClusterTop ==
  ASSUME NEW q \in Nat, NEW n \in Nat, q < n
  PROVE  /\ q * bcs \in Nat /\ (q * bcs) % bcs = 0 /\ (q * bcs) \div bcs = q
         /\ q * bcs < n * bcs /\ q * bcs + bcs <= n * bcs
<1>1. q * bcs \in Nat /\ n * bcs \in Nat /\ bcs \in Nat \ {0}
  BY SizesPositive
<1>2. q * bcs + bcs <= n * bcs
  BY <1>1, Times
<1> DEFINE t == q * bcs
<1>3. t \in Nat /\ t = q * bcs + 0 /\ 0 < bcs
  BY <1>1
<1>4. t \div bcs = q /\ t % bcs = 0
  <2> HIDE DEF t
  <2> QED
    BY <1>3, InCluster
<1> QED
  BY <1>1, <1>2, <1>4

LEMMA SeekStartInv == ASSUME Inv, NEW o \in 0 .. MaxDword, SeekStart(o) PROVE Inv'
<1> DEFINE to == Target(o)
<1>1. /\ pc = "idle" /\ mode # "closed" /\ err = "FR_OK"
      /\ \/ to = 0 /\ UNCHANGED <<chain, free, clust, sect>> /\ SeekDone(0)
         \/ to > 0 /\ Ahead(to) /\ UNCHANGED <<chain, free>> /\ Walk(clust, Top, to - Top, fptr)
         \/ to > 0 /\ sclust # None /\ UNCHANGED <<chain, free>> /\ Walk(sclust, 0, to, fptr)
         \/ to > 0 /\ sclust = None /\ AbortDisk(0, clust, sect) /\ ChainError
         \/ /\ to > 0 /\ sclust = None
            /\ \E c \in Results :
                 /\ create_chain(None, c, chain', free')
                 /\ IF c # None THEN Walk(c, 0, to, fptr)
                                ELSE clust' = None /\ UNCHANGED sect /\ SeekDone(0)
  BY DEF SeekStart, Ready
<1>2. to \in Nat /\ to <= MaxDword /\ (mode = "r" => to <= objsize) /\ MaxDword \in Nat
  <2>1. objsize \in 0 .. MaxDword
    BY Zenon DEF Inv, Types
  <2>2. MaxDword \in Nat
    BY SizesPositive
  <2> QED
    BY <2>1, <2>2 DEF Target
<1> HIDE DEF to
<1>3. Types /\ clust \in Cluster \cup {None} /\ sect \in (Cluster \cup {None}) \X (0 .. CSize - 1)
      /\ fptr \in 0 .. MaxDword /\ fptr <= objsize
  BY Zenon, <1>1, Numbers DEF Inv, Types
<1>4. 0 % SS = 0 /\ 0 % bcs = 0 /\ 0 \div bcs = 0
  BY SizesPositive, DivModUnique, Zeros, 0 = 0 * SS + 0, 0 = 0 * bcs + 0
<1>5. CASE UNCHANGED <<chain, free, clust, sect>> /\ SeekDone(0)
  <2>1. ChainGrows /\ sclust' = sclust
    BY <1>5, ChainStays DEF sclust
  <2>2. 0 <= Len(chain') * bcs
    BY <1>5, Numbers
  <2> QED
    BY <1>1, <1>2, <1>3, <1>4, <1>5, <2>1, <2>2, Zeros, SeekDoneInv
<1>6. CASE to > 0 /\ Ahead(to) /\ UNCHANGED <<chain, free>> /\ Walk(clust, Top, to - Top, fptr)
  <2> DEFINE q == (fptr - 1) \div bcs
             e == (to - 1) \div bcs
  <2>1. fptr \in Nat /\ fptr > 0 /\ fptr <= Len(chain) * bcs /\ Len(chain) * bcs \in Nat
        /\ Len(chain) \in Nat /\ fptr - 1 \in Nat /\ fptr - 1 < Len(chain) * bcs
        /\ to - 1 \in Nat
    BY <1>1, <1>2, <1>6, Numbers DEF Ahead
  <2>2. q \in Nat /\ q < Len(chain)
    BY <2>1, BelowEnd
  <2>3. e \in Nat /\ e * bcs <= to - 1 /\ e * bcs \in Nat
    BY Zenon, <2>1, Place
  <2>4. q <= e /\ Top = q * bcs
    BY <1>6 DEF Ahead, Top
  <2>5. clust = At(chain, fptr - 1) /\ At(chain, fptr - 1) = chain[q + 1]
    BY <1>1, <2>1, <2>2 DEF Inv, Position, ClusterOf, At
  <2> HIDE DEF q, e
  <2>6. q * bcs <= e * bcs
    <3>1. q < e => q * bcs + bcs <= e * bcs
      BY <2>2, <2>3, Times, SizesPositive
    <3>2. q * bcs \in Nat /\ bcs \in Nat
      BY <2>2, SizesPositive
    <3> QED
      BY <2>2, <2>3, <2>4, <3>1, <3>2
  <2>7. /\ Top \in Nat /\ Top % bcs = 0 /\ Top \div bcs = q /\ Top < Len(chain) * bcs
    BY <2>1, <2>2, <2>4, ClusterTop
  <2>8. clust = At(chain, Top) /\ clust \in Cluster
    <3>1. chain[q + 1] \in Cluster
      BY <2>1, <2>2, q + 1 \in 1 .. Len(chain) DEF Inv, Types
    <3> QED
      BY <2>2, <2>5, <2>7, <3>1 DEF At
  <2>9. to - Top \in Nat /\ to - Top > 0 /\ Top + (to - Top) = to
    BY <1>2, <2>3, <2>4, <2>6, <2>7
  <2>10. ChainGrows
    BY <1>6, ChainStays
  <2> QED
    BY <1>1, <1>2, <1>3, <1>6, <2>7, <2>8, <2>9, <2>10, WalkInv
<1>7. CASE to > 0 /\ sclust # None /\ UNCHANGED <<chain, free>> /\ Walk(sclust, 0, to, fptr)
  <2>1. Len(chain) \in Nat \ {0} /\ sclust = chain[1] /\ sclust \in Cluster
    BY <1>3, <1>7, StartCluster
  <2>2. 0 < Len(chain) * bcs /\ sclust = At(chain, 0)
    <3>1. 0 * bcs < Len(chain) * bcs
      BY <2>1, ClusterTop
    <3> QED
      BY <1>4, <2>1, <3>1, Zeros DEF At
  <2>3. ChainGrows
    BY <1>7, ChainStays
  <2> QED
    BY <1>1, <1>2, <1>3, <1>4, <1>7, <2>1, <2>2, <2>3, WalkInv
<1>8. CASE AbortDisk(0, clust, sect) /\ ChainError
  <2>1. ChainGrows /\ UNCHANGED data
    BY <1>8, ChainStays DEF ChainError
  <2>2. Abort("FR_DISK_ERR") /\ UNCHANGED <<objsize, clust, sect>> /\ fptr' = 0
    BY <1>8 DEF AbortDisk
  <2> QED
    BY <1>1, <1>3, <2>1, <2>2, Zeros, AbortInv DEF Types
<1>9. ASSUME NEW c \in Results, to > 0, sclust = None, create_chain(None, c, chain', free'),
             IF c # None THEN Walk(c, 0, to, fptr)
                         ELSE clust' = None /\ UNCHANGED sect /\ SeekDone(0)
      PROVE  Inv'
  <2>1. ChainGrows
    <3>1. Grown(c)
      BY <1>9, CreateGrown
    <3> QED
      BY <3>1, GrownChain DEF ChainGrows, Inv
  <2>2. chain = << >> /\ Len(chain) = 0 /\ free \subseteq Cluster /\ None \notin free
    BY <1>3, <1>9, StartCluster, Sizes DEF Types
  <2>3. \/ c \in free /\ chain' = Append(chain, c)
        \/ c = None /\ chain' = chain
    BY <1>9 DEF create_chain
  <2>4. CASE c = None
    <3>1. chain' = chain /\ sclust' = sclust /\ 0 <= Len(chain') * bcs
      BY <2>2, <2>3, <2>4, Numbers DEF sclust
    <3> QED
      BY <1>1, <1>2, <1>3, <1>4, <1>9, <2>1, <2>4, <3>1, Zeros, SeekDoneInv
  <2>5. CASE c # None
    <3>1. c \in Cluster /\ Len(chain') = 1 /\ chain'[1] = c
      BY <2>2, <2>3, <2>5, Numbers DEF Inv, Types
    <3>2. 0 < Len(chain') * bcs /\ c = At(chain', 0)
      <4>1. 0 * bcs < Len(chain') * bcs
        BY <3>1, ClusterTop
      <4> QED
        BY <1>4, <3>1, <4>1, Zeros DEF At
    <3> QED
      BY <1>1, <1>2, <1>3, <1>4, <1>9, <2>1, <2>5, <3>1, <3>2, WalkInv
  <2> QED
    BY <2>4, <2>5
<1> QED
  BY <1>1, <1>5, <1>6, <1>7, <1>8, <1>9

(* Where the walk of f_lseek is. *)
LEMMA SeekPlace ==
  ASSUME Inv, pc = "seek"
  PROVE  /\ mode # "closed" /\ err = "FR_OK" /\ ofs \in Nat /\ ofs > 0
         /\ fptr \in Nat /\ fptr + ofs <= MaxDword
         /\ \E q \in Nat : /\ q < Len(chain) /\ fptr = q * bcs
                           /\ clust = chain[q + 1] /\ clust \in Cluster
<1>1. /\ mode # "closed" /\ err = "FR_OK" /\ ofs \in Nat /\ ofs > 0
      /\ fptr \in Nat /\ fptr + ofs <= MaxDword /\ fptr < Len(chain) * bcs
  BY Zenon, Numbers DEF Inv, Types, Running
<1> DEFINE q == fptr \div bcs
<1>2. q \in Nat /\ q < Len(chain)
  BY <1>1, Numbers, BelowEnd
<1>3. fptr = q * bcs + (fptr % bcs) /\ q * bcs \in Nat
  BY <1>1, Place
<1>4. fptr % bcs = 0 /\ clust = chain[q + 1]
  BY <1>1, <1>2 DEF Inv, Position, ClusterOf
<1> HIDE DEF q
<1>5. fptr = q * bcs
  BY <1>3, <1>4
<1>6. clust \in Cluster
  BY <1>2, <1>4, Numbers, q + 1 \in 1 .. Len(chain) DEF Inv, Types
<1> QED
  BY <1>1, <1>2, <1>4, <1>5, <1>6

(* The pointer o bytes after the top of cluster q. *)
LEMMA SeekEnd ==
  ASSUME NEW q \in Nat, NEW o \in Nat, o > 0, o <= bcs
  PROVE  /\ q * bcs + o \in Nat /\ (q * bcs + o - 1) \div bcs = q
         /\ (q * bcs + o) % SS = o % SS
         /\ o % SS # 0 => /\ o \div SS \in 0 .. CSize - 1
                          /\ ((q * bcs + o) % bcs) \div SS = o \div SS
<1>1. bcs \in Nat /\ q * bcs \in Nat /\ SS \in Nat \ {0} /\ CSize \in Nat \ {0}
  BY SizesPositive
<1> DEFINE p == q * bcs + o
<1>2. p \in Nat /\ p - 1 \in Nat /\ o - 1 \in Nat /\ o - 1 < bcs /\ p - 1 = q * bcs + (o - 1)
  BY <1>1
<1>3. p = q * bcs + o
  OBVIOUS
<1> HIDE DEF p
<1>4. (p - 1) \div bcs = q
  BY <1>2, InCluster
<1> DEFINE d == o \div SS
           m == o % SS
<1>a. d \in Nat /\ m \in 0 .. SS - 1 /\ o = d * SS + m
  BY Zenon, <1>1, DivMod
<1> HIDE DEF d, m
<1>5. d \in Nat /\ m \in 0 .. SS - 1 /\ o = d * SS + m /\ d * SS \in Nat
  BY <1>1, <1>a
<1>6. p % SS = m
  <2>1. q * bcs = (q * CSize) * SS /\ q * CSize \in Nat
    BY <1>1 DEF bcs
  <2> DEFINE k == q * CSize
  <2>2. p = k * SS + (d * SS + m) /\ k \in Nat
    BY <1>3, <1>5, <2>1
  <2> HIDE DEF k
  <2>3. p = (k + d) * SS + m
    BY <1>1, <1>5, <2>2
  <2> DEFINE j == k + d
  <2>4. j \in Nat /\ p = j * SS + m
    BY <1>5, <2>2, <2>3
  <2> HIDE DEF j
  <2> QED
    BY <1>1, <1>2, <1>5, <2>4, DivModUnique
<1>7. ASSUME m # 0 PROVE d \in 0 .. CSize - 1 /\ (p % bcs) \div SS = d
  <2>1. o # bcs
    <3>1. SUFFICES ASSUME o = CSize * SS PROVE FALSE
      BY SizesPositive
    <3>2. o = CSize * SS + 0
      BY <1>1, <3>1
    <3>3. o % SS = 0
      BY <1>1, <3>2, DivModUnique
    <3> QED
      BY <1>7, <3>3 DEF m
  <2>2. o < bcs
    BY <1>1, <2>1
  <2>3. p % bcs = o
    BY <1>2, <1>3, <2>2, InCluster
  <2>4. o = 0 * bcs + o
    BY Zeros
  <2>5. o % bcs = o
    BY <2>2, <2>4, InCluster
  <2>6. (o % bcs) \div SS \in 0 .. CSize - 1
    BY Place
  <2> QED
    BY <2>3, <2>5, <2>6 DEF d
<1> QED
  BY <1>2, <1>4, <1>6, <1>7 DEF p, d, m

(* A reader whose target is not in the q-th cluster after the first has a     *)
(* cluster behind that one.                                                   *)
LEMMA ReaderNext ==
  ASSUME Inv, mode # "closed", NEW q \in Nat, q < Len(chain), NEW o \in Nat, o > bcs,
         q * bcs + o <= objsize
  PROVE  /\ q + 2 \in 1 .. Len(chain) /\ chain[q + 2] \in Cluster
         /\ get_fat(chain[q + 1]) = chain[q + 2]
<1>1. Types /\ ChainOK /\ chain \in Seq(Cluster)
  BY Zenon DEF Inv, Types
<1>2. Len(chain) \in Nat /\ bcs \in Nat /\ q * bcs \in Nat
  BY <1>1, SizesPositive
<1>3. objsize \in Nat /\ Len(chain) * bcs \in Nat /\ objsize <= Len(chain) * bcs
  BY Zenon, Numbers
<1>4. q + 1 < Len(chain)
  <2>1. ASSUME Len(chain) = q + 1 PROVE FALSE
    <3>1. Len(chain) * bcs = q * bcs + bcs
      BY <1>2, <2>1
    <3> QED
      BY <1>2, <1>3, <3>1
  <2> QED
    BY <1>2, <2>1
<1>5. q + 1 \in 1 .. Len(chain) /\ q + 2 \in 1 .. Len(chain) /\ (q + 1) + 1 = q + 2
  BY <1>2, <1>4
<1>6. chain[q + 2] \in Cluster
  BY <1>1, <1>5
<1>7. get_fat(chain[q + 1]) = chain[(q + 1) + 1]
  BY Zenon, <1>1, <1>4, <1>5, NextInChain
<1> QED
  BY Zenon, <1>5, <1>6, <1>7

LEMMA SeekTurnInv == ASSUME Inv, SeekTurn PROVE Inv'
<1>0. pc = "seek"
  BY DEF SeekTurn
<1>1. /\ mode # "closed" /\ err = "FR_OK" /\ ofs \in Nat /\ ofs > 0
      /\ fptr \in Nat /\ fptr + ofs <= MaxDword /\ MaxDword \in Nat
      /\ bcs \in Nat /\ bcs > 0 /\ objsize \in Nat
  <2>1. bcs \in Nat /\ bcs > 0 /\ MaxDword \in Nat
    BY SizesPositive
  <2>2. objsize \in Nat
    BY Numbers
  <2> QED
    BY <1>0, <2>1, <2>2, SeekPlace
<1>2. PICK q \in Nat : /\ q < Len(chain) /\ fptr = q * bcs
                       /\ clust = chain[q + 1] /\ clust \in Cluster
  BY <1>0, SeekPlace
<1>3. /\ Len(chain) \in Nat /\ q + 1 \in 1 .. Len(chain)
      /\ fptr + bcs <= Len(chain) * bcs /\ Len(chain) * bcs \in Nat
  BY <1>2, Numbers, ClusterTop
<1>4. /\ Types /\ sect \in (Cluster \cup {None}) \X (0 .. CSize - 1)
      /\ ifptr \in 0 .. MaxDword /\ ifptr <= objsize
      /\ mode \in {"r", "rw"} /\ (mode = "r" => fptr + ofs <= objsize)
      /\ objsize <= Len(chain) * bcs
  BY Zenon, <1>0, <1>1, Numbers DEF Inv, Types, Running
<1>5. CASE /\ ofs <= bcs
           /\ sect' = IF ofs % SS # 0 THEN <<clust, ofs \div SS>> ELSE sect
           /\ UNCHANGED <<chain, free, clust>>
           /\ SeekDone(fptr + ofs)
  <2> DEFINE p == fptr + ofs
  <2>1. /\ p \in Nat /\ (p - 1) \div bcs = q /\ p % SS = ofs % SS
        /\ ofs % SS # 0 => /\ ofs \div SS \in 0 .. CSize - 1
                           /\ (p % bcs) \div SS = ofs \div SS
    BY <1>1, <1>2, <1>5, SeekEnd
  <2>2. p \in 0 .. MaxDword /\ p > 0 /\ p <= Len(chain) * bcs
    BY <1>1, <1>3, <1>5
  <2>3. SeekDone(p)
    BY <1>5
  <2> HIDE DEF p
  <2>4. ChainGrows /\ sclust' = sclust
    BY <1>5, ChainStays DEF sclust
  <2>5. sect' \in (Cluster \cup {None}) \X (0 .. CSize - 1)
    BY <1>2, <1>4, <1>5, <2>1
  <2>6. clust' = At(chain', p - 1) /\ (p % SS # 0 => sect' = <<clust', (p % bcs) \div SS>>)
    BY <1>2, <1>5, <2>1 DEF At
  <2>7. p <= objsize => objsize > 0
    BY <1>1, <2>1, <2>2
  <2> QED
    BY Zenon, <1>0, <1>1, <1>2, <1>5, <2>2, <2>3, <2>4, <2>5, <2>6, <2>7, SeekDoneInv
<1>6. CASE /\ ofs > bcs /\ AbortDisk(fptr + bcs, clust, sect)
           /\ IF mode = "rw" THEN ChainError ELSE UNCHANGED <<chain, free, data>>
  <2>1. ChainGrows /\ UNCHANGED data
    BY <1>6, ChainStays DEF ChainError
  <2>2. Abort("FR_DISK_ERR") /\ UNCHANGED <<objsize, clust, sect>> /\ fptr' = fptr + bcs
    BY <1>6 DEF AbortDisk
  <2>3. fptr' \in 0 .. MaxDword
    BY <1>1, <1>6, <2>2
  <2> QED
    BY <1>1, <1>2, <1>4, <2>1, <2>2, <2>3, AbortInv DEF Types
<1>7. ASSUME ofs > bcs, NEW c \in Results \cup {EOC},
             IF mode = "rw" THEN create_chain(clust, c, chain', free')
                            ELSE c = get_fat(clust) /\ UNCHANGED <<chain, free>>,
             IF c = None THEN UNCHANGED <<clust, sect>> /\ SeekDone(fptr + bcs)
             ELSE IF c = EOC THEN /\ Abort("FR_INT_ERR") /\ fptr' = fptr + bcs
                                  /\ UNCHANGED <<data, objsize, clust, sect>>
             ELSE Walk(c, fptr + bcs, ofs - bcs, ifptr)
      PROVE  Inv'
  <2>1. /\ ChainGrows
        /\ \/ c = None /\ chain' = chain
           \/ /\ c \in Cluster /\ Len(chain') \in Nat
              /\ q + 2 \in 1 .. Len(chain') /\ c = chain'[q + 2]
    <3>1. CASE mode = "rw"
      <4>1. create_chain(chain[q + 1], c, chain', free')
        BY <1>2, <1>7, <3>1
      <4>2. q + 1 + 1 = q + 2
        OBVIOUS
      <4> QED
        BY <1>3, <4>1, <4>2, CreateNext
    <3>2. CASE mode # "rw"
      <4>1. c = get_fat(clust) /\ UNCHANGED <<chain, free>> /\ mode = "r"
        BY Zenon, <1>4, <1>7, <3>2
      <4>2. q * bcs + ofs <= objsize
        BY Zenon, <1>2, <1>4, <4>1
      <4>3. q + 2 \in 1 .. Len(chain) /\ c = chain[q + 2] /\ c \in Cluster
        BY Zenon, <1>1, <1>2, <1>7, <4>1, <4>2, ReaderNext
      <4>4. ChainGrows /\ chain' = chain
        BY <4>1, ChainStays
      <4> QED
        BY Zenon, <1>3, <4>3, <4>4
    <3> QED
      BY <3>1, <3>2
  <2> DEFINE p == fptr + bcs
  <2>2. /\ p \in Nat /\ (p - 1) \div bcs = q /\ p % SS = 0
    <3>1. bcs <= bcs /\ bcs % SS = 0
      <4>1. bcs = CSize * SS + 0 /\ SS \in Nat \ {0} /\ CSize \in Nat /\ 0 < SS
        BY SizesPositive
      <4> QED
        BY <1>1, <4>1, DivModUnique, Zeros
    <3> QED
      BY <1>1, <1>2, <3>1, SeekEnd
  <2>3. p \in 0 .. MaxDword /\ p > 0 /\ p <= Len(chain) * bcs
    BY <1>1, <1>3, <1>7
  <2>4. CASE c = None
    <3>1. SeekDone(p) /\ UNCHANGED <<clust, sect>>
      BY <1>7, <2>4
    <3>2. chain' = chain /\ sclust' = sclust
      BY <2>1, <2>4, Sizes DEF sclust
    <3> HIDE DEF p
    <3>3. clust' = At(chain', p - 1)
      BY <1>2, <2>2, <3>1, <3>2 DEF At
    <3>4. p <= objsize => objsize > 0
      BY <1>1, <2>2, <2>3
    <3> QED
      BY <1>0, <1>1, <1>2, <1>4, <2>1, <2>2, <2>3, <3>1, <3>2, <3>3, <3>4, SeekDoneInv
  <2>5. CASE c # None
    <3>1. /\ c \in Cluster /\ Len(chain') \in Nat
          /\ q + 2 \in 1 .. Len(chain') /\ c = chain'[q + 2]
      BY <2>1, <2>5
    <3>2. Walk(c, p, ofs - bcs, ifptr)
      BY <1>7, <2>5, <3>1, Sizes
    <3>3. p = (q + 1) * bcs
      BY <1>1, <1>2
    <3>4. q + 1 \in Nat /\ q + 1 < Len(chain')
      BY <3>1
    <3>5. p % bcs = 0 /\ p \div bcs = q + 1 /\ p < Len(chain') * bcs
      <4>1. ((q + 1) * bcs) % bcs = 0 /\ ((q + 1) * bcs) \div bcs = q + 1
            /\ (q + 1) * bcs < Len(chain') * bcs
        BY <3>1, <3>4, ClusterTop
      <4> QED
        BY <3>3, <4>1
    <3>6. c = At(chain', p)
      BY <3>1, <3>4, <3>5, q + 1 + 1 = q + 2 DEF At
    <3>7. ofs - bcs \in Nat /\ ofs - bcs > 0 /\ p + (ofs - bcs) = fptr + ofs
      BY <1>1, <1>7
    <3> HIDE DEF p
    <3> QED
      BY <1>0, <1>1, <1>4, <2>1, <2>2, <3>1, <3>2, <3>5, <3>6, <3>7, WalkInv
  <2> QED
    BY <2>4, <2>5
<1> QED
  BY ZenonT(30), <1>5, <1>6, <1>7 DEF SeekTurn

-----------------------------------------------------------------------------
(* f_truncate                                                              *)

(* A chain cut after its first k clusters. *)
LEMMA CutEffect ==
  ASSUME Inv, NEW k \in 0 .. Len(chain), NEW n \in 0 .. Len(chain) - k, Cut(k, n)
  PROVE  /\ chain' \in Seq(Cluster) /\ free' \subseteq Cluster /\ ChainOK'
         /\ Len(chain') = k /\ \A i \in 1 .. k : chain'[i] = chain[i]
         /\ data' \in [Cluster -> [0 .. bcs - 1 -> Byte]]
<1>1. Len(chain) \in Nat /\ \A i \in 1 .. Len(chain) : chain[i] \in Cluster
  BY Numbers DEF Inv, Types
<1>2. chain' \in Seq(Cluster) /\ Len(chain') = k /\ \A i \in 1 .. k : chain'[i] = chain[i]
  <2>1. /\ SubSeq(chain, 1, k) \in Seq(Cluster)
        /\ Len(SubSeq(chain, 1, k)) = IF 1 <= k THEN k - 1 + 1 ELSE 0
        /\ \A i \in 1 .. k - 1 + 1 : SubSeq(chain, 1, k)[i] = chain[1 + i - 1]
    BY <1>1, \A i \in 1 .. k : i \in 1 .. Len(chain)
  <2>2. chain' = SubSeq(chain, 1, k)
    BY DEF Cut
  <2>3. Len(chain') = k
    BY <1>1, <2>1, <2>2
  <2>4. ASSUME NEW i \in 1 .. k PROVE chain'[i] = chain[i]
    <3>1. i \in 1 .. k - 1 + 1 /\ 1 + i - 1 = i
      BY <1>1
    <3> QED
      BY <2>1, <2>2, <3>1
  <2> QED
    BY <2>1, <2>2, <2>3, <2>4
<1> DEFINE t == SubSeq(chain, k + 1, k + n)
<1>3. \A x \in Elems(t) : x \in Cluster /\ \E j \in 1 .. Len(chain) : j > k /\ x = chain[j]
  <2>1. /\ t \in Seq(Cluster)
        /\ Len(t) = (IF k + 1 <= k + n THEN (k + n) - (k + 1) + 1 ELSE 0)
        /\ \A i \in 1 .. (k + n) - (k + 1) + 1 : t[i] = chain[(k + 1) + i - 1]
    BY <1>1, \A i \in k + 1 .. k + n : i \in 1 .. Len(chain)
  <2>2. DOMAIN t = 1 .. n
    <3>1. DOMAIN t = 1 .. Len(t)
      BY <2>1
    <3>2. Len(t) = n
      BY <1>1, <2>1
    <3> QED
      BY <3>1, <3>2
  <2> SUFFICES ASSUME NEW i \in 1 .. n
               PROVE  t[i] \in Cluster /\ \E j \in 1 .. Len(chain) : j > k /\ t[i] = chain[j]
    BY Zenon, <2>2 DEF Elems
  <2>3. t[i] = chain[k + i] /\ k + i \in 1 .. Len(chain) /\ k + i > k
    <3>1. i \in 1 .. (k + n) - (k + 1) + 1 /\ (k + 1) + i - 1 = k + i
      BY <1>1
    <3> HIDE DEF t
    <3> QED
      BY <1>1, <2>1, <3>1
  <2> HIDE DEF t
  <2> QED
    BY <1>1, <2>3
<1>4. free' = free \cup Elems(t)
  BY DEF Cut
<1> HIDE DEF t
<1>5. free' \subseteq Cluster
  BY <1>3, <1>4 DEF Inv, Types
<1>6. ChainOK'
  BY <1>1, <1>2, <1>3, <1>4 DEF Inv, ChainOK
<1>7. data' \in [Cluster -> [0 .. bcs - 1 -> Byte]]
  BY DEF Cut, Wild, Byte, Inv, Types
<1> QED
  BY <1>2, <1>5, <1>6, <1>7

(* The cluster f_truncate cuts after is the one of the last byte that stays. *)
TruncEnd == IF fptr = 0 THEN 0 ELSE CHOOSE i \in DOMAIN chain : chain[i] = clust

LEMMA TruncPlace ==
  ASSUME Inv, Ready
  PROVE  /\ TruncEnd \in 0 .. Len(chain) /\ fptr <= TruncEnd * bcs
         /\ TruncEnd * bcs \in Nat
         /\ fptr > 0 => /\ (fptr - 1) \div bcs \in Nat /\ TruncEnd = (fptr - 1) \div bcs + 1
                        /\ clust = chain[TruncEnd]
<1>1. CASE fptr = 0
  BY <1>1, Numbers, Zeros DEF TruncEnd
<1>2. CASE fptr > 0
  <2> DEFINE q == (fptr - 1) \div bcs
  <2>1. fptr \in Nat /\ fptr <= Len(chain) * bcs /\ Len(chain) * bcs \in Nat
        /\ Len(chain) \in Nat /\ fptr - 1 \in Nat /\ fptr - 1 < Len(chain) * bcs
    BY <1>2, Numbers DEF Ready
  <2>2. q \in Nat /\ q < Len(chain)
    BY <2>1, BelowEnd
  <2>3. clust = chain[q + 1]
    BY <1>2, <2>2 DEF Inv, Position, ClusterOf, Ready
  <2>4. fptr - 1 = q * bcs + ((fptr - 1) % bcs) /\ (fptr - 1) % bcs \in 0 .. bcs - 1
        /\ q * bcs \in Nat /\ bcs \in Nat
    BY <2>1, Place, SizesPositive
  <2> HIDE DEF q
  <2>5. TruncEnd = q + 1
    <3>1. q + 1 \in DOMAIN chain /\ DOMAIN chain = 1 .. Len(chain)
      BY <2>1, <2>2, Numbers
    <3> QED
      BY <1>2, <2>3, <3>1 DEF TruncEnd, Inv, ChainOK
  <2>6. (q + 1) * bcs = q * bcs + bcs
    BY <2>2, <2>4
  <2>7. fptr <= (q + 1) * bcs
    BY <2>1, <2>4, <2>6
  <2> QED
    BY <1>2, <2>1, <2>2, <2>3, <2>4, <2>5, <2>6, <2>7 DEF q
<1> QED
  BY <1>1, <1>2, Numbers

LEMMA TruncateInv == ASSUME Inv, Truncate PROVE Inv'
<1> USE DEF Truncate, Shrink, locals
<1> DEFINE k == TruncEnd
<1>1. /\ Ready /\ mode = "rw" /\ fptr < objsize /\ pc = "idle" /\ err = "FR_OK"
      /\ UNCHANGED <<entry, mode, fptr, clust, sect, pc, left, ofs, ifptr>>
      /\ objsize' = fptr /\ modified' = TRUE /\ synced' = FALSE /\ out' = << >>
  BY DEF Ready
<1>2. \/ Cut(k, Len(chain) - k) /\ err' = err
      \/ err' = "FR_DISK_ERR" /\ \E n \in 0 .. Len(chain) - k - 1 : Cut(k, n)
      \/ err' = "FR_DISK_ERR" /\ UNCHANGED <<chain, free, data>>
  BY DEF TruncEnd
<1>3. /\ k \in 0 .. Len(chain) /\ fptr <= k * bcs /\ k * bcs \in Nat
      /\ fptr > 0 => /\ (fptr - 1) \div bcs \in Nat /\ k = (fptr - 1) \div bcs + 1
                     /\ clust = chain[k]
      /\ Len(chain) \in Nat
  BY <1>1, TruncPlace, Numbers
<1> HIDE DEF k, Truncate
<1>4. EntryOK'
  BY <1>1 DEF EntryOK
<1>5. ASSUME chain' \in Seq(Cluster), free' \subseteq Cluster,
             data' \in [Cluster -> [0 .. bcs - 1 -> Byte]]
      PROVE  Types'
  BY ZenonT(30), <1>1, <1>2, <1>5 DEF Inv, Types
<1>6. Running'
  <2>1. fptr' \in Nat /\ fptr' <= objsize'
    BY <1>1, Numbers
  <2> QED
    BY <1>1, <2>1 DEF Running
<1>7. ASSUME NEW n \in 0 .. Len(chain) - k, Cut(k, n) PROVE Inv'
  <2>1. /\ chain' \in Seq(Cluster) /\ free' \subseteq Cluster /\ ChainOK'
        /\ Len(chain') = k /\ \A i \in 1 .. k : chain'[i] = chain[i]
        /\ data' \in [Cluster -> [0 .. bcs - 1 -> Byte]]
    BY ZenonT(30), <1>3, <1>7, CutEffect
  <2>2. Fits'
    BY Zenon, <1>1, <1>3, <2>1 DEF Fits
  <2>3. Position'
    <3>1. ASSUME fptr > 0 PROVE clust = ClusterOf(fptr - 1)'
      BY <1>1, <1>3, <2>1, <3>1 DEF ClusterOf
    <3>2. fptr % SS # 0 => sect = <<clust, (fptr % bcs) \div SS>>
      BY <1>1 DEF Inv, Position
    <3> QED
      BY <1>1, <3>1, <3>2 DEF Position
  <2> QED
    BY ZenonT(30), <1>4, <1>5, <1>6, <2>1, <2>2, <2>3 DEF Inv
<1>8. CASE err' = "FR_DISK_ERR" /\ UNCHANGED <<chain, free, data>>
  <2>1. Types' /\ ChainOK'
    BY ZenonT(30), <1>5, <1>8 DEF Inv, Types, ChainOK
  <2>2. Fits'
    BY <1>1, <1>8, Numbers DEF Fits
  <2>3. Position'
    BY <1>8 DEF Position
  <2> QED
    BY <1>4, <1>6, <2>1, <2>2, <2>3 DEF Inv
<1>9. /\ Len(chain) - k \in 0 .. Len(chain) - k
      /\ \A n \in 0 .. Len(chain) - k - 1 : n \in 0 .. Len(chain) - k
  BY <1>3
<1> QED
  BY <1>2, <1>7, <1>8, <1>9

-----------------------------------------------------------------------------
(* The invariant                                                           *)

LEMMA InitInv == Init => Inv
<1> SUFFICES ASSUME Init PROVE Inv
  OBVIOUS
<1> USE DEF Init
<1>1. Types
  BY ZenonT(30), Zeros DEF Types, Wild, Byte
<1>2. Len(chain) = 0 /\ Len(chain) * bcs = 0
  BY Zeros
<1>3. ChainOK
  BY <1>2 DEF ChainOK
<1>4. Fits /\ Running /\ Position
  BY DEF Fits, Running, Position
<1>5. EntryOK
  BY <1>2 DEF EntryOK
<1> QED
  BY <1>1, <1>3, <1>4, <1>5 DEF Inv

LEMMA NextInv == ASSUME Inv, [Next]_vars PROVE Inv'
<1>1. ASSUME Next PROVE Inv'
  <2>1. CASE Others
    BY <2>1, OthersInv
  <2>2. CASE OpenAppend \/ OpenNew \/ (\E m \in {"r", "rw"} : Open(m))
    BY <2>2, OpenAppendInv, OpenNewInv, OpenInv
  <2>3. CASE OpenFails \/ Refuse
    <3>1. UNCHANGED <<chain, free, data, entry, synced, fil, locals>> /\ (out' = out \/ out' = << >>)
      BY <2>3 DEF OpenFails, Refuse, vars
    <3> QED
      BY <3>1, QuietInv
  <2>4. CASE Truncate \/ Sync \/ Close
    BY <2>4, TruncateInv, SyncInv, CloseInv
  <2>5. CASE \E n \in 1 .. MaxXfer : ReadStart(n) \/ WriteStart(n)
    BY <2>5, ReadStartInv, WriteStartInv
  <2>6. CASE \E o \in 0 .. MaxDword : SeekStart(o)
    BY <2>6, SeekStartInv
  <2>7. CASE ReadTurn \/ WriteTurn \/ SeekTurn
    BY <2>7, ReadTurnInv, WriteTurnInv, SeekTurnInv
  <2> QED
    BY <1>1, <2>1, <2>2, <2>3, <2>4, <2>5, <2>6, <2>7 DEF Next
<1>2. CASE UNCHANGED vars
  <2>1. UNCHANGED <<chain, free, data, entry, synced, fil, locals>> /\ out' = out
    BY <1>2 DEF vars
  <2> QED
    BY <2>1, QuietInv
<1> QED
  BY <1>1, <1>2

(* The inductive invariant of an open file. *)
THEOREM FileInvariant == Spec => []Inv
<1> QED
  BY InitInv, NextInv, PTL DEF Spec

(* The current cluster and sector of the file object are those of its        *)
(* pointer, whatever f_read, f_write, f_lseek and f_truncate did before.     *)
THEOREM FilePosition == Spec => []Position
<1>1. Inv => Position
  BY DEF Inv
<1> QED
  BY <1>1, FileInvariant, PTL

(* The insanity tests of f_read and f_lseek never fire. *)
THEOREM FileNoInternalError == Spec => []NoInternalError
<1>1. Inv => NoInternalError
  BY DEF Inv, Types, NoInternalError
<1> QED
  BY <1>1, FileInvariant, PTL

(* Between calls the entry differs from the file object only when FA_MODIFIED *)
(* is set.                                                                    *)
THEOREM FileEntryFollows == Spec => []EntryFollows
<1>1. Inv => EntryFollows
  BY DEF Inv, Types, EntryOK, EntryFollows
<1> QED
  BY <1>1, FileInvariant, PTL

(* The entry of a closed file names a chain long enough for its size. *)
THEOREM FileEntryBacked == Spec => []EntryBacked
<1>1. Inv => EntryBacked
  BY DEF Inv, Running, EntryOK, EntryBacked
<1> QED
  BY <1>1, FileInvariant, PTL

===============================================================================
