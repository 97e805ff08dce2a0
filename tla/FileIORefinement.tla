--------------------------- MODULE FileIORefinement ---------------------------
(***************************************************************************)
(* FileIO implements ByteFile: whatever the sector and cluster sizes and   *)
(* whichever disk calls fail, each turn of f_read, f_write, f_lseek and    *)
(* f_truncate does to the file what ByteFile allows, or does nothing.      *)
(***************************************************************************)
EXTENDS FileIOProofs

(* A leaf is tried with the SMT solver, then with Zenon, then with the SMT    *)
(* solver and more time, unless it names its prover.                          *)
USE SMTT(10), Zenon, SMTT(60)

(* The refinement mapping of BF. *)
Size == IF mode = "closed" THEN entry.size ELSE objsize
Contents == Bytes(Size)
Pos == IF pc = "seek" THEN ifptr ELSE fptr
Failed == err # "FR_OK"

(* The first n bytes of a file with chain ch when the clusters hold d. *)
Content(ch, d, n) ==
  [i \in 1 .. n |-> LET c == At(ch, i - 1) IN IF c = None THEN Junk ELSE d[c][(i - 1) % bcs]]

LEMMA ContentsAre ==
  /\ Contents = Content(chain, data, Size)
  /\ Contents' = Content(chain', data', Size')
BY DEF Contents, Content, Bytes, ClusterOf, At

ClusterData == [Cluster -> [0 .. bcs - 1 -> Byte]]

(* The bytes of a file that is not longer than its chain. *)
LEMMA ContentBytes ==
  ASSUME NEW ch \in Seq(Cluster), NEW d \in ClusterData, NEW n \in Nat, n <= Len(ch) * bcs
  PROVE  /\ Content(ch, d, n) \in Seq(Byte) /\ Len(Content(ch, d, n)) = n
         /\ DOMAIN Content(ch, d, n) = 1 .. n
         /\ \A i \in 1 .. n :
              /\ i - 1 \in Nat
              /\ (i - 1) \div bcs \in Nat /\ (i - 1) \div bcs < Len(ch)
              /\ (i - 1) % bcs \in 0 .. bcs - 1
              /\ ch[((i - 1) \div bcs) + 1] \in Cluster
              /\ Content(ch, d, n)[i] = d[ch[((i - 1) \div bcs) + 1]][(i - 1) % bcs]
<1>0. Len(ch) \in Nat /\ Len(ch) * bcs \in Nat /\ None \notin Cluster
  <2>1. Len(ch) \in Nat
    OBVIOUS
  <2> QED
    BY <2>1, SizesPositive
<1>1. ASSUME NEW i \in 1 .. n
      PROVE  /\ i - 1 \in Nat
             /\ (i - 1) \div bcs \in Nat /\ (i - 1) \div bcs < Len(ch)
             /\ (i - 1) % bcs \in 0 .. bcs - 1
             /\ ch[((i - 1) \div bcs) + 1] \in Cluster
             /\ Content(ch, d, n)[i] = d[ch[((i - 1) \div bcs) + 1]][(i - 1) % bcs]
             /\ Content(ch, d, n)[i] \in Byte
  <2>1. i - 1 \in Nat /\ i - 1 < Len(ch) * bcs
    BY <1>0
  <2> DEFINE q == (i - 1) \div bcs
             r == (i - 1) % bcs
  <2>2. q \in Nat /\ q < Len(ch)
    BY <1>0, <2>1, BelowEnd
  <2>3. r \in 0 .. bcs - 1
    BY <2>1, Place
  <2>4. Content(ch, d, n)[i] = IF At(ch, i - 1) = None THEN Junk ELSE d[At(ch, i - 1)][r]
    BY DEF Content
  <2>5. At(ch, i - 1) = ch[q + 1]
    BY <2>2 DEF At
  <2> HIDE DEF q, r
  <2>6. ch[q + 1] \in Cluster
    BY <1>0, <2>2, q + 1 \in 1 .. Len(ch)
  <2>7. d[ch[q + 1]][r] \in Byte
    BY Zenon, <2>3, <2>6 DEF ClusterData
  <2> QED
    BY <1>0, <2>1, <2>2, <2>3, <2>4, <2>5, <2>6, <2>7 DEF q, r
<1>2. /\ DOMAIN Content(ch, d, n) = 1 .. n
      /\ Content(ch, d, n) = [i \in 1 .. n |-> Content(ch, d, n)[i]]
  BY DEF Content
<1> DEFINE t == Content(ch, d, n)
<1> HIDE DEF t
<1>3. t \in Seq(Byte) /\ Len(t) = n
  <2>1. \A i \in 1 .. n : t[i] \in Byte
    BY <1>1 DEF t
  <2>2. t = [i \in 1 .. n |-> t[i]]
    BY <1>2 DEF t
  <2>3. [i \in 1 .. n |-> t[i]] \in Seq(Byte)
    BY <2>1, n \in Nat
  <2>4. t \in Seq(Byte) /\ DOMAIN t = 1 .. n
    BY <1>2, <2>2, <2>3 DEF t
  <2>5. Len(t) \in Nat /\ DOMAIN t = 1 .. Len(t)
    BY <2>4
  <2> QED
    BY <2>4, <2>5
<1> QED
  BY <1>1, <1>2, <1>3 DEF t

(* The file is never longer than its chain, open or closed. *)
SizeOK ==
  /\ Size \in Nat /\ Size <= MaxDword /\ Size <= Len(chain) * bcs
  /\ Pos \in 0 .. MaxDword /\ MaxDword \in Nat
  /\ chain \in Seq(Cluster) /\ data \in ClusterData /\ Len(chain) \in Nat
  /\ ~Failed => Pos <= Size \/ pc = "seek"
  /\ mode = "closed" => ~Failed /\ Pos = 0

LEMMA SizeFits == Inv => SizeOK
<1> SUFFICES ASSUME Inv PROVE SizeOK
  OBVIOUS
<1>1. Size \in Nat /\ Size <= MaxDword /\ Pos \in 0 .. MaxDword /\ MaxDword \in Nat
  BY Sizes DEF Inv, Types, Size, Pos
<1>2. Size <= Len(chain) * bcs
  <2>1. CASE mode = "closed"
    <3>1. entry.size <= (IF entry.sclust = None THEN 0 ELSE Len(chain) * bcs)
      BY <2>1 DEF Inv, Running, EntryOK
    <3> QED
      BY <1>1, <2>1, <3>1, Numbers DEF Size
  <2>2. CASE mode # "closed"
    BY <2>2, Numbers DEF Size
  <2> QED
    BY <2>1, <2>2
<1>3. (~Failed => Pos <= Size \/ pc = "seek") /\ (mode = "closed" => ~Failed /\ Pos = 0)
  <2>1. mode # "closed" /\ err = "FR_OK" /\ pc # "seek" => fptr <= objsize
    BY DEF Inv, Running
  <2>2. mode = "closed" => pc = "idle" /\ err = "FR_OK" /\ fptr = 0
    BY DEF Inv, Running
  <2> QED
    BY <1>1, <2>1, <2>2 DEF Size, Pos, Failed
<1>4. chain \in Seq(Cluster) /\ data \in ClusterData
  BY DEF Inv, Types, ClusterData
<1> QED
  BY <1>1, <1>2, <1>3, <1>4, Numbers DEF SizeOK

LEMMA SizeFitsNext == Inv' => SizeOK'
BY SizeFits, PTL

-----------------------------------------------------------------------------
(* The steps of ByteFile that the steps of FileIO map to                   *)

(* The bytes of the file as ByteFile sees them, before and after a step. *)
LEMMA ContentsBytes ==
  ASSUME SizeOK, SizeOK'
  PROVE  /\ Contents \in Seq(Byte) /\ Len(Contents) = Size /\ DOMAIN Contents = 1 .. Size
         /\ Contents' \in Seq(Byte) /\ Len(Contents') = Size' /\ DOMAIN Contents' = 1 .. Size'
         /\ \A i \in 1 .. Size :
              /\ i - 1 \in Nat
              /\ (i - 1) \div bcs \in Nat /\ (i - 1) \div bcs < Len(chain)
              /\ (i - 1) % bcs \in 0 .. bcs - 1
              /\ chain[((i - 1) \div bcs) + 1] \in Cluster
              /\ Contents[i] = data[chain[((i - 1) \div bcs) + 1]][(i - 1) % bcs]
         /\ \A i \in 1 .. Size' :
              /\ i - 1 \in Nat
              /\ (i - 1) \div bcs \in Nat /\ (i - 1) \div bcs < Len(chain')
              /\ (i - 1) % bcs \in 0 .. bcs - 1
              /\ chain'[((i - 1) \div bcs) + 1] \in Cluster
              /\ Contents'[i] = data'[chain'[((i - 1) \div bcs) + 1]][(i - 1) % bcs]
<1>1. /\ chain \in Seq(Cluster) /\ data \in ClusterData /\ Size \in Nat /\ Size <= Len(chain) * bcs
      /\ chain' \in Seq(Cluster) /\ data' \in ClusterData /\ Size' \in Nat /\ Size' <= Len(chain') * bcs
  BY DEF SizeOK, ClusterData
<1>2. /\ Content(chain, data, Size) \in Seq(Byte) /\ Len(Content(chain, data, Size)) = Size
      /\ DOMAIN Content(chain, data, Size) = 1 .. Size
      /\ \A i \in 1 .. Size :
           /\ i - 1 \in Nat
           /\ (i - 1) \div bcs \in Nat /\ (i - 1) \div bcs < Len(chain)
           /\ (i - 1) % bcs \in 0 .. bcs - 1
           /\ chain[((i - 1) \div bcs) + 1] \in Cluster
           /\ Content(chain, data, Size)[i] = data[chain[((i - 1) \div bcs) + 1]][(i - 1) % bcs]
  BY <1>1, ContentBytes
<1>3. /\ Content(chain', data', Size') \in Seq(Byte) /\ Len(Content(chain', data', Size')) = Size'
      /\ DOMAIN Content(chain', data', Size') = 1 .. Size'
      /\ \A i \in 1 .. Size' :
           /\ i - 1 \in Nat
           /\ (i - 1) \div bcs \in Nat /\ (i - 1) \div bcs < Len(chain')
           /\ (i - 1) % bcs \in 0 .. bcs - 1
           /\ chain'[((i - 1) \div bcs) + 1] \in Cluster
           /\ Content(chain', data', Size')[i] = data'[chain'[((i - 1) \div bcs) + 1]][(i - 1) % bcs]
  BY <1>1, ContentBytes
<1> QED
  BY Zenon, <1>2, <1>3, ContentsAre

(* The old chain is the front of the new one and the bytes are kept. *)
FrontKept == /\ data' = data /\ Len(chain) <= Len(chain')
             /\ \A i \in 1 .. Len(chain) : chain'[i] = chain[i]

LEMMA FrontBytes ==
  ASSUME SizeOK, SizeOK', FrontKept, Size <= Size'
  PROVE  \A i \in 1 .. Size : Contents'[i] = Contents[i]
<1> SUFFICES ASSUME NEW i \in 1 .. Size PROVE Contents'[i] = Contents[i]
  OBVIOUS
<1>0. Size \in Nat /\ Size' \in Nat
  BY DEF SizeOK
<1>1. i \in 1 .. Size'
  BY <1>0
<1> DEFINE q == (i - 1) \div bcs
           r == (i - 1) % bcs
<1>2. /\ q \in Nat /\ q < Len(chain)
      /\ Contents[i] = data[chain[q + 1]][r] /\ Contents'[i] = data'[chain'[q + 1]][r]
  BY <1>1, ContentsBytes
<1> HIDE DEF q, r
<1>3. q + 1 \in 1 .. Len(chain)
  BY <1>2 DEF SizeOK
<1> QED
  BY <1>2, <1>3 DEF FrontKept

LEMMA SameBytes ==
  ASSUME SizeOK, SizeOK', FrontKept, Size' = Size
  PROVE  Contents' = Contents
<1>1. \A i \in 1 .. Size : Contents'[i] = Contents[i]
  BY FrontBytes DEF SizeOK
<1>2. /\ Contents \in Seq(Byte) /\ Len(Contents) = Size
      /\ Contents' \in Seq(Byte) /\ Len(Contents') = Size
  BY Zenon, ContentsBytes
<1> QED
  BY <1>1, <1>2

LEMMA Stays ==
  ASSUME SizeOK, UNCHANGED <<chain, data>>
  PROVE  FrontKept
BY DEF FrontKept, SizeOK

LEMMA MapsSeek ==
  ASSUME SizeOK, SizeOK', ~Failed, ~Failed', FrontKept, out' = << >>,
         Size' = IF Pos' > Size THEN Pos' ELSE Size
  PROVE  BF!Next
<1>1. Pos' \in 0 .. MaxDword /\ Size <= Size'
  BY DEF SizeOK
<1>2. /\ Contents' \in Seq(Byte) /\ Len(Contents') = (IF Pos' > Len(Contents) THEN Pos' ELSE Len(Contents))
      /\ \A i \in 1 .. Len(Contents) : Contents'[i] = Contents[i]
  BY Zenon, <1>1, ContentsBytes, FrontBytes
<1>3. BF!Seek
  BY <1>1, <1>2 DEF BF!Seek, Contents, Size, Pos, Failed
<1> QED
  BY <1>3 DEF BF!Next, Failed

LEMMA MapsFail ==
  ASSUME SizeOK, SizeOK', ~Failed, Failed', out' = << >>
  PROVE  BF!Next
<1>1. Pos' \in 0 .. MaxDword /\ Contents' \in Seq(Byte)
  BY ContentsBytes DEF SizeOK
<1>2. BF!Fail
  BY <1>1 DEF BF!Fail, Contents, Size, Pos, Failed
<1> QED
  BY <1>2 DEF BF!Next, Failed

LEMMA MapsReopen ==
  ASSUME SizeOK, SizeOK', ~Failed, ~Failed', Size' = Size, Size = 0 \/ FrontKept,
         Pos' = 0, out' = << >>
  PROVE  BF!Next
<1>1. Contents' = Contents
  <2>1. CASE Size = 0
    BY <2>1, ContentsBytes
  <2> QED
    BY <2>1, SameBytes
<1>2. BF!Reopen
  BY <1>1 DEF BF!Reopen, Contents, Size, Pos, Failed
<1> QED
  BY <1>2 DEF BF!Next, Failed

LEMMA MapsOverwrite ==
  ASSUME SizeOK, SizeOK', ~Failed, ~Failed', Size' = 0, Pos' = 0, out' = << >>
  PROVE  BF!Next
<1>1. Contents' = << >>
  BY ContentsBytes
<1>2. BF!Overwrite
  BY <1>1 DEF BF!Overwrite, Contents, Size, Pos, Failed
<1> QED
  BY <1>2 DEF BF!Next, Failed

LEMMA MapsRecover ==
  ASSUME SizeOK, SizeOK', Failed, ~Failed', Pos' = 0, out' = << >>
  PROVE  BF!Next
<1>1. Contents' \in Seq(Byte)
  BY ContentsBytes
<1>2. BF!Recover
  BY <1>1 DEF BF!Recover, Contents, Size, Pos, Failed
<1> QED
  BY <1>2 DEF BF!Next

LEMMA MapsStutter ==
  ASSUME SizeOK, SizeOK', Size' = Size, FrontKept, Pos' = Pos, out' = out, Failed' = Failed
  PROVE  UNCHANGED BF!vars
<1>1. Contents' = Contents
  BY SameBytes
<1> QED
  BY <1>1 DEF BF!vars, Contents, Size, Pos, Failed

-----------------------------------------------------------------------------
(* The steps of FileIO                                                     *)

(* What each step does to the mapped variables is read off its definition. *)
LEMMA MapsQuiet ==
  ASSUME SizeOK, SizeOK', Others \/ Refuse \/ UNCHANGED vars
  PROVE  UNCHANGED BF!vars
<1>1. UNCHANGED <<chain, data, entry, mode, objsize, pc, ifptr, fptr, err, out>>
  BY DEF Others, Refuse, vars, fil, locals
<1>2. FrontKept
  BY <1>1, Stays
<1> QED
  BY <1>1, <1>2, MapsStutter DEF Size, Pos, Failed

LEMMA MapsOpen ==
  ASSUME Inv, SizeOK, SizeOK', NEW m \in {"r", "rw"}, Open(m)
  PROVE  BF!Next
<1> USE DEF Open, locals
<1>1. Size' = entry.size /\ Size = entry.size /\ ~Failed /\ ~Failed' /\ Pos' = 0 /\ out' = << >>
  BY DEF Size, Pos, Failed
<1>2. Size = 0 \/ FrontKept
  <2>1. CASE entry.sclust = None
    <3>1. entry.size <= 0
      BY <2>1 DEF Inv, Running, EntryOK
    <3> QED
      BY <1>1, <3>1 DEF SizeOK
  <2>2. CASE entry.sclust # None
    BY <2>2, Stays
  <2> QED
    BY <2>1, <2>2
<1> QED
  BY <1>1, <1>2, MapsReopen

LEMMA MapsOpenAppend ==
  ASSUME SizeOK, SizeOK', OpenAppend
  PROVE  BF!Next
<1> USE DEF OpenAppend, locals
<1>1. FrontKept
  BY Stays
<1>2. Size' = Size /\ ~Failed /\ ~Failed' /\ Pos' = Size /\ out' = << >>
  BY DEF Size, Pos, Failed
<1>3. Size' = IF Pos' > Size THEN Pos' ELSE Size
  BY <1>2
<1> QED
  BY <1>1, <1>2, <1>3, MapsSeek

LEMMA MapsOpenNew ==
  ASSUME SizeOK, SizeOK', OpenNew \/ OpenFails, Inv
  PROVE  BF!Next
<1>1. CASE OpenNew
  <2>1. Size' = 0 /\ Pos' = 0 /\ out' = << >> /\ ~Failed /\ ~Failed'
    BY <1>1 DEF OpenNew, locals, Size, Pos, Failed
  <2> QED
    BY <2>1, MapsOverwrite
<1>2. CASE OpenFails
  <2>1. UNCHANGED <<chain, data>> /\ Size' = Size /\ Pos' = Pos /\ Failed' = Failed /\ out' = << >>
        /\ mode = "closed"
    BY <1>2 DEF OpenFails, fil, locals, Size, Pos, Failed
  <2>2. Pos' = 0 /\ ~Failed /\ FrontKept
    BY <2>1, Stays DEF SizeOK
  <2> QED
    BY <2>1, <2>2, MapsReopen
<1> QED
  BY <1>1, <1>2

(* A call that leaves the file as it is. *)
LEMMA MapsSame ==
  ASSUME SizeOK, SizeOK', ~Failed, ~Failed', FrontKept, out' = << >>,
         Size' = Size, Pos' = Pos, Pos <= Size
  PROVE  BF!Next
<1>1. Size' = IF Pos' > Size THEN Pos' ELSE Size
  BY DEF SizeOK
<1> QED
  BY <1>1, MapsSeek

LEMMA MapsStart ==
  ASSUME SizeOK, SizeOK', NEW n, ReadStart(n) \/ WriteStart(n)
  PROVE  BF!Next
<1>1. UNCHANGED <<chain, data, entry, mode, objsize, fptr, err>> /\ out' = << >>
      /\ pc = "idle" /\ err = "FR_OK" /\ pc' # "seek"
  BY DEF ReadStart, WriteStart, Ready, fil
<1>2. Size' = Size /\ Pos' = Pos /\ ~Failed /\ ~Failed' /\ Pos <= Size
  BY <1>1 DEF Size, Pos, Failed, SizeOK
<1> QED
  BY <1>1, <1>2, Stays, MapsSame

LEMMA MapsSyncClose ==
  ASSUME Inv, SizeOK, SizeOK', Sync \/ Close
  PROVE  BF!Next \/ UNCHANGED BF!vars
<1>1. UNCHANGED <<chain, data, pc, ifptr>> /\ out' = << >> /\ pc = "idle" /\ mode # "closed"
  BY DEF Sync, Close, locals
<1>2. FrontKept
  BY <1>1, Stays
<1>3. CASE UNCHANGED <<mode, err, objsize, fptr>>
  <2>1. Size' = Size /\ Pos' = Pos /\ Failed' = Failed
    BY <1>1, <1>3 DEF Size, Pos, Failed
  <2>2. CASE Failed
    <3>1. out' = out
      BY <1>1, <2>2 DEF Failed, Inv, Running
    <3> QED
      BY <1>2, <2>1, <3>1, MapsStutter
  <2>3. CASE ~Failed
    <3>1. Pos <= Size
      BY <1>1, <2>3 DEF SizeOK
    <3> QED
      BY <1>1, <1>2, <2>1, <2>3, <3>1, MapsSame
  <2> QED
    BY <2>2, <2>3
<1>4. CASE Close /\ ret' = "FR_OK"
  <2>1. mode' = "closed" /\ err' = "FR_OK" /\ fptr' = 0
    BY <1>4 DEF Close
  <2>2. Pos' = 0 /\ ~Failed' /\ Size' = entry'.size /\ Size = objsize
    BY <1>1, <2>1 DEF Pos, Failed, Size
  <2>3. CASE Failed
    BY <1>1, <2>2, <2>3, MapsRecover
  <2>4. CASE ~Failed
    <3>1. entry'.size = objsize
      <4>1. CASE modified
        BY <1>4, <4>1 DEF Close, f_sync, SyncEntry
      <4>2. CASE ~modified
        <5>1. entry' = entry
          BY <1>4, <4>2 DEF Close, f_sync
        <5>2. entry.size = objsize
          BY <1>1, <2>4, <4>2 DEF Inv, EntryOK, Failed
        <5> QED
          BY <5>1, <5>2
      <4> QED
        BY <4>1, <4>2
    <3> QED
      BY <1>1, <1>2, <2>2, <2>4, <3>1, MapsReopen
  <2> QED
    BY <2>3, <2>4
<1> QED
  BY <1>3, <1>4 DEF Sync, Close

LEMMA GrownFront ==
  ASSUME Inv, NEW c, Grown(c), data' = data
  PROVE  FrontKept
BY GrownChain DEF FrontKept, Inv

LEMMA MapsAbort ==
  ASSUME SizeOK, SizeOK', err = "FR_OK", NEW r, r # "FR_OK", Abort(r)
  PROVE  BF!Next
BY MapsFail DEF Abort, Leave, Failed

LEMMA MapsSeekDone ==
  ASSUME SizeOK, SizeOK', mode # "closed", err = "FR_OK", NEW p, SeekDone(p), FrontKept
  PROVE  BF!Next
<1> USE DEF SeekDone, Leave, Extend
<1>1. Size = objsize /\ Size' = objsize' /\ Pos' = p /\ ~Failed /\ ~Failed' /\ out' = << >>
  BY DEF Size, Pos, Failed
<1>2. objsize' = Most(p, objsize)
  OBVIOUS
<1>3. Size' = IF Pos' > Size THEN Pos' ELSE Size
  BY <1>1, <1>2 DEF Most
<1> QED
  BY <1>1, <1>3, MapsSeek

LEMMA MapsWalk ==
  ASSUME SizeOK, SizeOK', mode # "closed", err = "FR_OK", NEW c, NEW p, NEW o, NEW from,
         Walk(c, p, o, from), from = Pos, from <= objsize, FrontKept
  PROVE  BF!Next
<1> USE DEF Walk
<1>1. Size = objsize /\ Size' = Size /\ Pos' = Pos /\ ~Failed /\ ~Failed' /\ out' = << >>
  BY DEF Size, Pos, Failed
<1> QED
  BY <1>1, MapsSame

LEMMA MapsSeekStart ==
  ASSUME Inv, SizeOK, SizeOK', NEW o, SeekStart(o)
  PROVE  BF!Next
<1> DEFINE to == Target(o)
<1>1. /\ pc = "idle" /\ mode # "closed" /\ err = "FR_OK"
      /\ \/ UNCHANGED <<chain, free>> /\ SeekDone(0)
         \/ UNCHANGED <<chain, free>> /\ \E c, p, n : Walk(c, p, n, fptr)
         \/ AbortDisk(0, clust, sect)
         \/ \E c \in Results :
              /\ create_chain(None, c, chain', free')
              /\ SeekDone(0) \/ Walk(c, 0, to, fptr)
  BY DEF SeekStart, Ready
<1>2. Pos = fptr /\ fptr <= objsize
  BY <1>1, Numbers DEF Pos
<1>3. CASE UNCHANGED <<chain, free>> /\ SeekDone(0)
  <2>1. FrontKept
    BY <1>3, Stays DEF SeekDone
  <2> QED
    BY <1>1, <1>3, <2>1, MapsSeekDone
<1>4. CASE UNCHANGED <<chain, free>> /\ \E c, p, n : Walk(c, p, n, fptr)
  <2>1. FrontKept
    BY <1>4, Stays DEF Walk
  <2> QED
    BY <1>1, <1>2, <1>4, <2>1, MapsWalk
<1>5. CASE AbortDisk(0, clust, sect)
  BY <1>1, <1>5, MapsAbort DEF AbortDisk
<1>6. ASSUME NEW c \in Results, create_chain(None, c, chain', free'),
             SeekDone(0) \/ Walk(c, 0, to, fptr)
      PROVE  BF!Next
  <2>1. FrontKept
    <3>1. Grown(c)
      BY <1>6, CreateGrown
    <3>2. data' = data
      BY <1>6 DEF SeekDone, Walk
    <3> QED
      BY <3>1, <3>2, GrownFront
  <2> QED
    BY <1>1, <1>2, <1>6, <2>1, MapsSeekDone, MapsWalk
<1> QED
  BY <1>1, <1>3, <1>4, <1>5, <1>6

LEMMA MapsSeekTurn ==
  ASSUME Inv, SizeOK, SizeOK', SeekTurn
  PROVE  BF!Next
<1>0. pc = "seek"
  BY DEF SeekTurn
<1>1. mode # "closed" /\ err = "FR_OK" /\ Pos = ifptr /\ ifptr <= objsize
  BY <1>0 DEF Inv, Running, Pos
<1>2. \/ UNCHANGED chain /\ SeekDone(fptr + ofs)
      \/ AbortDisk(fptr + bcs, clust, sect)
      \/ Abort("FR_INT_ERR")
      \/ \E c \in Results \cup {EOC} :
           /\ create_chain(clust, c, chain', free') \/ UNCHANGED chain
           /\ SeekDone(fptr + bcs) \/ Walk(c, fptr + bcs, ofs - bcs, ifptr)
  BY DEF SeekTurn
<1>3. CASE UNCHANGED chain /\ SeekDone(fptr + ofs)
  <2>1. FrontKept
    BY <1>3, Stays DEF SeekDone
  <2> QED
    BY <1>1, <1>3, <2>1, MapsSeekDone
<1>4. CASE AbortDisk(fptr + bcs, clust, sect) \/ Abort("FR_INT_ERR")
  <2>1. CASE Abort("FR_DISK_ERR")
    BY <1>1, <2>1, MapsAbort
  <2>2. CASE Abort("FR_INT_ERR")
    BY <1>1, <2>2, MapsAbort
  <2> QED
    BY <1>4, <2>1, <2>2 DEF AbortDisk
<1>5. ASSUME NEW c \in Results \cup {EOC},
             create_chain(clust, c, chain', free') \/ UNCHANGED chain,
             SeekDone(fptr + bcs) \/ Walk(c, fptr + bcs, ofs - bcs, ifptr)
      PROVE  BF!Next
  <2>1. data' = data
    BY <1>5 DEF SeekDone, Walk
  <2>2. FrontKept
    <3>1. CASE UNCHANGED chain
      BY <2>1, <3>1, Stays
    <3>2. CASE create_chain(clust, c, chain', free')
      <4>1. Grown(c)
        BY <3>2, CreateGrown
      <4> QED
        BY <2>1, <4>1, GrownFront
    <3> QED
      BY <1>5, <3>1, <3>2
  <2> QED
    BY <1>1, <1>5, <2>2, MapsSeekDone, MapsWalk
<1> QED
  BY <1>2, <1>3, <1>4, <1>5

LEMMA MapsTruncate ==
  ASSUME Inv, SizeOK, SizeOK', Truncate
  PROVE  BF!Next
<1> DEFINE k == TruncEnd
<1>1. /\ Ready /\ mode = "rw" /\ fptr < objsize /\ pc = "idle" /\ err = "FR_OK"
      /\ UNCHANGED <<entry, mode, fptr, pc, ifptr>>
      /\ objsize' = fptr /\ out' = << >>
  BY DEF Ready, Truncate, Shrink, locals
<1>2. (Cut(k, Len(chain) - k) /\ err' = err) \/ err' = "FR_DISK_ERR"
  BY DEF TruncEnd, Truncate
<1>3. k \in 0 .. Len(chain) /\ fptr <= k * bcs /\ k * bcs \in Nat /\ Len(chain) \in Nat
  BY <1>1, TruncPlace, Numbers
<1>4. Size = objsize /\ Size' = fptr /\ Pos = fptr /\ Pos' = fptr /\ ~Failed
      /\ fptr \in Nat /\ objsize \in Nat
  BY <1>1, Numbers DEF Size, Pos, Failed
<1> HIDE DEF k
<1>5. CASE err' = "FR_DISK_ERR"
  BY <1>1, <1>4, <1>5, MapsFail DEF Failed
<1>6. CASE Cut(k, Len(chain) - k) /\ err' = err
  <2>1. /\ Len(chain') = k /\ \A i \in 1 .. k : chain'[i] = chain[i]
    BY <1>3, <1>6, CutEffect, Len(chain) - k \in 0 .. Len(chain) - k
  <2> DEFINE t == SubSeq(chain, k + 1, Len(chain))
  <2>2. data' = [c \in Cluster |-> IF c \in Elems(t) THEN Wild ELSE data[c]]
    BY <1>6 DEF Cut
  <2>3. \A i \in 1 .. k : chain[i] \notin Elems(t)
    <3>1. \A i \in 1 .. Len(chain) : chain[i] \in Cluster
      BY DEF Inv, Types
    <3>2. /\ t \in Seq(Cluster)
          /\ Len(t) = (IF k + 1 <= Len(chain) THEN Len(chain) - (k + 1) + 1 ELSE 0)
          /\ \A i \in 1 .. Len(chain) - (k + 1) + 1 : t[i] = chain[(k + 1) + i - 1]
      BY <1>3, <3>1, \A i \in k + 1 .. Len(chain) : i \in 1 .. Len(chain)
    <3>3. DOMAIN t = 1 .. Len(t)
      BY <3>2
    <3> HIDE DEF t
    <3>4. Len(t) = Len(chain) - k
      BY <1>3, <3>2
    <3> SUFFICES ASSUME NEW i \in 1 .. k, NEW j \in 1 .. Len(chain) - k, chain[i] = t[j]
                 PROVE  FALSE
      BY <3>3, <3>4 DEF Elems
    <3>5. t[j] = chain[k + j] /\ k + j \in 1 .. Len(chain) /\ i \in 1 .. Len(chain) /\ i # k + j
      <4>1. j \in 1 .. Len(chain) - (k + 1) + 1 /\ (k + 1) + j - 1 = k + j
        BY <1>3
      <4> QED
        BY <1>3, <3>2, <4>1
    <3> QED
      BY <3>5 DEF Inv, ChainOK
  <2> HIDE DEF t
  <2>4. ASSUME NEW i \in 1 .. fptr PROVE Contents'[i] = Contents[i]
    <3> DEFINE q == (i - 1) \div bcs
               r == (i - 1) % bcs
    <3>1. i \in 1 .. Size' /\ i \in 1 .. Size
      BY <1>1, <1>4
    <3>2. /\ q \in Nat /\ q < Len(chain') /\ chain[q + 1] \in Cluster
          /\ Contents[i] = data[chain[q + 1]][r] /\ Contents'[i] = data'[chain'[q + 1]][r]
      BY <3>1, ContentsBytes
    <3> HIDE DEF q, r
    <3>3. q + 1 \in 1 .. k
      BY <1>3, <2>1, <3>2
    <3> QED
      BY <2>1, <2>2, <2>3, <3>2, <3>3
  <2>5. Contents' = SubSeq(Contents, 1, Pos)
    <3>1. /\ Contents \in Seq(Byte) /\ Len(Contents) = Size /\ DOMAIN Contents = 1 .. Size
          /\ Contents' \in Seq(Byte) /\ Len(Contents') = Size'
      BY ContentsBytes
    <3>2. \A i \in 1 .. Pos : Contents[i] \in Byte
      BY <1>1, <1>4, <3>1, \A i \in 1 .. fptr : i \in 1 .. objsize
    <3>3. /\ SubSeq(Contents, 1, Pos) \in Seq(Byte)
          /\ Len(SubSeq(Contents, 1, Pos)) = IF 1 <= Pos THEN Pos - 1 + 1 ELSE 0
          /\ \A i \in 1 .. Pos - 1 + 1 : SubSeq(Contents, 1, Pos)[i] = Contents[1 + i - 1]
      BY <1>4, <3>2
    <3>4. Len(SubSeq(Contents, 1, Pos)) = fptr
      BY <1>4, <3>3
    <3>5. ASSUME NEW i \in 1 .. fptr PROVE SubSeq(Contents, 1, Pos)[i] = Contents[i]
      <4>1. i \in 1 .. Pos - 1 + 1 /\ 1 + i - 1 = i
        BY <1>4
      <4> QED
        BY <3>3, <4>1
    <3> QED
      BY <1>4, <2>4, <3>1, <3>3, <3>4, <3>5
  <2>6. ~Failed'
    BY <1>1, <1>6 DEF Failed
  <2>7. BF!Truncate
    BY <1>1, <1>4, <2>5, <2>6 DEF BF!Truncate, Contents, Size, Pos, Failed
  <2> QED
    BY <1>4, <2>7 DEF BF!Next, Failed
<1> QED
  BY <1>2, <1>5, <1>6

(* Where the pointer is in its cluster. *)
LEMMA Offset ==
  ASSUME Types
  PROVE  /\ fptr \in Nat /\ fptr % bcs \in Nat /\ bcs \in Nat
         /\ fptr % bcs = CSect * SS + (fptr % SS) /\ CSect * SS \in Nat
         /\ fptr \div bcs \in Nat /\ (fptr \div bcs) * bcs \in Nat
         /\ fptr = (fptr \div bcs) * bcs + (fptr % bcs)
<1>1. SS \in Nat
  BY Sizes
<1>2. bcs \in Nat
  BY SizesPositive
<1>3. fptr % SS \in Nat /\ CSect * SS \in Nat /\ fptr % bcs = CSect * SS + (fptr % SS)
  BY <1>1, SectorPlace
<1>4. fptr % bcs \in Nat
  BY <1>3
<1> QED
  BY <1>2, <1>3, <1>4, SectorPlace

(* The bytes of a turn lie behind each other in one cluster. *)
LEMMA TurnBytes ==
  ASSUME Types, left > 0, NEW i \in 1 .. Turn
  PROVE  /\ fptr + i - 1 \in Nat
         /\ (fptr + i - 1) \div bcs = fptr \div bcs
         /\ (fptr + i - 1) % bcs = (fptr % bcs) + i - 1
<1> DEFINE q == fptr \div bcs
           r == fptr % bcs
<1>1. fptr \in Nat /\ q \in Nat /\ q * bcs \in Nat /\ fptr = q * bcs + r /\ r \in Nat /\ bcs \in Nat
  BY Offset
<1>2. Turn \in Nat /\ r + Turn <= bcs
  BY TurnMoves
<1> HIDE DEF q, r
<1>3. /\ fptr + i - 1 \in Nat /\ r + i - 1 \in Nat /\ r + i - 1 < bcs
      /\ fptr + i - 1 = q * bcs + (r + i - 1)
  BY <1>1, <1>2
<1> QED
  BY ZenonT(30), <1>1, <1>3, InCluster DEF q, r

(* n elements of a sequence, from the one after the p-th on. *)
LEMMA Slice ==
  ASSUME NEW S, NEW C \in Seq(S), NEW p \in Nat, NEW n \in Nat, 0 < n, p + n <= Len(C)
  PROVE  SubSeq(C, p + 1, p + n) = [i \in 1 .. n |-> C[p + i]]
<1> DEFINE u == SubSeq(C, p + 1, p + n)
           w == [i \in 1 .. n |-> C[p + i]]
<1>1. Len(C) \in Nat /\ p + 1 \in Int /\ p + n \in Int /\ p + 1 <= p + n
      /\ (p + n) - (p + 1) + 1 = n /\ \A i \in 1 .. n : (p + 1) + i - 1 = p + i
  OBVIOUS
<1>2. \A j \in p + 1 .. p + n : j \in 1 .. Len(C)
  BY <1>1
<1>3. \A j \in p + 1 .. p + n : C[j] \in S
  BY <1>2
<1>4. \A i \in 1 .. n : p + i \in p + 1 .. p + n
  OBVIOUS
<1>5. u \in Seq(S) /\ Len(u) = n /\ \A i \in 1 .. n : u[i] = C[p + i]
  <2>1. Len(u) = n
    BY <1>1
  <2>2. \A i \in 1 .. n : u[i] = C[p + i]
    BY <1>1
  <2>3. u \in Seq(S)
    BY <1>3
  <2> QED
    BY Zenon, <2>1, <2>2, <2>3
<1>6. \A i \in 1 .. n : w[i] = C[p + i] /\ w[i] \in S
  BY <1>3, <1>4
<1>7. w \in Seq(S) /\ Len(w) = n
  <2>1. w \in [1 .. n -> S] /\ DOMAIN w = 1 .. n
    BY <1>6
  <2> HIDE DEF w
  <2>2. w \in Seq(S)
    BY <2>1
  <2>3. Len(w) \in Nat /\ DOMAIN w = 1 .. Len(w)
    BY <2>2
  <2> QED
    BY <2>1, <2>2, <2>3
<1> HIDE DEF u, w
<1>8. u = w
  BY <1>5, <1>6, <1>7
<1> QED
  BY <1>8 DEF u, w

(* What f_read delivers in a turn are the file's bytes from the pointer on. *)
LEMMA TurnContents ==
  ASSUME Inv, SizeOK, SizeOK', left > 0, Turn \in Nat, 0 < Turn, fptr + Turn <= Size,
         fptr \div bcs \in 0 .. Len(chain) - 1
  PROVE  Stored(chain[(fptr \div bcs) + 1], fptr % bcs, Turn) = SubSeq(Contents, fptr + 1, fptr + Turn)
<1> DEFINE c == chain[(fptr \div bcs) + 1]
           o == fptr % bcs
<1>1. Contents \in Seq(Byte) /\ Len(Contents) = Size /\ fptr \in Nat /\ Size \in Nat
  BY Zenon, ContentsBytes, Numbers DEF SizeOK
<1>2. ASSUME NEW i \in 1 .. Turn PROVE Contents[fptr + i] = data[c][o + i - 1]
  <2>1. fptr + i \in 1 .. Size /\ (fptr + i) - 1 = fptr + i - 1
    BY <1>1
  <2>2. (fptr + i - 1) \div bcs = fptr \div bcs /\ (fptr + i - 1) % bcs = o + i - 1
    BY Zenon, TurnBytes DEF Inv
  <2>3. Contents[fptr + i] = data[chain[(((fptr + i) - 1) \div bcs) + 1]][((fptr + i) - 1) % bcs]
    BY Zenon, <2>1, ContentsBytes
  <2> HIDE DEF o
  <2> QED
    BY ZenonT(60), <2>1, <2>2, <2>3
<1> HIDE DEF c, o
<1>3. [i \in 1 .. Turn |-> data[c][o + i - 1]] = [i \in 1 .. Turn |-> Contents[fptr + i]]
  BY Zenon, <1>2
<1>4. SubSeq(Contents, fptr + 1, fptr + Turn) = [i \in 1 .. Turn |-> Contents[fptr + i]]
  BY <1>1, Slice
<1>5. Stored(c, o, Turn) = [i \in 1 .. Turn |-> data[c][o + i - 1]]
  BY Zenon DEF Stored
<1> QED
  BY Zenon, <1>3, <1>4, <1>5 DEF c, o

LEMMA MapsReadTurn ==
  ASSUME Inv, SizeOK, SizeOK', ReadTurn
  PROVE  BF!Next
<1> DEFINE c == ReadClst
           t == TurnSect(c)
           o == fptr % bcs
<1>0. pc = "read"
  BY DEF ReadTurn
<1>1. /\ mode # "closed" /\ err = "FR_OK" /\ left > 0 /\ fptr + left <= objsize
      /\ fptr \div bcs \in 0 .. Len(chain) - 1
      /\ c = chain[(fptr \div bcs) + 1] /\ c \in Cluster
      /\ t = <<c, CSect>>
  BY <1>0, ReadCluster
<1>2. \/ Abort("FR_DISK_ERR")
      \/ /\ AtSector /\ Whole > 0
         /\ out' = Stored(c, CSect * SS, SS * Whole) /\ Advance(SS * Whole)
         /\ UNCHANGED <<chain, data, entry, mode, err, objsize>>
      \/ /\ ~(AtSector /\ Whole > 0)
         /\ out' = Stored(t[1], t[2] * SS + (fptr % SS), Part) /\ Advance(Part)
         /\ UNCHANGED <<chain, data, entry, mode, err, objsize>>
  BY <1>1 DEF ReadTurn, ReadClst, TurnSect, AbortDisk
<1>3. /\ Types /\ fptr \in Nat /\ o \in Nat /\ o = CSect * SS + (fptr % SS) /\ CSect * SS \in Nat
  BY Offset DEF Inv
<1>4. AtSector => o = CSect * SS
  BY <1>3 DEF AtSector
<1>5. t[1] = c /\ t[2] = CSect
  BY <1>1
<1>6. \/ Abort("FR_DISK_ERR")
      \/ /\ out' = Stored(c, o, Turn) /\ Advance(Turn)
         /\ UNCHANGED <<chain, data, entry, mode, err, objsize>>
  <2> HIDE DEF c, t, o
  <2> QED
    BY <1>2, <1>3, <1>4, <1>5 DEF Turn
<1>7. CASE Abort("FR_DISK_ERR")
  BY <1>1, <1>7, MapsAbort
<1>8. CASE /\ out' = Stored(c, o, Turn) /\ Advance(Turn)
           /\ UNCHANGED <<chain, data, entry, mode, err, objsize>>
  <2>1. Turn \in Nat /\ 0 < Turn /\ Turn <= left /\ left \in Nat /\ objsize \in Nat
    <3>1. left \in Nat /\ objsize \in Nat
      BY Numbers DEF Inv, Types
    <3> QED
      BY <1>1, <1>3, <3>1, TurnMoves
  <2>2. Size = objsize /\ Size' = Size /\ Pos = fptr /\ Pos' = fptr + Turn /\ ~Failed /\ ~Failed'
    <3>1. pc' # "seek" /\ fptr' = fptr + Turn
      BY <1>0, <1>8 DEF Advance
    <3> QED
      BY <1>0, <1>1, <1>8, <3>1 DEF Size, Pos, Failed
  <2>3. Contents' = Contents
    BY <1>8, <2>2, Stays, SameBytes
  <2>4. /\ Contents \in Seq(Byte) /\ Len(Contents) = Size /\ DOMAIN Contents = 1 .. Size
    BY ContentsBytes
  <2>5. fptr + Turn <= Size
    BY <1>1, <1>3, <2>1, <2>2
  <2>6. out' = SubSeq(Contents, fptr + 1, fptr + Turn)
    BY Zenon, <1>1, <1>8, <2>1, <2>5, TurnContents
  <2> HIDE DEF c, o
  <2>8. Turn \in 1 .. Len(Contents) - Pos
    BY <1>3, <2>1, <2>2, <2>4, <2>5
  <2>9. out' = SubSeq(Contents, Pos + 1, Pos + Turn) /\ Pos' = Pos + Turn
    BY Zenon, <2>2, <2>6
  <2> HIDE DEF Turn
  <2>10. BF!Read
    BY Zenon, <2>2, <2>3, <2>8, <2>9 DEF BF!Read, Contents, Size, Pos, Failed
  <2> QED
    BY <2>2, <2>10 DEF BF!Next, Failed
<1> QED
  BY <1>6, <1>7, <1>8

(* Store(c, o, n, w) leaves the bytes of c before the n from o on, and the    *)
(* ones after them unless w.                                                  *)
Around(c, o, n, w) ==
  \A x \in 0 .. bcs - 1 : x < o \/ (x >= o + n /\ ~w) => data'[c][x] = data[c][x]

(* What Store does to the bytes of the clusters. *)
LEMMA StoreEffect ==
  ASSUME data \in ClusterData, NEW c \in Cluster, NEW o \in Nat, NEW n \in Nat, o + n <= bcs,
         bcs \in Nat, NEW w, Store(c, o, n, w)
  PROVE  /\ \A d \in Cluster \ {c} : data'[d] = data[d]
         /\ \A x \in o .. o + n - 1 : data'[c][x] \in Val
         /\ Around(c, o, n, w)
<1>1. PICK bytes \in [0 .. n - 1 -> Val] :
        data' = [data EXCEPT ![c] = [x \in 0 .. bcs - 1 |->
                   IF x \in o .. o + n - 1 THEN bytes[x - o]
                   ELSE IF w /\ x >= o + n /\ x \div SS = o \div SS THEN Junk
                   ELSE @[x]]]
  BY Zenon DEF Store
<1> DEFINE f == [x \in 0 .. bcs - 1 |->
                   IF x \in o .. o + n - 1 THEN bytes[x - o]
                   ELSE IF w /\ x >= o + n /\ x \div SS = o \div SS THEN Junk
                   ELSE data[c][x]]
<1>2. data' = [data EXCEPT ![c] = f]
  BY Zenon, <1>1
<1>3. \A x \in 0 .. bcs - 1 :
        f[x] = IF x \in o .. o + n - 1 THEN bytes[x - o]
               ELSE IF w /\ x >= o + n /\ x \div SS = o \div SS THEN Junk
               ELSE data[c][x]
  BY Zenon
<1> HIDE DEF f
<1>4. data'[c] = f /\ \A d \in Cluster \ {c} : data'[d] = data[d]
  BY Zenon, <1>2 DEF ClusterData
<1>5. ASSUME NEW x \in o .. o + n - 1 PROVE f[x] \in Val
  <2>1. x \in 0 .. bcs - 1 /\ x - o \in 0 .. n - 1
    OBVIOUS
  <2>2. bytes[x - o] \in Val
    BY Zenon, <2>1
  <2> QED
    BY Zenon, <1>3, <2>1, <2>2
<1>6. ASSUME NEW x \in 0 .. bcs - 1, x < o \/ (x >= o + n /\ ~w) PROVE f[x] = data[c][x]
  <2>1. x \notin o .. o + n - 1 /\ (x < o => ~(x >= o + n))
    BY <1>6
  <2> QED
    BY Zenon, <1>3, <1>6, <2>1
<1> QED
  BY Zenon, <1>4, <1>5, <1>6 DEF Around

(* Byte j, in cluster k, and the n bytes from byte p on, in cluster q. *)
LEMMA Apart ==
  ASSUME NEW b \in Nat, NEW q \in Nat, NEW o \in Nat, NEW k \in Nat, NEW x \in Nat,
         NEW n \in Nat, NEW p \in Nat, NEW j \in Nat, p = q * b + o, j = k * b + x, k = q
  PROVE  (j < p => x < o) /\ (j >= p + n => x >= o + n)
<1>1. q * b \in Nat
  OBVIOUS
<1> DEFINE t == q * b
<1>2. t \in Nat /\ p = t + o /\ j = t + x
  BY <1>1
<1> HIDE DEF t
<1> QED
  BY <1>2

LEMMA SameNumber ==
  ASSUME NEW a \in Nat, NEW b \in Nat, a + 1 = b + 1
  PROVE  a = b
OBVIOUS

LEMMA RangeNumber ==
  ASSUME NEW b \in Nat, NEW a \in 0 .. b - 1
  PROVE  a \in Nat
OBVIOUS

(* A turn of f_write that stores n bytes from byte o of the file's cluster    *)
(* number q on, with (w) or without the rest of the sector they end in.       *)
TurnIn(c, q, o, n, w) ==
  /\ fptr = q * bcs + o /\ o + n <= bcs
  /\ q + 1 \in 1 .. Len(chain') /\ c = chain'[q + 1]
  /\ w => Growing
  /\ Store(c, o, n, w)

(* What a turn of f_write does to the bytes of the file: those around the     *)
(* turn stay, whichever clusters they are in.                                 *)
LEMMA KeptBytes ==
  ASSUME Inv, SizeOK, SizeOK', Inv', NEW c \in Cluster, Grown(c),
         NEW q \in Nat, NEW o \in Nat, NEW n \in Nat, NEW w, TurnIn(c, q, o, n, w),
         Size = objsize, Size <= Size', NEW i \in 1 .. Size, i <= fptr \/ i > fptr + n
  PROVE  Contents'[i] = Contents[i]
<1> /\ fptr = q * bcs + o /\ o + n <= bcs
    /\ q + 1 \in 1 .. Len(chain') /\ c = chain'[q + 1]
    /\ (w => Growing) /\ Store(c, o, n, w)
  BY Zenon DEF TurnIn
<1>1. /\ fptr \in Nat /\ Size \in Nat /\ Size' \in Nat /\ bcs \in Nat /\ data \in ClusterData
      /\ Len(chain) \in Nat /\ Len(chain') \in Nat
  BY ZenonT(60), Numbers, SizesPositive DEF SizeOK
<1>2. /\ \A k, j \in 1 .. Len(chain') : chain'[k] = chain'[j] => k = j
      /\ Len(chain) <= Len(chain') /\ \A k \in 1 .. Len(chain) : chain'[k] = chain[k]
  <2>1. \A k, j \in 1 .. Len(chain') : chain'[k] = chain'[j] => k = j
    BY Zenon DEF Inv, ChainOK
  <2> QED
    BY <2>1, GrownChain DEF Inv
<1> DEFINE k == (i - 1) \div bcs
           x == (i - 1) % bcs
<1>3. i \in 1 .. Size' /\ i - 1 \in Nat
  BY <1>1
<1>4. /\ k \in Nat /\ k < Len(chain) /\ x \in 0 .. bcs - 1 /\ chain[k + 1] \in Cluster
      /\ Contents[i] = data[chain[k + 1]][x] /\ Contents'[i] = data'[chain'[k + 1]][x]
  BY ZenonT(60), <1>3, ContentsBytes
<1>5. i - 1 = k * bcs + x
  BY ZenonT(60), <1>3, Place
<1> HIDE DEF k, x
<1>6. k + 1 \in 1 .. Len(chain) /\ k + 1 \in 1 .. Len(chain')
  BY <1>1, <1>2, <1>4
<1>7. chain'[k + 1] = chain[k + 1]
  BY Zenon, <1>2, <1>6
<1>8. (\A d \in Cluster \ {c} : data'[d] = data[d]) /\ Around(c, o, n, w)
  BY ZenonT(60), SMTT(60), <1>1, StoreEffect
<1>9. CASE chain[k + 1] # c
  BY ZenonT(60), <1>4, <1>7, <1>8, <1>9
<1>10. CASE chain[k + 1] = c
  <2>1. k + 1 = q + 1
    BY ZenonT(60), <1>2, <1>6, <1>7, <1>10
  <2>2. k = q /\ x \in Nat
    BY Zenon, <1>1, <1>4, <2>1, SameNumber, RangeNumber
  <2>3. (i - 1 < fptr => x < o) /\ (i - 1 >= fptr + n => x >= o + n)
    BY <1>1, <1>3, <1>5, <2>2, Apart
  <2>4. (i <= fptr => i - 1 < fptr) /\ (i > fptr + n => i - 1 >= fptr + n)
    BY <1>1
  <2>5. w => i <= fptr
    <3>1. Growing => i <= fptr
      BY <1>1 DEF Growing
    <3> QED
      BY Zenon, <3>1
  <2>6. data'[c][x] = data[c][x]
    BY Zenon, <1>4, <1>8, <2>3, <2>4, <2>5 DEF Around
  <2> QED
    BY Zenon, <1>4, <1>7, <1>10, <2>6
<1> QED
  BY Zenon, <1>9, <1>10

(* The bytes of the turn are the ones f_write was given. *)
LEMMA NewBytes ==
  ASSUME Inv, SizeOK, SizeOK', left > 0, Turn \in Nat, NEW c \in Cluster, bcs \in Nat,
         (fptr % bcs) \in Nat, (fptr % bcs) + Turn <= bcs, c = chain'[(fptr \div bcs) + 1],
         NEW w, Store(c, fptr % bcs, Turn, w),
         fptr + Turn <= Size', NEW i \in fptr + 1 .. fptr + Turn
  PROVE  i <= Size' /\ Contents'[i] \in Val
<1> DEFINE o == fptr % bcs
           j == i - fptr
<1>1. fptr \in Nat /\ Size' \in Nat /\ data \in ClusterData /\ Types
  BY Zenon, Numbers DEF SizeOK, Inv
<1>2. i \in 1 .. Size' /\ i <= Size' /\ j \in 1 .. Turn /\ fptr + j - 1 = i - 1
  BY <1>1
<1> HIDE DEF j
<1>3. (fptr + j - 1) \div bcs = fptr \div bcs /\ (fptr + j - 1) % bcs = o + j - 1
  BY Zenon, <1>1, <1>2, TurnBytes
<1>4. Contents'[i] = data'[chain'[((i - 1) \div bcs) + 1]][(i - 1) % bcs]
  BY Zenon, <1>2, ContentsBytes
<1>5. Contents'[i] = data'[c][o + j - 1]
  BY Zenon, <1>2, <1>3, <1>4
<1>6. \A x \in o .. o + Turn - 1 : data'[c][x] \in Val
  BY Zenon, <1>1, StoreEffect
<1> HIDE DEF o
<1>7. o + j - 1 \in o .. o + Turn - 1
  BY <1>2 DEF o
<1> QED
  BY Zenon, <1>2, <1>5, <1>6, <1>7

LEMMA StoredBytes ==
  ASSUME Inv, SizeOK, SizeOK', pc = "write", NEW c, Grown(c), Inv',
         Len(chain') \in Nat, fptr \div bcs \in 0 .. Len(chain') - 1,
         c = chain'[(fptr \div bcs) + 1], NEW w, w => Growing,
         Store(c, fptr % bcs, Turn, w), Size = objsize, Size' = Most(fptr + Turn, objsize)
  PROVE  /\ \A i \in 1 .. Size : i <= fptr \/ i > fptr + Turn => Contents'[i] = Contents[i]
         /\ \A i \in fptr + 1 .. fptr + Turn : i <= Size' /\ Contents'[i] \in Val
<1> DEFINE q == fptr \div bcs
           o == fptr % bcs
<1>1. Types /\ left > 0 /\ objsize \in Nat
  BY ZenonT(30), Numbers DEF Inv, Running
<1>2. /\ fptr \in Nat /\ q \in Nat /\ o \in Nat /\ bcs \in Nat /\ fptr = q * bcs + o
  BY Zenon, <1>1, Offset
<1>3. Turn \in Nat /\ 0 < Turn /\ o + Turn <= bcs
  BY Zenon, <1>1, TurnMoves
<1>4. Size <= Size' /\ fptr + Turn <= Size'
  BY <1>1, <1>2, <1>3 DEF Most
<1> HIDE DEF q, o
<1>5. q + 1 \in 1 .. Len(chain')
  BY <1>2 DEF q
<1>6. c = chain'[q + 1] /\ c \in Cluster
  <2>1. chain' \in Seq(Cluster)
    BY Zenon DEF SizeOK
  <2> QED
    BY <1>5, <2>1 DEF q
<1>7. Store(c, o, Turn, w)
  BY ZenonT(60) DEF o
<1>8. ASSUME NEW i \in 1 .. Size, i <= fptr \/ i > fptr + Turn PROVE Contents'[i] = Contents[i]
  <2>1. TurnIn(c, q, o, Turn, w)
    BY Zenon, <1>2, <1>3, <1>5, <1>6, <1>7 DEF TurnIn
  <2>2. q \in Nat /\ o \in Nat /\ Turn \in Nat /\ c \in Cluster /\ Size <= Size'
    BY Zenon, <1>2, <1>3, <1>4, <1>6
  <2> QED
    BY <1>8, <2>1, <2>2, KeptBytes
<1>9. ASSUME NEW i \in fptr + 1 .. fptr + Turn PROVE i <= Size' /\ Contents'[i] \in Val
  BY Zenon, <1>1, <1>2, <1>3, <1>4, <1>6, NewBytes DEF o
<1> QED
  BY Zenon, <1>8, <1>9

(* The turn, once its bytes are stored, is ByteFile's Write. *)
LEMMA MapsStore ==
  ASSUME Inv, Inv', SizeOK, SizeOK', pc = "write", mode = "rw", err = "FR_OK", left > 0,
         NEW c, Grown(c), Len(chain') \in Nat, fptr \div bcs \in 0 .. Len(chain') - 1,
         c = chain'[(fptr \div bcs) + 1], NEW w, w => Growing, Store(c, fptr % bcs, Turn, w),
         fptr' = fptr + Turn, pc' # "seek", objsize' = Most(fptr', objsize), out' = << >>,
         UNCHANGED <<mode, err>>
  PROVE  BF!Next
<1>1. /\ Size = objsize /\ Size' = Most(fptr + Turn, objsize) /\ Pos = fptr /\ Pos' = fptr + Turn
      /\ ~Failed /\ ~Failed'
  BY DEF Size, Pos, Failed
<1>2. /\ \A i \in 1 .. Size : i <= fptr \/ i > fptr + Turn => Contents'[i] = Contents[i]
      /\ \A i \in fptr + 1 .. fptr + Turn : i <= Size' /\ Contents'[i] \in Val
  BY Zenon, <1>1, StoredBytes
<1>3. Turn \in Nat /\ 0 < Turn /\ fptr \in Nat
  BY ZenonT(60), TurnMoves, Numbers DEF Inv
<1>4. Pos' \in Pos + 1 .. MaxDword
  <2>1. Pos' \in 0 .. MaxDword /\ MaxDword \in Nat
    BY Zenon DEF SizeOK
  <2> QED
    BY <1>1, <1>3, <2>1
<1>5. Contents' \in Seq(Byte) /\ Len(Contents) = Size /\ Len(Contents') = Size'
  BY Zenon, ContentsBytes
<1>6. Len(Contents') = IF Pos' > Len(Contents) THEN Pos' ELSE Len(Contents)
  BY Zenon, <1>1, <1>5 DEF Most
<1>7. \A i \in 1 .. Len(Contents) : i <= Pos \/ i > Pos' => Contents'[i] = Contents[i]
  BY Zenon, <1>1, <1>2, <1>5
<1>8. \A i \in Pos + 1 .. Pos' : Contents'[i] \in Val
  BY Zenon, <1>1, <1>2
<1>9. BF!Write
  BY ZenonT(30), <1>1, <1>4, <1>5, <1>6, <1>7, <1>8 DEF BF!Write, Contents, Size, Pos, Failed
<1> QED
  BY Zenon, <1>1, <1>9 DEF BF!Next, Failed

LEMMA MapsWriteTurn ==
  ASSUME Inv, Inv', SizeOK, SizeOK', WriteTurn
  PROVE  BF!Next
<1>0. pc = "write" /\ mode = "rw" /\ err = "FR_OK" /\ left > 0
  BY Zenon DEF WriteTurn, Inv, Running
<1>1. CASE AbortDisk(fptr, clust, sect)
  BY <1>0, <1>1, MapsAbort DEF AbortDisk
<1>2. ASSUME NEW c \in Results, WriteClst(c),
             \/ /\ c = None /\ Leave("FR_OK") /\ out' = << >>
                /\ UNCHANGED <<data, entry, mode, err, objsize, fptr>>
             \/ Abort("FR_DISK_ERR")
             \/ /\ c # None
                /\ \/ /\ AtSector /\ Whole > 0
                      /\ Store(c, CSect * SS, SS * Whole, FALSE)
                      /\ Advance(SS * Whole)
                   \/ /\ ~(AtSector /\ Whole > 0)
                      /\ sect' = TurnSect(c)
                      /\ Store(sect'[1], sect'[2] * SS + (fptr % SS), Part, AtSector /\ Growing)
                      /\ Advance(Part)
                /\ objsize' = Most(fptr', objsize)
                /\ out' = << >> /\ UNCHANGED <<entry, mode, err>>
      PROVE  BF!Next
  <2>0. Grown(c)
    BY <1>0, <1>2, WriteCluster
  <2>1. CASE /\ c = None /\ Leave("FR_OK") /\ out' = << >>
             /\ UNCHANGED <<data, entry, mode, err, objsize, fptr>>
    <3>1. FrontKept
      BY <2>0, <2>1, GrownFront
    <3>2. Size' = Size /\ Pos' = Pos /\ ~Failed /\ ~Failed' /\ Pos <= Size
      <4>1. fptr <= objsize
        BY <1>0, Numbers
      <4> QED
        BY <1>0, <2>1, <4>1 DEF Leave, Size, Pos, Failed
    <3> QED
      BY <2>1, <3>1, <3>2, MapsSame
  <2>2. CASE Abort("FR_DISK_ERR")
    BY <1>0, <2>2, MapsAbort
  <2>3. CASE /\ c # None
             /\ \/ /\ AtSector /\ Whole > 0
                   /\ Store(c, CSect * SS, SS * Whole, FALSE)
                   /\ Advance(SS * Whole)
                \/ /\ ~(AtSector /\ Whole > 0)
                   /\ sect' = TurnSect(c)
                   /\ Store(sect'[1], sect'[2] * SS + (fptr % SS), Part, AtSector /\ Growing)
                   /\ Advance(Part)
             /\ objsize' = Most(fptr', objsize)
             /\ out' = << >> /\ UNCHANGED <<entry, mode, err>>
    <3>1. /\ Len(chain') \in Nat
          /\ fptr \div bcs \in 0 .. Len(chain') - 1 /\ c = chain'[(fptr \div bcs) + 1]
          /\ TurnSect(c) = <<c, CSect>>
      BY <1>0, <1>2, <2>3, WriteCluster
    <3>2. /\ Types /\ fptr \in Nat /\ fptr % bcs = CSect * SS + (fptr % SS) /\ CSect * SS \in Nat
      BY SectorPlace DEF Inv
    <3>3. AtSector => fptr % bcs = CSect * SS
      BY <3>2 DEF AtSector
    <3>4. PICK w \in BOOLEAN : (w => Growing) /\ Store(c, fptr % bcs, Turn, w)
      <4>1. CASE AtSector /\ Whole > 0
        <5>1. Store(c, fptr % bcs, Turn, FALSE)
          BY Zenon, <2>3, <3>3, <4>1 DEF Turn
        <5> QED
          BY Zenon, <5>1
      <4>2. CASE ~(AtSector /\ Whole > 0)
        <5>0. sect' = <<c, CSect>>
          BY Zenon, <2>3, <3>1, <4>2
        <5>1. sect'[1] = c /\ sect'[2] = CSect
          BY <5>0
        <5>2. Store(c, fptr % bcs, Turn, AtSector /\ Growing)
          BY Zenon, <2>3, <3>2, <4>2, <5>1 DEF Turn
        <5> QED
          BY Zenon, <5>2, (AtSector /\ Growing) \in BOOLEAN
      <4> QED
        BY <4>1, <4>2
    <3>5. fptr' = fptr + Turn /\ pc' # "seek"
      BY ZenonT(30), <1>0, <2>3 DEF Advance, Turn
    <3> QED
      BY Zenon, <1>0, <2>0, <2>3, <3>1, <3>4, <3>5, MapsStore
  <2> QED
    BY Zenon, <1>2, <2>1, <2>2, <2>3
<1> QED
  BY ZenonT(30), <1>1, <1>2 DEF WriteTurn, WriteClst, TurnSect, AbortDisk

-----------------------------------------------------------------------------
LEMMA MapsNext ==
  ASSUME Inv, Inv', [Next]_vars
  PROVE  BF!Next \/ UNCHANGED BF!vars
<1>0. SizeOK /\ SizeOK'
  BY SizeFits, SizeFitsNext
<1>1. CASE Others \/ Refuse \/ UNCHANGED vars
  BY <1>0, <1>1, MapsQuiet
<1>2. CASE OpenAppend \/ OpenNew \/ OpenFails
  BY <1>0, <1>2, MapsOpenAppend, MapsOpenNew
<1>3. CASE \E m \in {"r", "rw"} : Open(m)
  BY <1>0, <1>3, MapsOpen
<1>4. CASE Sync \/ Close
  BY <1>0, <1>4, MapsSyncClose
<1>5. CASE Truncate
  BY <1>0, <1>5, MapsTruncate
<1>6. CASE \E n \in 1 .. MaxXfer : ReadStart(n) \/ WriteStart(n)
  BY <1>0, <1>6, MapsStart
<1>7. CASE \E o \in 0 .. MaxDword : SeekStart(o)
  BY <1>0, <1>7, MapsSeekStart
<1>8. CASE ReadTurn
  BY <1>0, <1>8, MapsReadTurn
<1>9. CASE WriteTurn
  BY <1>0, <1>9, MapsWriteTurn
<1>10. CASE SeekTurn
  BY <1>0, <1>10, MapsSeekTurn
<1> QED
  BY <1>1, <1>2, <1>3, <1>4, <1>5, <1>6, <1>7, <1>8, <1>9, <1>10 DEF Next

(* An open file behaves as a sequence of bytes with a pointer, for every     *)
(* sector and cluster size and also when disk calls fail: f_read returns     *)
(* what was written, no call disturbs a byte it was not asked to change, and *)
(* closing and opening the file again brings all of it back.                 *)
THEOREM FileRefinement == Spec => ImplementsByteFile
<1>1. Init => BF!Init
  <2> SUFFICES ASSUME Init PROVE BF!Init
    OBVIOUS
  <2>1. Size = 0 /\ Pos = 0 /\ ~Failed /\ out = << >>
    BY DEF Init, Size, Pos, Failed
  <2>2. SizeOK
    BY InitInv, SizeFits
  <2>3. Contents = << >>
    <3>1. Contents \in Seq(Byte) /\ Len(Contents) = 0
      BY ZenonT(30), <2>1, <2>2, ContentsAre, ContentBytes DEF SizeOK
    <3> QED
      BY <3>1
  <2> QED
    BY <2>1, <2>3 DEF BF!Init, Contents, Size, Pos, Failed
<1>2. Inv /\ Inv' /\ [Next]_vars => [BF!Next]_(BF!vars)
  BY MapsNext
<1> QED
  BY <1>1, <1>2, FileInvariant, PTL DEF Spec, BF!Spec, ImplementsByteFile

===============================================================================
