----------------------------- MODULE VolumeProofs -----------------------------
(***************************************************************************)
(* How put_fat and get_fat of ff.c pack FAT entries, and what validate and *)
(* put_fat do over any sequence of formats, mounts and calls, on drives of *)
(* any size, whatever disk calls fail.                                     *)
(***************************************************************************)
EXTENDS Volume, TLAPS

(* A leaf is tried with the SMT solver, then with Zenon, then with the SMT    *)
(* solver and more time, unless it names its prover.                          *)
USE SMTT(10), Zenon, SMTT(60)

-------------------------------------------------------------------------------
(* FAT entries: what is put is what is got, and no other entry changes, also  *)
(* when put_fat stops between the two halves of a 12-bit entry                *)

Byte == 0 .. 255
Types == {"FAT12", "FAT16", "FAT32"}
Dword == [1 .. 4 -> Byte]

\* Bytes of the entry of a cluster, as get_fat reads them.
Span(type, clst) ==
  EntryByte(type, clst) .. EntryByte(type, clst) + EntryBytes(type) - 1

\* The first half of a byte that two 12-bit entries share, and the other one.
LEMMA LowHalf ==
  ASSUME NEW b \in Byte, NEW v \in Byte
  PROVE  /\ (b % 16) + ((v * 16) % 256) \in Byte
         /\ ((b % 16) + ((v * 16) % 256)) % 16 = b % 16
         /\ ((b % 16) + ((v * 16) % 256)) \div 16 = v % 16
BY DEF Byte

\* The same for the high half.
LEMMA HighHalf ==
  ASSUME NEW b \in Byte, NEW v \in Byte
  PROVE  /\ (b \div 16) * 16 + (v % 16) \in Byte
         /\ ((b \div 16) * 16 + (v % 16)) % 16 = v % 16
         /\ ((b \div 16) * 16 + (v % 16)) \div 16 = b \div 16
BY DEF Byte

\* A value of 12 bits cut at its fourth bit is put together again.
LEMMA Nibbles ==
  ASSUME NEW v \in Byte, NEW w \in Byte
  PROVE  /\ (v \div 16) + (w % 16) * 16 \in Byte
         /\ (v % 16) + 16 * ((v \div 16) + (w % 16) * 16) = v + 256 * (w % 16)
BY DEF Byte

\* What get_fat makes of the two bytes of a 12-bit entry.
LEMMA Joined ==
  ASSUME NEW b \in Byte, NEW d \in Byte
  PROVE  /\ (b + 256 * d) \div 16 = (b \div 16) + 16 * d
         /\ (b + 256 * d) % 4096 = b + 256 * (d % 16)
BY DEF Byte

\* The bytes of an entry are natural numbers, and an odd 12-bit entry starts in
\* the last byte of the even one before it.
LEMMA Bytes12 ==
  ASSUME NEW c \in Nat
  PROVE  /\ EntryByte("FAT12", c) \in Nat
         /\ c \div 2 \in Nat
         /\ \/ c % 2 = 0 /\ c = 2 * (c \div 2) /\ EntryByte("FAT12", c) = 3 * (c \div 2)
            \/ c % 2 = 1 /\ c = 2 * (c \div 2) + 1 /\ EntryByte("FAT12", c) = 3 * (c \div 2) + 1
BY DEF EntryByte

\* get_fat and put_fat of a 12-bit entry, byte by byte.
LEMMA Get12 ==
  ASSUME NEW D, NEW img \in [D -> Byte], NEW c \in Nat, Span("FAT12", c) \subseteq D
  PROVE  LET bc == EntryByte("FAT12", c)
         IN /\ bc \in D /\ bc + 1 \in D
            /\ c % 2 = 1 => get_fat("FAT12", img, c) = (img[bc] \div 16) + 16 * img[bc + 1]
            /\ c % 2 # 1 => get_fat("FAT12", img, c) = img[bc] + 256 * (img[bc + 1] % 16)
<1> DEFINE bc == EntryByte("FAT12", c)
<1>1. bc \in Nat BY Bytes12
<1>2. bc \in D /\ bc + 1 \in D
  BY <1>1 DEF Span, EntryBytes
<1>3. img[bc] \in Byte /\ img[bc + 1] \in Byte
  BY <1>2
<1>4. get_fat("FAT12", img, c) = IF c % 2 = 1 THEN (img[bc] + 256 * img[bc + 1]) \div 16
                                             ELSE (img[bc] + 256 * img[bc + 1]) % 4096
  BY DEF get_fat
<1> HIDE DEF bc
<1>5. QED BY <1>2, <1>3, <1>4, Joined DEF bc

\* The two bytes put_fat changes for a 12-bit entry, and the ones it leaves.
LEMMA Put12 ==
  ASSUME NEW D, NEW img \in [D -> Byte], NEW c \in Nat, Span("FAT12", c) \subseteq D,
         NEW val \in Dword
  PROVE  LET bc == EntryByte("FAT12", c)
             first == PutFirst("FAT12", img, c, val)
             both == PutSecond("FAT12", first, c, val)
             low == (img[bc] % 16) + ((val[1] * 16) % 256)
             high == (img[bc + 1] \div 16) * 16 + (val[2] % 16)
             whole == (val[1] \div 16) + (val[2] % 16) * 16
         IN /\ first = [img EXCEPT ![bc] = IF c % 2 = 1 THEN low ELSE val[1]]
            /\ both = [first EXCEPT ![bc + 1] = IF c % 2 = 1 THEN whole ELSE high]
            /\ first \in [D -> Byte] /\ both \in [D -> Byte]
<1> DEFINE bc == EntryByte("FAT12", c)
           first == PutFirst("FAT12", img, c, val)
           both == PutSecond("FAT12", first, c, val)
           low == (img[bc] % 16) + ((val[1] * 16) % 256)
           high == (img[bc + 1] \div 16) * 16 + (val[2] % 16)
           whole == (val[1] \div 16) + (val[2] % 16) * 16
<1>1. bc \in Nat /\ bc \in D /\ bc + 1 \in D
  BY Bytes12, Get12
<1>2. val[1] \in Byte /\ val[2] \in Byte /\ img[bc] \in Byte /\ img[bc + 1] \in Byte
  BY <1>1 DEF Dword
<1>3. low \in Byte /\ high \in Byte /\ whole \in Byte
  <2> HIDE DEF bc
  <2>1. low \in Byte BY <1>2, LowHalf
  <2>2. high \in Byte BY <1>2, HighHalf
  <2>3. whole \in Byte BY <1>2, Nibbles
  <2> QED BY <2>1, <2>2, <2>3
<1>4. first = [img EXCEPT ![bc] = IF c % 2 = 1 THEN low ELSE val[1]]
  BY DEF PutFirst
<1> HIDE DEF low, high, whole
<1>5. first \in [D -> Byte]
  <2> HIDE DEF first, bc
  <2> QED BY <1>1, <1>2, <1>3, <1>4
<1>6. first[bc + 1] = img[bc + 1]
  <2> HIDE DEF first, bc
  <2> QED BY <1>1, <1>4
<1>7. both = [first EXCEPT ![bc + 1] = IF c % 2 = 1 THEN whole ELSE high]
  <2> HIDE DEF first
  <2> QED BY <1>5, <1>6, <1>1 DEF PutSecond, high, whole
<1>8. both \in [D -> Byte]
  <2> HIDE DEF first, bc, both
  <2> QED BY <1>1, <1>3, <1>5, <1>7
<1>9. QED BY <1>4, <1>5, <1>7, <1>8 DEF low, high, whole

\* put_fat writes what get_fat returns, for the three widths.
LEMMA PutGet12 ==
  ASSUME NEW D, NEW img \in [D -> Byte], NEW c \in Nat, Span("FAT12", c) \subseteq D,
         NEW val \in Dword
  PROVE  LET both == PutSecond("FAT12", PutFirst("FAT12", img, c, val), c, val)
         IN get_fat("FAT12", both, c) = Stored("FAT12", val)
<1> DEFINE bc == EntryByte("FAT12", c)
           first == PutFirst("FAT12", img, c, val)
           both == PutSecond("FAT12", first, c, val)
<1>1. /\ first = [img EXCEPT ![bc] = IF c % 2 = 1 THEN (img[bc] % 16) + ((val[1] * 16) % 256)
                                                ELSE val[1]]
      /\ both = [first EXCEPT ![bc + 1] = IF c % 2 = 1 THEN (val[1] \div 16) + (val[2] % 16) * 16
                                          ELSE (img[bc + 1] \div 16) * 16 + (val[2] % 16)]
      /\ first \in [D -> Byte] /\ both \in [D -> Byte]
  BY Put12
<1>2. /\ bc \in Nat /\ bc \in D /\ bc + 1 \in D
      /\ c % 2 = 1 => get_fat("FAT12", both, c) = (both[bc] \div 16) + 16 * both[bc + 1]
      /\ c % 2 # 1 => get_fat("FAT12", both, c) = both[bc] + 256 * (both[bc + 1] % 16)
  <2>1. both \in [D -> Byte] BY <1>1
  <2> HIDE DEF both
  <2>2. bc \in Nat BY Bytes12
  <2> QED BY <2>1, <2>2, Get12
<1>3. val[1] \in Byte /\ val[2] \in Byte /\ img[bc] \in Byte /\ img[bc + 1] \in Byte
  BY <1>2 DEF Dword
<1>4. Stored("FAT12", val) = val[1] + 256 * (val[2] % 16)
  BY DEF Stored
<1> HIDE DEF bc, first, both
<1>5. CASE c % 2 = 1
  <2>1. /\ both[bc] = (img[bc] % 16) + ((val[1] * 16) % 256)
        /\ both[bc + 1] = (val[1] \div 16) + (val[2] % 16) * 16
    BY <1>1, <1>2, <1>5
  <2>2. both[bc] \div 16 = val[1] % 16
    BY <2>1, <1>3, LowHalf
  <2>4. (val[1] % 16) + 16 * ((val[1] \div 16) + (val[2] % 16) * 16) = val[1] + 256 * (val[2] % 16)
    <3> DEFINE v == val[1]
               w == val[2]
    <3>1. v \in Byte /\ w \in Byte BY <1>3
    <3> HIDE DEF v, w
    <3>2. (v % 16) + 16 * ((v \div 16) + (w % 16) * 16) = v + 256 * (w % 16)
      BY <3>1, Nibbles
    <3> QED BY <3>2 DEF v, w
  <2>5. get_fat("FAT12", both, c) = (val[1] % 16) + 16 * ((val[1] \div 16) + (val[2] % 16) * 16)
    BY <2>1, <2>2, <1>2, <1>5
  <2> QED BY <2>4, <2>5, <1>4 DEF both, first
<1>6. CASE c % 2 # 1
  <2>1. /\ both[bc] = val[1]
        /\ both[bc + 1] = (img[bc + 1] \div 16) * 16 + (val[2] % 16)
    BY <1>1, <1>2, <1>6
  <2>2. both[bc + 1] % 16 = val[2] % 16
    BY <2>1, <1>3, HighHalf
  <2> QED BY <2>1, <2>2, <1>2, <1>4, <1>6 DEF both, first
<1>7. QED BY <1>5, <1>6

\* The entries of two clusters that share no byte, or share one of which
\* put_fat keeps the half that is not its own.
LEMMA PutOther12 ==
  ASSUME NEW D, NEW img \in [D -> Byte], NEW c \in Nat, Span("FAT12", c) \subseteq D,
         NEW val \in Dword, NEW d \in Nat, d # c, Span("FAT12", d) \subseteq D
  PROVE  LET first == PutFirst("FAT12", img, c, val)
             both == PutSecond("FAT12", first, c, val)
         IN /\ get_fat("FAT12", first, d) = get_fat("FAT12", img, d)
            /\ get_fat("FAT12", both, d) = get_fat("FAT12", img, d)
<1> DEFINE bc == EntryByte("FAT12", c)
           bd == EntryByte("FAT12", d)
           k == c \div 2
           m == d \div 2
           first == PutFirst("FAT12", img, c, val)
           both == PutSecond("FAT12", first, c, val)
<1>0. /\ k \in Nat /\ m \in Nat /\ c # d
      /\ (c % 2 = 0 /\ c = 2 * k /\ bc = 3 * k) \/ (c % 2 = 1 /\ c = 2 * k + 1 /\ bc = 3 * k + 1)
      /\ (d % 2 = 0 /\ d = 2 * m /\ bd = 3 * m) \/ (d % 2 = 1 /\ d = 2 * m + 1 /\ bd = 3 * m + 1)
  BY Bytes12
<1>1. /\ first = [img EXCEPT ![bc] = IF c % 2 = 1 THEN (img[bc] % 16) + ((val[1] * 16) % 256)
                                                ELSE val[1]]
      /\ both = [first EXCEPT ![bc + 1] = IF c % 2 = 1 THEN (val[1] \div 16) + (val[2] % 16) * 16
                                          ELSE (img[bc + 1] \div 16) * 16 + (val[2] % 16)]
      /\ first \in [D -> Byte] /\ both \in [D -> Byte]
  BY Put12
<1>2. bc \in Nat /\ bc \in D /\ bc + 1 \in D /\ bd \in Nat /\ bd \in D /\ bd + 1 \in D
  BY Get12, Bytes12
<1>3. val[1] \in Byte /\ val[2] \in Byte /\ img[bc] \in Byte /\ img[bc + 1] \in Byte
  BY <1>2 DEF Dword
<1>4. ASSUME NEW f \in [D -> Byte], f \in {first, both}
      PROVE  get_fat("FAT12", f, d) = get_fat("FAT12", img, d)
  <2>1. /\ d % 2 = 1 => /\ get_fat("FAT12", f, d) = (f[bd] \div 16) + 16 * f[bd + 1]
                        /\ get_fat("FAT12", img, d) = (img[bd] \div 16) + 16 * img[bd + 1]
        /\ d % 2 # 1 => /\ get_fat("FAT12", f, d) = f[bd] + 256 * (f[bd + 1] % 16)
                        /\ get_fat("FAT12", img, d) = img[bd] + 256 * (img[bd + 1] % 16)
    BY Get12
  <2>2. \A b \in D : b # bc /\ b # bc + 1 => f[b] = img[b]
    <3> HIDE DEF first, both, bc
    <3> QED BY <1>1, <1>2, <1>4
  <2>3. CASE d % 2 = 1
    <3>1. bd + 1 # bc /\ bd + 1 # bc + 1 /\ bd # bc /\ (bd = bc + 1 => c % 2 # 1)
      <4> HIDE DEF bc, bd, k, m
      <4> QED BY <2>3, <1>0
    <3>2. f[bd + 1] = img[bd + 1]
      BY <3>1, <2>2, <1>2
    <3>3. f[bd] \div 16 = img[bd] \div 16
      <4>1. CASE bd # bc + 1
        BY <4>1, <3>1, <2>2, <1>2
      <4>2. CASE bd = bc + 1
        <5>1. f[bd] = img[bc + 1] \/ f[bd] = (img[bc + 1] \div 16) * 16 + (val[2] % 16)
          <6> HIDE DEF first, both, bc, bd
          <6> QED BY <4>2, <3>1, <1>1, <1>2, <1>4
        <5> HIDE DEF bc, bd
        <5>2. ((img[bc + 1] \div 16) * 16 + (val[2] % 16)) \div 16 = img[bc + 1] \div 16
          BY <1>3, HighHalf
        <5> QED BY <5>1, <5>2, <4>2
      <4> QED BY <4>1, <4>2
    <3> QED BY <3>2, <3>3, <2>1, <2>3
  <2>4. CASE d % 2 # 1
    <3>1. bd # bc /\ bd # bc + 1 /\ bd + 1 # bc + 1 /\ (bd + 1 = bc => c % 2 = 1)
      <4> HIDE DEF bc, bd, k, m
      <4> QED BY <2>4, <1>0
    <3>2. f[bd] = img[bd]
      BY <3>1, <2>2, <1>2
    <3>3. f[bd + 1] % 16 = img[bd + 1] % 16
      <4>1. CASE bd + 1 # bc
        BY <4>1, <3>1, <2>2, <1>2
      <4>2. CASE bd + 1 = bc
        <5>1. f[bc] = (img[bc] % 16) + ((val[1] * 16) % 256)
          <6> HIDE DEF first, both, bc, bd
          <6> QED BY <4>2, <3>1, <1>1, <1>2, <1>4
        <5> HIDE DEF bc, bd
        <5> QED BY <5>1, <4>2, <1>3, LowHalf
      <4> QED BY <4>1, <4>2
    <3> QED BY <3>2, <3>3, <2>1, <2>4
  <2> QED BY <2>3, <2>4
<1>5. QED BY <1>1, <1>4

\* Entries of 16 and 32 bits.
LEMMA Wide16 ==
  ASSUME NEW D, NEW img \in [D -> Byte], NEW c \in Nat, Span("FAT16", c) \subseteq D,
         NEW val \in Dword
  PROVE  LET first == PutFirst("FAT16", img, c, val)
         IN /\ first \in [D -> Byte]
            /\ PutSecond("FAT16", first, c, val) = first
            /\ get_fat("FAT16", first, c) = Stored("FAT16", val)
            /\ \A d \in Nat : d # c /\ Span("FAT16", d) \subseteq D =>
                 get_fat("FAT16", first, d) = get_fat("FAT16", img, d)
<1> DEFINE bc == EntryByte("FAT16", c)
           first == PutFirst("FAT16", img, c, val)
<1>1. bc = c * 2 /\ bc \in D /\ bc + 1 \in D
  BY DEF EntryByte, EntryBytes, Span
<1>2. first = [img EXCEPT ![bc] = val[1], ![bc + 1] = val[2]]
  BY DEF PutFirst
<1>3. val[1] \in Byte /\ val[2] \in Byte
  BY DEF Dword
<1>4. ASSUME NEW f, NEW d
      PROVE  get_fat("FAT16", f, d) = f[EntryByte("FAT16", d)] + 256 * f[EntryByte("FAT16", d) + 1]
  BY DEF get_fat
<1>5. PutSecond("FAT16", first, c, val) = first
  BY DEF PutSecond
<1>6. Stored("FAT16", val) = val[1] + 256 * val[2]
  BY DEF Stored
<1>7. first \in [D -> Byte]
  <2> HIDE DEF first, bc
  <2> QED BY <1>1, <1>2, <1>3
<1>8. get_fat("FAT16", first, c) = Stored("FAT16", val)
  <2>1. first[bc] = val[1] /\ first[bc + 1] = val[2]
    <3> HIDE DEF first, bc
    <3> QED BY <1>1, <1>2
  <2> HIDE DEF first
  <2> QED BY <2>1, <1>4, <1>6
<1>9. ASSUME NEW d \in Nat, d # c, Span("FAT16", d) \subseteq D
      PROVE  get_fat("FAT16", first, d) = get_fat("FAT16", img, d)
  <2> DEFINE bd == EntryByte("FAT16", d)
  <2>1. bd = d * 2 /\ bd \in D /\ bd + 1 \in D
    BY <1>9 DEF EntryByte, EntryBytes, Span
  <2>2. first[bd] = img[bd] /\ first[bd + 1] = img[bd + 1]
    <3> HIDE DEF first, bc, bd
    <3> QED BY <1>1, <1>2, <1>9, <2>1
  <2> HIDE DEF first
  <2> QED BY <2>2, <1>4
<1>10. QED BY <1>5, <1>7, <1>8, <1>9

\* The same for 32-bit entries, whose top four bits put_fat keeps.
LEMMA Wide32 ==
  ASSUME NEW D, NEW img \in [D -> Byte], NEW c \in Nat, Span("FAT32", c) \subseteq D,
         NEW val \in Dword
  PROVE  LET first == PutFirst("FAT32", img, c, val)
         IN /\ first \in [D -> Byte]
            /\ PutSecond("FAT32", first, c, val) = first
            /\ get_fat("FAT32", first, c) = Stored("FAT32", val)
            /\ \A d \in Nat : d # c /\ Span("FAT32", d) \subseteq D =>
                 get_fat("FAT32", first, d) = get_fat("FAT32", img, d)
<1> DEFINE bc == EntryByte("FAT32", c)
           first == PutFirst("FAT32", img, c, val)
           top == (val[4] % 16) + (img[bc + 3] \div 16) * 16
<1>1. bc = c * 4 /\ bc \in D /\ bc + 1 \in D /\ bc + 2 \in D /\ bc + 3 \in D
  BY DEF EntryByte, EntryBytes, Span
<1>3. val[1] \in Byte /\ val[2] \in Byte /\ val[3] \in Byte /\ val[4] \in Byte /\ img[bc + 3] \in Byte
  BY <1>1 DEF Dword
<1>0. top \in Byte /\ top % 16 = val[4] % 16
  <2>1. top = (img[bc + 3] \div 16) * 16 + (val[4] % 16)
    <3> HIDE DEF bc
    <3> QED BY <1>3 DEF Byte
  <2> HIDE DEF top, bc
  <2> QED BY <2>1, <1>3, HighHalf
<1>2. first = [img EXCEPT ![bc] = val[1], ![bc + 1] = val[2], ![bc + 2] = val[3], ![bc + 3] = top]
  <2>1. first = [img EXCEPT ![bc] = val[1], ![bc + 1] = val[2], ![bc + 2] = val[3],
                            ![bc + 3] = (val[4] % 16) + (@ \div 16) * 16]
    BY DEF PutFirst
  <2> HIDE DEF first, bc
  <2> QED BY <2>1, <1>1
<1> HIDE DEF top
<1>4. ASSUME NEW f, NEW d
      PROVE  LET b == EntryByte("FAT32", d)
             IN get_fat("FAT32", f, d) =
                  f[b] + 256 * f[b + 1] + 65536 * (f[b + 2] + 256 * (f[b + 3] % 16))
  BY DEF get_fat
<1>5. PutSecond("FAT32", first, c, val) = first
  BY DEF PutSecond
<1>6. Stored("FAT32", val) = val[1] + 256 * val[2] + 65536 * (val[3] + 256 * (val[4] % 16))
  BY DEF Stored
<1>7. first \in [D -> Byte]
  <2> HIDE DEF first, bc
  <2> QED BY <1>0, <1>1, <1>2, <1>3
<1>8. get_fat("FAT32", first, c) = Stored("FAT32", val)
  <2>1. first[bc] = val[1] /\ first[bc + 1] = val[2] /\ first[bc + 2] = val[3] /\ first[bc + 3] = top
    <3> HIDE DEF first, bc
    <3> QED BY <1>1, <1>2
  <2> HIDE DEF first
  <2> QED BY <2>1, <1>0, <1>4, <1>6
<1>9. ASSUME NEW d \in Nat, d # c, Span("FAT32", d) \subseteq D
      PROVE  get_fat("FAT32", first, d) = get_fat("FAT32", img, d)
  <2> DEFINE bd == EntryByte("FAT32", d)
  <2>1. bd = d * 4 /\ bd \in D /\ bd + 1 \in D /\ bd + 2 \in D /\ bd + 3 \in D
    BY <1>9 DEF EntryByte, EntryBytes, Span
  <2>2. /\ first[bd] = img[bd] /\ first[bd + 1] = img[bd + 1]
        /\ first[bd + 2] = img[bd + 2] /\ first[bd + 3] = img[bd + 3]
    <3> HIDE DEF first, bc, bd
    <3> QED BY <1>1, <1>2, <1>9, <2>1
  <2> HIDE DEF first
  <2> QED BY <2>2, <1>4
<1>10. QED BY <1>5, <1>7, <1>8, <1>9

\* The first half of put_fat leaves a FAT.
LEMMA PutFirstType ==
  ASSUME NEW type \in Types, NEW D, NEW img \in [D -> Byte], NEW c \in Nat,
         Span(type, c) \subseteq D, NEW val \in Dword
  PROVE  LET first == PutFirst(type, img, c, val)
         IN first \in [D -> Byte] /\ PutSecond(type, first, c, val) \in [D -> Byte]
<1>1. CASE type = "FAT12" BY <1>1, Put12
<1>2. CASE type = "FAT16" BY <1>2, Wide16
<1>3. CASE type = "FAT32" BY <1>3, Wide32
<1>4. QED BY <1>1, <1>2, <1>3 DEF Types

\* get_fat returns what put_fat was given, up to the width of the entry, for
\* every FAT type, cluster and contents of the FAT.
THEOREM PutGet ==
  ASSUME NEW type \in Types, NEW D, NEW img \in [D -> Byte], NEW c \in Nat,
         Span(type, c) \subseteq D, NEW val \in Dword
  PROVE  LET both == PutSecond(type, PutFirst(type, img, c, val), c, val)
         IN get_fat(type, both, c) = Stored(type, val)
<1>1. CASE type = "FAT12" BY <1>1, PutGet12
<1>2. CASE type = "FAT16" BY <1>2, Wide16
<1>3. CASE type = "FAT32" BY <1>3, Wide32
<1>4. QED BY <1>1, <1>2, <1>3 DEF Types

\* put_fat leaves the entry of every other cluster as it is, also after the first
\* of the two halves it writes a 12-bit entry in.
THEOREM PutOther ==
  ASSUME NEW type \in Types, NEW D, NEW img \in [D -> Byte], NEW c \in Nat,
         Span(type, c) \subseteq D, NEW val \in Dword,
         NEW d \in Nat, d # c, Span(type, d) \subseteq D
  PROVE  LET first == PutFirst(type, img, c, val)
             both == PutSecond(type, first, c, val)
         IN /\ get_fat(type, first, d) = get_fat(type, img, d)
            /\ get_fat(type, both, d) = get_fat(type, img, d)
<1>1. CASE type = "FAT12" BY <1>1, PutOther12
<1>2. CASE type = "FAT16" BY <1>2, Wide16
<1>3. CASE type = "FAT32" BY <1>3, Wide32
<1>4. QED BY <1>1, <1>2, <1>3 DEF Types

-------------------------------------------------------------------------------
(* Which FATFS objects are mounted, and which objects belong to them        *)

\* At most the registered FATFS is mounted, an open object is tied to a FATFS,
\* and the counters are numbers.
Objects ==
  /\ FatFs \in Fs \cup {Null}
  /\ fs = [g \in Fs |-> fs[g]]
  /\ \A g \in Fs : g # FatFs => fs[g] = Unmounted
  /\ Mounted => fs[FatFs].id \in Nat
  /\ obj # Null => obj \in [fs : Fs, id : Nat, fresh : BOOLEAN]
  /\ Fsid \in Nat /\ formats \in Nat /\ mounts \in Nat /\ puts \in Nat

\* Every mount uses up an f_mount or an f_mkfs, so that the mount counter stays
\* below the number of calls.
Counted ==
  /\ formats + mounts <= MaxCalls
  /\ Fsid + (IF FatFs # Null /\ ~Mounted THEN 1 ELSE 0) <= formats + mounts

\* A stale object has an ID below the one of the current mount.
Older ==
  /\ Mounted => fs[FatFs].id <= Fsid
  /\ obj # Null => obj.id <= Fsid
  /\ obj # Null /\ ~obj.fresh /\ fs[obj.fs].fs_type # "none" => obj.id < fs[obj.fs].id

MountInv == Objects /\ Counted /\ Older

\* The mount counter does not wrap around.
NoWrap == MaxCalls < FsidMod

\* The geometry of a boot sector has one of the three FAT types.
LEMMA GeometryType ==
  ASSUME NEW s
  PROVE  Geometry(s).fs_type \in Types
BY DEF Geometry, Types

\* Before the first call nothing is registered and no object is open.
LEMMA MountInit == Init => MountInv
<1> SUFFICES ASSUME Init PROVE MountInv
  OBVIOUS
<1> USE DEF Init
<1>1. Objects
  BY DEF Objects, Mounted
<1>2. Counted
  BY Kinds DEF Counted
<1>3. Older
  BY DEF Older, Mounted
<1>4. QED BY <1>1, <1>2, <1>3 DEF MountInv

\* The steps of f_mkfs after its start, and of put_fat, leave the objects alone.
LEMMA MountKept ==
  ASSUME UNCHANGED <<FatFs, fs, Fsid, obj, formats, mounts>>, puts \in Nat => puts' \in Nat
  PROVE  (Objects => Objects') /\ (MountInv => MountInv')
BY DEF MountInv, Objects, Counted, Older, Mounted

\* What mount_volume may do: nothing but set what f_mount prepared, or mount the
\* volume under the next ID.
LEMMA MountVolume ==
  ASSUME NEW f \in Fs, NEW reg, reg = [g \in Fs |-> reg[g]], mount_volume(f, reg)
  PROVE  \/ /\ fs' = reg /\ Fsid' = Fsid /\ fat' = fat
            /\ reg[f].fs_type # "none" \/ ret' # "ok"
         \/ /\ reg[f].fs_type = "none" /\ Fsid' = (Fsid + 1) % FsidMod /\ ret' = "ok"
            /\ fs' = [g \in Fs |-> fs'[g]]
            /\ \A g \in Fs : g # f => fs'[g] = reg[g]
            /\ fs'[f].id = Fsid' /\ fs'[f].fs_type \in Types
            /\ \E s \in find_volume :
                 /\ fs'[f].fs_type = Geometry(s).fs_type /\ fs'[f].n_fatent = Geometry(s).n_fatent
                 /\ fat' = IF fats = Null THEN Null ELSE CleanFat(Geometry(s))
<1>1. CASE fs' = reg /\ UNCHANGED <<Fsid, fat>> /\ (reg[f].fs_type # "none" \/ ret' \in {"disk_err", "no_filesystem"})
  BY <1>1
<1>2. CASE /\ reg[f].fs_type = "none"
           /\ Fsid' = (Fsid + 1) % FsidMod
           /\ \E s \in find_volume, info \in {TRUE, ~MayFail} :
                LET g == Geometry(s)
                    free == IF g.fs_type = "FAT32" /\ info THEN fsinfo[s + 1] ELSE Null
                IN /\ Accepted(s, g)
                   /\ fs' = [reg EXCEPT ![f] = [g EXCEPT !.free_clst = free, !.id = Fsid']]
                   /\ fat' = IF fats = Null THEN Null ELSE CleanFat(g)
           /\ ret' = "ok"
  <2>1. PICK s \in find_volume, info \in {TRUE, ~MayFail} :
          LET g == Geometry(s)
              free == IF g.fs_type = "FAT32" /\ info THEN fsinfo[s + 1] ELSE Null
          IN /\ Accepted(s, g)
             /\ fs' = [reg EXCEPT ![f] = [g EXCEPT !.free_clst = free, !.id = Fsid']]
             /\ fat' = IF fats = Null THEN Null ELSE CleanFat(g)
    BY <1>2
  <2> DEFINE g == Geometry(s)
             free == IF g.fs_type = "FAT32" /\ info THEN fsinfo[s + 1] ELSE Null
             h == [g EXCEPT !.free_clst = free, !.id = Fsid']
  <2>2. h.id = Fsid' /\ h.fs_type = g.fs_type /\ h.n_fatent = g.n_fatent
    BY DEF Geometry
  <2>3. g.fs_type \in Types
    BY GeometryType
  <2>4. fs' = [reg EXCEPT ![f] = h] /\ fat' = IF fats = Null THEN Null ELSE CleanFat(g)
    BY <2>1
  <2> HIDE DEF g, h
  <2>5. /\ fs'[f] = h /\ fs' = [k \in Fs |-> fs'[k]]
        /\ \A k \in Fs : k # f => fs'[k] = reg[k]
    BY <2>4
  <2>6. /\ fs'[f].fs_type = Geometry(s).fs_type /\ fs'[f].n_fatent = Geometry(s).n_fatent
        /\ fat' = IF fats = Null THEN Null ELSE CleanFat(Geometry(s))
    BY <2>2, <2>4, <2>5 DEF g
  <2> QED BY <1>2, <2>2, <2>3, <2>5, <2>6
<1>3. QED BY <1>1, <1>2 DEF mount_volume

\* The steps that touch the objects, and the others.
LEMMA NextSteps ==
  ASSUME [Next]_vars
  PROVE  \/ \E o \in Opt : f_mkfs(o)
         \/ \E f \in Fs \cup {Null}, opt \in 0 .. 1 : f_mount(f, opt)
         \/ \E opens \in BOOLEAN : Call(opens)
         \/ UNCHANGED <<FatFs, fs, Fsid, obj, formats, mounts>> /\ (puts \in Nat => puts' \in Nat)
<1>1. CASE MkfsSize \/ MkfsVbr \/ MkfsFats \/ MkfsRoot \/ MkfsMbr \/ MkfsRefused \/ put_fat_rest
  BY <1>1 DEF MkfsSize, MkfsVbr, MkfsFats, MkfsRoot, MkfsMbr, MkfsRefused, put_fat_rest, Quiet, mvars
<1>2. ASSUME NEW c, NEW val, put_fat(c, val)
      PROVE  UNCHANGED <<FatFs, fs, Fsid, obj, formats, mounts>> /\ puts' = puts + 1
  BY <1>2 DEF put_fat
<1>3. CASE UNCHANGED vars
  BY <1>3 DEF vars, mvars
<1>4. QED BY <1>1, <1>2, <1>3 DEF Next, Step

\* No call leaves a FATFS mounted that is not the registered one.
LEMMA ObjectsNext ==
  ASSUME Objects, [Next]_vars
  PROVE  Objects'
<1>0. Null \notin Fs /\ Unmounted.fs_type = "none"
  BY Kinds DEF Unmounted
<1>1. ASSUME NEW o \in Opt, f_mkfs(o) PROVE Objects'
  <2>1. /\ FatFs' = FatFs /\ mounts' = mounts /\ formats' = formats + 1 /\ puts' = puts /\ Fsid' = Fsid
        /\ fs' = IF FatFs = Null THEN fs ELSE [fs EXCEPT ![FatFs] = Unmounted]
        /\ obj' = IF obj = Null THEN Null ELSE [obj EXCEPT !.fresh = FALSE]
    BY <1>1 DEF f_mkfs, Quiet
  <2>2. fs' = [g \in Fs |-> fs'[g]] /\ \A g \in Fs : fs'[g] = Unmounted
    BY <1>0, <2>1 DEF Objects
  <2>3. ~Mounted'
    BY <1>0, <2>1, <2>2 DEF Mounted, Objects
  <2>4. obj' # Null => obj' \in [fs : Fs, id : Nat, fresh : BOOLEAN]
    BY <2>1 DEF Objects
  <2>5. /\ FatFs' \in Fs \cup {Null} /\ Fsid' \in Nat /\ formats' \in Nat /\ mounts' \in Nat
        /\ puts' \in Nat
    BY <2>1 DEF Objects
  <2> QED BY <2>2, <2>3, <2>4, <2>5 DEF Objects
<1>2. ASSUME NEW f \in Fs \cup {Null}, NEW opt \in 0 .. 1, f_mount(f, opt) PROVE Objects'
  <2> DEFINE reg == Registered(f)
  <2>1. /\ FatFs' = f /\ mounts' = mounts + 1 /\ formats' = formats /\ puts' = puts
        /\ obj' = Forgotten(obj)
    BY <1>2 DEF f_mount
  <2>2. reg = [g \in Fs |-> reg[g]] /\ \A g \in Fs : reg[g] = Unmounted
    BY DEF Registered, Objects
  <2>3. obj' # Null => obj' \in [fs : Fs, id : Nat, fresh : BOOLEAN]
    BY <2>1 DEF Forgotten, Objects
  <2>4. CASE fs' = reg /\ Fsid' = Fsid
    <3>1. fs' = [g \in Fs |-> fs'[g]] /\ \A g \in Fs : fs'[g] = Unmounted
      BY <2>2, <2>4
    <3>2. ~Mounted'
      BY <1>0, <2>1, <3>1 DEF Mounted
    <3> QED BY <2>1, <2>3, <2>4, <3>1, <3>2 DEF Objects
  <2>5. CASE opt = 1 /\ f # Null /\ mount_volume(f, Registered(f))
    <3>1. f \in Fs /\ mount_volume(f, reg)
      BY <2>5
    <3>2. CASE /\ Fsid' = (Fsid + 1) % FsidMod
               /\ fs' = [g \in Fs |-> fs'[g]] /\ \A g \in Fs : g # f => fs'[g] = reg[g]
               /\ fs'[f].id = Fsid'
      <4>1. Fsid' \in Nat
        BY <3>2 DEF Objects, FsidMod
      <4> HIDE DEF reg
      <4> QED BY <2>1, <2>2, <2>3, <3>1, <3>2, <4>1 DEF Objects
    <3> HIDE DEF reg
    <3> QED BY <2>2, <2>4, <3>1, <3>2, MountVolume
  <2>6. (fs' = reg /\ Fsid' = Fsid) \/ (opt = 1 /\ f # Null /\ mount_volume(f, Registered(f)))
    BY <1>2 DEF f_mount
  <2> QED BY <2>4, <2>5, <2>6
<1>3. ASSUME NEW opens \in BOOLEAN, Call(opens) PROVE Objects'
  <2>1. /\ FatFs' = FatFs /\ mounts' = mounts /\ formats' = formats /\ puts' = puts
        /\ obj' = IF ~opens THEN obj
                  ELSE IF ret' # "ok" THEN Null
                  ELSE [fs |-> FatFs, id |-> fs'[FatFs].id, fresh |-> TRUE]
        /\ \/ FatFs = Null /\ ret' = "not_enabled" /\ UNCHANGED <<fs, Fsid, fat>>
           \/ FatFs # Null /\ mount_volume(FatFs, fs)
    BY <1>3 DEF Call
  <2>2. CASE fs' = fs /\ Fsid' = Fsid /\ (ret' = "ok" => Mounted)
    BY <2>1, <2>2 DEF Objects, Mounted
  <2>3. CASE FatFs # Null
    <3>1. FatFs \in Fs /\ fs = [g \in Fs |-> fs[g]] /\ mount_volume(FatFs, fs)
      BY <2>1, <2>3 DEF Objects
    <3>2. CASE /\ Fsid' = (Fsid + 1) % FsidMod
               /\ fs' = [g \in Fs |-> fs'[g]] /\ \A g \in Fs : g # FatFs => fs'[g] = fs[g]
               /\ fs'[FatFs].id = Fsid'
      <4>1. Fsid' \in Nat
        BY <3>2 DEF Objects, FsidMod
      <4> QED BY <2>1, <3>1, <3>2, <4>1 DEF Objects
    <3>3. CASE fs' = fs /\ Fsid' = Fsid /\ (fs[FatFs].fs_type # "none" \/ ret' # "ok")
      BY <2>2, <2>3, <3>3 DEF Mounted
    <3> QED BY <3>1, <3>2, <3>3, MountVolume
  <2>4. CASE FatFs = Null
    BY <2>1, <2>2, <2>4
  <2> QED BY <2>3, <2>4
<1>4. QED BY <1>1, <1>2, <1>3, MountKept, NextSteps

\* f_mount unregisters, and mounts under an ID that no object has yet.
LEMMA MountByMount ==
  ASSUME MountInv, NoWrap, Objects', NEW f \in Fs \cup {Null}, NEW opt \in 0 .. 1, f_mount(f, opt)
  PROVE  MountInv'
<1> DEFINE reg == Registered(f)
<1>1. /\ FatFs' = f /\ mounts' = mounts + 1 /\ formats' = formats /\ puts' = puts
      /\ formats + mounts + puts < MaxCalls
      /\ obj' = Forgotten(obj)
  BY DEF f_mount, MoreCalls
<1>2. /\ reg = [g \in Fs |-> reg[g]]
      /\ \A g \in Fs : reg[g] = Unmounted
  BY DEF Registered, MountInv, Objects
<1>3. Unmounted.fs_type = "none"
  BY DEF Unmounted
<1>4. Null \notin Fs /\ MaxCalls \in Nat
  BY Kinds
<1>5. /\ Fsid \in Nat /\ mounts \in Nat /\ formats \in Nat /\ puts \in Nat
      /\ Fsid <= formats + mounts
  BY DEF MountInv, Objects, Counted
<1>6. Fsid + 1 < FsidMod /\ (Fsid + 1) % FsidMod = Fsid + 1
  BY <1>1, <1>4, <1>5 DEF NoWrap, FsidMod
<1>7. /\ obj' # Null => /\ obj' \in [fs : Fs, id : Nat, fresh : BOOLEAN]
                        /\ ~obj'.fresh /\ obj'.id <= Fsid
  BY <1>1 DEF Forgotten, MountInv, Objects, Older
<1>8. CASE fs' = reg /\ Fsid' = Fsid
  <2>1. \A g \in Fs : fs'[g] = Unmounted
    BY <1>2, <1>8
  <2>3. ~Mounted'
    BY <1>1, <1>3, <2>1 DEF Mounted
  <2> HIDE DEF reg
  <2>5. Counted'
    BY <1>1, <1>4, <1>5, <1>8 DEF Counted
  <2>6. Older'
    BY <1>3, <1>7, <1>8, <2>1, <2>3 DEF Older
  <2> QED BY <2>5, <2>6 DEF MountInv
<1>9. CASE /\ f \in Fs /\ Fsid' = Fsid + 1
           /\ fs' = [g \in Fs |-> fs'[g]] /\ \A g \in Fs : g # f => fs'[g] = reg[g]
           /\ fs'[f].id = Fsid' /\ fs'[f].fs_type \in Types
  <2> HIDE DEF reg
  <2>1. \A g \in Fs : g # f => fs'[g] = Unmounted
    BY <1>2, <1>9
  <2>2. Mounted'
    BY <1>1, <1>4, <1>9 DEF Mounted, Types
  <2>4. Counted'
    BY <1>1, <1>4, <1>5, <1>9, <2>2 DEF Counted
  <2>5. Older'
    <3>1. obj' # Null => obj'.id < Fsid' /\ obj'.fs \in Fs /\ obj'.id \in Nat
      BY <1>5, <1>7, <1>9
    <3>2. \A g \in Fs : fs'[g].fs_type # "none" => fs'[g].id = Fsid'
      BY <1>3, <1>9, <2>1
    <3> QED BY <1>1, <1>5, <1>9, <3>1, <3>2 DEF Older
  <2> QED BY <2>4, <2>5 DEF MountInv
<1>10. CASE opt = 1 /\ f # Null /\ mount_volume(f, Registered(f))
  <2>1. f \in Fs
    BY <1>10
  <2> QED BY <1>2, <1>3, <1>6, <1>8, <1>9, <1>10, <2>1, MountVolume
<1>11. QED BY <1>8, <1>10 DEF f_mount

\* A function that is given a path mounts the registered FATFS if that is not
\* mounted, and ties the object it opens to the mount.
LEMMA MountByCall ==
  ASSUME MountInv, NoWrap, Objects', NEW opens \in BOOLEAN, Call(opens)
  PROVE  MountInv'
<1>1. /\ FatFs' = FatFs /\ mounts' = mounts /\ formats' = formats /\ puts' = puts
      /\ obj' = IF ~opens THEN obj
                ELSE IF ret' # "ok" THEN Null
                ELSE [fs |-> FatFs, id |-> fs'[FatFs].id, fresh |-> TRUE]
      /\ \/ FatFs = Null /\ ret' = "not_enabled" /\ UNCHANGED <<fs, Fsid, fat>>
         \/ FatFs # Null /\ mount_volume(FatFs, fs)
  BY DEF Call
<1>2. MaxCalls \in Nat /\ Null \notin Fs /\ Unmounted.fs_type = "none"
  BY Kinds DEF Unmounted
<1>3. CASE /\ fs' = fs /\ Fsid' = Fsid
           /\ obj' # obj => Mounted \/ obj' = Null
  <2>1. CASE obj' = obj
    BY <1>1, <1>3, <2>1, MountKept DEF MountInv, Objects
  <2>2. CASE obj' = Null
    BY <1>1, <1>3, <2>2 DEF MountInv, Objects, Counted, Older, Mounted
  <2>3. CASE Mounted /\ obj' = [fs |-> FatFs, id |-> fs[FatFs].id, fresh |-> TRUE]
    <3>1. FatFs \in Fs /\ fs[FatFs].id \in Nat /\ fs[FatFs].id <= Fsid
      BY <2>3 DEF MountInv, Objects, Older, Mounted
    <3>3. Counted'
      BY <1>1, <1>3 DEF MountInv, Counted, Mounted
    <3>4. Older'
      BY <1>1, <1>3, <2>3, <3>1 DEF MountInv, Older, Mounted
    <3> QED BY <3>3, <3>4 DEF MountInv
  <2> QED BY <1>1, <1>3, <2>1, <2>2, <2>3
<1>4. CASE /\ FatFs \in Fs /\ fs[FatFs].fs_type = "none" /\ Fsid' = (Fsid + 1) % FsidMod /\ ret' = "ok"
           /\ fs' = [g \in Fs |-> fs'[g]] /\ \A g \in Fs : g # FatFs => fs'[g] = fs[g]
           /\ fs'[FatFs].id = Fsid' /\ fs'[FatFs].fs_type \in Types
  <2>1. ~Mounted /\ Mounted'
    BY <1>1, <1>2, <1>4 DEF Mounted, Types
  <2>2. /\ Fsid \in Nat /\ mounts \in Nat /\ formats \in Nat /\ puts \in Nat
        /\ Fsid + 1 <= formats + mounts /\ formats + mounts <= MaxCalls
    BY <1>2, <1>4, <2>1 DEF MountInv, Objects, Counted
  <2>3. Fsid' = Fsid + 1
    BY <1>2, <1>4, <2>2 DEF NoWrap, FsidMod
  <2>4. \A g \in Fs : g # FatFs => fs'[g] = Unmounted
    BY <1>4 DEF MountInv, Objects
  <2>5. obj' # Null => /\ obj' \in [fs : Fs, id : Nat, fresh : BOOLEAN]
                       /\ obj'.id <= Fsid \/ (obj'.fresh /\ obj'.id = Fsid')
    BY <1>1, <1>4, <2>2, <2>3 DEF MountInv, Objects, Older
  <2>7. Counted'
    BY <1>1, <2>1, <2>2, <2>3 DEF Counted
  <2>8. Older'
    <3>1. \A g \in Fs : fs'[g].fs_type # "none" => fs'[g].id = Fsid'
      BY <1>2, <1>4, <2>4
    <3>2. obj' # Null => obj'.fs \in Fs /\ obj'.id \in Nat
      BY <2>5
    <3> QED BY <1>1, <1>4, <2>2, <2>3, <2>5, <3>1, <3>2 DEF Older
  <2> QED BY <2>7, <2>8 DEF MountInv
<1>5. CASE FatFs = Null
  BY <1>1, <1>3, <1>5 DEF MountInv, Objects, mount_volume
<1>6. CASE FatFs # Null
  <2>1. FatFs \in Fs /\ fs = [g \in Fs |-> fs[g]] /\ mount_volume(FatFs, fs)
    BY <1>1, <1>6 DEF MountInv, Objects
  <2>2. CASE fs' = fs /\ Fsid' = Fsid /\ (fs[FatFs].fs_type # "none" \/ ret' # "ok")
    BY <1>1, <1>3, <1>6, <2>2 DEF Mounted
  <2>3. QED BY <1>4, <2>1, <2>2, MountVolume
<1>7. QED BY <1>5, <1>6

\* f_mkfs unmounts the registered FATFS and makes every object stale.
LEMMA MountByFormat ==
  ASSUME MountInv, Objects', NEW o \in Opt, f_mkfs(o)
  PROVE  MountInv'
<1>1. /\ FatFs' = FatFs /\ mounts' = mounts /\ formats' = formats + 1 /\ puts' = puts
      /\ formats + mounts + puts < MaxCalls /\ Fsid' = Fsid
      /\ fs' = IF FatFs = Null THEN fs ELSE [fs EXCEPT ![FatFs] = Unmounted]
      /\ obj' = IF obj = Null THEN Null ELSE [obj EXCEPT !.fresh = FALSE]
  BY DEF f_mkfs, MoreCalls, Quiet
<1>2. MaxCalls \in Nat /\ Null \notin Fs /\ Unmounted.fs_type = "none"
  BY Kinds DEF Unmounted
<1>3. fs' = [g \in Fs |-> fs'[g]] /\ \A g \in Fs : fs'[g] = Unmounted
  BY <1>1, <1>2 DEF MountInv, Objects
<1>4. ~Mounted'
  BY <1>1, <1>2, <1>3 DEF Mounted, MountInv, Objects
<1>5. obj' # Null => obj' \in [fs : Fs, id : Nat, fresh : BOOLEAN] /\ obj'.id <= Fsid
  BY <1>1 DEF MountInv, Objects, Older
<1>7. Counted'
  BY <1>1, <1>2, <1>4 DEF MountInv, Objects, Counted
<1>8. Older'
  BY <1>1, <1>2, <1>3, <1>4, <1>5 DEF Older
<1>9. QED BY <1>7, <1>8 DEF MountInv

\* No call lets a stale object have the ID of the current mount.
LEMMA MountNext ==
  ASSUME MountInv, NoWrap, [Next]_vars
  PROVE  MountInv'
<1>0. Objects'
  BY ObjectsNext DEF MountInv
<1>1. ASSUME NEW o \in Opt, f_mkfs(o) PROVE MountInv'
  BY <1>0, <1>1, MountByFormat
<1>2. CASE UNCHANGED <<FatFs, fs, Fsid, obj, formats, mounts>> /\ (puts \in Nat => puts' \in Nat)
  BY <1>2, MountKept
<1>3. ASSUME NEW f \in Fs \cup {Null}, NEW opt \in 0 .. 1, f_mount(f, opt) PROVE MountInv'
  BY <1>0, <1>3, MountByMount
<1>4. ASSUME NEW opens \in BOOLEAN, Call(opens) PROVE MountInv'
  BY <1>0, <1>4, MountByCall
<1>5. QED BY <1>1, <1>2, <1>3, <1>4, NextSteps

\* validate refuses every object from before the last f_mount or f_mkfs, on any
\* number of FATFS objects and whatever fails, as long as there are fewer calls
\* than values of the 16-bit mount counter.
THEOREM VolumeStaleRefused == NoWrap => (Spec => []StaleRefused)
<1> SUFFICES ASSUME NoWrap PROVE Spec => []StaleRefused
  OBVIOUS
<1>1. MountInv => StaleRefused
  <2> SUFFICES ASSUME MountInv, validate(obj) PROVE obj.fresh
    BY DEF StaleRefused
  <2>1. obj # Null /\ fs[obj.fs].fs_type # "none" /\ obj.id = fs[obj.fs].id
    BY DEF validate
  <2>2. obj \in [fs : Fs, id : Nat, fresh : BOOLEAN]
    BY <2>1 DEF MountInv, Objects
  <2>3. ~obj.fresh => obj.id < fs[obj.fs].id
    BY <2>1 DEF MountInv, Older
  <2> QED BY <2>1, <2>2, <2>3
<1>2. MountInv /\ [Next]_vars => MountInv'
  BY MountNext
<1>3. QED BY <1>1, <1>2, MountInit, PTL DEF Spec

-------------------------------------------------------------------------------
(* The FAT of the mounted volume                                            *)

\* Bytes of the entries that are looked at.
FatDomain(g) == UNION {Span(g.fs_type, c) : c \in Probe(g)}

\* The first half of put_fat is done.
HalfPut ==
  \E f \in [FatDomain(fs[FatFs]) -> Byte] :
    fat = PutFirst(fs[FatFs].fs_type, f, put.clst, put.val)

\* The FAT of a mounted volume has the entries of its clusters, is as f_mkfs left
\* it until put_fat is called, and is half changed when put_fat is half done.
FatInv ==
  /\ pc \notin {"idle", "put"} => fat = Null
  /\ Mounted => fs[FatFs].fs_type \in Types
  /\ Mounted /\ fat # Null => fat \in [FatDomain(fs[FatFs]) -> Byte]
  /\ puts = 0 /\ fat # Null => \E s \in find_volume : fat = CleanFat(Geometry(s))
  /\ pc # "put" => put = Null
  /\ pc = "put" => /\ Mounted /\ puts # 0 /\ put.clst \in Probe(fs[FatFs]) /\ put.val \in Links
                    /\ HalfPut

\* A volume is found in one place.
LEMMA OneVolume == \A s, t \in find_volume : s = t
BY DEF find_volume

\* The clusters that are looked at have their whole entry in the FAT.
LEMMA ProbeClusters ==
  ASSUME NEW g, NEW c \in Probe(g)
  PROVE  c \in Nat /\ Span(g.fs_type, c) \subseteq FatDomain(g)
<1>1. c \in 2 .. g.n_fatent - 1
  BY DEF Probe
<1>2. c \in Nat
  BY <1>1
<1>3. Span(g.fs_type, c) \subseteq FatDomain(g)
  BY DEF FatDomain
<1>4. QED BY <1>2, <1>3

\* The values put are DWORDs.
LEMMA LinksType == Links \subseteq Dword
BY DEF Links, Dword, Byte

\* The FAT f_mkfs leaves has all the entries of the geometry mounted from it.
LEMMA CleanFatType ==
  ASSUME NEW g, NEW h, h.fs_type = g.fs_type, h.n_fatent = g.n_fatent
  PROVE  CleanFat(g) \in [FatDomain(h) -> Byte]
<1>1. Probe(h) = Probe(g)
  BY DEF Probe
<1>2. FatDomain(h) = UNION {EntryByte(g.fs_type, c) .. EntryByte(g.fs_type, c)
                            + EntryBytes(g.fs_type) - 1 : c \in Probe(g)}
  BY <1>1 DEF FatDomain, Span
<1>3. QED BY <1>2 DEF CleanFat, Byte

\* Before the first call there is no FAT.
LEMMA FatInit == Init => FatInv
BY DEF Init, FatInv, Mounted

\* The boot sectors decide where a volume is found and what its geometry is.
LEMMA BootKept ==
  ASSUME UNCHANGED boot
  PROVE  /\ find_volume' = find_volume
         /\ \A s : Geometry(s)' = Geometry(s)
<1>1. ASSUME NEW s PROVE Geometry(s)' = Geometry(s)
  <2>1. boot'[s] = boot[s]
    OBVIOUS
  <2> QED BY ZenonT(60), <2>1 DEF Geometry
<1>2. find_volume' = find_volume
  BY DEF find_volume
<1>3. QED BY <1>1, <1>2

\* Steps that leave the mounted volume and its FAT alone, on an idle volume or
\* while f_mkfs runs.
LEMMA FatKept ==
  ASSUME FatInv, UNCHANGED <<FatFs, fs, fat, put, puts>>, pc' # "put", pc # "put",
         fat # Null => pc' = "idle" /\ UNCHANGED boot
  PROVE  FatInv'
<1>1. puts = 0 /\ fat # Null => \E s \in find_volume' : fat = CleanFat(Geometry(s)')
  BY BootKept DEF FatInv
<1>2. QED BY <1>1 DEF FatInv, Mounted

\* A mount that succeeds gives the volume a FAT as f_mkfs left it.
LEMMA FatMounted ==
  ASSUME NEW f \in Fs, FatFs' = f, UNCHANGED <<boot, put, pc>>, pc = "idle", FatInv,
         fs'[f].fs_type \in Types,
         \E s \in find_volume :
           /\ fs'[f].fs_type = Geometry(s).fs_type /\ fs'[f].n_fatent = Geometry(s).n_fatent
           /\ fat' = IF fats = Null THEN Null ELSE CleanFat(Geometry(s))
  PROVE  FatInv'
<1>1. PICK s \in find_volume :
        /\ fs'[f].fs_type = Geometry(s).fs_type /\ fs'[f].n_fatent = Geometry(s).n_fatent
        /\ fat' = IF fats = Null THEN Null ELSE CleanFat(Geometry(s))
  OBVIOUS
<1>2. fat' # Null => fat' \in [FatDomain(fs'[f]) -> Byte]
  BY <1>1, CleanFatType
<1>3. s \in find_volume' /\ Geometry(s)' = Geometry(s)
  BY BootKept
<1>4. fat' # Null => fat' = CleanFat(Geometry(s)')
  BY <1>1, <1>3
<1>5. QED BY <1>2, <1>3, <1>4 DEF FatInv

\* No call leaves a FAT that does not fit the mounted volume.
LEMMA FatNext ==
  ASSUME Objects, Objects', FatInv, [Next]_vars
  PROVE  FatInv'
<1>0. Null \notin Fs /\ Unmounted.fs_type = "none"
  BY Kinds DEF Unmounted
<1>1. ASSUME NEW o \in Opt, f_mkfs(o) PROVE FatInv'
  <2>1. /\ pc = "idle" /\ pc' \in {"idle", "size"} /\ fat' = Null /\ put' = put /\ FatFs' = FatFs
        /\ fs' = IF FatFs = Null THEN fs ELSE [fs EXCEPT ![FatFs] = Unmounted]
    BY <1>1 DEF f_mkfs, Quiet
  <2>2. ~Mounted'
    BY <1>0, <2>1 DEF Mounted, Objects
  <2> QED BY <2>1, <2>2 DEF FatInv
<1>2. CASE MkfsSize \/ MkfsVbr \/ MkfsFats \/ MkfsRoot \/ MkfsMbr \/ MkfsRefused
  <2>1. /\ UNCHANGED <<FatFs, fs, fat, put, puts>> /\ pc \notin {"idle", "put"} /\ pc' # "put"
    BY <1>2 DEF MkfsSize, MkfsVbr, MkfsFats, MkfsRoot, MkfsMbr, MkfsRefused, Quiet, mvars
  <2>2. fat = Null
    BY <2>1 DEF FatInv
  <2> QED BY <2>1, <2>2, FatKept
<1>3. ASSUME NEW f \in Fs \cup {Null}, NEW opt \in 0 .. 1, f_mount(f, opt) PROVE FatInv'
  <2> DEFINE reg == Registered(f)
  <2>1. /\ FatFs' = f /\ pc = "idle" /\ puts = 0 /\ UNCHANGED <<boot, fats, put, pc, puts>>
    BY <1>3 DEF f_mount, dvars
  <2>2. reg = [g \in Fs |-> reg[g]] /\ \A g \in Fs : reg[g] = Unmounted
    BY DEF Registered, Objects
  <2>3. CASE fs' = reg /\ fat' \in {Null, fat}
    <3>1. ~Mounted'
      BY <1>0, <2>1, <2>2, <2>3 DEF Mounted
    <3>2. fat' # Null => \E s \in find_volume' : fat' = CleanFat(Geometry(s)')
      BY <2>1, <2>3, BootKept DEF FatInv
    <3> QED BY <2>1, <3>1, <3>2 DEF FatInv
  <2>4. CASE opt = 1 /\ f # Null /\ mount_volume(f, Registered(f))
    <3>1. f \in Fs /\ mount_volume(f, reg)
      BY <2>4
    <3>2. CASE /\ fs'[f].fs_type \in Types
               /\ \E s \in find_volume :
                    /\ fs'[f].fs_type = Geometry(s).fs_type /\ fs'[f].n_fatent = Geometry(s).n_fatent
                    /\ fat' = IF fats = Null THEN Null ELSE CleanFat(Geometry(s))
      BY <2>1, <3>1, <3>2, FatMounted
    <3> HIDE DEF reg
    <3> QED BY <2>2, <2>3, <3>1, <3>2, MountVolume
  <2>5. (fs' = reg /\ fat' \in {Null, fat}) \/ (opt = 1 /\ f # Null /\ mount_volume(f, Registered(f)))
    BY <1>3 DEF f_mount
  <2> QED BY <2>3, <2>4, <2>5
<1>4. ASSUME NEW opens \in BOOLEAN, Call(opens) PROVE FatInv'
  <2>1. /\ FatFs' = FatFs /\ pc = "idle" /\ UNCHANGED <<boot, fats, put, pc, puts>>
        /\ \/ FatFs = Null /\ UNCHANGED <<fs, Fsid, fat>>
           \/ FatFs # Null /\ mount_volume(FatFs, fs)
    BY <1>4 DEF Call, dvars
  <2>2. CASE fs' = fs /\ fat' = fat
    BY <2>1, <2>2, FatKept
  <2>3. CASE FatFs # Null
    <3>1. FatFs \in Fs /\ fs = [g \in Fs |-> fs[g]] /\ mount_volume(FatFs, fs)
      BY <2>1, <2>3 DEF Objects
    <3>2. CASE /\ fs'[FatFs].fs_type \in Types
               /\ \E s \in find_volume :
                    /\ fs'[FatFs].fs_type = Geometry(s).fs_type
                    /\ fs'[FatFs].n_fatent = Geometry(s).n_fatent
                    /\ fat' = IF fats = Null THEN Null ELSE CleanFat(Geometry(s))
      BY <2>1, <3>1, <3>2, FatMounted
    <3> QED BY <2>2, <3>1, <3>2, MountVolume
  <2> QED BY <2>1, <2>2, <2>3
<1>5. ASSUME NEW c, NEW val \in Links, put_fat(c, val) PROVE FatInv'
  <2>1. /\ pc = "idle" /\ validate(obj) /\ fat # Null /\ puts' = puts + 1
        /\ UNCHANGED <<FatFs, fs>>
    BY <1>5 DEF put_fat
  <2>2. Mounted
    <3>1. obj.fs \in Fs /\ fs[obj.fs].fs_type # "none"
      BY <2>1 DEF validate, Objects
    <3>2. obj.fs = FatFs
      BY <1>0, <3>1 DEF Objects
    <3> QED BY <1>0, <3>1, <3>2 DEF Mounted
  <2>3. puts \in Nat /\ puts' # 0
    BY <2>1 DEF Objects
  <2>4. CASE UNCHANGED <<fat, pc, put>>
    BY <2>1, <2>3, <2>4 DEF FatInv, Mounted
  <2>5. CASE /\ c \in Probe(fs[FatFs])
             /\ fat' = PutFirst(fs[FatFs].fs_type, fat, c, val)
             /\ put' = [clst |-> c, val |-> val] /\ pc' = "put"
    <3> DEFINE g == fs[FatFs]
    <3>1. g.fs_type \in Types /\ fat \in [FatDomain(g) -> Byte]
      BY <2>1, <2>2 DEF FatInv
    <3>2. c \in Nat /\ Span(g.fs_type, c) \subseteq FatDomain(g)
      BY <2>5, ProbeClusters
    <3>3. val \in Dword
      BY LinksType
    <3>4. fat' \in [FatDomain(g) -> Byte]
      <4> HIDE DEF g
      <4>1. fat' = PutFirst(g.fs_type, fat, c, val)
        BY <2>5 DEF g
      <4> QED BY <3>1, <3>2, <3>3, <4>1, PutFirstType
    <3>5. g' = g
      BY <2>1
    <3>6. put'.clst = c /\ put'.val = val
      BY <2>5
    <3>7. HalfPut'
      BY <2>1, <2>5, <3>1, <3>6 DEF HalfPut
    <3>8. Mounted'
      BY <2>1, <2>2 DEF Mounted
    <3> QED BY <2>1, <2>3, <2>5, <3>1, <3>4, <3>6, <3>7, <3>8 DEF FatInv
  <2> QED BY <1>5, <2>4, <2>5 DEF put_fat
<1>6. CASE put_fat_rest
  <2> DEFINE g == fs[FatFs]
  <2>1. /\ pc = "put" /\ pc' = "idle" /\ put' = Null /\ UNCHANGED <<FatFs, fs, puts>>
        /\ fat' = fat \/ fat' = PutSecond(g.fs_type, fat, put.clst, put.val)
    BY <1>6 DEF put_fat_rest
  <2>2. /\ Mounted /\ puts # 0 /\ g.fs_type \in Types
        /\ put.clst \in Probe(g) /\ put.val \in Links
    BY <2>1 DEF FatInv
  <2>3. PICK f \in [FatDomain(g) -> Byte] : fat = PutFirst(g.fs_type, f, put.clst, put.val)
    BY <2>1 DEF FatInv, HalfPut
  <2>4. put.clst \in Nat /\ Span(g.fs_type, put.clst) \subseteq FatDomain(g) /\ put.val \in Dword
    BY <2>2, ProbeClusters, LinksType
  <2>5. fat' \in [FatDomain(g) -> Byte]
    <3> HIDE DEF g
    <3> QED BY <2>1, <2>2, <2>3, <2>4, PutFirstType
  <2> QED BY <2>1, <2>2, <2>5 DEF FatInv, Mounted
<1>7. CASE UNCHANGED vars
  <2>1. UNCHANGED <<FatFs, fs, fat, put, puts, pc, boot>>
    BY <1>7 DEF vars, mvars, dvars
  <2>2. CASE pc # "put"
    BY <2>1, <2>2, FatKept DEF FatInv
  <2>3. CASE pc = "put"
    BY <2>1, <2>3 DEF FatInv, Mounted, HalfPut
  <2> QED BY <2>2, <2>3
<1>8. QED BY <1>1, <1>2, <1>3, <1>4, <1>5, <1>6, <1>7 DEF Next, Step

\* A volume that is mounted again has the FAT it had: nothing was put since.
LEMMA FatRemounted ==
  ASSUME FatInv, puts = 0, fat # Null, fat' # Null,
         fat' = fat \/ \E s \in find_volume :
                         fat' = IF fats = Null THEN Null ELSE CleanFat(Geometry(s))
  PROVE  fat' = fat
<1>1. PICK s \in find_volume : fat = CleanFat(Geometry(s))
  BY DEF FatInv
<1>2. QED BY <1>1, OneVolume

\* Only put_fat changes a FAT in place.
LEMMA FatChanged ==
  ASSUME Objects, FatInv, [Next]_vars, fat # Null, fat' # Null, fat' # fat
  PROVE  (\E val \in Links : \E c : put_fat(c, val)) \/ put_fat_rest
<1>1. ASSUME NEW o \in Opt, f_mkfs(o) PROVE FALSE
  BY <1>1 DEF f_mkfs
<1>2. CASE MkfsSize \/ MkfsVbr \/ MkfsFats \/ MkfsRoot \/ MkfsMbr \/ MkfsRefused
  BY <1>2 DEF MkfsSize, MkfsVbr, MkfsFats, MkfsRoot, MkfsMbr, MkfsRefused, Quiet, mvars
<1>3. ASSUME NEW f \in Fs \cup {Null}, NEW opt \in 0 .. 1, f_mount(f, opt) PROVE FALSE
  <2>1. puts = 0 /\ f \in Fs /\ mount_volume(f, Registered(f))
    BY <1>3 DEF f_mount
  <2>2. Registered(f) = [g \in Fs |-> Registered(f)[g]]
    BY DEF Registered, Objects
  <2> QED BY <2>1, <2>2, MountVolume, FatRemounted
<1>4. ASSUME NEW opens \in BOOLEAN, Call(opens) PROVE FALSE
  <2>1. puts = 0 /\ FatFs \in Fs /\ mount_volume(FatFs, fs)
    BY <1>4 DEF Call, Objects
  <2>2. fs = [g \in Fs |-> fs[g]]
    BY DEF Objects
  <2> QED BY <2>1, <2>2, MountVolume, FatRemounted
<1>5. CASE UNCHANGED vars
  BY <1>5 DEF vars, mvars
<1>6. QED BY <1>1, <1>2, <1>3, <1>4, <1>5 DEF Next, Step

\* A step that changes a FAT in place changes the entry that is put and no other.
LEMMA FatStep ==
  ASSUME Objects, Objects', FatInv, [Next]_vars, fat # Null, fat' # Null, fat' # fat
  PROVE  LET g == fs[FatFs]
             p == IF put # Null THEN put ELSE put'
         IN /\ \A c \in Probe(g) \ {p.clst} :
                 get_fat(g.fs_type, fat', c) = get_fat(g.fs_type, fat, c)
            /\ ret' = "ok" /\ pc = "put" =>
                 get_fat(g.fs_type, fat', p.clst) = Stored(g.fs_type, p.val)
<1> DEFINE g == fs[FatFs]
           p == IF put # Null THEN put ELSE put'
<1>1. ASSUME NEW c, NEW val \in Links, put_fat(c, val)
      PROVE  /\ pc # "put"
             /\ \A d \in Probe(g) \ {p.clst} : get_fat(g.fs_type, fat', d) = get_fat(g.fs_type, fat, d)
  <2>1. /\ pc = "idle" /\ c \in Probe(g) /\ pc' = "put" /\ put' = [clst |-> c, val |-> val]
        /\ fat' = PutFirst(g.fs_type, fat, c, val) /\ g' = g /\ validate(obj)
    BY <1>1 DEF put_fat
  <2>2. p.clst = c
    BY <2>1 DEF FatInv
  <2>3. Mounted
    <3>1. obj.fs \in Fs /\ fs[obj.fs].fs_type # "none"
      BY <2>1 DEF validate, Objects
    <3>2. Null \notin Fs /\ Unmounted.fs_type = "none"
      BY Kinds DEF Unmounted
    <3>3. obj.fs = FatFs
      BY <3>1, <3>2 DEF Objects
    <3> QED BY <3>1, <3>2, <3>3 DEF Mounted
  <2>4. g.fs_type \in Types /\ fat \in [FatDomain(g) -> Byte]
    BY <2>3 DEF FatInv
  <2>5. c \in Nat /\ Span(g.fs_type, c) \subseteq FatDomain(g) /\ val \in Dword
    BY <2>1, ProbeClusters, LinksType
  <2>6. ASSUME NEW d \in Probe(g) \ {c}
        PROVE  get_fat(g.fs_type, fat', d) = get_fat(g.fs_type, fat, d)
    <3>1. d \in Nat /\ Span(g.fs_type, d) \subseteq FatDomain(g)
      BY ProbeClusters
    <3> HIDE DEF g
    <3> QED BY <2>1, <2>4, <2>5, <3>1, PutOther
  <2> HIDE DEF g, p
  <2> QED BY <2>1, <2>2, <2>6
<1>2. CASE put_fat_rest
  <2>1. /\ pc = "put" /\ put' = Null
        /\ fat' = PutSecond(g.fs_type, fat, put.clst, put.val)
    BY <1>2 DEF put_fat_rest
  <2>2. p = put
    BY <2>1
  <2>3. g.fs_type \in Types /\ put.clst \in Probe(g) /\ put.val \in Links
    BY <2>1 DEF FatInv
  <2>4. PICK f \in [FatDomain(g) -> Byte] : fat = PutFirst(g.fs_type, f, put.clst, put.val)
    BY <2>1 DEF FatInv, HalfPut
  <2>5. put.clst \in Nat /\ Span(g.fs_type, put.clst) \subseteq FatDomain(g) /\ put.val \in Dword
    BY <2>3, ProbeClusters, LinksType
  <2>6. ASSUME NEW d \in Probe(g) \ {put.clst}
        PROVE  get_fat(g.fs_type, fat', d) = get_fat(g.fs_type, fat, d)
    <3>1. d \in Nat /\ Span(g.fs_type, d) \subseteq FatDomain(g)
      BY ProbeClusters
    <3> HIDE DEF g
    <3> QED BY <2>1, <2>3, <2>4, <2>5, <3>1, PutOther
  <2>7. get_fat(g.fs_type, fat', put.clst) = Stored(g.fs_type, put.val)
    <3> HIDE DEF g
    <3> QED BY <2>1, <2>3, <2>4, <2>5, PutGet
  <2> HIDE DEF g, p
  <2>8. /\ \A c \in Probe(g) \ {p.clst} : get_fat(g.fs_type, fat', c) = get_fat(g.fs_type, fat, c)
        /\ get_fat(g.fs_type, fat', p.clst) = Stored(g.fs_type, p.val)
    BY <2>2, <2>6, <2>7
  <2> QED BY <2>8 DEF g, p
<1>3. QED BY <1>1, <1>2, FatChanged

\* put_fat changes no entry but the one it is given, on any mounted volume of any
\* FAT type, also when the move to the second half of a 12-bit entry fails; and
\* get_fat then returns what was put.
THEOREM VolumeFatOwnEntry == Spec => FatOwnEntry
<1> DEFINE Inv == Objects /\ FatInv
<1>1. Init => Inv
  BY MountInit, FatInit DEF MountInv
<1>2. Inv /\ [Next]_vars => Inv'
  BY ObjectsNext, FatNext
<1>3. ASSUME Inv, [Next]_vars
      PROVE  [fat # Null /\ fat' # Null /\ fat' # fat =>
               LET g == fs[FatFs]
                   p == IF put # Null THEN put ELSE put'
               IN /\ \A c \in Probe(g) \ {p.clst} :
                       get_fat(g.fs_type, fat', c) = get_fat(g.fs_type, fat, c)
                  /\ ret' = "ok" /\ pc = "put" =>
                       get_fat(g.fs_type, fat', p.clst) = Stored(g.fs_type, p.val)]_vars
  BY <1>3, ObjectsNext, FatStep
<1>4. QED BY <1>1, <1>2, <1>3, PTL DEF Spec, FatOwnEntry
===============================================================================
