------------------------------- MODULE FatTable -------------------------------
(***************************************************************************)
(* The packing of FAT entries into bytes by get_fat and put_fat of ff.c,   *)
(* for the three widths.  A FAT is a function from byte offsets to bytes,  *)
(* a DWORD the sequence of its four bytes, lowest first.  put_fat is cut   *)
(* where it calls move_window: a 12-bit entry is written in two parts that *)
(* may lie in different sectors.                                           *)
(***************************************************************************)
EXTENDS Integers, Sequences

SS == 512

\* First byte of the entry of a cluster.
EntryByte(type, clst) ==
  CASE type = "FAT12" -> clst + (clst \div 2)
    [] type = "FAT16" -> clst * 2
    [] type = "FAT32" -> clst * 4

\* Number of bytes get_fat reads for an entry.
EntryBytes(type) ==
  CASE type \in {"FAT12", "FAT16"} -> 2
    [] type = "FAT32" -> 4

\* The value get_fat returns, when the moves succeed.
get_fat(type, fat, clst) ==
  LET bc == EntryByte(type, clst)
      wc == fat[bc] + 256 * fat[bc + 1]
  IN CASE type = "FAT12" -> IF clst % 2 = 1 THEN wc \div 16 ELSE wc % 4096
       [] type = "FAT16" -> wc
       [] type = "FAT32" -> wc + 65536 * (fat[bc + 2] + 256 * (fat[bc + 3] % 16))

\* What get_fat returns for an entry that holds val.
Stored(type, val) ==
  CASE type = "FAT12" -> val[1] + 256 * (val[2] % 16)
    [] type = "FAT16" -> val[1] + 256 * val[2]
    [] type = "FAT32" -> val[1] + 256 * val[2] + 65536 * (val[3] + 256 * (val[4] % 16))

\* put_fat up to its second move_window, and what it does after it.  Entries
\* of 16 and 32 bits are written whole after the first move.
PutFirst(type, fat, clst, val) ==
  LET bc == EntryByte(type, clst)
  IN CASE type = "FAT12" ->
            [fat EXCEPT ![bc] = IF clst % 2 = 1 THEN (@ % 16) + ((val[1] * 16) % 256)
                                                ELSE val[1]]
       [] type = "FAT16" -> [fat EXCEPT ![bc] = val[1], ![bc + 1] = val[2]]
       [] type = "FAT32" ->
            [fat EXCEPT ![bc] = val[1], ![bc + 1] = val[2], ![bc + 2] = val[3],
                        ![bc + 3] = (val[4] % 16) + (@ \div 16) * 16]

\* Faulty variant: the second byte of an even entry is written whole.
PutSecond_f(type, fat, clst, val) ==
  LET bc == EntryByte(type, clst) + 1
  IN IF type = "FAT12"
     THEN [fat EXCEPT ![bc] = IF clst % 2 = 1 THEN (val[1] \div 16) + (val[2] % 16) * 16
                                              ELSE val[2] % 16]
     ELSE fat

PutSecond(type, fat, clst, val) ==
  LET bc == EntryByte(type, clst) + 1
  IN IF type = "FAT12"
     THEN [fat EXCEPT ![bc] = IF clst % 2 = 1 THEN (val[1] \div 16) + (val[2] % 16) * 16
                                              ELSE (@ \div 16) * 16 + (val[2] % 16)]
     ELSE fat
===============================================================================
